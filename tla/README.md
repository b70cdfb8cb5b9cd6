# A TLA+ model of JSOS

JSOS is an operating system written in TypeScript that runs on QuickJS on bare
metal. A small C kernel gives it interrupts, a timer, drivers and a table of
child JavaScript runtimes; everything else (processes, signals, threads,
services, file systems, network, windows) is one JavaScript program under
`src/src/os`, driven by the frame loop in `core/main.ts`.

This directory holds TLA+ modules translated from that code, TLC configurations
for small instances of them, and theorems about the scheduler that TLAPS checks
for every instance. `PROJECT.json` lists the components, the runs, the hazards
and, for each definition, the lines it models.

To repeat the checks, in this directory:

    tlc -workers 2 -config SchedulerCore.cfg MCScheduler   # and so on, see "Runs"
    tlapm ArrayProofs.tla; tlapm SchedulerLemmas.tla; tlapm SchedulerProofs.tla

## 1. The system and where it is hard

JavaScript runs to completion, so an API call is atomic **unless it calls
foreign code on the way or awaits**. The difficulties of this code base come
from five sources, and the models are cut along them:

| source | where |
|---|---|
| two components call each other in the middle of a loop | `scheduler.ts` and `signals.ts`; `supervisor.ts` and its callbacks; `tickCoroutines` and its steps |
| several tables name one thing by a number | PIDs in `scheduler.ts` and `process.ts`, runtime slots in `jsprocess.ts`, coroutine ids |
| an operation is suspended and others run meanwhile | the drain loop and `barrier()` of `blockdev.ts` |
| one step of several fails | a throwing writeback handler, a failed dependency, a CPU fault that abandons a frame |
| something must eventually happen | a ready process runs, a service respawns, a child is restarted, a dirty block is written |

### Inventory

| component | state | operations | interacts with | modelled in |
|---|---|---|---|---|
| process scheduler (`process/scheduler.ts`) | process table, run queue, blocked queue, current process, PID counter | create, terminate, block, unblock, wait, tick, schedule, priorities, policies, limits | signals, process manager, window manager (tick) | `Scheduler`, `ReadyQueueOps` |
| run queue (class `RunQueue` there) | heap array, insertion numbers | push, pop, remove, has | scheduler | `RunQueue`, `ReadyQueue` |
| signals (`process/signals.ts`) | pending list, masks, handlers | send, handle, mask, deliver, clean up | scheduler | `Scheduler` |
| process manager (`process/process.ts`) | its own process table and PID counter | fork, exec, waitpid, kill, nice, exit hook | scheduler, descriptors, address spaces | `ProcessManager` |
| coroutines (`process/threads.ts`) and the frame loop (`core/main.ts`) | coroutine list, fault counter, cooldown | run, cancel, tick, clear; guarded frame | every asynchronous service | `Coroutines` |
| init (`process/init.ts`) | service instances, run level | start, stop, restart, run levels, exit, respawn | process exits, frame loop | `InitSystem` |
| supervisor (`process/supervisor.ts`), child runtimes (`process/jsprocess.ts`, kernel slots, `ui/wm.ts`) | children, handles, slots, quarantine | spawn, kill, restart, shutdown, tick, callbacks | coroutines, window manager | `Supervisor` |
| buffer cache (`fs/buffer-cache.ts`) | entries, LRU order, handlers | get, put, flush, evict, timer | drivers | `BufferCache` |
| block request queue (`fs/blockdev.ts`) | three elevators, drain loop | read, write, barrier, switch | device, file systems | `BlockQueue` |
| threads and their mutexes (`process/threads.ts`, `process/sync.ts`) | thread states, wait queues | block, sleep, wake; lock, wait, signal | frame loop | planned |
| IPC (`ipc/ipc.ts`) | queues, timers, waiters | send, receive, broadcast, timers, polling locks | scheduler | planned |
| descriptors (`core/fdtable.ts`), pseudo-terminals, poll | tables of shared descriptions | open, dup, pipe, clone, close | process manager | planned |
| memory (`process/physalloc.ts`, `process/vmm.ts`) | bitmap, page directories, shared pages | alloc, free, fork, fault | process manager | planned |
| network (`net/net.ts`, `dhcp.ts`, `dns.ts`) | connections, timers, inboxes | TCP state machine, retransmission, exchanges | frame loop | planned |
| file systems (`fs/filesystem.ts`, `fs/overlayfs.ts`, `storage/`) | trees, layers, cluster chains | write, rename, remove, mount | block queue, cache | planned |

The remaining parts (codecs, cryptography, compilers, drawing, applications,
foreign disk formats, drivers) are computations or hardware access with no
protocol of their own; `PROJECT.json` lists each with the reason it is left out.

## 2. The modules

    Arrays            filtering a sequence by position       ArrayProofs
    ReadyQueueOps     the run queue's contract, as operators
      ReadyQueue      the same as a specification
        RunQueue      the binary heap, implements ReadyQueue (MCRunQueue)
      Scheduler       scheduler and signals   (MCScheduler, SchedulerLemmas, SchedulerProofs)
        ProcessManager  fork, kill, exit hook on top of it
    Coroutines        coroutine list and guarded frames
    InitSystem        services and respawn                   (MCInitSystem, LoadedServices)
    Supervisor        supervised child runtimes
    BufferCache       block cache and writeback timer
      MCTicks         the four above, each driven by its periodic tick
    BlockQueue        elevators, drain loop, barrier

### Scheduler, with the signal manager

The state is the code's, field by field: `ctx` holds the `ProcessContext`
objects (by creation number, since after PID reuse two objects carry one PID),
`processes` the table, `readyQueue`, `blockedQueue`, `currentProcess`,
`nextPid`, and `pending`, `sigMasks`, `handlers` of the signal manager.

The two classes call each other: `deliverPending()` walks `_pending`, a fatal
signal calls `terminateProcess()`, which calls `cleanup()`, which *replaces*
`_pending` under the loop, and then `schedule()`. The model keeps this: up to the
first fatal signal, at index k, the loop reads the old array, and from k + 1 on
the one that `cleanup()` left; after the death it keeps whatever it still meets.
Operators map a state record to the set of possible outcomes, because a call
that ends in `schedule()` may have several; an action is one public call.

There are two next-state relations. `CoreNext` is the calls as the rest of the
system makes them: idle is neither signalled nor blocked, `waitForProcess` only
reaps, PIDs do not wrap, nobody calls `setCurrentPid`. `Next` adds the two calls
that nothing in the tree makes today, waits on a live process and
`setCurrentPid`, for the PIDs in `UserPids`; PIDs do not wrap in it either. The
queue invariants hold for `CoreNext` and are proved for it. Waits on live
processes already break them (a process that waits stays current, and one that
waits twice has two queue entries), and `NoForgottenProcess`, what is left of
them, is checked for `Next`. Once a PID is reused that fails as well; see "Other
places" below.

Left out: FPU save areas, CR3 switches, accounting, groups and affinity, on
which no decision depends. A user's signal handler has no effect on the
scheduler.

### RunQueue implements ReadyQueue

The scheduler model uses the queue through a contract: a bag of contexts and a
stamp per PID, from which `pop()` takes a least entry. The heap reads its keys
from live objects, so `setPriority()`, a second push of a PID and the removal of
one of two entries re-key entries in place without a sift. The contract says so:
once that has happened (`sorted` false) `pop()` may return any entry, until the
heap has drained to one. `RunQueue` is the array with its sift loops; the run
checks that it implements `ReadyQueue` under the mapping `Contract` defines.

### ProcessManager

`process.ts` has a table and a PID counter of its own. The module extends
`Scheduler` and composes every step of `CoreNext` with the exit hook. The two
counters collide: the first `fork()` gets the PID of init, later ones those of
created processes. A child may then be in neither the table nor the run queue
(`fork_unregistered`), and removals by PID hit the wrong one of the two. What
does hold is that this stays between the processes that share a PID
(`OwnPidInOneQueue`).

### Coroutines

A frame is split into what runs before the tick, the tick and what runs after
it. A step is foreign code inside `tickCoroutines`, so the tick is split at every
step: between `StepBegin` and its end the step may register and cancel, as may
the rest of the frame. A CPU fault anywhere in the frame makes `guardedRun`
abandon it with its locals; five in a row, or one with heap damage, clear the
list and start the cooldown. Only the end of a frame resets the counter.

### InitSystem

Each call is one step; starting recurses through dependencies, which may be
missing or cyclic. A service's code is foreign and is taken not to call back.
Time is kept relative to the last tick. `processes` counts the processes of a
service that were started and whose exit is not reported yet: neither
`stopService` nor `restartService` ends one, so an exit may come late, or from
the process before the present one. `unwanted` remembers which services were
last asked to stop.

### Supervisor

Children, their handles, the kernel's runtime slots and the window manager that
pumps the same runtimes. `tick()` is split where it calls onMessage and onCrash
callbacks, which may call back. Budget and heartbeat checks may fail whenever
they are made. `shutdown()` also stops the coroutine that calls `tick()`; this is
left to the fairness, which goes on ticking an empty list. In the passing run an
onCrash callback does not call `restart()`: `_crash()` schedules a second restart
after it, and the runtime the callback started is then overwritten and lost
(`supervisor.ts:414`).

### BufferCache and BlockQueue

The cache has both orders that matter (Map iteration and last use), handlers
that throw in the middle of a flush, and devices that come and go; drivers use
it as the file header prescribes. The block queue has its drain loop and
`barrier()` as two processes suspended at `await`, requests of several sectors,
deadlines that expire in any order, and a device that fails, a write possibly
after some of its sectors. Settling a promise and the loop's next look at the
queue are one step: what runs at the `await` between them finds the same queue
and `_running` set, as it does before. `setElevator()`, which nothing in the tree
calls, is taken to be called when no request waits (`SwitchBusy = FALSE`): it
moves nothing, so requests in the previous elevator's queue would stay there.

### MCTicks

`Coroutines`, `InitSystem`, `Supervisor` and `BufferCache` make progress only
because something calls their `tick()` again and again. They share no state, so
a behaviour of all four is an interleaving of one of each, and a property of one
holds in it if it holds with the other three at rest. `MCTicks` checks them in
one run: `focus` is the component that moves, and the properties are those of the
components.

## 3. Runs

Passing runs:

| run | configuration, module | shows |
|---|---|---|
| `scheduler_core` | `SchedulerCore`, `MCScheduler` | types; every context is in exactly the queue its state names; termination is final; while nobody dies, delivery loses no signal of others and no masked one; SIGKILL takes effect at the next tick whatever is masked |
| `scheduler_fair` | `SchedulerFair`, `MCScheduler` | a process over its CPU limit is eventually killed, although signals can be lost; equal priorities do not starve |
| `scheduler_waits` | `SchedulerWaits`, `MCScheduler` | with waits on a live process, repeated ones too, and `setCurrentPid`, before a PID is reused: no ready process of the table outside the run queue, no blocked or waiting one outside `blockedQueue` |
| `run_queue` | `RunQueue`, `MCRunQueue` | heap order until an entry is re-keyed in place; the heap implements the contract, also after re-keying and PID reuse |
| `process_manager` | `ProcessManager` | with fork and colliding PIDs, a process whose PID is its own is in exactly the queue its state names and in the table |
| `ticks` | `Ticks`, `MCTicks` | *coroutines*: none lost, duplicated or overtaken; crash loops end. *init*: starts are complete, with running dependencies but for two cases; a scheduled respawn survives and happens, unless the service is asked to stop. *supervisor*: state and handle agree; no slot is lost; restarts happen, and a child that only crashes is given up. *cache*: clean entries equal the disk; eviction and broken-off flushes are invisible to readers; clean goes before dirty; dirty blocks reach the disk |
| `block_queue` | `BlockQueue` | every request is in one place; the drain loop never sleeps on work; the budgets bound how often one kind passes the other; newer data is overwritten by older only in one case of C-SCAN |

Violated runs, each a sentence of the repository that the code does not keep
(the quotations are in `PROJECT.json`, "findings"):

| run | what happens |
|---|---|
| `scheduler_signals_lost` | a death during delivery skips the next entries, which are dropped |
| `fork_unregistered` | a child forked while init, whose PID it gets, is queued is ready, in neither the table nor the run queue, and never runs |
| `supervisor_killed` | a `kill()` made in an onCrash callback is overruled by the restart policy |
| `init_stopped` | a stopped service is started again after the exit of its process is reported |
| `block_barrier` | the drain loop takes the last request that `barrier()` found queued, and `barrier()` returns before the device has answered for it |

### Other places where code and comments part

These came up while modelling. The models behave as the code does; the
properties above are stated so that they hold of it, and no run is kept for
them.

- `scheduler.ts:446`: a process scheduled because another died of a signal is
  charged a tick before its own signals are delivered ("before the process gets
  more CPU time", line 443).
- `signals.ts:117`: a masked signal of a process that dies during delivery is
  written back after `cleanup()` ran.
- `scheduler.ts:242`: the three boot processes share one limits object, which
  `setProcessLimits()` assigns in place (`SharesLimits`).
- `scheduler.ts:680`: `setPriority()` of a queued process does not re-sift the
  heap, and `pop()` can return a less urgent one (`Rekeyed`).
- `scheduler.ts:373` ("Wake any process waiting for this one", line 367): when
  the PID counter has wrapped and another process with the waiter's PID is
  queued, the waiter is made ready and not pushed. `scheduler.ts:369` does not
  ask for the waiter's state, so one that was terminated while it waited is made
  ready again; `TerminatedIsFinal` is about `CoreSpec`, which has no waiters.
- `process.ts:130`: a forked child with init's PID that is queued is still not
  entered in the scheduler's table, so it is in no listing (`Register`).
- `threads.ts:257`: a coroutine cancelled from inside a tick is stepped again if
  it was pending; `threads.ts:245`: one that returned 'done' is stepped again if
  a later step of the frame faults; `threads.ts:239`: one that always uses up
  the budget starves the younger ones.
- `init.ts:86` and `97`: in a cycle of dependencies a service takes the other
  one's 'starting' for success and keeps running when that one then fails.
  `init.ts:206-211`: a dependency of a higher run level is started for a service
  and stopped again by the same call. `StartedWithDependencies` excepts the two.
- `init.ts:206`: a crashed service waiting for its respawn survives `stopService`,
  `shutdown` and the change to a lower run level; `RespawnNotDropped` and
  `RespawnHappens` ask nothing of such a service.
- `supervisor.ts:486`: `_restarts` is never reset, so `maxRestarts`, the "Max
  consecutive restarts before the supervisor gives up." (line 116), bounds all
  restarts of a child. `GivesUp` holds under either reading.
- `supervisor.ts:362`: the rest of a drain is handled after one of its messages
  crashed or restarted the child; `jsprocess.ts:133`: a handle reports alive
  when another runtime has its slot.
- `buffer-cache.ts:192`: a dirty block of a device without a handler is evicted
  unwritten, which is why `ViewStable` is about registered devices.
- `blockdev.ts:150`: C-SCAN sorts by the first sector, so an older write at
  sector 1 and a newer one of sectors 0 and 1 change places and the older data
  stays (`WritesKeepOrder` excepts exactly this).
- `blockdev.ts:156`: C-SCAN takes `sector >= head`, so requests that keep arriving
  at the head's sector hold back all others; `blockdev.ts:104`: expired reads
  always go before expired writes. `BoundedBypass` is about the deadline elevator
  while nothing expires.

### Bounds

Bounds are constants named in each module. The scheduler runs have the three
boot processes and one or two more, two pending signals (one to be skipped, one
to skip it) and slices of one or two ticks, which tell "slice over" from "not
over". In `scheduler_core` the kernel process, at priority 0, keeps the CPU while
it is runnable; the theorems of section 4 do not depend on such a choice. In
`scheduler_waits` a context may be in the queues twice (`MaxEntries = 2`), so that
a process waits again after a wait. `process_manager` adds two processes to the
boot ones, forked or created, whose PIDs may collide with each other and with
init's. The heap has six entries: three levels, so that `remove` can move an entry
into another subtree and up; entries are re-keyed only while at most `MaxRekey`
insertions were made, since the contract says nothing of the order after that. Coroutines: three ids, the real fault threshold. Init: four
services with a dependency of a higher run level, a cycle through one that fails
because of a missing dependency, every restart policy, a backoff that doubles
once, one unreported process of each (two in `init_stopped`). Supervisor: two
children, one with a time slice and one without, one slot to compete for, two
messages per drain, three calls. Cache: two entries for three blocks on two
devices, a flush at every second tick. Block queue: four requests of one or two
sectors on two sectors, reads of one of them, budgets of one read and two writes. `ForkSlice` is 1 in place of
the code's 10, which only lengthens the run between two preemptions.

`CHECK_DEADLOCK FALSE` is set for the block queue, where all requests of the
bounded workload being settled is the normal end.

### Fairness

Each fair specification assumes weak fairness of the code's periodic call and
nothing else: `scheduler.tick()` per frame (`FairCoreSpec`), the frame itself and
the end of the cooldown (`Coroutines`), `init.tick()` with time passing,
the supervisor's coroutine with returning callbacks, a writeback timer whose
handlers do not throw in every tick for ever. The block queue has no fair
specification: with as many requests as the code may get, starvation is possible
(see above), and with a bounded number of them it is not.

## 4. Proofs

`SchedulerProofs` proves for all constants that satisfy `BoundsAssumption` and
`UserPidsAssumption` (any number of contexts, PIDs, priorities, signals, limits):

- `TypeCorrect`: `CoreSpec => []TypeOK`
- `QueuesCorrect`: `CoreSpec => []QueuesMatchStates`
- `TerminationIsFinal`: `CoreSpec => TerminatedIsFinal`

The invariant is `IInv == Sane(Now) /\ currentProcess \in Ctx /\ NextOK`.
`QueuesMatchStates` alone is not inductive, for three reasons, one per conjunct:

- `terminateProcess(pid)` removes queue entries **by PID**, so it is right only if
  no other live context has that PID: every live context is the one its PID
  names in the table (`TableOK`).
- `schedule()` hands an empty run queue to idle, so idle must be alive, in the
  table and, the queue being empty, the running process already; and it must
  have no CPU limit, or a tick could kill it (`BootOK`).
- `createProcess()` takes `nextPid` without looking, so it must be above every
  PID in use (`NextOK`). After a wrap it is not, which is why the theorems are
  about `CoreSpec`.

`SchedulerLemmas` proves for each operator (push, take, dispatch, schedule,
terminate, unblock, block, charge, deliver, tick) that it keeps `Sane` and
`Keeps` the PIDs and the dead. Filtered arrays (`cleanup`, the delivery loop) are
defined by position, "the n-th position that is kept"; `ArrayProofs` proves that
there is one for every n up to their number, from the least-element principle,
and hence that filtering keeps the element type. `SchedulerProofs` then has one
lemma per action and combines them.

Only model-checked: liveness (everywhere), the signal-queue properties (their
statements are about subsequences), the refinement of the run queue, and all
other modules.

## 5. Plan

1. *Concurrency primitives*: `ThreadSync` (threads.ts with sync.ts: mutual
   exclusion with the missing suspension of `lock()`, ownership handed to dead
   threads), `Timers` and `IpcSync` (ipc.ts: timer list under re-entrant
   callbacks, polling locks with timeouts), `MessageQueue` (depth, broadcast).
2. *Resources*: `FDTable` composed with `ProcessManager` (shared descriptions
   over fork and exit; abstract specification with reference counts),
   `PhysAlloc` (bitmap against a set of frames, boundary sizes),
   `CowManager`.
3. *Network*: `Tcp`, two ends over a lossy, duplicating, reordering channel with
   sequence numbers modulo a small power of two; abstract specification a FIFO
   byte stream; then `Dhcp` and the resolver's query slots.
4. *Files*: `Overlay` against a plain tree, `Vfs`, FAT cluster chains composed
   with `BufferCache`.
5. *Proofs*, in this order: `Coroutines` (`OldestFirst`, `NoneLost`: needs what
   the locals of the tick know about the list), `BufferCache`
   (`CleanMatchesDisk`), `Supervisor` (`NoRuntimeLeaked`), `RunQueue`
   (`HeapOrdered`), then the descriptor and frame tables. Modules meant for proof
   use functions instead of RECURSIVE operators and `Filtered` of `Arrays` in
   place of the library's sequence filters.

The hazards of `PROJECT.json` without a property belong to items 1 to 4, but for
the two whose note says that the code makes no promise to check.
