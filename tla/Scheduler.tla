----------------------------- MODULE Scheduler -----------------------------
(***************************************************************************)
(* The process scheduler and the signal manager of JSOS                    *)
(* (process/scheduler.ts, process/signals.ts).  The two call each other:   *)
(* sending a signal unblocks its target, delivering one may terminate the  *)
(* process it is delivered to, termination cleans up the signal state in   *)
(* the middle of the delivery loop and schedules another process.          *)
(*                                                                         *)
(* JavaScript runs to completion, so every API call is one step.  A call   *)
(* that ends in schedule() has a set of outcomes, one for each entry the   *)
(* run queue may return; the operators below map a state to that set.      *)
(*                                                                         *)
(* Contexts (ProcessContext objects) have an identity apart from their     *)
(* PID: `processes' maps a PID to a context while the queues hold contexts, *)
(* and after a PID was reused two contexts carry the same PID.             *)
(***************************************************************************)
EXTENDS Integers, Sequences, FiniteSets, Arrays, ReadyQueueOps

CONSTANTS
    MaxCtx,      \* bound: contexts created in a behaviour, the boot ones included
    MaxPid,      \* the last PID before the counter wraps to 2 (32767 in the code)
    Slices,      \* time slices given to new processes (setTimeSlice, options.timeSlice)
    TimeSlice,   \* time slice of the boot processes (3 in the code)
    Priorities,  \* priorities given to createProcess
    PriorityChanges,  \* priorities given to setPriority
    CpuLimits,   \* CPU-time limits in ticks, 0 = unlimited
    MaxPending,  \* bound: length of the pending-signal queue
    MaxEntries,  \* bound: queue entries a waiting context may have
    Sigs,        \* signals sent, handled and masked
    MaskChoices,     \* signal masks set
    HandlerChoices,  \* handlers installed
    PolicyChoices,   \* per-process policies set
    Algorithms,      \* global algorithms set
    UserPids     \* PIDs that make system calls and are sent signals; not idle

Ctx  == 1..MaxCtx
PIDs == 0..MaxPid
NoCtx == 0
NoPid == -1

IDLE == 0
SIGKILL == 9
SIGCHLD == 17
SIGCONT == 18
SIGSTOP == 19
SIGXCPU == 24
AllSigs == Sigs \cup {SIGXCPU}

Policies == {"round-robin", "priority", "real-time"}
Handlers == {"default", "ignore", "function"}

ASSUME BoundsAssumption ==
    /\ MaxCtx \in Nat /\ MaxCtx >= 3
    /\ MaxPid \in Nat /\ MaxPid >= 3
    /\ MaxPending \in Nat /\ MaxEntries \in Nat
    /\ Slices \subseteq Nat
    /\ TimeSlice \in Nat
    /\ Priorities \subseteq Int /\ PriorityChanges \subseteq Int
    /\ CpuLimits \subseteq Nat
    /\ \E m \in CpuLimits \cup {0} : \A l \in CpuLimits \cup {0} : l <= m
    /\ Sigs \subseteq Nat
    /\ MaskChoices \subseteq SUBSET Sigs
    /\ HandlerChoices \subseteq Handlers
    /\ PolicyChoices \subseteq Policies \cup {"inherit"}
    /\ Algorithms \subseteq Policies

ASSUME UserPidsAssumption == UserPids \subseteq PIDs \ {IDLE}

VARIABLES
    ctx,             \* context -> its fields; "unborn" before it is created
    processes,       \* PID -> context, the process table
    readyQueue,      \* see ReadyQueueOps
    blockedQueue,    \* context -> number of entries in blockedQueue
    currentProcess,  \* context or NoCtx
    nextPid,
    algorithm,
    pending,         \* SignalManager._pending: sequence of [pid, sig]
    sigMasks,        \* PID -> set of masked signals
    handlers         \* PID -> signal -> handler

vars == <<ctx, processes, readyQueue, blockedQueue, currentProcess, nextPid,
          algorithm, pending, sigMasks, handlers>>

ProcessState == {"ready", "running", "blocked", "terminated", "waiting"}

\* CPU time is only ever compared with the limits: counting stops at the largest.
CpuCap == CHOOSE m \in CpuLimits \cup {0} : \A l \in CpuLimits \cup {0} : l <= m

NewContext(pid, state, priority, slice) ==
    [pid |-> pid, state |-> state, priority |-> priority, schedPolicy |-> "inherit",
     timeSlice |-> slice, remainingTime |-> slice, cpuTime |-> 0, maxCPU |-> 0,
     waitingFor |-> NoPid]

Unborn == NewContext(0, "unborn", 0, 0)
NoHandlers == [s \in AllSigs |-> "default"]

(***************************************************************************)
(* initBootProcesses: idle (PID 0) and kernel (PID 1) queued, init (PID 2) *)
(* running.                                                                *)
(***************************************************************************)
BootContexts ==
    [o \in Ctx |-> CASE o = 1 -> NewContext(0, "ready", 39, 0)
                     [] o = 2 -> NewContext(1, "ready", 0, TimeSlice)
                     [] o = 3 -> NewContext(2, "running", 10, TimeSlice)
                     [] OTHER -> Unborn]

Init ==
    /\ ctx = BootContexts
    /\ processes = [p \in PIDs |-> IF p <= 2 THEN p + 1 ELSE NoCtx]
    /\ readyQueue = Push(Push(EmptyQueue(Ctx, PIDs), 1, BootContexts), 2, BootContexts)
    /\ blockedQueue = [o \in Ctx |-> 0]
    /\ currentProcess = 3
    /\ nextPid = 3
    /\ algorithm = "round-robin"
    /\ pending = <<>>
    /\ sigMasks = [p \in PIDs |-> {}]
    /\ handlers = [p \in PIDs |-> NoHandlers]

\* The state as one value, for the operators that chain several calls.
Now ==
    [ctx |-> ctx, processes |-> processes, readyQueue |-> readyQueue,
     blockedQueue |-> blockedQueue, currentProcess |-> currentProcess,
     pending |-> pending, sigMasks |-> sigMasks, handlers |-> handlers]

Become(t) ==
    /\ ctx' = t.ctx
    /\ processes' = t.processes
    /\ readyQueue' = t.readyQueue
    /\ blockedQueue' = t.blockedQueue
    /\ currentProcess' = t.currentProcess
    /\ pending' = t.pending
    /\ sigMasks' = t.sigMasks
    /\ handlers' = t.handlers

Alive(s, p) ==
    s.processes[p] # NoCtx /\ s.ctx[s.processes[p]].state # "terminated"

\* getpid()
GetPid(s) == IF s.currentProcess = NoCtx THEN 1 ELSE s.ctx[s.currentProcess].pid

-----------------------------------------------------------------------------
(* schedule() *)

\* The contexts the three algorithms may choose, each with the queued contexts
\* whose entry leaves the heap: _scheduleRealTime removes by PID.
RealTimeEligible(s) ==
    {o \in Queued(s.readyQueue) :
        \/ s.ctx[o].schedPolicy = "real-time"
        \/ s.ctx[o].schedPolicy = "inherit" /\ s.ctx[o].priority <= 5}

Picks(s) ==
    IF algorithm = "real-time" /\ RealTimeEligible(s) # {}
    THEN {c \in RealTimeEligible(s) \X Queued(s.readyQueue) :
            /\ \A e \in RealTimeEligible(s) : s.ctx[c[1]].priority <= s.ctx[e].priority
            /\ s.ctx[c[1]].pid = s.ctx[c[2]].pid}
    ELSE {<<o, o>> : o \in Heads(s.readyQueue, s.ctx)}

Preempted(s) ==
    IF s.currentProcess # NoCtx /\ s.ctx[s.currentProcess].state = "running"
    THEN [s EXCEPT !.ctx[s.currentProcess].state = "ready",
                   !.readyQueue = Push(s.readyQueue, s.currentProcess, s.ctx)]
    ELSE s

Dispatch(s, o) == [s EXCEPT !.ctx[o].state = "running", !.currentProcess = o]

\* The picked process leaves the queue and runs.
Switched(t) ==
    {Dispatch([t EXCEPT !.readyQueue = Take(t.readyQueue, c[2], t.ctx)], c[1]) : c \in Picks(t)}

Schedule(s) ==
    IF Queued(s.readyQueue) = {}
    THEN {IF s.processes[IDLE] = NoCtx THEN s ELSE Dispatch(s, s.processes[IDLE])}
    ELSE UNION {Switched(t) : t \in {Preempted(s)}}

\* currentProcess = null; schedule(), when pid is the running one.
YieldIfCurrent(s, p) ==
    IF s.currentProcess # NoCtx /\ s.ctx[s.currentProcess].pid = p
    THEN Schedule([s EXCEPT !.currentProcess = NoCtx])
    ELSE {s}

-----------------------------------------------------------------------------
(* terminateProcess() *)

\* SignalManager.cleanup
Cleanup(s, p) ==
    [s EXCEPT !.pending = Filtered(@, {i \in 1..Len(@) : @[i].pid # p}),
              !.sigMasks[p] = {},
              !.handlers[p] = NoHandlers]

\* Mutant: the presence check (findIndex = -1) is gone.
RemoveReadyUnchecked(s, p) ==
    {[s EXCEPT !.readyQueue = Take(s.readyQueue, o, s.ctx)] : o \in {o \in Ctx : s.ctx[o].pid = p}}

\* readyQueue.remove(pid): one entry of one context that carries the PID.
RemoveReady(s, p) ==
    LET found == {o \in Queued(s.readyQueue) : s.ctx[o].pid = p}
    IN  IF found = {} THEN {s}
        ELSE {[s EXCEPT !.readyQueue = Take(s.readyQueue, o, s.ctx)] : o \in found}

\* Mutant: a terminated process stays in blockedQueue.
RemoveBlockedForgotten(s, p) == s

RemoveBlocked(s, p) ==
    [s EXCEPT !.blockedQueue =
        [o \in Ctx |-> IF s.ctx[o].pid = p THEN 0 ELSE s.blockedQueue[o]]]

\* Mutant: the waiters are made ready but not pushed.
WakeWaitersUnqueued(s, p) ==
    [s EXCEPT !.ctx = [o \in Ctx |->
                          IF s.ctx[o].waitingFor = p
                          THEN [s.ctx[o] EXCEPT !.state = "ready", !.waitingFor = NoPid]
                          ELSE s.ctx[o]]]

\* The processes whose waitingFor is pid, whatever their state, become ready.
WakeWaiters(s, p) ==
    LET waiters == {o \in Ctx : /\ \E q \in PIDs : s.processes[q] = o
                                /\ s.ctx[o].waitingFor = p}
        absent  == {o \in waiters : ~Has(s.readyQueue, s.ctx[o].pid)}
    IN  [s EXCEPT !.ctx = [o \in Ctx |->
                              IF o \in waiters
                              THEN [s.ctx[o] EXCEPT !.state = "ready", !.waitingFor = NoPid]
                              ELSE s.ctx[o]],
                  !.readyQueue = PushAll(s.readyQueue, absent, s.ctx)]

TerminateProcess(s, p) ==
    IF ~Alive(s, p) THEN {s}
    ELSE LET dead == Cleanup([s EXCEPT !.ctx[s.processes[p]].state = "terminated"], p)
         IN  UNION {YieldIfCurrent(WakeWaiters(RemoveBlocked(t, p), p), p) :
                       t \in RemoveReady(dead, p)}

-----------------------------------------------------------------------------
(* Blocking, signals and the tick *)

\* blockProcess(pid)
BlockProcess(s, p) ==
    LET o == s.processes[p]
    IN  IF o = NoCtx THEN {s}
        ELSE IF s.ctx[o].state # "running" THEN {s}
        ELSE YieldIfCurrent([s EXCEPT !.ctx[o].state = "blocked",
                                      !.blockedQueue[o] = @ + 1], p)

\* unblockProcess(pid): the first entry that carries the PID.  Which of two
\* contexts with one PID comes first is left open.
UnblockProcess(s, p) ==
    LET found == {o \in Ctx : s.blockedQueue[o] > 0 /\ s.ctx[o].pid = p}
    IN  IF found = {} THEN {s}
        ELSE {[s EXCEPT !.blockedQueue[o] = @ - 1,
                        !.ctx[o].state = "ready",
                        !.readyQueue = Push(s.readyQueue, o, s.ctx)] : o \in found}

\* send(pid, sig): queue the signal, then the callback that ends a slow call.
Send(s, p, sig) ==
    UnblockProcess([s EXCEPT !.pending = Append(@, [pid |-> p, sig |-> sig])], p)

\* Mutant: SIGKILL and SIGSTOP can be masked like any other signal.
UnmaskableNone == {}

Unmaskable == {SIGKILL, SIGSTOP}

Masked(s, e) == e.sig \notin Unmaskable /\ e.sig \in s.sigMasks[e.pid]

\* Mutant: SIGXCPU is ignored by default.
FatalButXcpu(s, e) ==
    /\ ~Masked(s, e)
    /\ s.handlers[e.pid][e.sig] = "default"
    /\ e.sig \notin {SIGCHLD, SIGCONT, SIGXCPU}

\* The signal's default action terminates the process.
Fatal(s, e) ==
    /\ ~Masked(s, e)
    /\ s.handlers[e.pid][e.sig] = "default"
    /\ e.sig \notin {SIGCHLD, SIGCONT}

\* Mutant: `remaining' only collects the masked signals.
DeliverPendingOwn(s, p) ==
    {[s EXCEPT !.pending = Filtered(@, {i \in 1..Len(@) : @[i].pid = p /\ Masked(s, @[i])})]}

\* Mutant: a masked signal is dropped instead of requeued.
DeliverPendingDrop(s, p) ==
    {[s EXCEPT !.pending = Filtered(@, {i \in 1..Len(@) : @[i].pid # p})]}

(***************************************************************************)
(* deliverPending(pid) walks _pending by index, keeps the signals of other *)
(* PIDs and the masked ones in `remaining', and assigns `remaining' at the *)
(* end.  The first fatal signal, at index k, terminates the process; its   *)
(* cleanup() replaces _pending by a shorter array, in which the loop goes  *)
(* on at index k + 1.                                                      *)
(***************************************************************************)
DeliverPending(s, p) ==
    LET kept  == {i \in 1..Len(s.pending) : s.pending[i].pid # p \/ Masked(s, s.pending[i])}
        fatal == {i \in 1..Len(s.pending) : s.pending[i].pid = p /\ Fatal(s, s.pending[i])}
        k == CHOOSE i \in fatal : \A j \in fatal : i <= j
    IN  IF fatal = {} \/ ~Alive(s, p)
        THEN {[s EXCEPT !.pending = Filtered(s.pending, kept)]}
        ELSE {[t EXCEPT !.pending = Filtered(s.pending, kept \cap 1..k)
                                    \o SubSeq(t.pending, k + 1, Len(t.pending))] :
                 t \in TerminateProcess(s, p)}

\* The second half of tick(): charge the process that is current now.
Charged(s) ==
    LET c == s.currentProcess
        used == IF s.ctx[c].cpuTime < CpuCap THEN s.ctx[c].cpuTime + 1 ELSE CpuCap
    IN  [s EXCEPT !.ctx[c].cpuTime = used, !.ctx[c].remainingTime = @ - 1]

OverLimit(s) ==
    LET c == s.ctx[s.currentProcess] IN c.maxCPU > 0 /\ c.cpuTime >= c.maxCPU

EndOfSlice(s) ==
    LET c == s.currentProcess
    IN  IF s.ctx[c].remainingTime <= 0
        THEN Schedule([s EXCEPT !.ctx[c].remainingTime = s.ctx[c].timeSlice])
        ELSE {s}

ChargeCurrent(s) ==
    IF s.currentProcess = NoCtx THEN {s}
    ELSE LET t == Charged(s)
         IN  UNION {EndOfSlice(u) :
                u \in IF OverLimit(t) THEN Send(t, t.ctx[t.currentProcess].pid, SIGXCPU)
                                      ELSE {t}}

TickOutcomes(s) ==
    IF s.currentProcess = NoCtx THEN Schedule(s)
    ELSE UNION {ChargeCurrent(t) : t \in DeliverPending(s, GetPid(s))}

-----------------------------------------------------------------------------
(* One action per call *)

Do(outcomes) ==
    /\ \E t \in outcomes : Become(t)
    /\ UNCHANGED <<nextPid, algorithm>>

Tick == Do({t \in TickOutcomes(Now) : Len(t.pending) <= MaxPending})

CreateProcess(priority, slice) ==
    \E o \in Ctx :
        /\ ctx[o].state = "unborn"
        /\ \A x \in Ctx : ctx[x].state = "unborn" => o <= x
        /\ ctx' = [ctx EXCEPT ![o] = NewContext(nextPid, "ready", priority, slice)]
        /\ processes' = [processes EXCEPT ![nextPid] = o]
        /\ readyQueue' = Push(readyQueue, o, ctx')
        /\ nextPid' = IF nextPid >= MaxPid THEN 2 ELSE nextPid + 1
        /\ UNCHANGED <<blockedQueue, currentProcess, algorithm, pending, sigMasks, handlers>>

\* syscalls.exit(): the running process terminates itself.
Exit ==
    /\ GetPid(Now) \in UserPids
    /\ Do(TerminateProcess(Now, GetPid(Now)))

\* syscalls.kill(pid, sig)
Kill(p, sig) ==
    /\ Len(pending) < MaxPending
    /\ Do(Send(Now, p, sig))

Handle(p, sig, h) ==
    /\ handlers' = [handlers EXCEPT ![p][sig] = h]
    /\ UNCHANGED <<ctx, processes, readyQueue, blockedQueue, currentProcess, nextPid,
                   algorithm, pending, sigMasks>>

SetSigMask(p, mask) ==
    Do(DeliverPending([Now EXCEPT !.sigMasks[p] = mask \ Unmaskable], p))

Block(p) ==
    /\ processes[p] # NoCtx
    /\ ctx[processes[p]].state = "running"
    /\ Do(BlockProcess(Now, p))

Unblock(p) ==
    /\ \E o \in Ctx : blockedQueue[o] > 0 /\ ctx[o].pid = p
    /\ Do(UnblockProcess(Now, p))

SetPriority(p, priority) ==
    LET o == processes[p]
        v == IF priority < 0 THEN 0 ELSE IF priority > 255 THEN 255 ELSE priority
    IN  /\ o # NoCtx
        /\ ctx' = [ctx EXCEPT ![o].priority = v]
        /\ readyQueue' = IF v = ctx[o].priority THEN readyQueue ELSE Rekeyed(readyQueue, o)
        /\ UNCHANGED <<processes, blockedQueue, currentProcess, nextPid, algorithm,
                       pending, sigMasks, handlers>>

SetScheduler(p, policy) ==
    /\ processes[p] # NoCtx
    /\ ctx' = [ctx EXCEPT ![processes[p]].schedPolicy = policy]
    /\ UNCHANGED <<processes, readyQueue, blockedQueue, currentProcess, nextPid,
                   algorithm, pending, sigMasks, handlers>>

\* initBootProcesses gives the three boot contexts ONE limits object, and
\* setProcessLimits assigns its fields in place.
SharesLimits(o) == IF o \in 1..3 THEN 1..3 ELSE {o}

SetProcessLimits(p, limit) ==
    /\ processes[p] # NoCtx
    /\ ctx' = [o \in Ctx |-> IF o \in SharesLimits(processes[p])
                             THEN [ctx[o] EXCEPT !.maxCPU = limit] ELSE ctx[o]]
    /\ UNCHANGED <<processes, readyQueue, blockedQueue, currentProcess, nextPid,
                   algorithm, pending, sigMasks, handlers>>

SetAlgorithm(a) ==
    /\ algorithm' = a
    /\ UNCHANGED <<ctx, processes, readyQueue, blockedQueue, currentProcess, nextPid,
                   pending, sigMasks, handlers>>

\* waitForProcess(pid): reap a terminated process, or mark the running one as
\* waiting.  It stays the current process and no other one is scheduled.
WaitForProcess(p) ==
    LET o == processes[p]
        c == currentProcess
    IN  /\ o # NoCtx
        /\ IF ctx[o].state = "terminated"
           THEN /\ processes' = [processes EXCEPT ![p] = NoCtx]
                /\ UNCHANGED <<ctx, blockedQueue>>
           ELSE /\ c # NoCtx
                /\ ctx' = [ctx EXCEPT ![c].state = "waiting", ![c].waitingFor = p]
                /\ readyQueue.bag[c] + blockedQueue[c] < MaxEntries
                /\ blockedQueue' = [blockedQueue EXCEPT ![c] = @ + 1]
                /\ UNCHANGED processes
        /\ UNCHANGED <<readyQueue, currentProcess, nextPid, algorithm, pending,
                       sigMasks, handlers>>

SetCurrentPid(p) ==
    /\ processes[p] # NoCtx
    /\ currentProcess' = processes[p]
    /\ UNCHANGED <<ctx, processes, readyQueue, blockedQueue, nextPid, algorithm,
                   pending, sigMasks, handlers>>

-----------------------------------------------------------------------------
(***************************************************************************)
(* CoreNext: the calls as the rest of the system makes them, up to the     *)
(* first wrap of the PID counter.  Idle is neither signalled nor blocked,  *)
(* no limit is put on a boot process, waitForProcess only reaps, and the   *)
(* current process is changed by schedule() alone.                         *)
(***************************************************************************)
CoreNext ==
    \/ Tick
    \/ \E v \in Priorities, sl \in Slices : nextPid < MaxPid /\ CreateProcess(v, sl)
    \/ Exit
    \/ \E p \in UserPids, sig \in Sigs : Kill(p, sig)
    \/ \E p \in UserPids, sig \in Sigs, h \in HandlerChoices : Handle(p, sig, h)
    \/ \E p \in UserPids, mask \in MaskChoices : SetSigMask(p, mask)
    \/ \E p \in UserPids : Block(p)
    \/ \E p \in UserPids : Unblock(p)
    \/ \E p \in UserPids, v \in PriorityChanges : SetPriority(p, v)
    \/ \E p \in UserPids, a \in PolicyChoices : SetScheduler(p, a)
    \/ \E p \in PIDs, l \in CpuLimits : p > 2 /\ SetProcessLimits(p, l)
    \/ \E a \in Algorithms : SetAlgorithm(a)
    \/ \E p \in PIDs : ~Alive(Now, p) /\ WaitForProcess(p)

CoreSpec == Init /\ [][CoreNext]_vars

\* Next adds the two calls nothing in the system makes today: waiting for a live
\* user process, and setCurrentPid on one; still up to the first wrap of the PID
\* counter.  registerProcess() is in ProcessManager.
Next ==
    \/ CoreNext
    \/ \E p \in UserPids : WaitForProcess(p)
    \/ \E p \in UserPids : SetCurrentPid(p)

Spec == Init /\ [][Next]_vars

\* wm.tick() calls scheduler.tick() on every frame.
FairCoreSpec == CoreSpec /\ WF_vars(Tick)

-----------------------------------------------------------------------------
(* Properties *)

Context ==
    [pid : PIDs, state : ProcessState \cup {"unborn"}, priority : Int,
     schedPolicy : Policies \cup {"inherit"}, timeSlice : Nat, remainingTime : Int,
     cpuTime : Nat, maxCPU : Nat, waitingFor : PIDs \cup {NoPid}]

\* Every variable holds values of the declared TypeScript types.
TypeOK ==
    /\ ctx \in [Ctx -> Context]
    /\ processes \in [PIDs -> Ctx \cup {NoCtx}]
    /\ readyQueue \in [bag : [Ctx -> Nat], rank : [PIDs -> Nat], sorted : BOOLEAN]
    /\ blockedQueue \in [Ctx -> Nat]
    /\ currentProcess \in Ctx \cup {NoCtx}
    /\ nextPid \in PIDs
    /\ algorithm \in Policies
    /\ pending \in Seq([pid : PIDs, sig : AllSigs])
    /\ sigMasks \in [PIDs -> SUBSET AllSigs]
    /\ handlers \in [PIDs -> [AllSigs -> Handlers]]

\* A context sits in exactly the queue its state names, once: ready in the run
\* queue, blocked in blockedQueue, running as currentProcess, terminated in
\* none.  A process in no queue would never run again, one in two queues would
\* run twice or after its termination.
QueuesMatchStates ==
    \A o \in Ctx :
        /\ readyQueue.bag[o] = IF ctx[o].state = "ready" THEN 1 ELSE 0
        /\ blockedQueue[o] = IF ctx[o].state = "blocked" THEN 1 ELSE 0
        /\ ctx[o].state = "running" <=> currentProcess = o
        /\ ctx[o].state # "waiting"

\* terminateProcess() is final: no later call, wake-up or dispatch moves a
\* terminated context back to a queue or onto the CPU.
TerminatedIsFinal ==
    [][\A o \in Ctx : ctx[o].state = "terminated" => ctx'[o].state = "terminated"]_vars

\* Whatever happens to it, a process of the table that is ready is in the run
\* queue and one that is blocked or waiting is in blockedQueue, where a wake-up
\* finds it: no call forgets a process.
NoForgottenProcess ==
    \A p \in PIDs : processes[p] # NoCtx =>
        LET o == processes[p]
        IN  /\ ctx[o].state = "ready" => readyQueue.bag[o] > 0
            /\ ctx[o].state \in {"blocked", "waiting"} => blockedQueue[o] > 0

\* SIGKILL and SIGSTOP bypass the mask: a process that runs with one of them
\* pending, and no handler for it, is dead after the next tick.
KillEndsAtTick ==
    [][Tick /\ currentProcess # NoCtx =>
          LET o == currentProcess
              p == ctx[o].pid
          IN  (/\ processes[p] = o
               /\ \E i \in 1..Len(pending) :
                    /\ pending[i].pid = p
                    /\ pending[i].sig \in {SIGKILL, SIGSTOP}
                    /\ handlers[p][pending[i].sig] = "default")
              => ctx'[o].state = "terminated"]_vars

\* A ready context of the most urgent class present, while the queue is in order.
FirstClass(o) ==
    /\ ctx[o].state = "ready"
    /\ readyQueue.sorted
    /\ algorithm # "real-time"
    /\ \A e \in Ctx : ctx[e].state \in {"ready", "running"} => ctx[o].priority <= ctx[e].priority

\* "Equal-priority processes are served FIFO": a process of the most urgent
\* class does not wait for ever while others of its class take their slices.
RoundRobin == \A o \in Ctx : FirstClass(o) ~> ~FirstClass(o)

Runaway(o) ==
    /\ ctx[o].maxCPU > 0 /\ ctx[o].cpuTime >= ctx[o].maxCPU
    /\ ctx[o].state \in {"ready", "running"}
    /\ \A e \in Ctx : ctx[e].state \in {"ready", "running"} => ctx[o].priority <= ctx[e].priority

\* tick() enforces the CPU-time limit: a runnable process of the most urgent
\* class that used up its limit is terminated by SIGXCPU, though the first
\* signal may be lost when another process dies (no mask, no handler).
RunawayIsKilled == \A o \in Ctx : Runaway(o) ~> ~Runaway(o)
=============================================================================
