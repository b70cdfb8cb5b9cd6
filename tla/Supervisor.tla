----------------------------- MODULE Supervisor -----------------------------
(***************************************************************************)
(* The process supervisor (process/supervisor.ts) over the child runtimes  *)
(* of process/jsprocess.ts and the kernel's pool of runtime slots          *)
(* (kernel/quickjs_binding.c).                                             *)
(*                                                                         *)
(* A handle (JSProcess) knows its runtime by slot number only.  The number *)
(* a runtime gets here when it is created is what the model adds to tell   *)
(* the runtime a handle was made for from a later one in the same slot.    *)
(*                                                                         *)
(* ProcessSupervisor.tick() visits the children one by one.  onCrash and   *)
(* onMessage callbacks are foreign code that runs in the middle of a       *)
(* child's _tick() and may call kill(), restart(), spawn() and shutdown(). *)
(* The window manager pumps the same runtimes between the ticks and        *)
(* destroys one that faults.  Clock and budgets are not represented: a     *)
(* budget or heartbeat check may fail whenever it is made.                 *)
(***************************************************************************)
EXTENDS Naturals, Sequences

CONSTANTS
    Children,       \* supervised processes
    NSlots,         \* JSPROC_MAX
    RestartPolicy,  \* restartPolicy
    MaxRestarts,    \* maxRestarts
    Delay,          \* the restart delay in supervisor ticks
    Sliced,         \* the children with sliceBudgetMs > 0
    FaultLimit,     \* _TICK_FAULT_LIMIT
    CanFault,       \* whether a runtime may take a CPU fault
    CrashCalls,     \* what the onCrash callbacks may call
    MessageCalls,   \* what the onMessage callbacks may call
    MaxMessages,    \* bound on the messages of one drain
    MaxCalls        \* bound on the calls made by the program

Calls == {"spawn", "kill", "restart", "shutdown"}

\* What the constants must be.
BoundsOK ==
    /\ NSlots \in Nat \ {0} /\ MaxRestarts \in Nat /\ Delay \in Nat \ {0}
    /\ FaultLimit \in Nat \ {0} /\ MaxMessages \in Nat /\ MaxCalls \in Nat
    /\ RestartPolicy \in {"no", "always", "on-failure", "on-crash"}
    /\ Sliced \subseteq Children /\ CanFault \in BOOLEAN
    /\ CrashCalls \subseteq Calls /\ MessageCalls \subseteq Calls

VARIABLES
    slots,     \* _procs: the runtime in each slot, 0 when the slot is unused
    tainted,   \* the runtimes quarantined after a fault
    sp,        \* the SupervisedProcess objects
    list,      \* _children
    pc, i, self, pending, reason, back,
               \* where tick() is, and the locals of its calls
    killed,    \* history: children whose last lifecycle call was kill()
    calls      \* calls made so far

locals == <<i, self, pending, reason, back>>
vars == <<slots, tainted, sp, list, pc, locals, killed, calls>>

Slot == 1..NSlots
NoProc == [slot |-> 0, runtime |-> 0, alive |-> FALSE, faults |-> 0]

Held(c) == sp[c].proc # NoProc

Init ==
    /\ slots = [s \in Slot |-> 0]
    /\ tainted = {}
    /\ sp = [c \in Children |-> [state |-> "stopped", proc |-> NoProc, restarts |-> 0,
                                 wait |-> 0, made |-> FALSE]]
    /\ list = <<>>
    /\ pc = "outside" /\ i = 1 /\ self \in Children /\ pending = <<>>
    /\ reason = "" /\ back = "loop"
    /\ killed = {}
    /\ calls = 0
-----------------------------------------------------------------------------
(* Runtimes and handles *)

\* procCreate takes the first unused slot.
FreeSlots(pool) == {s \in Slot : pool[s] = 0}
IsFirst(s, S) == s \in S /\ \A t \in S : s <= t

\* A number for a new runtime that nothing refers to any more.
Fresh ==
    LET used == {slots[s] : s \in Slot} \cup {sp[c].proc.runtime : c \in Children}
    IN  CHOOSE n \in 1..NSlots + Len(list) + 4 :
            /\ n \notin used
            /\ \A m \in 1..n - 1 : m \in used

\* JSProcess.alive: the slot is in use, by whatever runtime.
Alive(h, pool) == h.alive /\ pool[h.slot] # 0

\* _killProc() and the first half of _crash(): terminate() through the handle.
Terminated(pool, h) == IF h # NoProc /\ Alive(h, pool) THEN [pool EXCEPT ![h.slot] = 0] ELSE pool

\* procDestroy lifts the quarantine with the runtime.
StillTainted(pool) == tainted \cap {pool[s] : s \in Slot}

\* _start(), from a pool in which the previous runtime is gone: the outcomes.
\* Failed: no slot is free, or the child's code throws while it is loaded.
Failed(r) == [r EXCEPT !.state = "crashed"]
Started(r, s, n) ==
    [r EXCEPT !.state = "running",
              !.proc = [slot |-> s, runtime |-> n, alive |-> TRUE, faults |-> 0]]

Start(c, pool, r) ==
    \/ /\ slots' = pool
       /\ sp' = [sp EXCEPT ![c] = Failed(r)]
    \/ \E s \in Slot :
          /\ IsFirst(s, FreeSlots(pool))
          /\ slots' = [pool EXCEPT ![s] = Fresh]
          /\ sp' = [sp EXCEPT ![c] = Started(r, s, Fresh)]

\* Mutant: a restart is not counted.
DoRestartUncounted(c, pool, r) == Start(c, pool, r)

\* _doRestart()
DoRestart(c, pool, r) == Start(c, pool, [r EXCEPT !.restarts = @ + 1])
-----------------------------------------------------------------------------
(* The calls a program makes *)

\* Code that may call the supervisor is running.
MayCall(call) ==
    /\ calls < MaxCalls
    /\ calls' = calls + 1
    /\ \/ pc = "outside"
       \/ pc = "oncrash" /\ call \in CrashCalls
       \/ pc = "onmessage" /\ call \in MessageCalls
    /\ UNCHANGED <<pc, locals>>

Spawn(c) ==
    /\ MayCall("spawn")
    /\ ~sp[c].made
    /\ Start(c, slots, [sp[c] EXCEPT !.made = TRUE])
    /\ list' = Append(list, c)
    /\ UNCHANGED <<tainted, killed>>

Kill(c) ==
    /\ MayCall("kill")
    /\ sp[c].made
    /\ slots' = Terminated(slots, sp[c].proc)
    /\ tainted' = StillTainted(slots')
    /\ sp' = [sp EXCEPT ![c].proc = NoProc, ![c].state = "killed"]
    /\ killed' = killed \cup {c}
    /\ UNCHANGED list

Restart(c) ==
    /\ MayCall("restart")
    /\ sp[c].made
    /\ DoRestart(c, Terminated(slots, sp[c].proc), [sp[c] EXCEPT !.proc = NoProc])
    /\ tainted' = StillTainted(slots')
    /\ killed' = killed \ {c}
    /\ UNCHANGED list

Members == {list[k] : k \in 1..Len(list)}

\* shutdown().  That it also stops the supervisor's coroutine is left to the fairness
\* below: a program that spawns again drives tick() again.
Shutdown ==
    /\ MayCall("shutdown")
    /\ slots' = [s \in Slot |->
                    IF \E c \in Members : sp[c].proc.alive /\ sp[c].proc.slot = s
                    THEN 0 ELSE slots[s]]
    /\ sp' = [c \in Children |-> IF c \in Members
                                 THEN [sp[c] EXCEPT !.proc = NoProc, !.state = "killed"]
                                 ELSE sp[c]]
    /\ tainted' = StillTainted(slots')
    /\ killed' = killed \cup Members
    /\ list' = <<>>
-----------------------------------------------------------------------------
(* The window manager pumps every runtime and destroys one that faults. *)

WmTick(s) ==
    /\ pc = "outside"
    /\ slots[s] # 0
    /\ CanFault \/ slots[s] \in tainted
    /\ slots' = [slots EXCEPT ![s] = 0]
    /\ tainted' = tainted \ {slots[s]}
    /\ UNCHANGED <<sp, list, pc, locals, killed, calls>>
-----------------------------------------------------------------------------
(* ProcessSupervisor.tick() *)

BeginTick ==
    /\ pc = "outside"
    /\ pc' = "loop"
    /\ i' = 1
    /\ UNCHANGED <<slots, tainted, sp, list, self, pending, reason, back, killed, calls>>

\* The loop goes on with the next child.
Continue == pc' = "loop" /\ i' = i + 1

\* Mutant: the delay is counted anew in every tick.
WaitedAnew(r) == [r EXCEPT !.wait = Delay]

\* One tick of the restart delay has passed.
Waited(r) == [r EXCEPT !.wait = @ - 1]

\* _tick() of a child that waits for its restart, or is past supervision.
TickIdle ==
    /\ pc = "loop" /\ i <= Len(list)
    /\ LET c == list[i] IN
       /\ self' = c
       /\ \/ /\ sp[c].state = "restarting" /\ sp[c].wait > 1
             /\ sp' = [sp EXCEPT ![c] = Waited(@)]
             /\ UNCHANGED slots
          \/ /\ sp[c].state = "restarting" /\ sp[c].wait <= 1
             /\ DoRestart(c, slots, sp[c])
          \/ /\ sp[c].state \notin {"restarting", "running"}
             /\ UNCHANGED <<sp, slots>>
    /\ Continue
    /\ UNCHANGED <<tainted, list, pending, reason, back, killed, calls>>

\* Mutant: the handle is forgotten without terminating the runtime.
CrashLeaks(c, why, ret) ==
    /\ slots' = slots
    /\ tainted' = tainted
    /\ sp' = [sp EXCEPT ![c].proc = NoProc]
    /\ reason' = why /\ back' = ret
    /\ pc' = "oncrash"

\* _crash() up to the callbacks.
Crash(c, why, ret) ==
    /\ slots' = Terminated(slots, sp[c].proc)
    /\ tainted' = StillTainted(slots')
    /\ sp' = [sp EXCEPT ![c].proc = NoProc]
    /\ reason' = why /\ back' = ret
    /\ pc' = "oncrash"

ShouldRestart(why) ==
    \/ RestartPolicy = "always"
    \/ RestartPolicy = "on-failure" /\ why # "killed"
    \/ RestartPolicy = "on-crash" /\ why \in {"error", "timeout", "budget", "oom", "exited"}

\* Mutant: the new state is assigned only on a restart.
DecidedNoState(r) ==
    IF ShouldRestart(reason) /\ r.restarts < MaxRestarts
    THEN [r EXCEPT !.state = "restarting", !.wait = Delay]
    ELSE r

\* The end of _crash().
Decided(r) ==
    IF ShouldRestart(reason) /\ r.restarts < MaxRestarts
    THEN [r EXCEPT !.state = "restarting", !.wait = Delay]
    ELSE [r EXCEPT !.state = "crashed"]

\* The onCrash callbacks have returned.
CrashEnds ==
    /\ pc = "oncrash"
    /\ sp' = [sp EXCEPT ![self] = Decided(sp[self])]
    /\ pc' = back
    /\ i' = IF back = "loop" THEN i + 1 ELSE i
    /\ UNCHANGED <<slots, tainted, list, self, pending, reason, back, killed, calls>>

\* _tick() of a running child whose runtime is gone or whose slice fails.
TickFails ==
    /\ pc = "loop" /\ i <= Len(list)
    /\ sp[list[i]].state = "running"
    /\ self' = list[i]
    /\ \/ ~Alive(sp[list[i]].proc, slots) /\ Crash(list[i], "exited", "loop")
       \/ /\ Alive(sp[list[i]].proc, slots)
          /\ list[i] \in Sliced
          /\ Crash(list[i], "error", "loop")
    /\ UNCHANGED <<list, i, pending, killed, calls>>

\* JSProcess.tick(): the jobs run, or the runtime faults; FaultLimit faults in
\* a row terminate it.
Pumped(h) == [h EXCEPT !.faults = 0]
Faulted(h) ==
    [h EXCEPT !.faults = IF @ < FaultLimit THEN @ + 1 ELSE @,
              !.alive = h.faults + 1 < FaultLimit]

\* "over" is a memory report above the budget, "app" an application message;
\* the other messages change nothing that is represented here.
Messages == UNION {[1..n -> {"over", "app"}] : n \in 0..MaxMessages}

\* _tick() of a running child up to the drain of its outbox.
TickRuns ==
    /\ pc = "loop" /\ i <= Len(list)
    /\ LET c == list[i]
           h == sp[c].proc
       IN  /\ sp[c].state = "running"
           /\ Alive(h, slots)
           /\ c \in Sliced => slots[h.slot] \notin tainted
           /\ self' = c
           /\ \/ /\ slots[h.slot] \notin tainted
                 /\ sp' = [sp EXCEPT ![c].proc = Pumped(h)]
                 /\ pending' \in Messages
                 /\ UNCHANGED <<slots, tainted>>
              \/ /\ CanFault \/ slots[h.slot] \in tainted
                 /\ sp' = [sp EXCEPT ![c].proc = Faulted(h)]
                 /\ IF Faulted(h).alive
                    THEN /\ pending' \in Messages
                         /\ tainted' = tainted \cup {slots[h.slot]}
                         /\ UNCHANGED slots
                    ELSE /\ pending' = <<>>
                         /\ slots' = [slots EXCEPT ![h.slot] = 0]
                         /\ tainted' = tainted \ {slots[h.slot]}
    /\ pc' = "drain"
    /\ UNCHANGED <<list, i, reason, back, killed, calls>>

\* _handleMessage(): a memory report above the budget.
HandleOver ==
    /\ pc = "drain" /\ pending # <<>> /\ Head(pending) = "over"
    /\ pending' = Tail(pending)
    /\ Crash(self, "oom", "drain")
    /\ UNCHANGED <<list, i, self, killed, calls>>

\* _handleMessage(): an application message, up to the callbacks.
HandleApp ==
    /\ pc = "drain" /\ pending # <<>> /\ Head(pending) = "app"
    /\ pending' = Tail(pending)
    /\ pc' = "onmessage"
    /\ UNCHANGED <<slots, tainted, sp, list, i, self, reason, back, killed, calls>>

CallbacksReturn ==
    /\ pc = "onmessage"
    /\ pc' = "drain"
    /\ UNCHANGED <<slots, tainted, sp, list, locals, killed, calls>>

\* The rest of _tick(): memory is sampled in the child, where a fault taints
\* it, and the CPU window and the heartbeat are checked.
Checks ==
    /\ pc = "drain" /\ pending = <<>>
    /\ \/ /\ Continue
          /\ UNCHANGED <<slots, sp, reason, back>>
          /\ \/ UNCHANGED tainted
             \/ /\ CanFault /\ sp[self].state = "running"
                /\ Alive(sp[self].proc, slots)
                /\ tainted' = tainted \cup {slots[sp[self].proc.slot]}
       \/ /\ sp[self].state = "running"
          /\ \E why \in {"budget", "timeout"} : Crash(self, why, "loop")
          /\ UNCHANGED i
    /\ UNCHANGED <<list, self, pending, killed, calls>>

\* Children that were killed are evicted.
EndTick ==
    /\ pc = "loop" /\ i > Len(list)
    /\ list' = SelectSeq(list, LAMBDA c : sp[c].state # "killed")
    /\ pc' = "outside"
    /\ i' = 1
    /\ UNCHANGED <<slots, tainted, sp, self, pending, reason, back, killed, calls>>

Tick ==
    \/ BeginTick \/ TickIdle \/ TickFails \/ TickRuns \/ HandleOver \/ HandleApp
    \/ CallbacksReturn \/ Checks \/ CrashEnds \/ EndTick

Next ==
    \/ \E c \in Children : Spawn(c) \/ Kill(c) \/ Restart(c)
    \/ Shutdown
    \/ \E s \in Slot : WmTick(s)
    \/ Tick

Spec == Init /\ [][Next]_vars

\* The window manager steps the supervisor's coroutine in every frame, and
\* callbacks return.
FairSpec == Spec /\ WF_vars(Tick)
-----------------------------------------------------------------------------
Runtimes == {slots[s] : s \in Slot} \ {0}

\* Handles, slots and the locals of tick() are well formed; a runtime sits in
\* one slot, and only runtimes that exist are quarantined.
TypeOK ==
    /\ slots \in [Slot -> Nat]
    /\ \A s, t \in Slot : slots[s] = slots[t] /\ slots[s] # 0 => s = t
    /\ tainted \subseteq Runtimes
    /\ \A c \in Children :
         /\ sp[c].state \in {"stopped", "running", "crashed", "killed", "restarting"}
         /\ Held(c) => sp[c].proc.slot \in Slot /\ sp[c].proc.runtime # 0
         /\ sp[c].wait \in 0..Delay
    /\ Members \subseteq {c \in Children : sp[c].made}
    /\ pc \in {"outside", "loop", "drain", "oncrash", "onmessage"}
    /\ Len(pending) <= MaxMessages

\* _tick() may use _proc without a further check wherever the state says
\* 'running', and only there: however crashes, restarts and calls from
\* callbacks interleave, the state and the handle are updated together
\* (_crash(), between the two, is the one exception).
RunningIffHeld ==
    \A c \in Children :
        (pc = "oncrash" /\ self = c) \/ (sp[c].state = "running" <=> Held(c))

\* A slot of the pool is in use only while some supervised process holds a
\* handle through which it can be freed: no crash, fault or shutdown and no
\* restart(), unless called from onCrash, loses one of the eight slots.
NoRuntimeLeaked ==
    \A s \in Slot : slots[s] # 0 =>
        \E c \in Children : Held(c) /\ sp[c].proc.runtime = slots[s]

Waiting(c) == c \in Members /\ sp[c].state = "restarting"

\* A scheduled restart of a child that stays supervised is carried out, unless
\* the child is killed meanwhile.
RestartHappens == \A c \in Children : Waiting(c) ~> ~Waiting(c)

\* A tick of child c that ends without a crash.
TickedWell(c) == self = c /\ sp[c].state = "running" /\ pc = "drain" /\ pc' = "loop"

\* maxRestarts: a child that crashes again and again without one good tick in
\* between is given up.  (The code gives up earlier: the count is never reset, so
\* maxRestarts bounds all the restarts of a child and not the consecutive ones.)
GivesUp == \A c \in Children : []<><<TickedWell(c)>>_vars \/ <>[]~Waiting(c)

\* kill(): "Forcefully kill the child and stop supervision. Does NOT trigger
\* restart, regardless of restartPolicy."
KilledStaysKilled == \A c \in killed : sp[c].state = "killed"
=============================================================================
