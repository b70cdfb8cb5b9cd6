----------------------------- MODULE Coroutines -----------------------------
(***************************************************************************)
(* The coroutine scheduler of ThreadManager (process/threads.ts) and the   *)
(* main loop that drives it (core/main.ts): once per frame tickCoroutines  *)
(* calls step() on a snapshot of the registered coroutines and then        *)
(* replaces the list by those that are still pending.                      *)
(*                                                                         *)
(* A step() is foreign code that runs in the middle of tickCoroutines, so  *)
(* the tick is not atomic: the step may register and cancel coroutines,    *)
(* like the rest of the frame, before and after the tick.  A CPU fault     *)
(* anywhere makes guardedRun abandon the whole frame, local variables      *)
(* included.  Five such frames in a row, or one that damaged the heap,     *)
(* make the main loop clear the list.                                      *)
(***************************************************************************)
EXTENDS Naturals, Sequences, FiniteSets

CONSTANTS
    MaxCid,         \* bound on _nextCid
    FaultThreshold  \* _FAULT_THRESHOLD

\* What the constants must be.
BoundsOK ==
    /\ MaxCid \in Nat \ {0}
    /\ FaultThreshold \in Nat \ {0}

VARIABLES
    coroutines,  \* _coroutines, each named by its id
    nextCid,     \* _nextCid
    pc,          \* between frames, before the tick of a frame, at the head of its
                 \* loop, in a step(), or after it
    snap, idx, keep, startCid,  \* the locals of tickCoroutines
    faults,      \* _consecutiveFaults
    cooling,     \* _faultCooldownUntil has not passed
    finished,    \* history: ids whose step() returned 'done' or threw
    cancelled,   \* history: ids given to cancelCoroutine while registered
    cleared      \* history: ids removed by clearCoroutines

locals == <<snap, idx, keep, startCid>>
history == <<finished, cancelled, cleared>>
vars == <<coroutines, nextCid, pc, locals, faults, cooling, history>>

Ids(s) == {s[k] : k \in 1..Len(s)}

Init ==
    /\ coroutines = <<>>
    /\ nextCid = 0
    /\ pc = "idle"
    /\ snap = <<>> /\ idx = 1 /\ keep = <<>> /\ startCid = 0
    /\ faults = 0
    /\ cooling = FALSE
    /\ finished = {} /\ cancelled = {} /\ cleared = {}

\* Code that may call the API runs: a step(), or anything outside the tick (between
\* two frames the storm handler's reload of the page).
InCallback == pc # "loop"

RunCoroutine ==
    /\ InCallback
    /\ nextCid < MaxCid
    /\ coroutines' = Append(coroutines, nextCid)
    /\ nextCid' = nextCid + 1
    /\ UNCHANGED <<pc, locals, faults, cooling, history>>

CancelCoroutine(id) ==
    /\ InCallback
    /\ id \in Ids(coroutines)
    /\ coroutines' = SelectSeq(coroutines, LAMBDA c : c # id)
    /\ cancelled' = cancelled \cup {id}
    /\ UNCHANGED <<nextCid, pc, locals, faults, cooling, finished, cleared>>

\* The main loop calls the frame function, unless it cools down.
BeginFrame ==
    /\ pc = "idle"
    /\ ~cooling
    /\ pc' = "before"
    /\ UNCHANGED <<coroutines, nextCid, locals, faults, cooling, history>>

\* tickCoroutines up to its loop.
BeginTick ==
    /\ pc = "before"
    /\ coroutines # <<>>
    /\ pc' = "loop"
    /\ snap' = coroutines
    /\ startCid' = nextCid
    /\ keep' = <<>>
    /\ idx' = 1
    /\ UNCHANGED <<coroutines, nextCid, faults, cooling, history>>

\* tickCoroutines finds no coroutine.
NoTick ==
    /\ pc = "before"
    /\ coroutines = <<>>
    /\ pc' = "after"
    /\ UNCHANGED <<coroutines, nextCid, locals, faults, cooling, history>>

StepBegin ==
    /\ pc = "loop"
    /\ idx <= Len(snap)
    /\ pc' = "step"
    /\ UNCHANGED <<coroutines, nextCid, locals, faults, cooling, history>>

StepPending ==
    /\ pc = "step"
    /\ keep' = Append(keep, snap[idx])
    /\ idx' = idx + 1
    /\ pc' = "loop"
    /\ UNCHANGED <<coroutines, nextCid, snap, startCid, faults, cooling, history>>

\* step() returned 'done', or threw.
StepDone ==
    /\ pc = "step"
    /\ finished' = finished \cup {snap[idx]}
    /\ idx' = idx + 1
    /\ pc' = "loop"
    /\ UNCHANGED <<coroutines, nextCid, snap, keep, startCid, faults, cooling,
                   cancelled, cleared>>

\* Mutant: the last coroutine registered before the tick is merged once more.
MergedTooMuch(kept) == kept \o SelectSeq(coroutines, LAMBDA c : c + 1 >= startCid)

\* Mutant: the first coroutine registered during the tick is forgotten.
MergedTooLittle(kept) == kept \o SelectSeq(coroutines, LAMBDA c : c > startCid)

\* The end of tickCoroutines: what was kept, then what the steps registered.
Merged(kept) == kept \o SelectSeq(coroutines, LAMBDA c : c >= startCid)

\* The locals die with the call.
Return(to) ==
    /\ pc' = to
    /\ snap' = <<>> /\ idx' = 1 /\ keep' = <<>> /\ startCid' = 0

EndTick ==
    /\ pc = "loop"
    /\ idx > Len(snap)
    /\ coroutines' = Merged(keep)
    /\ Return("after")
    /\ UNCHANGED <<nextCid, faults, cooling, history>>

\* The frame has used its two timer ticks: the rest waits for the next frame.
\* Never before the first step.
Defer ==
    /\ pc = "loop"
    /\ idx \in 2..Len(snap)
    /\ coroutines' = Merged(keep \o SubSeq(snap, idx, Len(snap)))
    /\ Return("after")
    /\ UNCHANGED <<nextCid, faults, cooling, history>>

\* guardedRun did not report a fault for this frame.
EndFrame ==
    /\ pc = "after"
    /\ pc' = "idle"
    /\ faults' = 0
    /\ UNCHANGED <<coroutines, nextCid, locals, cooling, history>>

\* Mutant: the storm resets the counter and leaves the coroutines.
FaultSeenKept(n) ==
    /\ faults' = IF n >= FaultThreshold THEN 0 ELSE n
    /\ cooling' = (n >= FaultThreshold)
    /\ UNCHANGED <<coroutines, cleared>>

\* The main loop's reaction to guardedRun returning -1, n being the count of
\* consecutive faults with this one.
FaultSeen(n) ==
    IF n >= FaultThreshold
    THEN /\ coroutines' = <<>>
         /\ cleared' = cleared \cup Ids(coroutines)
         /\ faults' = 0
         /\ cooling' = TRUE
    ELSE /\ faults' = n
         /\ UNCHANGED <<coroutines, cleared, cooling>>

\* The frame faults, in a step or elsewhere.  heapStats() may report damage, which
\* counts as a full storm.
Fault ==
    /\ pc \in {"before", "step", "after"}
    /\ Return("idle")
    /\ \E n \in {faults + 1, FaultThreshold} : FaultSeen(n)
    /\ UNCHANGED <<nextCid, finished, cancelled>>

CooldownOver ==
    /\ cooling
    /\ cooling' = FALSE
    /\ UNCHANGED <<coroutines, nextCid, pc, locals, faults, history>>

Frame ==
    \/ BeginFrame \/ BeginTick \/ NoTick \/ StepBegin \/ StepPending \/ StepDone
    \/ EndTick \/ Defer \/ EndFrame \/ Fault

Next ==
    \/ RunCoroutine
    \/ \E id \in 0..MaxCid - 1 : CancelCoroutine(id)
    \/ Frame
    \/ CooldownOver

Spec == Init /\ [][Next]_vars

\* The main loop never stops calling the frame function, which returns or faults,
\* and the 500 ms of the cooldown pass.
FairSpec == Spec /\ WF_vars(Frame) /\ WF_vars(CooldownOver)
-----------------------------------------------------------------------------
Cids == 0..MaxCid - 1

\* The state is well formed: the locals are those of a tick in progress.
TypeOK ==
    /\ coroutines \in Seq(Cids)
    /\ nextCid \in 0..MaxCid
    /\ pc \in {"idle", "before", "loop", "step", "after"}
    /\ snap \in Seq(Cids) /\ keep \in Seq(Cids)
    /\ idx \in 1..Len(snap) + 1
    /\ pc = "step" => idx <= Len(snap)
    /\ startCid \in 0..nextCid
    /\ faults \in 0..FaultThreshold - 1
    /\ cooling \in BOOLEAN
    /\ finished \cup cancelled \cup cleared \subseteq 0..nextCid - 1

\* However the steps of a tick add, cancel, finish, are deferred or fault, the
\* list tickCoroutines leaves behind holds each coroutine once, oldest first:
\* a coroutine never overtakes an older one and never steps twice in a frame.
OldestFirst ==
    \A a, b \in 1..Len(coroutines) : a < b => coroutines[a] < coroutines[b]

\* A coroutine leaves the list only by finishing, by being cancelled or in a
\* fault storm: replacing the list at the end of a tick loses none that was
\* registered, deferred or abandoned meanwhile.
NoneLost ==
    0..nextCid - 1 \subseteq Ids(coroutines) \cup finished \cup cancelled \cup cleared

\* A crash loop does not last: whatever the coroutines do, frames end well again
\* and again, or the storm handler removes the coroutines again and again.
CrashLoopEnds == []<><<EndFrame>>_vars \/ []<>(coroutines = <<>>)
=============================================================================
