------------------------------ MODULE MCTicks ------------------------------
(***************************************************************************)
(* The four components that make progress only because something calls     *)
(* their tick() again and again: the coroutines and the init system from   *)
(* the main loop's frame, the process supervisor from its coroutine, the   *)
(* buffer cache's writeback from its timer.                                *)
(*                                                                         *)
(* They share no state, so a behaviour of all four is an interleaving of   *)
(* one of each, and a property of one of them holds in it if it holds with *)
(* the other three at rest: `focus' is the component that moves.           *)
(***************************************************************************)
EXTENDS MCInitSystem

CONSTANTS
    MaxCid, FaultThreshold,
    Children, NSlots, ChildPolicy, MaxRestarts, Delay, Sliced, FaultLimit, CanFault,
    CrashCalls, MessageCalls, MaxMessages, MaxCalls,
    Blocks, Devices, DeviceOf, Values, MaxEntries, Interval, CanFail

VARIABLES
    focus,
    coroutines, nextCid, pc, snap, idx, keep, startCid, faults, cooling,
    finished, cancelled, cleared,
    slots, tainted, sp, list, tickPc, i, self, pending, reason, back, killed, calls,
    data, dirty, order, lru, registered, disk, uptime, sinceFlush

Threads == INSTANCE Coroutines
Super == INSTANCE Supervisor WITH pc <- tickPc, RestartPolicy <- ChildPolicy
Cache == INSTANCE BufferCache

ASSUME BoundsAssumption ==
    Threads!BoundsOK /\ BoundsOK /\ Super!BoundsOK /\ Cache!BoundsOK

\* Three blocks on two devices.
TwoDevices == [b \in Blocks |-> IF b = 3 THEN "ata1" ELSE "ata0"]

threadVars == <<coroutines, nextCid, pc, snap, idx, keep, startCid, faults, cooling,
                finished, cancelled, cleared>>
superVars == <<slots, tainted, sp, list, tickPc, i, self, pending, reason, back, killed, calls>>
cacheVars == <<data, dirty, order, lru, registered, disk, uptime, sinceFlush>>
allVars == <<focus, threadVars, vars, superVars, cacheVars>>

\* A component at rest has one initial state.
TicksInit ==
    /\ focus \in {"threads", "services", "supervisor", "cache"}
    /\ Threads!Init /\ Init /\ Super!Init /\ Cache!Init
    /\ self = CHOOSE c \in Children : TRUE
    /\ focus # "cache" => disk = [b \in Blocks |-> CHOOSE v \in Values : TRUE]

InThreads == focus = "threads" /\ UNCHANGED <<focus, vars, superVars, cacheVars>>
InServices == focus = "services" /\ UNCHANGED <<focus, threadVars, superVars, cacheVars>>
InSuper == focus = "supervisor" /\ UNCHANGED <<focus, threadVars, vars, cacheVars>>
InCache == focus = "cache" /\ UNCHANGED <<focus, threadVars, vars, superVars>>

TicksNext ==
    \/ InThreads /\ Threads!Next
    \/ InServices /\ Next
    \/ InSuper /\ Super!Next
    \/ InCache /\ Cache!Next

\* The fairness of each component, as its module explains it, for the one that moves.
Ticking ==
    \/ InThreads /\ Threads!Frame
    \/ InServices /\ Tick(MaxElapsed)
    \/ InSuper /\ Super!Tick
    \/ InCache /\ Cache!TimerTick

TicksSpec ==
    /\ TicksInit /\ [][TicksNext]_allVars
    /\ WF_allVars(Ticking)
    /\ WF_allVars(InThreads /\ Threads!CooldownOver)
-----------------------------------------------------------------------------
\* Each component's state is well formed: the locals of tickCoroutines() and of
\* the supervisor's tick() are those of a call in progress, no service is left
\* 'starting' between two calls, a runtime sits in one slot, and the cache keeps
\* to its capacity.
TicksTypeOK == Threads!TypeOK /\ TypeOK /\ Super!TypeOK /\ Cache!TypeOK

\* However the steps of a tick add, cancel, finish, are deferred or fault, the
\* list tickCoroutines() leaves behind holds each coroutine once, oldest first.
OldestFirst == Threads!OldestFirst

\* A coroutine leaves the list only by finishing, by being cancelled or in a
\* fault storm: replacing the list at the end of a tick loses none.
NoneLost == Threads!NoneLost

\* A crash loop does not last: frames end well again and again, or the storm
\* handler removes the coroutines again and again.
CrashLoopEnds == Threads!CrashLoopEnds

\* However crashes, restarts and calls from callbacks interleave, the supervisor's
\* state of a child says 'running' exactly while it has a handle.
RunningIffHeld == Super!RunningIffHeld

\* A slot of the runtime pool is in use only while some supervised process holds a
\* handle through which it can be freed (restart() called from onCrash excluded).
NoRuntimeLeaked == Super!NoRuntimeLeaked

\* A scheduled restart of a child that stays supervised is carried out, unless the
\* child is killed meanwhile.
RestartHappens == Super!RestartHappens

\* A child that crashes again and again without one good tick in between is given up.
GivesUp == Super!GivesUp

\* An entry that is not marked dirty can be thrown away: the disk has its data.
CleanMatchesDisk == Cache!CleanMatchesDisk

\* What a driver sees of a block of a registered device changes only when the
\* block is written or its entry is dropped on purpose.
ViewStable == Cache!ViewStable

\* put(): "If the cache is full, the clean LRU entry is evicted first."
CleanEvictedFirst == Cache!CleanEvictedFirst

\* A dirty block of a registered device reaches the disk, or is dropped on purpose.
DirtyIsWritten == Cache!DirtyIsWritten
=============================================================================
