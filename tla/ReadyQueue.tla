----------------------------- MODULE ReadyQueue -----------------------------
(***************************************************************************)
(* The contract of ReadyQueueOps as a specification of its own: what the   *)
(* calls of RunQueue (process/scheduler.ts) may do to the queue and may    *)
(* return.  RunQueue, the binary heap, is checked to implement it.         *)
(***************************************************************************)
EXTENDS ReadyQueueOps

CONSTANTS Contexts, PidOf, Priorities, PriorityChanges, None

PIDs == {PidOf[o] : o \in Contexts}

VARIABLES
    q,         \* the queue, as in ReadyQueueOps
    priority,  \* the priority of each context
    popped     \* the result of the last call, if it was a pop()

Ctx == [o \in Contexts |-> [pid |-> PidOf[o], priority |-> priority[o]]]

Init ==
    /\ q = EmptyQueue(Contexts, PIDs)
    /\ priority \in [Contexts -> Priorities]
    /\ popped = None

PushEntry(o) ==
    /\ q' = Push(q, o, Ctx)
    /\ popped' = None
    /\ UNCHANGED priority

\* pop() returns undefined for an empty queue.
Pop ==
    /\ \/ Queued(q) = {} /\ popped' = None /\ UNCHANGED q
       \/ \E o \in Heads(q, Ctx) : q' = Take(q, o, Ctx) /\ popped' = o
    /\ UNCHANGED priority

\* remove(p) takes one entry of the PID out, if there is one.
Remove(p) ==
    /\ LET found == {o \in Queued(q) : PidOf[o] = p}
       IN  \/ found = {} /\ UNCHANGED q
           \/ \E o \in found : q' = Take(q, o, Ctx)
    /\ popped' = None
    /\ UNCHANGED priority

\* The owner of a queued context assigns its priority.
SetPriority(o, v) ==
    /\ priority' = [priority EXCEPT ![o] = v]
    /\ q' = Rekeyed(q, o)
    /\ popped' = None

Next ==
    \/ \E o \in Contexts : PushEntry(o)
    \/ Pop
    \/ \E p \in PIDs : Remove(p)
    \/ \E o \in Contexts, v \in PriorityChanges : SetPriority(o, v)

Spec == Init /\ [][Next]_<<q, priority, popped>>
=============================================================================
