------------------------------ MODULE RunQueue ------------------------------
(***************************************************************************)
(* The scheduler's run queue as it is written (process/scheduler.ts, class *)
(* RunQueue): a binary min-heap of contexts in an array, ordered by the    *)
(* contexts' current priority and then by the insertion number of their    *)
(* PID.  It is checked to implement ReadyQueue, on whose operators the     *)
(* model of the scheduler is built.                                        *)
(***************************************************************************)
EXTENDS Integers, Sequences, FiniteSets, Functions

CONSTANTS
    Contexts, PidOf,             \* contexts may share a PID after it was reused
    Priorities, PriorityChanges, \* initial priorities, and those assigned later
    MaxSeq,                      \* bound on _seq
    MaxRekey,                    \* bound on _seq while entries are re-keyed in place
    None                         \* undefined

PIDs == {PidOf[o] : o \in Contexts}

ASSUME BoundsAssumption == {MaxSeq, MaxRekey} \subseteq Nat /\ Priorities \cup PriorityChanges \subseteq Nat

VARIABLES
    heap,      \* _heap, from 1
    seqNo,     \* _seqNo, None for a PID that is not in the map
    seq,       \* _seq
    priority,  \* the priority field of each context
    popped,    \* the result of the last call, if it was a pop()
    sorted     \* history: no entry was re-keyed in place since the heap last
               \* held at most one entry

vars == <<heap, seqNo, seq, priority, popped, sorted>>

Init ==
    /\ heap = <<>>
    /\ seqNo = [p \in PIDs |-> None]
    /\ seq = 0
    /\ priority \in [Contexts -> Priorities]
    /\ popped = None
    /\ sorted = TRUE

Stamp(s, o) == IF s[PidOf[o]] = None THEN 0 ELSE s[PidOf[o]]

\* _cmp under the insertion numbers s
Cmp(s, a, b) ==
    \/ priority[a] < priority[b]
    \/ priority[a] = priority[b] /\ Stamp(s, a) < Stamp(s, b)

Swap(h, i, j) == [h EXCEPT ![i] = h[j], ![j] = h[i]]

RECURSIVE SiftUp(_, _, _), SiftDown(_, _, _)

\* Mutant: the loop stops one level below the root.
SiftUpShort(s, h, i) ==
    LET parent == i \div 2
    IN  IF i > 3 /\ Cmp(s, h[i], h[parent]) THEN SiftUp(s, Swap(h, i, parent), parent) ELSE h

SiftUp(s, h, i) ==
    LET parent == i \div 2
    IN  IF i > 1 /\ Cmp(s, h[i], h[parent]) THEN SiftUp(s, Swap(h, i, parent), parent) ELSE h

SiftDown(s, h, i) ==
    LET n == Len(h)
        l == 2 * i
        r == 2 * i + 1
        best1 == IF l <= n /\ Cmp(s, h[l], h[i]) THEN l ELSE i
        best == IF r <= n /\ Cmp(s, h[r], h[best1]) THEN r ELSE best1
    IN  IF best = i THEN h ELSE SiftDown(s, Swap(h, i, best), best)

Entries(h, o) == Cardinality({i \in 1..Len(h) : h[i] = o})
SharesPid(h, o) == \E i \in 1..Len(h) : PidOf[h[i]] = PidOf[o]

Push(o) ==
    /\ seq < MaxSeq
    /\ LET s == [seqNo EXCEPT ![PidOf[o]] = seq]
       IN  /\ seqNo' = s
           /\ heap' = SiftUp(s, Append(heap, o), Len(heap) + 1)
    /\ seq' = seq + 1
    /\ popped' = None
    /\ sorted' = (sorted /\ ~SharesPid(heap, o))
    /\ sorted' \/ seq < MaxRekey
    /\ UNCHANGED priority

\* Mutant: remove() only sifts down.
TakenSiftedDown(i) ==
    LET last == heap[Len(heap)]
        rest == SubSeq(heap, 1, Len(heap) - 1)
    IN  IF i > Len(rest) THEN rest ELSE SiftDown(seqNo, [rest EXCEPT ![i] = last], i)

\* The heap without position i: the last entry takes the place, and is sifted
\* up (remove() only; at the root there is nothing above) and down.
Taken(i) ==
    LET last == heap[Len(heap)]
        rest == SubSeq(heap, 1, Len(heap) - 1)
    IN  IF i > Len(rest) THEN rest
        ELSE SiftDown(seqNo, SiftUp(seqNo, [rest EXCEPT ![i] = last], i), i)

TakeOut(i) ==
    /\ heap' = Taken(i)
    /\ seqNo' = [seqNo EXCEPT ![PidOf[heap[i]]] = None]
    /\ sorted' = \/ Len(heap') <= 1
                 \/ sorted /\ ~SharesPid(heap', heap[i])

Pop ==
    /\ \/ heap = <<>> /\ popped' = None /\ UNCHANGED <<heap, seqNo, sorted>>
       \/ heap # <<>> /\ popped' = heap[1] /\ TakeOut(1)
    /\ UNCHANGED <<seq, priority>>

\* findIndex takes the first entry of the PID.
Remove(p) ==
    /\ LET at == {i \in 1..Len(heap) : PidOf[heap[i]] = p}
       IN  \/ at = {} /\ UNCHANGED <<heap, seqNo, sorted>>
           \/ \E i \in at : (\A j \in at : i <= j) /\ TakeOut(i)
    /\ popped' = None
    /\ UNCHANGED <<seq, priority>>

\* ProcessScheduler.setPriority assigns the field of a context that may be queued.
SetPriority(o, v) ==
    /\ priority' = [priority EXCEPT ![o] = v]
    /\ sorted' = (sorted /\ (Entries(heap, o) = 0 \/ Len(heap) <= 1))
    /\ seq <= MaxRekey
    /\ popped' = None
    /\ UNCHANGED <<heap, seqNo, seq>>

Next ==
    \/ \E o \in Contexts : Push(o)
    \/ Pop
    \/ \E p \in PIDs : Remove(p)
    \/ \E o \in Contexts, v \in PriorityChanges : SetPriority(o, v)

Spec == Init /\ [][Next]_vars
-----------------------------------------------------------------------------
\* The order of the insertion numbers, as ReadyQueueOps keeps it.
RankOf(p) ==
    IF seqNo[p] = None THEN 0
    ELSE Cardinality({r \in PIDs : seqNo[r] # None /\ seqNo[r] <= seqNo[p]})

Contract == INSTANCE ReadyQueue WITH
    q <- [bag    |-> [o \in Contexts |-> Entries(heap, o)],
          rank   |-> [p \in PIDs |-> RankOf(p)],
          sorted |-> sorted]

\* Whatever is pushed, popped, removed and re-prioritised, the heap keeps the
\* contract the scheduler relies on: nothing is lost or duplicated by the
\* sifting, and pop() returns the first in (priority, insertion) order as long
\* as no entry was re-keyed in place.
ImplementsContract == Contract!Spec

\* No entry precedes its parent, unless an entry was re-keyed in place.
HeapOrdered ==
    sorted => \A i \in 2..Len(heap) : ~Cmp(seqNo, heap[i], heap[i \div 2])
=============================================================================
