--------------------------- MODULE ReadyQueueOps ---------------------------
(***************************************************************************)
(* What the scheduler may rely on when it uses its RunQueue                *)
(* (process/scheduler.ts, class RunQueue): a bag of process contexts and a *)
(* FIFO stamp per PID, from which pop() takes a least entry in the order   *)
(* (priority, stamp).  The layout of the binary heap is left out here and  *)
(* modelled in RunQueue, which is checked to implement this contract.      *)
(*                                                                         *)
(* A queue q is a record                                                   *)
(*   bag     how many times each context sits in _heap                     *)
(*   rank    the order of the stamps in _seqNo, 0 for a PID without one;   *)
(*           only the order of the stamps is ever compared                 *)
(*   sorted  no queued entry had its key changed under it since the heap   *)
(*           last held at most one entry                                   *)
(* The key of an entry is its context's CURRENT priority and its PID's     *)
(* CURRENT stamp, so a priority change, a second push of a PID and the     *)
(* removal of one of two entries of a PID re-key entries in place.  None   *)
(* of the three re-sifts the heap, and pop() may then return any entry.    *)
(*                                                                         *)
(* ctx maps a context to a record with (at least) its pid and priority.    *)
(***************************************************************************)
EXTENDS Naturals, FiniteSets

Queued(q) == {o \in DOMAIN q.bag : q.bag[o] > 0}

AtMostOneEntry(bag) ==
    \A a, b \in DOMAIN bag : bag[a] > 0 /\ bag[b] > 0 => a = b /\ bag[a] = 1

EmptyQueue(Contexts, PIDs) ==
    [bag |-> [o \in Contexts |-> 0], rank |-> [p \in PIDs |-> 0], sorted |-> TRUE]

\* has(pid): answered from _seqNo, not from the heap.
Has(q, p) == q.rank[p] > 0

\* _seqNo.delete(p)
Unstamp(rank, p) ==
    [r \in DOMAIN rank |->
        IF r = p THEN 0
        ELSE IF rank[p] > 0 /\ rank[r] > rank[p] THEN rank[r] - 1 ELSE rank[r]]

Stamped(rank) == {r \in DOMAIN rank : rank[r] > 0}

\* _seqNo.set(p, _seq++)
Stamp(rank, p) ==
    LET u == Unstamp(rank, p)
    IN  [u EXCEPT ![p] = Cardinality(Stamped(u)) + 1]

SharesPid(q, o, ctx) == \E e \in Queued(q) : ctx[e].pid = ctx[o].pid

\* push(o)
Push(q, o, ctx) ==
    [bag    |-> [q.bag EXCEPT ![o] = @ + 1],
     rank   |-> Stamp(q.rank, ctx[o].pid),
     sorted |-> q.sorted /\ ~SharesPid(q, o, ctx)]

\* One entry of context o leaves the heap: the effect of pop() once it has
\* chosen o, and of remove() once it has found o.
Take(q, o, ctx) ==
    LET b == [q.bag EXCEPT ![o] = @ - 1]
        r == [q EXCEPT !.bag = b, !.rank = Unstamp(q.rank, ctx[o].pid)]
    IN  [r EXCEPT !.sorted = \/ AtMostOneEntry(b)
                             \/ q.sorted /\ ~SharesPid(r, o, ctx)]

\* Several contexts none of whose PIDs has a stamp, pushed one after the
\* other in the order of their creation.
PushAll(q, S, ctx) ==
    LET base == Cardinality(Stamped(q.rank))
        RankOf(o) == base + Cardinality({m \in S : m <= o})
    IN  [bag    |-> [o \in DOMAIN q.bag |-> IF o \in S THEN q.bag[o] + 1 ELSE q.bag[o]],
         rank   |-> [p \in DOMAIN q.rank |->
                        IF \E o \in S : ctx[o].pid = p
                        THEN RankOf(CHOOSE o \in S : ctx[o].pid = p)
                        ELSE q.rank[p]],
         sorted |-> q.sorted /\ \A o \in S : ~SharesPid(q, o, ctx)]

\* The priority of o was assigned: its entry, if any, is re-keyed in place.
Rekeyed(q, o) ==
    [q EXCEPT !.sorted = @ /\ (q.bag[o] = 0 \/ AtMostOneEntry(q.bag))]

\* Mutant: the latest of equal priorities first.
BeforeLifo(q, a, b, ctx) ==
    \/ ctx[a].priority < ctx[b].priority
    \/ /\ ctx[a].priority = ctx[b].priority
       /\ q.rank[ctx[a].pid] > q.rank[ctx[b].pid]

\* _cmp(a, b)
Before(q, a, b, ctx) ==
    \/ ctx[a].priority < ctx[b].priority
    \/ /\ ctx[a].priority = ctx[b].priority
       /\ q.rank[ctx[a].pid] < q.rank[ctx[b].pid]

\* The entries pop() may return.
Heads(q, ctx) ==
    IF q.sorted
    THEN {o \in Queued(q) : \A e \in Queued(q) : ~Before(q, e, o, ctx)}
    ELSE Queued(q)
=============================================================================
