----------------------------- MODULE BlockQueue -----------------------------
(***************************************************************************)
(* The request queue of a block device (fs/blockdev.ts): requests go       *)
(* through one of three elevators and are taken out by an asynchronous     *)
(* drain loop, and by barrier() next to it.  Between taking a request out  *)
(* and settling its promise a loop is suspended, and everything else may   *)
(* happen: new requests, a barrier, another elevator.                      *)
(*                                                                         *)
(* The device is SyncBlockDeviceAdapter, which reads or writes sector by   *)
(* sector when it is called and answers later.  A write stores its         *)
(* request's id; what a read returns is left out, and so is its count.     *)
(***************************************************************************)
EXTENDS Integers, Sequences, FiniteSets, SequencesExt

CONSTANTS
    SectorCount,              \* sectors of the device
    ReadSectors,              \* the sectors that are read
    MaxReq,                   \* bound on the number of requests
    ReadBudget, WriteBudget,  \* _readBudget, _writeBudget
    Elevators,                \* the algorithms the queue may be created with
    SwitchBusy,               \* whether setElevator is called while requests wait
    CanFail                   \* whether the device may fail

ASSUME BoundsAssumption ==
    /\ ReadSectors \subseteq 0..SectorCount - 1
    /\ {SectorCount, MaxReq, ReadBudget, WriteBudget} \subseteq Nat \ {0}
    /\ Elevators \subseteq {"noop", "deadline", "cfq"}
    /\ {SwitchBusy, CanFail} \subseteq BOOLEAN

Sectors == 0..SectorCount - 1
Loops == {"drain", "barrier"}
Nobody == 0

VARIABLES
    elevator,   \* _elevator
    queues,     \* the queues of the three elevators and their counters
    requests,   \* op, sector and count of each request, by id
    expired,    \* waiting requests past their deadline
    running,    \* _running
    inflight,   \* the request each loop has taken out and awaits
    settled,    \* requests whose promise is resolved or rejected
    disk,       \* the last write to each sector
    awaited,    \* history: what was queued when the barrier in progress began
    passed      \* history: unexpired requests taken in a row past waiting ones of the other kind

vars == <<elevator, queues, requests, expired, running, inflight, settled, disk, awaited, passed>>

Submitted == 1..Len(requests)
Waiting == ToSet(queues.fifo) \cup ToSet(queues.reads) \cup ToSet(queues.writes) \cup ToSet(queues.scan)

Init ==
    /\ elevator \in Elevators
    /\ queues = [fifo |-> <<>>, reads |-> <<>>, writes |-> <<>>, scan |-> <<>>,
                 head |-> 0, consecutiveReads |-> 0, consecutiveWrites |-> 0]
    /\ requests = <<>>
    /\ expired = {}
    /\ running = FALSE
    /\ inflight = [l \in Loops |-> Nobody]
    /\ settled = {}
    /\ disk = [s \in Sectors |-> Nobody]
    /\ awaited = {}
    /\ passed = [reads |-> 0, writes |-> 0]
-----------------------------------------------------------------------------
\* The elevators.  rs are the requests, ex the expired ones.

\* CSCANElevator.enqueue: a stable sort by sector after the append.
ScanInsert(scan, rs, id) ==
    LET below == Cardinality({i \in 1..Len(scan) : rs[scan[i]].sector <= rs[id].sector})
    IN  SubSeq(scan, 1, below) \o <<id>> \o SubSeq(scan, below + 1, Len(scan))

Enqueue(q, rs, id) ==
    CASE elevator = "noop" -> [q EXCEPT !.fifo = Append(@, id)]
      [] elevator = "deadline" /\ rs[id].op = "read" -> [q EXCEPT !.reads = Append(@, id)]
      [] elevator = "deadline" /\ rs[id].op = "write" -> [q EXCEPT !.writes = Append(@, id)]
      [] elevator = "cfq" -> [q EXCEPT !.scan = ScanInsert(@, rs, id)]

\* depth
Depth(q) ==
    CASE elevator = "noop" -> Len(q.fifo)
      [] elevator = "deadline" -> Len(q.reads) + Len(q.writes)
      [] elevator = "cfq" -> Len(q.scan)

Counted(n, budget) == IF n < budget THEN n + 1 ELSE budget

\* Where find() stops in a queue: its first expired request.
IsExpired(queue) == \E i \in 1..Len(queue) : queue[i] \in expired
FirstExpired(queue) ==
    CHOOSE i \in 1..Len(queue) : queue[i] \in expired /\ \A j \in 1..i - 1 : queue[j] \notin expired

\* Mutant: the newest write first.
TakeWriteNewest(q, at) ==
    [id |-> Last(q.writes),
     q  |-> [q EXCEPT !.writes = Front(@), !.consecutiveReads = 0,
                      !.consecutiveWrites = Counted(@, WriteBudget)]]

\* Mutant: the reads before the write are still counted.
TakeWriteUncounted(q, at) ==
    [id |-> q.writes[at],
     q  |-> [q EXCEPT !.writes = RemoveAt(@, at), !.consecutiveWrites = Counted(@, WriteBudget)]]

TakeWrite(q, at) ==
    [id |-> q.writes[at],
     q  |-> [q EXCEPT !.writes = RemoveAt(@, at), !.consecutiveReads = 0,
                      !.consecutiveWrites = Counted(@, WriteBudget)]]

\* Mutant: the read is returned and stays queued.
TakeReadKept(q, at, writes) ==
    [id |-> q.reads[at],
     q  |-> [q EXCEPT !.consecutiveReads = Counted(@, ReadBudget), !.consecutiveWrites = writes]]

TakeRead(q, at, writes) ==
    [id |-> q.reads[at],
     q  |-> [q EXCEPT !.reads = RemoveAt(@, at), !.consecutiveReads = Counted(@, ReadBudget),
                      !.consecutiveWrites = writes]]

\* DeadlineElevator.dequeue on a queue that is not empty.
TakeDeadline(q) ==
    IF IsExpired(q.reads) THEN TakeRead(q, FirstExpired(q.reads), 0)
    ELSE IF IsExpired(q.writes) THEN TakeWrite(q, FirstExpired(q.writes))
    ELSE IF q.consecutiveWrites >= WriteBudget /\ q.reads # <<>> THEN TakeRead(q, 1, 0)
    ELSE IF q.reads # <<>> /\ q.consecutiveReads < ReadBudget
         THEN TakeRead(q, 1, q.consecutiveWrites)
    ELSE IF q.writes # <<>> THEN TakeWrite(q, 1)
    ELSE [id |-> Head(q.reads), q |-> [q EXCEPT !.reads = Tail(@)]]

\* CSCANElevator.dequeue: the first sector at or beyond the head, else the first.
TakeScan(q, rs) ==
    LET ahead == {i \in 1..Len(q.scan) : rs[q.scan[i]].sector >= q.head}
        at == IF ahead = {} THEN 1 ELSE CHOOSE i \in ahead : \A j \in ahead : i <= j
    IN  [id |-> q.scan[at],
         q  |-> [q EXCEPT !.scan = RemoveAt(@, at), !.head = rs[q.scan[at]].sector]]

Dequeue(q, rs) ==
    CASE elevator = "noop" -> [id |-> Head(q.fifo), q |-> [q EXCEPT !.fifo = Tail(@)]]
      [] elevator = "deadline" -> TakeDeadline(q)
      [] elevator = "cfq" -> TakeScan(q, rs)
-----------------------------------------------------------------------------
\* SyncBlockDeviceAdapter.writeSectors: sector after sector, up to the first one
\* that fails; d with the first n sectors of request id written.
Written(d, rs, id, n) ==
    [s \in Sectors |-> IF s \in rs[id].sector..rs[id].sector + n - 1 THEN id ELSE d[s]]

\* The requests taken in a row past waiting ones of the other kind, once id is.
PassedBy(q, rs, id) ==
    LET unexpired == elevator = "deadline" /\ id \notin expired
        isRead == rs[id].op = "read"
    IN  [reads  |-> IF unexpired /\ isRead /\ q.writes # <<>> THEN passed.reads + 1 ELSE 0,
         writes |-> IF unexpired /\ ~isRead /\ q.reads # <<>> THEN passed.writes + 1 ELSE 0]

\* The synchronous part of _step in loop l: a request is taken out and the
\* device is called.
Issue(l, q, rs) ==
    LET taken == Dequeue(q, rs)
        r == rs[taken.id]
    IN  /\ queues' = taken.q
        /\ inflight' = [inflight EXCEPT ![l] = taken.id]
        /\ expired' = expired \ {taken.id}
        /\ passed' = PassedBy(taken.q, rs, taken.id)
        /\ IF r.op = "write"
           THEN \E n \in IF CanFail THEN 0..r.count ELSE {r.count} :
                    disk' = Written(disk, rs, taken.id, n)
           ELSE UNCHANGED disk

\* read() and write(): the request is queued, and the drain loop is started
\* unless it runs.  It has taken a request out when the call returns.
Submit(op, sector, count) ==
    /\ Len(requests) < MaxReq
    /\ LET rs == Append(requests, [op |-> op, sector |-> sector, count |-> count])
           q == Enqueue(queues, rs, Len(rs))
       IN  /\ requests' = rs
           /\ running' = TRUE
           /\ IF running
              THEN queues' = q /\ UNCHANGED <<expired, inflight, disk, passed>>
              ELSE Issue("drain", q, rs)
    /\ UNCHANGED <<elevator, settled, awaited>>

\* Mutant: the flag stays set when the loop ends.
LoopEndsRunning(l) == UNCHANGED running

\* What a loop leaves when it finds the queue empty.
LoopEnds(l) == running' = (running /\ l # "drain")

\* The device answers: the promise is settled and the loop goes on.  Between the
\* two the loop awaits once more; the action is one step because what runs there
\* finds _running set and the request taken out, as it does before this action.
Complete(l) ==
    /\ inflight[l] # Nobody
    /\ settled' = settled \cup {inflight[l]}
    /\ IF Depth(queues) > 0
       THEN Issue(l, queues, requests) /\ UNCHANGED <<running, awaited>>
       ELSE /\ LoopEnds(l)
            /\ inflight' = [inflight EXCEPT ![l] = Nobody]
            /\ awaited' = IF l = "barrier" THEN {} ELSE awaited
            /\ UNCHANGED <<queues, expired, disk, passed>>
    /\ UNCHANGED <<elevator, requests>>

\* barrier(), if no other one is in progress.  On an empty queue it returns.
Barrier ==
    /\ inflight["barrier"] = Nobody
    /\ Depth(queues) > 0
    /\ awaited' = Waiting
    /\ Issue("barrier", queues, requests)
    /\ UNCHANGED <<elevator, requests, running, settled>>

\* The deadline of the oldest unexpired request of a queue passes: all of a queue
\* have the same latency, and Date.now() does not step back.
Expire ==
    /\ elevator = "deadline"
    /\ \E queue \in {queues.reads, queues.writes} : \E i \in 1..Len(queue) :
        /\ queue[i] \notin expired
        /\ \A j \in 1..i - 1 : queue[j] \in expired
        /\ expired' = expired \cup {queue[i]}
    /\ UNCHANGED <<elevator, queues, requests, running, inflight, settled, disk, awaited, passed>>

SetElevator(e) ==
    /\ SwitchBusy \/ Depth(queues) = 0
    /\ elevator' = e
    /\ UNCHANGED <<queues, requests, expired, running, inflight, settled, disk, awaited, passed>>

Next ==
    \/ \E s \in ReadSectors : Submit("read", s, 1)
    \/ \E s \in Sectors : \E n \in 1..SectorCount - s : Submit("write", s, n)
    \/ \E l \in Loops : Complete(l)
    \/ Barrier
    \/ Expire
    \/ \E e \in Elevators : SetElevator(e)

Spec == Init /\ [][Next]_vars
-----------------------------------------------------------------------------
\* Every request is in exactly one place: waiting in one queue, in the hands
\* of one of the two loops, or settled.
TypeOK ==
    /\ requests \in Seq([op : {"read", "write"}, sector : Sectors, count : 1..SectorCount])
    /\ Submitted = (Waiting \cup settled \cup {inflight[l] : l \in Loops}) \ {Nobody}
    /\ Len(queues.fifo) + Len(queues.reads) + Len(queues.writes) + Len(queues.scan)
         + Cardinality({l \in Loops : inflight[l] # Nobody}) + Cardinality(settled) = Len(requests)

\* No lost wake-up: whenever a request waits, the drain loop is awaiting the
\* device and will come back for it.
DrainAwake ==
    /\ running <=> inflight["drain"] # Nobody
    /\ Depth(queues) > 0 => running

\* Whichever of the two loops issues them, no write replaces what a later write
\* stored, but for one case: the C-SCAN elevator sorts by the first sector, so a
\* write of several sectors and one that starts at another of them change places.
WritesKeepOrder ==
    [][\A s \in Sectors : disk'[s] < disk[s] =>
          /\ elevator = "cfq"
          /\ requests[disk[s]].sector # requests'[disk'[s]].sector]_vars

\* The two budgets of the deadline elevator keep either kind from being passed
\* over for long by the other, whatever arrives and whichever loop takes the
\* requests: while nothing expires, at most _readBudget reads in a row go before a
\* waiting write, and never two writes in a row before a waiting read.
BoundedBypass == passed.reads <= ReadBudget /\ passed.writes <= 1

\* barrier(): "Synchronous write-barrier: flushes queue before returning.": when it
\* returns, every request that was in the queue when it was called is settled.
BarrierFlushes ==
    [][inflight["barrier"] # Nobody /\ inflight'["barrier"] = Nobody
         => awaited \subseteq settled']_vars
=============================================================================
