-------------------------- MODULE SchedulerLemmas --------------------------
(***************************************************************************)
(* What the operators the scheduler is built from preserve.  A state is a  *)
(* record of the variables; Sane(s) is the part of the inductive invariant *)
(* that every operator keeps, and Keeps(s, t) says that t has the PIDs of  *)
(* s and none of the dead contexts of s alive.  There is one lemma for     *)
(* each of taking an entry, pushing one, dispatching, scheduling,          *)
(* terminating, blocking, unblocking, charging and delivering a signal.    *)
(***************************************************************************)
EXTENDS Scheduler, ArrayProofs

LEMMA PIDsFinite == IsFiniteSet(PIDs)
BY FS_Interval, BoundsAssumption DEF PIDs

QueueType == [bag : [Ctx -> Nat], rank : [PIDs -> Nat], sorted : BOOLEAN]

StateType ==
    [ctx : [Ctx -> Context],
     processes : [PIDs -> Ctx \cup {NoCtx}],
     readyQueue : QueueType,
     blockedQueue : [Ctx -> Nat],
     currentProcess : Ctx \cup {NoCtx},
     pending : Seq([pid : PIDs \ {IDLE}, sig : AllSigs]),
     sigMasks : [PIDs -> SUBSET AllSigs],
     handlers : [PIDs -> [AllSigs -> Handlers]]]

LEMMA UnstampType ==
    ASSUME NEW rank \in [PIDs -> Nat], NEW p \in PIDs
    PROVE  Unstamp(rank, p) \in [PIDs -> Nat]
BY DEF Unstamp

LEMMA StampType ==
    ASSUME NEW rank \in [PIDs -> Nat], NEW p \in PIDs
    PROVE  Stamp(rank, p) \in [PIDs -> Nat]
<1> DEFINE u == Unstamp(rank, p)
<1>1. u \in [PIDs -> Nat]
  BY UnstampType
<1>2. Stamped(u) \subseteq PIDs
  BY <1>1 DEF Stamped
<1>3. Cardinality(Stamped(u)) \in Nat
  BY <1>2, PIDsFinite, FS_Subset, FS_CardinalityType
<1> QED
  BY <1>1, <1>3 DEF Stamp

LEMMA PushQueue ==
    ASSUME NEW q \in QueueType, NEW o \in Ctx, NEW c \in [Ctx -> Context]
    PROVE  /\ Push(q, o, c) \in QueueType
           /\ Push(q, o, c).bag = [q.bag EXCEPT ![o] = @ + 1]
<1>1. c[o].pid \in PIDs
  BY DEF Context
<1>2. Stamp(q.rank, c[o].pid) \in [PIDs -> Nat]
  BY <1>1, StampType DEF QueueType
<1>3. (q.sorted /\ ~SharesPid(q, o, c)) \in BOOLEAN
  OBVIOUS
<1> QED
  BY <1>2, <1>3 DEF Push, QueueType

LEMMA TakeQueue ==
    ASSUME NEW q \in QueueType, NEW o \in Ctx, NEW c \in [Ctx -> Context], q.bag[o] > 0
    PROVE  /\ Take(q, o, c) \in QueueType
           /\ Take(q, o, c).bag = [q.bag EXCEPT ![o] = @ - 1]
<1>1. c[o].pid \in PIDs
  BY DEF Context
<1>2. Unstamp(q.rank, c[o].pid) \in [PIDs -> Nat]
  BY <1>1, UnstampType DEF QueueType
<1>3. [q.bag EXCEPT ![o] = @ - 1] \in [Ctx -> Nat]
  BY DEF QueueType
<1> QED
  BY <1>2, <1>3 DEF Take, QueueType

QueuesOK(s) ==
    \A o \in Ctx :
        /\ s.readyQueue.bag[o] = IF s.ctx[o].state = "ready" THEN 1 ELSE 0
        /\ s.blockedQueue[o] = IF s.ctx[o].state = "blocked" THEN 1 ELSE 0
        /\ s.ctx[o].state = "running" <=> s.currentProcess = o
        /\ s.ctx[o].state # "waiting"
        /\ s.ctx[o].waitingFor = NoPid

TableOK(s) ==
    /\ \A p \in PIDs : s.processes[p] # NoCtx =>
          s.ctx[s.processes[p]].pid = p /\ s.ctx[s.processes[p]].state # "unborn"
    /\ \A o \in Ctx : s.ctx[o].state \in {"ready", "running", "blocked"} =>
          s.processes[s.ctx[o].pid] = o

BootOK(s) ==
    /\ s.processes[IDLE] = 1
    /\ s.ctx[1].state \in {"ready", "running"}
    /\ s.ctx[1].maxCPU = 0
    /\ \A o \in 1..3 : s.ctx[o].pid = o - 1 /\ s.ctx[o].state # "unborn"

Sane(s) == s \in StateType /\ QueuesOK(s) /\ TableOK(s) /\ BootOK(s)

Live == {"ready", "running", "blocked"}

\* What every call but createProcess and a reaping waitForProcess leaves alone, and what it may not do to a context.
Keeps(s, t) ==
    /\ t.processes = s.processes
    /\ t.ctx[1].maxCPU = s.ctx[1].maxCPU
    /\ \A x \in Ctx :
          /\ t.ctx[x].pid = s.ctx[x].pid
          /\ t.ctx[x].waitingFor = s.ctx[x].waitingFor
          /\ t.ctx[x].state = "unborn" <=> s.ctx[x].state = "unborn"
          /\ t.ctx[x].state \in Live => s.ctx[x].state \in Live

LEMMA KeepsTransitive ==
    ASSUME NEW s, NEW t, NEW u, Keeps(s, t), Keeps(t, u)
    PROVE  Keeps(s, u)
BY DEF Keeps

LEMMA BootInCtx == 1 \in Ctx /\ 2 \in Ctx /\ 3 \in Ctx /\ 1..3 \subseteq Ctx
BY BoundsAssumption DEF Ctx

LEMMA KeepsTable ==
    ASSUME NEW s, NEW t, s \in StateType, TableOK(s), Keeps(s, t)
    PROVE  TableOK(t)
<1>1. \A p \in PIDs : s.processes[p] \in Ctx \cup {NoCtx}
  BY DEF StateType
<1>2. ASSUME NEW p \in PIDs, s.processes[p] # NoCtx
      PROVE  t.ctx[s.processes[p]].pid = p /\ t.ctx[s.processes[p]].state # "unborn"
  BY <1>1, <1>2 DEF TableOK, Keeps
<1>3. ASSUME NEW o \in Ctx, t.ctx[o].state \in Live
      PROVE  s.processes[t.ctx[o].pid] = o
  BY <1>3 DEF TableOK, Keeps, Live
<1> QED
  BY <1>2, <1>3 DEF TableOK, Keeps, Live

LEMMA KeepsBoot ==
    ASSUME NEW s, NEW t, BootOK(s), Keeps(s, t), t.ctx[1].state \in {"ready", "running"}
    PROVE  BootOK(t)
BY BootInCtx DEF BootOK, Keeps

LEMMA DispatchSane ==
    ASSUME NEW s, Sane(s), s.currentProcess = NoCtx, NEW o \in Ctx, s.readyQueue.bag[o] > 0
    PROVE  LET t == Dispatch([s EXCEPT !.readyQueue = Take(s.readyQueue, o, s.ctx)], o)
           IN  Sane(t) /\ Keeps(s, t) /\ t.currentProcess = o
<1> DEFINE q == Take(s.readyQueue, o, s.ctx)
           c == [s.ctx EXCEPT ![o].state = "running"]
           t == [s EXCEPT !.readyQueue = q, !.ctx = c, !.currentProcess = o]
<1>0. s \in StateType /\ s.readyQueue \in QueueType /\ s.ctx \in [Ctx -> Context]
  BY DEF Sane, StateType
<1>1. q \in QueueType /\ q.bag = [s.readyQueue.bag EXCEPT ![o] = @ - 1]
  BY <1>0, TakeQueue
<1>2. c \in [Ctx -> Context]
  BY <1>0 DEF Context, ProcessState
<1>3. t = Dispatch([s EXCEPT !.readyQueue = Take(s.readyQueue, o, s.ctx)], o)
  BY <1>0 DEF Dispatch, StateType
<1>4. t \in StateType
  BY <1>0, <1>1, <1>2 DEF StateType
<1>5. /\ t.ctx = c /\ t.readyQueue = q /\ t.currentProcess = o
      /\ t.blockedQueue = s.blockedQueue /\ t.processes = s.processes
  BY <1>0 DEF StateType
<1>6. s.ctx[o].state = "ready" /\ \A x \in Ctx : s.ctx[x].state # "running"
  BY DEF Sane, QueuesOK, NoCtx, Ctx
<1>7. \A x \in Ctx : /\ c[x].pid = s.ctx[x].pid /\ c[x].waitingFor = s.ctx[x].waitingFor
                     /\ c[x].maxCPU = s.ctx[x].maxCPU
                     /\ c[x].state = IF x = o THEN "running" ELSE s.ctx[x].state
  BY <1>0 DEF Context
<1> HIDE DEF c, q, t
<1>8. QueuesOK(t)
  BY <1>0, <1>1, <1>5, <1>6, <1>7 DEF Sane, QueuesOK, QueueType
<1>9. Keeps(s, t)
  BY <1>5, <1>6, <1>7, BootInCtx DEF Keeps, Live
<1>10. t.ctx[1].state \in {"ready", "running"}
  BY <1>5, <1>7, BootInCtx DEF Sane, BootOK
<1> QED
  BY <1>0, <1>3, <1>4, <1>5, <1>8, <1>9, <1>10, KeepsTable, KeepsBoot DEF Sane

LEMMA PreemptedSane ==
    ASSUME NEW s, Sane(s)
    PROVE  LET u == [Preempted(s) EXCEPT !.currentProcess = NoCtx]
           IN  Sane(u) /\ Keeps(s, u) /\ u.currentProcess = NoCtx
<1>0. /\ s \in StateType /\ s.readyQueue \in QueueType /\ s.ctx \in [Ctx -> Context]
      /\ s.currentProcess \in Ctx \cup {NoCtx}
  BY DEF Sane, StateType
<1>1. CASE s.currentProcess = NoCtx
  <2> DEFINE u == [Preempted(s) EXCEPT !.currentProcess = NoCtx]
  <2>1. u = s /\ u.currentProcess = NoCtx
    BY <1>0, <1>1 DEF Preempted, StateType
  <2> QED
    BY <2>1 DEF Keeps
<1>2. CASE s.currentProcess \in Ctx
  <2> DEFINE o == s.currentProcess
             q == Push(s.readyQueue, o, s.ctx)
             c == [s.ctx EXCEPT ![o].state = "ready"]
             u == [s EXCEPT !.readyQueue = q, !.ctx = c, !.currentProcess = NoCtx]
  <2>1. s.ctx[o].state = "running" /\ o # NoCtx
    BY <1>2 DEF Sane, QueuesOK, Ctx, NoCtx
  <2>2. u = [Preempted(s) EXCEPT !.currentProcess = NoCtx]
    BY <1>0, <2>1 DEF Preempted, StateType
  <2>3. q \in QueueType /\ q.bag = [s.readyQueue.bag EXCEPT ![o] = @ + 1]
    BY <1>0, <1>2, PushQueue
  <2>4. c \in [Ctx -> Context]
    BY <1>0, <1>2 DEF Context, ProcessState
  <2>5. u \in StateType
    BY <1>0, <2>3, <2>4 DEF StateType
  <2>6. /\ u.ctx = c /\ u.readyQueue = q /\ u.currentProcess = NoCtx
        /\ u.blockedQueue = s.blockedQueue /\ u.processes = s.processes
    BY <1>0 DEF StateType
  <2>7. \A x \in Ctx : /\ c[x].pid = s.ctx[x].pid /\ c[x].waitingFor = s.ctx[x].waitingFor
                       /\ c[x].maxCPU = s.ctx[x].maxCPU
                       /\ c[x].state = IF x = o THEN "ready" ELSE s.ctx[x].state
    BY <1>0, <1>2 DEF Context
  <2> HIDE DEF c, q, u
  <2>8. QueuesOK(u)
    <3>1. \A x \in Ctx : x # NoCtx /\ (s.ctx[x].state = "running" <=> x = o)
      BY <1>2 DEF Sane, QueuesOK, NoCtx, Ctx
    <3>2. \A x \in Ctx : q.bag[x] = IF x = o THEN s.readyQueue.bag[x] + 1 ELSE s.readyQueue.bag[x]
      BY <1>0, <2>3 DEF QueueType
    <3> HIDE DEF o
    <3>3. ASSUME NEW x \in Ctx
          PROVE  /\ q.bag[x] = IF c[x].state = "ready" THEN 1 ELSE 0
                 /\ s.blockedQueue[x] = IF c[x].state = "blocked" THEN 1 ELSE 0
                 /\ c[x].state # "running" /\ c[x].state # "waiting"
                 /\ c[x].waitingFor = NoPid
      BY <2>1, <2>7, <3>1, <3>2 DEF Sane, QueuesOK
    <3> QED
      BY <2>6, <3>1, <3>3 DEF QueuesOK
  <2>9. Keeps(s, u)
    BY <1>2, <2>1, <2>6, <2>7, BootInCtx DEF Keeps, Live
  <2>10. u.ctx[1].state \in {"ready", "running"}
    BY <2>6, <2>7, BootInCtx DEF Sane, BootOK
  <2> QED
    BY <1>0, <2>2, <2>5, <2>6, <2>8, <2>9, <2>10, KeepsTable, KeepsBoot DEF Sane
<1> QED
  BY <1>0, <1>1, <1>2

\* schedule() keeps the scheduler sane and always finds a process to run.
LEMMA ScheduleSane ==
    ASSUME NEW s, Sane(s), NEW t \in Schedule(s)
    PROVE  Sane(t) /\ Keeps(s, t) /\ t.currentProcess \in Ctx
<1>0. /\ s \in StateType /\ s.readyQueue \in QueueType /\ s.ctx \in [Ctx -> Context]
      /\ s.currentProcess \in Ctx \cup {NoCtx} /\ s.readyQueue.bag \in [Ctx -> Nat]
  BY DEF Sane, StateType, QueueType
<1>1. CASE Queued(s.readyQueue) = {}
  <2>1. s.readyQueue.bag[1] = 0
    BY <1>0, <1>1, BootInCtx DEF Queued
  <2>2. s.ctx[1].state = "running" /\ s.currentProcess = 1 /\ s.processes[IDLE] = 1
    BY <2>1, BootInCtx DEF Sane, QueuesOK, BootOK
  <2>3. t = Dispatch(s, 1)
    BY <1>1, <2>2 DEF Schedule, NoCtx
  <2>4. [s.ctx EXCEPT ![1].state = "running"] = s.ctx
    BY <1>0, <2>2, BootInCtx DEF Context
  <2>5. t = s
    BY <1>0, <2>2, <2>3, <2>4 DEF Dispatch, StateType
  <2> QED
    BY <2>2, <2>5, BootInCtx DEF Keeps
<1>2. CASE Queued(s.readyQueue) # {}
  <2> DEFINE w == Preempted(s)
             u == [w EXCEPT !.currentProcess = NoCtx]
  <2>1. Sane(u) /\ Keeps(s, u) /\ u.currentProcess = NoCtx
    BY PreemptedSane
  <2>2. w \in StateType
    <3>1. CASE s.currentProcess = NoCtx
      BY <1>0, <3>1 DEF Preempted
    <3>2. CASE s.currentProcess \in Ctx
      <4>1. Push(s.readyQueue, s.currentProcess, s.ctx) \in QueueType
        BY <1>0, <3>2, PushQueue
      <4>2. [s.ctx EXCEPT ![s.currentProcess].state = "ready"] \in [Ctx -> Context]
        BY <1>0, <3>2 DEF Context, ProcessState
      <4> QED
        BY <1>0, <4>1, <4>2 DEF Preempted, StateType
    <3> QED
      BY <1>0, <3>1, <3>2
  <2>3. w.ctx = u.ctx /\ w.readyQueue = u.readyQueue
    BY <2>2 DEF StateType
  <2>4. PICK c \in Picks(w) :
            t = Dispatch([w EXCEPT !.readyQueue = Take(w.readyQueue, c[2], w.ctx)], c[1])
    <3>1. t \in Switched(w)
      BY <1>2 DEF Schedule
    <3> QED
      BY <3>1 DEF Switched
  <2>5. w.readyQueue.bag \in [Ctx -> Nat] /\ w.ctx \in [Ctx -> Context]
    BY <2>2 DEF StateType, QueueType
  <2>6. c[1] \in Ctx /\ c[1] = c[2] /\ w.readyQueue.bag[c[1]] > 0
    <3>1. Queued(w.readyQueue) = {x \in Ctx : w.readyQueue.bag[x] > 0}
      BY <2>5 DEF Queued
    <3>2. CASE algorithm = "real-time" /\ RealTimeEligible(w) # {}
      <4>1. c \in RealTimeEligible(w) \X Queued(w.readyQueue) /\ w.ctx[c[1]].pid = w.ctx[c[2]].pid
        BY <3>2 DEF Picks
      <4>2. c[1] \in Queued(w.readyQueue) /\ c[2] \in Queued(w.readyQueue)
        BY <4>1 DEF RealTimeEligible
      <4>3. w.ctx[c[1]].state = "ready" /\ w.ctx[c[2]].state = "ready"
        BY <4>2, <3>1, <2>1, <2>3 DEF Sane, QueuesOK
      <4>4. w.processes = u.processes
        BY <2>2 DEF StateType
      <4>5. c[1] = c[2]
        BY <4>1, <4>2, <4>3, <4>4, <3>1, <2>1, <2>3 DEF Sane, TableOK
      <4> QED
        BY <4>2, <4>5, <3>1
    <3>3. CASE ~(algorithm = "real-time" /\ RealTimeEligible(w) # {})
      <4>1. PICK x \in Heads(w.readyQueue, w.ctx) : c = <<x, x>>
        BY <3>3 DEF Picks
      <4> QED
        BY <4>1, <3>1 DEF Heads
    <3> QED
      BY <3>2, <3>3
  <2>7. t = Dispatch([u EXCEPT !.readyQueue = Take(u.readyQueue, c[1], u.ctx)], c[1])
    BY <2>2, <2>3, <2>4, <2>6 DEF Dispatch, StateType
  <2>8. Sane(t) /\ Keeps(u, t) /\ t.currentProcess = c[1]
    BY <2>1, <2>3, <2>6, <2>7, DispatchSane
  <2> QED
    BY <2>1, <2>6, <2>8, KeepsTransitive
<1> QED
  BY <1>1, <1>2

SigType == [pid : PIDs \ {IDLE}, sig : AllSigs]

LEMMA SetState ==
    ASSUME NEW c \in [Ctx -> Context], NEW o \in Ctx, NEW st \in ProcessState
    PROVE  LET d == [c EXCEPT ![o].state = st]
           IN  /\ d \in [Ctx -> Context]
               /\ \A x \in Ctx : /\ d[x].pid = c[x].pid /\ d[x].waitingFor = c[x].waitingFor
                                 /\ d[x].maxCPU = c[x].maxCPU
                                 /\ d[x].state = IF x = o THEN st ELSE c[x].state
BY DEF Context

LEMMA PushNone ==
    ASSUME NEW q \in QueueType, NEW c
    PROVE  PushAll(q, {}, c) \in QueueType /\ PushAll(q, {}, c).bag = q.bag
BY DEF PushAll, QueueType

\* pid is the current process's: schedule() with no current process.
LEMMA YieldSane ==
    ASSUME NEW s, NEW p \in PIDs, s \in StateType, s.currentProcess \in Ctx,
           s.ctx[s.currentProcess].pid = p => Sane([s EXCEPT !.currentProcess = NoCtx]),
           s.ctx[s.currentProcess].pid # p => Sane(s),
           NEW t \in YieldIfCurrent(s, p)
    PROVE  Sane(t) /\ Keeps(s, t) /\ t.currentProcess \in Ctx
<1>1. CASE s.ctx[s.currentProcess].pid = p
  <2> DEFINE u == [s EXCEPT !.currentProcess = NoCtx]
  <2>1. t \in Schedule(u) /\ Sane(u)
    BY <1>1 DEF YieldIfCurrent, NoCtx, Ctx
  <2>2. u.ctx = s.ctx /\ u.processes = s.processes
    BY DEF StateType
  <2>3. Keeps(s, u)
    BY <2>2 DEF Keeps
  <2> QED
    BY <2>1, <2>3, ScheduleSane, KeepsTransitive
<1>2. CASE s.ctx[s.currentProcess].pid # p
  BY <1>2 DEF YieldIfCurrent, Keeps
<1> QED
  BY <1>1, <1>2

\* terminateProcess(): the context leaves both queues, and nobody waits for it.
LEMMA TerminateSane ==
    ASSUME NEW s, Sane(s), s.currentProcess \in Ctx, NEW p \in PIDs \ {IDLE},
           NEW t \in TerminateProcess(s, p)
    PROVE  Sane(t) /\ Keeps(s, t) /\ t.currentProcess \in Ctx
<1>0. /\ s \in StateType /\ s.readyQueue \in QueueType /\ s.ctx \in [Ctx -> Context]
      /\ s.readyQueue.bag \in [Ctx -> Nat] /\ s.blockedQueue \in [Ctx -> Nat]
      /\ s.processes \in [PIDs -> Ctx \cup {NoCtx}] /\ s.pending \in Seq(SigType)
  BY DEF Sane, StateType, QueueType, SigType
<1>1. CASE ~Alive(s, p)
  BY <1>1 DEF TerminateProcess, Keeps
<1>2. CASE Alive(s, p)
  <2> DEFINE o == s.processes[p]
             c == [s.ctx EXCEPT ![o].state = "terminated"]
             dead == Cleanup([s EXCEPT !.ctx[o].state = "terminated"], p)
  <2>1. o \in Ctx /\ s.ctx[o].pid = p /\ s.ctx[o].state \in Live /\ o # 1
    <3>1. o \in Ctx /\ s.ctx[o].pid = p /\ s.ctx[o].state # "unborn" /\ s.ctx[o].state # "terminated"
      BY <1>0, <1>2 DEF Sane, TableOK, Alive
    <3>2. s.ctx[o].state \in Live
      BY <1>0, <3>1 DEF Sane, QueuesOK, Context, ProcessState, Live
    <3> QED
      BY <3>1, <3>2 DEF Sane, BootOK, IDLE
  <2>2. \A x \in Ctx : s.ctx[x].state \in Live /\ s.ctx[x].pid = p => x = o
    BY DEF Sane, TableOK, Live
  <2>3. /\ c \in [Ctx -> Context]
        /\ \A x \in Ctx : /\ c[x].pid = s.ctx[x].pid /\ c[x].waitingFor = s.ctx[x].waitingFor
                          /\ c[x].maxCPU = s.ctx[x].maxCPU
                          /\ c[x].state = IF x = o THEN "terminated" ELSE s.ctx[x].state
    <3>1. o \in Ctx /\ "terminated" \in ProcessState /\ s.ctx \in [Ctx -> Context]
      BY <1>0, <2>1 DEF ProcessState
    <3> HIDE DEF o
    <3> QED
      BY <3>1, SetState
  <2>4. \A x \in Ctx : s.ctx[x].waitingFor # p
    BY DEF Sane, QueuesOK, NoPid, PIDs
  <2>5. dead \in StateType
    <3> DEFINE pend == Filtered(s.pending, {i \in 1..Len(s.pending) : s.pending[i].pid # p})
    <3>1. pend \in Seq(SigType)
      BY <1>0, FilteredType
    <3>2. dead = [s EXCEPT !.ctx = c, !.pending = pend, !.sigMasks = [s.sigMasks EXCEPT ![p] = {}],
                           !.handlers = [s.handlers EXCEPT ![p] = NoHandlers]]
      BY <1>0 DEF Cleanup, StateType
    <3>3. NoHandlers \in [AllSigs -> Handlers]
      BY DEF NoHandlers, Handlers
    <3> HIDE DEF pend, c, dead
    <3> QED
      BY <1>0, <2>3, <3>1, <3>2, <3>3 DEF StateType, SigType
  <2>6. /\ dead.ctx = c /\ dead.readyQueue = s.readyQueue /\ dead.blockedQueue = s.blockedQueue
        /\ dead.processes = s.processes /\ dead.currentProcess = s.currentProcess
    BY <1>0 DEF Cleanup, StateType
  <2>7. PICK v \in RemoveReady(dead, p) : t \in YieldIfCurrent(WakeWaiters(RemoveBlocked(v, p), p), p)
    BY <1>2 DEF TerminateProcess
  <2> HIDE DEF dead, c, o
  <2>8. /\ v.readyQueue \in QueueType
        /\ \A x \in Ctx : v.readyQueue.bag[x] = IF x = o THEN 0 ELSE s.readyQueue.bag[x]
        /\ v = [dead EXCEPT !.readyQueue = v.readyQueue]
    <3> DEFINE found == {x \in Queued(dead.readyQueue) : dead.ctx[x].pid = p}
    <3>1. \A x \in Ctx : s.readyQueue.bag[x] = IF s.ctx[x].state = "ready" THEN 1 ELSE 0
      BY DEF Sane, QueuesOK
    <3>2. found = IF s.ctx[o].state = "ready" THEN {o} ELSE {}
      <4>1. Queued(dead.readyQueue) = {x \in Ctx : s.ctx[x].state = "ready"}
        BY <1>0, <2>6, <3>1 DEF Queued
      <4>2. found = {x \in Ctx : s.ctx[x].state = "ready" /\ s.ctx[x].pid = p}
        BY <4>1, <2>3, <2>6
      <4> QED
        BY <2>1, <2>2, <4>2 DEF Live
    <3>3. CASE s.ctx[o].state = "ready"
      <4>1. v = [dead EXCEPT !.readyQueue = Take(dead.readyQueue, o, dead.ctx)]
        BY <3>2, <3>3 DEF RemoveReady
      <4>2. v.readyQueue = Take(s.readyQueue, o, c)
        BY <4>1, <2>5, <2>6 DEF StateType
      <4>3. /\ v.readyQueue \in QueueType
            /\ v.readyQueue.bag = [s.readyQueue.bag EXCEPT ![o] = @ - 1]
        <5>1. s.readyQueue.bag[o] > 0
          BY <2>1, <3>1, <3>3
        <5> QED
          BY <1>0, <2>1, <2>3, <4>2, <5>1, TakeQueue
      <4> QED
        BY <1>0, <2>1, <2>5, <2>6, <3>1, <3>3, <4>1, <4>2, <4>3 DEF StateType
    <3>4. CASE s.ctx[o].state # "ready"
      <4>1. v = dead
        BY <3>2, <3>4 DEF RemoveReady
      <4> QED
        BY <1>0, <2>1, <2>5, <2>6, <3>1, <3>4, <4>1 DEF StateType
    <3> QED
      BY <3>3, <3>4
  <2>9. v \in StateType /\ v.ctx = c /\ v.blockedQueue = s.blockedQueue
        /\ v.processes = s.processes /\ v.currentProcess = s.currentProcess
    BY <2>5, <2>6, <2>8 DEF StateType
  <2> DEFINE b == [x \in Ctx |-> IF c[x].pid = p THEN 0 ELSE s.blockedQueue[x]]
             w == WakeWaiters(RemoveBlocked(v, p), p)
  <2>10. /\ w \in StateType /\ w.ctx = c /\ w.blockedQueue = b /\ w.readyQueue.bag = v.readyQueue.bag
         /\ w.processes = s.processes /\ w.currentProcess = s.currentProcess
    <3> DEFINE u == RemoveBlocked(v, p)
    <3>1. /\ u \in StateType /\ u.ctx = c /\ u.blockedQueue = b /\ u.readyQueue = v.readyQueue
          /\ u.processes = s.processes /\ u.currentProcess = s.currentProcess
      <4>1. b \in [Ctx -> Nat]
        BY <1>0
      <4>2. u = [v EXCEPT !.blockedQueue = b]
        BY <2>9 DEF RemoveBlocked
      <4> HIDE DEF b
      <4> QED
        BY <2>9, <4>1, <4>2 DEF StateType
    <3> HIDE DEF u, b
    <3>2. {x \in Ctx : (\E q \in PIDs : u.processes[q] = x) /\ u.ctx[x].waitingFor = p} = {}
      BY <2>3, <2>4, <3>1
    <3>3. w = [u EXCEPT !.ctx = [x \in Ctx |-> u.ctx[x]], !.readyQueue = PushAll(u.readyQueue, {}, u.ctx)]
      BY <3>2 DEF WakeWaiters, u
    <3>4. [x \in Ctx |-> u.ctx[x]] = c
      BY <2>3, <3>1
    <3>5. /\ PushAll(u.readyQueue, {}, u.ctx) \in QueueType
          /\ PushAll(u.readyQueue, {}, u.ctx).bag = v.readyQueue.bag
      BY <2>8, <3>1, PushNone
    <3> HIDE DEF w
    <3> QED
      BY <2>3, <3>1, <3>3, <3>4, <3>5 DEF StateType
  <2>11. s.ctx[s.currentProcess].pid = p <=> s.currentProcess = o
    BY <2>1, <2>2 DEF Sane, QueuesOK, Live
  <2> HIDE DEF w
  <2> DEFINE cur == IF s.currentProcess = o THEN NoCtx ELSE s.currentProcess
             z == [w EXCEPT !.currentProcess = cur]
  <2>12. /\ z \in StateType /\ z.ctx = c /\ z.blockedQueue = b /\ z.readyQueue.bag = v.readyQueue.bag
         /\ z.processes = s.processes /\ z.currentProcess = cur
    BY <2>10 DEF StateType
  <2>13. QueuesOK(z)
    <3>1. \A x \in Ctx : s.ctx[x].state = "blocked" /\ c[x].pid = p => x = o
      BY <2>2, <2>3 DEF Live
    <3>2. \A x \in Ctx : x # NoCtx
      BY DEF Ctx, NoCtx
    <3> HIDE DEF z
    <3>3. ASSUME NEW x \in Ctx
          PROVE  /\ v.readyQueue.bag[x] = IF c[x].state = "ready" THEN 1 ELSE 0
                 /\ b[x] = IF c[x].state = "blocked" THEN 1 ELSE 0
                 /\ c[x].state = "running" <=> cur = x
                 /\ c[x].state # "waiting" /\ c[x].waitingFor = NoPid
      BY <2>1, <2>3, <2>8, <3>1, <3>2 DEF Sane, QueuesOK
    <3> HIDE DEF b, cur
    <3> QED
      BY <2>12, <3>3 DEF QueuesOK
  <2>14. Keeps(s, z)
    <3> HIDE DEF z
    <3> QED
      BY <2>1, <2>3, <2>12, BootInCtx DEF Keeps, Live
  <2>15. z.ctx[1].state \in {"ready", "running"}
    <3> HIDE DEF z
    <3> QED
      BY <2>1, <2>3, <2>12, BootInCtx DEF Sane, BootOK
  <2>16. Sane(z)
    <3> HIDE DEF z
    <3> QED
      BY <1>0, <2>12, <2>13, <2>14, <2>15, KeepsTable, KeepsBoot DEF Sane
  <2>17. Keeps(s, w)
    <3>1. z.ctx = w.ctx /\ z.processes = w.processes
      BY <2>10 DEF StateType
    <3> HIDE DEF z
    <3> QED
      BY <2>14, <3>1 DEF Keeps
  <2>18. s.currentProcess # o => z = w
    BY <2>10 DEF StateType
  <2>19. w.ctx[w.currentProcess].pid = p <=> s.currentProcess = o
    BY <2>3, <2>10, <2>11
  <2>20. Sane(t) /\ Keeps(w, t) /\ t.currentProcess \in Ctx
    BY <2>7, <2>10, <2>16, <2>18, <2>19, YieldSane DEF w
  <2> QED
    BY <2>17, <2>20, KeepsTransitive
<1> QED
  BY <1>1, <1>2

\* A step that touches neither the queues nor the states of the contexts.
LEMMA SameQueues ==
    ASSUME NEW s, Sane(s), NEW t \in StateType,
           t.processes = s.processes, t.readyQueue.bag = s.readyQueue.bag,
           t.blockedQueue = s.blockedQueue, t.currentProcess = s.currentProcess,
           t.ctx[1].maxCPU = s.ctx[1].maxCPU,
           \A x \in Ctx : /\ t.ctx[x].pid = s.ctx[x].pid
                          /\ t.ctx[x].waitingFor = s.ctx[x].waitingFor
                          /\ t.ctx[x].state = s.ctx[x].state
    PROVE  Sane(t) /\ Keeps(s, t)
<1>1. QueuesOK(t)
  BY DEF Sane, QueuesOK
<1>2. Keeps(s, t)
  BY DEF Keeps
<1>3. t.ctx[1].state \in {"ready", "running"}
  BY BootInCtx DEF Sane, BootOK
<1> QED
  BY <1>1, <1>2, <1>3, KeepsTable, KeepsBoot DEF Sane

LEMMA SetPending ==
    ASSUME NEW s, Sane(s), NEW q \in Seq(SigType)
    PROVE  LET t == [s EXCEPT !.pending = q]
           IN  Sane(t) /\ Keeps(s, t) /\ t.currentProcess = s.currentProcess /\ t.ctx = s.ctx
<1> DEFINE t == [s EXCEPT !.pending = q]
<1>1. s \in StateType
  BY DEF Sane
<1>2. t \in StateType
  BY <1>1 DEF StateType, SigType
<1>3. /\ t.processes = s.processes /\ t.readyQueue.bag = s.readyQueue.bag
      /\ t.blockedQueue = s.blockedQueue /\ t.currentProcess = s.currentProcess /\ t.ctx = s.ctx
  BY <1>1 DEF StateType
<1> HIDE DEF t
<1>4. Sane(t) /\ Keeps(s, t)
  BY <1>2, <1>3, SameQueues
<1> QED
  BY <1>3, <1>4 DEF t

LEMMA UnblockSane ==
    ASSUME NEW s, Sane(s), NEW p \in PIDs, NEW t \in UnblockProcess(s, p)
    PROVE  Sane(t) /\ Keeps(s, t) /\ t.currentProcess = s.currentProcess
<1>0. /\ s \in StateType /\ s.readyQueue \in QueueType /\ s.ctx \in [Ctx -> Context]
      /\ s.readyQueue.bag \in [Ctx -> Nat] /\ s.blockedQueue \in [Ctx -> Nat]
  BY DEF Sane, StateType, QueueType
<1> DEFINE found == {o \in Ctx : s.blockedQueue[o] > 0 /\ s.ctx[o].pid = p}
<1>1. CASE found = {}
  BY <1>1 DEF UnblockProcess, Keeps
<1>2. CASE found # {}
  <2>1. PICK o \in found :
           t = [s EXCEPT !.blockedQueue[o] = @ - 1, !.ctx[o].state = "ready",
                         !.readyQueue = Push(s.readyQueue, o, s.ctx)]
    BY <1>2 DEF UnblockProcess
  <2>2. o \in Ctx /\ s.blockedQueue[o] > 0 /\ s.ctx[o].state = "blocked"
    BY DEF Sane, QueuesOK
  <2> DEFINE c == [s.ctx EXCEPT ![o].state = "ready"]
             b == [s.blockedQueue EXCEPT ![o] = @ - 1]
             q == Push(s.readyQueue, o, s.ctx)
  <2>3. /\ c \in [Ctx -> Context]
        /\ \A x \in Ctx : /\ c[x].pid = s.ctx[x].pid /\ c[x].waitingFor = s.ctx[x].waitingFor
                          /\ c[x].maxCPU = s.ctx[x].maxCPU
                          /\ c[x].state = IF x = o THEN "ready" ELSE s.ctx[x].state
    BY <1>0, <2>2, SetState DEF ProcessState
  <2>4. /\ q \in QueueType
        /\ \A x \in Ctx : q.bag[x] = IF x = o THEN s.readyQueue.bag[x] + 1 ELSE s.readyQueue.bag[x]
    <3>1. q \in QueueType /\ q.bag = [s.readyQueue.bag EXCEPT ![o] = @ + 1]
      BY <1>0, <2>2, PushQueue
    <3> QED
      BY <1>0, <3>1
  <2>5. b \in [Ctx -> Nat] /\ \A x \in Ctx : b[x] = IF x = o THEN s.blockedQueue[x] - 1 ELSE s.blockedQueue[x]
    BY <1>0, <2>2
  <2>6. t = [s EXCEPT !.blockedQueue = b, !.ctx = c, !.readyQueue = q]
    BY <1>0, <2>1 DEF StateType
  <2> HIDE DEF b, c, q
  <2>7. /\ t \in StateType /\ t.ctx = c /\ t.blockedQueue = b /\ t.readyQueue = q
        /\ t.processes = s.processes /\ t.currentProcess = s.currentProcess
    BY <1>0, <2>3, <2>4, <2>5, <2>6 DEF StateType
  <2>8. QueuesOK(t)
    <3>1. ASSUME NEW x \in Ctx
          PROVE  /\ q.bag[x] = IF c[x].state = "ready" THEN 1 ELSE 0
                 /\ b[x] = IF c[x].state = "blocked" THEN 1 ELSE 0
                 /\ c[x].state = "running" <=> s.currentProcess = x
                 /\ c[x].state # "waiting" /\ c[x].waitingFor = NoPid
      BY <2>2, <2>3, <2>4, <2>5 DEF Sane, QueuesOK
    <3> QED
      BY <2>7, <3>1 DEF QueuesOK
  <2>9. Keeps(s, t)
    BY <2>2, <2>3, <2>7, BootInCtx DEF Keeps, Live
  <2>10. t.ctx[1].state \in {"ready", "running"}
    BY <2>3, <2>7, BootInCtx DEF Sane, BootOK
  <2> QED
    BY <1>0, <2>7, <2>8, <2>9, <2>10, KeepsTable, KeepsBoot DEF Sane
<1> QED
  BY <1>1, <1>2

LEMMA SendSane ==
    ASSUME NEW s, Sane(s), NEW p \in PIDs \ {IDLE}, NEW sig \in AllSigs, NEW t \in Send(s, p, sig)
    PROVE  Sane(t) /\ Keeps(s, t) /\ t.currentProcess = s.currentProcess
<1> DEFINE q == Append(s.pending, [pid |-> p, sig |-> sig])
           u == [s EXCEPT !.pending = q]
<1>1. q \in Seq(SigType)
  <2>1. s.pending \in Seq(SigType)
    BY DEF Sane, StateType, SigType
  <2>2. [pid |-> p, sig |-> sig] \in SigType
    BY DEF SigType
  <2> QED
    BY <2>1, <2>2, AppendProperties
<1>2. t \in UnblockProcess(u, p)
  BY DEF Send
<1> HIDE DEF q
<1>3. Sane(u) /\ Keeps(s, u) /\ u.currentProcess = s.currentProcess
  BY <1>1, SetPending
<1> HIDE DEF u
<1> QED
  BY <1>2, <1>3, UnblockSane, KeepsTransitive

LEMMA BlockSane ==
    ASSUME NEW s, Sane(s), s.currentProcess \in Ctx, NEW p \in PIDs \ {IDLE},
           NEW t \in BlockProcess(s, p)
    PROVE  Sane(t) /\ Keeps(s, t) /\ t.currentProcess \in Ctx
<1>0. /\ s \in StateType /\ s.readyQueue \in QueueType /\ s.ctx \in [Ctx -> Context]
      /\ s.readyQueue.bag \in [Ctx -> Nat] /\ s.blockedQueue \in [Ctx -> Nat]
      /\ s.processes \in [PIDs -> Ctx \cup {NoCtx}]
  BY DEF Sane, StateType, QueueType
<1> DEFINE o == s.processes[p]
<1>1. CASE o = NoCtx \/ s.ctx[o].state # "running"
  BY <1>1 DEF BlockProcess, Keeps
<1>2. CASE o # NoCtx /\ s.ctx[o].state = "running"
  <2>1. o \in Ctx /\ s.currentProcess = o /\ s.ctx[o].pid = p /\ o # 1
    BY <1>0, <1>2 DEF Sane, QueuesOK, TableOK, BootOK, IDLE
  <2> DEFINE c == [s.ctx EXCEPT ![o].state = "blocked"]
             b == [s.blockedQueue EXCEPT ![o] = @ + 1]
             u == [s EXCEPT !.ctx = c, !.blockedQueue = b]
             z == [u EXCEPT !.currentProcess = NoCtx]
  <2>2. t \in YieldIfCurrent(u, p)
    BY <1>0, <1>2 DEF BlockProcess, StateType
  <2> HIDE DEF o
  <2>3. /\ c \in [Ctx -> Context]
        /\ \A x \in Ctx : /\ c[x].pid = s.ctx[x].pid /\ c[x].waitingFor = s.ctx[x].waitingFor
                          /\ c[x].maxCPU = s.ctx[x].maxCPU
                          /\ c[x].state = IF x = o THEN "blocked" ELSE s.ctx[x].state
    <3>1. o \in Ctx /\ "blocked" \in ProcessState
      BY <2>1 DEF ProcessState
    <3> QED
      BY <1>0, <3>1, SetState
  <2>4. b \in [Ctx -> Nat] /\ \A x \in Ctx : b[x] = IF x = o THEN s.blockedQueue[x] + 1 ELSE s.blockedQueue[x]
    BY <1>0, <2>1
  <2> HIDE DEF b, c
  <2>5. /\ u \in StateType /\ u.ctx = c /\ u.processes = s.processes /\ u.currentProcess = s.currentProcess
        /\ z \in StateType /\ z.ctx = c /\ z.blockedQueue = b /\ z.readyQueue = s.readyQueue
        /\ z.processes = s.processes /\ z.currentProcess = NoCtx
    BY <1>0, <2>3, <2>4 DEF StateType
  <2>6. Keeps(s, u) /\ Keeps(s, z)
    <3> HIDE DEF u, z
    <3> QED
      BY <1>2, <2>1, <2>3, <2>5, BootInCtx DEF Keeps, Live, o
  <2>7. QueuesOK(z)
    <3>1. \A x \in Ctx : x # NoCtx
      BY DEF Ctx, NoCtx
    <3>2. s.ctx[o].state = "running"
      BY <1>2 DEF o
    <3>3. ASSUME NEW x \in Ctx
          PROVE  /\ s.readyQueue.bag[x] = IF c[x].state = "ready" THEN 1 ELSE 0
                 /\ b[x] = IF c[x].state = "blocked" THEN 1 ELSE 0
                 /\ c[x].state # "running" /\ c[x].state # "waiting" /\ c[x].waitingFor = NoPid
      BY <2>1, <2>3, <2>4, <3>2 DEF Sane, QueuesOK
    <3> HIDE DEF z
    <3> QED
      BY <2>5, <3>1, <3>3 DEF QueuesOK
  <2>8. z.ctx[1].state \in {"ready", "running"}
    <3> HIDE DEF z
    <3> QED
      BY <2>1, <2>3, <2>5, BootInCtx DEF Sane, BootOK
  <2>9. Sane(z)
    <3> HIDE DEF z
    <3> QED
      BY <1>0, <2>5, <2>6, <2>7, <2>8, KeepsTable, KeepsBoot DEF Sane
  <2>10. u.ctx[u.currentProcess].pid = p /\ u.currentProcess \in Ctx
    <3> HIDE DEF u
    <3> QED
      BY <2>1, <2>3, <2>5
  <2> HIDE DEF u
  <2>11. Sane(t) /\ Keeps(u, t) /\ t.currentProcess \in Ctx
    BY <2>2, <2>5, <2>9, <2>10, YieldSane
  <2> QED
    BY <2>6, <2>11, KeepsTransitive
<1> QED
  BY <1>1, <1>2

\* deliverPending(), with the termination in the middle of its loop.
LEMMA DeliverSane ==
    ASSUME NEW s, Sane(s), s.currentProcess \in Ctx, NEW p \in PIDs, NEW t \in DeliverPending(s, p)
    PROVE  Sane(t) /\ Keeps(s, t) /\ t.currentProcess \in Ctx
<1> DEFINE kept  == {i \in 1..Len(s.pending) : s.pending[i].pid # p \/ Masked(s, s.pending[i])}
           fatal == {i \in 1..Len(s.pending) : s.pending[i].pid = p /\ Fatal(s, s.pending[i])}
           k == CHOOSE i \in fatal : \A j \in fatal : i <= j
<1>0. s.pending \in Seq(SigType)
  BY DEF Sane, StateType, SigType
<1>1. Len(s.pending) \in Nat
  BY <1>0, LenProperties
<1>2. CASE fatal = {} \/ ~Alive(s, p)
  <2>1. t = [s EXCEPT !.pending = Filtered(s.pending, kept)]
    BY <1>2 DEF DeliverPending
  <2>2. Filtered(s.pending, kept) \in Seq(SigType)
    BY <1>0, FilteredType
  <2> HIDE DEF kept
  <2> QED
    BY <2>1, <2>2, SetPending
<1>3. CASE ~(fatal = {} \/ ~Alive(s, p))
  <2>1. PICK u \in TerminateProcess(s, p) :
            t = [u EXCEPT !.pending = Filtered(s.pending, kept \cap 1..k)
                                      \o SubSeq(u.pending, k + 1, Len(u.pending))]
    BY <1>3 DEF DeliverPending
  <2>2. k \in fatal
    <3>1. fatal \in SUBSET Nat
      BY <1>1
    <3>2. \E i \in fatal : \A j \in fatal : i <= j
      BY <1>3, <3>1, LeastNat
    <3> QED
      BY <3>2
  <2>3. p # IDLE /\ k \in Nat
    <3>1. k \in 1..Len(s.pending) /\ s.pending[k].pid = p
      BY <2>2
    <3>2. s.pending[k] \in SigType
      BY <1>0, <3>1, ElementOfSeq
    <3> QED
      BY <1>1, <3>1, <3>2 DEF SigType
  <2>4. Sane(u) /\ Keeps(s, u) /\ u.currentProcess \in Ctx
    BY <2>1, <2>3, TerminateSane
  <2>5. Filtered(s.pending, kept \cap 1..k) \in Seq(SigType)
    BY <1>0, FilteredType
  <2>6. SubSeq(u.pending, k + 1, Len(u.pending)) \in Seq(SigType)
    <3>1. u.pending \in Seq(SigType)
      BY <2>4 DEF Sane, StateType, SigType
    <3>2. Len(u.pending) \in Nat
      BY <3>1, LenProperties
    <3> HIDE DEF k
    <3>3. \A i \in 1..Len(u.pending) : u.pending[i] \in SigType
      BY <3>1, ElementOfSeq
    <3>4. \A i \in (k + 1) .. Len(u.pending) : u.pending[i] \in SigType
      BY <2>3, <3>2, <3>3
    <3>5. k + 1 \in Int /\ Len(u.pending) \in Int
      BY <2>3, <3>2
    <3> QED
      BY <3>4, <3>5, SubSeqProperties
  <2>7. Filtered(s.pending, kept \cap 1..k) \o SubSeq(u.pending, k + 1, Len(u.pending)) \in Seq(SigType)
    BY <2>5, <2>6, ConcatProperties
  <2> HIDE DEF kept, k, fatal
  <2> QED
    BY <2>1, <2>4, <2>7, SetPending, KeepsTransitive
<1> QED
  BY <1>2, <1>3

LEMMA CpuCapType == CpuCap \in Nat
<1>1. \E m \in CpuLimits \cup {0} : \A l \in CpuLimits \cup {0} : l <= m
  BY BoundsAssumption
<1>2. CpuCap \in CpuLimits \cup {0}
  BY <1>1 DEF CpuCap
<1> QED
  BY <1>2, BoundsAssumption

\* A context whose accounting fields alone change.
LEMMA AccountSane ==
    ASSUME NEW s, Sane(s), NEW c \in [Ctx -> Context],
           \A x \in Ctx : /\ c[x].pid = s.ctx[x].pid /\ c[x].waitingFor = s.ctx[x].waitingFor
                          /\ c[x].state = s.ctx[x].state /\ c[x].maxCPU = s.ctx[x].maxCPU
    PROVE  LET t == [s EXCEPT !.ctx = c]
           IN  Sane(t) /\ Keeps(s, t) /\ t.currentProcess = s.currentProcess /\ t.ctx = c
<1> DEFINE t == [s EXCEPT !.ctx = c]
<1>1. s \in StateType
  BY DEF Sane
<1>2. t \in StateType
  BY <1>1 DEF StateType
<1>3. /\ t.processes = s.processes /\ t.readyQueue.bag = s.readyQueue.bag
      /\ t.blockedQueue = s.blockedQueue /\ t.currentProcess = s.currentProcess /\ t.ctx = c
  BY <1>1 DEF StateType
<1> HIDE DEF t
<1>4. Sane(t) /\ Keeps(s, t)
  BY <1>2, <1>3, SameQueues, BootInCtx
<1> QED
  BY <1>3, <1>4 DEF t

LEMMA ChargedSane ==
    ASSUME NEW s, Sane(s), s.currentProcess \in Ctx
    PROVE  Sane(Charged(s)) /\ Keeps(s, Charged(s)) /\ Charged(s).currentProcess = s.currentProcess
<1> DEFINE o == s.currentProcess
           used == IF s.ctx[o].cpuTime < CpuCap THEN s.ctx[o].cpuTime + 1 ELSE CpuCap
           c == [s.ctx EXCEPT ![o].cpuTime = used, ![o].remainingTime = @ - 1]
<1>0. s \in StateType /\ s.ctx \in [Ctx -> Context]
  BY DEF Sane, StateType
<1>1. used \in Nat
  BY <1>0, CpuCapType DEF Context
<1>2. Charged(s) = [s EXCEPT !.ctx = c]
  BY <1>0 DEF Charged, StateType
<1> HIDE DEF used
<1>3. /\ c \in [Ctx -> Context]
      /\ \A x \in Ctx : /\ c[x].pid = s.ctx[x].pid /\ c[x].waitingFor = s.ctx[x].waitingFor
                        /\ c[x].state = s.ctx[x].state /\ c[x].maxCPU = s.ctx[x].maxCPU
  BY <1>0, <1>1 DEF Context
<1> HIDE DEF c
<1> QED
  BY <1>2, <1>3, AccountSane

LEMMA EndOfSliceSane ==
    ASSUME NEW s, Sane(s), s.currentProcess \in Ctx, NEW t \in EndOfSlice(s)
    PROVE  Sane(t) /\ Keeps(s, t) /\ t.currentProcess \in Ctx
<1> DEFINE o == s.currentProcess
           c == [s.ctx EXCEPT ![o].remainingTime = s.ctx[o].timeSlice]
<1>0. s \in StateType /\ s.ctx \in [Ctx -> Context]
  BY DEF Sane, StateType
<1>1. CASE s.ctx[o].remainingTime <= 0
  <2>1. t \in Schedule([s EXCEPT !.ctx = c])
    BY <1>0, <1>1 DEF EndOfSlice, StateType
  <2>2. /\ c \in [Ctx -> Context]
        /\ \A x \in Ctx : /\ c[x].pid = s.ctx[x].pid /\ c[x].waitingFor = s.ctx[x].waitingFor
                          /\ c[x].state = s.ctx[x].state /\ c[x].maxCPU = s.ctx[x].maxCPU
    BY <1>0 DEF Context
  <2> HIDE DEF c
  <2>3. Sane([s EXCEPT !.ctx = c]) /\ Keeps(s, [s EXCEPT !.ctx = c])
    BY <2>2, AccountSane
  <2> QED
    BY <2>1, <2>3, ScheduleSane, KeepsTransitive
<1>2. CASE ~(s.ctx[o].remainingTime <= 0)
  BY <1>2 DEF EndOfSlice, Keeps
<1> QED
  BY <1>1, <1>2

LEMMA ChargeSane ==
    ASSUME NEW s, Sane(s), s.currentProcess \in Ctx, NEW t \in ChargeCurrent(s)
    PROVE  Sane(t) /\ Keeps(s, t) /\ t.currentProcess \in Ctx
<1> DEFINE v == Charged(s)
           p == v.ctx[v.currentProcess].pid
<1>1. Sane(v) /\ Keeps(s, v) /\ v.currentProcess = s.currentProcess
  BY ChargedSane
<1>2. s.currentProcess # NoCtx
  BY DEF NoCtx, Ctx
<1>3. PICK u \in IF OverLimit(v) THEN Send(v, p, SIGXCPU) ELSE {v} : t \in EndOfSlice(u)
  BY <1>2 DEF ChargeCurrent
<1> HIDE DEF v
<1>4. Sane(u) /\ Keeps(v, u) /\ u.currentProcess \in Ctx
  <2>1. CASE OverLimit(v)
    <3>1. v.ctx[v.currentProcess].maxCPU > 0
      BY <2>1 DEF OverLimit
    <3>2. v.currentProcess # 1
      BY <1>1, <3>1 DEF Sane, BootOK
    <3>3. v.ctx[v.currentProcess].state = "running" /\ p \in PIDs
      BY <1>1 DEF Sane, QueuesOK, StateType, Context
    <3>4. p # IDLE
      BY <1>1, <3>2, <3>3 DEF Sane, TableOK, BootOK
    <3>5. SIGXCPU \in AllSigs
      BY DEF AllSigs
    <3>6. u \in Send(v, p, SIGXCPU)
      BY <1>3, <2>1
    <3> HIDE DEF p
    <3> QED
      BY <1>1, <3>3, <3>4, <3>5, <3>6, SendSane
  <2>2. CASE ~OverLimit(v)
    BY <1>1, <1>3, <2>2 DEF Keeps
  <2> QED
    BY <2>1, <2>2
<1>5. Sane(t) /\ Keeps(u, t) /\ t.currentProcess \in Ctx
  BY <1>3, <1>4, EndOfSliceSane
<1> QED
  BY <1>1, <1>4, <1>5, KeepsTransitive

LEMMA TickSane ==
    ASSUME NEW s, Sane(s), s.currentProcess \in Ctx, NEW t \in TickOutcomes(s)
    PROVE  Sane(t) /\ Keeps(s, t) /\ t.currentProcess \in Ctx
<1>1. s.currentProcess # NoCtx
  BY DEF NoCtx, Ctx
<1>2. PICK u \in DeliverPending(s, GetPid(s)) : t \in ChargeCurrent(u)
  BY <1>1 DEF TickOutcomes
<1>3. GetPid(s) \in PIDs
  BY <1>1 DEF GetPid, Sane, StateType, Context
<1>4. Sane(u) /\ Keeps(s, u) /\ u.currentProcess \in Ctx
  BY <1>2, <1>3, DeliverSane
<1> QED
  BY <1>2, <1>4, ChargeSane, KeepsTransitive
=============================================================================
