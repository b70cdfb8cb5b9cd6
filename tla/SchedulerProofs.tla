-------------------------- MODULE SchedulerProofs --------------------------
(***************************************************************************)
(* The scheduler keeps its queues and its process table consistent, for    *)
(* any number of contexts, PIDs, priorities, signals and limits.           *)
(*                                                                         *)
(* QueuesMatchStates alone is not inductive.  terminateProcess finds its   *)
(* queue entry by PID, so no other live context may carry that PID         *)
(* (TableOK); an empty run queue is handed to idle, so idle must be alive  *)
(* and can then only be the running process (BootOK); createProcess takes  *)
(* nextPid unchecked, so it must be larger than every PID in use (NextOK). *)
(***************************************************************************)
EXTENDS SchedulerLemmas

NextOK ==
    /\ nextPid \in 3..MaxPid
    /\ algorithm \in Policies
    /\ \A o \in Ctx : ctx[o].state # "unborn" => ctx[o].pid < nextPid

IInv == Sane(Now) /\ currentProcess \in Ctx /\ NextOK

Final == \A o \in Ctx : ctx[o].state = "terminated" => ctx'[o].state = "terminated"

\* The fields of the state record are the variables.
LEMMA NowFields ==
    /\ Now.ctx = ctx /\ Now.processes = processes /\ Now.readyQueue = readyQueue
    /\ Now.blockedQueue = blockedQueue /\ Now.currentProcess = currentProcess
    /\ Now.pending = pending /\ Now.sigMasks = sigMasks /\ Now.handlers = handlers
BY DEF Now

\* A call whose outcome t is sane and keeps PIDs and deaths preserves the
\* invariant, and terminated contexts stay terminated.
LEMMA Calls ==
    ASSUME IInv, NEW t, Sane(t), Keeps(Now, t), t.currentProcess \in Ctx, Become(t),
           UNCHANGED <<nextPid, algorithm>>
    PROVE  IInv' /\ Final
<1>1. t \in StateType
  BY DEF Sane
<1>2. Now' = t
  BY <1>1 DEF Now, Become, StateType
<1>3. Sane(Now)'
  BY <1>2
<1>4. NextOK'
  <2>1. \A o \in Ctx : ctx'[o].pid = ctx[o].pid /\ (ctx'[o].state = "unborn" <=> ctx[o].state = "unborn")
    BY DEF Keeps, Become, Now
  <2> QED
    BY <2>1 DEF NextOK, IInv
<1>5. Final
  <2>1. \A o \in Ctx : /\ t.ctx[o].state \in ProcessState \cup {"unborn"}
                       /\ t.ctx[o].state # "waiting"
    BY <1>1 DEF Sane, QueuesOK, StateType, Context
  <2>2. \A o \in Ctx : ctx[o].state = "terminated" => t.ctx[o].state \notin Live /\ t.ctx[o].state # "unborn"
    BY NowFields DEF Keeps, Live
  <2> QED
    BY <2>1, <2>2 DEF Final, Become, Live, ProcessState
<1> QED
  BY <1>3, <1>4, <1>5 DEF IInv, Become

\* The same for a step given by its next state.
LEMMA Steps ==
    ASSUME IInv, Sane(Now'), Keeps(Now, Now'), currentProcess' \in Ctx,
           UNCHANGED <<nextPid, algorithm>>
    PROVE  IInv' /\ Final
<1>1. Become(Now')
  BY DEF Become, Now
<1> QED
  BY <1>1, Calls DEF Now

LEMMA InitInv == Init => IInv
<1> SUFFICES ASSUME Init PROVE IInv
  OBVIOUS
<1> DEFINE q0 == EmptyQueue(Ctx, PIDs)
           q1 == Push(q0, 1, BootContexts)
<1>1. /\ BootContexts \in [Ctx -> Context]
      /\ \A o \in Ctx : /\ BootContexts[o].waitingFor = NoPid /\ BootContexts[o].maxCPU = 0
                        /\ BootContexts[o].state = IF o \in {1, 2} THEN "ready"
                                                   ELSE IF o = 3 THEN "running" ELSE "unborn"
                        /\ BootContexts[o].pid = IF o \in 1..3 THEN o - 1 ELSE 0
  <2>1. ASSUME NEW p \in PIDs, NEW st \in ProcessState \cup {"unborn"}, NEW pr \in Int, NEW sl \in Nat
        PROVE  NewContext(p, st, pr, sl) \in Context
    BY DEF NewContext, Context, Policies
  <2>2. 0 \in PIDs /\ 1 \in PIDs /\ 2 \in PIDs /\ TimeSlice \in Nat
    BY BoundsAssumption DEF PIDs
  <2>3. \A o \in Ctx : BootContexts[o] \in Context
    <3>1. /\ NewContext(0, "ready", 39, 0) \in Context
          /\ NewContext(1, "ready", 0, TimeSlice) \in Context
          /\ NewContext(2, "running", 10, TimeSlice) \in Context
          /\ Unborn \in Context
      BY <2>1, <2>2 DEF Unborn, ProcessState
    <3> QED
      BY <3>1 DEF BootContexts
  <2>4. BootContexts \in [Ctx -> Context]
    BY <2>3 DEF BootContexts
  <2> QED
    BY <2>4 DEF BootContexts, Unborn, NewContext, NoPid, Ctx
<1>2. q0 \in QueueType /\ \A o \in Ctx : q0.bag[o] = 0
  BY DEF EmptyQueue, QueueType
<1>3. q1 \in QueueType /\ q1.bag = [q0.bag EXCEPT ![1] = @ + 1]
  BY <1>1, <1>2, PushQueue, BootInCtx
<1> HIDE DEF q0
<1>4. \A o \in Ctx : q1.bag[o] = IF o = 1 THEN 1 ELSE 0
  <2> HIDE DEF q1
  <2> QED
    BY <1>2, <1>3, BootInCtx DEF QueueType
<1> HIDE DEF q1
<1>5. readyQueue \in QueueType /\ readyQueue.bag = [q1.bag EXCEPT ![2] = @ + 1]
  <2>1. readyQueue = Push(q1, 2, BootContexts)
    BY DEF Init, q1, q0
  <2> QED
    BY <1>1, <1>3, <2>1, PushQueue, BootInCtx
<1>6. \A o \in Ctx : readyQueue.bag[o] = IF o \in {1, 2} THEN 1 ELSE 0
  BY <1>3, <1>4, <1>5, BootInCtx DEF QueueType
<1>7. Now \in StateType
  <2>1. processes \in [PIDs -> Ctx \cup {NoCtx}]
    BY BootInCtx, BoundsAssumption DEF Init, PIDs, NoCtx, Ctx
  <2>2. pending \in Seq(SigType)
    BY EmptySeq DEF Init
  <2>3. NoHandlers \in [AllSigs -> Handlers]
    BY DEF NoHandlers, Handlers
  <2>4. /\ ctx \in [Ctx -> Context] /\ blockedQueue \in [Ctx -> Nat] /\ currentProcess \in Ctx
        /\ sigMasks \in [PIDs -> SUBSET AllSigs] /\ handlers \in [PIDs -> [AllSigs -> Handlers]]
    BY <1>1, <2>3, BootInCtx DEF Init
  <2> QED
    BY <1>5, <2>1, <2>2, <2>4 DEF Now, StateType, SigType
<1>8. QueuesOK(Now)
  BY <1>1, <1>6, NowFields DEF Init, QueuesOK
<1>9. TableOK(Now)
  <2>1. \A p \in PIDs : processes[p] = IF p <= 2 THEN p + 1 ELSE NoCtx
    BY DEF Init
  <2>2. ASSUME NEW p \in PIDs, processes[p] # NoCtx
        PROVE  ctx[processes[p]].pid = p /\ ctx[processes[p]].state # "unborn"
    BY <1>1, <2>1, <2>2, BootInCtx DEF Init, PIDs
  <2>3. ASSUME NEW o \in Ctx, ctx[o].state \in {"ready", "running", "blocked"}
        PROVE  processes[ctx[o].pid] = o
    <3>1. o \in 1..3 /\ ctx[o].pid = o - 1
      BY <1>1, <2>3 DEF Init, Ctx
    <3>2. o - 1 \in PIDs
      BY <3>1, BoundsAssumption DEF PIDs
    <3> QED
      BY <2>1, <3>1, <3>2
  <2> QED
    BY <2>2, <2>3, NowFields DEF TableOK
<1>10. BootOK(Now)
  BY <1>1, BootInCtx, NowFields, BoundsAssumption DEF Init, BootOK, IDLE, PIDs
<1>11. NextOK
  BY <1>1, BoundsAssumption DEF Init, NextOK, Policies, Ctx
<1> QED
  BY <1>7, <1>8, <1>9, <1>10, <1>11, BootInCtx DEF IInv, Sane, Init

-----------------------------------------------------------------------------
(* One lemma per action *)

LEMMA TickInv == IInv /\ Tick => IInv' /\ Final
<1> SUFFICES ASSUME IInv, Tick PROVE IInv' /\ Final
  OBVIOUS
<1>1. PICK t \in TickOutcomes(Now) : Become(t) /\ UNCHANGED <<nextPid, algorithm>>
  BY DEF Tick, Do
<1>2. Sane(t) /\ Keeps(Now, t) /\ t.currentProcess \in Ctx
  BY <1>1, TickSane, NowFields DEF IInv
<1> QED
  BY <1>1, <1>2, Calls

LEMMA ExitInv == IInv /\ Exit => IInv' /\ Final
<1> SUFFICES ASSUME IInv, Exit PROVE IInv' /\ Final
  OBVIOUS
<1>1. PICK t \in TerminateProcess(Now, GetPid(Now)) : Become(t) /\ UNCHANGED <<nextPid, algorithm>>
  BY DEF Exit, Do
<1>2. GetPid(Now) \in PIDs \ {IDLE}
  BY UserPidsAssumption DEF Exit
<1>3. Sane(t) /\ Keeps(Now, t) /\ t.currentProcess \in Ctx
  BY <1>1, <1>2, TerminateSane, NowFields DEF IInv
<1> QED
  BY <1>1, <1>3, Calls

LEMMA KillInv ==
    ASSUME IInv, NEW p \in UserPids, NEW sig \in Sigs, Kill(p, sig)
    PROVE  IInv' /\ Final
<1>1. PICK t \in Send(Now, p, sig) : Become(t) /\ UNCHANGED <<nextPid, algorithm>>
  BY DEF Kill, Do
<1>2. p \in PIDs \ {IDLE} /\ sig \in AllSigs
  BY UserPidsAssumption DEF AllSigs
<1>3. Sane(t) /\ Keeps(Now, t) /\ t.currentProcess \in Ctx
  BY <1>1, <1>2, SendSane, NowFields DEF IInv
<1> QED
  BY <1>1, <1>3, Calls

LEMMA UnblockInv ==
    ASSUME IInv, NEW p \in UserPids, Unblock(p)
    PROVE  IInv' /\ Final
<1>1. PICK t \in UnblockProcess(Now, p) : Become(t) /\ UNCHANGED <<nextPid, algorithm>>
  BY DEF Unblock, Do
<1>2. Sane(t) /\ Keeps(Now, t) /\ t.currentProcess \in Ctx
  BY <1>1, UnblockSane, UserPidsAssumption, NowFields DEF IInv
<1> QED
  BY <1>1, <1>2, Calls

LEMMA BlockInv ==
    ASSUME IInv, NEW p \in UserPids, Block(p)
    PROVE  IInv' /\ Final
<1>1. PICK t \in BlockProcess(Now, p) : Become(t) /\ UNCHANGED <<nextPid, algorithm>>
  BY DEF Block, Do
<1>2. Sane(t) /\ Keeps(Now, t) /\ t.currentProcess \in Ctx
  BY <1>1, BlockSane, UserPidsAssumption, NowFields DEF IInv
<1> QED
  BY <1>1, <1>2, Calls

\* setSigMask assigns the mask before it delivers.
LEMMA SetSigMaskInv ==
    ASSUME IInv, NEW p \in UserPids, NEW mask \in MaskChoices, SetSigMask(p, mask)
    PROVE  IInv' /\ Final
<1> DEFINE s == [Now EXCEPT !.sigMasks[p] = mask \ Unmaskable]
<1>0. Now \in StateType /\ p \in PIDs
  BY UserPidsAssumption DEF IInv, Sane
<1>1. PICK t \in DeliverPending(s, p) : Become(t) /\ UNCHANGED <<nextPid, algorithm>>
  BY DEF SetSigMask, Do
<1>2. mask \ Unmaskable \in SUBSET AllSigs
  BY BoundsAssumption DEF AllSigs
<1>3. [Now.sigMasks EXCEPT ![p] = mask \ Unmaskable] \in [PIDs -> SUBSET AllSigs]
  BY <1>0, <1>2 DEF StateType
<1>4. s = [Now EXCEPT !.sigMasks = [Now.sigMasks EXCEPT ![p] = mask \ Unmaskable]]
  BY <1>0 DEF StateType
<1>5. /\ s \in StateType /\ s.ctx = Now.ctx /\ s.processes = Now.processes
      /\ s.readyQueue = Now.readyQueue /\ s.blockedQueue = Now.blockedQueue
      /\ s.currentProcess = Now.currentProcess
  <2> HIDE DEF s
  <2> QED
    BY <1>0, <1>3, <1>4 DEF StateType
<1> HIDE DEF s
<1>6. Sane(s) /\ Keeps(Now, s)
  BY <1>5, SameQueues DEF IInv
<1>7. s.currentProcess \in Ctx
  BY <1>5, NowFields DEF IInv
<1>8. Sane(t) /\ Keeps(s, t) /\ t.currentProcess \in Ctx
  BY <1>0, <1>1, <1>6, <1>7, DeliverSane
<1>9. Keeps(Now, t)
  BY <1>6, <1>8, KeepsTransitive
<1> QED
  BY <1>1, <1>8, <1>9, Calls

\* A step that assigns accounting fields, handlers or keys of contexts only.
LEMMA QuietStep ==
    ASSUME IInv, ctx' \in [Ctx -> Context], readyQueue' \in QueueType, readyQueue'.bag = readyQueue.bag,
           handlers' \in [PIDs -> [AllSigs -> Handlers]], ctx'[1].maxCPU = ctx[1].maxCPU,
           \A x \in Ctx : /\ ctx'[x].pid = ctx[x].pid /\ ctx'[x].waitingFor = ctx[x].waitingFor
                          /\ ctx'[x].state = ctx[x].state,
           UNCHANGED <<processes, blockedQueue, currentProcess, nextPid, algorithm, pending, sigMasks>>
    PROVE  IInv' /\ Final
<1>1. Now \in StateType
  BY DEF IInv, Sane
<1>2. Now' \in StateType
  BY <1>1 DEF Now, StateType
<1>3. Sane(Now') /\ Keeps(Now, Now')
  <2> DEFINE t == Now'
  <2>1. /\ t \in StateType /\ t.processes = Now.processes /\ t.readyQueue.bag = Now.readyQueue.bag
        /\ t.blockedQueue = Now.blockedQueue /\ t.currentProcess = Now.currentProcess
        /\ t.ctx[1].maxCPU = Now.ctx[1].maxCPU
        /\ \A x \in Ctx : /\ t.ctx[x].pid = Now.ctx[x].pid
                          /\ t.ctx[x].waitingFor = Now.ctx[x].waitingFor
                          /\ t.ctx[x].state = Now.ctx[x].state
    BY <1>2 DEF Now
  <2> HIDE DEF t
  <2>2. Sane(t) /\ Keeps(Now, t)
    BY <2>1, SameQueues DEF IInv
  <2> QED
    BY <2>2 DEF t
<1> QED
  BY <1>3, Steps DEF IInv

LEMMA Typed ==
    ASSUME IInv
    PROVE  /\ ctx \in [Ctx -> Context] /\ processes \in [PIDs -> Ctx \cup {NoCtx}]
           /\ readyQueue \in QueueType /\ blockedQueue \in [Ctx -> Nat]
           /\ pending \in Seq(SigType) /\ sigMasks \in [PIDs -> SUBSET AllSigs]
           /\ handlers \in [PIDs -> [AllSigs -> Handlers]]
BY DEF IInv, Sane, Now, StateType, SigType

LEMMA HandleInv ==
    ASSUME IInv, NEW p \in UserPids, NEW sig \in Sigs, NEW h \in HandlerChoices, Handle(p, sig, h)
    PROVE  IInv' /\ Final
<1>1. p \in PIDs /\ sig \in AllSigs /\ h \in Handlers
  BY UserPidsAssumption, BoundsAssumption DEF AllSigs
<1>2. handlers' \in [PIDs -> [AllSigs -> Handlers]]
  BY <1>1, Typed DEF Handle
<1> QED
  BY <1>2, Typed, QuietStep DEF Handle

LEMMA SetPriorityInv ==
    ASSUME IInv, NEW p \in UserPids, NEW pr \in PriorityChanges, SetPriority(p, pr)
    PROVE  IInv' /\ Final
<1> DEFINE o == processes[p]
           v == IF pr < 0 THEN 0 ELSE IF pr > 255 THEN 255 ELSE pr
<1>1. o \in Ctx /\ v \in Int
  BY UserPidsAssumption, BoundsAssumption, Typed DEF SetPriority
<1>2. ctx' = [ctx EXCEPT ![o].priority = v]
  BY DEF SetPriority
<1>3. readyQueue' \in QueueType /\ readyQueue'.bag = readyQueue.bag
  <2>1. readyQueue' = readyQueue \/ readyQueue' = Rekeyed(readyQueue, o)
    BY DEF SetPriority
  <2>2. Rekeyed(readyQueue, o) \in QueueType /\ Rekeyed(readyQueue, o).bag = readyQueue.bag
    BY Typed DEF Rekeyed, QueueType
  <2> QED
    BY <2>1, <2>2, Typed
<1> HIDE DEF o, v
<1>4. /\ ctx' \in [Ctx -> Context]
      /\ \A x \in Ctx : /\ ctx'[x].pid = ctx[x].pid /\ ctx'[x].waitingFor = ctx[x].waitingFor
                        /\ ctx'[x].state = ctx[x].state /\ ctx'[x].maxCPU = ctx[x].maxCPU
  <2>1. ctx \in [Ctx -> Context]
    BY Typed
  <2> QED
    BY <1>1, <1>2, <2>1 DEF Context
<1>5. UNCHANGED <<processes, blockedQueue, currentProcess, nextPid, algorithm, pending, sigMasks, handlers>>
  BY DEF SetPriority
<1> QED
  BY <1>3, <1>4, <1>5, Typed, BootInCtx, QuietStep

LEMMA SetSchedulerInv ==
    ASSUME IInv, NEW p \in UserPids, NEW a \in PolicyChoices, SetScheduler(p, a)
    PROVE  IInv' /\ Final
<1> DEFINE o == processes[p]
<1>1. o \in Ctx /\ a \in Policies \cup {"inherit"}
  BY UserPidsAssumption, BoundsAssumption, Typed DEF SetScheduler
<1>2. ctx' = [ctx EXCEPT ![o].schedPolicy = a]
  BY DEF SetScheduler
<1> HIDE DEF o
<1>3. /\ ctx' \in [Ctx -> Context]
      /\ \A x \in Ctx : /\ ctx'[x].pid = ctx[x].pid /\ ctx'[x].waitingFor = ctx[x].waitingFor
                        /\ ctx'[x].state = ctx[x].state /\ ctx'[x].maxCPU = ctx[x].maxCPU
  <2>1. ctx \in [Ctx -> Context]
    BY Typed
  <2> QED
    BY <1>1, <1>2, <2>1 DEF Context
<1> QED
  BY <1>3, Typed, BootInCtx, QuietStep DEF SetScheduler

\* A limit of a process other than the boot ones concerns that process alone.
LEMMA SetProcessLimitsInv ==
    ASSUME IInv, NEW p \in PIDs, NEW l \in CpuLimits, p > 2, SetProcessLimits(p, l)
    PROVE  IInv' /\ Final
<1> DEFINE o == processes[p]
<1>1. o \in Ctx /\ l \in Nat /\ ctx[o].pid = p
  BY BoundsAssumption, Typed, NowFields DEF SetProcessLimits, IInv, Sane, TableOK
<1>2. o \notin 1..3
  BY <1>1, NowFields DEF IInv, Sane, BootOK, PIDs
<1>3. ctx' = [x \in Ctx |-> IF x \in SharesLimits(o) THEN [ctx[x] EXCEPT !.maxCPU = l] ELSE ctx[x]]
  BY DEF SetProcessLimits
<1> HIDE DEF o
<1>4. SharesLimits(o) = {o} /\ o # 1
  BY <1>2 DEF SharesLimits
<1>5. /\ ctx' \in [Ctx -> Context]
      /\ \A x \in Ctx : /\ ctx'[x].pid = ctx[x].pid /\ ctx'[x].waitingFor = ctx[x].waitingFor
                        /\ ctx'[x].state = ctx[x].state
  <2>1. ctx \in [Ctx -> Context]
    BY Typed
  <2> QED
    BY <1>1, <1>3, <2>1 DEF Context
<1>6. ctx'[1].maxCPU = ctx[1].maxCPU
  BY <1>3, <1>4, BootInCtx
<1> QED
  BY <1>5, <1>6, Typed, QuietStep DEF SetProcessLimits

LEMMA SetAlgorithmInv ==
    ASSUME IInv, NEW a \in Algorithms, SetAlgorithm(a)
    PROVE  IInv' /\ Final
<1>1. Now' = Now
  BY DEF SetAlgorithm, Now
<1>2. Sane(Now)'
  BY <1>1 DEF IInv
<1>3. NextOK'
  BY BoundsAssumption DEF SetAlgorithm, IInv, NextOK
<1> QED
  BY <1>2, <1>3 DEF IInv, Final, SetAlgorithm

\* waitForProcess() on a dead process: its table entry goes.
LEMMA ReapInv ==
    ASSUME IInv, NEW p \in PIDs, ~Alive(Now, p), WaitForProcess(p)
    PROVE  IInv' /\ Final
<1> DEFINE o == processes[p]
<1>1. o \in Ctx /\ ctx[o].state = "terminated"
  BY Typed, NowFields DEF WaitForProcess, Alive
<1>2. /\ processes' = [processes EXCEPT ![p] = NoCtx]
      /\ UNCHANGED <<ctx, blockedQueue, readyQueue, currentProcess, nextPid, algorithm, pending,
                     sigMasks, handlers>>
  BY <1>1 DEF WaitForProcess
<1>3. p # IDLE
  BY <1>1, NowFields DEF IInv, Sane, BootOK
<1>4. Now' \in StateType
  <2>1. processes' \in [PIDs -> Ctx \cup {NoCtx}]
    BY <1>2, Typed
  <2>2. currentProcess' \in Ctx
    BY <1>2 DEF IInv
  <2> QED
    BY <1>2, <2>1, <2>2, Typed DEF Now, StateType, SigType
<1>5. \A q \in PIDs : processes'[q] = IF q = p THEN NoCtx ELSE processes[q]
  BY <1>2, Typed
<1>6. QueuesOK(Now')
  BY <1>2 DEF Now, IInv, Sane, QueuesOK
<1>7. TableOK(Now')
  <2>1. ASSUME NEW q \in PIDs, processes'[q] # NoCtx
        PROVE  ctx'[processes'[q]].pid = q /\ ctx'[processes'[q]].state # "unborn"
    BY <1>2, <1>5, <2>1, NowFields DEF IInv, Sane, TableOK
  <2>2. ASSUME NEW x \in Ctx, ctx'[x].state \in {"ready", "running", "blocked"}
        PROVE  processes'[ctx'[x].pid] = x
    <3>1. processes[ctx[x].pid] = x /\ ctx[x].pid \in PIDs
      BY <1>2, <2>2, NowFields, Typed DEF IInv, Sane, TableOK, Context
    <3>2. ctx[x].pid # p
      BY <1>1, <1>2, <2>2, <3>1
    <3> QED
      BY <1>2, <1>5, <3>1, <3>2
  <2> QED
    BY <2>1, <2>2 DEF TableOK, Now
<1>8. BootOK(Now')
  <2>1. IDLE \in PIDs
    BY BoundsAssumption DEF IDLE, PIDs
  <2>2. processes'[IDLE] = 1
    BY <1>3, <1>5, <2>1, NowFields DEF IInv, Sane, BootOK
  <2> QED
    BY <1>2, <2>2, NowFields DEF IInv, Sane, BootOK, Now
<1>9. Sane(Now)'
  BY <1>4, <1>6, <1>7, <1>8 DEF Sane
<1>10. NextOK'
  BY <1>2 DEF IInv, NextOK
<1> QED
  BY <1>2, <1>9, <1>10 DEF IInv, Final

\* createProcess(): nextPid is larger than every PID in use.
LEMMA CreateProcessInv ==
    ASSUME IInv, NEW v \in Priorities, NEW sl \in Slices, nextPid < MaxPid, CreateProcess(v, sl)
    PROVE  IInv' /\ Final
<1>0. PICK o \in Ctx :
        /\ ctx[o].state = "unborn"
        /\ ctx' = [ctx EXCEPT ![o] = NewContext(nextPid, "ready", v, sl)]
        /\ processes' = [processes EXCEPT ![nextPid] = o]
        /\ readyQueue' = Push(readyQueue, o, ctx')
        /\ nextPid' = IF nextPid >= MaxPid THEN 2 ELSE nextPid + 1
        /\ UNCHANGED <<blockedQueue, currentProcess, algorithm, pending, sigMasks, handlers>>
  BY DEF CreateProcess
<1>1. nextPid \in PIDs /\ nextPid \in 3..MaxPid /\ nextPid' = nextPid + 1 /\ nextPid' \in 3..MaxPid
  BY <1>0, BoundsAssumption DEF IInv, NextOK, PIDs
<1> DEFINE n == NewContext(nextPid, "ready", v, sl)
<1>2. /\ n \in Context /\ n.pid = nextPid /\ n.state = "ready" /\ n.waitingFor = NoPid
  BY <1>1, BoundsAssumption DEF NewContext, Context, ProcessState, Policies
<1> HIDE DEF n
<1>3. /\ ctx' \in [Ctx -> Context]
      /\ \A x \in Ctx : ctx'[x] = IF x = o THEN n ELSE ctx[x]
  BY <1>0, <1>2, Typed DEF n
<1>4. /\ processes' \in [PIDs -> Ctx \cup {NoCtx}]
      /\ \A p \in PIDs : processes'[p] = IF p = nextPid THEN o ELSE processes[p]
  BY <1>0, <1>1, Typed
<1>5. readyQueue' \in QueueType /\ readyQueue'.bag = [readyQueue.bag EXCEPT ![o] = @ + 1]
  BY <1>0, <1>3, PushQueue, Typed
<1>6. \A x \in Ctx : readyQueue'.bag[x] = IF x = o THEN readyQueue.bag[x] + 1 ELSE readyQueue.bag[x]
  BY <1>5, Typed DEF QueueType
<1>7. /\ blockedQueue' = blockedQueue /\ currentProcess' = currentProcess /\ algorithm' = algorithm
      /\ pending' = pending /\ sigMasks' = sigMasks /\ handlers' = handlers
  BY <1>0
<1>8. Now' \in StateType
  <2>1. currentProcess' \in Ctx
    BY <1>7 DEF IInv
  <2> QED
    BY <1>3, <1>4, <1>5, <1>7, <2>1, Typed DEF Now, StateType, SigType
<1>9. \A x \in Ctx : /\ readyQueue.bag[x] = IF ctx[x].state = "ready" THEN 1 ELSE 0
                     /\ blockedQueue[x] = IF ctx[x].state = "blocked" THEN 1 ELSE 0
                     /\ ctx[x].state = "running" <=> currentProcess = x
                     /\ ctx[x].state # "waiting" /\ ctx[x].waitingFor = NoPid
  BY NowFields DEF IInv, Sane, QueuesOK
<1>10. QueuesOK(Now')
  <2>1. ASSUME NEW x \in Ctx
        PROVE  /\ readyQueue'.bag[x] = IF ctx'[x].state = "ready" THEN 1 ELSE 0
               /\ blockedQueue'[x] = IF ctx'[x].state = "blocked" THEN 1 ELSE 0
               /\ ctx'[x].state = "running" <=> currentProcess' = x
               /\ ctx'[x].state # "waiting" /\ ctx'[x].waitingFor = NoPid
    <3>1. CASE x = o
      <4>1. ctx'[x] = n /\ readyQueue'.bag[x] = readyQueue.bag[x] + 1
        BY <1>3, <1>6, <3>1
      <4>2. readyQueue.bag[x] = 0 /\ blockedQueue[x] = 0 /\ currentProcess # x
        BY <1>0, <1>9, <3>1
      <4> QED
        BY <1>2, <1>7, <4>1, <4>2
    <3>2. CASE x # o
      <4>1. ctx'[x] = ctx[x] /\ readyQueue'.bag[x] = readyQueue.bag[x]
        BY <1>3, <1>6, <3>2
      <4> QED
        BY <1>7, <1>9, <4>1
    <3> QED
      BY <3>1, <3>2
  <2> QED
    BY <2>1 DEF QueuesOK, Now
<1>11. /\ \A p \in PIDs : processes[p] # NoCtx =>
             ctx[processes[p]].pid = p /\ ctx[processes[p]].state # "unborn"
       /\ \A x \in Ctx : ctx[x].state \in {"ready", "running", "blocked"} => processes[ctx[x].pid] = x
       /\ \A x \in Ctx : ctx[x].state # "unborn" => ctx[x].pid < nextPid
  BY NowFields DEF IInv, Sane, TableOK, NextOK
<1>12. TableOK(Now')
  <2>1. ASSUME NEW p \in PIDs, processes'[p] # NoCtx
        PROVE  ctx'[processes'[p]].pid = p /\ ctx'[processes'[p]].state # "unborn"
    <3>1. CASE p = nextPid
      BY <1>2, <1>3, <1>4, <3>1
    <3>2. CASE p # nextPid
      <4>1. processes'[p] = processes[p] /\ processes[p] \in Ctx
        BY <1>4, <2>1, <3>2, Typed
      <4>2. ctx[processes[p]].pid = p /\ ctx[processes[p]].state # "unborn"
        BY <1>11, <2>1, <4>1
      <4> QED
        BY <1>0, <1>3, <4>1, <4>2
    <3> QED
      BY <3>1, <3>2
  <2>2. ASSUME NEW x \in Ctx, ctx'[x].state \in {"ready", "running", "blocked"}
        PROVE  processes'[ctx'[x].pid] = x
    <3>1. CASE x = o
      BY <1>1, <1>2, <1>3, <1>4, <3>1
    <3>2. CASE x # o
      <4>1. ctx'[x] = ctx[x] /\ ctx[x].pid \in PIDs
        BY <1>3, <3>2, Typed DEF Context
      <4>2. processes[ctx[x].pid] = x /\ ctx[x].pid < nextPid
        BY <1>11, <2>2, <4>1
      <4> QED
        BY <1>1, <1>4, <4>1, <4>2 DEF PIDs
    <3> QED
      BY <3>1, <3>2
  <2> QED
    BY <2>1, <2>2 DEF TableOK, Now
<1>13. BootOK(Now')
  <2>1. /\ processes[IDLE] = 1 /\ ctx[1].state \in {"ready", "running"} /\ ctx[1].maxCPU = 0
        /\ \A x \in 1..3 : ctx[x].pid = x - 1 /\ ctx[x].state # "unborn"
    BY NowFields DEF IInv, Sane, BootOK
  <2>3. o \notin 1..3
    BY <1>0, <2>1
  <2>4. \A x \in 1..3 : ctx'[x] = ctx[x]
    BY <1>3, <2>3, BootInCtx
  <2>5. processes'[IDLE] = 1
    BY <1>1, <1>4, <2>1, BoundsAssumption DEF IDLE, PIDs
  <2> QED
    BY <2>1, <2>4, <2>5 DEF BootOK, Now
<1>14. Sane(Now)'
  BY <1>8, <1>10, <1>12, <1>13 DEF Sane
<1>15. NextOK'
  <2>1. \A x \in Ctx : ctx'[x].state # "unborn" => ctx'[x].pid < nextPid'
    <3>1. \A x \in Ctx : ctx[x].pid \in Nat
      BY Typed DEF Context, PIDs
    <3>2. ASSUME NEW x \in Ctx, ctx'[x].state # "unborn" PROVE ctx'[x].pid < nextPid'
      <4>1. CASE x = o
        BY <1>1, <1>2, <1>3, <4>1
      <4>2. CASE x # o
        BY <1>1, <1>3, <1>11, <3>1, <3>2, <4>2
      <4> QED
        BY <4>1, <4>2
    <3> QED
      BY <3>2
  <2> QED
    BY <1>1, <1>7, <2>1 DEF NextOK, IInv
<1>16. Final
  BY <1>0, <1>3 DEF Final
<1> QED
  BY <1>7, <1>14, <1>15, <1>16 DEF IInv

-----------------------------------------------------------------------------
(* The theorems *)

LEMMA StepInv == IInv /\ [CoreNext]_vars => IInv' /\ Final
<1> SUFFICES ASSUME IInv, [CoreNext]_vars PROVE IInv' /\ Final
  OBVIOUS
<1>1. CASE Tick
  BY <1>1, TickInv
<1>2. CASE \E v \in Priorities, sl \in Slices : nextPid < MaxPid /\ CreateProcess(v, sl)
  BY <1>2, CreateProcessInv
<1>3. CASE Exit
  BY <1>3, ExitInv
<1>4. CASE \E p \in UserPids, sig \in Sigs : Kill(p, sig)
  BY <1>4, KillInv
<1>5. CASE \E p \in UserPids, sig \in Sigs, h \in HandlerChoices : Handle(p, sig, h)
  BY <1>5, HandleInv
<1>6. CASE \E p \in UserPids, mask \in MaskChoices : SetSigMask(p, mask)
  BY <1>6, SetSigMaskInv
<1>7. CASE \E p \in UserPids : Block(p)
  BY <1>7, BlockInv
<1>8. CASE \E p \in UserPids : Unblock(p)
  BY <1>8, UnblockInv
<1>9. CASE \E p \in UserPids, v \in PriorityChanges : SetPriority(p, v)
  BY <1>9, SetPriorityInv
<1>10. CASE \E p \in UserPids, a \in PolicyChoices : SetScheduler(p, a)
  BY <1>10, SetSchedulerInv
<1>11. CASE \E p \in PIDs, l \in CpuLimits : p > 2 /\ SetProcessLimits(p, l)
  BY <1>11, SetProcessLimitsInv
<1>12. CASE \E a \in Algorithms : SetAlgorithm(a)
  BY <1>12, SetAlgorithmInv
<1>13. CASE \E p \in PIDs : ~Alive(Now, p) /\ WaitForProcess(p)
  BY <1>13, ReapInv
<1>14. CASE UNCHANGED vars
  <2>1. Now' = Now
    BY <1>14 DEF vars, Now
  <2>2. Sane(Now)'
    BY <2>1 DEF IInv
  <2>3. NextOK' /\ currentProcess' \in Ctx /\ Final
    BY <1>14 DEF vars, IInv, NextOK, Final
  <2> QED
    BY <2>2, <2>3 DEF IInv
<1> QED
  BY <1>1, <1>2, <1>3, <1>4, <1>5, <1>6, <1>7, <1>8, <1>9, <1>10, <1>11, <1>12, <1>13, <1>14
     DEF CoreNext

LEMMA InvImplies == IInv => TypeOK /\ QueuesMatchStates
<1> SUFFICES ASSUME IInv PROVE TypeOK /\ QueuesMatchStates
  OBVIOUS
<1>1. TypeOK
  <2>1. pending \in Seq([pid : PIDs, sig : AllSigs])
    <3>1. SigType \subseteq [pid : PIDs, sig : AllSigs]
      BY DEF SigType
    <3> QED
      BY <3>1, Typed, SeqMonotonic
  <2>2. nextPid \in PIDs /\ algorithm \in Policies /\ currentProcess \in Ctx
    BY BoundsAssumption DEF IInv, NextOK, PIDs
  <2> QED
    BY <2>1, <2>2, Typed DEF TypeOK, QueueType
<1>2. QueuesMatchStates
  BY NowFields DEF IInv, Sane, QueuesOK, QueuesMatchStates
<1> QED
  BY <1>1, <1>2

\* Every variable keeps its declared type under the calls the system makes.
THEOREM TypeCorrect == CoreSpec => []TypeOK
<1>1. Init => IInv
  BY InitInv
<1>2. IInv /\ [CoreNext]_vars => IInv'
  BY StepInv
<1>3. IInv => TypeOK
  BY InvImplies
<1> QED
  BY <1>1, <1>2, <1>3, PTL DEF CoreSpec

\* Every context is in exactly the queue its state names, once, and the current
\* process is the one that is running, after any sequence of ticks and calls.
THEOREM QueuesCorrect == CoreSpec => []QueuesMatchStates
<1>1. Init => IInv
  BY InitInv
<1>2. IInv /\ [CoreNext]_vars => IInv'
  BY StepInv
<1>3. IInv => QueuesMatchStates
  BY InvImplies
<1> QED
  BY <1>1, <1>2, <1>3, PTL DEF CoreSpec

\* No tick, call or wake-up brings a terminated context back.
THEOREM TerminationIsFinal == CoreSpec => TerminatedIsFinal
<1>1. Init => IInv
  BY InitInv
<1>2. IInv /\ [CoreNext]_vars => IInv'
  BY StepInv
<1>3. IInv /\ [CoreNext]_vars => [\A o \in Ctx : ctx[o].state = "terminated" => ctx'[o].state = "terminated"]_vars
  BY StepInv DEF Final
<1> QED
  BY <1>1, <1>2, <1>3, PTL DEF CoreSpec, TerminatedIsFinal
=============================================================================
