--------------------------- MODULE ProcessManager ---------------------------
(***************************************************************************)
(* The process manager (process/process.ts) on top of the scheduler: fork, *)
(* the cooperative exec, waitpid and kill by PID, and the exit hook that   *)
(* the scheduler calls when it terminates a process.                       *)
(*                                                                         *)
(* The manager keeps its own table and its own PID counter, which starts   *)
(* at 2 behind its PID 1.  The two tables meet only in PIDs: fork() hands  *)
(* a context to registerProcess(), kill() signals a PID, and the hook is   *)
(* given one.                                                              *)
(***************************************************************************)
EXTENDS Scheduler

CONSTANT ForkSlice  \* the time slice of a forked process, 10 frames in the code

ASSUME ForkSliceAssumption == ForkSlice \in Nat \ {0}

VARIABLES
    procs,      \* PID -> the state of the manager's process, "none" if absent
    forkPid,    \* _nextPid
    released    \* PIDs whose descriptors and page directory the hook released

managerVars == <<procs, forkPid, released>>
allVars == <<vars, managerVars>>

SELF == 1  \* _currentPid, which nothing changes

ManagerInit ==
    /\ Init
    /\ procs = [p \in PIDs |-> IF p = SELF THEN "running" ELSE "none"]
    /\ forkPid = 2
    /\ released = {}

\* The PIDs terminateProcess() is carried out for in this step.
Terminating ==
    {p \in PIDs : /\ processes[p] # NoCtx
                  /\ ctx[processes[p]].state # "terminated"
                  /\ ctx'[processes[p]].state = "terminated"}

\* Mutant: the hook does not ask whether the PID is one of the manager's.
ExitHookAnyPid ==
    /\ procs' = [p \in PIDs |-> IF p \in Terminating /\ procs[p] # "none" THEN "dead" ELSE procs[p]]
    /\ released' = released \cup Terminating

\* The hook the constructor registers.
ExitHook ==
    /\ procs' = [p \in PIDs |-> IF p \in Terminating /\ procs[p] # "none" THEN "dead" ELSE procs[p]]
    /\ released' = released \cup {p \in Terminating : procs[p] # "none"}

\* A tick or a call of the scheduler.
SchedulerStep == CoreNext /\ ExitHook /\ UNCHANGED forkPid

NewForked(o) ==
    /\ ctx[o].state = "unborn"
    /\ \A x \in Ctx : ctx[x].state = "unborn" => o <= x

\* Mutant: a new process is entered in the table but not enqueued.
RegisterUnqueued(o, p) ==
    /\ ctx' = [ctx EXCEPT ![o] = NewContext(p, "ready", 10, ForkSlice)]
    /\ processes' = [processes EXCEPT ![p] = IF @ = NoCtx THEN o ELSE @]
    /\ UNCHANGED readyQueue

\* registerProcess(ctx)
Register(o, p) ==
    /\ ctx' = [ctx EXCEPT ![o] = NewContext(p, "ready", 10, ForkSlice)]
    /\ processes' = [processes EXCEPT ![p] = IF @ = NoCtx THEN o ELSE @]
    /\ readyQueue' = IF Has(readyQueue, p) THEN readyQueue ELSE Push(readyQueue, o, ctx')

Fork ==
    /\ forkPid <= MaxPid
    /\ procs' = [procs EXCEPT ![forkPid] = "ready"]
    /\ forkPid' = forkPid + 1
    /\ \E o \in Ctx : NewForked(o) /\ Register(o, forkPid)
    /\ released' = released \ {forkPid}
    /\ UNCHANGED <<blockedQueue, currentProcess, nextPid, algorithm, pending, sigMasks, handlers>>

\* The function returns and the process is marked; the scheduler is not told.
ExecInProcess(p) ==
    /\ procs[p] # "none"
    /\ procs' = [procs EXCEPT ![p] = "dead"]
    /\ UNCHANGED <<vars, forkPid, released>>

Waitpid(p) ==
    /\ procs[p] # "none"
    /\ Kill(SELF, SIGCHLD)
    /\ UNCHANGED managerVars

\* kill(pid, sig): the signal is only queued, so the context is as dead or
\* alive as before when its state is looked at.
KillByPid(p, sig) ==
    /\ procs[p] # "none"
    /\ Kill(p, sig)
    /\ procs' = IF processes[p] # NoCtx /\ ctx'[processes[p]].state = "terminated"
                THEN [procs EXCEPT ![p] = "dead"] ELSE procs
    /\ UNCHANGED <<forkPid, released>>

\* setPriority(pid, value), the nice command; its range ends at 39.
Nice(p, value) ==
    /\ SetPriority(p, IF value > 39 THEN 39 ELSE value)
    /\ UNCHANGED managerVars

ManagerNext ==
    \/ SchedulerStep
    \/ Fork
    \/ \E p \in PIDs : ExecInProcess(p)
    \/ \E p \in PIDs : Waitpid(p)
    \/ \E p \in PIDs, sig \in Sigs : KillByPid(p, sig)
    \/ \E p \in PIDs, value \in PriorityChanges : Nice(p, value)

ManagerSpec == ManagerInit /\ [][ManagerNext]_allVars
-----------------------------------------------------------------------------
\* The manager's table and counter are well formed.
ManagerTypeOK ==
    /\ procs \in [PIDs -> {"none", "ready", "running", "dead"}]
    /\ forkPid \in 2..MaxPid + 1
    /\ released \subseteq {p \in PIDs : procs[p] # "none"}

HasNamesake(o) == \E x \in Ctx \ {o} : ctx[x].state # "unborn" /\ ctx[x].pid = ctx[o].pid

\* What two processes with one PID do to each other stays between them.  A
\* process, forked or created, that has its PID to itself is in exactly the queue
\* its state names, and the table finds it until it is reaped: removals by PID,
\* has(pid) and the real-time removal never hit an unrelated process.
OwnPidInOneQueue ==
    \A o \in Ctx : ctx[o].state # "unborn" /\ ~HasNamesake(o) =>
        /\ readyQueue.bag[o] = IF ctx[o].state = "ready" THEN 1 ELSE 0
        /\ blockedQueue[o] = IF ctx[o].state = "blocked" THEN 1 ELSE 0
        /\ ctx[o].state = "running" <=> currentProcess = o
        /\ ctx[o].state # "terminated" => processes[ctx[o].pid] = o

-----------------------------------------------------------------------------
(* What the comments of process.ts say, and the code does not do *)

\* process.ts: fork() "also registers the child in the ProcessScheduler's ready
\* queue", so that it "gets time-slice accounting": every ready process, a forked
\* child included, has an entry in the run queue.
ReadyIsQueued == \A o \in Ctx : ctx[o].state = "ready" => readyQueue.bag[o] > 0
=============================================================================
