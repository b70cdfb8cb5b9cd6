----------------------------- MODULE InitSystem -----------------------------
(***************************************************************************)
(* The init system (process/init.ts): services with dependencies, start    *)
(* and stop on request and by run level, and automatic respawn with an     *)
(* exponential backoff.  Every call is synchronous, so each is one step;   *)
(* what interleaves is the order of the calls, the exits of the service    *)
(* processes and the timer ticks.                                          *)
(*                                                                         *)
(* Time is counted in seconds and relative to the last tick: `respawn' is  *)
(* nextRespawn minus the current uptime, Never for the code's -1.          *)
(***************************************************************************)
EXTENDS Integers, Sequences, SequencesExt

CONSTANTS
    Names,          \* the registered services, in the order of registration
    Dependencies,   \* Dependencies[n]: a sequence of names, registered or not
    RunlevelOf, StartPriority, RestartPolicy,  \* the fields of Service
    Levels,         \* the run levels that are asked for
    MaxBackoff,     \* MAX_BACKOFF_MS, in seconds
    MaxElapsed,     \* bound on the time between two ticks
    MaxProcesses    \* bound on the processes of a service whose exit is not reported yet

Services == ToSet(Names)
Runlevels == 0..6
States == {"stopped", "starting", "running", "failed"}
Never == -1

\* What the constants must be.
BoundsOK ==
    /\ DOMAIN Dependencies = Services
    /\ RunlevelOf \in [Services -> Runlevels]
    /\ StartPriority \in [Services -> Nat]
    /\ RestartPolicy \in [Services -> {"no", "always", "on-failure"}]
    /\ Levels \subseteq Runlevels
    /\ {MaxBackoff, MaxElapsed, MaxProcesses} \subseteq Nat \ {0}

VARIABLES
    instances,  \* serviceInstances: state, backoff (s) and respawn of each
    runlevel,   \* currentRunlevel
    processes,  \* how many processes of each service were started and not reported by handleExit
    unwanted    \* history: the services whose last request was to stop

vars == <<instances, runlevel, processes, unwanted>>

\* The instances between two calls.
Instances == [Services -> [state : States \ {"starting"}, backoff : 1..MaxBackoff,
                           respawn : Never..MaxBackoff]]

\* registerService
Registered == [state |-> "stopped", backoff |-> 1, respawn |-> Never]

Init ==
    /\ instances = [n \in Services |-> Registered]
    /\ runlevel = 1
    /\ processes = [n \in Services |-> 0]
    /\ unwanted = {}

\* What startService leaves in an instance that it started.
Started == [state |-> "running", backoff |-> 1, respawn |-> Never]

\* startService and its loop over the dependencies.  A service that is being
\* started counts as started, so a cycle of dependencies does not recurse.
RECURSIVE StartService(_, _), StartDependencies(_, _)

\* Mutant: the failure of a dependency is returned without setting the state.
StartServiceStuck(is, n) ==
    IF n \notin Services THEN [is |-> is, ok |-> FALSE]
    ELSE IF is[n].state \in {"running", "starting"} THEN [is |-> is, ok |-> TRUE]
    ELSE LET d == StartDependencies([is EXCEPT ![n].state = "starting"], Dependencies[n])
         IN  IF d.ok THEN [d EXCEPT !.is[n] = Started] ELSE d

\* Mutant: the service runs although a dependency failed.
StartServiceAnyway(is, n) ==
    IF n \notin Services THEN [is |-> is, ok |-> FALSE]
    ELSE IF is[n].state \in {"running", "starting"} THEN [is |-> is, ok |-> TRUE]
    ELSE LET d == StartDependencies([is EXCEPT ![n].state = "starting"], Dependencies[n])
         IN  [is |-> [d.is EXCEPT ![n] = Started], ok |-> TRUE]

StartService(is, n) ==
    IF n \notin Services THEN [is |-> is, ok |-> FALSE]
    ELSE IF is[n].state \in {"running", "starting"} THEN [is |-> is, ok |-> TRUE]
    ELSE LET d == StartDependencies([is EXCEPT ![n].state = "starting"], Dependencies[n])
         IN  IF d.ok
             THEN [d EXCEPT !.is[n] = Started]
             ELSE [d EXCEPT !.is[n].state = "failed"]

StartDependencies(is, deps) ==
    IF deps = <<>> THEN [is |-> is, ok |-> TRUE]
    ELSE LET r == StartService(is, Head(deps))
         IN  IF r.ok THEN StartDependencies(r.is, Tail(deps)) ELSE r

\* stopService: the process is not told, and a pending respawn stays.
StopService(is, n) == [is EXCEPT ![n].state = "stopped"]

\* The instances after a call, which executed the services that went to running
\* from a state in `from'.
Become(from, outcome) ==
    \E is \in {outcome} :
        /\ instances' = is
        /\ processes' = [n \in Services |->
               IF from[n].state # "running" /\ is[n].state = "running" /\ processes[n] < MaxProcesses
               THEN processes[n] + 1 ELSE processes[n]]

\* startService.  It starts the dependencies too, so they are wanted again.
Start(n) ==
    /\ Become(instances, StartService(instances, n).is)
    /\ unwanted' = {m \in unwanted \ {n} : instances'[m].state # "running"}
    /\ UNCHANGED runlevel

Stop(n) ==
    /\ Become(instances, StopService(instances, n))
    /\ unwanted' = unwanted \cup {n}
    /\ UNCHANGED runlevel

\* restartService: stopService, then startService.
Restart(n) ==
    /\ \E is \in {StopService(instances, n)} : Become(is, StartService(is, n).is)
    /\ unwanted' = {m \in unwanted \ {n} : instances'[m].state # "running"}
    /\ UNCHANGED runlevel

\* The services changeRunlevel starts, by priority and then by registration.
ToStart(is, level) ==
    LET Earlier(a, b) == \/ StartPriority[Names[a]] < StartPriority[Names[b]]
                         \/ StartPriority[Names[a]] = StartPriority[Names[b]] /\ a < b
        at == SetToSortSeq({k \in 1..Len(Names) : /\ RunlevelOf[Names[k]] <= level
                                                  /\ is[Names[k]].state = "stopped"},
                           Earlier)
    IN  [j \in 1..Len(at) |-> Names[at[j]]]

StopAbove(is, level) ==
    [n \in Services |-> IF RunlevelOf[n] > level /\ is[n].state = "running"
                        THEN [is[n] EXCEPT !.state = "stopped"] ELSE is[n]]

\* shutdown: in the order of stopPriority, which no state records.
Shutdown(is) ==
    [n \in Services |-> IF is[n].state = "running"
                        THEN [is[n] EXCEPT !.state = "stopped"] ELSE is[n]]

\* The loop over the services to start.
RECURSIVE StartAll(_, _)
StartAll(is, names) ==
    IF names = <<>> THEN is ELSE StartAll(StartService(is, Head(names)).is, Tail(names))

ChangeRunlevel(level) ==
    /\ runlevel' = level
    /\ IF level \in {0, 6}
       THEN /\ Become(instances, Shutdown(instances))
            /\ unwanted' = Services
       ELSE /\ Become(instances, StopAbove(StartAll(instances, ToStart(instances, level)), level))
            /\ unwanted' = {n \in Services : RunlevelOf[n] > level}

DoubledBackoff(b) == IF 2 * b < MaxBackoff THEN 2 * b ELSE MaxBackoff

\* The exit of a process of n is reported; clean is exit code 0.  It need not be
\* the last one: restartService leaves the old process, stopService the only one.
HandleExit(n, clean) ==
    /\ processes[n] > 0
    /\ processes' = [processes EXCEPT ![n] = @ - 1]
    /\ instances' =
        IF RestartPolicy[n] = "always" \/ (RestartPolicy[n] = "on-failure" /\ ~clean)
        THEN [instances EXCEPT ![n] = [state   |-> "failed",
                                       backoff |-> DoubledBackoff(@.backoff),
                                       respawn |-> @.backoff]]
        ELSE [instances EXCEPT ![n].state = "stopped"]
    /\ UNCHANGED <<runlevel, unwanted>>

\* Mutant: the schedule is cleared before the deadline is looked at.
RespawnDueCleared(is, n) ==
    LET c == [is EXCEPT ![n].respawn = Never]
    IN  IF is[n].respawn # 0 THEN c ELSE StartService(c, n).is

\* Mutant: a respawn in the very millisecond of its deadline waits for a later one.
RespawnDueLate(is, n) ==
    IF is[n].respawn # 0 THEN is ELSE [is EXCEPT ![n].respawn = 1]

\* The body of tick's loop for a service, once the time has been advanced.
RespawnDue(is, n) ==
    IF is[n].respawn # 0 THEN is
    ELSE LET r == StartService([is EXCEPT ![n].respawn = Never], n)
         IN  IF r.ok THEN r.is
             ELSE [r.is EXCEPT ![n] = [state   |-> "failed",
                                       backoff |-> DoubledBackoff(@.backoff),
                                       respawn |-> @.backoff]]

Elapsed(is, time) ==
    [n \in Services |-> [is[n] EXCEPT !.respawn =
        IF @ = Never THEN Never ELSE IF @ > time THEN @ - time ELSE 0]]

\* The loop over the services from the k-th on.
RespawnFrom[is \in Instances, k \in 1..Len(Names) + 1] ==
    IF k > Len(Names) THEN is ELSE RespawnFrom[RespawnDue(is, Names[k]), k + 1]

\* tick.  A service without a pending respawn that runs afterwards was started as
\* a dependency.
Tick(time) ==
    /\ Become(instances, RespawnFrom[Elapsed(instances, time), 1])
    /\ unwanted' = {n \in unwanted : instances[n].respawn # Never \/ instances'[n].state # "running"}
    /\ UNCHANGED runlevel

Next ==
    \/ \E n \in Services : Start(n)
    \/ \E n \in Services : Stop(n)
    \/ \E n \in Services : Restart(n)
    \/ \E level \in Levels : ChangeRunlevel(level)
    \/ \E n \in Services, clean \in BOOLEAN : HandleExit(n, clean)
    \/ \E time \in 1..MaxElapsed : Tick(time)

Spec == Init /\ [][Next]_vars

\* The main loop calls tick in every frame, and uptime advances between them.
FairSpec == Spec /\ WF_vars(Tick(MaxElapsed))
-----------------------------------------------------------------------------
\* Between two calls every service is at rest: no path through startService
\* and its recursion leaves one in 'starting', where every later start of it
\* would report success without doing anything.
TypeOK ==
    /\ instances \in Instances
    /\ runlevel \in Runlevels
    /\ processes \in [Services -> 0..MaxProcesses]
    /\ unwanted \subseteq Services

Running(n) == n \in Services /\ instances[n].state = "running"

\* The names, registered or not, that the given ones depend on, directly or not.
RECURSIVE Closure(_)
Closure(names) ==
    LET more == names \cup UNION {ToSet(Dependencies[n]) : n \in names \cap Services}
    IN  IF more = names THEN names ELSE Closure(more)

Required == [n \in Services |-> Closure(ToSet(Dependencies[n]))]

\* Whatever starts a service (a request, a run level, a respawn), each of its
\* dependencies runs when the call returns, but for two cases: one that depends on
\* the service itself, for which 'starting' counts as started and which may fail
\* afterwards, and one of a higher run level, which changeRunlevel() starts for
\* the service and stops again.
StartedWithDependencies ==
    [][\A n \in Services : ~Running(n) /\ Running(n)' =>
          \A d \in ToSet(Dependencies[n]) :
             \/ Running(d)'
             \/ d \in Services /\ n \in Required[d]
             \/ d \in Services /\ RunlevelOf[n] <= runlevel' /\ runlevel' < RunlevelOf[d]]_vars

\* The respawn that handleExit() schedules is never forgotten: whatever is called
\* meanwhile and however often the attempt fails, it stays scheduled until the
\* service runs again or is asked to stop.
RespawnNotDropped ==
    [][\A n \in Services :
          /\ instances[n].respawn # Never
          /\ instances'[n].respawn = Never
          => Running(n)' \/ n \in unwanted']_vars

\* A service that exits and is to be respawned comes back, unless it is asked to
\* stop or something it depends on, directly or not, does not exist.
RespawnHappens ==
    \A n \in {m \in Services : Required[m] \subseteq Services} :
        instances[n].respawn # Never ~> Running(n) \/ n \in unwanted

\* stopService(): "Stop a service (synchronous)", changeRunlevel(): "Stop services
\* that belong to a higher runlevel", shutdown(): "System shutdown (synchronous)":
\* a service that is asked to stop does not run until it is asked to start.
StoppedStaysStopped == \A n \in unwanted : ~Running(n)
=============================================================================
