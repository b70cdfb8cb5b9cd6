SPECIFICATION Spec
CONSTANTS
    Names <- LoadedNames
    Dependencies <- LoadedDependencies
    RunlevelOf <- LoadedRunlevels
    StartPriority <- LoadedPriorities
    RestartPolicy <- LoadedPolicies
    Levels = {0, 3, 4}
    MaxBackoff = 2
    MaxElapsed = 1
    MaxProcesses = 2
INVARIANTS StoppedStaysStopped
