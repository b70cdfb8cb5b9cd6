SPECIFICATION FairCoreSpec
CONSTANTS
    MaxCtx = 5
    MaxPid = 5
    TimeSlice = 2
    Slices = {1}
    Priorities = {0}
    PriorityChanges = {0}
    CpuLimits = {2}
    MaxPending = 2
    MaxEntries = 1
    Sigs = {}
    MaskChoices = {}
    HandlerChoices = {}
    PolicyChoices = {}
    Algorithms = {}
    UserPids = {1, 3}
PROPERTIES RunawayIsKilled RoundRobin
