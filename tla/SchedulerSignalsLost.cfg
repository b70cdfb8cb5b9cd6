SPECIFICATION CoreSpec
CONSTANTS
    MaxCtx = 4
    MaxPid = 4
    TimeSlice = 1
    Slices = {1}
    Priorities = {0}
    PriorityChanges = {}
    CpuLimits = {}
    MaxPending = 2
    MaxEntries = 1
    Sigs = {9, 10}
    MaskChoices = {}
    HandlerChoices = {}
    PolicyChoices = {}
    Algorithms = {}
    UserPids = {1, 2}
PROPERTIES SignalsAccumulate
