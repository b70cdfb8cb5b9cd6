SPECIFICATION ManagerSpec
CONSTANTS
    ForkSlice = 1
    MaxCtx = 5
    MaxPid = 4
    Slices = {1}
    TimeSlice = 1
    Priorities = {0}
    PriorityChanges = {40}
    CpuLimits = {}
    MaxPending = 1
    MaxEntries = 1
    Sigs = {9, 17}
    MaskChoices = {}
    HandlerChoices = {}
    PolicyChoices = {}
    Algorithms = {}
    UserPids = {3}
INVARIANTS ReadyIsQueued
