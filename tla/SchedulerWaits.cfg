SPECIFICATION Spec
CONSTANTS
    MaxCtx = 4
    MaxPid = 4
    TimeSlice = 1
    Slices = {1}
    Priorities = {0}
    PriorityChanges = {20}
    CpuLimits = {}
    MaxPending = 1
    MaxEntries = 2
    Sigs = {9}
    MaskChoices = {}
    HandlerChoices = {}
    PolicyChoices = {}
    Algorithms = {"real-time"}
    UserPids = {3}
INVARIANTS NoForgottenProcess
