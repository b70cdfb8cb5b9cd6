SPECIFICATION CoreSpec
CONSTANTS
    MaxCtx = 4
    MaxPid = 5
    Slices = {1}
    TimeSlice = 1
    Priorities = {10}
    PriorityChanges = {10}
    CpuLimits = {0}
    MaxPending = 2
    MaxEntries = 1
    Sigs = {9, 10}
    MaskChoices = {{}, {9, 10}}
    HandlerChoices = {"function"}
    PolicyChoices = {"real-time"}
    Algorithms = {"real-time"}
    UserPids = {2, 3}
INVARIANTS TypeOK QueuesMatchStates
PROPERTIES TerminatedIsFinal OthersKeepSignals MaskedStayPending KillEndsAtTick
