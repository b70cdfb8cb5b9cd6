SPECIFICATION Spec
CONSTANTS
    Children = {a}
    a = a
    NSlots = 1
    RestartPolicy = "always"
    MaxRestarts = 1
    Delay = 1
    Sliced = {a}
    FaultLimit = 3
    CanFault = FALSE
    CrashCalls = {"kill"}
    MessageCalls = {}
    MaxMessages = 1
    MaxCalls = 2
INVARIANTS KilledStaysKilled
