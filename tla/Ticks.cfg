SPECIFICATION TicksSpec
CONSTANTS
    MaxCid = 3
    FaultThreshold = 5
    Names <- LoadedNames
    Dependencies <- LoadedDependencies
    RunlevelOf <- LoadedRunlevels
    StartPriority <- LoadedPriorities
    RestartPolicy <- LoadedPolicies
    Levels = {0, 3, 4}
    MaxBackoff = 2
    MaxElapsed = 1
    MaxProcesses = 1
    Children = {a, b}
    a = a
    b = b
    NSlots = 1
    ChildPolicy = "on-crash"
    MaxRestarts = 1
    Delay = 2
    Sliced = {a}
    FaultLimit = 3
    CanFault = TRUE
    CrashCalls = {"spawn", "kill", "shutdown"}
    MessageCalls = {"spawn", "kill", "restart", "shutdown"}
    MaxMessages = 2
    MaxCalls = 3
    Blocks = {1, 2, 3}
    Devices = {"ata0", "ata1"}
    DeviceOf <- TwoDevices
    Values = {0, 1}
    MaxEntries = 2
    Interval = 2
    CanFail = TRUE
INVARIANTS TicksTypeOK OldestFirst NoneLost RunningIffHeld NoRuntimeLeaked CleanMatchesDisk
PROPERTIES CrashLoopEnds StartedWithDependencies RespawnNotDropped RespawnHappens RestartHappens GivesUp ViewStable CleanEvictedFirst DirtyIsWritten
