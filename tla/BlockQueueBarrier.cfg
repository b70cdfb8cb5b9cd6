SPECIFICATION Spec
CONSTANTS
    SectorCount = 2
    ReadSectors = {0}
    MaxReq = 3
    ReadBudget = 1
    WriteBudget = 2
    Elevators = {"noop", "deadline", "cfq"}
    SwitchBusy = FALSE
    CanFail = TRUE
PROPERTIES BarrierFlushes
CHECK_DEADLOCK FALSE
