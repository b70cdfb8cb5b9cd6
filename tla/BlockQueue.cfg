SPECIFICATION Spec
CONSTANTS
    SectorCount = 2
    ReadSectors = {0}
    MaxReq = 4
    ReadBudget = 1
    WriteBudget = 2
    Elevators = {"noop", "deadline", "cfq"}
    SwitchBusy = FALSE
    CanFail = TRUE
INVARIANTS TypeOK DrainAwake BoundedBypass
PROPERTIES WritesKeepOrder
CHECK_DEADLOCK FALSE
