SPECIFICATION FairSpec
CONSTANTS
    FifoSize = 2
    BlockUnits = 4
    MaxBlocks = 2
    MaxCalls = 2
    MaxBusy = 1
    Faults = {"cmd", "data", "acmd", "overrun", "switch", "memory"}
CHECK_DEADLOCK FALSE
INVARIANTS
    ResponseIsMine
    FailsForAReason
    MovedInOrder
PROPERTY
    CallsReturn
