\* A write in which nothing goes wrong.
SPECIFICATION Spec
CONSTANTS
    FifoSize = 2
    BlockUnits = 4
    MaxBlocks = 2
    MaxCalls = 1
    MaxBusy = 0
    Faults = {}
CHECK_DEADLOCK FALSE
INVARIANT
    DataMoved
