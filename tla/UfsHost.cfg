SPECIFICATION FairSpec
CONSTANTS
    Luns = 2
    QUERY_REQ_RETRIES = 2
    NOP_OUT_RETRY = 2
    FlagRetry = 1
    MaxBlksPerChunk = 2
    LbaSpace = 4
    Lbas = {1}
    Counts = {0, 3}
    MaxRequests = 2
    Faults = {"timeout", "fatal", "ocs", "reject", "refused", "check", "uic", "phy", "nomem"}
CHECK_DEADLOCK FALSE
INVARIANTS
    AnswerIsMine
    InstalledIsReal
    MovedInOrder
    BuffersReturned
PROPERTY
    CallsReturn
