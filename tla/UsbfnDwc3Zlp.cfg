\* Zero-length termination, halts that may fail and bus errors; nothing ends a transfer early.
CONSTANTS
    NumPhysicalEps = 4
    MaxXfers = 3
    CmdFails = {"stall"}
    MessageDepth = 4
    InterfaceEps = {2, 3}
    Requests = {"SET_CONFIG"}
    HostSpeeds = {"high"}
    HostMay = {"buserr"}
    ClientMay = {"bulk", "policy", "stall"}
    MaxSetups = 1
    MaxEvents = 2
SPECIFICATION FairSpec
INVARIANTS
    CompleteIsTrue
PROPERTIES
    CompletionReported
