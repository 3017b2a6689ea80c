\* The control pipe and the link with a prompt client: every kind of request, stalls, resets,
\* disconnects, re-attachment at another speed, suspend and resume, and stops at any point.
CONSTANTS
    NumPhysicalEps = 3
    MaxXfers = 1
    CmdFails = {}
    MessageDepth = 3
    InterfaceEps = {2}
    Requests = {"SET_ADDRESS", "SET_CONFIG", "NODATA", "GET", "OUT"}
    HostSpeeds = {"full", "super"}
    HostMay = {"reset", "disconnect", "link", "other"}
    ClientMay = {"oversize", "stop"}
    MaxSetups = 2
    MaxEvents = 2
SPECIFICATION Spec
INVARIANTS
    TrbIntact
    StoppedQuiet
    ClientView
