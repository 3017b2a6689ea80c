\* Bulk transfers, aborts, bus resets and failing commands, with a client that calls on EP0
\* out of turn and a host that asks for data in the wrong direction.
CONSTANTS
    NumPhysicalEps = 4
    MaxXfers = 2
    CmdFails = {"config", "start", "stall"}
    MessageDepth = 4
    InterfaceEps = {2, 3}
    Requests = {"SET_CONFIG", "GET"}
    HostSpeeds = {"high"}
    HostMay = {"reset", "wrongdir"}
    ClientMay = {"bulk", "abort", "lazy"}
    MaxSetups = 2
    MaxEvents = 3
SPECIFICATION Spec
INVARIANTS
    TypeOK
    NoMessageDropped
    ReportedOnce
    CompleteIsTrue
    NoLostCompletion
