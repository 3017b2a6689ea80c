\* Progress and order of control requests; hosts may cut an IN data stage short.
CONSTANTS
    NumPhysicalEps = 3
    MaxXfers = 2
    CmdFails = {}
    MessageDepth = 3
    InterfaceEps = {2}
    Requests = {"SET_ADDRESS", "SET_CONFIG", "GET", "OUT"}
    HostSpeeds = {"high"}
    HostMay = {"reset", "disconnect", "early"}
    ClientMay = {"oversize"}
    MaxSetups = 3
    MaxEvents = 3
SPECIFICATION FairSpec
INVARIANTS
    ControlDataMoved
    Ep0Ready
    AddressAgrees
PROPERTIES
    SetupOrder
    ControlCompletes
