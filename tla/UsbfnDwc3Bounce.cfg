\* A bulk transfer started while EP0 OUT data is being received.
CONSTANTS
    NumPhysicalEps = 3
    MaxXfers = 2
    CmdFails = {}
    MessageDepth = 3
    InterfaceEps = {2}
    Requests = {"SET_CONFIG", "OUT"}
    HostSpeeds = {"high"}
    HostMay = {}
    ClientMay = {"bulk"}
    MaxSetups = 2
    MaxEvents = 2
SPECIFICATION Spec
INVARIANTS
    ControlDataMoved
