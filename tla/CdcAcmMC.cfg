SPECIFICATION HostSpec
CONSTANTS
    Dev <- Pair
    MaxPlugs = 2
    MaxCalls = 6
    QueueLen = 3
    MaxEndpoints = 3
    InBuffer = 4
    Mps = 2
    Reading <- DeviceReading
    Kinds <- DeviceKinds
    Environments <- Tame
    Drivers <- VcpDrivers
    Codings <- LineCodings
    MaxJobs = 3
    MaxRounds = 1
    Ports <- TamePorts
INVARIANTS
    Consistent
    KeepsPolling
PROPERTIES
    GoneIsClosed
CHECK_DEADLOCK FALSE
