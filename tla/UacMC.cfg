SPECIFICATION Spec
CONSTANTS
    XferNum = 2
    BufSize = 2
    MaxEndpoints = 2
    MaxFreqs = 2
    Volumes = {1, 2}
    Reading <- DeviceReading
    Kinds <- DeviceKinds
    Wants <- StreamWants
    MaxPlugs = 2
    MaxCalls = 5
    Environments <- Tame
INVARIANTS
    Consistent
    KeepsStreaming
PROPERTIES
    GoneIsClosed
CHECK_DEADLOCK FALSE
