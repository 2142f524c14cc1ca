SPECIFICATION Spec
CONSTANTS
    XferNum = 2
    FrameNum = 2
    Packets = 2
    QueueLen = 3
    Stream <- Pair
    MaxPlugs = 1
    MaxCalls = 4
    MaxMps = 2
    MaxEndpoints = 2
    Cameras <- AllCameras
    Reading <- CameraReading
    Kinds <- CameraKinds
    Wants <- CameraWants
    Environments <- Tame
INVARIANTS
    Consistent
    KeepsStreaming
PROPERTIES
    GoneIsClosed
CHECK_DEADLOCK FALSE
