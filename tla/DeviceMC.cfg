SPECIFICATION Spec
CONSTANTS
    Storage = {"flash", "card", "disk"}
    NoStorage = "none"
    MaxPlugs = 2
    MaxText = 3
    MaxWrites = 2
    MaxCalls = 4
    MaxFails = 1
    MaxPorts = 2
    Environments <- Tame
INVARIANTS
    Consistent
PROPERTIES
    Served
CHECK_DEADLOCK FALSE
