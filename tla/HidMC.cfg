SPECIFICATION Spec
CONSTANTS
    PerDevice = 2
    MaxPlugs = 2
    MaxCalls = 5
    Environments <- Tame
INVARIANTS
    Consistent
    KeepsListening
PROPERTIES
    GoneIsReclaimed
CHECK_DEADLOCK FALSE
