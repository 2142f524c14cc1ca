SPECIFICATION Spec
CONSTANTS
    Task <- Tasks
    Trials = 1
    StackMax = 12
    MaxPlugs = 2
    MaxCalls = 3
    MaxFaults = 2
    Environments <- Tame
INVARIANTS
    Consistent
PROPERTIES
    Recovers
    GoneIsClosed
CHECK_DEADLOCK FALSE
