SPECIFICATION Spec
CONSTANTS
    NPorts = 2
    ResetAttempts = 1
    MaxPlugs = 2
    MaxEndpoints = 2
    Confs <- HubConfs
    Environments <- Tame
INVARIANTS
    Consistent
    HubListens
PROPERTIES
    HubIsFreed
    PortsFollow
CHECK_DEADLOCK FALSE
