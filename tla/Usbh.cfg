SPECIFICATION FairSpec
CONSTANTS
    Dev = {d1}
    Client = {c1, c2}
    Enum = enum
    NoDev = none
    MaxInflight = 3
    FreeAllInDaemon = TRUE
INVARIANTS
    TypeOK CountersAreExact LifeIsSafe
PROPERTIES GoneIsFreed LifeSpec
