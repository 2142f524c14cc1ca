SPECIFICATION FairSpec
CONSTANTS
    c1 = c1
    c2 = c2
    d1 = d1
    d2 = d2
    Client = {c1, c2}
    Device = {d1, d2}
    QueueLen = 4
    Environments <- Benign
INVARIANT Consistent
PROPERTIES
    GoneIsFreed ShutdownEnds
