SPECIFICATION FairSpec
CONSTANTS
    MaxUid = 3
    MaxAddr = 4
    QueueLen = 5
    Environments <- Benign
INVARIANT Consistent
PROPERTIES EnumerationEnds EveryDeviceStarts
CHECK_DEADLOCK FALSE
