SPECIFICATION FairSpec
CONSTANT Environments <- Benign
INVARIANT Consistent
PROPERTIES PortRecovers PluggedIsFound
CHECK_DEADLOCK FALSE
