SPECIFICATION Spec
CONSTANTS
    e1 = e1
    e2 = e2
    u1 = u1
    u2 = u2
    u3 = u3
    Ep = {e1, e2}
    Urb = {u1, u2, u3}
    NumBuffers = 2
    Xfer = {"a", "b", "c"}
    IntrLen = 3
    IsocLen = 8
    IsocMargin = 3
    Environments <- Tame
INVARIANTS EpConsistent DmaConsistent
PROPERTIES
    UrbQueueSpec GoneReturnsAll DeferredIsStarted
