CONSTANTS
    c1 = c1
    c2 = c2
    c3 = c3
    c4 = c4
    k1 = k1
    k2 = k2
    x = x
    Conns = {c1, c2}
    Authorized = {c1, c2}
    Keys = {k1}
    ForeignKeys = {x}
    MaxConnections = 1
    MaxHeldKeys = 1
    MaxPendingOut = 2
    MaxBatch = 2
    WriteFaults = TRUE
SPECIFICATION FairSpec
INVARIANT Ownership
INVARIANT NeverPanics
PROPERTY ErrorFrameBeforeClose
PROPERTY StopEnds
PROPERTY DoomedSessionEnds
