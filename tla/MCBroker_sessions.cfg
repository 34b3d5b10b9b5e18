CONSTANTS
    c1 = c1
    c2 = c2
    c3 = c3
    c4 = c4
    k1 = k1
    k2 = k2
    k3 = k3
    x = x
    Conns = {c1, c2, c3}
    Authorized = {c1, c2}
    Keys = {k1, k2, k3}
    ForeignKeys = {x}
    MaxConnections = 2
    MaxHeldKeys = 2
    MaxPendingOut = 1
    MaxBatch = 2
    WriteFaults = FALSE
SPECIFICATION Spec
SYMMETRY Symmetry
INVARIANT CleanShutdown
INVARIANT KeysOnlyAfterHandshake
INVARIANT Limits
PROPERTY OnlyMarkedRemoved
PROPERTY ClosingIsInert
PROPERTY ImplementsKeyOwnership
