CONSTANTS
    c1 = c1
    c2 = c2
    c3 = c3
    c4 = c4
    k1 = k1
    k2 = k2
    x = x
    Conns = {c1, c2, c3}
    Authorized = {c1, c2, c3}
    Keys = {k1}
    ForeignKeys = {x}
    MaxConnections = 3
    MaxHeldKeys = 1
    MaxPendingOut = 1
    MaxBatch = 1
    WriteFaults = FALSE
SPECIFICATION Spec
SYMMETRY Symmetry
PROPERTY OnlyMarkedRemoved
