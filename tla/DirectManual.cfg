SPECIFICATION Spec
CONSTANTS
    k1 = k1
    k2 = k2
    Keys = {k1, k2}
    Capacity = 1
    AutoFlush = FALSE
    AppFlushes = TRUE
    MaxVersion = 3
    MaxInstance = 2
    MaxQuiet = 0
    MaxStarts = 2
    MaxEnds = 1
SYMMETRY KeySymmetry
INVARIANTS
    CursorsOrdered
PROPERTY
    InOrder
CHECK_DEADLOCK FALSE
