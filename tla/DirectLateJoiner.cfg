SPECIFICATION FairSpec
CONSTANTS
    k1 = k1
    k2 = k2
    Keys = {k1}
    Capacity = 2
    AutoFlush = TRUE
    AppFlushes = FALSE
    MaxVersion = 2
    MaxInstance = 2
    MaxQuiet = 1
    MaxStarts = 1
    MaxEnds = 0
PROPERTIES
    ViewNeverGoesBack
    LateJoinerCatchesUp
