SPECIFICATION DashboardSpec
CONSTANTS
    k1 = k1
    k2 = k2
    Keys = {k1, k2}
    HighWater = 1
    Budget = 1
    Ids = {0, 1, 2}
    SeqLimit = 3
    Begins = {1, 2}
    MaxWrites = 2
    Events = {"reannounce", "stop", "cut", "click"}
    MaxEvents = 1
    Subjects = {"recording"}
    SampleInts = {0, 31, 32, 127, 128, 255, 256, 32767, 32768, 65535, 65536}
    Stride = 2
    Recordings <- MCRecordings
    Apart = 0
    MaxMoves = 4
    MaxLength = 3
    Durations = {1, 3, 8, 20}
    MinSpan = 2
    Parts = 4
    MaxRecorded = 3
    MaxLosses = 2
    MaxToggles = 3
    MaxDepth = 2
    Urls = {"u", "v"}
    MaxSteps = 7
    MaxParts = 2
    MaxStarts = 2
    MaxBuffer = 18
    TreeKeys = {"a/x", "a/y", "b"}
    CameraNames = {"c"}
    NoUrl = ""
    GroupOf <- TreeGroups
    FileKeys = {"a/x", "b"}
    MaxClicks = 7
INVARIANTS
    OneRecorder
CHECK_DEADLOCK FALSE
