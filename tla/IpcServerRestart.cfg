SPECIFICATION FairSpec
CONSTANTS
    c1 = c1
    c2 = c2
    Clients = {c1}
    Nobody = Nobody
    SlotCount = 1
    MayStop = FALSE
    MayCrash = FALSE
    MaxStarts = 1
    MaxWrites = 0
    MaxSession = 1
    MaxQuiet = 0
    MaxBoots = 2
    MaxPauses = 0
    MaxEvents = 9
PROPERTIES
    ConnectsAfterServerRestart
