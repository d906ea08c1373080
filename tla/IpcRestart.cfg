SPECIFICATION Spec
CONSTANTS
    c1 = c1
    c2 = c2
    Clients = {c1, c2}
    Nobody = Nobody
    SlotCount = 1
    MayStop = TRUE
    MayCrash = TRUE
    MaxStarts = 2
    MaxWrites = 3
    MaxSession = 2
    MaxQuiet = 1
    MaxBoots = 2
    MaxPauses = 1
    MaxEvents = 3
SYMMETRY ClientSymmetry
INVARIANTS
    SlotExclusive
PROPERTIES
    AckMeansHandled
