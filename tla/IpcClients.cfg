SPECIFICATION EitherSpec
CONSTANTS
    c1 = c1
    c2 = c2
    Clients = {c1, c2}
    Nobody = Nobody
    SlotCount = 2
    MayStop = FALSE
    MayCrash = TRUE
    MaxStarts = 2
    MaxWrites = 2
    MaxSession = 1
    MaxQuiet = 0
    MaxBoots = 1
    MaxPauses = 0
    MaxEvents = 9
INVARIANTS
    Converges
    HandledOnce
PROPERTIES
    ClientsConnect
