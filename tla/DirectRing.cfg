SPECIFICATION FairSpec
CONSTANTS
    Capacity = 5
    HeaderBytes = 1
    Sizes = {2, 3}
    SeqLimit = 2
    NoMessage = NoMessage
INVARIANTS
    UnreadIntact
PROPERTIES
    DrainEnds
    ImplementsFifo
