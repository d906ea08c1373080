SPECIFICATION EitherSpec
CONSTANTS
    c1 = c1
    c2 = c2
    gain = gain
    reset = reset
    noPath = noPath
    x = x
    y = y
    z = z
    Clients <- MCClients
    Paths = {gain, reset}
    NoPath = noPath
    Payloads = {x, y, z}
    Offers <- AllOffers
    MaxAge = 2
    MaxSession = 2
    MaxSeq = 3
    MaxPending = 1
    Server = Server
    Nobody = Nobody
    NoValue = NoValue
SYMMETRY MCSymmetry
INVARIANTS
    TypeOK
    LiveStreamExact
    AcksFollowWrites
    SessionConfined
    OneWriterPerTenure
    Converges
PROPERTIES
    CommandsNotReplayed
    ImplementsFeed
