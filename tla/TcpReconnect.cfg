SPECIFICATION EitherSpec
CONSTANTS
    d1 = d1
    d2 = d2
    Dashboards = {d1}
    Nobody = Nobody
    MaxLinks = 2
    MaxWrites = 2
    Events = {"session", "stop", "cut", "stale", "early", "click"}
    MaxEvents = 3
INVARIANTS
    Converges
    EditSurvives
PROPERTY
    RetriesUntilConnected
CHECK_DEADLOCK FALSE
