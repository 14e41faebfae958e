SPECIFICATION FairSpec
CONSTANTS
    Segments = {s1, s2}
    UnknownSegments = {}
    Workers = {w1, w2}
    Providers = {p1, none}
    FirstProvider = p1
    NoneProvider = none
    QueueMax = 1
    MaxRetries = 1
    MaxSubmissions = 2
    CancelAPI = FALSE
    None = None
CHECK_DEADLOCK FALSE
INVARIANTS OneOwner BacklogHolds
PROPERTIES ImplementsLedger EverySubmissionSettles
