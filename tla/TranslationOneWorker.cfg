CONSTANTS
    Segments = {s1, s2}
    UnknownSegments = {}
    Workers = {w1}
    Providers = {p1, p2, p3}
    FirstProvider = p1
    NoneProvider = none
    QueueMax = 2
    MaxRetries = 0
    MaxSubmissions = 2
    CancelAPI = TRUE
    None = None
CHECK_DEADLOCK FALSE
SPECIFICATION Spec
INVARIANTS
    House
    SoloInv
    TendedInv
