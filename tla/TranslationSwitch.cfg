SPECIFICATION Spec
CONSTANTS
    Segments = {s1, s2, s3}
    UnknownSegments = {s3}
    Workers = {w1, w2}
    Providers = {p1, p2}
    FirstProvider = p1
    NoneProvider = none
    QueueMax = 2
    MaxRetries = 0
    MaxSubmissions = 2
    CancelAPI = TRUE
    None = None
SYMMETRY Symmetry
CHECK_DEADLOCK FALSE
INVARIANTS EndedStaysEnded
