CONSTANTS
    Segments = {s1}
    UnknownSegments = {}
    Workers = {w1}
    Providers = {p1}
    FirstProvider = p1
    NoneProvider = none
    QueueMax = 1
    MaxRetries = 0
    MaxSubmissions = 1
    CancelAPI = FALSE
    None = None
CHECK_DEADLOCK FALSE
SPECIFICATION FairSpec
PROPERTIES
    ShutdownTerminates
