CONSTANTS
    Segments = {s1, s2, s3}
    UnknownSegments = {s3}
    Workers = {w1, w2}
    Providers = {p1, none}
    FirstProvider = p1
    NoneProvider = none
    QueueMax = 2
    MaxRetries = 0
    MaxSubmissions = 2
    CancelAPI = FALSE
    None = None
CHECK_DEADLOCK FALSE
SPECIFICATION Spec
INVARIANTS
    OneOwner
    IInv
    House
    ServiceInv
    TendedInv
PROPERTIES
    ImplementsLedger
