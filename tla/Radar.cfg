CONSTANTS
    s1 = s1
    s2 = s2
    Others = {}
    Sessions = {s1}
    Segments = {k1, k2, k3}
    SessionOf <- MCSessionOf
    Texts = {t1}
    Providers = {"none", "openai"}
    BatchSize = 2
    ContextWindow = 2
    BufferLimit = 3
    MaxQueued = 1
    MaxRetries = 1
    MaxHistory = 0
    MaxItems = 2
    MaxSwitches = 1
    Nobody = Nobody
CHECK_DEADLOCK FALSE
SPECIFICATION RadarSpec
SYMMETRY Symmetry
INVARIANTS WorkerGoesOn EvidenceIsFinal
PROPERTIES DecisionsStand OnlySelectedReceives
