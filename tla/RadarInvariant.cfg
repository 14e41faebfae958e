CONSTANTS
    s1 = s1
    s2 = s2
    Others = {k4}
    Sessions = {s1, s2}
    Segments = {k1, k2, k3, k4}
    SessionOf <- MCSessionOf
    Texts = {t1}
    Providers = {"none", "openai"}
    BatchSize = 2
    ContextWindow = 2
    BufferLimit = 3
    MaxQueued = 2
    MaxRetries = 0
    MaxHistory = 0
    MaxItems = 0
    MaxSwitches = 2
    Nobody = Nobody
CHECK_DEADLOCK FALSE
SPECIFICATION RadarSpec
INVARIANTS RadarInv
