CONSTANTS
    Sessions = {m1}
    LegacySessions = {}
    Segments = {g1}
    Policies <- OnlyAll
    FirstPolicy <- SaveAll
    Requests = {"analysis", "finalize"}
    MaxLog = 3
    MaxCrashes = 1
    MaxFaults = 1
    NoSession = NoSession
    NoFile = NoFile
CHECK_DEADLOCK FALSE
SPECIFICATION Spec
INVARIANTS
    IInv
    Remembered
