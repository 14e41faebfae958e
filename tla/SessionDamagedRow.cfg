CONSTANTS
    Sessions = {m1}
    LegacySessions = {}
    Segments = {g1}
    Policies <- OnlyAll
    FirstPolicy <- SaveAll
    Requests = {}
    MaxLog = 4
    MaxCrashes = 1
    MaxFaults = 0
    NoSession = NoSession
    NoFile = NoFile
CHECK_DEADLOCK FALSE
SPECIFICATION Spec
INVARIANTS
    DamagedRowTolerated
