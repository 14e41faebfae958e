CONSTANTS
    Sessions = {m1, m2}
    LegacySessions = {m2}
    Segments = {g1}
    Policies <- OnlyAll
    FirstPolicy <- SaveAll
    Requests = {"analysis", "finalize"}
    MaxLog = 4
    MaxCrashes = 1
    MaxFaults = 0
    NoSession = NoSession
    NoFile = NoFile
CHECK_DEADLOCK FALSE
SPECIFICATION Spec
INVARIANTS
    AnalysisBacked
PROPERTIES
    ImplementsArchive
