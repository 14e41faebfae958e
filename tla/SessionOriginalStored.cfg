CONSTANTS
    Sessions = {m1}
    LegacySessions = {}
    Segments = {g1}
    Policies <- AllOrTranslation
    FirstPolicy <- SaveTranslation
    Requests = {}
    MaxLog = 4
    MaxCrashes = 0
    MaxFaults = 0
    NoSession = NoSession
    NoFile = NoFile
CHECK_DEADLOCK FALSE
SPECIFICATION Spec
INVARIANTS
    OriginalNeverStored
