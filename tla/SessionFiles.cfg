SPECIFICATION Spec
CONSTANTS
    Sessions = {m1}
    LegacySessions = {}
    Segments = {g1}
    Policies <- AllOrNone
    FirstPolicy <- SaveAll
    Requests = {"finalize", "recover", "export", "configure", "pause", "analysis"}
    MaxLog = 3
    MaxCrashes = 1
    MaxFaults = 1
    NoSession = NoSession
    NoFile = NoFile
CHECK_DEADLOCK FALSE
INVARIANTS FilesAgree NothingMissing ResultsConsented
PROPERTIES NothingShownIsLost ImplementsArchive
