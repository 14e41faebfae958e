SPECIFICATION FairSpec
CONSTANTS
    MaxUtterances = 3
    MaxSessions = 2
    RecheckMax = 1
CHECK_DEADLOCK FALSE
INVARIANTS PublishedInOrder FinalReplacesPartial RecheckBounded
PROPERTIES FinalsHandled
