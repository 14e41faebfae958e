SPECIFICATION Spec
CONSTANTS
    MaxUtterances = 3
    MaxSessions = 2
    RecheckMax = 1
CHECK_DEADLOCK FALSE
INVARIANTS IInv Alone
