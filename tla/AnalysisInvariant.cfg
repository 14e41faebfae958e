SPECIFICATION Spec
CONSTANTS
    long = long
    empty = empty
    none = none
    openai = openai
    None = None
    NoneProvider = none
    Sessions = {long, empty}
    Providers = {none, openai}
    Ends <- MCEnds
    Citations <- MCCitations
    MaxSegments = 2
    MaxCharacters = 2
    MaxRetries = 1
    Requests = {submit, retry}
    Retries = {retry}
    MaxRuns = 2
    MaxOrders = 1
    MaxFaults = 1
CHECK_DEADLOCK FALSE
INVARIANTS IInv EvidenceInv
