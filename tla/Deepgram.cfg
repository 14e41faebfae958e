SPECIFICATION FairStreamSpec
CONSTANTS
    MaxWords = 3
    HardLimit = 2
    Dangling = {1, 3}
    Closing = {2}
    MayReplace = TRUE
CHECK_DEADLOCK FALSE
INVARIANTS FinalsMakeOneText NothingLost
PROPERTIES TailKept RequestsEnd
