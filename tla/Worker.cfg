CONSTANTS
    Processes = {1, 2}
    Requests = {t1}
    MaxFailures = 2
    MaxCrashes = 1
    MaxRestarts = 1
CHECK_DEADLOCK FALSE
SPECIFICATION FairSpec
INVARIANTS OneKnownWorker PipeClean
PROPERTIES Recovers RequestsEnd
