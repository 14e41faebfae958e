CONSTANTS
    Processes = {1, 2}
    Requests = {t1, t2}
    MaxFailures = 2
    MaxCrashes = 1
    MaxRestarts = 1
CHECK_DEADLOCK FALSE
SPECIFICATION Spec
INVARIANTS IInv Begins OneKnownWorker PipeClean
