SPECIFICATION FairSpec
CONSTANTS
    Requests = {r1, r2}
    Jobs = {j1, j2}
INVARIANTS
    TypeOK
    JobsEndFirst
    CleanExit
PROPERTIES
    Terminates
    JobsKeepRunning
CHECK_DEADLOCK FALSE
