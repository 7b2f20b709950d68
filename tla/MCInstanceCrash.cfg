SPECIFICATION FairSpec
CONSTANTS
    Procs = {p1}
    Ops = {"restore"}
    MaxCalls = 1
    MaxOutages = 0
    DBFaults = FALSE
    DockerFaults = FALSE
    Crashes = TRUE
PROPERTIES
    TransitionsEnd
CHECK_DEADLOCK FALSE
