SPECIFICATION FairSpec
CONSTANTS
    Procs = {p1}
    Ops = {"start", "destroy", "restore", "visibility"}
    MaxCalls = 2
    MaxOutages = 0
    DBFaults = FALSE
    DockerFaults = TRUE
    Crashes = FALSE
PROPERTIES
    TransitionsEnd
CHECK_DEADLOCK FALSE
