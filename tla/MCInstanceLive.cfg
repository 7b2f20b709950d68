SPECIFICATION LiveSpec
CONSTANTS
    Procs = {1, 2}
    Ops = {"start", "destroy", "restore"}
    MaxCalls = 2
    MaxOutages = 0
    DBFaults = FALSE
    DockerFaults = FALSE
    Crashes = FALSE
PROPERTIES
    TransitionsEnd
    StatusConverges
CHECK_DEADLOCK FALSE
