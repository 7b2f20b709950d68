SPECIFICATION Spec
CONSTANTS
    Procs = {p1}
    Ops = {"restore", "visibility"}
    MaxCalls = 2
    MaxOutages = 0
    DBFaults = FALSE
    DockerFaults = FALSE
    Crashes = FALSE
INVARIANTS
    OneServerPerVolume
CHECK_DEADLOCK FALSE
