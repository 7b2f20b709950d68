SPECIFICATION Spec
CONSTANTS
    Procs = {p1, p2}
    Ops = {"start", "stop", "destroy", "visibility"}
    MaxCalls = 2
    MaxOutages = 0
    DBFaults = TRUE
    DockerFaults = TRUE
    Crashes = TRUE
INVARIANTS
    OneServerPerVolume
SYMMETRY ProcSymmetry
CHECK_DEADLOCK FALSE
