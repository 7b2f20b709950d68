SPECIFICATION Spec
CONSTANTS
    Procs = {p1, p2}
    Ops = {"start", "restore", "visibility"}
    MaxCalls = 2
    MaxOutages = 0
    DBFaults = FALSE
    DockerFaults = TRUE
    Crashes = TRUE
INVARIANTS
    TypeOK
    DataKept
SYMMETRY ProcSymmetry
CHECK_DEADLOCK FALSE
