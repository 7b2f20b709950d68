SPECIFICATION Spec
CONSTANTS
    Procs = {p1, p2}
    Ops = {"destroy", "restore"}
    MaxCalls = 2
    MaxOutages = 0
    DBFaults = FALSE
    DockerFaults = FALSE
    Crashes = FALSE
INVARIANTS
    NothingLeftBehind
CHECK_DEADLOCK FALSE
