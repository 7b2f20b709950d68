SPECIFICATION Spec
CONSTANTS
    Procs = {p1}
    Ops = {"start", "stop", "restart", "destroy", "restore", "visibility"}
    MaxCalls = 4
    MaxOutages = 1
    DBFaults = FALSE
    DockerFaults = FALSE
    Crashes = FALSE
INVARIANTS
    NothingLeftBehind
    RollbackRevives
    OneServerPerVolume
CONSTRAINT
    PassesApart
CHECK_DEADLOCK FALSE
