SPECIFICATION ControlSpec
CONSTANTS
    Publishers = {p1}
    Clients = {c1}
    subBuffer = 1
    MaxEvents = 0
    Watched = {"backup_stale"}
    RuleThresholds = {20}
    MaxRules = 0
    MaxMoves = 0
    MaxTurns = 0
PROPERTIES
    VerdictStays
CHECK_DEADLOCK FALSE
