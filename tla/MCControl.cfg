SPECIFICATION ControlSpec
CONSTANTS
    Publishers = {p1, p2}
    Clients = {c1, c2}
    subBuffer = 1
    MaxEvents = 1
    Watched = {"replication_lag", "backup_stale"}
    RuleThresholds = {20, 500}
    MaxRules = 2
    MaxMoves = 3
    MaxTurns = 3
INVARIANTS
    ControlTypeOK
    StreamIsSound
    NoticesFollow
PROPERTIES
    StreamServes
    AlertsSettle
    HealthIsTrue
CHECK_DEADLOCK FALSE
