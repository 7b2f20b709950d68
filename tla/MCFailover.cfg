SPECIFICATION Spec
CONSTANTS
    N = 3
    Threshold = 1
    MaxLSN = 2
    MaxOutages = 2
    DBFaults = TRUE
    DockerFaults = TRUE
    Crashes = TRUE
    Losses = TRUE
INVARIANTS
    TypeOK
    NoSplitBrain
    ForgottenNeverWrites
    FenceBeforePromote
    RunningIsEarned
    PromotedCopySurvives
CONSTRAINT
    WhileRecorded
CHECK_DEADLOCK FALSE
