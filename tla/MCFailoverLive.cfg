SPECIFICATION FairSpec
CONSTANTS
    N = 3
    Threshold = 2
    MaxLSN = 3
    MaxOutages = 1
    DBFaults = FALSE
    DockerFaults = FALSE
    Crashes = FALSE
    Losses = FALSE
PROPERTIES
    FailsOver
    ImplementsWriterLease
CHECK_DEADLOCK FALSE
