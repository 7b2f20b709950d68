SPECIFICATION FairSpec
CONSTANTS
    N = 3
    Threshold = 1
    MaxLSN = 1
    MaxOutages = 1
    DBFaults = TRUE
    DockerFaults = FALSE
    Crashes = FALSE
    Losses = FALSE
PROPERTIES
    MetadataFailureSurfaced
CHECK_DEADLOCK FALSE
