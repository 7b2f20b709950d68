SPECIFICATION CopiesSpec
CONSTANTS
    MaxData = 2
    MaxFaults = 0
INVARIANT CliVolumePromoted
CHECK_DEADLOCK FALSE
