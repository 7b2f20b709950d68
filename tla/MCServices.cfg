SPECIFICATION ServicesSpec
CONSTANTS
    Handlers = {h1, h2}
    People = {"root", "ana"}
    Root = "root"
    TTL = 2
    Replicas = 2
    MaxFailures = 3
    Captures = {c1, c2}
    Suffixes = {1, 2}
    Keep = 1
    DumpMajor = 16
    MaxClock = 1
    MaxMishaps = 1
    MaxData = 3
    MaxFaults = 3
INVARIANTS
    ServicesTypeOK
    OneAccountPerPerson
    PrivilegeTiers
    ShownIsComplete
    NothingOrphaned
    RestoreHoldsTheDump
    CopiesAreWhole
PROPERTIES
    AdminRemains
    PruneIsExact
CHECK_DEADLOCK FALSE
