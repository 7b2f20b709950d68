SPECIFICATION FairSpec
CONSTANTS
    Requests = {r1}
    Sched = sched
    ScheduledType = "full"
    Labels = {l1, l2, l3, l4, l5, l6}
    RetentionFull = 1
    MaxCalls = 2
    MaxFaults = 1
    MaxOutages = 1
INVARIANT TypeOK
PROPERTIES
    SyncExact
    NeverHides
    CatalogConverges
