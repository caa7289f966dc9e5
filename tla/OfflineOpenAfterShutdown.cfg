SPECIFICATION Spec
CONSTANTS
    l1 = l1
    l2 = l2
    d1 = d1
    d2 = d2
    ip = ip
    Lookups <- TwoLookups
    Databases <- TwoDatabases
    Keys <- OneKey
    TTL = 2
    MaxDelay = 1
INVARIANTS
    NothingOpenAfterShutdown
