SPECIFICATION FairSpec
CONSTANTS
    v1 = v1
    v2 = v2
    v3 = v3
    Versions <- ThreeVersions
    NoDir = NoDir
INVARIANTS
    ServedIsOnDisk
    RestartFindsDatabase
    NoLitterAtRest
    StatsTellTheTruth
PROPERTIES
    LastDatabaseIsKept
    ShutdownEndsUpdates
    UpdatesGoOn
