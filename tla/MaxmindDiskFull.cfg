SPECIFICATION FairSpec
CONSTANTS
    Chunks = 2
PROPERTIES
    DownloadAlwaysReturns
CHECK_DEADLOCK FALSE
