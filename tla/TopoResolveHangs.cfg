SPECIFICATION FairSpec
CONSTANTS
    single = single
    batch = batch
    p1 = p1
    p2 = p2
    unknown = unknown
    Requests <- OneSingle
    Batches <- NoRequests
    BatchSize = 2
    Cancellable <- OneSingle
    Providers <- TwoProviders
    OfflineProviders <- OneProvider
    Queries <- DefaultOnly
    PoolSize = 1
PROPERTIES
    CancelledResolveReturns
CHECK_DEADLOCK FALSE
