SPECIFICATION FairSpec
CONSTANTS
    single = single
    batch = batch
    p1 = p1
    p2 = p2
    unknown = unknown
    Requests <- BothRequests
    Batches <- OneBatch
    BatchSize = 2
    Cancellable <- BothRequests
    Providers <- TwoProviders
    OfflineProviders <- OneProvider
    Queries <- AllQueries
    PoolSize = 2
INVARIANTS
    TypeOK
    NothingAfterShutdown
    NothingOutlivesRequest
PROPERTIES
    ImplementsRequestContract
    EveryCallReturns
CHECK_DEADLOCK FALSE
