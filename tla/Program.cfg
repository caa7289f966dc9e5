SPECIFICATION ProgramSpec
CONSTANTS
    get = get
    post = post
    p1 = p1
    unknown = unknown
    Requests <- GetAndPost
    Batches <- OnePost
    BatchSize = 2
    Cancellable <- OneGet
    Providers <- OneProvider
    OfflineProviders <- OneProvider
    Queries <- AnyQuery
    PoolSize = 2
    MaxEntries = 2
INVARIANTS
    ExitAfterAnswers
    OkMeansResolved
    EveryUseIsCounted
    StartsAsConfigured
PROPERTIES
    SignalEndsProgram
    ImplementsUsageStats
CHECK_DEADLOCK FALSE
