SPECIFICATION FairSpec
CONSTANTS
    c1 = c1
    c2 = c2
    Callers <- TwoCallers
    Cancellable <- TwoCallers
    OpenThreshold = 0
    MaxPending = 1
PROPERTIES
    TrialEnds
