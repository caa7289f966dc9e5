SPECIFICATION ClientFairSpec
CONSTANTS
    c1 = c1
    c2 = c2
    c3 = c3
    Callers <- TwoCallers
    Cancellable <- NoCallers
    OpenThreshold = 1
    MaxPending = 2
INVARIANTS
    TrialIsInFlight
PROPERTIES
    TrialEnds
    OpenedIsLeft
    FailuresAreForgotten
