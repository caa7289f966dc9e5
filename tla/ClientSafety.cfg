SPECIFICATION ClientSpec
CONSTANTS
    c1 = c1
    c2 = c2
    c3 = c3
    Callers <- ThreeCallers
    Cancellable <- OneCaller
    OpenThreshold = 1
    MaxPending = 2
SYMMETRY OthersSymmetry
INVARIANTS
    TypeOK
    TimersMatchState
    BodiesAreClosed
    BreakerFollowsTarget
PROPERTIES
    ImplementsContract
