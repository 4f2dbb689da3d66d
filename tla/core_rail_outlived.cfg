CONSTANTS
    a1 = a1
    a2 = a2
    Address = {a1, a2}
    NoAddress = none
    Explicit = {}
    w1 = w1
    Worker = {w1}
    w2 = w2
    Limit = 2
    MaxPages = 1
    QueueSize = 1
    MaxBoundaries = 1
    Reverted <- NothingReverted
    Lag = 0
    MaxChain = 2
    MaxFaults = 1
    RpcOutlastsPoll = TRUE
SPECIFICATION Spec
INVARIANTS NoSilentSkip
