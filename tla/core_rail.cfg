\* Two addresses and an explicit signature; an RPC call ends within the poll.
SPECIFICATION BoundSpec
CONSTANTS
    a1 = a1
    a2 = a2
    Address = {a1, a2}
    NoAddress = none
    Explicit = {1}
    w1 = w1
    w2 = w2
    Worker = {w1, w2}
    Limit = 1
    MaxPages = 2
    QueueSize = 1
    MaxBoundaries = 1
    Reverted <- SecondReverted
    Lag = 1
    MaxChain = 4
    MaxFaults = 2
    RpcOutlastsPoll = FALSE
INVARIANTS TypeOK NoSilentSkip ExplicitMarkIsHandled
PROPERTIES RegressOnlyWithEvidence EventuallyAccounted
