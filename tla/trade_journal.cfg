\* One process that may reuse orders, with crashes and timeouts, and two
\* processes whose claims all have fingerprints of their own.
SPECIFICATION BothSpec
CONSTANTS
    Process = {loop}
    Users = {loop, cli}
    NoProcess = NoProcess
    NoOrder = NoOrder
    Order <- AllOrders
    ReusesOrders = TRUE
    MaxTx = 4
    SharedTx = 3
    MaxFaults = 2
INVARIANTS NoForgottenBroadcast OutcomesAreTrue PositionsMatchChain
CHECK_DEADLOCK FALSE
PROPERTIES OneResolves KeepsTheSwaps
