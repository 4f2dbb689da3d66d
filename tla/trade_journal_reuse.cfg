\* Two processes that submit the same manual order.
SPECIFICATION Spec
CONSTANTS
    Process = {loop, cli}
    NoProcess = NoProcess
    NoOrder = NoOrder
    Order <- OneManual
    ReusesOrders = TRUE
    MaxTx = 3
    MaxFaults = 1
SYMMETRY Symmetric
INVARIANT NoForgottenBroadcast
CHECK_DEADLOCK FALSE
