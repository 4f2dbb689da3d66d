\* A scalper of a token and one of the native coin, in wallets that others use
\* and with state files that may fail to save.
SPECIFICATION WalletSpec
CONSTANTS
    Process = {bot}
    Bot = bot
    NoProcess = NoProcess
    NoOrder = NoOrder
    Order <- Either
    ReusesOrders = TRUE
    MaxTx = 3
    MaxFaults = 2
    Out = 1
    MaxDrift = 1
    SavesFail = TRUE
INVARIANTS IntentCoversClaim PositionIsReal CallbackAccepts
PROPERTY FillIsFinalized
CHECK_DEADLOCK FALSE
