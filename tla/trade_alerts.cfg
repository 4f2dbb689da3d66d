SPECIFICATION Spec
CONSTANTS
    Trade = {t1, t2}
    NoTrade = NoTrade
    Slot = {r1, r2}
    NoSlot = NoSlot
    MaxHistory = 1
    BotHistory = 1
    CanDisable = TRUE
    MaxMishaps = 2
INVARIANTS TypeOK NoSecondAnnouncement
PROPERTIES KeepsTheLedger AlertIsAnswered
