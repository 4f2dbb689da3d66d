SPECIFICATION Spec
CONSTANTS
    Socket = {s1}
    Chip = {c1, c2}
    Level = {1, 2}
    MaxTicket = 2
    MaxMishaps = 0
    MaxFates = 0
    Tab = {t1}
    NoSocket = NoSocket
    TestLevel = {}
    Tester = {}
    MaxMoves = 3
INVARIANT AdvancementArrives
CHECK_DEADLOCK FALSE
