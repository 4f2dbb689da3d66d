SPECIFICATION BoundSpec
CONSTANTS
    s1 = s1
    t1 = t1
    Socket = {s1, s2}
    Chip = {c1}
    Level = {1, 9, 10}
    MaxTicket = 2
    MaxMishaps = 2
    MaxFates = 1
    Tab = {t1, t2}
    NoSocket = NoSocket
    TestLevel = {1}
    Tester = {t1}
    MaxMoves = 3
INVARIANTS TypeOK OneSeat ConnectedIsSeated
PROPERTIES JoinIsDecided
CHECK_DEADLOCK FALSE
