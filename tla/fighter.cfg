SPECIFICATION Spec
CONSTANTS
    Socket = {1, 2, 3}
    MaxHealth = 3
    MaxQueue = 2
    Key = {"block", "light_punch", "move_left"}
    MaxPresses = 2
    MaxBreaks = 1
INVARIANTS TypeOK PresenceIsTrue GuardIsHeld
PROPERTIES ResultIsFinal OutcomeIsLearned
CHECK_DEADLOCK FALSE
