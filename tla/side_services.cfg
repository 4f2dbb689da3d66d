\* One part at a time: the rehearsal, a trading loop's status, the limits.
SPECIFICATION SideSpec
CONSTANTS
    MaxTrouble = 3
    PollInterval = 3
    LeastStale = 3
    RetryBase = 1
    RetryMost = 8
    MaxPass = 3
    MaxClock = 12
    Client = {c1, c2}
    NoClient = NoClient
    Request = {r1}
    ApiLimit = 2
    FeedbackLimit = 1
    Window = 2
    FailOpen = TRUE
    MaxTime = 2
INVARIANTS
    CampaignIsSound
    StatusIsTrue
    LimitHolds
PROPERTIES
    RehearsalEnds
    RefusedAtTheLimit
CHECK_DEADLOCK FALSE
