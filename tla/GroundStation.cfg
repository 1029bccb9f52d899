SPECIFICATION FairSpec
CONSTANTS
    Values = {"number", "NaN"}
    Statuses = {"OK", "JITTER_WARN"}
    ConnectTimeout = 5
    RetryDelay = 2
    AttemptTime = 1
    MaxPackets = 2
    MaxDatagrams = 1
    MaxStarts = 3
INVARIANTS
    TypeOK
    GapsAreLost
    ShownIsWritten
    TotalsMatchSent
    SteadyGroundIsInTime
PROPERTIES
    OneSession
    EveryLineShown
    KeepsTrying
CHECK_DEADLOCK FALSE
