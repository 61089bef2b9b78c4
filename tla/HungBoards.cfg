CONSTANTS
    a = a
    b = b
    c = c
    p = p
    q = q
    r = r
    Boards = {a, b, c}
    Ports = {p, q, r}
    NoPort = NoPort
    Configs <- Crowded
    NoConfig = NoConfig
    IdleTimeout = 1
    StartTimeout = 4
    StableAfter = 1
    StartStagger = 1
    RetryPause = 1
    BackoffTable <- LongBackoff
    UnhealthyStrikes = 2
    Faulty = {}
    Hung = {a, b}
    BadLog = {}
    FullDisk = FALSE
    Foreign = {}
    MaxRequests = 0
    MaxLag = 1
SPECIFICATION FairSpec
PROPERTIES
    AlwaysBoardsRun
CHECK_DEADLOCK FALSE
