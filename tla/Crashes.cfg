CONSTANTS
    a = a
    b = b
    c = c
    p = p
    q = q
    r = r
    Boards = {a, b}
    Ports = {p, q}
    NoPort = NoPort
    Configs <- CapConfigs
    NoConfig = NoConfig
    IdleTimeout = 1
    StartTimeout = 1
    StableAfter = 1
    StartStagger = 1
    RetryPause = 1
    BackoffTable <- Backoffs
    UnhealthyStrikes = 2
    Faulty = {a}
    Hung = {}
    BadLog = {}
    FullDisk = FALSE
    Foreign = {}
    MaxRequests = 0
    MaxLag = 1
SPECIFICATION FairSpec
PROPERTIES
    AlwaysBoardsRun
CHECK_DEADLOCK FALSE
