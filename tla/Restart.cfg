CONSTANTS
    a = a
    b = b
    c = c
    p = p
    q = q
    r = r
    Boards = {b}
    Ports = {p, q}
    NoPort = NoPort
    Configs <- SoloConfigs
    NoConfig = NoConfig
    IdleTimeout = 1
    StartTimeout = 1
    StableAfter = 1
    StartStagger = 1
    RetryPause = 1
    BackoffTable <- Backoffs
    UnhealthyStrikes = 2
    Faulty = {}
    Hung = {}
    BadLog = {}
    FullDisk = FALSE
    Foreign = {}
    MaxRequests = 1
    MaxLag = 1
SPECIFICATION Spec
PROPERTIES
    RestartBringsBack
CHECK_DEADLOCK FALSE
