CONSTANTS
    a = a
    b = b
    c = c
    p = p
    q = q
    r = r
    Boards = {b}
    Ports = {p, q}
    NoPort = NoPort
    Configs <- SoloConfigs
    NoConfig = NoConfig
    IdleTimeout = 1
    StartTimeout = 1
    StableAfter = 1
    StartStagger = 1
    RetryPause = 1
    BackoffTable <- Backoffs
    UnhealthyStrikes = 2
    Faulty = {b}
    Hung = {}
    BadLog = {b}
    FullDisk = TRUE
    Foreign = {q}
    MaxRequests = 1
    MaxLag = 1
SPECIFICATION FairSpec
PROPERTIES
    IdleBoardsStop
    UnresponsiveIsReplaced
CHECK_DEADLOCK FALSE
