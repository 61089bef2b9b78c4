CONSTANTS
    a = a
    b = b
    c = c
    p = p
    q = q
    r = r
    Boards = {a, b}
    Ports = {p, q}
    NoPort = NoPort
    Configs <- ControlConfigs
    NoConfig = NoConfig
    IdleTimeout = 1
    StartTimeout = 1
    StableAfter = 1
    StartStagger = 1
    RetryPause = 1
    BackoffTable <- Backoffs
    UnhealthyStrikes = 2
    Faulty = {}
    Hung = {}
    BadLog = {}
    FullDisk = FALSE
    Foreign = {}
    MaxRequests = 2
    MaxLag = 1
SPECIFICATION Spec
INVARIANTS
    TypeOK
    StatusMatchesProcess
    LaunchedAsConfigured
    StoppedStaysDown
PROPERTIES
    WarmupSurvivesIdle
ACTION_CONSTRAINT CallsComeLate
CHECK_DEADLOCK FALSE
