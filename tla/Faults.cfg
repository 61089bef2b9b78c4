CONSTANTS
    a = a
    b = b
    c = c
    p = p
    q = q
    r = r
    Boards = {a, b}
    Ports = {p, q}
    NoPort = NoPort
    Configs <- CapConfigs
    NoConfig = NoConfig
    IdleTimeout = 1
    StartTimeout = 1
    StableAfter = 1
    StartStagger = 0
    RetryPause = 1
    BackoffTable <- Backoffs
    UnhealthyStrikes = 2
    Faulty = {a, b}
    Hung = {}
    BadLog = {b}
    FullDisk = TRUE
    Foreign = {q}
    MaxRequests = 0
    MaxLag = 1
SPECIFICATION ProbedSpec
INVARIANTS
    StatusMatchesProcess
    TickCountsWarming
PROPERTIES
    LaunchesWithinLimit
    ImplementsSlots
    ChildrenAreSpared
ACTION_CONSTRAINT CallsComeLate
CHECK_DEADLOCK FALSE
