CONSTANTS
    a = a
    b = b
    told = told
    tied = tied
    Boards = {a, b}
    Jobs = {told}
    Named <- NamedBoards
    Inside <- InsideBoards
    Handlers = {h1}
    Budget <- Bounds
SPECIFICATION FairSpec
INVARIANTS
    TypeOK
PROPERTIES
    FollowsQueue
    CaughtUp
    OutageShown
    Stops
CHECK_DEADLOCK FALSE
