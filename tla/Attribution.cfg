CONSTANTS
    a = a
    b = b
    told = told
    tied = tied
    Boards = {a, b}
    Jobs = {tied}
    Named <- NamedBoards
    Inside <- InsideBoards
    Handlers = {}
    Budget <- ShiftBounds
SPECIFICATION FairSpec
PROPERTIES
    LiveBoardIsTheRuns
CHECK_DEADLOCK FALSE
