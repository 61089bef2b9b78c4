CONSTANTS
    Boards = {x}
    Dirs = {d, e}
    d = d
    e = e
    Runs = {r1, r2}
    r1 = r1
    r2 = r2
    Files <- FilesOf
    Large = {e}
    Steady = {d}
    NoDir = NoDir
    NoRun = NoRun
    FullInterval = 2
    Window = 4
    Gap = 2
SPECIFICATION FairSpec
INVARIANTS
    TypeOK
    SteadyShowsWriting
    ShowsOnlyData
PROPERTIES
    FlipsAreAnnounced
    FollowsLogdir
