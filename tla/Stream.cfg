CONSTANTS
    Channels = {k1}
    Attentive = {k1}
    k1 = k1
    Handlers = {h1}
    h1 = h1
    Capacity = 2
    NoFrame = NoFrame
    MaxVersion = 1
SPECIFICATION FairSpec
INVARIANTS
    TypeOK
    StartsFresh
PROPERTIES
    ShowsLatest
