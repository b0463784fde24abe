SPECIFICATION FairSpec
CONSTANTS
    File = {1, 3}
    Dir = 2
    d = d
    e = e
    Label <- Names
    Root = Root
    None = None
    Out = Out
    Silent = Silent
    FeedSize = 2
    ListSize = 1
    MaxItems = 2
    MaxPages = 2
    MaxRev = 4
    MaxFaults = 1
    Starts <- TwoStarts
INVARIANTS TypeOK NeverAhead
PROPERTIES Promise CatchesUp
CHECK_DEADLOCK FALSE
