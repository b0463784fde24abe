SPECIFICATION FairSpec
CONSTANTS
    None = None
    c1 = c1
    c2 = c2
    c3 = c3
    Content <- Bytes
    Size <- Sizes
    ObjId <- Ids
    Stamp <- Stamps
    MaxEnv = 2
    Starts <- SomeStarts
    Options <- Safe
    Faults <- AllFaults
    SavePoints <- Saves
    OtherPoints <- Others
    Trashers = TRUE
INVARIANTS TypeOK BaseHonest
PROPERTIES NothingLost ChoiceStands Converges
CHECK_DEADLOCK FALSE
