SPECIFICATION FairSpec
CONSTANTS
    None = None
    c1 = c1
    c2 = c2
    c3 = c3
    c4 = c4
    Content = {c1, c2, c3, c4}
    Size <- DistinctSizes
    ObjId = {o1, o2, o3}
    Stamp = {s1, s2, s3, s4, s5}
    MaxEnv = 3
    SavePoints <- NotInWindows
    RemotePoints <- BeforePut
    TrashPoints <- BeforePut
    Faults <- AllFaults
    Modes <- FullAttended
    Undo = FALSE
PROPERTIES Convergence
