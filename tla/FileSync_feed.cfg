SPECIFICATION Spec
CONSTANTS
    None = None
    c1 = c1
    c2 = c2
    c3 = c3
    c4 = c4
    Content = {c1, c2, c3, c4}
    Size <- DistinctSizes
    ObjId = {o1, o2, o3}
    Stamp = {s1, s2, s3, s4, s5}
    MaxEnv = 4
    SavePoints <- BeforeScan
    RemotePoints <- Pc
    TrashPoints <- Pc
    Faults = {"crash", "lost", "probe", "recycle"}
    Modes <- Attended
    Undo = FALSE
PROPERTIES NoMissedChange
