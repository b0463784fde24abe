SPECIFICATION Spec
CONSTANTS
    None = None
    c1 = c1
    c2 = c2
    c3 = c3
    c4 = c4
    Content = {c1, c2, c3, c4}
    Size <- Sizes
    ObjId = {o1, o2, o3}
    Stamp = {s1, s2, s3, s4, s5}
    MaxEnv = 3
    SavePoints <- BeforeScan
    RemotePoints <- BeforeWalk
    TrashPoints <- BeforeWalk
    Faults <- AllButHash
    Modes <- AllModes
    Undo = TRUE
PROPERTIES TrashOnlySeen NoFakeConflict
SYMMETRY SameSize
