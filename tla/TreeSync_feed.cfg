SPECIFICATION Spec
CONSTANTS
    None = None
    Folder = Folder
    Outside = Outside
    FilePath <- Files
    DirPath <- Folders
    Limit = 3
    AutoLimit = 1
    Content = {c1, c2, c3}
    Id = {1, 2, 3, 4, 5, 6, 7, 8, 9}
    Trees <- TwoTrees
    Modes <- Delta
    Acts = {"save", "delete", "rename", "put", "create", "trash", "crash", "unread",
            "recycle", "fail"}
    Rare = {"unread", "recycle"}
    MaxEnv = 3
INVARIANTS NothingMissed
PROPERTIES NothingLost BulkGate
SYMMETRY SameWorth
