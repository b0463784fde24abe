SPECIFICATION Spec
CONSTANTS
    None = None
    Folder = Folder
    Outside = Outside
    FilePath <- Files
    DirPath <- Folders
    Limit = 3
    AutoLimit = 1
    Content = {c1, c2, c3}
    Id = {1, 2, 3, 4, 5, 6, 7, 8, 9}
    Trees <- TwoTrees
    Modes <- Full
    Acts = {"save", "delete", "rename", "put", "create", "trash", "move", "movedir", "out",
            "crash", "unread", "unobs", "recycle", "fail"}
    Rare = {"out", "unread", "unobs", "recycle"}
    MaxEnv = 3
INVARIANTS TypeOK BaseSoundTree
PROPERTIES NothingLost TrashOnlyHeld
SYMMETRY SameWorth
