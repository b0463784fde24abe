SPECIFICATION FairSpec
CONSTANTS
    None = None
    Folder = Folder
    Outside = Outside
    FilePath <- FewFiles
    DirPath <- FewFolders
    Limit = 3
    AutoLimit = 1
    Content = {c1, c2}
    Id = {1, 2, 3, 4, 5, 6, 7}
    Trees <- FewTrees
    Modes <- Sure
    Acts = {"save", "delete", "put", "create", "trash", "crash", "fail"}
    Rare = {"delete", "crash", "fail"}
    MaxEnv = 3
PROPERTIES Converges
