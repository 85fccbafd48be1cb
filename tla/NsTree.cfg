SPECIFICATION CommandsSpec
CONSTANTS
    LastInode = 6
    Names = {2, 3}
    PerCluster = 4
    WriteFaults = FALSE
    MaxLinks = 3
    MaxTarget = 3
    MaxDepth = 8
    PathsGiven <- TreePaths
    LinkTargets <- NoTargets
    Descriptors = {0}
    Space = 2
    Careless = {}
    Nowhere = Nowhere
    Packed <- ZippedNames
    Commands = {"mkdir", "touch", "echo", "import", "compress", "decompress", "cp", "mv", "rmdir"}
    CommandPaths <- CmdPaths
INVARIANTS
    TypeOK
    DotDotIsParent
    NothingLost
    CopyComplete
PROPERTY
    ImplementsNameTree
    CommandEnds
