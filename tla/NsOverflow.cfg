SPECIFICATION CommandsSpec
CONSTANTS
    LastInode = 5
    Names = {2, 3}
    PerCluster = 3
    WriteFaults = FALSE
    MaxLinks = 3
    MaxTarget = 3
    MaxDepth = 8
    PathsGiven <- PlainPaths
    LinkTargets <- NoTargets
    Descriptors = {0}
    Space = 1
    Careless = {}
    Nowhere = Nowhere
    Packed <- ZippedNames
    Commands = {}
    CommandPaths <- NoTargets
INVARIANT
    NoDanglingEntries
