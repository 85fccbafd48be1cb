SPECIFICATION CommandsSpec
CONSTANTS
    LastInode = 4
    Names = {2, 3}
    PerCluster = 4
    WriteFaults = FALSE
    MaxLinks = 3
    MaxTarget = 3
    MaxDepth = 8
    PathsGiven <- LinkedPaths
    LinkTargets <- Links
    Descriptors = {0}
    Space = 3
    Careless = {}
    Nowhere = Nowhere
    Packed <- ZippedNames
    Commands = {}
    CommandPaths <- NoTargets
INVARIANT
    NoCycle
