SPECIFICATION CommandsSpec
CONSTANTS
    LastInode = 4
    Names = {2, 3}
    PerCluster = 4
    WriteFaults = TRUE
    MaxLinks = 3
    MaxTarget = 3
    MaxDepth = 8
    PathsGiven <- DottedPaths
    LinkTargets <- Links
    Descriptors = {0}
    Space = 3
    Careless = {"into_itself", "taken_place", "made_before"}
    Nowhere = Nowhere
    Packed <- ZippedNames
    Commands = {"cp", "mv", "touch", "mkdir", "compress", "decompress"}
    CommandPaths <- CopyPaths
INVARIANTS
    NoDanglingEntries
    OneName
    OpenFilesStay
    SpaceNeverInvented
