CONSTANTS
  TotalClusters = 6
  ReservedClusters = 1
  DirectPointers = 1
  PointersPerCluster = 2
  InodeCount = 2
  Word = {5}
  Request <- ShallowRequests
  Kinds = {"regular", "symlink"}
  DiskFaults = TRUE
  Logical = {0, 1, 2}
  Hole = Hole
SPECIFICATION FairSpec
INVARIANTS TypeOK PointersSound SingleOwner CursorSound
PROPERTY ImplementsFileStore
  CallReturns
