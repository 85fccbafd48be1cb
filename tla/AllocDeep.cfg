CONSTANTS
  TotalClusters = 8
  ReservedClusters = 1
  DirectPointers = 1
  PointersPerCluster = 2
  InodeCount = 2
  Word = {5}
  Request <- DeepRequests
  Kinds = {"regular", "directory", "symlink"}
  DiskFaults = FALSE
  Logical = {0, 4, 7}
  Hole = Hole
SPECIFICATION Spec
INVARIANT SingleOwner
PROPERTY ImplementsFileStore SuccessLosesNothing
