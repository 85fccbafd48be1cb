CONSTANTS
  TotalClusters = 15
  ReservedClusters = 1
  DirectPointers = 1
  PointersPerCluster = 2
  InodeCount = 1
  Word = {5}
  Request <- OneWordEach
  Kinds = {"regular"}
  DiskFaults = FALSE
  DefragFaults = {"read", "write"}
  Logical = {0, 1, 2, 3}
  Hole = Hole
SPECIFICATION DefragSpec
VIEW InUse
CONSTRAINT FewLost
INVARIANTS PointersSound SingleOwner CountCoversFile
PROPERTY ImplementsFileStore LossesAccounted
