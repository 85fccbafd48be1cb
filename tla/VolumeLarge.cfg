CONSTANTS
  Totals <- OnlyRoomy
  BitsPerCluster = 4
  InodeCount = 6
  InodesPerCluster = 3
  Names = {"a"}
  Words = {"v"}
  Faults = {}
SPECIFICATION Spec
INVARIANT PromisesKept
