CONSTANTS
  Totals <- SmallToRoomy
  BitsPerCluster = 8
  InodeCount = 6
  InodesPerCluster = 3
  Names = {"a", "b"}
  Words = {"v", "w"}
  Faults = {"crash", "read", "write"}
SPECIFICATION Spec
INVARIANTS TypeOK PromisesKept MetadataAgree
