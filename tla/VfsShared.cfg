CONSTANTS
  f1 = f1
  f2 = f2
  Inode = {f1}
  MaxOpenFiles = 2
  CacheClusters = 1
  ClusterWords = 2
  Capacity = 1
  WordOf <- OneWord
  OpenFlags <- Truncating
  Length = {2}
  MaxWords = 3
  DiskFaults = TRUE
  Careless = {"share","seek_past_end","destroy_dirty"}
  Hole = Hole
  Absent = Absent
  Lost = Lost
SPECIFICATION FairSpec
INVARIANT NothingToFlushAstray
PROPERTY CallEnds AcceptedWordsSurvive
