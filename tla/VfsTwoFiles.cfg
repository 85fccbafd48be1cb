CONSTANTS
  f1 = f1
  f2 = f2
  Inode = {f1, f2}
  MaxOpenFiles = 1
  CacheClusters = 2
  ClusterWords = 2
  Capacity = 3
  WordOf <- OwnWords
  OpenFlags <- EveryMode
  Length = {1, 3}
  MaxWords = 6
  DiskFaults = FALSE
  Careless = {}
  Hole = Hole
  Absent = Absent
  Lost = Lost
SPECIFICATION Spec
INVARIANTS TypeOK NoForeignWords
PROPERTY ImplementsWordFiles
