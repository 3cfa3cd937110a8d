SPECIFICATION Spec
CONSTANTS
  File = {f1, f2}
  BLKSIZE = 2
  NDIRECT = 1
  System = 5
  NBlock = 3
  MaxOffset = 5
  MaxLen = 4
VIEW Readable
SYMMETRY Symmetry
INVARIANTS
  BlocksExact
  ReadsBack
PROPERTY IsFileStore
CHECK_DEADLOCK FALSE
