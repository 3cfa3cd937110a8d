SPECIFICATION Spec
CONSTANTS
  NPage = 9
  KeepTop = TRUE
VIEW Readable
INVARIANTS FreeListSound NoPageLost FindsRoom
