SPECIFICATION TableFairSpec
CONSTANTS
  Users = {u1, u2, u3}
  initproc = init
  NULL = NULL
  MAX_PROCESS = 5
  MAX_PID = 6
INVARIANTS DoublyLinked KidsExact PidNamesOneProcess
PROPERTY Terminates
