SPECIFICATION FairSpec
CONSTANTS
  Users = {u1, u2}
  idleproc = idle
  initproc = init
  MAX_PROCESS = 4
  MaxSleep = 1
  Watched = {}
PROPERTY KilledExits
