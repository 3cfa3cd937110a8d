SPECIFICATION FairSpec
CONSTANTS
  Proc = {p1, p2, p3}
  idleproc = idle
  MAX_TIME_SLICE = 1
  NULL = null
  Mod = 8
  BIG_STRIDE = 2
  InitStride = {6}
  Priority = {1, 2, 3}
  Sleepers = {}
INVARIANT OnePlace
PROPERTIES NoOvertaking IsSchedClass MinimumWhileAwake NobodyStarves
