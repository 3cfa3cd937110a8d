SPECIFICATION InterruptSpec
CONSTANTS
  Timer = {t1, t2, t3}
  MaxExpires = 3
  Reader = {r1, r2, r3}
  STDIN_BUFSIZE = 2
  MaxLen = 2
  MaxKeys = 4
INVARIANTS NobodySleepsOnData QueueOnLiveStacks InOrder
PROPERTY FiresOnTime
SYMMETRY Alike
