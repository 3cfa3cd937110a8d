SPECIFICATION FairSpec
CONSTANTS
  N = 4
  TIMES = 2
INVARIANTS
  DownNotInterrupted
  OneInMonitor
  NeighboursDoNotEat
  SignalledStillEats
PROPERTIES
  IsCountingSem
  EverybodyQuits
