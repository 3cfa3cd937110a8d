SPECIFICATION FairSpec
CONSTANTS
  Users = {u1, u2, u3}
  idleproc = idle
  initproc = init
  MAX_PROCESS = 5
  MaxSleep = 1
  Watched = {u1, init}
INVARIANTS
  TypeOK
  RunQueueExact
  EverySleeperHasAWaker
  TimerOnLiveStack
  InitAssertions
PROPERTIES
  FreedOnlyByParent
  KilledSleeperExits
  SleepsEnd
