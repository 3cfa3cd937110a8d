SPECIFICATION Spec
CONSTANTS
  Mm = {m1, m2}
  boot_mm = m1
  NULL = NULL
  Data = {"a", "b"}
  NFrame = 20
  NEntry = 4
  CheckFrames = 2
  CheckPages <- MCCheckPages
  Programs <- MCPrograms
  Stack <- MCStack
  StackPages <- MCStackPages
VIEW Shape
INVARIANTS FramesExact SwapListExact
PROPERTY IsAddressSpaces
CHECK_DEADLOCK FALSE
