SPECIFICATION Spec
CONSTANTS
  NPage = 6
  KeepTop = FALSE
INVARIANT NeverTwice
CHECK_DEADLOCK FALSE
