SPECIFICATION Spec
CONSTANTS
  Thread = {init, t1, t2}
  initproc = init
  Node = {n1, n2}
  Ino = {i1}
  fs_sem = fs
  Sem = {n1, n2, fs}
  none = none
  Fd = {2, 3}
  MaxLeak = 1
  Watched = {}
INVARIANT DirtyIfModified
CHECK_DEADLOCK FALSE
