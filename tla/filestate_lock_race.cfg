SPECIFICATION Spec
CONSTANTS
  Client = {c1}
  Owner = {w1, w2}
  Object = {f}
  Byte = {1, 2}
  Ranges <- BothBytes
  Task = {t1, t2}
  Shares <- ReadWrite
  Ops <- LockOps
  MaxId = 3
  MaxSeq = 3
  NoClient = NoClient
  NoState = NoState
SYMMETRY Symmetry
INVARIANT LocksExclude
CHECK_DEADLOCK FALSE
