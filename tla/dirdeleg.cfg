SPECIFICATION Spec
CONSTANTS
  d1 = d1
  d2 = d2
  Client = {c1, c2}
  Dir = {d1, d2}
  Task = {t1, t2}
  Targets <- Renames
  Retirable = {d1}
  MaxPerClient = 1
  MaxTotal = 2
  MaxId = 2
  NoClient = NoClient
  NoState = NoState
SYMMETRY Symmetry
INVARIANTS IndexesAgree GrantsAreLimited RecallsAreWatched RetiredHoldNothing RecalledBeforeMutation
PROPERTY NoGrantDuringRecall
CHECK_DEADLOCK FALSE
