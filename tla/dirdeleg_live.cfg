SPECIFICATION FairSpec
CONSTANTS
  d1 = d1
  d2 = d2
  Client = {c1, c2}
  Dir = {d1}
  Task = {t1, t2}
  Targets <- OneDir
  Retirable = {}
  MaxPerClient = 1
  MaxTotal = 2
  MaxId = 2
  NoClient = NoClient
  NoState = NoState
PROPERTY MutationsProceed
CHECK_DEADLOCK FALSE
