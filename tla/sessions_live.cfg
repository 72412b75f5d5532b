SPECIFICATION FairSpec
CONSTANTS
  Slot = {1}
  Conn = {c1, c2}
  Task = {t1, t2}
  MaxRequests = 1
  SeqSpace = 3
  HasBackchannel = TRUE
  MayAbandon = FALSE
  NoRequest = NoRequest
  NoConn = NoConn
PROPERTY EventuallyAnswered
CHECK_DEADLOCK FALSE
