SPECIFICATION Spec
CONSTANTS
  Slot = {1}
  Conn = {c1}
  Task = {t1, t2}
  MaxRequests = 4
  SeqSpace = 3
  HasBackchannel = FALSE
  MayAbandon = TRUE
  NoRequest = NoRequest
  NoConn = NoConn
SYMMETRY Symmetry
INVARIANTS AtMostOnce BusySlotIsServed ReplyIsKept NoSequencingError
PROPERTY ImplementsExactlyOnce
CHECK_DEADLOCK FALSE
