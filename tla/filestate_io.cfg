SPECIFICATION IoSpec
CONSTANTS
  Client = {c1}
  Owner = {w1, w2}
  Object = {f}
  Byte = {1}
  Ranges <- OneByte
  Task = {t1}
  IoTask = {k1}
  IoModes = {"WRITE"}
  Shares <- TwoShares
  Ops <- AllOps
  MaxId = 3
  MaxSeq = 2
  NoClient = NoClient
  NoState = NoState
SYMMETRY Symmetry
INVARIANTS ShareReservationsHold OneOpenPerOwner LocksExclude  NothingIsCrossed 
PROPERTY StateidsAreStable
CHECK_DEADLOCK FALSE
