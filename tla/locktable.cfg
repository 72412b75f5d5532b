SPECIFICATION RangesSpec
CONSTANTS
  MaxU64 = 6
  LockType = {"READ", "WRITE"}
  NoLock = NoLock
  MaxEnd = 5
INVARIANTS RangesMeanHeld RangesAreCanonical
