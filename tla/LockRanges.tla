----------------------------- MODULE LockRanges -----------------------------
(***************************************************************************)
(* The arithmetic of byte-range locks, session/locks.rs.  Offsets and      *)
(* lengths are u64; ends are computed in u128, where u128::MAX is the end  *)
(* of a lock that reaches to the end of the file.                          *)
(***************************************************************************)
EXTENDS Naturals

CONSTANT MaxU64        \* u64::MAX

ASSUME MaxU64Assumption == MaxU64 \in Nat \ {0}

U64 == 0..MaxU64
Infinity == 2 * MaxU64 + 1     \* u128::MAX: above every sum of two u64

lock_end(offset, length) == IF length = MaxU64 THEN Infinity ELSE offset + length

locks_overlap(a_offset, a_length, b_offset, b_length) ==
    /\ a_offset < lock_end(b_offset, b_length)
    /\ b_offset < lock_end(a_offset, a_length)

\* validate_lock_bounds: not empty, and no further than the last u64.
ValidBounds(offset, length) ==
    length # 0 /\ (length # MaxU64 => offset + length <= MaxU64)

\* range_from_bounds yields no range when start >= end.
BoundsNonempty(start, end) == start < end
range_from_bounds(locktype, start, end) ==
    [locktype |-> locktype, offset |-> start,
     length |-> IF end = Infinity THEN MaxU64 ELSE end - start]

LockRange(LockType) == [locktype : LockType, offset : U64, length : U64]

\* The bytes a range stands for.
Covers(offset, length, b) == offset <= b /\ b < lock_end(offset, length)
=============================================================================
