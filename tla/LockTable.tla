------------------------------ MODULE LockTable ------------------------------
(***************************************************************************)
(* The range list of one lock stateid (LockFileState.ranges) under LOCK    *)
(* and LOCKU requests, next to what it should mean: the type of lock held  *)
(* on every byte.                                                          *)
(***************************************************************************)
EXTENDS LockRanges, Sequences, FiniteSets

CONSTANTS LockType, NoLock,
          MaxEnd     \* bound: no request names a byte from here on, except by
                     \* locking to the end of the file; MaxU64 in the code

ASSUME LockTableAssumption ==
    /\ MaxEnd \in U64
    /\ NoLock \notin LockType

VARIABLES ranges,   \* the Vec<LockRange>
          held      \* the lock type of each byte, by the meaning of the requests

Requested(o, n) ==
    /\ ValidBounds(o, n)
    /\ o <= MaxEnd /\ (n # MaxU64 => o + n <= MaxEnd)

RangesInit ==
    \E k \in LockType, o, n \in U64 :
      /\ Requested(o, n)
      /\ ranges = <<[locktype |-> k, offset |-> o, length |-> n]>>
      /\ held = [b \in U64 |-> IF Covers(o, n, b) THEN k ELSE NoLock]

\* What is left of a range around a replaced or unlocked one.
Left(r, offset) ==
    IF BoundsNonempty(r.offset, offset)
    THEN <<range_from_bounds(r.locktype, r.offset, offset)>> ELSE <<>>
\* Mutant: what lies behind the replaced range is lost.
RightLost(r, end) == <<>>

Right(r, end) ==
    IF end # Infinity /\ BoundsNonempty(end, lock_end(r.offset, r.length))
    THEN <<range_from_bounds(r.locktype, end, lock_end(r.offset, r.length))>> ELSE <<>>

Kept(r, offset, length) ==
    IF ~locks_overlap(r.offset, r.length, offset, length) THEN <<r>>
    ELSE Left(r, offset) \o Right(r, lock_end(offset, length))

\* The loop that replace_lock_range and unlock_state share.
Carve(list, offset, length) ==
    LET next_ranges[n \in 0..Len(list)] ==
          IF n = 0 THEN <<>> ELSE next_ranges[n - 1] \o Kept(list[n], offset, length)
    IN next_ranges[Len(list)]

\* Mutant: adjacent ranges are not merged.
MergeOverlapping(acc, r) ==
    LET last == acc[Len(acc)]
        last_end == lock_end(last.offset, last.length)
        end == lock_end(r.offset, r.length)
    IN IF acc # <<>> /\ last.locktype = r.locktype /\ last_end > r.offset
       THEN [acc EXCEPT ![Len(acc)] =
               range_from_bounds(last.locktype, last.offset,
                                 IF last_end >= end THEN last_end ELSE end)]
       ELSE Append(acc, r)

\* One step of normalize_lock_ranges: merge a range into the last one when the
\* types agree and it starts no later than the last one ends.
MergeInto(acc, r) ==
    LET last == acc[Len(acc)]
        last_end == lock_end(last.offset, last.length)
        end == lock_end(r.offset, r.length)
    IN IF acc # <<>> /\ last.locktype = r.locktype /\ last_end >= r.offset
       THEN [acc EXCEPT ![Len(acc)] =
               range_from_bounds(last.locktype, last.offset,
                                 IF last_end >= end THEN last_end ELSE end)]
       ELSE Append(acc, r)

\* ranges.sort_by_key: a stable sort.
Before(list, i) ==
    {j \in DOMAIN list : \/ list[j].offset < list[i].offset
                         \/ list[j].offset = list[i].offset /\ j < i}
SortByOffset(list) ==
    [k \in DOMAIN list |-> list[CHOOSE i \in DOMAIN list : Cardinality(Before(list, i)) = k - 1]]

normalize_lock_ranges(list) ==
    LET sorted == SortByOffset(list)
        normalized[n \in 0..Len(list)] ==
          IF n = 0 THEN <<>> ELSE MergeInto(normalized[n - 1], sorted[n])
    IN normalized[Len(list)]

replace_lock_range(list, r) ==
    normalize_lock_ranges(Append(Carve(list, r.offset, r.length), r))

\* update_lock_state.
Lock(k, o, n) ==
    /\ Requested(o, n)
    /\ ranges' = replace_lock_range(ranges, [locktype |-> k, offset |-> o, length |-> n])
    /\ held' = [b \in U64 |-> IF Covers(o, n, b) THEN k ELSE held[b]]

\* unlock_state: the list is not normalised again, and not touched at all when
\* nothing overlaps.
Unlock(o, n) ==
    /\ Requested(o, n)
    /\ ranges' = Carve(ranges, o, n)
    /\ held' = [b \in U64 |-> IF Covers(o, n, b) THEN NoLock ELSE held[b]]

RangesNext == \E o, n \in U64 : Unlock(o, n) \/ \E k \in LockType : Lock(k, o, n)

RangesSpec == RangesInit /\ [][RangesNext]_<<ranges, held>>

-----------------------------------------------------------------------------
\* The type a byte has in a list of disjoint ranges.
TypeAt(list, b) ==
    IF \E i \in DOMAIN list : Covers(list[i].offset, list[i].length, b)
    THEN list[CHOOSE i \in DOMAIN list : Covers(list[i].offset, list[i].length, b)].locktype
    ELSE NoLock

\* The list means what the requests asked for, byte by byte.
RangesMeanHeld == \A b \in U64 : TypeAt(ranges, b) = held[b]

\* The list is canonical: sorted, disjoint, no empty range, and never two ranges
\* of one type where one would do (normalize_lock_ranges, and unlock_state, which
\* does not normalise and relies on it).
RangesAreCanonical ==
    /\ ranges \in Seq(LockRange(LockType))
    /\ \A i \in DOMAIN ranges : ranges[i].length # 0
    /\ \A i \in 1..(Len(ranges) - 1) :
         LET r == ranges[i]  s == ranges[i + 1] IN
         /\ lock_end(r.offset, r.length) <= s.offset
         /\ r.locktype = s.locktype => lock_end(r.offset, r.length) < s.offset

\* A client that has unlocked every byte it locked holds no lock: the state is
\* inactive (LockFileState.active) and CLOSE goes through.
UnlockedIsInactive == (\A b \in U64 : held[b] = NoLock) => ranges = <<>>
=============================================================================
