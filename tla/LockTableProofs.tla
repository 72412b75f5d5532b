-------------------------- MODULE LockTableProofs --------------------------
(***************************************************************************)
(* Proofs about the range list of a lock stateid, for any number of LOCK   *)
(* and LOCKU requests and offsets of any size: the list means what was     *)
(* asked for, and stays sorted, disjoint and merged.                       *)
(***************************************************************************)
EXTENDS LockTable, FiniteSetTheorems, SequenceTheorems, TLAPS

-----------------------------------------------------------------------------
(* Loops over a list.                                                       *)

\* A set of numbers that is not empty has a least one.
LEMMA LeastNat ==
    ASSUME NEW T \in SUBSET Nat, T # {}
    PROVE  \E m \in T : \A k \in T : m <= k
<1>1. PICK R : R = OpToRel(<, Nat)
  BY Zenon
<1>2. \A x, y \in Nat : x < y => <<x, y>> \in R
  BY ZenonT(30), <1>1 DEF OpToRel
<1>3. IsWellFoundedOn(R, Nat)
  BY <1>1, NatLessThanWellFounded, Zenon
<1>4. PICK m \in T : \A y \in T : <<y, m>> \notin R
  BY ZenonT(30), <1>3, WFMin
<1>5. \A k \in T : m \in Nat /\ k \in Nat /\ ~(k < m)
  BY ZenonT(30), <1>2, <1>4
<1> QED BY <1>5

\* Induction up to N.
LEMMA UpTo ==
    ASSUME NEW N \in Nat, NEW T, 0 \in T, \A m \in 1..N : m - 1 \in T => m \in T
    PROVE  0..N \subseteq T
<1> DEFINE U == {k \in 0..N : k \notin T}
<1> SUFFICES ASSUME U # {} PROVE FALSE
  BY ZenonT(30)
<1>1. U \in SUBSET Nat
  OBVIOUS
<1>2. PICK m \in U : \A k \in U : m <= k
  BY ZenonT(30), <1>1, LeastNat
<1>3. m \in 1..N /\ m - 1 \in 0..N /\ ~(m <= m - 1)
  BY <1>2
<1>4. m - 1 \in T
  BY ZenonT(30), <1>2, <1>3
<1> QED BY ZenonT(30), <1>2, <1>3, <1>4

\* A loop over N elements that stays in S has a value after each of them.
Loops(S, a, N, g) ==
    \E f \in [0..N -> S] : f[0] = a /\ \A n \in 1..N : f[n] = g[<<n, f[n - 1]>>]

LEMMA LoopExists ==
    ASSUME NEW S, NEW a \in S, NEW N \in Nat, NEW g \in [(1..N) \X S -> S]
    PROVE  Loops(S, a, N, g)
<1> DEFINE Runs(k, f) == f \in [0..k -> S] /\ f[0] = a /\ \A n \in 1..k : f[n] = g[<<n, f[n - 1]>>]
           T == {k \in 0..N : \E f : Runs(k, f)}
<1>1. 0 \in T
  <2>1. PICK f : f = [k \in 0..0 |-> a]
    BY ZenonT(30)
  <2>2. Runs(0, f)
    BY <2>1
  <2> QED BY <2>2
<1>2. ASSUME NEW m \in 1..N, m - 1 \in T
      PROVE  m \in T
  <2>1. PICK f : Runs(m - 1, f)
    BY ZenonT(30), <1>2
  <2>2. PICK new : new = g[<<m, f[m - 1]>>] /\ new \in S
    <3>1. m - 1 \in 0..(m - 1)
      OBVIOUS
    <3> QED BY ZenonT(30), <2>1, <3>1
  <2>3. PICK h : h = [k \in 0..m |-> IF k = m THEN new ELSE f[k]]
    BY ZenonT(30)
  <2>4. h \in [0..m -> S] /\ h[0] = a
    BY <2>1, <2>2, <2>3
  <2>5. ASSUME NEW n \in 1..m
        PROVE  h[n] = g[<<n, h[n - 1]>>]
    <3>1. n - 1 \in 0..m /\ n - 1 # m /\ n \in 0..m
      OBVIOUS
    <3>2. h[n - 1] = f[n - 1]
      BY ZenonT(30), <2>3, <3>1
    <3>3. CASE n = m
      BY ZenonT(30), <2>2, <2>3, <3>1, <3>2, <3>3
    <3>4. CASE n # m
      <4>1. n \in 1..(m - 1)
        BY <3>4
      <4> QED BY ZenonT(30), <2>1, <2>3, <3>1, <3>2, <3>4, <4>1
    <3> QED BY ZenonT(30), <3>3, <3>4
  <2>6. Runs(m, h)
    BY ZenonT(30), <2>4, <2>5
  <2> QED BY <2>6
<1> HIDE DEF T
<1>3. N \in T
  <2>1. 0..N \subseteq T
    BY ZenonT(30), <1>1, <1>2, UpTo
  <2> QED BY <2>1
<1> QED BY ZenonT(30), <1>3 DEF T, Loops

-----------------------------------------------------------------------------
(* Ranges.                                                                  *)

\* No request ends at the last byte of all.
BelowLimit == MaxEnd < MaxU64

EndOf(r) == lock_end(r.offset, r.length)

Fit(r) ==
    /\ r \in LockRange(LockType)
    /\ r.length # 0 /\ r.offset <= MaxEnd
    /\ r.length # MaxU64 => r.offset + r.length <= MaxEnd

On(r, b) == r.offset <= b /\ b < EndOf(r)

\* Where the ranges that requests name below the limit begin and end.
LEMMA Bounds ==
    ASSUME BelowLimit
    PROVE  /\ MaxEnd \in Nat /\ MaxU64 \in Nat /\ Infinity \in Nat /\ MaxU64 < Infinity
           /\ \A r : Fit(r) =>
                /\ r.offset \in Nat /\ r.offset <= MaxEnd /\ r.locktype \in LockType
                /\ EndOf(r) \in Nat /\ r.offset < EndOf(r)
                /\ EndOf(r) = Infinity \/ EndOf(r) <= MaxEnd
<1>1. MaxEnd \in Nat /\ MaxU64 \in Nat /\ Infinity \in Nat /\ MaxU64 < Infinity
  BY MaxU64Assumption, LockTableAssumption DEF U64, Infinity
<1>2. ASSUME NEW r, Fit(r)
      PROVE  /\ r.offset \in Nat /\ r.offset <= MaxEnd /\ r.locktype \in LockType
             /\ EndOf(r) \in Nat /\ r.offset < EndOf(r)
             /\ EndOf(r) = Infinity \/ EndOf(r) <= MaxEnd
  <2>1. r.offset \in Nat /\ r.length \in Nat /\ r.locktype \in LockType
    BY <1>1, <1>2 DEF Fit, LockRange, U64
  <2> QED BY <1>1, <1>2, <2>1 DEF Fit, EndOf, lock_end, BelowLimit
<1> QED BY ZenonT(30), <1>1, <1>2

\* range_from_bounds, between two such bounds.
LEMMA FromBounds ==
    ASSUME BelowLimit, NEW k \in LockType, NEW start \in 0..MaxEnd, NEW end \in Nat,
           start < end, end = Infinity \/ end <= MaxEnd
    PROVE  LET r == range_from_bounds(k, start, end) IN
           Fit(r) /\ r.locktype = k /\ r.offset = start /\ EndOf(r) = end
<1>1. MaxEnd \in Nat /\ MaxU64 \in Nat /\ Infinity \in Nat /\ MaxU64 < Infinity
  BY ZenonT(30), Bounds
<1>2. PICK len : len = IF end = Infinity THEN MaxU64 ELSE end - start
  BY ZenonT(30)
<1>3. /\ len \in U64 /\ len # 0 /\ start \in U64
      /\ len # MaxU64 => end # Infinity /\ start + len = end /\ end <= MaxEnd
      /\ len = MaxU64 => end = Infinity
  BY <1>1, <1>2 DEF U64, BelowLimit
<1>4. range_from_bounds(k, start, end) = [locktype |-> k, offset |-> start, length |-> len]
  BY ZenonT(30), <1>2 DEF range_from_bounds
<1> QED BY <1>1, <1>3, <1>4 DEF Fit, LockRange, EndOf, lock_end

\* r comes before s, and they could not be one.
Apart(r, s) ==
    EndOf(r) <= s.offset /\ (r.locktype = s.locktype => EndOf(r) < s.offset)

Lists == {s \in Seq(LockRange(LockType)) : \A i \in 1..Len(s) : Fit(s[i])}

Neat(s) == s \in Lists /\ \A i, j \in 1..Len(s) : i < j => Apart(s[i], s[j])

\* The list s means h, byte by byte.
Means(s, h) ==
    \A b \in U64 :
      /\ \A i \in 1..Len(s) : On(s[i], b) => h[b] = s[i].locktype
      /\ h[b] # NoLock => \E i \in 1..Len(s) : On(s[i], b)

\* The elements of two lists, one after the other.
LEMMA ConcatParts ==
    ASSUME NEW s \in Lists, NEW t \in Lists
    PROVE  /\ s \o t \in Lists /\ Len(s \o t) = Len(s) + Len(t)
           /\ \A i \in 1..Len(s) : (s \o t)[i] = s[i] /\ i \in 1..Len(s \o t)
           /\ \A i \in 1..Len(t) :
                (s \o t)[Len(s) + i] = t[i] /\ Len(s) + i \in 1..Len(s \o t)
           /\ \A i \in 1..Len(s \o t) : ~(i \in 1..Len(s)) =>
                i - Len(s) \in 1..Len(t) /\ (s \o t)[i] = t[i - Len(s)]
<1>1. s \in Seq(LockRange(LockType)) /\ t \in Seq(LockRange(LockType))
  BY ZenonT(30) DEF Lists
<1>2. /\ s \o t \in Seq(LockRange(LockType)) /\ Len(s) \in Nat /\ Len(t) \in Nat
      /\ Len(s \o t) = Len(s) + Len(t)
      /\ \A i \in 1..Len(s) + Len(t) :
           (s \o t)[i] = IF i <= Len(s) THEN s[i] ELSE t[i - Len(s)]
  BY ZenonT(30), <1>1, ConcatProperties, LenProperties
<1> HIDE DEF Lists
<1>3. \A i \in 1..Len(s) : (s \o t)[i] = s[i] /\ i \in 1..Len(s \o t)
  BY <1>2
<1>4. ASSUME NEW i \in 1..Len(t)
      PROVE  (s \o t)[Len(s) + i] = t[i] /\ Len(s) + i \in 1..Len(s \o t)
  <2>1. Len(s) + i \in 1..Len(s) + Len(t) /\ ~(Len(s) + i <= Len(s)) /\ Len(s) + i - Len(s) = i
    BY <1>2
  <2> QED BY <1>2, <2>1
<1>5. \A i \in 1..Len(s \o t) : ~(i \in 1..Len(s)) =>
                i - Len(s) \in 1..Len(t) /\ (s \o t)[i] = t[i - Len(s)]
  BY <1>2
<1>6. \A i \in 1..Len(s \o t) : Fit((s \o t)[i])
  BY ZenonT(30), <1>2, <1>3, <1>5 DEF Lists
<1> QED BY ZenonT(30), <1>2, <1>3, <1>4, <1>5, <1>6 DEF Lists

\* Two neat lists make one if they are apart.
LEMMA ConcatNeat ==
    ASSUME NEW s, NEW t, Neat(s), Neat(t),
           \A i \in 1..Len(s), j \in 1..Len(t) : Apart(s[i], t[j])
    PROVE  Neat(s \o t)
<1>1. s \in Lists /\ t \in Lists /\ Len(s) \in Nat /\ Len(t) \in Nat
  BY ZenonT(30), LenProperties DEF Neat, Lists
<1>2. ASSUME NEW i \in 1..Len(s \o t), NEW j \in 1..Len(s \o t), i < j
      PROVE  Apart((s \o t)[i], (s \o t)[j])
  <2>1. Len(s \o t) = Len(s) + Len(t)
    BY ZenonT(30), <1>1, ConcatParts
  <2>2. CASE j \in 1..Len(s)
    <3>1. i \in 1..Len(s)
      BY <1>2, <2>2
    <3> QED BY ZenonT(30), <1>1, <1>2, <2>2, <3>1, ConcatParts DEF Neat
  <2>3. CASE i \in 1..Len(s) /\ ~(j \in 1..Len(s))
    <3>1. (s \o t)[i] = s[i] /\ j - Len(s) \in 1..Len(t) /\ (s \o t)[j] = t[j - Len(s)]
      BY ZenonT(30), <1>1, <2>3, ConcatParts
    <3> QED BY ZenonT(30), <2>3, <3>1
  <2>4. CASE ~(i \in 1..Len(s)) /\ ~(j \in 1..Len(s))
    <3>1. /\ i - Len(s) \in 1..Len(t) /\ (s \o t)[i] = t[i - Len(s)]
          /\ j - Len(s) \in 1..Len(t) /\ (s \o t)[j] = t[j - Len(s)]
      BY ZenonT(30), <1>1, <2>4, ConcatParts
    <3>2. i - Len(s) < j - Len(s)
      BY <1>1, <1>2
    <3> QED BY ZenonT(30), <3>1, <3>2 DEF Neat
  <2>5. i \in 1..Len(s) \/ ~(i \in 1..Len(s))
    BY ZenonT(30)
  <2> QED BY ZenonT(30), <2>2, <2>3, <2>4
<1> QED BY ZenonT(30), <1>1, <1>2, ConcatParts DEF Neat

-----------------------------------------------------------------------------
(* Carving.                                                                 *)

\* p is what is left of r, on one side of the bytes o to lock_end(o, n).
Piece(p, r, o, n) ==
    /\ Fit(p) /\ p.locktype = r.locktype
    /\ r.offset <= p.offset /\ EndOf(p) <= EndOf(r)
    /\ EndOf(p) <= o \/ lock_end(o, n) <= p.offset

\* Where a request begins and ends.
LEMMA RequestBounds ==
    ASSUME BelowLimit, NEW o \in U64, NEW n \in U64, Requested(o, n)
    PROVE  /\ o \in 0..MaxEnd /\ lock_end(o, n) \in Nat /\ o < lock_end(o, n)
           /\ lock_end(o, n) = Infinity \/ lock_end(o, n) <= MaxEnd
<1>1. MaxEnd \in Nat /\ MaxU64 \in Nat /\ Infinity \in Nat /\ MaxU64 < Infinity
  BY ZenonT(30), Bounds
<1> QED BY <1>1 DEF Requested, ValidBounds, lock_end, U64, BelowLimit

\* Lists of no and of one range.
LEMMA ShortLists ==
    ASSUME NEW r, Fit(r)
    PROVE  Neat(<<r>>) /\ Neat(<<>>)
<1>1. r \in LockRange(LockType)
  BY ZenonT(30) DEF Fit
<1> QED BY <1>1 DEF Neat, Lists

\* What the loop keeps of one range.
LEMMA KeptPieces ==
    ASSUME BelowLimit, NEW o \in U64, NEW n \in U64, Requested(o, n), NEW r, Fit(r)
    PROVE  LET k == Kept(r, o, n) IN
           /\ Neat(k)
           /\ \A i \in 1..Len(k) : Piece(k[i], r, o, n)
           /\ \A b \in U64 : On(r, b) /\ ~Covers(o, n, b) => \E i \in 1..Len(k) : On(k[i], b)
<1> DEFINE k == Kept(r, o, n)
<1>1. PICK e : e = lock_end(o, n)
  BY ZenonT(30)
<1>2. /\ o \in 0..MaxEnd /\ e \in Nat /\ o < e /\ (e = Infinity \/ e <= MaxEnd)
      /\ MaxEnd \in Nat /\ MaxEnd < Infinity /\ Infinity \in Nat
  BY <1>1, RequestBounds, Bounds DEF BelowLimit
<1>3. /\ r.offset \in 0..MaxEnd /\ r.locktype \in LockType
      /\ EndOf(r) \in Nat /\ r.offset < EndOf(r)
      /\ EndOf(r) = Infinity \/ EndOf(r) <= MaxEnd
  BY Bounds
<1>4. CASE ~(r.offset < e /\ o < EndOf(r))
  <2>1. k = <<r>>
    BY ZenonT(30), <1>1, <1>4 DEF Kept, locks_overlap, EndOf
  <2>2. Len(<<r>>) = 1 /\ <<r>>[1] = r
    BY ZenonT(30)
  <2>3. Piece(r, r, o, n)
    BY <1>1, <1>2, <1>3, <1>4 DEF Piece
  <2> QED BY <2>1, <2>2, <2>3, ShortLists
<1>5. CASE r.offset < e /\ o < EndOf(r)
  <2>1. PICK left, right :
           /\ left = range_from_bounds(r.locktype, r.offset, o)
           /\ right = range_from_bounds(r.locktype, e, EndOf(r))
    BY ZenonT(30)
  <2>2. k = (IF r.offset < o THEN <<left>> ELSE <<>>)
              \o (IF e # Infinity /\ e < EndOf(r) THEN <<right>> ELSE <<>>)
    BY ZenonT(30), <1>1, <1>5, <2>1 DEF Kept, locks_overlap, EndOf, Left, Right, BoundsNonempty
  <2>3. ASSUME r.offset < o
        PROVE  /\ Fit(left) /\ left.locktype = r.locktype
               /\ left.offset = r.offset /\ EndOf(left) = o
    BY <1>2, <1>3, <2>1, <2>3, FromBounds
  <2>4. ASSUME e # Infinity, e < EndOf(r)
        PROVE  /\ Fit(right) /\ right.locktype = r.locktype
               /\ right.offset = e /\ EndOf(right) = EndOf(r)
    BY <1>2, <1>3, <2>1, <2>4, FromBounds
  <2>5. r.offset < o => Piece(left, r, o, n)
    BY <1>2, <1>3, <1>5, <2>3 DEF Piece
  <2>6. e # Infinity /\ e < EndOf(r) => Piece(right, r, o, n)
    BY <1>1, <1>2, <1>3, <1>5, <2>4 DEF Piece
  <2>7. ASSUME NEW b \in U64, On(r, b), ~Covers(o, n, b)
        PROVE  \/ r.offset < o /\ On(left, b)
               \/ e # Infinity /\ e < EndOf(r) /\ On(right, b)
    <3>1. b \in Nat /\ (b < o \/ e <= b) /\ r.offset <= b /\ b < EndOf(r) /\ b < Infinity
      BY <1>1, <1>2, <2>7, Bounds DEF U64, On, Covers
    <3> QED BY <1>2, <1>3, <2>3, <2>4, <3>1 DEF On
  <2> HIDE DEF k
  <2>8. CASE r.offset < o /\ e # Infinity /\ e < EndOf(r)
    <3>1. PICK s, t : s = <<left>> /\ t = <<right>> /\ k = s \o t
      BY ZenonT(30), <2>2, <2>8
    <3>2. /\ Neat(s) /\ Len(s) = 1 /\ s[1] = left
          /\ Neat(t) /\ Len(t) = 1 /\ t[1] = right
      BY ZenonT(30), <2>3, <2>4, <2>8, <3>1, ShortLists
    <3>3. Neat(k) /\ Len(k) = 2 /\ k[1] = left /\ k[2] = right
      <4>1. Apart(left, right)
        BY <1>2, <2>3, <2>4, <2>8 DEF Apart
      <4>2. \A i \in 1..Len(s), j \in 1..Len(t) : Apart(s[i], t[j])
        BY <3>2, <4>1
      <4>3. Neat(s \o t)
        BY ZenonT(30), <3>2, <4>2, ConcatNeat
      <4>4. s \in Lists /\ t \in Lists
        BY ZenonT(30), <3>2 DEF Neat
      <4>5. /\ Len(s \o t) = Len(s) + Len(t)
            /\ \A i \in 1..Len(s) : (s \o t)[i] = s[i]
            /\ \A i \in 1..Len(t) : (s \o t)[Len(s) + i] = t[i]
        BY ZenonT(30), <4>4, ConcatParts
      <4> QED BY <3>1, <3>2, <4>3, <4>5
    <3>4. \A i \in 1..Len(k) : k[i] = left \/ k[i] = right
      BY <3>3
    <3>5. \A i \in 1..Len(k) : Piece(k[i], r, o, n)
      BY ZenonT(30), <2>5, <2>6, <2>8, <3>4
    <3>6. \A b \in U64 : On(r, b) /\ ~Covers(o, n, b) => On(k[1], b) \/ On(k[2], b)
      BY ZenonT(30), <2>7, <3>3
    <3>7. 1 \in 1..Len(k) /\ 2 \in 1..Len(k)
      BY <3>3
    <3> QED BY <3>3, <3>5, <3>6, <3>7, Zenon DEF k
  <2>9. CASE r.offset < o /\ ~(e # Infinity /\ e < EndOf(r))
    <3>1. k = <<left>> /\ Len(k) = 1 /\ k[1] = left
      <4>1. k = <<left>> \o <<>>
        BY ZenonT(30), <2>2, <2>9
      <4>2. <<left>> \o <<>> = <<left>>
        OBVIOUS
      <4> QED BY <4>1, <4>2
    <3>2. Neat(k)
      BY ZenonT(30), <2>3, <2>9, <3>1, ShortLists
    <3>3. \A i \in 1..Len(k) : k[i] = left
      BY <3>1
    <3>4. 1 \in 1..Len(k)
      BY <3>1
    <3> QED BY <2>5, <2>7, <2>9, <3>1, <3>2, <3>3, <3>4, Zenon DEF k
  <2>10. CASE ~(r.offset < o) /\ e # Infinity /\ e < EndOf(r)
    <3>1. k = <<right>> /\ Len(k) = 1 /\ k[1] = right
      BY <2>2, <2>10
    <3>2. Neat(k)
      BY ZenonT(30), <2>4, <2>10, <3>1, ShortLists
    <3> QED BY <2>6, <2>7, <2>10, <3>1, <3>2 DEF k
  <2>11. CASE ~(r.offset < o) /\ ~(e # Infinity /\ e < EndOf(r))
    <3>1. k = <<>> /\ Len(k) = 0
      BY <2>2, <2>11
    <3>2. Neat(k)
      BY ZenonT(30), <3>1, ShortLists
    <3> QED BY <2>7, <2>11, <3>1, <3>2 DEF k
  <2> QED BY ZenonT(30), <2>8, <2>9, <2>10, <2>11
<1> QED BY ZenonT(30), <1>4, <1>5

\* What replace_lock_range and unlock_state take out of a list.
LEMMA CarveResult ==
    ASSUME BelowLimit, NEW o \in U64, NEW n \in U64, Requested(o, n), NEW list, Neat(list)
    PROVE  LET c == Carve(list, o, n) IN
           /\ Neat(c)
           /\ \A i \in 1..Len(c) : \E j \in 1..Len(list) : Piece(c[i], list[j], o, n)
           /\ \A b \in U64, j \in 1..Len(list) :
                On(list[j], b) /\ ~Covers(o, n, b) => \E i \in 1..Len(c) : On(c[i], b)
<1> DEFINE N == Len(list)
<1>1. /\ N \in Nat /\ \A m \in 1..N : Fit(list[m])
      /\ \A i, j \in 1..N : i < j => Apart(list[i], list[j])
  BY ZenonT(30), LenProperties DEF Neat, Lists
<1> HIDE DEF N
<1>2. PICK kept : kept = [m \in 1..N |-> Kept(list[m], o, n)]
  BY ZenonT(30)
<1>3. \A m \in 1..N :
        /\ Neat(kept[m])
        /\ \A i \in 1..Len(kept[m]) : Piece(kept[m][i], list[m], o, n)
        /\ \A b \in U64 : On(list[m], b) /\ ~Covers(o, n, b)
                            => \E i \in 1..Len(kept[m]) : On(kept[m][i], b)
  <2> TAKE m \in 1..N
  <2>1. kept[m] = Kept(list[m], o, n)
    BY ZenonT(30), <1>2
  <2> QED BY ZenonT(30), <1>1, <2>1, KeptPieces
<1>4. <<>> \in Lists
  BY DEF Lists
<1>5. \E f : f = [m \in 0..N |-> IF m = 0 THEN <<>> ELSE f[m - 1] \o Kept(list[m], o, n)]
  <2>1. PICK g : g = [x \in (1..N) \X Lists |-> x[2] \o kept[x[1]]]
    BY ZenonT(30)
  <2>2. \A m \in 1..N, x \in Lists : g[<<m, x>>] = x \o kept[m] /\ g[<<m, x>>] \in Lists
    <3> TAKE m \in 1..N, x \in Lists
    <3>1. g[<<m, x>>] = x \o kept[m]
      BY ZenonT(30), <2>1
    <3>2. kept[m] \in Lists
      BY ZenonT(30), <1>3 DEF Neat
    <3> QED BY ZenonT(30), <3>1, <3>2, ConcatParts
  <2>3. PICK f \in [0..N -> Lists] : f[0] = <<>> /\ \A m \in 1..N : f[m] = g[<<m, f[m - 1]>>]
    <3>1. g \in [(1..N) \X Lists -> Lists]
      BY ZenonT(30), <2>1, <2>2
    <3>2. PICK a \in Lists : a = <<>>
      BY ZenonT(30), <1>4
    <3>3. Loops(Lists, a, N, g)
      BY ZenonT(30), <1>1, <3>1, LoopExists
    <3> QED BY ZenonT(30), <3>2, <3>3 DEF Loops
  <2>4. ASSUME NEW m \in 0..N
        PROVE  f[m] = IF m = 0 THEN <<>> ELSE f[m - 1] \o Kept(list[m], o, n)
    <3>1. CASE m = 0
      BY ZenonT(30), <2>3, <3>1
    <3>2. CASE m # 0
      <4>1. m \in 1..N /\ m - 1 \in 0..N
        BY <1>1, <3>2
      <4>2. f[m] = f[m - 1] \o kept[m]
        BY ZenonT(30), <2>2, <2>3, <4>1
      <4> QED BY ZenonT(30), <1>2, <3>2, <4>1, <4>2
    <3> QED BY ZenonT(30), <3>1, <3>2
  <2>5. f = [m \in 0..N |-> f[m]]
    BY ZenonT(30), <2>3
  <2>6. f = [m \in 0..N |-> IF m = 0 THEN <<>> ELSE f[m - 1] \o Kept(list[m], o, n)]
    BY <2>4, <2>5, Zenon
  <2> QED BY ZenonT(30), <2>6
<1>6. PICK f : /\ f = [m \in 0..N |-> IF m = 0 THEN <<>> ELSE f[m - 1] \o Kept(list[m], o, n)]
               /\ Carve(list, o, n) = f[N]
  BY <1>5, Zenon DEF Carve, N
<1>7. f[0] = <<>>
  <2>1. 0 \in 0..N
    BY <1>1
  <2> QED BY <1>6, <2>1, Zenon
<1>8. ASSUME NEW m \in 1..N
      PROVE  f[m] = f[m - 1] \o kept[m]
  <2>1. m \in 0..N /\ m # 0
    BY <1>1
  <2>2. f[m] = f[m - 1] \o Kept(list[m], o, n)
    BY <1>6, <2>1, Zenon
  <2> QED BY ZenonT(30), <1>2, <2>2
<1> DEFINE Done(m) ==
             /\ Neat(f[m])
             /\ \A i \in 1..Len(f[m]) : \E j \in 1..m : Piece(f[m][i], list[j], o, n)
             /\ \A b \in U64, j \in 1..m :
                  On(list[j], b) /\ ~Covers(o, n, b) => \E i \in 1..Len(f[m]) : On(f[m][i], b)
           T == {m \in 0..N : Done(m)}
<1>9. 0 \in T
  <2>1. Neat(f[0]) /\ Len(f[0]) = 0
    BY <1>4, <1>7 DEF Neat
  <2> QED BY <1>1, <2>1
<1>10. ASSUME NEW m \in 1..N, m - 1 \in T
       PROVE  m \in T
  <2>1. PICK s, t : s = f[m - 1] /\ t = kept[m] /\ f[m] = s \o t
    BY ZenonT(30), <1>8
  <2>2. /\ Neat(s)
        /\ \A i \in 1..Len(s) : \E j \in 1..(m - 1) : Piece(s[i], list[j], o, n)
        /\ \A b \in U64, j \in 1..(m - 1) :
             On(list[j], b) /\ ~Covers(o, n, b) => \E i \in 1..Len(s) : On(s[i], b)
    BY ZenonT(30), <1>10, <2>1
  <2>3. /\ Neat(t)
        /\ \A i \in 1..Len(t) : Piece(t[i], list[m], o, n)
        /\ \A b \in U64 : On(list[m], b) /\ ~Covers(o, n, b)
                            => \E i \in 1..Len(t) : On(t[i], b)
    BY ZenonT(30), <1>3, <2>1
  <2>4. ASSUME NEW i \in 1..Len(s), NEW j \in 1..Len(t)
        PROVE  Apart(s[i], t[j])
    <3>1. PICK k \in 1..(m - 1) : Piece(s[i], list[k], o, n)
      BY ZenonT(30), <2>2
    <3>2. Piece(t[j], list[m], o, n)
      BY ZenonT(30), <2>3
    <3>3. Apart(list[k], list[m]) /\ Fit(list[k]) /\ Fit(list[m])
      BY <1>1
    <3>4. /\ EndOf(s[i]) \in Nat /\ t[j].offset \in Nat
          /\ EndOf(list[k]) \in Nat /\ list[m].offset \in Nat
      BY ZenonT(30), <3>1, <3>2, <3>3, Bounds DEF Piece
    <3>5. /\ EndOf(s[i]) <= EndOf(list[k]) /\ s[i].locktype = list[k].locktype
          /\ list[m].offset <= t[j].offset /\ t[j].locktype = list[m].locktype
      BY ZenonT(30), <3>1, <3>2 DEF Piece
    <3> QED BY <3>3, <3>4, <3>5 DEF Apart
  <2>5. Neat(s \o t)
    BY ZenonT(30), <2>2, <2>3, <2>4, ConcatNeat
  <2>6. s \in Lists /\ t \in Lists /\ Len(s) \in Nat /\ Len(t) \in Nat
    BY ZenonT(30), <2>2, <2>3, LenProperties DEF Neat, Lists
  <2>7. /\ \A i \in 1..Len(s) : (s \o t)[i] = s[i] /\ i \in 1..Len(s \o t)
        /\ \A i \in 1..Len(t) :
             (s \o t)[Len(s) + i] = t[i] /\ Len(s) + i \in 1..Len(s \o t)
        /\ \A i \in 1..Len(s \o t) : ~(i \in 1..Len(s)) =>
             i - Len(s) \in 1..Len(t) /\ (s \o t)[i] = t[i - Len(s)]
    BY ZenonT(30), <2>6, ConcatParts
  <2>8. ASSUME NEW i \in 1..Len(s \o t)
        PROVE  \E j \in 1..m : Piece((s \o t)[i], list[j], o, n)
    <3>1. CASE i \in 1..Len(s)
      <4>1. PICK j \in 1..(m - 1) : Piece(s[i], list[j], o, n)
        BY ZenonT(30), <2>2, <3>1
      <4>2. j \in 1..m /\ (s \o t)[i] = s[i]
        BY <2>7, <3>1
      <4> QED BY ZenonT(30), <4>1, <4>2
    <3>2. CASE ~(i \in 1..Len(s))
      BY <2>3, <2>7, <3>2
    <3> QED BY ZenonT(30), <3>1, <3>2
  <2>9. ASSUME NEW b \in U64, NEW j \in 1..m, On(list[j], b), ~Covers(o, n, b)
        PROVE  \E i \in 1..Len(s \o t) : On((s \o t)[i], b)
    <3>1. CASE j = m
      <4>1. PICK i \in 1..Len(t) : On(t[i], b)
        BY ZenonT(30), <2>3, <2>9, <3>1
      <4> QED BY ZenonT(30), <2>7, <4>1
    <3>2. CASE j # m
      <4>1. j \in 1..(m - 1)
        BY <3>2
      <4>2. PICK i \in 1..Len(s) : On(s[i], b)
        BY ZenonT(30), <2>2, <2>9, <4>1
      <4> QED BY ZenonT(30), <2>7, <4>2
    <3> QED BY ZenonT(30), <3>1, <3>2
  <2>10. Done(m)
    BY ZenonT(30), <2>1, <2>5, <2>8, <2>9
  <2> QED BY <1>1, <2>10
<1> HIDE DEF T
<1>11. N \in T
  <2>1. 0..N \subseteq T
    BY ZenonT(30), <1>1, <1>9, <1>10, UpTo
  <2> QED BY <1>1, <2>1
<1> QED BY ZenonT(30), <1>6, <1>11 DEF T, N

-----------------------------------------------------------------------------
(* Sorting.                                                                 *)

Clear(r, s) == EndOf(r) <= s.offset

Sorted(s) == \A i, j \in 1..Len(s) : i < j => Clear(s[i], s[j])

\* r belongs behind the first p ranges of c.
Behind(c, r, p) ==
    \A i \in 1..Len(c) : (i <= p => Clear(c[i], r)) /\ (i > p => Clear(r, c[i]))

\* A new range has its place among sorted ones it does not overlap.
LEMMA Place ==
    ASSUME BelowLimit, NEW c, Neat(c), NEW r, Fit(r),
           \A i \in 1..Len(c) : Clear(c[i], r) \/ Clear(r, c[i])
    PROVE  \E p \in 0..Len(c) : Behind(c, r, p)
<1> DEFINE n == Len(c)
           U == {i \in 1..n : Clear(r, c[i])}
<1>1. /\ n \in Nat /\ \A i \in 1..n : Fit(c[i])
      /\ \A i, j \in 1..n : i < j => Apart(c[i], c[j])
  BY ZenonT(30), LenProperties DEF Neat, Lists
<1> HIDE DEF n
<1>2. CASE U = {}
  <2>1. n \in 0..n /\ \A i \in 1..n : i <= n /\ ~(i > n)
    BY <1>1
  <2>2. \A i \in 1..n : Clear(c[i], r)
    BY ZenonT(30), <1>2 DEF n
  <2> QED BY ZenonT(30), <2>1, <2>2 DEF n, Behind
<1>3. CASE U # {}
  <2>1. U \in SUBSET Nat
    OBVIOUS
  <2>2. PICK m \in U : \A k \in U : m <= k
    BY ZenonT(30), <1>3, <2>1, LeastNat
  <2>3. m \in 1..n /\ m - 1 \in 0..n
    BY <1>1, <2>2
  <2>4. ASSUME NEW i \in 1..n, i <= m - 1
        PROVE  Clear(c[i], r)
    <3>1. ~(m <= i)
      BY <2>3, <2>4
    <3> QED BY ZenonT(30), <2>2, <3>1 DEF n
  <2>5. ASSUME NEW i \in 1..n, i > m - 1
        PROVE  Clear(r, c[i])
    <3>1. Clear(r, c[m])
      BY ZenonT(30), <2>2
    <3>2. CASE i = m
      BY ZenonT(30), <3>1, <3>2
    <3>3. CASE i # m
      <4>1. m < i
        BY <2>3, <2>5, <3>3
      <4>2. EndOf(c[m]) <= c[i].offset
        BY ZenonT(30), <1>1, <2>3, <4>1 DEF Apart
      <4>3. /\ c[m].offset < EndOf(c[m]) /\ c[m].offset \in Nat /\ EndOf(c[m]) \in Nat
            /\ c[i].offset \in Nat /\ EndOf(r) \in Nat
        BY ZenonT(30), <1>1, <2>3, Bounds
      <4> QED BY <3>1, <4>2, <4>3 DEF Clear
    <3> QED BY ZenonT(30), <3>2, <3>3
  <2> QED BY ZenonT(30), <2>3, <2>4, <2>5 DEF n, Behind
<1> QED BY ZenonT(30), <1>2, <1>3

\* The stable sort puts the range appended last into its place.
LEMMA SortInserts ==
    ASSUME BelowLimit, NEW c, Neat(c), NEW r, Fit(r),
           NEW p \in 0..Len(c), Behind(c, r, p)
    PROVE  SortByOffset(Append(c, r)) =
             [k \in 1..Len(c) + 1 |->
                IF k <= p THEN c[k] ELSE IF k = p + 1 THEN r ELSE c[k - 1]]
<1>1. PICK n \in Nat : n = Len(c)
  BY ZenonT(30), LenProperties DEF Neat, Lists
<1>2. /\ \A i \in 1..n : Fit(c[i])
      /\ \A i, j \in 1..n : i < j => Apart(c[i], c[j])
      /\ c \in Seq(LockRange(LockType)) /\ r \in LockRange(LockType)
  BY ZenonT(30), <1>1 DEF Neat, Lists, Fit
<1>3. PICK a : a = Append(c, r)
  BY ZenonT(30)
<1>4. DOMAIN a = 1..n + 1 /\ a[n + 1] = r /\ \A i \in 1..n : a[i] = c[i]
  BY <1>1, <1>2, <1>3, AppendProperties, LenProperties
<1>5. /\ r.offset \in Nat /\ \A i \in 1..n : c[i].offset \in Nat
      /\ \A i, j \in 1..n : i < j => c[i].offset < c[j].offset
      /\ \A i \in 1..n : i <= p => c[i].offset < r.offset
      /\ \A i \in 1..n : i > p => r.offset < c[i].offset
  <2>1. /\ r.offset \in Nat /\ EndOf(r) \in Nat /\ r.offset < EndOf(r)
        /\ \A i \in 1..n : c[i].offset \in Nat /\ EndOf(c[i]) \in Nat /\ c[i].offset < EndOf(c[i])
    BY ZenonT(30), <1>2, Bounds
  <2>2. /\ \A i, j \in 1..n : i < j => EndOf(c[i]) <= c[j].offset
        /\ \A i \in 1..n : i <= p => EndOf(c[i]) <= r.offset
        /\ \A i \in 1..n : i > p => EndOf(r) <= c[i].offset
    BY ZenonT(30), <1>1, <1>2 DEF Apart, Clear, Behind
  <2>3. ASSUME NEW i \in 1..n, NEW j \in 1..n, i < j
        PROVE  c[i].offset < c[j].offset
    <3>1. EndOf(c[i]) <= c[j].offset
      BY ZenonT(30), <2>2, <2>3
    <3>2. /\ c[i].offset \in Nat /\ EndOf(c[i]) \in Nat /\ c[i].offset < EndOf(c[i])
          /\ c[j].offset \in Nat
      BY ZenonT(30), <2>1
    <3> QED BY <3>1, <3>2
  <2>4. ASSUME NEW i \in 1..n
        PROVE  (i <= p => c[i].offset < r.offset) /\ (i > p => r.offset < c[i].offset)
    BY <2>1, <2>2, <2>4
  <2> QED BY ZenonT(30), <2>1, <2>3, <2>4
<1> DEFINE Pos(i) == IF i = n + 1 THEN p + 1 ELSE IF i <= p THEN i ELSE i + 1
           From(k) == IF k <= p THEN k ELSE IF k = p + 1 THEN n + 1 ELSE k - 1
<1>6. p \in Nat /\ p <= n
  BY <1>1
<1>7. ASSUME NEW i \in 1..n + 1
      PROVE  Cardinality(Before(a, i)) = Pos(i) - 1
  <2>1. \A k \in Nat : IsFiniteSet(1..k) /\ Cardinality(1..k) = k
    BY FS_Interval
  <2>2. Before(a, i) \subseteq 1..n + 1
    BY ZenonT(30), <1>4 DEF Before
  <2>3. CASE i = n + 1
    <3>1. ASSUME NEW j \in 1..n
          PROVE  j \in Before(a, i) <=> j <= p
      BY <1>4, <1>5, <1>6, <2>3 DEF Before
    <3>2. n + 1 \notin Before(a, i)
      BY <1>4, <1>5, <2>3 DEF Before
    <3>3. Before(a, i) = 1..p
      <4>1. ASSUME NEW j \in Before(a, i)
            PROVE  j \in 1..p
        <5>1. j \in 1..n
          BY <2>2, <3>2
        <5> QED BY <1>6, <3>1, <5>1
      <4>2. ASSUME NEW j \in 1..p
            PROVE  j \in Before(a, i)
        <5>1. j \in 1..n /\ j <= p
          BY <1>6
        <5> QED BY ZenonT(30), <3>1, <5>1
      <4> QED BY ZenonT(30), <4>1, <4>2
    <3> QED BY <1>6, <2>1, <2>3, <3>3
  <2>4. CASE i # n + 1
    <3>1. i \in 1..n /\ i - 1 \in Nat /\ n + 1 \notin 1..(i - 1)
      BY <2>4
    <3>2. ASSUME NEW j \in 1..n
          PROVE  j \in Before(a, i) <=> j <= i - 1
      <4>1. j \in Before(a, i) <=> \/ c[j].offset < c[i].offset
                                   \/ c[j].offset = c[i].offset /\ j < i
        BY <1>4, <3>1 DEF Before
      <4>2. CASE j < i
        BY <1>5, <3>1, <4>1, <4>2
      <4>3. CASE j = i
        BY <1>5, <3>1, <4>1, <4>3
      <4>4. CASE i < j
        <5>1. c[i].offset < c[j].offset /\ c[i].offset \in Nat /\ c[j].offset \in Nat
          BY ZenonT(30), <1>5, <3>1, <4>4
        <5> QED BY <3>1, <4>1, <4>4, <5>1
      <4> QED BY <3>1, <4>2, <4>3, <4>4
    <3>3. n + 1 \in Before(a, i) <=> r.offset < c[i].offset
      BY <1>4, <1>5, <3>1 DEF Before
    <3>4. CASE i <= p
      <4>1. n + 1 \notin Before(a, i)
        BY <1>5, <3>1, <3>3, <3>4
      <4>2. Before(a, i) = 1..(i - 1)
        <5>1. ASSUME NEW j \in Before(a, i)
              PROVE  j \in 1..(i - 1)
          <6>1. j \in 1..n
            BY <2>2, <4>1
          <6> QED BY <3>1, <3>2, <6>1
        <5>2. ASSUME NEW j \in 1..(i - 1)
              PROVE  j \in Before(a, i)
          <6>1. j \in 1..n /\ j <= i - 1
            BY <3>1
          <6> QED BY ZenonT(30), <3>2, <6>1
        <5> QED BY ZenonT(30), <5>1, <5>2
      <4> QED BY ZenonT(30), <2>1, <2>4, <3>1, <3>4, <4>2
    <3>5. CASE ~(i <= p)
      <4>1. n + 1 \in Before(a, i)
        BY <1>5, <1>6, <3>1, <3>3, <3>5
      <4>2. Before(a, i) = (1..(i - 1)) \cup {n + 1}
        <5>1. \A j \in 1..n + 1 : j \in 1..n \/ j = n + 1
          OBVIOUS
        <5>2. \A j \in 1..(i - 1) : j \in 1..n
          BY <3>1
        <5> QED BY <2>2, <3>1, <3>2, <4>1, <5>1, <5>2
      <4>3. Cardinality((1..(i - 1)) \cup {n + 1}) = Cardinality(1..(i - 1)) + 1
        BY ZenonT(30), <2>1, <3>1, FS_AddElement
      <4> QED BY <2>1, <2>4, <3>1, <3>5, <4>2, <4>3
    <3> QED BY ZenonT(30), <3>4, <3>5
  <2> QED BY ZenonT(30), <2>3, <2>4
<1>8. ASSUME NEW k \in 1..n + 1
      PROVE  SortByOffset(a)[k] = IF k <= p THEN c[k] ELSE IF k = p + 1 THEN r ELSE c[k - 1]
  <2>1. From(k) \in 1..n + 1 /\ \A i \in 1..n + 1 : Pos(i) - 1 = k - 1 <=> i = From(k)
    BY <1>6
  <2>2. PICK q \in 1..n + 1 : q = From(k)
    BY ZenonT(30), <2>1
  <2>3. \A i \in 1..n + 1 : Cardinality(Before(a, i)) = k - 1 <=> i = q
    BY ZenonT(30), <1>7, <2>1, <2>2
  <2>4. (CHOOSE i \in 1..n + 1 : Cardinality(Before(a, i)) = k - 1) = q
    BY ZenonT(30), <2>3
  <2>5. SortByOffset(a)[k] = a[q]
    BY ZenonT(30), <1>4, <2>4 DEF SortByOffset
  <2>6. a[q] = IF k <= p THEN c[k] ELSE IF k = p + 1 THEN r ELSE c[k - 1]
    <3>1. CASE k <= p
      BY <1>4, <1>6, <2>2, <3>1
    <3>2. CASE k = p + 1
      BY <1>4, <1>6, <2>2, <3>2
    <3>3. CASE ~(k <= p) /\ k # p + 1
      <4>1. q = k - 1 /\ q \in 1..n
        BY <1>6, <2>2, <3>3
      <4> QED BY ZenonT(30), <1>4, <3>3, <4>1
    <3> QED BY ZenonT(30), <3>1, <3>2, <3>3
  <2> QED BY ZenonT(30), <2>5, <2>6
<1>9. SortByOffset(a) = [k \in 1..n + 1 |-> SortByOffset(a)[k]]
  BY <1>4 DEF SortByOffset
<1> QED BY ZenonT(30), <1>1, <1>3, <1>8, <1>9

\* The ranges of s come one after the other, and are those of c and r.
Inserted(c, r, s) ==
    /\ s \in Lists /\ Len(s) = Len(c) + 1 /\ Sorted(s)
    /\ \A i \in 1..Len(s) : s[i] = r \/ \E j \in 1..Len(c) : s[i] = c[j]
    /\ \E i \in 1..Len(s) : s[i] = r
    /\ \A j \in 1..Len(c) : \E i \in 1..Len(s) : s[i] = c[j]

LEMMA SortResult ==
    ASSUME BelowLimit, NEW c, Neat(c), NEW r, Fit(r),
           \A i \in 1..Len(c) : Clear(c[i], r) \/ Clear(r, c[i])
    PROVE  Inserted(c, r, SortByOffset(Append(c, r)))
<1>1. PICK n \in Nat : n = Len(c)
  BY ZenonT(30), LenProperties DEF Neat, Lists
<1>2. /\ \A i \in 1..n : Fit(c[i]) /\ c[i] \in LockRange(LockType)
      /\ \A i, j \in 1..n : i < j => Clear(c[i], c[j])
      /\ r \in LockRange(LockType)
  BY ZenonT(30), <1>1 DEF Neat, Lists, Fit, Apart, Clear
<1>3. PICK p \in 0..Len(c) : Behind(c, r, p)
  BY ZenonT(30), Place
<1>4. PICK s : /\ s = SortByOffset(Append(c, r))
               /\ s = [k \in 1..n + 1 |->
                         IF k <= p THEN c[k] ELSE IF k = p + 1 THEN r ELSE c[k - 1]]
  <2>1. SortByOffset(Append(c, r)) =
          [k \in 1..Len(c) + 1 |-> IF k <= p THEN c[k] ELSE IF k = p + 1 THEN r ELSE c[k - 1]]
    BY <1>3, SortInserts
  <2> QED BY ZenonT(30), <1>1, <2>1
<1>5. p \in Nat /\ p <= n
  BY <1>1, <1>3
<1>6. /\ \A k \in 1..n + 1 : k <= p => k \in 1..n /\ s[k] = c[k]
      /\ p + 1 \in 1..n + 1 /\ s[p + 1] = r
      /\ \A k \in 1..n + 1 : k > p + 1 => k - 1 \in 1..n /\ s[k] = c[k - 1]
  BY <1>4, <1>5
<1>7. ASSUME NEW k \in 1..n + 1
      PROVE  (s[k] = r \/ \E j \in 1..n : s[k] = c[j]) /\ Fit(s[k]) /\ s[k] \in LockRange(LockType)
  <2>1. CASE k <= p
    BY ZenonT(30), <1>2, <1>6, <2>1
  <2>2. CASE k = p + 1
    BY ZenonT(30), <1>2, <1>6, <2>2
  <2>3. CASE k > p + 1
    BY ZenonT(30), <1>2, <1>6, <2>3
  <2> QED BY <1>5, <2>1, <2>2, <2>3
<1>8. s \in Seq(LockRange(LockType)) /\ Len(s) = n + 1
  <2>1. s \in [1..n + 1 -> LockRange(LockType)]
    BY ZenonT(30), <1>4, <1>7
  <2> QED BY <2>1, SeqDef, LenProperties
<1>9. s \in Lists
  BY ZenonT(30), <1>7, <1>8 DEF Lists
<1>10. ASSUME NEW i \in 1..n + 1, NEW j \in 1..n + 1, i < j
       PROVE  Clear(s[i], s[j])
  <2>1. CASE j <= p
    <3>1. i <= p
      BY <1>5, <1>10, <2>1
    <3> QED BY ZenonT(30), <1>2, <1>6, <1>10, <2>1, <3>1
  <2>2. CASE j = p + 1
    <3>1. i <= p
      BY <1>5, <1>10, <2>2
    <3> QED BY ZenonT(30), <1>1, <1>3, <1>6, <2>2, <3>1 DEF Behind
  <2>3. CASE j > p + 1
    <3>1. j - 1 \in 1..n /\ s[j] = c[j - 1] /\ j - 1 > p
      BY <1>5, <1>6, <2>3
    <3>2. CASE i <= p
      <4>1. i \in 1..n /\ s[i] = c[i] /\ i < j - 1
        BY <1>5, <1>6, <2>3, <3>2
      <4> QED BY ZenonT(30), <1>2, <3>1, <4>1
    <3>3. CASE i = p + 1
      BY ZenonT(30), <1>1, <1>3, <1>6, <3>1, <3>3 DEF Behind
    <3>4. CASE i > p + 1
      <4>1. i - 1 \in 1..n /\ s[i] = c[i - 1] /\ i - 1 < j - 1
        BY <1>6, <1>10, <3>4
      <4> QED BY ZenonT(30), <1>2, <3>1, <4>1
    <3> QED BY <1>5, <3>2, <3>3, <3>4
  <2> QED BY <1>5, <2>1, <2>2, <2>3
<1>11. ASSUME NEW j \in 1..n
       PROVE  \E i \in 1..n + 1 : s[i] = c[j]
  <2>1. CASE j <= p
    <3>1. j \in 1..n + 1
      OBVIOUS
    <3> QED BY ZenonT(30), <1>6, <2>1, <3>1
  <2>2. CASE ~(j <= p)
    <3>1. j + 1 \in 1..n + 1 /\ j + 1 > p + 1 /\ (j + 1) - 1 = j
      BY <1>5, <2>2
    <3>2. s[j + 1] = c[(j + 1) - 1]
      BY ZenonT(30), <1>6, <3>1
    <3> QED BY ZenonT(30), <3>1, <3>2
  <2> QED BY ZenonT(30), <2>1, <2>2
<1>12. \E i \in 1..n + 1 : s[i] = r
  BY ZenonT(30), <1>6
<1>13. Inserted(c, r, s)
  BY ZenonT(30), <1>1, <1>7, <1>8, <1>9, <1>10, <1>11, <1>12 DEF Inserted, Sorted
<1> QED BY ZenonT(30), <1>4, <1>13

-----------------------------------------------------------------------------
(* Merging.                                                                 *)

\* MergeInto extends the last range of acc to the end of r, or appends r.
\* The last range of acc grows to hold r, or r comes behind it.
Extends(acc, r, t) ==
    LET n == Len(acc) IN
    /\ n > 0 /\ Len(t) = n
    /\ acc[n].locktype = r.locktype /\ EndOf(acc[n]) >= r.offset
    /\ t[n].locktype = r.locktype /\ t[n].offset = acc[n].offset
    /\ EndOf(t[n]) = IF EndOf(acc[n]) >= EndOf(r) THEN EndOf(acc[n]) ELSE EndOf(r)
    /\ \A i \in 1..(n - 1) : t[i] = acc[i]

Appends(acc, r, t) ==
    LET n == Len(acc) IN
    /\ Len(t) = n + 1 /\ t[n + 1] = r
    /\ n = 0 \/ acc[n].locktype # r.locktype \/ ~(EndOf(acc[n]) >= r.offset)
    /\ \A i \in 1..n : t[i] = acc[i]

\* A step of normalize_lock_ranges changes the last range or appends one.
LEMMA MergeCases ==
    ASSUME BelowLimit, NEW acc \in Lists, NEW r, Fit(r)
    PROVE  LET t == MergeInto(acc, r) IN
           t \in Lists /\ (Extends(acc, r, t) \/ Appends(acc, r, t))
<1>1. PICK n \in Nat : n = Len(acc)
  BY ZenonT(30), LenProperties DEF Lists
<1>2. /\ acc \in Seq(LockRange(LockType)) /\ \A i \in 1..n : Fit(acc[i])
      /\ r \in LockRange(LockType) /\ (acc = <<>> <=> n = 0)
  BY ZenonT(30), <1>1, EmptySeq, LenProperties DEF Lists, Fit
<1>3. PICK t : t = MergeInto(acc, r)
  BY ZenonT(30)
<1>4. CASE n > 0 /\ acc[n].locktype = r.locktype /\ EndOf(acc[n]) >= r.offset
  <2>1. PICK e : e = IF EndOf(acc[n]) >= EndOf(r) THEN EndOf(acc[n]) ELSE EndOf(r)
    BY ZenonT(30)
  <2>2. PICK new : new = range_from_bounds(acc[n].locktype, acc[n].offset, e)
    BY ZenonT(30)
  <2>3. t = [acc EXCEPT ![n] = new]
    BY <1>1, <1>2, <1>3, <1>4, <2>1, <2>2 DEF MergeInto, EndOf
  <2>4. /\ acc[n].locktype \in LockType /\ acc[n].offset \in 0..MaxEnd
        /\ e \in Nat /\ acc[n].offset < e /\ (e = Infinity \/ e <= MaxEnd)
    <3>1. /\ acc[n].offset \in Nat /\ acc[n].offset <= MaxEnd /\ acc[n].locktype \in LockType
          /\ EndOf(acc[n]) \in Nat /\ acc[n].offset < EndOf(acc[n])
          /\ EndOf(acc[n]) = Infinity \/ EndOf(acc[n]) <= MaxEnd
          /\ EndOf(r) \in Nat /\ (EndOf(r) = Infinity \/ EndOf(r) <= MaxEnd) /\ MaxEnd \in Nat
      BY <1>2, <1>4, Bounds
    <3> QED BY <2>1, <3>1
  <2>5. Fit(new) /\ new.locktype = acc[n].locktype /\ new.offset = acc[n].offset /\ EndOf(new) = e
    BY <2>2, <2>4, FromBounds
  <2>6. new \in LockRange(LockType)
    BY ZenonT(30), <2>5 DEF Fit
  <2>7. /\ t \in Seq(LockRange(LockType)) /\ Len(t) = n /\ t[n] = new
        /\ \A i \in 1..n : i # n => t[i] = acc[i]
    BY <1>1, <1>2, <1>4, <2>3, <2>6
  <2>8. \A i \in 1..(n - 1) : i \in 1..n /\ i # n
    OBVIOUS
  <2>9. t \in Lists
    BY ZenonT(30), <1>2, <2>5, <2>7 DEF Lists
  <2>10. Extends(acc, r, t)
    BY ZenonT(30), <1>1, <1>4, <2>1, <2>5, <2>7, <2>8 DEF Extends
  <2> QED BY ZenonT(30), <1>3, <2>9, <2>10
<1>5. CASE ~(n > 0 /\ acc[n].locktype = r.locktype /\ EndOf(acc[n]) >= r.offset)
  <2>1. t = Append(acc, r)
    BY <1>1, <1>2, <1>3, <1>5 DEF MergeInto, EndOf
  <2>2. /\ t \in Seq(LockRange(LockType)) /\ Len(t) = n + 1 /\ t[n + 1] = r
        /\ \A i \in 1..n : t[i] = acc[i]
    BY <1>1, <1>2, <2>1, AppendProperties
  <2>3. \A i \in 1..n + 1 : i \in 1..n \/ i = n + 1
    OBVIOUS
  <2>4. t \in Lists
    BY ZenonT(30), <1>2, <2>2, <2>3 DEF Lists
  <2>5. Appends(acc, r, t)
    BY <1>1, <1>5, <2>2 DEF Appends
  <2> QED BY ZenonT(30), <1>3, <2>4, <2>5
<1> QED BY ZenonT(30), <1>4, <1>5

\* t holds acc and r.
Holds(acc, r, t) ==
    /\ Neat(t)
    /\ \A i \in 1..Len(t) : EndOf(t[i]) <= EndOf(r)
    /\ \A i \in 1..Len(t), b \in U64 : On(t[i], b) =>
         \/ On(r, b) /\ t[i].locktype = r.locktype
         \/ \E j \in 1..Len(acc) : On(acc[j], b) /\ acc[j].locktype = t[i].locktype
    /\ \A b \in U64 : On(r, b) => \E i \in 1..Len(t) : On(t[i], b)
    /\ \A j \in 1..Len(acc), b \in U64 : On(acc[j], b) => \E i \in 1..Len(t) : On(t[i], b)

\* A step keeps every byte, with its type.
LEMMA MergeKeeps ==
    ASSUME BelowLimit, NEW acc, Neat(acc), NEW r, Fit(r),
           \A i \in 1..Len(acc) : Clear(acc[i], r)
    PROVE  Holds(acc, r, MergeInto(acc, r))
<1>1. PICK n \in Nat : n = Len(acc)
  BY ZenonT(30), LenProperties DEF Neat, Lists
<1>2. /\ acc \in Lists /\ \A i \in 1..n : Fit(acc[i])
      /\ \A i, j \in 1..n : i < j => Apart(acc[i], acc[j])
  BY ZenonT(30), <1>1 DEF Neat, Lists
<1>3. PICK t : t = MergeInto(acc, r)
  BY ZenonT(30)
<1> SUFFICES Holds(acc, r, t)
  BY ZenonT(30), <1>3
<1>4. t \in Lists /\ U64 \subseteq Nat
  BY <1>2, <1>3, MergeCases DEF U64
<1>5. /\ r.offset \in Nat /\ EndOf(r) \in Nat /\ r.offset < EndOf(r)
      /\ \A i \in 1..n : /\ acc[i].offset \in Nat /\ EndOf(acc[i]) \in Nat
                         /\ acc[i].offset < EndOf(acc[i]) /\ EndOf(acc[i]) <= r.offset
  BY ZenonT(30), <1>1, <1>2, Bounds DEF Clear
<1>6. CASE Extends(acc, r, t)
  <2>0. /\ n > 0 /\ Len(t) = n
        /\ acc[n].locktype = r.locktype /\ EndOf(acc[n]) >= r.offset
        /\ t[n].locktype = r.locktype /\ t[n].offset = acc[n].offset
        /\ EndOf(t[n]) = IF EndOf(acc[n]) >= EndOf(r) THEN EndOf(acc[n]) ELSE EndOf(r)
        /\ \A i \in 1..(n - 1) : t[i] = acc[i]
    BY ZenonT(30), <1>1, <1>6 DEF Extends
  <2>1. n \in 1..n /\ \A i \in 1..n : i # n => i \in 1..(n - 1) /\ i < n
    BY <2>0
  <2>2. EndOf(t[n]) = EndOf(r) /\ EndOf(acc[n]) = r.offset
    BY <1>5, <2>0, <2>1
  <2>3. ASSUME NEW i \in 1..n, NEW j \in 1..n, i < j
        PROVE  Apart(t[i], t[j])
    <3>1. i # n /\ t[i] = acc[i]
      BY <2>0, <2>1, <2>3
    <3>2. Apart(acc[i], acc[j])
      BY ZenonT(30), <1>2, <2>3
    <3>3. CASE j = n
      BY ZenonT(30), <2>0, <3>1, <3>2, <3>3 DEF Apart
    <3>4. CASE j # n
      BY ZenonT(30), <2>0, <2>1, <3>1, <3>2, <3>4
    <3> QED BY ZenonT(30), <3>3, <3>4
  <2>4. \A b \in U64 : On(t[n], b) <=> On(acc[n], b) \/ On(r, b)
    BY <1>4, <1>5, <2>0, <2>1, <2>2 DEF On
  <2>5. ASSUME NEW i \in 1..n
        PROVE  EndOf(t[i]) <= EndOf(r)
    <3>1. CASE i = n
      BY <1>5, <2>2, <3>1
    <3>2. CASE i # n
      BY <1>5, <2>0, <2>1, <3>2
    <3> QED BY ZenonT(30), <3>1, <3>2
  <2>6. ASSUME NEW i \in 1..n, NEW b \in U64, On(t[i], b)
        PROVE  \/ On(r, b) /\ t[i].locktype = r.locktype
               \/ \E j \in 1..n : On(acc[j], b) /\ acc[j].locktype = t[i].locktype
    <3>1. CASE i = n
      BY ZenonT(30), <2>0, <2>1, <2>4, <2>6, <3>1
    <3>2. CASE i # n
      BY ZenonT(30), <2>0, <2>1, <2>6, <3>2
    <3> QED BY ZenonT(30), <3>1, <3>2
  <2>7. ASSUME NEW j \in 1..n, NEW b \in U64, On(acc[j], b)
        PROVE  \E i \in 1..n : On(t[i], b)
    <3>1. CASE j = n
      BY ZenonT(30), <2>1, <2>4, <2>7, <3>1
    <3>2. CASE j # n
      BY ZenonT(30), <2>0, <2>1, <2>7, <3>2
    <3> QED BY ZenonT(30), <3>1, <3>2
  <2>8. \A b \in U64 : On(r, b) => \E i \in 1..n : On(t[i], b)
    BY ZenonT(30), <2>1, <2>4
  <2>9. Neat(t) /\ Len(t) = n
    BY ZenonT(30), <1>4, <2>0, <2>3 DEF Neat
  <2> QED BY ZenonT(30), <1>1, <2>5, <2>6, <2>7, <2>8, <2>9 DEF Holds
<1>7. CASE Appends(acc, r, t)
  <2>0. /\ Len(t) = n + 1 /\ t[n + 1] = r
        /\ n = 0 \/ acc[n].locktype # r.locktype \/ ~(EndOf(acc[n]) >= r.offset)
        /\ \A i \in 1..n : t[i] = acc[i]
    BY ZenonT(30), <1>1, <1>7 DEF Appends
  <2>1. n + 1 \in 1..n + 1 /\ \A i \in 1..n + 1 : i # n + 1 => i \in 1..n
    OBVIOUS
  <2>2. ASSUME NEW i \in 1..n
        PROVE  Apart(acc[i], r)
    <3>1. CASE i = n
      BY <1>5, <2>0, <3>1 DEF Apart
    <3>2. CASE i # n
      <4>1. n \in 1..n /\ i < n
        BY <3>2
      <4>2. EndOf(acc[i]) <= acc[n].offset
        BY ZenonT(30), <1>2, <4>1 DEF Apart
      <4>3. acc[n].offset < EndOf(acc[n]) /\ EndOf(acc[n]) <= r.offset
        BY ZenonT(30), <1>5, <4>1
      <4> QED BY <1>5, <4>1, <4>2, <4>3 DEF Apart
    <3> QED BY ZenonT(30), <3>1, <3>2
  <2>3. ASSUME NEW i \in 1..n + 1, NEW j \in 1..n + 1, i < j
        PROVE  Apart(t[i], t[j])
    <3>1. i \in 1..n /\ t[i] = acc[i]
      BY <2>0, <2>3
    <3>2. CASE j = n + 1
      BY ZenonT(30), <2>0, <2>2, <3>1, <3>2
    <3>3. CASE j # n + 1
      BY ZenonT(30), <1>2, <2>0, <2>1, <2>3, <3>1, <3>3
    <3> QED BY ZenonT(30), <3>2, <3>3
  <2>4. ASSUME NEW i \in 1..n + 1
        PROVE  EndOf(t[i]) <= EndOf(r)
    <3>1. CASE i = n + 1
      BY <1>5, <2>0, <3>1
    <3>2. CASE i # n + 1
      BY <1>5, <2>0, <2>1, <3>2
    <3> QED BY ZenonT(30), <3>1, <3>2
  <2>5. ASSUME NEW i \in 1..n + 1, NEW b \in U64, On(t[i], b)
        PROVE  \/ On(r, b) /\ t[i].locktype = r.locktype
               \/ \E j \in 1..n : On(acc[j], b) /\ acc[j].locktype = t[i].locktype
    BY ZenonT(30), <2>0, <2>1, <2>5
  <2>6. ASSUME NEW j \in 1..n, NEW b \in U64, On(acc[j], b)
        PROVE  \E i \in 1..n + 1 : On(t[i], b)
    <3>1. j \in 1..n + 1 /\ t[j] = acc[j]
      BY <2>0
    <3> QED BY ZenonT(30), <2>6, <3>1
  <2>7. \A b \in U64 : On(r, b) => \E i \in 1..n + 1 : On(t[i], b)
    BY ZenonT(30), <2>0, <2>1
  <2>8. Neat(t) /\ Len(t) = n + 1
    BY ZenonT(30), <1>4, <2>0, <2>3 DEF Neat
  <2> QED BY ZenonT(30), <1>1, <2>4, <2>5, <2>6, <2>7, <2>8 DEF Holds
<1>8. Extends(acc, r, t) \/ Appends(acc, r, t)
  BY ZenonT(30), <1>2, <1>3, MergeCases
<1> QED BY ZenonT(30), <1>6, <1>7, <1>8

\* What the first m ranges of a sorted list have been merged into.
Merged(s, m, t) ==
    /\ Neat(t)
    /\ \A i \in 1..Len(t) : \E j \in 1..m : EndOf(t[i]) <= EndOf(s[j])
    /\ \A i \in 1..Len(t), b \in U64 : On(t[i], b) =>
         \E j \in 1..m : On(s[j], b) /\ s[j].locktype = t[i].locktype
    /\ \A j \in 1..m, b \in U64 : On(s[j], b) => \E i \in 1..Len(t) : On(t[i], b)

\* So does the loop, up to any range.
LEMMA MergedStep ==
    ASSUME BelowLimit, NEW s \in Lists, Sorted(s), NEW m \in 1..Len(s), NEW acc, Merged(s, m - 1, acc)
    PROVE  Merged(s, m, MergeInto(acc, s[m]))
<1>1. PICK r, t : r = s[m] /\ t = MergeInto(acc, r)
  BY ZenonT(30)
<1>2. Len(s) \in Nat /\ m \in Nat /\ m \in 1..m /\ \A j \in 1..(m - 1) : j \in 1..m /\ j < m
  BY LenProperties DEF Lists
<1>3. Fit(r) /\ Neat(acc)
  BY ZenonT(30), <1>1 DEF Lists, Merged
<1>4. ASSUME NEW i \in 1..Len(acc)
      PROVE  Clear(acc[i], r)
  <2>1. PICK j \in 1..(m - 1) : EndOf(acc[i]) <= EndOf(s[j])
    BY ZenonT(30) DEF Merged
  <2>2. Clear(s[j], r) /\ Fit(s[j]) /\ Fit(acc[i])
    BY <1>1, <1>2, <1>3 DEF Lists, Neat, Sorted
  <2>3. EndOf(s[j]) \in Nat /\ EndOf(acc[i]) \in Nat /\ r.offset \in Nat
    BY ZenonT(30), <1>3, <2>2, Bounds
  <2> QED BY <2>1, <2>2, <2>3 DEF Clear
<1>5. /\ Neat(t)
      /\ \A i \in 1..Len(t) : EndOf(t[i]) <= EndOf(r)
      /\ \A i \in 1..Len(t), b \in U64 : On(t[i], b) =>
           \/ On(r, b) /\ t[i].locktype = r.locktype
           \/ \E j \in 1..Len(acc) : On(acc[j], b) /\ acc[j].locktype = t[i].locktype
      /\ \A b \in U64 : On(r, b) => \E i \in 1..Len(t) : On(t[i], b)
      /\ \A j \in 1..Len(acc), b \in U64 : On(acc[j], b) => \E i \in 1..Len(t) : On(t[i], b)
  <2>1. Holds(acc, r, t)
    BY ZenonT(30), <1>1, <1>3, <1>4, MergeKeeps
  <2> QED BY ZenonT(30), <2>1 DEF Holds
<1>6. \A i \in 1..Len(t) : \E j \in 1..m : EndOf(t[i]) <= EndOf(s[j])
  BY ZenonT(30), <1>1, <1>2, <1>5
<1>7. ASSUME NEW i \in 1..Len(t), NEW b \in U64, On(t[i], b)
      PROVE  \E j \in 1..m : On(s[j], b) /\ s[j].locktype = t[i].locktype
  <2>1. CASE On(r, b) /\ t[i].locktype = r.locktype
    BY ZenonT(30), <1>1, <1>2, <2>1
  <2>2. ASSUME NEW k \in 1..Len(acc), On(acc[k], b), acc[k].locktype = t[i].locktype
        PROVE  \E j \in 1..m : On(s[j], b) /\ s[j].locktype = t[i].locktype
    <3>1. PICK j \in 1..(m - 1) : On(s[j], b) /\ s[j].locktype = acc[k].locktype
      BY ZenonT(30), <2>2 DEF Merged
    <3> QED BY ZenonT(30), <1>2, <2>2, <3>1
  <2> QED BY ZenonT(30), <1>5, <1>7, <2>1, <2>2
<1>8. ASSUME NEW j \in 1..m, NEW b \in U64, On(s[j], b)
      PROVE  \E i \in 1..Len(t) : On(t[i], b)
  <2>1. CASE j = m
    BY ZenonT(30), <1>1, <1>5, <1>8, <2>1
  <2>2. CASE j # m
    <3>1. j \in 1..(m - 1)
      BY <1>2, <2>2
    <3>2. PICK k \in 1..Len(acc) : On(acc[k], b)
      BY ZenonT(30), <1>8, <3>1 DEF Merged
    <3> QED BY ZenonT(30), <1>5, <3>2
  <2> QED BY ZenonT(30), <2>1, <2>2
<1>9. Merged(s, m, t)
  BY ZenonT(30), <1>5, <1>6, <1>7, <1>8 DEF Merged
<1> QED BY ZenonT(30), <1>1, <1>9

\* What has been merged after each range.
LEMMA MergeLoop ==
    ASSUME BelowLimit, NEW s \in Lists, NEW N \in Nat, \A m \in 1..N : Fit(s[m])
    PROVE  \E f : f = [m \in 0..N |-> IF m = 0 THEN <<>> ELSE MergeInto(f[m - 1], s[m])]
<1>1. PICK g : g = [x \in (1..N) \X Lists |-> MergeInto(x[2], s[x[1]])]
  BY ZenonT(30)
<1>2. \A m \in 1..N, x \in Lists : g[<<m, x>>] = MergeInto(x, s[m]) /\ g[<<m, x>>] \in Lists
  <2> TAKE m \in 1..N, x \in Lists
  <2>1. g[<<m, x>>] = MergeInto(x, s[m])
    BY ZenonT(30), <1>1
  <2>2. PICK r : r = s[m] /\ Fit(r)
    BY ZenonT(30)
  <2>3. MergeInto(x, r) \in Lists
    BY ZenonT(30), <2>2, MergeCases
  <2> QED BY ZenonT(30), <2>1, <2>2, <2>3
<1>3. g \in [(1..N) \X Lists -> Lists]
  <2>1. ASSUME NEW x \in (1..N) \X Lists
        PROVE  g[x] \in Lists
    <3>1. x[1] \in 1..N /\ x[2] \in Lists /\ x = <<x[1], x[2]>>
      OBVIOUS
    <3> QED BY ZenonT(30), <1>2, <3>1
  <2>2. g = [x \in (1..N) \X Lists |-> g[x]]
    BY ZenonT(30), <1>1
  <2> QED BY ZenonT(30), <2>1, <2>2
<1>4. PICK f \in [0..N -> Lists] : f[0] = <<>> /\ \A m \in 1..N : f[m] = g[<<m, f[m - 1]>>]
  <2>1. <<>> \in Lists
    BY DEF Lists
  <2>2. PICK a \in Lists : a = <<>>
    BY ZenonT(30), <2>1
  <2>3. Loops(Lists, a, N, g)
    BY ZenonT(30), <1>3, LoopExists
  <2> QED BY ZenonT(30), <2>2, <2>3 DEF Loops
<1>5. ASSUME NEW m \in 0..N
      PROVE  f[m] = IF m = 0 THEN <<>> ELSE MergeInto(f[m - 1], s[m])
  <2>1. CASE m = 0
    BY ZenonT(30), <1>4, <2>1
  <2>2. CASE m # 0
    <3>1. m \in 1..N /\ m - 1 \in 0..N
      BY <2>2
    <3>2. f[m] = MergeInto(f[m - 1], s[m])
      BY ZenonT(30), <1>2, <1>4, <3>1
    <3> QED BY ZenonT(30), <2>2, <3>2
  <2> QED BY ZenonT(30), <2>1, <2>2
<1>6. f = [m \in 0..N |-> f[m]]
  BY ZenonT(30), <1>4
<1>7. f = [m \in 0..N |-> IF m = 0 THEN <<>> ELSE MergeInto(f[m - 1], s[m])]
  BY <1>5, <1>6, Zenon
<1> QED BY ZenonT(30), <1>7

\* normalize_lock_ranges, once the ranges are sorted and do not overlap.
LEMMA NormalizeResult ==
    ASSUME BelowLimit, NEW list, NEW s \in Lists, s = SortByOffset(list), Len(list) = Len(s),
           Sorted(s)
    PROVE  Merged(s, Len(s), normalize_lock_ranges(list))
<1> DEFINE N == Len(s)
<1>1. N \in Nat /\ \A m \in 1..N : Fit(s[m])
  BY ZenonT(30), LenProperties DEF Lists
<1>2. <<>> \in Lists /\ Len(<<>>) = 0
  BY DEF Lists
<1> HIDE DEF N
<1>3. \E f : f = [m \in 0..N |-> IF m = 0 THEN <<>> ELSE MergeInto(f[m - 1], s[m])]
  BY ZenonT(30), <1>1, MergeLoop
<1>4. PICK f : /\ f = [m \in 0..N |-> IF m = 0 THEN <<>> ELSE MergeInto(f[m - 1], s[m])]
               /\ normalize_lock_ranges(list) = f[N]
  BY <1>3, Zenon DEF normalize_lock_ranges, N
<1>5. f[0] = <<>>
  <2>1. 0 \in 0..N
    BY <1>1
  <2> QED BY <1>4, <2>1, Zenon
<1>6. ASSUME NEW m \in 1..N
      PROVE  f[m] = MergeInto(f[m - 1], s[m])
  <2>1. m \in 0..N /\ m # 0
    BY <1>1
  <2> QED BY <1>4, <2>1, Zenon
<1> DEFINE T == {m \in 0..N : Merged(s, m, f[m])}
<1>7. 0 \in T
  <2>1. Neat(f[0]) /\ Len(f[0]) = 0
    BY <1>2, <1>5 DEF Neat
  <2> QED BY <1>1, <2>1 DEF Merged
<1>8. ASSUME NEW m \in 1..N, m - 1 \in T
      PROVE  m \in T
  <2>1. m \in 1..Len(s) /\ Merged(s, m - 1, f[m - 1])
    BY ZenonT(30), <1>8 DEF N
  <2>2. Merged(s, m, MergeInto(f[m - 1], s[m]))
    BY ZenonT(30), <2>1, MergedStep
  <2> QED BY <1>1, <1>6, <2>2
<1> HIDE DEF T
<1>9. N \in T
  <2>1. 0..N \subseteq T
    BY ZenonT(30), <1>1, <1>7, <1>8, UpTo
  <2> QED BY <1>1, <2>1
<1> QED BY ZenonT(30), <1>4, <1>9 DEF T, N

-----------------------------------------------------------------------------
(* The table.                                                               *)

\* The inductive invariant.
TableInv ==
    /\ Neat(ranges) /\ Means(ranges, held)
    /\ held \in [U64 -> LockType \cup {NoLock}]

\* The first LOCK makes a list of one range.
LEMMA TableInvInit ==
    ASSUME BelowLimit, RangesInit
    PROVE  TableInv
<1>0. PICK k \in LockType, o \in U64, n \in U64 :
        /\ Requested(o, n)
        /\ ranges = <<[locktype |-> k, offset |-> o, length |-> n]>>
        /\ held = [b \in U64 |-> IF Covers(o, n, b) THEN k ELSE NoLock]
  BY ZenonT(30) DEF RangesInit
<1>1. PICK r :
        /\ Requested(o, n) /\ r = [locktype |-> k, offset |-> o, length |-> n]
        /\ ranges = <<r>>
        /\ held = [b \in U64 |-> IF Covers(o, n, b) THEN k ELSE NoLock]
  BY ZenonT(30), <1>0
<1>2. Fit(r) /\ r.locktype = k /\ \A b : On(r, b) <=> Covers(o, n, b)
  BY ZenonT(30), <1>1 DEF Fit, LockRange, Requested, ValidBounds, On, EndOf, Covers
<1>3. Neat(ranges) /\ Len(ranges) = 1 /\ ranges[1] = r
  BY ZenonT(30), <1>1, <1>2, ShortLists
<1>4. Means(ranges, held)
  BY <1>1, <1>2, <1>3 DEF Means
<1>5. held \in [U64 -> LockType \cup {NoLock}]
  BY ZenonT(30), <1>1
<1> QED BY ZenonT(30), <1>3, <1>4, <1>5 DEF TableInv

\* replace_lock_range or unlock_state takes the bytes of the request out of the list.
LEMMA CarveMeans ==
    ASSUME BelowLimit, TableInv, NEW o \in U64, NEW n \in U64, Requested(o, n)
    PROVE  LET c == Carve(ranges, o, n) IN
           /\ Neat(c)
           /\ \A i \in 1..Len(c) : EndOf(c[i]) <= o \/ lock_end(o, n) <= c[i].offset
           /\ \A b \in U64 :
                /\ \A i \in 1..Len(c) : On(c[i], b) => ~Covers(o, n, b) /\ held[b] = c[i].locktype
                /\ held[b] # NoLock /\ ~Covers(o, n, b) => \E i \in 1..Len(c) : On(c[i], b)
<1>1. PICK c : c = Carve(ranges, o, n)
  BY ZenonT(30)
<1>2. Neat(ranges) /\ Means(ranges, held)
  BY ZenonT(30) DEF TableInv
<1>3. /\ Neat(c)
      /\ \A i \in 1..Len(c) : \E j \in 1..Len(ranges) : Piece(c[i], ranges[j], o, n)
      /\ \A b \in U64, j \in 1..Len(ranges) :
           On(ranges[j], b) /\ ~Covers(o, n, b) => \E i \in 1..Len(c) : On(c[i], b)
  BY ZenonT(30), <1>1, <1>2, CarveResult
<1>4. \A i \in 1..Len(c) : EndOf(c[i]) <= o \/ lock_end(o, n) <= c[i].offset
  BY ZenonT(30), <1>3 DEF Piece
<1>5. ASSUME NEW b \in U64, NEW i \in 1..Len(c), On(c[i], b)
      PROVE  ~Covers(o, n, b) /\ held[b] = c[i].locktype
  <2>1. PICK j \in 1..Len(ranges) : Piece(c[i], ranges[j], o, n)
    BY ZenonT(30), <1>3
  <2>2. Fit(c[i]) /\ Fit(ranges[j])
    BY ZenonT(30), <1>2, <2>1 DEF Piece, Neat, Lists
  <2>3. /\ c[i].offset \in Nat /\ EndOf(c[i]) \in Nat
        /\ ranges[j].offset \in Nat /\ EndOf(ranges[j]) \in Nat
        /\ o \in Nat /\ lock_end(o, n) \in Nat /\ b \in Nat
    <3>1. b \in Nat
      BY Bounds DEF U64
    <3>2. o \in Nat /\ lock_end(o, n) \in Nat
      BY Bounds, RequestBounds
    <3> QED BY ZenonT(30), <2>2, <3>1, <3>2, Bounds
  <2>4. On(ranges[j], b) /\ ~Covers(o, n, b)
    <3>1. PICK po, pe, ro, re, e :
            /\ po = c[i].offset /\ pe = EndOf(c[i]) /\ ro = ranges[j].offset
            /\ re = EndOf(ranges[j]) /\ e = lock_end(o, n)
      BY Zenon
    <3>2. /\ po \in Nat /\ pe \in Nat /\ ro \in Nat /\ re \in Nat /\ e \in Nat
          /\ o \in Nat /\ b \in Nat
      BY ZenonT(30), <2>3, <3>1
    <3>3. ro <= po /\ pe <= re /\ (pe <= o \/ e <= po) /\ po <= b /\ b < pe
      BY ZenonT(30), <1>5, <2>1, <3>1 DEF Piece, On
    <3>4. ro <= b /\ b < re /\ ~(o <= b /\ b < e)
      BY <3>2, <3>3
    <3> QED BY ZenonT(30), <3>1, <3>4 DEF On, Covers
  <2>5. held[b] = ranges[j].locktype
    BY ZenonT(30), <1>2, <2>4 DEF Means
  <2> QED BY ZenonT(30), <2>1, <2>4, <2>5 DEF Piece
<1>6. ASSUME NEW b \in U64, held[b] # NoLock, ~Covers(o, n, b)
      PROVE  \E i \in 1..Len(c) : On(c[i], b)
  <2>1. PICK j \in 1..Len(ranges) : On(ranges[j], b)
    BY ZenonT(30), <1>2, <1>6 DEF Means
  <2> QED BY ZenonT(30), <1>3, <1>6, <2>1
<1> QED BY ZenonT(30), <1>1, <1>3, <1>4, <1>5, <1>6

\* unlock_state.
LEMMA RangesUnlocked ==
    ASSUME BelowLimit, TableInv, NEW o \in U64, NEW n \in U64, Unlock(o, n)
    PROVE  TableInv'
<1>1. PICK c : c = ranges' /\ c = Carve(ranges, o, n)
  BY ZenonT(30) DEF Unlock
<1>2. Requested(o, n) /\ held' = [b \in U64 |-> IF Covers(o, n, b) THEN NoLock ELSE held[b]]
  BY ZenonT(30) DEF Unlock
<1>3. /\ Neat(c)
      /\ \A b \in U64 :
           /\ \A i \in 1..Len(c) : On(c[i], b) => ~Covers(o, n, b) /\ held[b] = c[i].locktype
           /\ held[b] # NoLock /\ ~Covers(o, n, b) => \E i \in 1..Len(c) : On(c[i], b)
  BY <1>1, <1>2, CarveMeans
<1>4. Means(c, held')
  BY ZenonT(30), <1>2, <1>3 DEF Means
<1>5. held' \in [U64 -> LockType \cup {NoLock}]
  BY ZenonT(30), <1>2 DEF TableInv
<1> QED BY <1>1, <1>3, <1>4, <1>5 DEF TableInv, Neat, Means

\* update_lock_state.
LEMMA RangesLocked ==
    ASSUME BelowLimit, TableInv, NEW k \in LockType, NEW o \in U64, NEW n \in U64, Lock(k, o, n)
    PROVE  TableInv'
<1>1. PICK r, c, s, t :
        /\ r = [locktype |-> k, offset |-> o, length |-> n]
        /\ c = Carve(ranges, o, n) /\ s = SortByOffset(Append(c, r))
        /\ t = normalize_lock_ranges(Append(c, r)) /\ t = ranges'
  BY ZenonT(30) DEF Lock, replace_lock_range
<1>2. Requested(o, n) /\ held' = [b \in U64 |-> IF Covers(o, n, b) THEN k ELSE held[b]]
  BY ZenonT(30) DEF Lock
<1>3. /\ Fit(r) /\ r.locktype = k /\ r.offset = o /\ EndOf(r) = lock_end(o, n)
      /\ \A b : On(r, b) <=> Covers(o, n, b)
  BY ZenonT(30), <1>1, <1>2 DEF Fit, LockRange, Requested, ValidBounds, On, EndOf, Covers
<1>4. /\ Neat(c)
      /\ \A i \in 1..Len(c) : Clear(c[i], r) \/ Clear(r, c[i])
      /\ \A b \in U64 :
           /\ \A i \in 1..Len(c) : On(c[i], b) => ~Covers(o, n, b) /\ held[b] = c[i].locktype
           /\ held[b] # NoLock /\ ~Covers(o, n, b) => \E i \in 1..Len(c) : On(c[i], b)
  <2>1. /\ Neat(c)
        /\ \A i \in 1..Len(c) : EndOf(c[i]) <= o \/ lock_end(o, n) <= c[i].offset
        /\ \A b \in U64 :
             /\ \A i \in 1..Len(c) : On(c[i], b) => ~Covers(o, n, b) /\ held[b] = c[i].locktype
             /\ held[b] # NoLock /\ ~Covers(o, n, b) => \E i \in 1..Len(c) : On(c[i], b)
    BY <1>1, <1>2, CarveMeans
  <2> QED BY <1>3, <2>1 DEF Clear
<1>5. /\ s \in Lists /\ Len(s) = Len(Append(c, r)) /\ Sorted(s)
      /\ \A i \in 1..Len(s) : s[i] = r \/ \E j \in 1..Len(c) : s[i] = c[j]
      /\ \E i \in 1..Len(s) : s[i] = r
      /\ \A j \in 1..Len(c) : \E i \in 1..Len(s) : s[i] = c[j]
  <2>1. Inserted(c, r, s)
    BY ZenonT(30), <1>1, <1>3, <1>4, SortResult
  <2>2. Len(Append(c, r)) = Len(c) + 1
    BY <1>3, <1>4, AppendProperties DEF Neat, Lists, Fit
  <2> QED BY ZenonT(30), <2>1, <2>2 DEF Inserted
<1>6. Merged(s, Len(s), t)
  BY ZenonT(30), <1>1, <1>5, NormalizeResult
<1>7. ASSUME NEW b \in U64, NEW i \in 1..Len(t), On(t[i], b)
      PROVE  held'[b] = t[i].locktype
  <2>1. PICK j \in 1..Len(s) : On(s[j], b) /\ s[j].locktype = t[i].locktype
    BY ZenonT(30), <1>6, <1>7 DEF Merged
  <2>2. CASE s[j] = r
    BY ZenonT(30), <1>2, <1>3, <2>1, <2>2
  <2>3. CASE \E m \in 1..Len(c) : s[j] = c[m]
    BY <1>2, <1>4, <2>1, <2>3
  <2> QED BY ZenonT(30), <1>5, <2>2, <2>3
<1>8. ASSUME NEW b \in U64, held'[b] # NoLock
      PROVE  \E i \in 1..Len(t) : On(t[i], b)
  <2>1. \E j \in 1..Len(s) : On(s[j], b)
    <3>1. CASE Covers(o, n, b)
      BY ZenonT(30), <1>3, <1>5, <3>1
    <3>2. CASE ~Covers(o, n, b)
      <4>1. PICK m \in 1..Len(c) : On(c[m], b)
        BY ZenonT(30), <1>2, <1>4, <1>8, <3>2
      <4> QED BY ZenonT(30), <1>5, <4>1
    <3> QED BY ZenonT(30), <3>1, <3>2
  <2> QED BY ZenonT(30), <1>6, <2>1 DEF Merged
<1>9. held' \in [U64 -> LockType \cup {NoLock}]
  BY ZenonT(30), <1>2 DEF TableInv
<1>10. Neat(t) /\ Means(t, held')
  BY ZenonT(30), <1>6, <1>7, <1>8 DEF Merged, Means
<1> QED BY ZenonT(30), <1>1, <1>9, <1>10 DEF TableInv, Neat, Means

\* LOCK and LOCKU keep the list sorted, disjoint, merged and true to the requests.
THEOREM TableInvAlways == ASSUME BelowLimit PROVE RangesSpec => []TableInv
<1>1. RangesInit => TableInv
  BY ZenonT(30), TableInvInit
<1>2. TableInv /\ [RangesNext]_<<ranges, held>> => TableInv'
  <2> SUFFICES ASSUME TableInv, [RangesNext]_<<ranges, held>>
               PROVE  TableInv'
    BY ZenonT(30)
  <2>1. CASE UNCHANGED <<ranges, held>>
    BY ZenonT(30), <2>1 DEF TableInv, Neat, Means
  <2>2. ASSUME NEW o \in U64, NEW n \in U64, Unlock(o, n)
        PROVE  TableInv'
    BY ZenonT(30), <2>2, RangesUnlocked
  <2>3. ASSUME NEW o \in U64, NEW n \in U64, NEW k \in LockType, Lock(k, o, n)
        PROVE  TableInv'
    BY ZenonT(30), <2>3, RangesLocked
  <2> QED BY ZenonT(30), <2>1, <2>2, <2>3 DEF RangesNext
<1> QED BY <1>1, <1>2, PTL DEF RangesSpec

\* The range list of a lock stateid means, byte by byte, what the LOCK and LOCKU requests
\* of its owner asked for (replace_lock_range, normalize_lock_ranges, unlock_state), if no
\* request ends at the last byte of all.
THEOREM RangesAlwaysMeanHeld == ASSUME BelowLimit PROVE RangesSpec => []RangesMeanHeld
<1>1. TableInv => RangesMeanHeld
  <2> SUFFICES ASSUME TableInv, NEW b \in U64
               PROVE  TypeAt(ranges, b) = held[b]
    BY ZenonT(30) DEF RangesMeanHeld
  <2>1. /\ DOMAIN ranges = 1..Len(ranges)
        /\ \A i \in 1..Len(ranges) : On(ranges[i], b) => held[b] = ranges[i].locktype
        /\ held[b] # NoLock => \E i \in 1..Len(ranges) : On(ranges[i], b)
    BY DEF TableInv, Means, Neat, Lists
  <2>2. \A i : Covers(ranges[i].offset, ranges[i].length, b) <=> On(ranges[i], b)
    BY ZenonT(30) DEF On, EndOf, Covers
  <2>3. CASE \E i \in DOMAIN ranges : Covers(ranges[i].offset, ranges[i].length, b)
    <3>1. PICK i \in DOMAIN ranges : /\ TypeAt(ranges, b) = ranges[i].locktype
                                     /\ Covers(ranges[i].offset, ranges[i].length, b)
      BY <2>3, Zenon DEF TypeAt
    <3> QED BY ZenonT(30), <2>1, <2>2, <3>1
  <2>4. CASE ~\E i \in DOMAIN ranges : Covers(ranges[i].offset, ranges[i].length, b)
    BY ZenonT(30), <2>1, <2>2, <2>4 DEF TypeAt
  <2> QED BY ZenonT(30), <2>3, <2>4
<1>2. RangesSpec => []TableInv
  BY ZenonT(30), TableInvAlways
<1> QED BY <1>1, <1>2, PTL

\* The list stays canonical: sorted, disjoint and merged, without empty ranges, so that
\* unlock_state may leave it as it is, under the same condition.
THEOREM RangesStayCanonical == ASSUME BelowLimit PROVE RangesSpec => []RangesAreCanonical
<1>1. TableInv => RangesAreCanonical
  <2> SUFFICES ASSUME TableInv
               PROVE  RangesAreCanonical
    BY ZenonT(30)
  <2>1. /\ ranges \in Seq(LockRange(LockType)) /\ DOMAIN ranges = 1..Len(ranges)
        /\ Len(ranges) \in Nat
        /\ \A i \in 1..Len(ranges) : ranges[i].length # 0
        /\ \A i, j \in 1..Len(ranges) : i < j => Apart(ranges[i], ranges[j])
    BY ZenonT(30), LenProperties DEF TableInv, Neat, Lists, Fit
  <2>2. \A i \in 1..(Len(ranges) - 1) : Apart(ranges[i], ranges[i + 1])
    BY <2>1
  <2> QED BY ZenonT(30), <2>1, <2>2 DEF RangesAreCanonical, Apart, EndOf
<1>2. RangesSpec => []TableInv
  BY ZenonT(30), TableInvAlways
<1> QED BY <1>1, <1>2, PTL
=============================================================================
