---------------------------- MODULE MemFsProofs ----------------------------
(***************************************************************************)
(* Proofs about MemFs, for any finite set of names and any number of       *)
(* inodes: names resolve, directories have one name, link counts count and *)
(* nothing is lost.                                                        *)
(***************************************************************************)
EXTENDS MemFs, FiniteSetTheorems, TLAPS

-----------------------------------------------------------------------------
(* The inductive invariant.                                                 *)

Trees == [Id -> Inode \cup {NoInode}]
In(tree, i) == tree[i] # NoInode
Dir(tree, i) == In(tree, i) /\ tree[i].type = "dir"

\* No entry of any inode is t.
NoNames(tree, t) == \A d \in Id, n \in Name : In(tree, d) => tree[d].entries[n] # t

\* The entry n of d: an inode that is there, not the root, and if a directory then
\* one that has its parent in d and no other name there.
GoodEntry(tree, d, n) ==
    LET t == tree[d].entries[n] IN
    t # 0 => /\ t \in Id /\ In(tree, t) /\ t # Root
             /\ tree[t].type = "dir" => /\ tree[t].parent = d
                                        /\ \A m \in Name : tree[d].entries[m] = t => m = n

\* The inductive invariant, of a table of inodes: only directories have entries,
\* and every entry is good.
Good(tree) ==
    /\ tree \in Trees
    /\ Dir(tree, Root)
    /\ \A i \in Id : In(tree, i) /\ tree[i].type # "dir" => tree[i].entries = NoEntries
    /\ \A d \in Id, n \in Name : In(tree, d) => GoodEntry(tree, d, n)

\* What link counts count: the subdirectories of a directory, the names of anything else.
Subdirs(tree, i) == {e \in Entries(tree) : /\ e[1] = i
                                           /\ Target(tree, e) \in Present(tree)
                                           /\ tree[Target(tree, e)].type = "dir"}

NamesOf(tree, i) == {e \in Entries(tree) : Target(tree, e) = i}

Count(tree, i) == IF tree[i].type = "dir" THEN 2 + Cardinality(Subdirs(tree, i))
                  ELSE Cardinality(NamesOf(tree, i))

Counted(tree) == \A i \in Id : In(tree, i) => tree[i].link_count = Count(tree, i)

\* A set that lookups do not lead out of.
Closed(tree, S) ==
    \A d \in S, n \in Name : In(tree, d) => tree[d].entries[n] \in S \cup {0}

\* Every inode is reached from the root, and the walk up the parents ends there.
Rooted(tree) ==
    /\ tree[Root].parent = 0
    /\ \A S \in SUBSET Id : Root \in S /\ Closed(tree, S) => \A i \in Id : In(tree, i) => i \in S

\* The same of every inode but t.
RootedBut(tree, t) ==
    /\ tree[Root].parent = 0
    /\ \A S \in SUBSET Id : Root \in S /\ Closed(tree, S) =>
         \A i \in Id \ {t} : In(tree, i) => i \in S

TreeInv ==
    /\ Good(inodes) /\ Counted(inodes) /\ Rooted(inodes)
    /\ next_id \in 2..(MaxId + 1) /\ next_change \in Change /\ creating \subseteq 2..MaxId
    /\ \A i \in creating : i < next_id
    /\ \A i \in Id : i \in creating \/ i >= next_id => ~In(inodes, i)

LEMMA Fields ==
    ASSUME NEW tree \in Trees, NEW i \in Id, In(tree, i)
    PROVE  /\ tree[i] \in Inode
           /\ tree[i].entries \in [Name -> 0..MaxId]
           /\ tree[i].parent \in 0..MaxId /\ tree[i].type \in Kind
  BY ZenonT(30) DEF Trees, In, Inode

\* Every set of naturals has a least element, which is how the inductions below go.
LEMMA LeastNat ==
    ASSUME NEW T \in SUBSET Nat, T # {}
    PROVE  \E m \in T : \A k \in T : m <= k
<1>1. PICK R : R = OpToRel(<, Nat)
  BY Zenon
<1>2. \A x, y \in Nat : x < y => <<x, y>> \in R
  BY ZenonT(30), <1>1 DEF OpToRel
<1>3. IsWellFoundedOn(R, Nat)
  BY <1>1, NatLessThanWellFounded, Zenon
<1>4. PICK m \in T : \A y \in T : <<y, m>> \notin R
  BY ZenonT(30), <1>3, WFMin
<1>5. \A k \in T : m \in Nat /\ k \in Nat /\ ~(k < m)
  BY ZenonT(30), <1>2, <1>4
<1> QED BY <1>5

\* Anything but the root has a name.
LEMMA RootedNamed ==
    ASSUME NEW tree, Good(tree), Rooted(tree), NEW t \in Id \ {Root}, In(tree, t)
    PROVE  ~NoNames(tree, t)
<1> SUFFICES ASSUME NoNames(tree, t) PROVE FALSE
  BY ZenonT(30)
<1> DEFINE S == Id \ {t}
<1>1. Root \in S
  BY MemFsAssumption DEF Root, Id
<1>2. Closed(tree, S)
  <2> SUFFICES ASSUME NEW d \in S, NEW n \in Name, In(tree, d), tree[d].entries[n] # 0
               PROVE  tree[d].entries[n] \in S
    BY ZenonT(30) DEF Closed
  <2>1. GoodEntry(tree, d, n) /\ tree[d].entries[n] # t
    BY ZenonT(30) DEF Good, NoNames
  <2> QED BY ZenonT(30), <2>1 DEF GoodEntry
<1> QED BY <1>1, <1>2 DEF Rooted

LEMMA Spent ==
    ASSUME TreeInv, NEW k \in {1, 2}, Spend(k)
    PROVE  next_change \in Change /\ next_change + 1 \in Change /\ next_change' \in Change
  BY MemFsAssumption DEF TreeInv, Spend, Change

-----------------------------------------------------------------------------
(* One name is taken away, one is given.                                    *)

\* Entry n of d becomes t; the parent of t may change with it.
Renamed(tree, other, d, n, t) ==
    /\ other \in Trees
    /\ \A i \in Id : /\ In(other, i) <=> In(tree, i)
                     /\ In(tree, i) => /\ other[i].type = tree[i].type
                                       /\ i # t => other[i].parent = tree[i].parent
                                       /\ i # d => other[i].entries = tree[i].entries
    /\ other[d].entries = [tree[d].entries EXCEPT ![n] = t]

\* A directory loses its only name with the entry that is cleared.
LEMMA Unname ==
    ASSUME NEW tree, NEW other, NEW d \in Id, NEW n \in Name, Good(tree), Dir(tree, d),
           Renamed(tree, other, d, n, 0)
    PROVE  /\ Good(other)
           /\ tree[d].entries[n] # 0 /\ Dir(tree, tree[d].entries[n]) =>
                NoNames(other, tree[d].entries[n])
<1>1. Root \in Id /\ 0 \notin Id
  BY MemFsAssumption DEF Root, Id
<1>2. tree[d].entries \in [Name -> 0..MaxId]
  BY ZenonT(30), Fields DEF Good, Dir
<1>3. Dir(other, Root)
  BY ZenonT(30), <1>1 DEF Good, Renamed, Dir
<1>4. \A i \in Id : In(other, i) /\ other[i].type # "dir" => other[i].entries = NoEntries
  BY ZenonT(30) DEF Good, Renamed, Dir
<1>5. \A e \in Id, m \in Name : In(tree, e) => other[e].entries[m] \in {tree[e].entries[m], 0}
  BY ZenonT(30), <1>2 DEF Renamed
<1>6. ASSUME NEW e \in Id, NEW m \in Name, In(other, e), other[e].entries[m] # 0
      PROVE  GoodEntry(other, e, m)
  <2>1. In(tree, e) /\ other[e].entries[m] = tree[e].entries[m] /\ GoodEntry(tree, e, m)
    BY ZenonT(30), <1>5, <1>6 DEF Renamed, Good
  <2>2. \A k \in Name : other[e].entries[k] = other[e].entries[m] =>
                         tree[e].entries[k] = tree[e].entries[m]
    BY ZenonT(30), <1>5, <1>6, <2>1
  <2> QED BY ZenonT(30), <1>1, <1>6, <2>1, <2>2 DEF GoodEntry, Renamed
<1>7. Good(other)
  BY <1>3, <1>4, <1>6 DEF Good, Renamed, GoodEntry
<1>8. ASSUME tree[d].entries[n] # 0, Dir(tree, tree[d].entries[n])
      PROVE  NoNames(other, tree[d].entries[n])
  <2> DEFINE t == tree[d].entries[n]
  <2>1. t \in Id /\ tree[t].parent = d /\ \A m \in Name : tree[d].entries[m] = t => m = n
    BY ZenonT(30), <1>8 DEF Good, GoodEntry, Dir
  <2> SUFFICES ASSUME NEW e \in Id, NEW m \in Name, In(other, e), other[e].entries[m] = t
               PROVE  FALSE
    BY ZenonT(30) DEF NoNames
  <2>2. In(tree, e) /\ tree[e].entries[m] = t
    BY ZenonT(30), <1>5, <1>8 DEF Renamed
  <2>3. GoodEntry(tree, e, m)
    BY ZenonT(30), <2>2 DEF Good
  <2>4. tree[t].parent = e
    BY ZenonT(30), <1>8, <2>2, <2>3 DEF GoodEntry, Dir
  <2>5. e = d /\ m = n
    BY ZenonT(30), <2>1, <2>2, <2>4
  <2> QED BY ZenonT(30), <1>2, <1>8, <2>5 DEF Renamed
<1> QED BY ZenonT(30), <1>7, <1>8

\* Anything but a directory may get another name, a directory that has none its
\* only one.
LEMMA GiveName ==
    ASSUME NEW tree, NEW other, NEW d \in Id, NEW n \in Name, NEW t \in Id,
           Good(tree), Dir(tree, d), In(tree, t), t # Root,
           Dir(tree, t) => NoNames(tree, t) /\ other[t].parent = d,
           Renamed(tree, other, d, n, t)
    PROVE  Good(other)
<1>1. Root \in Id /\ 0 \notin Id
  BY MemFsAssumption DEF Root, Id
<1>2. tree[d].entries \in [Name -> 0..MaxId]
  BY ZenonT(30), Fields DEF Good, Dir
<1>3. Dir(other, Root)
  BY ZenonT(30), <1>1 DEF Good, Renamed, Dir
<1>4. \A i \in Id : In(other, i) /\ other[i].type # "dir" => other[i].entries = NoEntries
  BY ZenonT(30) DEF Good, Renamed, Dir
<1>5. /\ other[d].entries[n] = t
      /\ \A m \in Name : m # n => other[d].entries[m] = tree[d].entries[m]
      /\ \A e \in Id : In(tree, e) /\ e # d => other[e].entries = tree[e].entries
  BY ZenonT(30), <1>2 DEF Renamed
<1>6. GoodEntry(other, d, n)
  <2>1. In(other, t) /\ t # Root /\ other[t].type = tree[t].type
    BY ZenonT(30) DEF Renamed
  <2>2. ASSUME Dir(tree, t), NEW m \in Name, m # n
        PROVE  other[d].entries[m] # t
    BY ZenonT(30), <1>5, <2>2 DEF NoNames, Dir
  <2> QED BY ZenonT(30), <1>5, <2>1, <2>2 DEF GoodEntry, Dir
<1>7. ASSUME NEW e \in Id, NEW m \in Name, In(other, e), e # d \/ m # n
      PROVE  GoodEntry(other, e, m)
  <2> DEFINE u == tree[e].entries[m]
  <2>1. In(tree, e) /\ other[e].entries[m] = u /\ GoodEntry(tree, e, m)
    BY ZenonT(30), <1>5, <1>7 DEF Good, Renamed
  <2>2. CASE u # 0
    <3>1. u \in Id /\ In(other, u) /\ u # Root /\ other[u].type = tree[u].type
      BY ZenonT(30), <2>1, <2>2 DEF GoodEntry, Renamed
    <3>2. ASSUME Dir(tree, u)
          PROVE  u # t
      BY ZenonT(30), <2>1, <3>2 DEF NoNames
    <3>3. ASSUME Dir(tree, u)
          PROVE  other[u].parent = e
      BY ZenonT(30), <2>1, <2>2, <3>1, <3>2, <3>3 DEF GoodEntry, Renamed, Dir
    <3>4. ASSUME Dir(tree, u), NEW k \in Name, other[e].entries[k] = u
          PROVE  k = m
      BY ZenonT(30), <1>5, <2>1, <2>2, <3>2, <3>4 DEF GoodEntry, Dir
    <3>5. In(tree, u)
      BY ZenonT(30), <3>1 DEF Renamed
    <3> QED BY ZenonT(30), <2>1, <3>1, <3>3, <3>4, <3>5 DEF GoodEntry, Dir
  <2> QED BY ZenonT(30), <2>1, <2>2 DEF GoodEntry
<1>8. \A e \in Id, m \in Name : In(other, e) => GoodEntry(other, e, m)
  BY ZenonT(30), <1>6, <1>7
<1> QED BY ZenonT(30), <1>3, <1>4, <1>8 DEF Good, Renamed

\* d with entry n set to t and a new change id.
Edited(tree, d, n, t, c) ==
    [tree EXCEPT ![d] = [tree[d] EXCEPT !.entries = [tree[d].entries EXCEPT ![n] = t],
                                        !.change = c]]

LEMMA EditedFields ==
    ASSUME NEW tree \in Trees, NEW d \in Id, NEW n \in Name, NEW t \in 0..MaxId, NEW c \in Change,
           In(tree, d)
    PROVE  /\ Renamed(tree, Edited(tree, d, n, t, c), d, n, t)
           /\ \A i \in Id : In(tree, i) => Edited(tree, d, n, t, c)[i].parent = tree[i].parent
<1>1. PICK new : new = [tree[d] EXCEPT !.entries = [tree[d].entries EXCEPT ![n] = t],
                                       !.change = c]
  BY ZenonT(30)
<1>2. tree[d] \in Inode /\ [tree[d].entries EXCEPT ![n] = t] \in [Name -> 0..MaxId]
  BY ZenonT(30), Fields
<1>3. /\ new \in Inode /\ new.type = tree[d].type /\ new.parent = tree[d].parent
      /\ new.entries = [tree[d].entries EXCEPT ![n] = t]
  BY ZenonT(30), <1>1, <1>2 DEF Inode
<1>4. PICK other : other = [tree EXCEPT ![d] = new]
  BY ZenonT(30)
<1>5. /\ other \in Trees /\ other[d] = new /\ In(other, d)
      /\ \A i \in Id \ {d} : other[i] = tree[i]
  BY ZenonT(30), <1>3, <1>4, MemFsAssumption DEF Trees, In
<1>6. /\ Renamed(tree, other, d, n, t)
      /\ \A i \in Id : In(tree, i) => other[i].parent = tree[i].parent
  BY ZenonT(30), <1>3, <1>5 DEF Renamed, In
<1> QED BY ZenonT(30), <1>1, <1>4, <1>6 DEF Edited

-----------------------------------------------------------------------------
(* Rename, and the walk up the tree that guards it.                         *)

\* What rename makes of the table, before what it replaced is removed.
LEMMA MovedGood ==
    ASSUME TreeInv, NEW from \in Id, NEW fn \in Name, NEW to \in Id, NEW tn \in Name,
           Rename(from, fn, to, tn)
    PROVE  /\ Good(Moved(from, fn, to, tn))
           /\ \A i \in Id : In(Moved(from, fn, to, tn), i) <=> In(inodes, i)
           /\ Lookup(to, tn) # 0 => /\ Lookup(to, tn) \in Id \ {Root}
                                    /\ Dir(Moved(from, fn, to, tn), Lookup(to, tn)) =>
                                         NoNames(Moved(from, fn, to, tn), Lookup(to, tn))
           /\ Moved(from, fn, to, tn)[Root].parent = inodes[Root].parent
           /\ \A d \in Id, m \in Name : In(inodes, d) =>
                Moved(from, fn, to, tn)[d].entries[m] =
                  IF d = to /\ m = tn THEN Lookup(from, fn)
                  ELSE IF d = from /\ m = fn THEN 0 ELSE inodes[d].entries[m]
<1> DEFINE child == inodes[from].entries[fn]
           replaced == inodes[to].entries[tn]
<1>1. /\ inodes \in Trees /\ Good(inodes) /\ Dir(inodes, from) /\ Dir(inodes, to)
      /\ Lookup(from, fn) = child /\ Lookup(to, tn) = replaced
      /\ child # 0 /\ replaced # child
  BY ZenonT(30) DEF Rename, TreeInv, Good, Lookup, IsDir, Live, Dir, In
<1>2. child \in Id /\ child # Root /\ In(inodes, child)
  BY ZenonT(30), <1>1 DEF Good, GoodEntry, Dir
<1>3. next_change \in Change /\ next_change + 1 \in Change
  BY ZenonT(30), Spent DEF Rename
<1>4. PICK one : one = Edited(inodes, from, fn, 0, next_change)
  BY ZenonT(30)
<1>5. /\ Renamed(inodes, one, from, fn, 0)
      /\ \A i \in Id : In(inodes, i) => one[i].parent = inodes[i].parent
  <2>1. 0 \in 0..MaxId /\ In(inodes, from)
    BY <1>1, MemFsAssumption DEF Dir
  <2> QED BY <1>1, <1>3, <1>4, <2>1, EditedFields
<1>6. Good(one) /\ (Dir(one, child) => NoNames(one, child))
  BY <1>1, <1>2, <1>5, Unname DEF Renamed, Dir
<1>7. PICK c \in Change : c = IF from = to THEN next_change ELSE next_change + 1
  BY ZenonT(30), <1>3
<1>8. PICK two : two = Edited(one, to, tn, child, c)
  BY ZenonT(30)
<1>9. one \in Trees /\ Dir(one, to) /\ In(one, child)
  BY ZenonT(30), <1>1, <1>2, <1>5, <1>6 DEF Renamed, Dir, Good
<1>10. /\ Renamed(one, two, to, tn, child)
       /\ \A i \in Id : In(one, i) => two[i].parent = one[i].parent
  BY <1>2, <1>8, <1>9, EditedFields DEF Id, Dir
<1>11. PICK moved : moved = Moved(from, fn, to, tn)
  BY ZenonT(30)
<1>12. moved = IF Dir(inodes, child) /\ from # to
               THEN [two EXCEPT ![child] = [two[child] EXCEPT !.parent = to]] ELSE two
  <2>1. one = [inodes EXCEPT ![from].entries[fn] = 0, ![from].change = next_change]
    BY ZenonT(30), <1>1, <1>4 DEF Edited, Trees
  <2>2. two = [one EXCEPT ![to].entries[tn] = child, ![to].change = c]
    BY ZenonT(30), <1>8, <1>9 DEF Edited, Trees
  <2>3. IsDir(child) <=> Dir(inodes, child)
    BY ZenonT(30), <1>2 DEF IsDir, Live, Dir, In
  <2>4. moved = IF IsDir(child) /\ from # to THEN [two EXCEPT ![child].parent = to] ELSE two
    BY <1>1, <1>7, <1>11, <2>1, <2>2, ZenonT(30) DEF Moved
  <2> QED BY ZenonT(30), <2>3, <2>4
<1>13. /\ Renamed(one, moved, to, tn, child)
       /\ Dir(one, child) => moved[child].parent = to
  <2>1. CASE Dir(inodes, child) /\ from # to
    <3>1. PICK new : new = [two[child] EXCEPT !.parent = to]
      BY ZenonT(30)
    <3>2. two \in Trees /\ In(two, child) /\ two[child] \in Inode /\ to \in 0..MaxId
      BY <1>2, <1>9, <1>10, Fields DEF Renamed, Id
    <3>3. /\ new \in Inode /\ new.parent = to /\ new.type = two[child].type
          /\ new.entries = two[child].entries
      BY ZenonT(30), <3>1, <3>2 DEF Inode
    <3>4. /\ moved \in Trees /\ moved[child] = new /\ In(moved, child)
          /\ \A i \in Id \ {child} : moved[i] = two[i]
      BY ZenonT(30), <1>2, <1>12, <2>1, <3>1, <3>2, <3>3, MemFsAssumption DEF Trees, In
    <3> QED BY <1>2, <1>10, <3>2, <3>3, <3>4 DEF Renamed, In
  <2>2. CASE ~Dir(inodes, child)
    BY ZenonT(30), <1>2, <1>5, <1>10, <1>12, <2>2 DEF Renamed, Dir
  <2>3. CASE Dir(inodes, child) /\ from = to
    <3>1. inodes[child].parent = from
      BY ZenonT(30), <1>1, <2>3 DEF Good, GoodEntry, Dir
    <3> QED BY ZenonT(30), <1>2, <1>5, <1>9, <1>10, <1>12, <2>3, <3>1
  <2> QED BY ZenonT(30), <2>1, <2>2, <2>3
<1>14. Good(moved)
  BY <1>2, <1>6, <1>9, <1>13, GiveName
<1>15. \A i \in Id : In(moved, i) <=> In(inodes, i)
  BY ZenonT(30), <1>5, <1>13 DEF Renamed
<1>16. ASSUME replaced # 0
       PROVE  /\ replaced \in Id \ {Root}
              /\ Dir(moved, replaced) => NoNames(moved, replaced)
  <2>1. /\ replaced \in Id \ {Root}
        /\ Dir(inodes, replaced) =>
             /\ inodes[replaced].parent = to
             /\ \A m \in Name : inodes[to].entries[m] = replaced => m = tn
    BY ZenonT(30), <1>1, <1>16 DEF Good, GoodEntry, Dir
  <2>2. ASSUME Dir(moved, replaced), NEW d \in Id, NEW m \in Name, In(moved, d),
               moved[d].entries[m] = replaced
        PROVE  FALSE
    <3>1. Dir(inodes, replaced) /\ In(inodes, d) /\ In(one, d)
      <4>1. In(inodes, replaced) /\ In(inodes, d) /\ In(one, d) /\ In(one, replaced)
        BY ZenonT(30), <1>5, <1>15, <2>1, <2>2 DEF Renamed, Dir
      <4>2. moved[replaced].type = one[replaced].type
        BY ZenonT(30), <1>13, <2>1, <4>1 DEF Renamed
      <4>3. one[replaced].type = inodes[replaced].type
        BY ZenonT(30), <1>5, <2>1, <4>1 DEF Renamed
      <4> QED BY ZenonT(30), <2>2, <4>1, <4>2, <4>3 DEF Dir
    <3>2. /\ inodes[d].entries \in [Name -> 0..MaxId] /\ one[d].entries \in [Name -> 0..MaxId]
          /\ inodes[from].entries \in [Name -> 0..MaxId]
          /\ one[to].entries \in [Name -> 0..MaxId]
      BY ZenonT(30), <1>1, <1>9, <3>1, Fields DEF Dir
    <3>3. d # to \/ m # tn
      BY ZenonT(30), <1>1, <1>13, <2>2, <3>2 DEF Renamed
    <3>4. one[d].entries[m] = replaced
      BY ZenonT(30), <1>13, <2>2, <3>1, <3>2, <3>3 DEF Renamed
    <3>5. inodes[d].entries[m] = replaced
      BY ZenonT(30), <1>5, <1>16, <3>1, <3>2, <3>4 DEF Renamed
    <3>6. inodes[replaced].parent = d
      BY <1>1, <1>16, <3>1, <3>5 DEF Good, GoodEntry, Dir
    <3> QED BY ZenonT(30), <2>1, <3>1, <3>3, <3>5, <3>6
  <2> QED BY ZenonT(30), <2>1, <2>2 DEF NoNames
<1>17. moved[Root].parent = inodes[Root].parent
  <2>1. Root \in Id /\ 0 # Root /\ In(inodes, Root)
    BY <1>1, MemFsAssumption DEF Root, Id, Good, Dir
  <2> QED BY ZenonT(30), <1>2, <1>5, <1>13, <2>1 DEF Renamed
<1>18. ASSUME NEW d \in Id, NEW m \in Name, In(inodes, d)
       PROVE  moved[d].entries[m] = IF d = to /\ m = tn THEN child
                                    ELSE IF d = from /\ m = fn THEN 0 ELSE inodes[d].entries[m]
  <2>1. /\ inodes[from].entries \in [Name -> 0..MaxId]
        /\ one[to].entries \in [Name -> 0..MaxId]
    BY ZenonT(30), <1>1, <1>9, Fields DEF Dir
  <2>2. In(one, d) /\ one[d].entries[m] = IF d = from /\ m = fn THEN 0 ELSE inodes[d].entries[m]
    BY ZenonT(30), <1>5, <1>18, <2>1 DEF Renamed
  <2>3. moved[d].entries[m] = IF d = to /\ m = tn THEN child ELSE one[d].entries[m]
    BY ZenonT(30), <1>13, <2>1, <2>2 DEF Renamed
  <2> QED BY ZenonT(30), <2>2, <2>3
<1> QED BY ZenonT(30), <1>1, <1>11, <1>14, <1>15, <1>16, <1>17, <1>18

\* The parent of a directory is a directory, except for the root.
LEMMA ParentIsDir ==
    ASSUME TreeInv, NEW i, i = 0 \/ IsDir(i)
    PROVE  Parent(i) = 0 \/ IsDir(Parent(i))
<1>1. CASE ~IsDir(i) \/ i = Root
  BY ZenonT(30), <1>1 DEF Parent, TreeInv, Rooted
<1>2. CASE IsDir(i) /\ i # Root
  <2>1. i \in Id /\ In(inodes, i) /\ Dir(inodes, i) /\ Parent(i) = inodes[i].parent
    BY ZenonT(30), <1>2 DEF IsDir, Live, In, Dir, Parent
  <2>2. PICK d \in Id, n \in Name : In(inodes, d) /\ inodes[d].entries[n] = i
    BY <1>2, <2>1, RootedNamed DEF TreeInv, NoNames
  <2>3. GoodEntry(inodes, d, n) /\ i # 0
    BY <2>1, <2>2 DEF TreeInv, Good, Id
  <2>4. inodes[i].parent = d
    BY ZenonT(30), <2>1, <2>2, <2>3 DEF GoodEntry, Dir
  <2>5. inodes[d].type = "dir"
    <3>1. inodes[d].type # "dir" => inodes[d].entries = NoEntries
      BY ZenonT(30), <2>2 DEF TreeInv, Good
    <3> QED BY ZenonT(30), <2>2, <2>3, <3>1 DEF NoEntries
  <2> QED BY ZenonT(30), <2>1, <2>2, <2>4, <2>5 DEF IsDir, Live, In
<1> QED BY ZenonT(30), <1>1, <1>2

\* The walk of directory_descends_from, k steps of it.
Walk(d, k, met) ==
    met = [n \in 0..k |-> IF n = 0 THEN {d} ELSE met[n - 1] \cup {Parent(i) : i \in met[n - 1]}]

LEMMA WalkExists ==
    ASSUME NEW d, NEW N \in Nat
    PROVE  \E met : Walk(d, N, met)
<1> DEFINE T == {k \in Nat : ~\E met : Walk(d, k, met)}
<1> SUFFICES ASSUME T # {} PROVE FALSE
  BY ZenonT(30)
<1>1. PICK m \in T : \A k \in T : m <= k
  BY ZenonT(30), LeastNat
<1>2. CASE m = 0
  <2>1. PICK met : met = [n \in 0..0 |-> {d}]
    BY ZenonT(30)
  <2>2. Walk(d, 0, met)
    BY <2>1 DEF Walk
  <2> QED BY ZenonT(30), <1>2, <2>2
<1>3. CASE m # 0
  <2>1. m \in Nat /\ m - 1 \in Nat /\ m - 1 \notin T
    BY <1>1, <1>3
  <2>2. PICK met : Walk(d, m - 1, met)
    BY ZenonT(30), <2>1
  <2>3. PICK last : last = met[m - 1] \cup {Parent(i) : i \in met[m - 1]}
    BY ZenonT(30)
  <2>4. PICK more : more = [n \in 0..m |-> IF n = m THEN last ELSE met[n]]
    BY ZenonT(30)
  <2>5. met[0] = {d}
    BY <2>1, <2>2 DEF Walk
  <2>6. ASSUME NEW n \in 1..(m - 1)
        PROVE  met[n] = met[n - 1] \cup {Parent(i) : i \in met[n - 1]}
    <3>1. n \in 0..(m - 1) /\ n # 0
      BY <2>1
    <3>2. met[n] = IF n = 0 THEN {d} ELSE met[n - 1] \cup {Parent(i) : i \in met[n - 1]}
      BY <2>2, <3>1, Zenon DEF Walk
    <3> QED BY ZenonT(30), <3>1, <3>2
  <2>7. ASSUME NEW n \in 0..m
        PROVE  more[n] = IF n = 0 THEN {d} ELSE more[n - 1] \cup {Parent(i) : i \in more[n - 1]}
    <3>1. CASE n = 0
      BY ZenonT(30), <1>3, <2>1, <2>4, <2>5, <3>1
    <3>2. CASE n = m
      BY <1>3, <2>1, <2>3, <2>4, <3>2
    <3>3. CASE n # 0 /\ n # m
      <4>1. n \in 1..(m - 1) /\ n - 1 \in 0..m /\ n - 1 # m
        BY <2>1, <3>3
      <4>2. more[n] = met[n] /\ more[n - 1] = met[n - 1]
        BY ZenonT(30), <2>4, <3>3, <4>1
      <4> QED BY ZenonT(30), <2>6, <3>3, <4>1, <4>2
    <3> QED BY ZenonT(30), <3>1, <3>2, <3>3
  <2>8. Walk(d, m, more)
    BY ZenonT(30), <2>4, <2>7 DEF Walk
  <2> QED BY ZenonT(30), <2>8
<1> QED BY ZenonT(30), <1>2, <1>3

\* What directory_descends_from compares: from d up to where the parents end.
LEMMA AncestorsClosed ==
    ASSUME TreeInv, NEW d \in Id, IsDir(d)
    PROVE  /\ d \in Ancestors(d)
           /\ \A i \in Ancestors(d) : IsDir(i) /\ Parent(i) \in Ancestors(d) \cup {0}
<1> DEFINE N == Cardinality(Present(inodes))
           P == {0} \cup {i \in Id : IsDir(i)}
           Up(S) == \A i \in S : Parent(i) \in S
<1>1. IsFiniteSet(Present(inodes)) /\ 0 \notin Present(inodes)
  <2>1. IsFiniteSet(Id)
    BY FS_Interval, MemFsAssumption DEF Id
  <2>2. Present(inodes) \in SUBSET Id /\ 0 \notin Id
    BY DEF Present, Id
  <2> QED BY ZenonT(30), <2>1, <2>2, FS_Subset
<1>2. N \in Nat /\ IsFiniteSet(Present(inodes) \cup {0}) /\ Cardinality(Present(inodes) \cup {0}) = N + 1
  BY ZenonT(30), <1>1, FS_CardinalityType, FS_AddElement
<1>3. P \subseteq Present(inodes) \cup {0} /\ \A i \in P : Parent(i) \in P
  <2>1. \A i \in P : Parent(i) = 0 \/ IsDir(Parent(i))
    BY ZenonT(30), ParentIsDir
  <2> QED BY ZenonT(30), <2>1 DEF IsDir, Live, Present
<1>4. \E met : Walk(d, N, met)
  BY ZenonT(30), <1>2, WalkExists
<1>5. PICK met : Walk(d, N, met) /\ Ancestors(d) = met[N] \ {0}
  BY <1>4, Zenon DEF Walk, Ancestors
<1> HIDE DEF N
<1>6. met[0] = {d}
  BY <1>2, <1>5 DEF Walk
<1>7. ASSUME NEW n \in 1..N
      PROVE  met[n] = met[n - 1] \cup {Parent(i) : i \in met[n - 1]}
  <2>1. n \in 0..N /\ n # 0
    BY <1>2
  <2>2. met[n] = IF n = 0 THEN {d} ELSE met[n - 1] \cup {Parent(i) : i \in met[n - 1]}
    BY <1>5, <2>1, Zenon DEF Walk
  <2> QED BY ZenonT(30), <2>1, <2>2
<1> DEFINE Fine(k) == met[k] \subseteq P /\ d \in met[k] /\ (Up(met[k]) \/ Cardinality(met[k]) > k)
           T == {k \in 0..N : ~Fine(k)}
<1>8. T = {}
  <2> SUFFICES ASSUME T # {} PROVE FALSE
    BY ZenonT(30)
  <2>1. T \in SUBSET Nat
    BY <1>2
  <2>2. PICK m \in T : \A k \in T : m <= k
    BY ZenonT(30), <2>1, LeastNat
  <2>3. m # 0
    <3>1. d \in P
      BY ZenonT(30)
    <3>2. Cardinality({d}) = 1
      BY ZenonT(30), FS_Singleton
    <3>3. Fine(0)
      BY <1>6, <3>1, <3>2
    <3> QED BY ZenonT(30), <2>2, <3>3
  <2>4. m \in 1..N /\ m - 1 \in 0..N /\ Fine(m - 1)
    BY <1>2, <2>2, <2>3
  <2> DEFINE was == met[m - 1]
             now == met[m]
  <2>5. now = was \cup {Parent(i) : i \in was}
    BY ZenonT(30), <1>7, <2>4
  <2>6. was \subseteq P /\ d \in was /\ (Up(was) \/ Cardinality(was) > m - 1)
    BY ZenonT(30), <2>4
  <2> HIDE DEF was, now, P
  <2>7. now \subseteq P /\ d \in now /\ was \subseteq now
    BY ZenonT(30), <1>3, <2>5, <2>6
  <2>8. CASE Up(was)
    <3>1. now = was
      BY ZenonT(30), <2>5, <2>8
    <3> QED BY ZenonT(30), <2>2, <2>7, <2>8, <3>1 DEF was, now, P
  <2>9. CASE ~Up(was)
    <3>1. PICK p \in now : p \notin was
      BY ZenonT(30), <2>5, <2>9
    <3>2. IsFiniteSet(now) /\ IsFiniteSet(was)
      BY ZenonT(30), <1>2, <1>3, <2>6, <2>7, FS_Subset
    <3>3. Cardinality(was \cup {p}) = Cardinality(was) + 1 /\ Cardinality(was \cup {p}) <= Cardinality(now)
      <4>1. was \cup {p} \in SUBSET now
        BY ZenonT(30), <2>7, <3>1
      <4> QED BY ZenonT(30), <3>1, <3>2, <4>1, FS_AddElement, FS_Subset
    <3>4. Cardinality(now) \in Nat /\ Cardinality(was) \in Nat /\ m \in Nat
      BY <1>2, <2>4, <3>2, FS_CardinalityType
    <3>5. Cardinality(now) > m
      BY <2>6, <2>9, <3>3, <3>4
    <3> QED BY ZenonT(30), <2>2, <2>7, <3>5 DEF was, now, P
  <2> QED BY ZenonT(30), <2>8, <2>9
<1>9. met[N] \subseteq P /\ d \in met[N] /\ (Up(met[N]) \/ Cardinality(met[N]) > N)
  BY <1>2, <1>8
<1>10. Up(met[N])
  <2> DEFINE all == Present(inodes) \cup {0}
             S == met[N]
  <2>1. S \in SUBSET all
    BY ZenonT(30), <1>3, <1>9
  <2>2. Cardinality(S) <= Cardinality(all) /\ (Cardinality(all) = Cardinality(S) => all = S) /\ Cardinality(S) \in Nat
    BY ZenonT(30), <1>2, <2>1, FS_Subset, FS_CardinalityType
  <2>3. Up(S) \/ S = all
    BY <1>2, <1>9, <2>2
  <2>4. S = all => S = P
    BY ZenonT(30), <1>3, <1>9
  <2> QED BY ZenonT(30), <1>3, <2>3, <2>4
<1>11. d # 0
  BY DEF Id
<1> QED BY ZenonT(30), <1>5, <1>9, <1>10, <1>11

\* A directory that moves below itself would be lost: directory_descends_from refuses it.
LEMMA MovedRooted ==
    ASSUME TreeInv, NEW from \in Id, NEW fn \in Name, NEW to \in Id, NEW tn \in Name,
           Rename(from, fn, to, tn)
    PROVE  /\ RootedBut(Moved(from, fn, to, tn), Lookup(to, tn))
           /\ Lookup(to, tn) # 0 /\ In(inodes, Lookup(to, tn)) =>
                Moved(from, fn, to, tn)[Lookup(to, tn)].entries = NoEntries
<1>1. PICK child, replaced, moved :
        child = Lookup(from, fn) /\ replaced = Lookup(to, tn) /\ moved = Moved(from, fn, to, tn)
  BY ZenonT(30)
<1>2. /\ Good(inodes) /\ Dir(inodes, from) /\ Dir(inodes, to) /\ IsDir(to)
      /\ child = inodes[from].entries[fn] /\ replaced = inodes[to].entries[tn]
      /\ child # 0 /\ replaced # child
  BY ZenonT(30), <1>1 DEF Rename, TreeInv, Good, Lookup, IsDir, Live, Dir, In
<1>3. child \in Id /\ In(inodes, child) /\ 0 \notin Id /\ Root \in Id
  BY <1>2, MemFsAssumption DEF Good, GoodEntry, Dir, Root, Id
<1>4. /\ Good(moved) /\ moved[Root].parent = 0
      /\ \A i \in Id : In(moved, i) <=> In(inodes, i)
      /\ \A d \in Id, m \in Name : In(inodes, d) =>
           moved[d].entries[m] = IF d = to /\ m = tn THEN child
                                 ELSE IF d = from /\ m = fn THEN 0 ELSE inodes[d].entries[m]
  BY <1>1, MovedGood DEF TreeInv, Rooted
<1>5. ASSUME replaced # 0
      PROVE  replaced \in Id /\ inodes[replaced].entries = NoEntries
  <2>1. replaced \in Id /\ In(inodes, replaced)
    BY ZenonT(30), <1>2, <1>5 DEF Good, GoodEntry, Dir
  <2>2. ~IsDir(replaced) => inodes[replaced].entries = NoEntries
    BY ZenonT(30), <1>2, <2>1 DEF Good, IsDir, Live, In
  <2> QED BY ZenonT(30), <1>1, <1>5, <2>1, <2>2 DEF Rename, Replaceable
<1>6. ASSUME NEW S \in SUBSET Id, Root \in S, Closed(moved, S)
      PROVE  \A i \in Id \ {replaced} : In(inodes, i) => i \in S
  <2>1. CASE child \in S
    <3> DEFINE U == S \cup ({replaced} \ {0})
    <3>1. U \in SUBSET Id /\ Root \in U
      BY ZenonT(30), <1>5, <1>6
    <3>2. Closed(inodes, U)
      <4> SUFFICES ASSUME NEW d \in U, NEW m \in Name, In(inodes, d)
                   PROVE  inodes[d].entries[m] \in U \cup {0}
        BY ZenonT(30) DEF Closed
      <4>1. CASE d = replaced /\ d # 0
        BY ZenonT(30), <1>5, <4>1 DEF NoEntries
      <4>2. CASE d \in S
        <5>1. In(moved, d) /\ moved[d].entries[m] \in S \cup {0}
          BY ZenonT(30), <1>4, <1>6, <4>2 DEF Closed
        <5> QED BY ZenonT(30), <1>2, <1>4, <2>1, <4>2, <5>1
      <4> QED BY ZenonT(30), <4>1, <4>2
    <3>3. \A i \in Id : In(inodes, i) => i \in U
      BY ZenonT(30), <3>1, <3>2 DEF TreeInv, Rooted
    <3> QED BY ZenonT(30), <3>3
  <2>2. CASE child \notin S
    <3>1. to \notin S
      BY ZenonT(30), <1>2, <1>3, <1>4, <1>6, <2>2 DEF Closed, Dir
    <3>2. PICK D \in SUBSET Id : child \in D /\ to \notin D /\ Closed(inodes, D)
      <4>1. CASE IsDir(child)
        <5>1. child \notin Ancestors(to) /\ to \in Ancestors(to)
          BY ZenonT(30), <1>1, <1>2, <4>1, AncestorsClosed DEF Rename
        <5>2. Closed(inodes, Id \ Ancestors(to))
          <6> SUFFICES ASSUME NEW d \in Id \ Ancestors(to), NEW m \in Name, In(inodes, d),
                              inodes[d].entries[m] # 0, inodes[d].entries[m] \in Ancestors(to)
                       PROVE  FALSE
            <7>1. ASSUME NEW d \in Id, NEW m \in Name, In(inodes, d)
                  PROVE  inodes[d].entries[m] \in Id \cup {0}
              BY ZenonT(30), <1>2, <7>1 DEF Good, GoodEntry
            <7> QED BY ZenonT(30), <7>1 DEF Closed
          <6>1. PICK j : j = inodes[d].entries[m]
            BY ZenonT(30)
          <6>2. IsDir(j) /\ Parent(j) \in Ancestors(to) \cup {0}
            BY ZenonT(30), <1>2, <6>1, AncestorsClosed
          <6>3. Parent(j) = d
            BY ZenonT(30), <1>2, <6>1, <6>2 DEF Good, GoodEntry, IsDir, Parent
          <6> QED BY ZenonT(30), <1>3, <6>2, <6>3
        <5> QED BY ZenonT(30), <1>3, <5>1, <5>2
      <4>2. CASE ~IsDir(child)
        <5>1. inodes[child].entries = NoEntries
          BY ZenonT(30), <1>2, <1>3, <4>2 DEF Good, IsDir, Live, In
        <5>2. Closed(inodes, {child})
          BY ZenonT(30), <5>1 DEF Closed, NoEntries
        <5> QED BY ZenonT(30), <1>2, <1>3, <4>2, <5>2
      <4> QED BY ZenonT(30), <4>1, <4>2
    <3> DEFINE U == S \cup D
    <3>3. Closed(inodes, U)
      <4> SUFFICES ASSUME NEW d \in U, NEW m \in Name, In(inodes, d)
                   PROVE  inodes[d].entries[m] \in U \cup {0}
        BY ZenonT(30) DEF Closed
      <4>1. CASE d \in D
        BY ZenonT(30), <3>2, <4>1 DEF Closed
      <4>2. CASE d \in S
        <5>1. In(moved, d) /\ moved[d].entries[m] \in S \cup {0} /\ d # to
          BY ZenonT(30), <1>4, <1>6, <3>1, <4>2 DEF Closed
        <5> QED BY ZenonT(30), <1>2, <1>4, <3>2, <4>2, <5>1
      <4> QED BY ZenonT(30), <4>1, <4>2
    <3>4. to \in U
      BY ZenonT(30), <1>2, <1>6, <3>3 DEF TreeInv, Rooted, Dir
    <3> QED BY ZenonT(30), <3>1, <3>2, <3>4
  <2> QED BY ZenonT(30), <2>1, <2>2
<1>7. RootedBut(moved, replaced)
  BY ZenonT(30), <1>4, <1>6 DEF RootedBut
<1>8. ASSUME replaced # 0, In(inodes, replaced)
      PROVE  moved[replaced].entries = NoEntries
  <2>1. replaced \in Id /\ \A m \in Name : inodes[replaced].entries[m] = 0
    BY ZenonT(30), <1>5, <1>8 DEF NoEntries
  <2>2. replaced # to
    BY ZenonT(30), <1>2, <1>8, <2>1
  <2>3. moved[replaced].entries \in [Name -> 0..MaxId]
    BY ZenonT(30), <1>4, <1>8, <2>1, Fields DEF Good
  <2>4. \A m \in Name : moved[replaced].entries[m] = 0
    BY ZenonT(30), <1>4, <1>8, <2>1, <2>2
  <2> QED BY ZenonT(30), <2>3, <2>4 DEF NoEntries
<1> QED BY ZenonT(30), <1>1, <1>7, <1>8

-----------------------------------------------------------------------------
(* The other calls.                                                         *)

\* Two tables with the same names: they differ in sizes, xattrs, counts, change ids.
SameNames(tree, other) ==
    \A i \in Id : /\ In(other, i) <=> In(tree, i)
                  /\ In(tree, i) => /\ other[i].type = tree[i].type
                                    /\ other[i].parent = tree[i].parent
                                    /\ other[i].entries = tree[i].entries

LEMMA SameNamesGood ==
    ASSUME NEW tree, NEW other \in Trees, Good(tree), SameNames(tree, other)
    PROVE  Good(other)
<1>1. Root \in Id
  BY MemFsAssumption DEF Root, Id
<1>2. Dir(other, Root)
  BY ZenonT(30), <1>1 DEF Good, SameNames, Dir
<1>3. \A i \in Id : In(other, i) /\ other[i].type # "dir" => other[i].entries = NoEntries
  BY ZenonT(30) DEF Good, SameNames
<1>4. \A d \in Id, n \in Name : In(other, d) => GoodEntry(other, d, n)
  BY DEF Good, SameNames, GoodEntry
<1> QED BY ZenonT(30), <1>2, <1>3, <1>4 DEF Good

\* recompute_link_counts changes nothing but link counts.
LEMMA RecomputeKeepsNames ==
    ASSUME NEW tree \in Trees
    PROVE  RecomputeLinkCounts(tree) \in Trees /\ SameNames(tree, RecomputeLinkCounts(tree))
<1>1. \A S \in SUBSET (Id \X Name) : Cardinality(S) \in Nat
  <2>1. IsFiniteSet(Id)
    BY FS_Interval, MemFsAssumption DEF Id
  <2>2. IsFiniteSet(Id \X Name)
    BY ZenonT(30), <2>1, FS_Product, MemFsAssumption
  <2> QED BY ZenonT(30), <2>2, FS_Subset, FS_CardinalityType
<1>2. Entries(tree) \in SUBSET (Id \X Name)
  BY ZenonT(30) DEF Entries, Present
<1> DEFINE subdirs(i) == {e \in Entries(tree) : /\ e[1] = i
                                                /\ Target(tree, e) \in Present(tree)
                                                /\ tree[Target(tree, e)].type = "dir"}
           names(i) == {e \in Entries(tree) : Target(tree, e) = i}
           count(i) == IF tree[i].type = "dir" THEN 2 + Cardinality(subdirs(i))
                       ELSE Cardinality(names(i))
<1>3. \A i \in Id : count(i) \in Nat
  <2> SUFFICES ASSUME NEW i \in Id PROVE count(i) \in Nat
    BY ZenonT(30)
  <2>1. subdirs(i) \in SUBSET (Id \X Name) /\ names(i) \in SUBSET (Id \X Name)
    BY ZenonT(30), <1>2
  <2>2. Cardinality(subdirs(i)) \in Nat /\ Cardinality(names(i)) \in Nat
    BY ZenonT(30), <1>1, <2>1
  <2> QED BY <2>2
<1>4. RecomputeLinkCounts(tree) =
        [i \in Id |-> IF tree[i] = NoInode THEN NoInode
                      ELSE [tree[i] EXCEPT !.link_count = count(i)]]
  BY ZenonT(30) DEF RecomputeLinkCounts
<1> HIDE DEF count
<1>5. PICK other : other = RecomputeLinkCounts(tree)
  BY ZenonT(30)
<1>6. ASSUME NEW i \in Id, In(tree, i)
      PROVE  /\ other[i] \in Inode /\ other[i].type = tree[i].type
             /\ other[i].parent = tree[i].parent /\ other[i].entries = tree[i].entries
  <2>1. tree[i] \in Inode /\ count(i) \in Nat
    BY ZenonT(30), <1>3, <1>6, Fields
  <2>2. other[i] = [tree[i] EXCEPT !.link_count = count(i)]
    BY ZenonT(30), <1>4, <1>5, <1>6 DEF In
  <2> QED BY ZenonT(30), <2>1, <2>2 DEF Inode
<1>7. \A i \in Id : ~In(tree, i) => other[i] = NoInode
  BY ZenonT(30), <1>4, <1>5 DEF In
<1>8. other \in Trees
  <2>1. other = [i \in Id |-> other[i]]
    BY ZenonT(30), <1>4, <1>5
  <2> QED BY ZenonT(30), <1>6, <1>7, <2>1 DEF Trees
<1>9. SameNames(tree, other)
  BY ZenonT(30), <1>6, <1>7, MemFsAssumption DEF SameNames, In
<1> QED BY ZenonT(30), <1>5, <1>8, <1>9

LEMMA SameNamesCount ==
    ASSUME NEW tree, NEW other, SameNames(tree, other), NEW i \in Id, In(tree, i)
    PROVE  Count(other, i) = Count(tree, i)
<1>1. Present(other) = Present(tree)
  BY ZenonT(30) DEF Present, SameNames, In
<1>2. Entries(other) = Entries(tree) /\ \A e \in Entries(tree) : Target(other, e) = Target(tree, e)
  BY ZenonT(30), <1>1 DEF Entries, Target, Present, SameNames, In
<1>3. \A t \in Present(tree) : other[t].type = tree[t].type
  BY ZenonT(30) DEF Present, SameNames, In
<1>4. Subdirs(other, i) = Subdirs(tree, i) /\ NamesOf(other, i) = NamesOf(tree, i)
  BY <1>1, <1>2, <1>3 DEF Subdirs, NamesOf
<1>5. other[i].type = tree[i].type
  BY ZenonT(30) DEF SameNames
<1> QED BY ZenonT(30), <1>4, <1>5 DEF Count

\* recompute_link_counts sets every count to what it counts.
LEMMA RecomputeCounts ==
    ASSUME NEW tree \in Trees
    PROVE  Counted(RecomputeLinkCounts(tree))
<1>1. PICK other : other = RecomputeLinkCounts(tree)
  BY ZenonT(30)
<1>2. SameNames(tree, other)
  BY ZenonT(30), <1>1, RecomputeKeepsNames
<1>3. RecomputeLinkCounts(tree) =
        [i \in Id |-> IF tree[i] = NoInode THEN NoInode
                      ELSE [tree[i] EXCEPT !.link_count = Count(tree, i)]]
  BY ZenonT(30) DEF RecomputeLinkCounts, Count, Subdirs, NamesOf
<1>4. ASSUME NEW i \in Id, In(other, i)
      PROVE  other[i].link_count = Count(other, i)
  <2>1. In(tree, i) /\ tree[i] \in Inode
    BY ZenonT(30), <1>2, <1>4, Fields DEF SameNames
  <2>2. other[i] = [tree[i] EXCEPT !.link_count = Count(tree, i)]
    BY ZenonT(30), <1>1, <1>3, <2>1 DEF In
  <2>3. other[i].link_count = Count(tree, i)
    BY ZenonT(30), <2>1, <2>2 DEF Inode
  <2> QED BY ZenonT(30), <1>2, <2>1, <2>3, SameNamesCount
<1> QED BY ZenonT(30), <1>1, <1>4 DEF Counted

LEMMA RecomputeGood ==
    ASSUME NEW tree, Good(tree)
    PROVE  Good(RecomputeLinkCounts(tree))
  BY ZenonT(30), RecomputeKeepsNames, SameNamesGood DEF Good

\* An inode without a name may go.
LEMMA Drop ==
    ASSUME NEW tree, NEW t \in Id, Good(tree), t # Root, NoNames(tree, t)
    PROVE  Good([tree EXCEPT ![t] = NoInode])
<1>1. PICK other : other = [tree EXCEPT ![t] = NoInode]
  BY ZenonT(30)
<1>2. /\ other \in Trees /\ ~In(other, t)
      /\ \A i \in Id \ {t} : other[i] = tree[i]
  BY ZenonT(30), <1>1 DEF Good, Trees, In
<1>3. Root \in Id
  BY MemFsAssumption DEF Root, Id
<1>4. Dir(other, Root)
  BY ZenonT(30), <1>2, <1>3 DEF Good, Dir, In
<1>5. \A i \in Id : In(other, i) /\ other[i].type # "dir" => other[i].entries = NoEntries
  BY ZenonT(30), <1>2 DEF Good, In
<1>6. ASSUME NEW d \in Id, NEW n \in Name, In(other, d)
      PROVE  GoodEntry(other, d, n)
  <2>1. d # t /\ other[d] = tree[d] /\ In(tree, d)
    BY ZenonT(30), <1>2, <1>6 DEF In
  <2>2. GoodEntry(tree, d, n) /\ tree[d].entries[n] # t
    BY ZenonT(30), <2>1 DEF Good, NoNames
  <2> QED BY ZenonT(30), <1>2, <2>1, <2>2 DEF GoodEntry, In
<1>7. Good(other)
  BY ZenonT(30), <1>2, <1>4, <1>5, <1>6 DEF Good
<1> QED BY ZenonT(30), <1>1, <1>7

\* A new inode has no name yet.
LEMMA Add ==
    ASSUME NEW tree, NEW t \in Id, NEW new \in Inode, Good(tree), ~In(tree, t),
           new.entries = NoEntries
    PROVE  Good([tree EXCEPT ![t] = new]) /\ NoNames([tree EXCEPT ![t] = new], t)
<1>1. PICK other : other = [tree EXCEPT ![t] = new]
  BY ZenonT(30)
<1>2. /\ other \in Trees /\ In(other, t) /\ other[t] = new
      /\ \A i \in Id \ {t} : other[i] = tree[i]
  BY ZenonT(30), <1>1, MemFsAssumption DEF Good, Trees, In
<1>3. Root \in Id /\ 0 \notin Id
  BY MemFsAssumption DEF Root, Id
<1>4. Dir(other, Root)
  BY ZenonT(30), <1>2, <1>3 DEF Good, Dir, In
<1>5. \A i \in Id : In(other, i) /\ other[i].type # "dir" => other[i].entries = NoEntries
  BY ZenonT(30), <1>2 DEF Good, In
<1>6. \A n \in Name : new.entries[n] = 0
  BY ZenonT(30) DEF NoEntries
<1>7. ASSUME NEW d \in Id, NEW n \in Name, In(other, d)
      PROVE  GoodEntry(other, d, n) /\ other[d].entries[n] # t
  <2>1. CASE d = t
    BY ZenonT(30), <1>2, <1>3, <1>6, <2>1 DEF GoodEntry
  <2>2. CASE d # t
    <3>1. other[d] = tree[d] /\ In(tree, d) /\ GoodEntry(tree, d, n)
      BY ZenonT(30), <1>2, <1>7, <2>2 DEF In, Good
    <3>2. tree[d].entries[n] # t
      BY ZenonT(30), <1>3, <3>1 DEF GoodEntry
    <3> QED BY ZenonT(30), <1>2, <3>1, <3>2 DEF GoodEntry, In
  <2> QED BY ZenonT(30), <2>1, <2>2
<1>8. Good(other) /\ NoNames(other, t)
  BY ZenonT(30), <1>2, <1>4, <1>5, <1>7 DEF Good, NoNames
<1> QED BY ZenonT(30), <1>1, <1>8

LEMMA SameNamesRooted ==
    ASSUME NEW tree, NEW other, Good(tree), Rooted(tree), SameNames(tree, other)
    PROVE  Rooted(other)
<1>1. Root \in Id /\ In(tree, Root)
  BY MemFsAssumption DEF Root, Id, Good, Dir
<1>2. other[Root].parent = 0
  BY ZenonT(30), <1>1 DEF SameNames, Rooted
<1>3. ASSUME NEW S \in SUBSET Id, Root \in S, Closed(other, S)
      PROVE  \A i \in Id : In(other, i) => i \in S
  <2>1. Closed(tree, S)
    BY ZenonT(30), <1>3 DEF Closed, SameNames
  <2> QED BY ZenonT(30), <1>3, <2>1 DEF Rooted, SameNames
<1> QED BY ZenonT(30), <1>2, <1>3 DEF Rooted

\* An inode that gets a name stays reached, a new one is.
LEMMA GiveNameRooted ==
    ASSUME NEW tree, NEW other, NEW d \in Id, NEW n \in Name, NEW t \in Id \ {Root},
           Good(tree), Rooted(tree), Dir(tree, d), tree[d].entries[n] = 0,
           \A i \in Id \ {t} : In(other, i) <=> In(tree, i),
           \A i \in Id \ {t} : In(tree, i) => other[i].parent = tree[i].parent,
           \A e \in Id, m \in Name : In(tree, e) /\ (e # d \/ m # n) =>
             In(other, e) /\ other[e].entries[m] = tree[e].entries[m],
           In(other, d), other[d].entries[n] = t
    PROVE  Rooted(other)
<1>1. Root \in Id /\ In(tree, Root)
  BY MemFsAssumption DEF Root, Id, Good, Dir
<1>2. other[Root].parent = 0
  BY ZenonT(30), <1>1 DEF Rooted
<1>3. ASSUME NEW S \in SUBSET Id, Root \in S, Closed(other, S)
      PROVE  \A i \in Id : In(other, i) => i \in S
  <2>1. Closed(tree, S)
    BY <1>3 DEF Closed
  <2>2. \A i \in Id : In(tree, i) => i \in S
    BY ZenonT(30), <1>3, <2>1 DEF Rooted
  <2>3. t \in S
    BY <1>3, <2>2 DEF Closed, Dir, Id
  <2> QED BY ZenonT(30), <2>2, <2>3
<1> QED BY ZenonT(30), <1>2, <1>3 DEF Rooted

\* remove_if_unlinked leaves nothing that is not reached: what it does not remove has
\* another name.
LEMMA RemoveRooted ==
    ASSUME NEW tree, NEW t \in Id \ {Root}, Good(tree), RootedBut(tree, t),
           In(tree, t) => tree[t].entries = NoEntries
    PROVE  Rooted(RemoveIfUnlinked(tree, t))
<1>1. Root \in Id
  BY MemFsAssumption DEF Root, Id
<1>2. PICK left : left = RemoveIfUnlinked(tree, t)
  BY ZenonT(30)
<1>3. CASE left = [tree EXCEPT ![t] = NoInode]
  <2>1. ~In(left, t) /\ \A i \in Id \ {t} : left[i] = tree[i]
    BY ZenonT(30), <1>3 DEF Good, Trees, In
  <2>2. left[Root].parent = 0
    BY ZenonT(30), <1>1, <2>1 DEF RootedBut
  <2>3. ASSUME NEW S \in SUBSET Id, Root \in S, Closed(left, S)
        PROVE  \A i \in Id : In(left, i) => i \in S
    <3>1. \A n \in Name : In(tree, t) => tree[t].entries[n] = 0
      BY ZenonT(30) DEF NoEntries
    <3>2. Closed(tree, S \cup {t})
      BY ZenonT(30), <2>1, <2>3, <3>1 DEF Closed, In
    <3>3. \A i \in Id \ {t} : In(tree, i) => i \in S \cup {t}
      BY ZenonT(30), <2>3, <3>2 DEF RootedBut
    <3> QED BY ZenonT(30), <2>1, <3>3 DEF In
  <2> QED BY ZenonT(30), <1>2, <2>2, <2>3 DEF Rooted
<1>4. CASE left = tree /\ left # [tree EXCEPT ![t] = NoInode]
  <2>1. ASSUME In(tree, t)
        PROVE  \E d \in Id \ {t}, n \in Name : In(tree, d) /\ tree[d].entries[n] = t
    <3>1. PICK e \in Entries(tree) : Target(tree, e) = t
      BY ZenonT(30), <1>2, <1>4, <2>1 DEF RemoveIfUnlinked, In
    <3>2. e[1] \in Id /\ e[2] \in Name /\ In(tree, e[1]) /\ tree[e[1]].entries[e[2]] = t
      BY ZenonT(30), <3>1 DEF Entries, Target, Present, In
    <3>3. e[1] # t
      BY <2>1, <3>2 DEF NoEntries, Id
    <3> QED BY ZenonT(30), <3>2, <3>3
  <2>2. ASSUME NEW S \in SUBSET Id, Root \in S, Closed(tree, S)
        PROVE  \A i \in Id : In(tree, i) => i \in S
    <3>1. \A i \in Id \ {t} : In(tree, i) => i \in S
      BY ZenonT(30), <2>2 DEF RootedBut
    <3>2. In(tree, t) => t \in S
      BY <2>1, <2>2, <3>1 DEF Closed, Id
    <3> QED BY ZenonT(30), <3>1, <3>2
  <2> QED BY ZenonT(30), <1>2, <1>4, <2>2 DEF Rooted, RootedBut
<1> QED BY ZenonT(30), <1>2, <1>3, <1>4 DEF RemoveIfUnlinked

\* What loses its name without a name of anything else changing is all that is lost.
LEMMA UnnameRooted ==
    ASSUME NEW tree, NEW other, NEW d \in Id, NEW n \in Name, NEW t \in Id,
           Good(tree), Rooted(tree), In(tree, d), tree[d].entries[n] = t,
           In(tree, t) => tree[t].entries = NoEntries,
           Renamed(tree, other, d, n, 0)
    PROVE  RootedBut(other, t)
<1>1. Root \in Id /\ In(tree, Root) /\ 0 \notin Id
  BY MemFsAssumption DEF Root, Id, Good, Dir
<1>2. other[Root].parent = 0
  BY ZenonT(30), <1>1 DEF Rooted, Renamed
<1>3. ASSUME NEW S \in SUBSET Id, Root \in S, Closed(other, S)
      PROVE  \A i \in Id \ {t} : In(other, i) => i \in S
  <2>1. \A m \in Name : In(tree, t) => tree[t].entries[m] = 0
    BY ZenonT(30) DEF NoEntries
  <2>2. tree[d].entries \in [Name -> 0..MaxId]
    BY ZenonT(30), Fields DEF Good
  <2>3. \A e \in Id, m \in Name : In(tree, e) =>
          In(other, e) /\ (tree[e].entries[m] = other[e].entries[m] \/ tree[e].entries[m] = t)
    BY ZenonT(30), <2>2 DEF Renamed
  <2>4. Closed(tree, S \cup {t})
    BY ZenonT(30), <1>3, <2>1, <2>3 DEF Closed
  <2> QED BY <1>3, <2>4 DEF Rooted, Renamed
<1> QED BY ZenonT(30), <1>2, <1>3 DEF RootedBut

LEMMA PrimeGood ==
    ASSUME Good(inodes')
    PROVE  Good(inodes)'
  BY ZenonT(30) DEF Good, Trees, Dir, In, GoodEntry

LEMMA PrimeCounted ==
    ASSUME Counted(inodes')
    PROVE  Counted(inodes)'
  BY ZenonT(30) DEF Counted, Count, Subdirs, NamesOf, Entries, Target, Present, In

LEMMA PrimeRooted ==
    ASSUME Rooted(inodes')
    PROVE  Rooted(inodes)'
  BY ZenonT(30) DEF Rooted, Closed, In

\* Numbers that are not drawn or not yet used stay free when no inode is added.
LEMMA NoneAdded ==
    ASSUME TreeInv, Good(inodes'), Counted(inodes'), Rooted(inodes'), next_change' \in Change,
           UNCHANGED <<next_id, creating>>,
           \A i \in Id : In(inodes', i) => In(inodes, i)
    PROVE  TreeInv'
<1>1. Good(inodes)'
  BY ZenonT(30), PrimeGood
<1>2. Counted(inodes)' /\ Rooted(inodes)'
  BY ZenonT(30), PrimeCounted, PrimeRooted
<1> QED BY ZenonT(30), <1>1, <1>2 DEF TreeInv, In

LEMMA TakeIdStep ==
    ASSUME TreeInv, TakeId
    PROVE  TreeInv'
<1>1. next_id \in 2..MaxId /\ next_id' = next_id + 1 /\ UNCHANGED <<inodes, next_change>>
  BY SMTT(30), MemFsAssumption DEF TreeInv, TakeId
<1>2. Good(inodes)'
  BY ZenonT(30), <1>1, PrimeGood DEF TreeInv
<1>3. Counted(inodes)' /\ Rooted(inodes)'
  BY ZenonT(30), <1>1, PrimeCounted, PrimeRooted DEF TreeInv
<1>4. creating' \subseteq 2..MaxId /\ next_id' \in 2..(MaxId + 1)
  BY <1>1, MemFsAssumption DEF TreeInv, TakeId
<1>5. /\ \A i \in creating' : i < next_id'
      /\ \A i \in Id : i \in creating' \/ i >= next_id' => ~In(inodes, i)
  BY <1>1, MemFsAssumption DEF TreeInv, TakeId, Id
<1> QED BY ZenonT(30), <1>1, <1>2, <1>3, <1>4, <1>5 DEF TreeInv, In

LEMMA MakeStep ==
    ASSUME TreeInv, NEW id \in Id, NEW p \in Id, NEW n \in Name, NEW kind \in Kind, NEW attrs,
           Make(id, p, n, kind, attrs)
    PROVE  TreeInv'
<1>1. id \in creating /\ creating' = creating \ {id} /\ UNCHANGED next_id /\ ~In(inodes, id)
  BY ZenonT(30) DEF Make, TreeInv
<1>2. CASE UNCHANGED <<inodes, next_change>>
  <2>1. Good(inodes)'
    BY ZenonT(30), <1>2, PrimeGood DEF TreeInv
  <2>2. Counted(inodes)' /\ Rooted(inodes)'
    BY ZenonT(30), <1>2, PrimeCounted, PrimeRooted DEF TreeInv
  <2> QED BY ZenonT(30), <1>1, <1>2, <2>1, <2>2 DEF TreeInv, In
<1>3. CASE ~UNCHANGED <<inodes, next_change>>
  <2>1. PICK c, new :
          /\ c \in {next_change, next_change + 1} /\ c < MaxChange /\ next_change' = c + 1
          /\ new \in {NewInode(id, kind, p), [NewInode(id, kind, p) EXCEPT !.change = next_change]}
          /\ IsDir(p) /\ Lookup(p, n) = 0
          /\ inodes' = RecomputeLinkCounts([inodes EXCEPT
                ![id] = new, ![p].entries[n] = id, ![p].change = c])
    <3>1. CASE attrs = "none"
      BY ZenonT(30), <1>3, <3>1 DEF Make
    <3>2. CASE attrs # "none"
      BY ZenonT(30), <1>3, <3>2 DEF Make
    <3> QED BY ZenonT(30), <3>1, <3>2
  <2>2. c \in Change /\ next_change' \in Change /\ next_change \in Change /\ id \in Change
    BY <2>1, MemFsAssumption DEF TreeInv, Change, Id
  <2>3. /\ new \in Inode /\ new.entries = NoEntries /\ new.parent = p
    <3>1. p \in 0..MaxId /\ NoEntries \in [Name -> 0..MaxId]
      BY MemFsAssumption DEF Id, NoEntries
    <3> QED BY <2>1, <2>2, <3>1, MemFsAssumption DEF NewInode, Inode, Kind
  <2>4. PICK mid : mid = [inodes EXCEPT ![id] = new]
    BY ZenonT(30)
  <2>5. Good(mid) /\ NoNames(mid, id)
    BY ZenonT(30), <1>1, <2>3, <2>4, Add DEF TreeInv
  <2>6. /\ mid \in Trees /\ mid[id] = new /\ p # id
        /\ \A i \in Id \ {id} : mid[i] = inodes[i]
    BY ZenonT(30), <1>1, <2>1, <2>4, <2>5 DEF TreeInv, Good, Trees, IsDir, Live, In
  <2>7. Dir(mid, p) /\ In(mid, id) /\ id # Root
    BY ZenonT(30), <1>1, <2>1, <2>3, <2>6, MemFsAssumption DEF IsDir, Live, Dir, In, TreeInv, Good
  <2>8. PICK tree : tree = Edited(mid, p, n, id, c)
    BY ZenonT(30)
  <2>9. tree = [inodes EXCEPT ![id] = new, ![p].entries[n] = id, ![p].change = c]
    BY ZenonT(30), <2>4, <2>6, <2>8 DEF Edited, TreeInv, Good, Trees
  <2>10. Good(tree)
    <3>1. Renamed(mid, tree, p, n, id) /\ tree[id].parent = p
      BY <2>2, <2>3, <2>6, <2>7, <2>8, EditedFields DEF Id, Dir
    <3> QED BY ZenonT(30), <2>5, <2>7, <3>1, GiveName
  <2>11. Good(inodes') /\ SameNames(tree, inodes')
    BY ZenonT(30), <2>1, <2>9, <2>10, RecomputeGood, RecomputeKeepsNames DEF Good
  <2>12. \A i \in Id \ {id} : In(inodes', i) => In(inodes, i)
    <3>1. Renamed(mid, tree, p, n, id)
      BY SMTT(30), <2>2, <2>6, <2>7, <2>8, EditedFields DEF Id, Dir
    <3> QED BY ZenonT(30), <2>6, <2>11, <3>1 DEF SameNames, Renamed, In
  <2>13. Good(inodes)'
    BY ZenonT(30), <2>11, PrimeGood
  <2>14. Counted(inodes)'
    BY ZenonT(30), <2>1, <2>9, <2>10, RecomputeCounts, PrimeCounted DEF Good
  <2>15. Rooted(tree)
    <3>1. /\ Renamed(mid, tree, p, n, id)
          /\ \A i \in Id : In(mid, i) => tree[i].parent = mid[i].parent
      BY SMTT(30), <2>2, <2>6, <2>7, <2>8, EditedFields DEF Id, Dir
    <3>2. Dir(inodes, p) /\ inodes[p].entries[n] = 0 /\ Good(inodes) /\ Rooted(inodes)
      BY ZenonT(30), <2>1 DEF IsDir, Live, Lookup, Dir, In, TreeInv
    <3>3. /\ \A i \in Id \ {id} : In(tree, i) <=> In(inodes, i)
          /\ \A i \in Id \ {id} : In(inodes, i) => tree[i].parent = inodes[i].parent
      BY ZenonT(30), <2>6, <3>1 DEF Renamed, In
    <3>4. mid[p] = inodes[p] /\ mid[p].entries \in [Name -> 0..MaxId]
      BY ZenonT(30), <2>6, <2>7, Fields DEF Dir
    <3>5. In(tree, p) /\ tree[p].entries[n] = id
      BY ZenonT(30), <2>7, <3>1, <3>4 DEF Renamed, Dir
    <3>6. ASSUME NEW e \in Id, NEW m \in Name, In(inodes, e), e # p \/ m # n
          PROVE  In(tree, e) /\ tree[e].entries[m] = inodes[e].entries[m]
      <4>1. e # id /\ mid[e] = inodes[e] /\ In(mid, e)
        BY ZenonT(30), <1>1, <2>6, <3>6 DEF In
      <4> QED BY <3>1, <3>4, <3>6, <4>1 DEF Renamed
    <3> QED BY SMTT(30), <2>7, <3>2, <3>3, <3>5, <3>6, GiveNameRooted
  <2>16. Rooted(inodes)'
    BY ZenonT(30), <2>10, <2>11, <2>15, SameNamesRooted, PrimeRooted
  <2> QED BY <1>1, <2>2, <2>12, <2>13, <2>14, <2>16, MemFsAssumption DEF TreeInv, In, Id
<1> QED BY ZenonT(30), <1>2, <1>3

\* A call under the lock ends in recompute_link_counts of a good table.
LEMMA Recomputed ==
    ASSUME TreeInv, NEW tree, Good(tree), Rooted(tree), \A i \in Id : In(tree, i) => In(inodes, i),
           inodes' = RecomputeLinkCounts(tree), next_change' \in Change,
           UNCHANGED <<next_id, creating>>
    PROVE  TreeInv'
<1>1. Good(inodes') /\ SameNames(tree, inodes')
  BY ZenonT(30), RecomputeGood, RecomputeKeepsNames DEF Good
<1>2. \A i \in Id : In(inodes', i) => In(inodes, i)
  BY ZenonT(30), <1>1 DEF SameNames
<1>3. Counted(inodes')
  BY ZenonT(30), RecomputeCounts DEF Good
<1>4. Rooted(inodes')
  BY ZenonT(30), <1>1, SameNamesRooted
<1> QED BY ZenonT(30), <1>1, <1>2, <1>3, <1>4, NoneAdded

LEMMA LinkStep ==
    ASSUME TreeInv, NEW source \in Id, NEW p \in Id, NEW n \in Name, Link(source, p, n)
    PROVE  TreeInv'
<1>1. /\ inodes \in Trees /\ Good(inodes) /\ Dir(inodes, p)
      /\ In(inodes, source) /\ ~Dir(inodes, source) /\ source # Root
      /\ inodes[p].entries[n] = 0
  BY ZenonT(30) DEF Link, TreeInv, Good, Lookup, IsDir, Live, Dir, In
<1>2. next_change \in Change /\ next_change' \in Change
  BY ZenonT(30), Spent DEF Link
<1>3. PICK tree : tree = Edited(inodes, p, n, source, next_change)
  BY ZenonT(30)
<1>4. tree = Touched([inodes EXCEPT ![p].entries[n] = source], p)
  BY ZenonT(30), <1>1, <1>3 DEF Edited, Touched, Trees
<1>5. Renamed(inodes, tree, p, n, source)
  BY <1>1, <1>2, <1>3, EditedFields DEF Id, Dir
<1>6. Good(tree)
  BY ZenonT(30), <1>1, <1>5, GiveName
<1>7. Rooted(tree)
  <2>1. inodes[p].entries \in [Name -> 0..MaxId]
    BY ZenonT(30), <1>1, Fields DEF Dir
  <2>2. /\ \A i \in Id : In(tree, i) <=> In(inodes, i)
        /\ \A i \in Id \ {source} : In(inodes, i) => tree[i].parent = inodes[i].parent
        /\ tree[p].entries[n] = source
        /\ \A e \in Id, m \in Name : In(inodes, e) /\ (e # p \/ m # n) =>
             tree[e].entries[m] = inodes[e].entries[m]
    BY ZenonT(30), <1>5, <2>1 DEF Renamed
  <2>3. In(tree, p) /\ Rooted(inodes)
    BY ZenonT(30), <1>1, <2>2 DEF TreeInv, Dir
  <2> QED BY <1>1, <2>2, <2>3, GiveNameRooted
<1> QED BY ZenonT(30), <1>2, <1>4, <1>5, <1>6, <1>7, Recomputed DEF Link, Renamed

\* remove_if_unlinked removes what has no name left: a directory that lost its only
\* one, or anything else once no entry is left.
LEMMA RemoveGood ==
    ASSUME NEW tree, Good(tree), NEW t \in Id, t # Root, Dir(tree, t) => NoNames(tree, t)
    PROVE  /\ Good(RemoveIfUnlinked(tree, t))
           /\ \A i \in Id : In(RemoveIfUnlinked(tree, t), i) => In(tree, i)
<1>1. CASE RemoveIfUnlinked(tree, t) = tree
  BY ZenonT(30), <1>1
<1>2. CASE RemoveIfUnlinked(tree, t) # tree
  <2>1. /\ RemoveIfUnlinked(tree, t) = [tree EXCEPT ![t] = NoInode]
        /\ Dir(tree, t) \/ \A e \in Entries(tree) : Target(tree, e) # t
    BY ZenonT(30), <1>2 DEF RemoveIfUnlinked, Dir, In
  <2>2. ASSUME \A e \in Entries(tree) : Target(tree, e) # t
        PROVE  NoNames(tree, t)
    <3> SUFFICES ASSUME NEW d \in Id, NEW n \in Name, In(tree, d), tree[d].entries[n] = t
                 PROVE  FALSE
      BY ZenonT(30) DEF NoNames
    <3>1. <<d, n>> \in Entries(tree)
      BY MemFsAssumption DEF Entries, Present, In, Id
    <3> QED BY ZenonT(30), <2>2, <3>1 DEF Target
  <2>3. NoNames(tree, t)
    BY ZenonT(30), <2>1, <2>2
  <2>4. Good(RemoveIfUnlinked(tree, t))
    BY ZenonT(30), <2>1, <2>3, Drop
  <2> QED BY ZenonT(30), <2>1, <2>4 DEF In, Good, Trees
<1> QED BY ZenonT(30), <1>1, <1>2

LEMMA RemoveStep ==
    ASSUME TreeInv, NEW p \in Id, NEW n \in Name, Remove(p, n)
    PROVE  TreeInv'
<1> DEFINE child == inodes[p].entries[n]
<1>1. /\ inodes \in Trees /\ Good(inodes) /\ Dir(inodes, p)
      /\ Lookup(p, n) = child /\ child # 0
  BY ZenonT(30) DEF Remove, TreeInv, Good, Lookup, IsDir, Live, Dir, In
<1>2. child \in Id /\ child # Root
  BY ZenonT(30), <1>1 DEF Good, GoodEntry, Dir
<1>3. next_change \in Change /\ next_change' \in Change
  BY ZenonT(30), Spent DEF Remove
<1>4. PICK tree : tree = Edited(inodes, p, n, 0, next_change)
  BY ZenonT(30)
<1>5. tree = Touched([inodes EXCEPT ![p].entries[n] = 0], p)
  BY ZenonT(30), <1>1, <1>4 DEF Edited, Touched, Trees
<1>6. Renamed(inodes, tree, p, n, 0)
  BY <1>1, <1>3, <1>4, EditedFields, MemFsAssumption DEF Dir
<1>7. Good(tree) /\ (Dir(tree, child) => NoNames(tree, child))
  BY ZenonT(30), <1>1, <1>2, <1>6, Unname DEF Renamed, Dir
<1>8. PICK left : left = RemoveIfUnlinked(tree, child)
  BY ZenonT(30)
<1>9. Good(left) /\ \A i \in Id : In(left, i) => In(inodes, i)
  BY ZenonT(30), <1>2, <1>6, <1>7, <1>8, RemoveGood DEF Renamed
<1>10. inodes' = RecomputeLinkCounts(left)
  BY ZenonT(30), <1>1, <1>5, <1>8 DEF Remove
<1>11. Rooted(left)
  <2>1. In(inodes, child) => inodes[child].entries = NoEntries
    BY ZenonT(30), <1>1, <1>2 DEF Remove, Good, IsDir, Live, In
  <2>2. RootedBut(tree, child)
    BY ZenonT(30), <1>1, <1>2, <1>6, <2>1, UnnameRooted DEF TreeInv, Dir
  <2>3. In(tree, child) => tree[child].entries = NoEntries
    <3>1. child # p
      BY ZenonT(30), <1>1, <2>1 DEF Dir, NoEntries
    <3> QED BY ZenonT(30), <1>2, <1>6, <2>1, <3>1 DEF Renamed
  <2> QED BY ZenonT(30), <1>2, <1>7, <1>8, <2>2, <2>3, RemoveRooted
<1> QED BY ZenonT(30), <1>3, <1>9, <1>10, <1>11, Recomputed DEF Remove

LEMMA RenameStep ==
    ASSUME TreeInv, NEW from \in Id, NEW fn \in Name, NEW to \in Id, NEW tn \in Name,
           Rename(from, fn, to, tn)
    PROVE  TreeInv'
<1>1. PICK moved, replaced : moved = Moved(from, fn, to, tn) /\ replaced = Lookup(to, tn)
  BY Zenon
<1>2. /\ Good(moved) /\ \A i \in Id : In(moved, i) <=> In(inodes, i)
      /\ replaced # 0 => /\ replaced \in Id \ {Root}
                         /\ Dir(moved, replaced) => NoNames(moved, replaced)
  BY ZenonT(30), <1>1, MovedGood
<1>3. PICK tree : tree = IF replaced = 0 THEN moved ELSE RemoveIfUnlinked(moved, replaced)
  BY ZenonT(30)
<1>4. Good(tree) /\ \A i \in Id : In(tree, i) => In(inodes, i)
  BY ZenonT(30), <1>2, <1>3, RemoveGood
<1>5. inodes' = RecomputeLinkCounts(tree) /\ UNCHANGED <<next_id, creating>>
  BY ZenonT(30), <1>1, <1>3 DEF Rename
<1>6. next_change' \in Change
  BY ZenonT(30), Spent DEF Rename
<1>7. Rooted(tree)
  <2>1. /\ RootedBut(moved, replaced)
        /\ replaced # 0 /\ In(inodes, replaced) => moved[replaced].entries = NoEntries
    BY ZenonT(30), <1>1, MovedRooted
  <2>2. CASE replaced = 0
    BY <1>3, <2>1, <2>2 DEF RootedBut, Rooted, Id
  <2>3. CASE replaced # 0
    BY ZenonT(30), <1>2, <1>3, <2>1, <2>3, RemoveRooted
  <2> QED BY ZenonT(30), <2>2, <2>3
<1> QED BY ZenonT(30), <1>4, <1>5, <1>6, <1>7, Recomputed

\* A call that leaves names alone.
Altered(i, size, xattrs) ==
    [inodes EXCEPT ![i] = [inodes[i] EXCEPT !.size = size, !.xattrs = xattrs, !.change = next_change]]

LEMMA ContentsAlter ==
    ASSUME TreeInv, Contents
    PROVE  \E i \in Id :
             /\ In(inodes, i) /\ Spend(1) /\ UNCHANGED <<next_id, creating>>
             /\ \E size \in 0..MaxBytes, xattrs \in SUBSET XattrName : inodes' = Altered(i, size, xattrs)
<1>1. PICK i \in Id :
        \/ \E offset, length \in Sizes : Write(i, offset, length)
        \/ \E size \in Sizes : SetSize(i, size)
        \/ SetMode(i)
        \/ \E x \in XattrName : \/ RemoveXattr(i, x)
                                \/ \E mode \in {"create", "replace", "either"} : SetXattr(i, x, mode)
  BY ZenonT(30) DEF Contents
<1>2. inodes \in Trees /\ Spend(1) /\ UNCHANGED <<next_id, creating>> /\ In(inodes, i)
  BY ZenonT(30), <1>1 DEF TreeInv, Good, Write, SetSize, SetMode, RemoveXattr, SetXattr, IsFile, Live, In
<1>3. inodes[i] \in Inode
  BY ZenonT(30), <1>2, Fields
<1>4. inodes[i].size \in 0..MaxBytes /\ inodes[i].xattrs \in SUBSET XattrName
  BY ZenonT(30), <1>3 DEF Inode
<1>5. ASSUME NEW size, inodes' = Touched([inodes EXCEPT ![i].size = size], i)
      PROVE  inodes' = Altered(i, size, inodes[i].xattrs)
  BY ZenonT(30), <1>2, <1>3, <1>5 DEF Touched, Altered, Trees, Inode
<1>6. ASSUME NEW offset \in Sizes, NEW length \in Sizes, Write(i, offset, length)
      PROVE  \E size \in 0..MaxBytes : inodes' = Altered(i, size, inodes[i].xattrs)
  <2>1. PICK size \in 0..MaxBytes :
           size = IF offset + length > inodes[i].size THEN offset + length ELSE inodes[i].size
    BY <1>4, <1>6, MemFsAssumption DEF Write
  <2>2. inodes' = Touched([inodes EXCEPT ![i].size = size], i)
    BY ZenonT(30), <1>6, <2>1 DEF Write
  <2> QED BY ZenonT(30), <1>5, <2>2
<1>7. ASSUME NEW size \in Sizes, SetSize(i, size)
      PROVE  size \in 0..MaxBytes /\ inodes' = Altered(i, size, inodes[i].xattrs)
  <2>1. size \in 0..MaxBytes
    BY <1>7, MemFsAssumption DEF SetSize
  <2> QED BY ZenonT(30), <1>5, <1>7, <2>1 DEF SetSize
<1>8. ASSUME SetMode(i)
      PROVE  inodes' = Altered(i, inodes[i].size, inodes[i].xattrs)
  BY ZenonT(30), <1>2, <1>3, <1>8 DEF SetMode, Touched, Altered, Trees, Inode
<1>9. ASSUME NEW x \in XattrName,
             RemoveXattr(i, x) \/ \E mode \in {"create", "replace", "either"} : SetXattr(i, x, mode)
      PROVE  \E xattrs \in SUBSET XattrName : inodes' = Altered(i, inodes[i].size, xattrs)
  <2>1. PICK xattrs \in SUBSET XattrName :
           inodes' = Touched([inodes EXCEPT ![i] = [inodes[i] EXCEPT !.xattrs = xattrs]], i)
    BY ZenonT(30), <1>4, <1>9 DEF RemoveXattr, SetXattr
  <2> QED BY ZenonT(30), <1>2, <1>3, <2>1 DEF Touched, Altered, Trees, Inode
<1>10. \E size \in 0..MaxBytes, xattrs \in SUBSET XattrName : inodes' = Altered(i, size, xattrs)
  <2>1. CASE \E offset, length \in Sizes : Write(i, offset, length)
    BY ZenonT(30), <1>4, <1>6, <2>1
  <2>2. CASE \E size \in Sizes : SetSize(i, size)
    BY ZenonT(30), <1>4, <1>7, <2>2
  <2>3. CASE SetMode(i)
    BY ZenonT(30), <1>4, <1>8, <2>3
  <2>4. CASE \E x \in XattrName :
                \/ RemoveXattr(i, x)
                \/ \E mode \in {"create", "replace", "either"} : SetXattr(i, x, mode)
    BY ZenonT(30), <1>4, <1>9, <2>4
  <2> QED BY ZenonT(30), <1>1, <2>1, <2>2, <2>3, <2>4
<1> QED BY ZenonT(30), <1>2, <1>10

LEMMA ContentsStep ==
    ASSUME TreeInv, Contents
    PROVE  TreeInv'
<1>1. PICK i \in Id :
        /\ In(inodes, i) /\ Spend(1) /\ UNCHANGED <<next_id, creating>>
        /\ \E size \in 0..MaxBytes, xattrs \in SUBSET XattrName : inodes' = Altered(i, size, xattrs)
  BY ZenonT(30), ContentsAlter
<1>a. PICK size \in 0..MaxBytes, xattrs \in SUBSET XattrName : inodes' = Altered(i, size, xattrs)
  BY ZenonT(30), <1>1
<1>2. PICK new :
        /\ new = [inodes[i] EXCEPT !.size = size, !.xattrs = xattrs, !.change = next_change]
        /\ inodes' = [inodes EXCEPT ![i] = new]
  BY ZenonT(30), <1>a DEF Altered
<1>3. inodes \in Trees /\ inodes[i] \in Inode /\ Good(inodes)
  BY ZenonT(30), <1>1, Fields DEF TreeInv, Good
<1>4. next_change \in Change /\ next_change' \in Change
  BY ZenonT(30), <1>1, Spent
<1>5. /\ new \in Inode /\ new.type = inodes[i].type /\ new.parent = inodes[i].parent
      /\ new.entries = inodes[i].entries /\ new.link_count = inodes[i].link_count
  BY ZenonT(30), <1>2, <1>3, <1>4 DEF Inode
<1>6. /\ inodes' \in Trees /\ inodes'[i] = new /\ In(inodes', i)
      /\ \A j \in Id \ {i} : inodes'[j] = inodes[j]
  BY ZenonT(30), <1>2, <1>3, <1>5, MemFsAssumption DEF Trees, In
<1>7. SameNames(inodes, inodes')
  BY ZenonT(30), <1>1, <1>5, <1>6 DEF SameNames, In
<1>8. Good(inodes')
  BY ZenonT(30), <1>3, <1>6, <1>7, SameNamesGood
<1>9. Counted(inodes')
  <2> SUFFICES ASSUME NEW j \in Id, In(inodes', j)
               PROVE  inodes'[j].link_count = Count(inodes', j)
    BY ZenonT(30) DEF Counted
  <2>1. In(inodes, j) /\ inodes'[j].link_count = inodes[j].link_count
    BY ZenonT(30), <1>5, <1>6, <1>7 DEF SameNames
  <2>2. inodes[j].link_count = Count(inodes, j)
    BY ZenonT(30), <2>1 DEF TreeInv, Counted
  <2> QED BY ZenonT(30), <1>7, <2>1, <2>2, SameNamesCount
<1>10. Rooted(inodes')
  BY ZenonT(30), <1>3, <1>7, SameNamesRooted DEF TreeInv
<1> QED BY ZenonT(30), <1>1, <1>4, <1>7, <1>8, <1>9, <1>10, NoneAdded DEF SameNames

LEMMA TreeInvStep ==
    ASSUME TreeInv, [Next]_vars
    PROVE  TreeInv'
<1>1. CASE UNCHANGED vars
  <2>1. inodes' \in Trees /\ Good(inodes') /\ Counted(inodes') /\ Rooted(inodes')
    BY ZenonT(30), <1>1 DEF vars, TreeInv, Good
  <2> QED BY ZenonT(30), <1>1, <2>1, NoneAdded DEF vars, TreeInv
<1>2. ASSUME NEW id \in Id, NEW p \in Id, NEW n \in Name, NEW attrs,
             \/ \E kind \in Kind : Create(id, p, n, kind, attrs)
             \/ CreateSymlink(id, p, n, attrs)
      PROVE  TreeInv'
  <2>1. PICK kind \in Kind : Make(id, p, n, kind, attrs)
    BY ZenonT(30), <1>2 DEF Create, CreateSymlink, Kind
  <2> QED BY ZenonT(30), <2>1, MakeStep
<1>3. CASE Names
  BY ZenonT(30), <1>3, LinkStep, RemoveStep, RenameStep DEF Names
<1> QED BY ZenonT(30), <1>1, <1>2, <1>3, TakeIdStep, ContentsStep DEF Next

LEMMA TreeInvInit ==
    ASSUME Init
    PROVE  TreeInv
<1>1. Root \in Id /\ 0 \in 0..MaxId /\ 0 \in 0..MaxBytes /\ Root \in Change /\ 2 \in Change
  BY MemFsAssumption DEF Root, Id, Change
<1>2. NoEntries \in [Name -> 0..MaxId] /\ \A n \in Name : NoEntries[n] = 0
  BY ZenonT(30), <1>1 DEF NoEntries
<1>3. PICK root : root = NewInode(Root, "dir", 0)
  BY ZenonT(30)
<1>4. root \in Inode /\ root.type = "dir" /\ root.entries = NoEntries
  BY ZenonT(30), <1>1, <1>2, <1>3 DEF NewInode, Inode, Kind
<1>5. inodes \in Trees /\ inodes[Root] = root /\ \A i \in Id \ {Root} : inodes[i] = NoInode
  BY ZenonT(30), <1>1, <1>3, <1>4 DEF Init, Trees
<1>6. Good(inodes)
  BY ZenonT(30), <1>1, <1>2, <1>4, <1>5, MemFsAssumption DEF Good, Dir, In, GoodEntry
<1>7. Counted(inodes)
  <2>1. Present(inodes) = {Root}
    BY ZenonT(30), <1>1, <1>3, <1>4, <1>5, MemFsAssumption DEF Present
  <2>2. Entries(inodes) = {}
    BY ZenonT(30), <1>2, <1>4, <1>5, <2>1 DEF Entries
  <2>3. Subdirs(inodes, Root) = {}
    BY ZenonT(30), <2>2 DEF Subdirs
  <2>4. Count(inodes, Root) = 2
    BY <1>4, <1>5, <2>3, FS_EmptySet DEF Count
  <2>5. root.link_count = 2
    BY ZenonT(30), <1>3 DEF NewInode
  <2> QED BY ZenonT(30), <1>5, <2>4, <2>5 DEF Counted, In
<1>8. Rooted(inodes)
  BY <1>1, <1>3, <1>5 DEF Rooted, In, NewInode
<1> QED BY <1>1, <1>5, <1>6, <1>7, <1>8, MemFsAssumption DEF Init, TreeInv, In, Root, Id

-----------------------------------------------------------------------------
(* The theorems.                                                            *)

\* No name dangles in MemFs (NamesResolve): for any number of inodes and names and
\* any order of create, link, remove and rename, what an entry names is there.
THEOREM NamesAlwaysResolve == Spec => []NamesResolve
<1>1. ASSUME TreeInv
      PROVE  NamesResolve
  BY ZenonT(30), <1>1 DEF TreeInv, Good, GoodEntry, NamesResolve, Lookup, IsDir, Live, In
<1> QED BY <1>1, TreeInvInit, TreeInvStep, PTL DEF Spec

\* A directory of MemFs has at most one name, in the directory parent returns, and
\* the root none (DirectoriesHaveOneName), whatever rename moved or replaced.
THEOREM DirectoriesAlwaysHaveOneName == Spec => []DirectoriesHaveOneName
<1>1. ASSUME TreeInv
      PROVE  DirectoriesHaveOneName
  <2>1. \A d \in Id : IsDir(d) <=> Dir(inodes, d)
    BY ZenonT(30) DEF IsDir, Live, Dir, In
  <2>2. ASSUME NEW d \in Id, NEW n \in Name, Lookup(d, n) # 0
        PROVE  /\ Dir(inodes, d) /\ Lookup(d, n) = inodes[d].entries[n]
               /\ Lookup(d, n) \in Id /\ Lookup(d, n) # Root /\ GoodEntry(inodes, d, n)
    <3>1. Dir(inodes, d) /\ Lookup(d, n) = inodes[d].entries[n]
      BY ZenonT(30), <2>1, <2>2 DEF Lookup
    <3>2. GoodEntry(inodes, d, n)
      BY ZenonT(30), <1>1, <3>1 DEF TreeInv, Good, Dir
    <3> QED BY ZenonT(30), <2>2, <3>1, <3>2 DEF GoodEntry
  <2>3. \A n \in Name, d \in Id : Lookup(d, n) # Root
    BY <2>2 DEF Root
  <2>4. ASSUME NEW d \in Id, NEW n \in Name, IsDir(Lookup(d, n))
        PROVE  /\ Parent(Lookup(d, n)) = d
               /\ \A m \in Name : Lookup(d, m) = Lookup(d, n) => m = n
    <3> DEFINE t == Lookup(d, n)
    <3>1. t # 0
      BY <2>4 DEF IsDir, Live, Id
    <3>2. /\ Dir(inodes, d) /\ t = inodes[d].entries[n] /\ t \in Id /\ GoodEntry(inodes, d, n)
      BY ZenonT(30), <2>2, <3>1
    <3>3. inodes[t].type = "dir" /\ Parent(t) = inodes[t].parent
      BY ZenonT(30), <2>4 DEF IsDir, Parent
    <3>4. inodes[t].parent = d /\ \A m \in Name : inodes[d].entries[m] = t => m = n
      BY ZenonT(30), <3>1, <3>2, <3>3 DEF GoodEntry
    <3>5. \A m \in Name : Lookup(d, m) = inodes[d].entries[m]
      BY ZenonT(30), <2>1, <3>2 DEF Lookup
    <3> QED BY ZenonT(30), <3>3, <3>4, <3>5
  <2> QED BY ZenonT(30), <2>3, <2>4 DEF DirectoriesHaveOneName
<1> QED BY <1>1, TreeInvInit, TreeInvStep, PTL DEF Spec

\* Every count recompute_link_counts leaves is the number of names of a file or symbolic
\* link, and 2 and the subdirectories for a directory (LinkCountsAreNames), and no call
\* that changes names leaves without recomputing.
THEOREM LinkCountsAlwaysAreNames == Spec => []LinkCountsAreNames
<1>1. ASSUME TreeInv
      PROVE  LinkCountsAreNames
  <2> SUFFICES ASSUME NEW i \in Id, Live(i)
               PROVE  inodes[i].link_count =
                        IF IsDir(i) THEN 2 + Cardinality({n \in Name : IsDir(Lookup(i, n))})
                        ELSE Cardinality({e \in Id \X Name : Lookup(e[1], e[2]) = i})
    BY ZenonT(30) DEF LinkCountsAreNames
  <2>1. inodes[i].link_count = Count(inodes, i)
    BY ZenonT(30), <1>1 DEF TreeInv, Counted, Live, In
  <2>2. CASE IsDir(i)
    <3> DEFINE S == {n \in Name : IsDir(Lookup(i, n))}
               T == Subdirs(inodes, i)
               f == [n \in S |-> <<i, n>>]
    <3>1. IsFiniteSet(S)
      BY ZenonT(30), FS_Subset, MemFsAssumption
    <3>2. \A n \in Name : Lookup(i, n) = inodes[i].entries[n]
      BY ZenonT(30), <2>2 DEF Lookup
    <3>3. \A n \in Name : n \in S <=> <<i, n>> \in T
      BY <2>2, <3>2 DEF IsDir, Live, Subdirs, Entries, Target, Present, Id
    <3>4. \A e \in T : e = <<i, e[2]>> /\ e[2] \in Name
      BY DEF Subdirs, Entries
    <3> HIDE DEF T
    <3>5. f \in Bijection(S, T)
      <4>1. f \in [S -> T]
        BY ZenonT(30), <3>3
      <4>2. \A n, m \in S : f[n] = f[m] => n = m
        BY ZenonT(30)
      <4>3. \A e \in T : \E n \in S : f[n] = e
        BY ZenonT(30), <3>3, <3>4
      <4> QED BY ZenonT(30), <4>1, <4>2, <4>3 DEF Bijection, Injection, Surjection, IsInjective
    <3>6. Cardinality(T) = Cardinality(S)
      BY ZenonT(30), <3>1, <3>5, FS_Bijection DEF ExistsBijection
    <3>7. Count(inodes, i) = 2 + Cardinality(T)
      BY ZenonT(30), <2>2 DEF Count, IsDir, T
    <3> QED BY ZenonT(30), <2>1, <2>2, <3>6, <3>7
  <2>3. CASE ~IsDir(i)
    <3>1. ASSUME NEW d \in Id, NEW n \in Name
          PROVE  Lookup(d, n) = i <=> <<d, n>> \in NamesOf(inodes, i)
      <4>1. i # 0
        BY DEF Id
      <4>2. CASE IsDir(d)
        BY ZenonT(30), <4>1, <4>2 DEF Lookup, IsDir, Live, NamesOf, Entries, Target, Present
      <4>3. CASE ~IsDir(d) /\ In(inodes, d)
        <5>1. inodes[d].entries[n] = 0
          BY ZenonT(30), <1>1, <4>3 DEF TreeInv, Good, IsDir, Live, In, NoEntries
        <5> QED BY ZenonT(30), <4>1, <4>3, <5>1 DEF Lookup, NamesOf, Entries, Target
      <4>4. CASE ~In(inodes, d)
        BY ZenonT(30), <4>1, <4>4 DEF Lookup, IsDir, Live, In, NamesOf, Entries, Present
      <4> QED BY ZenonT(30), <4>2, <4>3, <4>4
    <3>2. NamesOf(inodes, i) \subseteq Id \X Name
      BY ZenonT(30) DEF NamesOf, Entries, Present
    <3>3. {e \in Id \X Name : Lookup(e[1], e[2]) = i} = NamesOf(inodes, i)
      BY <3>1, <3>2
    <3>4. Count(inodes, i) = Cardinality(NamesOf(inodes, i))
      BY ZenonT(30), <2>3 DEF Count, IsDir
    <3> QED BY ZenonT(30), <2>1, <2>3, <3>3, <3>4
  <2> QED BY ZenonT(30), <2>2, <2>3
<1> QED BY <1>1, TreeInvInit, TreeInvStep, PTL DEF Spec

\* Nothing is lost in MemFs (NothingIsLost): every inode is reached from the root, for any
\* number of inodes and names.  rename cannot cut a directory off, because the walk of
\* directory_descends_from, as many steps as there are inodes, meets every ancestor.
THEOREM NothingIsEverLost == Spec => []NothingIsLost
<1>1. ASSUME TreeInv
      PROVE  NothingIsLost
  <2> SUFFICES ASSUME NEW i \in Id, Live(i), NEW S \in SUBSET Id, Root \in S,
                      \A d \in S, n \in Name : Lookup(d, n) # 0 => Lookup(d, n) \in S
               PROVE  i \in S
    BY ZenonT(30) DEF NothingIsLost, Reachable
  <2>1. Closed(inodes, S)
    <3> SUFFICES ASSUME NEW d \in S, NEW n \in Name, In(inodes, d), inodes[d].entries[n] # 0
                 PROVE  inodes[d].entries[n] \in S
      BY ZenonT(30) DEF Closed
    <3>1. inodes[d].type = "dir"
      BY ZenonT(30), <1>1 DEF TreeInv, Good, NoEntries
    <3>2. Lookup(d, n) = inodes[d].entries[n]
      BY ZenonT(30), <3>1 DEF Lookup, IsDir, Live, In
    <3> QED BY ZenonT(30), <3>2
  <2> QED BY ZenonT(30), <1>1, <2>1 DEF TreeInv, Rooted, Live, In
<1> QED BY <1>1, TreeInvInit, TreeInvStep, PTL DEF Spec
=============================================================================
