--------------------------- MODULE ListingsProofs ---------------------------
(***************************************************************************)
(* Proofs about Listings, for any finite set of names and any number of    *)
(* requests that add and remove names: what READDIR and LISTXATTRS return. *)
(***************************************************************************)
EXTENDS Listings, FiniteSetTheorems, TLAPS

\* Every name has attributes that can be read.
AllReadable == Unreadable = {}

-----------------------------------------------------------------------------
(* Positions.                                                               *)

PosIn(N, n) == Cardinality({m \in N : m <= n})

\* The names of N up to position p.
UpTo(N, p) == {n \in N : PosIn(N, n) <= p}

LEMMA PositionBounds ==
    ASSUME NEW N \in SUBSET Name
    PROVE  /\ Cardinality(N) \in Nat
           /\ \A n \in N : PosIn(N, n) \in 1..Cardinality(N)
<1>1. IsFiniteSet(N) /\ Cardinality(N) \in Nat
  BY ListingsAssumption, FS_Subset, FS_CardinalityType
<1>2. ASSUME NEW n \in N
      PROVE  PosIn(N, n) \in 1..Cardinality(N)
  <2>1. PICK S : S = {m \in N : m <= n}
    BY Zenon
  <2>2. S \in SUBSET N
    BY <2>1
  <2>3. IsFiniteSet(S) /\ Cardinality(S) \in Nat /\ Cardinality(S) <= Cardinality(N)
    BY <1>1, <2>2, FS_Subset, FS_CardinalityType
  <2>4. n \in S
    <3>1. n \in Nat
      BY <1>2, ListingsAssumption
    <3> QED BY <2>1, <3>1
  <2>5. Cardinality(S) # 0
    BY <2>3, <2>4, FS_EmptySet
  <2> QED BY <1>1, <2>1, <2>3, <2>5 DEF PosIn
<1> QED BY <1>1, <1>2

\* No name is at position 0, and all are up to the last position.
LEMMA Ends0 ==
    ASSUME NEW N \in SUBSET Name
    PROVE  UpTo(N, 0) = {} /\ \A p \in Nat : Cardinality(N) <= p => UpTo(N, p) = N
<1>1. ASSUME NEW n \in N
      PROVE  ~(PosIn(N, n) <= 0) /\ \A p \in Nat : Cardinality(N) <= p => PosIn(N, n) <= p
  BY PositionBounds
<1> QED BY <1>1 DEF UpTo

-----------------------------------------------------------------------------
(* The inductive invariant.                                                 *)

Start(r) == IF r.cookie = 0 THEN 0 ELSE r.cookie - 2

\* The entries the backend was asked for: k of them, from where the client is.
Asked(N, D, r, k) ==
    /\ \A e \in r.entries : /\ e.name \in N /\ e.name \notin D
                            /\ Start(r) < PosIn(N, e.name) /\ PosIn(N, e.name) <= Start(r) + k
                            /\ e.cookie = PosIn(N, e.name) + 2
    /\ \A n \in N : n \notin D /\ Start(r) < PosIn(N, n) /\ PosIn(N, n) <= Start(r) + k
                      => [name |-> n, cookie |-> PosIn(N, n) + 2] \in r.entries
    /\ r.eof => Cardinality(N) <= Start(r) + k

\* The client has what is up to its cookie.
Exact(N, D, r) ==
    /\ r.pc \in {"ask", "count", "fetch", "answer"} => r.got = UpTo(N, Start(r)) \ D
    /\ r.pc = "answer" => \E k \in Nat : Asked(N, D, r, k)
    /\ r.pc = "done" => r.got = N \ D

\* The verifier of the pages is still the change id, and it means something.
Vouched ==
    AllReadable /\ rd.verf = change /\ ~rd.foreign /\ \A t \in Task : tasks[t].pc = "idle"

Tasks == [Task -> [pc : {"idle", "refresh", "store", "touch"}, n : Nat]]

ListInv ==
    /\ names \subseteq Name /\ change \in Nat /\ tasks \in Tasks
    /\ rd \in Readdir /\ lx \in Listxattrs
    /\ rd.verf <= change
    /\ rd.cookie = 0 \/ rd.cookie > 2
    /\ \A e \in rd.entries : e.cookie > 2
    /\ rd.pc \in {"ask", "count", "fetch", "answer"} /\ rd.cookie = 0 => rd.got = {}
    /\ Vouched => Exact(names, Dropped, rd)
    /\ lx.clean => /\ lx.pc = "ask" => lx.got = UpTo(names, lx.cookie)
                   /\ lx.pc = "done" => lx.got = names

LEMMA InitInv ==
    ASSUME Init
    PROVE  ListInv
<1>1. rd = NoReaddir /\ lx = NoListxattrs /\ change = 1 /\ names \in SUBSET Name
  BY DEF Init
<1>2. tasks \in Tasks
  BY DEF Init, Tasks
<1>3. rd \in Readdir /\ rd.verf = 0 /\ rd.cookie = 0 /\ rd.pc = "off" /\ rd.entries = {}
  BY <1>1 DEF NoReaddir, Readdir
<1>4. lx \in Listxattrs /\ lx.pc = "off"
  BY <1>1 DEF NoListxattrs, Listxattrs
<1>5. ~Vouched
  BY <1>1, <1>3 DEF Vouched
<1> QED BY <1>1, <1>2, <1>3, <1>4, <1>5 DEF ListInv

\* A request that adds or removes a name leaves no listing that the verifier vouches for.
LEMMA MutateInv ==
    ASSUME ListInv, names' \subseteq Name, change' \in Nat, tasks' \in Tasks, rd' \in Readdir,
           lx' = [lx EXCEPT !.clean = FALSE], rd.verf <= change', ~Vouched',
           rd'.pc = rd.pc, rd'.verf = rd.verf, rd'.cookie = rd.cookie, rd'.got = rd.got,
           rd'.entries = rd.entries
    PROVE  ListInv'
<1>1. lx' \in Listxattrs /\ ~lx'.clean
  BY DEF ListInv, Listxattrs
<1> QED BY <1>1 DEF ListInv

LEMMA MutateSteps ==
    ASSUME ListInv, NEW n \in Name,
           Mutate(n) \/ MutateXattr(n) \/ \E t \in Task : MutateNamed(t, n)
    PROVE  ListInv'
<1>1. /\ names' \subseteq Name /\ lx' = [lx EXCEPT !.clean = FALSE]
      /\ change \in Nat /\ rd.verf \in Nat /\ rd.verf <= change
  BY DEF ListInv, Mutate, MutateXattr, MutateNamed, Mutated, Readdir
<1>2. CASE Mutate(n)
  <2>1. change' = change + 1 /\ UNCHANGED <<tasks, rd>>
    BY <1>2 DEF Mutate
  <2>2. ~Vouched' /\ rd.verf <= change' /\ change' \in Nat
    BY <1>1, <2>1 DEF Vouched
  <2>3. tasks' \in Tasks /\ rd' \in Readdir
    BY <2>1 DEF ListInv
  <2> QED BY <1>1, <2>1, <2>2, <2>3, MutateInv
<1>3. CASE MutateXattr(n)
  <2>1. rd' = [rd EXCEPT !.foreign = TRUE] /\ UNCHANGED <<change, tasks>>
    BY <1>3 DEF MutateXattr
  <2>2. /\ rd' \in Readdir /\ rd'.foreign
        /\ rd'.pc = rd.pc /\ rd'.verf = rd.verf /\ rd'.cookie = rd.cookie /\ rd'.got = rd.got
        /\ rd'.entries = rd.entries
    BY <2>1 DEF ListInv, Readdir
  <2>3. ~Vouched' /\ tasks' \in Tasks
    BY <2>1, <2>2 DEF Vouched, ListInv
  <2> QED BY <1>1, <2>1, <2>2, <2>3, MutateInv
<1>4. ASSUME NEW t \in Task, MutateNamed(t, n)
      PROVE  ListInv'
  <2>1. tasks' = [tasks EXCEPT ![t].pc = "refresh"] /\ UNCHANGED <<change, rd>>
    BY <1>4 DEF MutateNamed
  <2>2. tasks' \in Tasks /\ tasks'[t].pc = "refresh"
    BY <2>1 DEF ListInv, Tasks
  <2>3. ~Vouched' /\ rd' \in Readdir
    BY <2>1, <2>2 DEF Vouched, ListInv
  <2> QED BY <1>1, <2>1, <2>2, <2>3, MutateInv
<1> QED BY <1>2, <1>3, <1>4

\* The tasks that refresh the summary are not idle, and at the end give a new change id.
LEMMA TaskInv ==
    ASSUME ListInv, NEW t \in Task, TaskStep(t)
    PROVE  ListInv'
<1>1. UNCHANGED <<kind, names, rd, lx>> /\ rd.verf \in Nat /\ rd.verf <= change /\ change \in Nat
  BY DEF TaskStep, RefreshList, RefreshStore, Touch, ListInv, Readdir
<1>2. Cardinality(names) \in Nat
  BY PositionBounds DEF ListInv
<1>3. tasks' \in Tasks /\ change' \in Nat /\ rd.verf <= change' /\ ~Vouched'
  <2>1. CASE RefreshList(t)
    <3>1. PICK pc \in {"store", "touch"} :
            tasks' = [tasks EXCEPT ![t] = [pc |-> pc, n |-> Cardinality(names)]]
      BY <2>1 DEF RefreshList
    <3>2. tasks' \in Tasks /\ tasks'[t].pc # "idle"
      BY <1>2, <3>1 DEF ListInv, Tasks
    <3> QED BY <1>1, <2>1, <3>2 DEF Vouched, RefreshList
  <2>2. CASE RefreshStore(t)
    <3>1. tasks' \in Tasks /\ tasks'[t].pc # "idle"
      BY <2>2 DEF RefreshStore, ListInv, Tasks
    <3> QED BY <1>1, <2>2, <3>1 DEF Vouched, RefreshStore
  <2>3. CASE Touch(t)
    <3>1. tasks' \in Tasks
      BY <2>3 DEF Touch, ListInv, Tasks
    <3> QED BY <1>1, <2>3, <3>1 DEF Vouched, Touch
  <2> QED BY <2>1, <2>2, <2>3 DEF TaskStep
<1> QED BY <1>1, <1>3 DEF ListInv

-----------------------------------------------------------------------------
(* READDIR.                                                                 *)

\* A step of READDIR changes the listing only.
LEMMA ReaddirInv ==
    ASSUME ListInv, UNCHANGED <<kind, names, change, tasks, lx>>, rd' \in Readdir,
           rd'.verf <= change, rd'.cookie = 0 \/ rd'.cookie > 2,
           \A e \in rd'.entries : e.cookie > 2,
           rd'.pc \in {"ask", "count", "fetch", "answer"} /\ rd'.cookie = 0 => rd'.got = {},
           Vouched' => Exact(names, Dropped, rd')
    PROVE  ListInv'
BY DEF ListInv, Dropped

\* A listing that starts, or starts over, has nothing yet.
LEMMA StartsExact ==
    ASSUME NEW N \in SUBSET Name, NEW D, NEW r, r = [NoReaddir EXCEPT !.pc = "ask"]
    PROVE  /\ r \in Readdir /\ r.verf = 0 /\ r.cookie = 0 /\ r.got = {} /\ r.entries = {}
           /\ Exact(N, D, r)
<1>1. /\ r \in Readdir /\ r.verf = 0 /\ r.cookie = 0 /\ r.got = {} /\ r.entries = {} /\ r.pc = "ask"
  BY DEF NoReaddir, Readdir
<1>2. UpTo(N, Start(r)) = {}
  BY <1>1, Ends0 DEF Start
<1> QED BY <1>1, <1>2 DEF Exact

LEMMA AskInv ==
    ASSUME ListInv, CountAttributes \/ StoreCount \/ CheckVerifier
    PROVE  ListInv'
<1>1. /\ UNCHANGED <<kind, names, change, tasks, lx>> /\ names \in SUBSET Name
      /\ change \in Nat /\ rd \in Readdir /\ rd.pc \in {"ask", "count"}
      /\ Cardinality(names) \in Nat
  BY PositionBounds DEF CountAttributes, StoreCount, CheckVerifier, ListInv
<1>2. CASE rd' = [NoReaddir EXCEPT !.pc = "ask"]
  <2>1. /\ rd' \in Readdir /\ rd'.verf = 0 /\ rd'.cookie = 0 /\ rd'.got = {} /\ rd'.entries = {}
        /\ Exact(names, Dropped, rd')
    BY <1>1, <1>2, StartsExact
  <2> QED BY <1>1, <2>1, ReaddirInv
<1>3. CASE rd' # [NoReaddir EXCEPT !.pc = "ask"]
  <2>1. /\ rd' \in Readdir /\ rd'.pc \in {"ask", "count", "fetch"}
        /\ rd'.cookie = rd.cookie /\ rd'.got = rd.got /\ rd'.foreign = rd.foreign
        /\ rd'.entries = rd.entries
        /\ rd'.verf = rd.verf \/ (rd'.verf = change /\ rd.cookie = 0)
    <3>1. CASE CountAttributes
      <4>1. rd' = [rd EXCEPT !.pc = "count", !.n = Cardinality(names)]
        BY <3>1 DEF CountAttributes
      <4> QED BY <1>1, <4>1 DEF Readdir
    <3>2. CASE StoreCount
      <4>1. rd' = [rd EXCEPT !.pc = "ask", !.n = 0]
        BY <3>2 DEF StoreCount
      <4> QED BY <1>1, <4>1 DEF Readdir
    <3>3. CASE CheckVerifier
      <4>1. /\ rd' = [rd EXCEPT !.pc = "fetch", !.verf = change]
            /\ rd.cookie = 0 \/ rd.verf = change
        BY <1>3, <3>3 DEF CheckVerifier, SameVerifier
      <4> QED BY <1>1, <4>1 DEF Readdir
    <3> QED BY <3>1, <3>2, <3>3
  <2>2. rd'.verf <= change
    BY <1>1, <2>1 DEF ListInv
  <2>3. Start(rd') = Start(rd)
    BY <2>1 DEF Start
  <2>4. rd.cookie = 0 => rd.got = {}
    BY <1>1 DEF ListInv
  <2>5. ASSUME Vouched'
        PROVE  rd.got = UpTo(names, Start(rd)) \ Dropped
    <3>1. CASE rd.cookie = 0
      BY <1>1, <2>4, <3>1, Ends0 DEF Start
    <3>2. CASE rd.cookie # 0
      <4>1. Vouched
        BY <1>1, <2>1, <2>5, <3>2 DEF Vouched
      <4> QED BY <1>1, <4>1 DEF ListInv, Exact
    <3> QED BY <3>1, <3>2
  <2>6. Vouched' => Exact(names, Dropped, rd')
    BY <2>1, <2>3, <2>5 DEF Exact
  <2>7. (rd'.cookie = 0 \/ rd'.cookie > 2) /\ \A e \in rd'.entries : e.cookie > 2
    BY <2>1 DEF ListInv
  <2> QED BY <1>1, <2>1, <2>2, <2>4, <2>6, <2>7, ReaddirInv
<1> QED BY <1>2, <1>3

\* The backend is asked for k entries from where the client is.
LEMMA FetchInv ==
    ASSUME ListInv, NEW k \in Nat, Fetch(k)
    PROVE  ListInv'
<1> DEFINE left == IF Start(rd) < Length THEN Length - Start(rd) ELSE 0
           entries == {e \in Page(Start(rd), k) : e.name \notin Dropped}
<1>1. /\ UNCHANGED <<kind, names, change, tasks, lx>> /\ names \in SUBSET Name
      /\ change \in Nat /\ rd \in Readdir /\ rd.pc = "fetch" /\ rd.cookie \in Nat
      /\ Length \in Nat /\ rd.verf <= change /\ (rd.cookie = 0 \/ rd.cookie > 2)
      /\ rd.cookie = 0 => rd.got = {}
  BY PositionBounds DEF Fetch, ListInv, Length, Readdir
<1>2. Start(rd) \in Nat
  BY <1>1 DEF Start
<1>3. PICK inline \in BOOLEAN :
        rd' = [rd EXCEPT !.pc = "answer", !.eof = (k = left), !.inline = inline,
                         !.entries = entries]
  BY DEF Fetch, Start
<1>4. /\ \A e \in entries :
           \E n \in names : /\ e = [name |-> n, cookie |-> PosIn(names, n) + 2] /\ e.name \notin Dropped
                            /\ Start(rd) < PosIn(names, n) /\ PosIn(names, n) <= Start(rd) + k
      /\ \A n \in names :
           [name |-> n, cookie |-> PosIn(names, n) + 2].name \notin Dropped
             /\ Start(rd) < PosIn(names, n) /\ PosIn(names, n) <= Start(rd) + k
             => [name |-> n, cookie |-> PosIn(names, n) + 2] \in entries
  <2>1. Between(Start(rd), Start(rd) + k)
          = {n \in names : Start(rd) < PosIn(names, n) /\ PosIn(names, n) <= Start(rd) + k}
    BY Zenon DEF Between, Position, PosIn
  <2>2. Page(Start(rd), k)
          = {[name |-> n, cookie |-> PosIn(names, n) + 2] : n \in Between(Start(rd), Start(rd) + k)}
    BY Zenon DEF Page, Position, PosIn
  <2>3. ASSUME NEW e \in entries
        PROVE  \E n \in names : /\ e = [name |-> n, cookie |-> PosIn(names, n) + 2] /\ e.name \notin Dropped
                                /\ Start(rd) < PosIn(names, n) /\ PosIn(names, n) <= Start(rd) + k
    BY <2>1, <2>2, <2>3, Zenon
  <2>4. ASSUME NEW n \in names, [name |-> n, cookie |-> PosIn(names, n) + 2].name \notin Dropped,
               Start(rd) < PosIn(names, n), PosIn(names, n) <= Start(rd) + k
        PROVE  [name |-> n, cookie |-> PosIn(names, n) + 2] \in entries
    BY <2>1, <2>2, <2>4, Zenon
  <2> QED BY <2>3, <2>4, Zenon
<1> HIDE DEF entries, left
<1>5. entries \subseteq Entry
  <2>1. \A n \in names : n \in Name /\ PosIn(names, n) + 2 \in Nat
    <3>1. Cardinality(names) \in Nat /\ \A n \in names : PosIn(names, n) \in 1..Cardinality(names)
      BY <1>1, PositionBounds, Zenon
    <3> QED BY <1>1, <3>1
  <2>2. ASSUME NEW e \in entries
        PROVE  e \in Entry
    <3>1. PICK n \in names : e = [name |-> n, cookie |-> PosIn(names, n) + 2]
      BY <1>4
    <3>2. n \in Name /\ PosIn(names, n) + 2 \in Nat
      BY <2>1
    <3> QED BY <3>1, <3>2 DEF Entry
  <2> QED BY <2>2
<1>6. /\ rd' \in Readdir /\ rd'.pc = "answer" /\ rd'.entries = entries /\ (rd'.eof => k = left)
      /\ rd'.cookie = rd.cookie /\ rd'.got = rd.got /\ rd'.foreign = rd.foreign
      /\ rd'.verf = rd.verf
  <2>1. PICK b \in BOOLEAN : b = (k = left)
    BY Zenon
  <2>2. rd' = [rd EXCEPT !.pc = "answer", !.eof = b, !.inline = inline, !.entries = entries]
    BY <1>3, <2>1, Zenon
  <2>3. /\ rd' \in Readdir /\ rd'.pc = "answer" /\ rd'.entries = entries /\ rd'.eof = b
        /\ rd'.cookie = rd.cookie /\ rd'.got = rd.got /\ rd'.foreign = rd.foreign
        /\ rd'.verf = rd.verf
    BY <1>1, <1>5, <2>2 DEF Readdir
  <2>4. rd'.eof => k = left
    BY <2>1, <2>3, Zenon
  <2> QED BY <2>3, <2>4
<1>7. Start(rd') = Start(rd)
  BY <1>6 DEF Start
<1>8. Asked(names, Dropped, rd', k)
  <2>1. rd'.eof => Cardinality(names) <= Start(rd') + k
    BY <1>1, <1>2, <1>6, <1>7 DEF left, Length
  <2>2. \A e \in rd'.entries :
          /\ e.name \in names /\ e.name \notin Dropped
          /\ Start(rd') < PosIn(names, e.name) /\ PosIn(names, e.name) <= Start(rd') + k
          /\ e.cookie = PosIn(names, e.name) + 2
    BY <1>4, <1>6, <1>7
  <2>3. \A n \in names :
          n \notin Dropped /\ Start(rd') < PosIn(names, n) /\ PosIn(names, n) <= Start(rd') + k
            => [name |-> n, cookie |-> PosIn(names, n) + 2] \in rd'.entries
    BY <1>4, <1>6, <1>7
  <2> QED BY <2>1, <2>2, <2>3 DEF Asked
<1>9. ASSUME Vouched'
      PROVE  Exact(names, Dropped, rd')
  <2>1. Vouched
    BY <1>1, <1>6, <1>9 DEF Vouched
  <2>2. rd.got = UpTo(names, Start(rd)) \ Dropped
    BY <1>1, <2>1 DEF ListInv, Exact
  <2> QED BY <1>6, <1>7, <1>8, <2>2 DEF Exact
<1>10. \A e \in rd'.entries : e.cookie > 2
  <2>1. \A n \in names : Start(rd) < PosIn(names, n) => PosIn(names, n) + 2 > 2
    <3>1. Cardinality(names) \in Nat /\ \A n \in names : PosIn(names, n) \in 1..Cardinality(names)
      BY <1>1, PositionBounds, Zenon
    <3> QED BY <3>1
  <2> QED BY <1>7, <1>8, <2>1 DEF Asked
<1> QED BY <1>1, <1>6, <1>9, <1>10, ReaddirInv

\* A reply with the entries up to cookie m, the last of them at position last.
Reply(N, r, m, results, last) ==
    /\ results = {e \in r.entries : e.cookie <= m}
    /\ \A e \in results : PosIn(N, e.name) <= last
    /\ \/ last = Start(r) /\ results = {} /\ r.entries = {}
       \/ \E e \in results : last = PosIn(N, e.name)

\* What the client has after it.
After(N, D, r, got, results, last) ==
    /\ got \cup {e.name : e \in results} = UpTo(N, last) \ D
    /\ r.eof /\ results = r.entries => got \cup {e.name : e \in results} = N \ D

\* A reply with a prefix of the entries asked for brings the client to the cookie of
\* the last one: what it has is what is up to there, and all when the prefix is the
\* whole of the backend's last page.
LEMMA AnswerExact ==
    ASSUME NEW N \in SUBSET Name, NEW D, NEW r, NEW k \in Nat, Start(r) \in Nat,
           Asked(N, D, r, k), NEW got, got = UpTo(N, Start(r)) \ D,
           NEW last \in Nat, NEW m \in Nat, NEW results, Reply(N, r, m, results, last)
    PROVE  After(N, D, r, got, results, last)
<1> USE DEF Reply
<1> DEFINE all == got \cup {e.name : e \in results}
<1>1. Cardinality(N) \in Nat /\ \A n \in N : PosIn(N, n) \in Nat /\ PosIn(N, n) <= Cardinality(N)
  BY PositionBounds
<1>2. \A e \in results : e.name \in N /\ e.name \notin D
  BY DEF Asked
<1>3. last >= Start(r) /\ (last = Start(r) \/ last <= Start(r) + k)
  BY <1>1 DEF Asked
<1>4. ASSUME NEW n \in all
      PROVE  n \in N /\ n \notin D /\ PosIn(N, n) <= last
  <2>1. CASE n \in got
    <3>1. n \in N /\ n \notin D /\ PosIn(N, n) <= Start(r)
      BY <2>1 DEF UpTo
    <3> QED BY <1>1, <1>3, <3>1
  <2>2. CASE \E e \in results : n = e.name
    BY <1>2, <2>2
  <2> QED BY <1>4, <2>1, <2>2
<1>5. ASSUME NEW n \in N, n \notin D,
             \/ PosIn(N, n) <= last
             \/ r.eof /\ results = r.entries
      PROVE  n \in all
  <2>1. CASE PosIn(N, n) <= Start(r)
    BY <1>5, <2>1 DEF UpTo
  <2>2. CASE ~(PosIn(N, n) <= Start(r))
    <3> DEFINE e == [name |-> n, cookie |-> PosIn(N, n) + 2]
    <3>1. PosIn(N, n) <= Start(r) + k
      BY <1>1, <1>3, <1>5, <2>2 DEF Asked
    <3>2. e \in r.entries
      BY <1>1, <1>5, <2>2, <3>1 DEF Asked
    <3>3. e \in results
      <4>1. CASE results = r.entries
        BY <3>2, <4>1
      <4>2. CASE PosIn(N, n) <= last
        <5>1. PICK f \in results : last = PosIn(N, f.name)
          BY <3>2
        <5>2. f.cookie = last + 2 /\ f.cookie <= m
          BY <5>1 DEF Asked
        <5>3. e.cookie <= m
          BY <1>1, <4>2, <5>2
        <5> QED BY <3>2, <5>3
      <4> QED BY <1>5, <4>1, <4>2
    <3>4. e.name = n
      OBVIOUS
    <3> QED BY <3>3, <3>4
  <2> QED BY <2>1, <2>2
<1> HIDE DEF all
<1>6. all = UpTo(N, last) \ D
  BY <1>4, <1>5 DEF UpTo
<1>7. r.eof /\ results = r.entries => all = N \ D
  BY <1>4, <1>5
<1> QED BY <1>6, <1>7 DEF all, After

LEMMA AnswerInv ==
    ASSUME ListInv, NEW m \in Nat, Answer(m)
    PROVE  ListInv'
<1> DEFINE results == {e \in rd.entries : e.cookie <= m /\ Listed(e)}
           taken == {e \in rd.entries : e.cookie <= m}
<1>1. /\ UNCHANGED <<kind, names, change, tasks, lx>> /\ names \in SUBSET Name
      /\ change \in Nat /\ rd \in Readdir /\ rd.pc = "answer" /\ rd.cookie \in Nat
      /\ rd.verf <= change /\ (rd.cookie = 0 \/ rd.cookie > 2)
      /\ rd.cookie = 0 => rd.got = {}
  BY DEF Answer, ListInv, Readdir
<1>2. Start(rd) \in Nat /\ rd.entries \in SUBSET Entry /\ rd.got \in SUBSET Name
  BY <1>1 DEF Start, Readdir
<1>3. results = {} => \A e \in rd.entries : e.cookie <= m
  BY DEF Answer
<1>4. PICK cookie \in {rd.cookie} \cup {e.cookie : e \in results} :
        /\ \A e \in results : e.cookie <= cookie
        /\ rd' = [rd EXCEPT
             !.pc = IF Eof(results) THEN "done" ELSE "ask",
             !.cookie = cookie,
             !.got = @ \cup {e.name : e \in results},
             !.entries = {}, !.eof = FALSE, !.inline = FALSE]
  BY Zenon DEF Answer
<1>5. results \subseteq taken
  OBVIOUS
<1>6. results \in SUBSET Entry /\ cookie \in Nat /\ {e.name : e \in results} \in SUBSET Name
  <2>1. results \in SUBSET Entry
    BY <1>2
  <2> HIDE DEF results
  <2>2. \A e \in results : e.cookie \in Nat /\ e.name \in Name
    BY <2>1 DEF Entry
  <2> QED BY <1>1, <1>4, <2>1, <2>2
<1>7. rd.foreign \in BOOLEAN
  BY <1>1 DEF Readdir
<1> HIDE DEF results
<1>8. /\ rd' \in Readdir /\ rd'.pc = (IF Eof(results) THEN "done" ELSE "ask")
      /\ rd'.cookie = cookie /\ rd'.got = rd.got \cup {e.name : e \in results}
      /\ rd'.foreign = rd.foreign /\ rd'.verf = rd.verf
  BY <1>1, <1>2, <1>4, <1>6 DEF Readdir
<1>9. rd'.entries = {} /\ \A e \in results : e.cookie \in Nat /\ e.cookie > 2
  <2>1. \A e \in results : e \in rd.entries /\ e \in Entry
    BY <1>6 DEF results
  <2>2. rd'.entries = {}
    BY <1>1, <1>4 DEF Readdir
  <2> QED BY <2>1, <2>2 DEF ListInv, Entry
<1>10. (cookie = 0 \/ cookie > 2) /\ (cookie = 0 => rd'.got = {})
  <2>1. cookie = 0 \/ cookie > 2
    BY <1>1, <1>4, <1>9
  <2>2. ASSUME cookie = 0
        PROVE  rd'.got = {}
    <3>1. results = {}
      BY <1>4, <1>9, <2>2
    <3>2. rd.cookie = 0
      BY <1>4, <2>2, <3>1
    <3> QED BY <1>1, <1>8, <3>1, <3>2
  <2> QED BY <2>1, <2>2
<1>11. ASSUME Vouched'
       PROVE  Exact(names, Dropped, rd')
  <2>1. Vouched
    BY <1>1, <1>8, <1>11 DEF Vouched
  <2>2. Exact(names, Dropped, rd)
    BY <2>1 DEF ListInv
  <2>3. rd.got = UpTo(names, Start(rd)) \ Dropped
    BY <1>1, <2>2 DEF Exact
  <2>4. PICK k \in Nat : Asked(names, Dropped, rd, k)
    BY <1>1, <2>2 DEF Exact
  <2>5. results = taken
    BY <2>1, <2>4 DEF results, Listed, Vouched, AllReadable, Asked
  <2>6. \A e \in results : /\ e.name \in names /\ e.cookie = PosIn(names, e.name) + 2
                           /\ PosIn(names, e.name) \in Nat /\ Start(rd) < PosIn(names, e.name)
    <3>1. \A n \in names : PosIn(names, n) \in Nat
      BY <1>1, PositionBounds
    <3> QED BY <2>4, <3>1 DEF results, Asked
  <2>7. \/ Start(rd') = Start(rd) /\ results = {} /\ rd.entries = {}
        \/ \E e \in results : Start(rd') = PosIn(names, e.name)
    <3>1. CASE cookie = rd.cookie
      <4>1. results = {}
        BY <1>1, <1>4, <2>6, <3>1 DEF Start
      <4>2. rd.entries = {}
        BY <1>3, <2>5, <4>1
      <4> QED BY <1>8, <3>1, <4>1, <4>2 DEF Start
    <3>2. CASE cookie # rd.cookie
      <4>1. PICK e \in results : cookie = e.cookie
        BY <1>4, <3>2
      <4>2. Start(rd') = PosIn(names, e.name)
        BY <1>8, <1>9, <2>6, <4>1 DEF Start
      <4> QED BY <4>2
    <3> QED BY <3>1, <3>2
  <2>8. Start(rd') \in Nat /\ \A e \in results : PosIn(names, e.name) <= Start(rd')
    <3>1. Start(rd') \in Nat
      BY <1>2, <2>6, <2>7
    <3>2. \A e \in results : PosIn(names, e.name) + 2 <= cookie /\ PosIn(names, e.name) \in Nat
      BY <1>4, <2>6
    <3> QED BY <1>6, <1>8, <3>1, <3>2 DEF Start
  <2> HIDE DEF taken
  <2>9. /\ rd'.got = UpTo(names, Start(rd')) \ Dropped
        /\ rd.eof /\ results = rd.entries => rd'.got = names \ Dropped
    <3>1. results = {e \in rd.entries : e.cookie <= m}
      BY <2>5 DEF taken
    <3>2. Reply(names, rd, m, results, Start(rd'))
      BY <2>7, <2>8, <3>1, Zenon DEF Reply
    <3>3. After(names, Dropped, rd, rd.got, results, Start(rd'))
      BY <1>1, <1>2, <2>3, <2>4, <2>8, <3>2, AnswerExact, Zenon
    <3> QED BY <1>8, <3>3, Zenon DEF After
  <2>10. rd'.pc = "done" => rd.eof /\ results = rd.entries
    BY <1>8 DEF Eof
  <2>11. rd'.pc \in {"ask", "done"}
    BY <1>8
  <2> QED BY <2>9, <2>10, <2>11 DEF Exact
<1> QED BY <1>1, <1>8, <1>9, <1>10, <1>11, ReaddirInv

-----------------------------------------------------------------------------
(* LISTXATTRS, and the starts.                                              *)

LEMMA ListxattrsInv ==
    ASSUME ListInv, NEW end \in Nat, ListxattrsPage(end)
    PROVE  ListInv'
<1>1. /\ UNCHANGED <<kind, names, change, tasks, rd>> /\ names \in SUBSET Name
      /\ lx \in Listxattrs /\ lx.pc = "ask" /\ lx.cookie \in Nat /\ Length \in Nat
      /\ Vouched' = Vouched /\ Dropped' = Dropped
  <2>1. UNCHANGED <<kind, names, change, tasks, rd>> /\ lx.pc = "ask"
    BY DEF ListxattrsPage
  <2>2. names \in SUBSET Name /\ lx \in Listxattrs /\ lx.cookie \in Nat
    BY DEF ListInv, Listxattrs
  <2>3. Length \in Nat
    BY <2>2, PositionBounds DEF Length
  <2>4. Vouched' = Vouched /\ Dropped' = Dropped
    BY <2>1, Zenon DEF Vouched, Dropped
  <2> QED BY <2>1, <2>2, <2>3, <2>4
<1>2. /\ lx' \in Listxattrs
      /\ lx'.clean => /\ lx'.pc = "ask" => lx'.got = UpTo(names, lx'.cookie)
                      /\ lx'.pc = "done" => lx'.got = names
  <2>1. CASE lx' = [NoListxattrs EXCEPT !.pc = "ask"]
    <3>1. lx' \in Listxattrs /\ lx'.pc = "ask" /\ lx'.cookie = 0 /\ lx'.got = {}
      BY <2>1 DEF NoListxattrs, Listxattrs
    <3> QED BY <1>1, <3>1, Ends0
  <2>2. CASE /\ lx.cookie <= end /\ end <= Length
             /\ lx' = [lx EXCEPT !.pc = IF Ends(end) THEN "done" ELSE "ask", !.cookie = end,
                                 !.got = @ \cup Between(lx.cookie, end)]
    <3>1. Between(lx.cookie, end)
            = {n \in names : lx.cookie < PosIn(names, n) /\ PosIn(names, n) <= end}
      BY Zenon DEF Between, Position, PosIn
    <3>2. Between(lx.cookie, end) \in SUBSET Name
      BY <1>1, <3>1
    <3>3. /\ lx' \in Listxattrs /\ lx'.cookie = end /\ lx'.clean = lx.clean
          /\ lx'.pc = (IF Ends(end) THEN "done" ELSE "ask")
          /\ lx'.got = lx.got \cup Between(lx.cookie, end)
      BY <1>1, <2>2, <3>2 DEF Listxattrs
    <3>4. ASSUME lx.clean
          PROVE  lx'.got = UpTo(names, end)
      <4>1. lx.got = UpTo(names, lx.cookie)
        BY <1>1, <3>4 DEF ListInv
      <4>2. \A n \in names : PosIn(names, n) \in Nat
        BY <1>1, PositionBounds
      <4> QED BY <1>1, <2>2, <3>1, <3>3, <4>1, <4>2 DEF UpTo
    <3>5. Ends(end) => UpTo(names, end) = names
      BY <1>1, Ends0 DEF Ends, Length
    <3> QED BY <3>3, <3>4, <3>5
  <2> QED BY <2>1, <2>2 DEF ListxattrsPage
<1>3. names' = names /\ rd' = rd /\ change' = change /\ tasks' = tasks
  BY <1>1
<1> QED BY <1>1, <1>2, <1>3 DEF ListInv

LEMMA StartInv ==
    ASSUME ListInv, ReaddirStart \/ ListxattrsStart
    PROVE  ListInv'
<1>1. /\ UNCHANGED <<kind, names, change, tasks>> /\ names \in SUBSET Name /\ change \in Nat
      /\ tasks \in Tasks
  BY DEF ReaddirStart, ListxattrsStart, ListInv
<1>2. UpTo(names, 0) = {}
  BY <1>1, Ends0
<1>3. /\ lx' \in Listxattrs /\ lx'.pc # "done"
      /\ lx'.pc = "ask" => lx'.got = {} /\ lx'.cookie = 0
  <2>1. lx' = NoListxattrs \/ lx' = [NoListxattrs EXCEPT !.pc = "ask"]
    BY Zenon DEF ReaddirStart, ListxattrsStart
  <2>2. CASE lx' = NoListxattrs
    BY <2>2 DEF NoListxattrs, Listxattrs
  <2>3. CASE lx' = [NoListxattrs EXCEPT !.pc = "ask"]
    BY <2>3 DEF NoListxattrs, Listxattrs
  <2> QED BY <2>1, <2>2, <2>3
<1>4. /\ rd' \in Readdir /\ rd'.verf = 0 /\ rd'.cookie = 0 /\ rd'.got = {} /\ rd'.entries = {}
      /\ Exact(names, Dropped, rd')
  <2>1. CASE ReaddirStart
    BY <1>1, <2>1, StartsExact DEF ReaddirStart
  <2>2. CASE ListxattrsStart
    <3>1. /\ rd' \in Readdir /\ rd'.verf = 0 /\ rd'.cookie = 0 /\ rd'.got = {} /\ rd'.entries = {}
          /\ rd'.pc = "off"
      BY <2>2 DEF ListxattrsStart, NoReaddir, Readdir
    <3> QED BY <3>1 DEF Exact
  <2> QED BY <2>1, <2>2
<1>5. Dropped' = Dropped
  BY <1>1 DEF Dropped
<1> QED BY <1>1, <1>2, <1>3, <1>4, <1>5 DEF ListInv

-----------------------------------------------------------------------------
(* The theorems.                                                            *)

LEMMA NextInv ==
    ASSUME ListInv, [Next]_vars
    PROVE  ListInv'
<1>1. CASE UNCHANGED vars
  BY <1>1 DEF vars, ListInv, Vouched, Dropped
<1>2. ASSUME NEW n \in Name,
             Mutate(n) \/ MutateXattr(n) \/ \E t \in Task : MutateNamed(t, n)
      PROVE  ListInv'
  BY <1>2, MutateSteps, Zenon
<1>3. ASSUME NEW t \in Task, TaskStep(t)
      PROVE  ListInv'
  BY <1>3, TaskInv
<1>4. Cardinality(Name) \in Nat
  BY ListingsAssumption, FS_CardinalityType
<1>5. CASE ReaddirStep
  <2>1. CASE CountAttributes \/ StoreCount \/ CheckVerifier
    BY <2>1, AskInv
  <2>2. ASSUME NEW k \in Positions, Fetch(k)
        PROVE  ListInv'
    <3>1. k \in Nat
      BY <1>4 DEF Positions
    <3> QED BY <2>2, <3>1, FetchInv
  <2>3. ASSUME NEW m \in Cookies, Answer(m)
        PROVE  ListInv'
    <3>1. m \in Nat
      BY <1>4 DEF Cookies
    <3> QED BY <2>3, <3>1, AnswerInv
  <2> QED BY <1>5, <2>1, <2>2, <2>3 DEF ReaddirStep
<1>6. CASE ListxattrsStep
  <2>1. PICK end \in Positions : ListxattrsPage(end)
    BY <1>6 DEF ListxattrsStep
  <2>2. end \in Nat
    BY <1>4 DEF Positions
  <2> QED BY <2>1, <2>2, ListxattrsInv
<1>7. CASE ReaddirStart \/ ListxattrsStart
  BY <1>7, StartInv
<1> QED BY <1>1, <1>2, <1>3, <1>5, <1>6, <1>7 DEF Next

LEMMA ListInvHolds == Spec => []ListInv
<1>1. Init => ListInv
  BY InitInv
<1>2. ListInv /\ [Next]_vars => ListInv'
  BY NextInv
<1> QED BY <1>1, <1>2, PTL DEF Spec

\* For any set of names whose attributes can be read, and whatever is added and removed
\* between the pages of op_readdir: when the end is reached and the change id still is
\* the cookie verifier, the client has every name that is not dropped, and no other.
THEOREM ListingsStayExact ==
    ASSUME AllReadable
    PROVE  Spec => []ListingsAreExact
<1>1. ListInv => ListingsAreExact
  BY DEF ListInv, Vouched, Exact, ListingsAreExact
<1> QED BY <1>1, ListInvHolds, PTL

\* What listxattrs_page gives out, page after page by index, is exact when nothing was
\* added or removed since the first page.
THEOREM XattrListingsStayExact == Spec => []XattrListingsAreExact
<1>1. ListInv => XattrListingsAreExact
  BY DEF ListInv, XattrListingsAreExact
<1> QED BY <1>1, ListInvHolds, PTL
=============================================================================
