------------------------ MODULE DirDelegationsProofs ------------------------
(***************************************************************************)
(* Proofs about directory delegations, for any number of clients,          *)
(* directories, operations and stateids.                                   *)
(***************************************************************************)
EXTENDS DirDelegations, FiniteSetTheorems, SequenceTheorems, TLAPS

Watches == {"filehandle", "callback", "revoke", "wait", "timeout"}
Recalling == {"recall", "finish"} \cup Watches

GrantState == [pc : {"grant"}, client : Client, dir : Dir]
RecallState ==
    [pc : Recalling, op : {"mutate", "retire"}, client : Client \cup {NoClient},
     dirs : Seq(Dir), begun : SUBSET (Dir \X Nat), recalls : SUBSET Id,
     callbacks : SUBSET Id, failed : SUBSET Id]

\* An operation that is not done with its recalls has a directory to recall.
HasTarget == \A t \in Task : task[t].pc \in Recalling \ {"finish"} => task[t].dirs # <<>>

TypeInv == TypeOK /\ HasTarget

-----------------------------------------------------------------------------
(* The kinds of task states, told apart by their pc.                        *)

LEMMA TaskKinds ==
    ASSUME TypeOK, NEW t \in Task
    PROVE  /\ task[t] = Idle \/ task[t] \in GrantState \/ task[t] \in RecallState
           /\ task[t].pc = "grant" => task[t] \in GrantState
           /\ task[t].pc \in Recalling => task[t] \in RecallState
           /\ task[t] = Idle <=> task[t].pc = "idle"
           /\ task[t].pc \in {"idle", "grant"} \cup Recalling
<1>1. task[t] = Idle \/ task[t] \in GrantState \/ task[t] \in RecallState
  BY ZenonT(30) DEF TypeOK, TaskState, GrantState, RecallState, Recalling, Watches
<1>2. CASE task[t] = Idle
  BY <1>2 DEF Idle, Recalling, Watches
<1>3. CASE task[t] \in GrantState
  BY <1>3 DEF Idle, GrantState, Recalling, Watches
<1>4. CASE task[t] \in RecallState
  BY <1>4 DEF Idle, RecallState, Recalling, Watches
<1> QED
  BY ZenonT(30), <1>1, <1>2, <1>3, <1>4

LEMMA StatesAreTaskStates ==
    /\ Idle \in TaskState
    /\ GrantState \subseteq TaskState
    /\ RecallState \subseteq TaskState
BY ZenonT(30) DEF TaskState, GrantState, RecallState, Recalling, Watches

\* What RecallDone leaves of a recall.
LEMMA RecallDoneFields ==
    ASSUME NEW r \in RecallState, r.dirs # <<>>
    PROVE  /\ RecallDone(r) \in RecallState
           /\ RecallDone(r).op = r.op /\ RecallDone(r).client = r.client
           /\ RecallDone(r).begun = r.begun
           /\ RecallDone(r).dirs = Tail(r.dirs)
           /\ RecallDone(r).recalls = {}
           /\ RecallDone(r).pc \in {"recall", "finish"}
           /\ RecallDone(r).pc = "recall" => RecallDone(r).dirs # <<>>
<1>1. r.dirs \in Seq(Dir)
  BY ZenonT(30) DEF RecallState
<1>2. Tail(r.dirs) \in Seq(Dir) /\ (Len(r.dirs) # 1 => Tail(r.dirs) # <<>>)
  <2>1. Tail(r.dirs) \in Seq(Dir) /\ Len(Tail(r.dirs)) = Len(r.dirs) - 1
    BY ZenonT(30), <1>1, HeadTailProperties
  <2>2. Len(r.dirs) \in Nat
    BY ZenonT(30), <1>1, LenProperties
  <2>3. Len(r.dirs) # 1 => Len(Tail(r.dirs)) # 0
    BY <2>1, <2>2
  <2>4. Len(<<>>) = 0
    BY ZenonT(30)
  <2> QED
    BY ZenonT(30), <2>1, <2>3, <2>4
<1> DEFINE p == IF Len(r.dirs) = 1 THEN "finish" ELSE "recall"
<1>3. p \in {"recall", "finish"} /\ (p = "recall" => Len(r.dirs) # 1)
  BY ZenonT(30)
<1>4. RecallDone(r) = [r EXCEPT !.pc = p, !.dirs = Tail(r.dirs), !.recalls = {}, !.callbacks = {}]
  BY ZenonT(30) DEF RecallDone
<1> HIDE DEF p
<1> QED
  BY ZenonT(30), <1>2, <1>3, <1>4 DEF RecallState, Recalling, Watches

-----------------------------------------------------------------------------
(* What the steps do, in terms the invariants use.                          *)

\* Only t moves, and it stays in the recall it serves.
Serves(t) ==
    /\ \A u \in Task : u # t => task'[u] = task[u]
    /\ task' \in [Task -> TaskState]
    /\ task[t] \in RecallState /\ task'[t] \in RecallState
    /\ task'[t].op = task[t].op /\ task'[t].client = task[t].client

\* The table by its entries: none appears, and none changes its directory or holder.
Keeps ==
    /\ delegations' \in [Id -> DelegationState \cup {NoState}]
    /\ \A i \in Id : Exists(i)' =>
         /\ Exists(i)
         /\ delegations'[i].object = delegations[i].object
         /\ delegations'[i].clientid = delegations[i].clientid

\* Head(dirs) is recalled; the recall goes on as long as it holds a stateid.
Over(t) ==
    /\ task'[t].pc \in {"recall", "finish"}
    /\ task'[t].pc = "recall" => task'[t].dirs # <<>>
    /\ task'[t].dirs = Tail(task[t].dirs)
    /\ task'[t].recalls = {}

Begins(t) ==
    LET d == Head(task[t].dirs) IN
    /\ d \in Dir
    /\ task[t].pc = "recall"
    /\ Serves(t) /\ Keeps
    /\ task'[t].begun = task[t].begun \cup {<<d, next_stateid>>}
    /\ \A i \in Id : Exists(i) =>
         /\ Exists(i)'
         /\ IF /\ delegations[i].object = d /\ delegations[i].status = "Granted"
               /\ delegations[i].clientid # task[t].client
            THEN delegations'[i].status = "RecallInProgress"
            ELSE delegations'[i] = delegations[i]
    /\ \/ /\ Over(t)
          /\ \A i \in Id : Exists(i) /\ delegations[i].object = d =>
               delegations'[i].status # "RecallInProgress"
       \/ /\ task'[t].pc = "filehandle" /\ task'[t].dirs = task[t].dirs
          /\ \A i \in Id : i \in task'[t].recalls <=>
               /\ Exists(i) /\ delegations[i].object = d
               /\ delegations'[i].status = "RecallInProgress"
    /\ UNCHANGED <<dir_delegations, client_delegations, next_stateid, clients, flagged, retired>>

\* The recall of Head(dirs) goes on, or is over.
WatchesOn(t) ==
    /\ task[t].pc \in Watches
    /\ Serves(t) /\ Keeps
    /\ task'[t].begun = task[t].begun
    /\ \A i \in Id : Exists(i) =>
         /\ Exists(i)'
         /\ delegations'[i] = delegations[i] \/ delegations'[i].status = "Revoked"
    /\ \/ /\ task'[t].pc \in Watches /\ task'[t].dirs = task[t].dirs
          /\ task'[t].recalls \subseteq task[t].recalls
          /\ \A i \in task[t].recalls \ task'[t].recalls : ~Live(i)'
       \/ /\ Over(t)
          /\ Head(task[t].dirs) \in retired \/ \A i \in task[t].recalls : ~Live(i)'
    /\ flagged' \subseteq clients
    /\ UNCHANGED <<dir_delegations, client_delegations, next_stateid, clients, retired>>

LEMMA BeginsStep ==
    ASSUME TypeInv, IndexesAgree, NEW t \in Task, BeginDirectoryRecall(t)
    PROVE  Begins(t)
<1> DEFINE r == task[t]
           d == Head(r.dirs)
           granted == {i \in dir_delegations[d] : /\ Exists(i)
                                                  /\ delegations[i].status = "Granted"
                                                  /\ delegations[i].clientid # r.client}
           pending == {i \in dir_delegations[d] : /\ Exists(i)
                                                  /\ delegations[i].status = "RecallInProgress"}
           begun == [r EXCEPT !.begun = @ \cup {<<d, next_stateid>>}]
           on == [begun EXCEPT !.pc = "filehandle", !.recalls = granted \cup pending,
                               !.callbacks = granted]
<1>1. r \in RecallState /\ r.pc = "recall" /\ r.dirs # <<>>
  BY ZenonT(30), TaskKinds DEF BeginDirectoryRecall, TypeInv, HasTarget, Recalling
<1>2. d \in Dir
  BY ZenonT(30), <1>1, HeadTailProperties DEF RecallState
<1>3. granted \subseteq Id /\ pending \subseteq Id
  BY ZenonT(30), <1>2 DEF TypeInv, TypeOK
<1>4. begun \in RecallState /\ begun.op = r.op /\ begun.client = r.client /\ begun.dirs = r.dirs
      /\ begun.begun = r.begun \cup {<<d, next_stateid>>}
  <2>1. <<d, next_stateid>> \in Dir \X Nat
    BY <1>2, DirDelegationsAssumption DEF TypeInv, TypeOK
  <2> HIDE DEF d
  <2> QED
    BY ZenonT(30), <1>1, <2>1 DEF RecallState
<1>5. /\ on \in RecallState /\ on.op = r.op /\ on.client = r.client /\ on.dirs = r.dirs
      /\ on.begun = begun.begun /\ on.pc = "filehandle" /\ on.recalls = granted \cup pending
  <2> HIDE DEF begun, granted, pending
  <2> QED
    BY ZenonT(30), <1>3, <1>4 DEF RecallState, Recalling, Watches
<1>6. /\ delegations' = [i \in Id |-> IF i \in granted
                                    THEN [delegations[i] EXCEPT !.status = "RecallInProgress"]
                                    ELSE delegations[i]]
      /\ task' = [task EXCEPT ![t] = IF granted \cup pending = {} THEN RecallDone(begun) ELSE on]
      /\ UNCHANGED <<dir_delegations, client_delegations, next_stateid, clients, flagged, retired>>
  BY ZenonT(30) DEF BeginDirectoryRecall, Goto
<1>7. \A i \in Id : i \in granted <=> /\ Exists(i) /\ delegations[i].object = d
                                      /\ delegations[i].status = "Granted"
                                      /\ delegations[i].clientid # r.client
  BY <1>2 DEF IndexesAgree
<1>8. \A i \in Id : i \in pending <=> /\ Exists(i) /\ delegations[i].object = d
                                      /\ delegations[i].status = "RecallInProgress"
  BY ZenonT(30), <1>2 DEF IndexesAgree
<1>9. /\ RecallDone(begun) \in RecallState
      /\ RecallDone(begun).op = r.op /\ RecallDone(begun).client = r.client
      /\ RecallDone(begun).begun = begun.begun
      /\ RecallDone(begun).dirs = Tail(r.dirs)
      /\ RecallDone(begun).recalls = {}
      /\ RecallDone(begun).pc \in {"recall", "finish"}
      /\ RecallDone(begun).pc = "recall" => RecallDone(begun).dirs # <<>>
  <2> HIDE DEF begun
  <2> QED
    BY ZenonT(30), <1>1, <1>4, RecallDoneFields
<1> HIDE DEF r, d, granted, pending, begun, on
<1>10. \A i \in Id : Exists(i) =>
         /\ delegations[i] \in DelegationState
         /\ Exists(i)'
         /\ delegations'[i] \in DelegationState
         /\ delegations'[i].object = delegations[i].object
         /\ delegations'[i].clientid = delegations[i].clientid
         /\ i \in granted => delegations'[i].status = "RecallInProgress"
         /\ i \notin granted => delegations'[i] = delegations[i]
  <2> SUFFICES ASSUME NEW i \in Id, Exists(i)
               PROVE /\ delegations[i] \in DelegationState
                     /\ Exists(i)'
                     /\ delegations'[i] \in DelegationState
                     /\ delegations'[i].object = delegations[i].object
                     /\ delegations'[i].clientid = delegations[i].clientid
                     /\ i \in granted => delegations'[i].status = "RecallInProgress"
                     /\ i \notin granted => delegations'[i] = delegations[i]
    BY ZenonT(30)
  <2>1. delegations[i] \in DelegationState
    BY ZenonT(30) DEF Exists, TypeInv, TypeOK
  <2>2. CASE i \in granted
    <3>1. delegations'[i] = [delegations[i] EXCEPT !.status = "RecallInProgress"]
      BY ZenonT(30), <1>6, <2>2
    <3> QED
      BY ZenonT(30), <2>1, <2>2, <3>1, DirDelegationsAssumption DEF DelegationState, Status, Exists
  <2>3. CASE i \notin granted
    BY ZenonT(30), <1>6, <2>1, <2>3 DEF Exists
  <2> QED
    BY ZenonT(30), <2>1, <2>2, <2>3
<1>11. \A i \in Id : ~Exists(i) => delegations'[i] = NoState /\ ~Exists(i)'
  BY ZenonT(30), <1>6, <1>7 DEF Exists
<1>12. Keeps
  <2>1. delegations' \in [Id -> DelegationState \cup {NoState}]
    BY ZenonT(30), <1>6, <1>10, <1>11
  <2> QED
    BY ZenonT(30), <2>1, <1>10, <1>11 DEF Keeps
<1>13. task'[t] = IF granted \cup pending = {} THEN RecallDone(begun) ELSE on
  BY ZenonT(30), <1>6 DEF TypeInv, TypeOK
<1>14. Serves(t) /\ task'[t].begun = r.begun \cup {<<d, next_stateid>>}
  <2>1. task'[t] \in RecallState /\ task'[t].op = r.op /\ task'[t].client = r.client
        /\ task'[t].begun = begun.begun
    BY ZenonT(30), <1>5, <1>9, <1>13
  <2>2. task' \in [Task -> TaskState]
    BY ZenonT(30), <2>1, <1>6, <1>13, StatesAreTaskStates DEF TypeInv, TypeOK
  <2>3. \A u \in Task : u # t => task'[u] = task[u]
    BY ZenonT(30), <1>6 DEF TypeInv, TypeOK
  <2> QED
    BY ZenonT(30), <2>1, <2>2, <2>3, <1>1, <1>4 DEF Serves, r
<1>15. \/ /\ Over(t)
          /\ \A i \in Id : Exists(i) /\ delegations[i].object = d =>
               delegations'[i].status # "RecallInProgress"
       \/ /\ task'[t].pc = "filehandle" /\ task'[t].dirs = r.dirs
          /\ \A i \in Id : i \in task'[t].recalls <=>
               /\ Exists(i) /\ delegations[i].object = d
               /\ delegations'[i].status = "RecallInProgress"
  <2>1. CASE granted \cup pending = {}
    <3>1. Over(t)
      BY ZenonT(30), <2>1, <1>9, <1>13 DEF Over, r
    <3>2. \A i \in Id : Exists(i) /\ delegations[i].object = d =>
               delegations'[i].status # "RecallInProgress"
      BY ZenonT(30), <2>1, <1>8, <1>10
    <3> QED
      BY ZenonT(30), <3>1, <3>2
  <2>2. CASE granted \cup pending # {}
    <3>1. task'[t] = on
      BY ZenonT(30), <2>2, <1>13
    <3>2. \A i \in Id : i \in granted \cup pending <=>
               /\ Exists(i) /\ delegations[i].object = d
               /\ delegations'[i].status = "RecallInProgress"
      BY ZenonT(30), <1>7, <1>8, <1>10
    <3> QED
      BY ZenonT(30), <3>1, <3>2, <1>5
  <2> QED
    BY ZenonT(30), <2>1, <2>2
<1>16. \A i \in Id : Exists(i) =>
         /\ Exists(i)'
         /\ IF /\ delegations[i].object = d /\ delegations[i].status = "Granted"
               /\ delegations[i].clientid # r.client
            THEN delegations'[i].status = "RecallInProgress"
            ELSE delegations'[i] = delegations[i]
  BY ZenonT(30), <1>7, <1>10
<1> QED
  BY ZenonT(30), <1>1, <1>2, <1>6, <1>12, <1>14, <1>15, <1>16 DEF Begins, r, d

LEMMA GotoServes ==
    ASSUME TypeInv, NEW t \in Task, task[t] \in RecallState,
           NEW r \in RecallState, r.op = task[t].op, r.client = task[t].client, Goto(t, r)
    PROVE  Serves(t) /\ task'[t] = r
<1>1. task' = [task EXCEPT ![t] = r] /\ task \in [Task -> TaskState]
  BY ZenonT(30) DEF Goto, TypeInv, TypeOK
<1> QED
  BY ZenonT(30), <1>1, StatesAreTaskStates DEF Serves

LEMMA RevokeKeeps ==
    ASSUME TypeInv, NEW i \in Id, Revoke(i)
    PROVE  /\ Keeps
           /\ \A j \in Id : Exists(j) =>
                /\ Exists(j)'
                /\ delegations'[j] = delegations[j] \/ delegations'[j].status = "Revoked"
           /\ ~Live(i)'
           /\ flagged' \subseteq clients
           /\ UNCHANGED <<dir_delegations, client_delegations>>
<1>1. \A j \in Id : Exists(j) => delegations[j] \in DelegationState
  BY ZenonT(30) DEF Exists, TypeInv, TypeOK
<1>2. flagged' \subseteq clients /\ UNCHANGED <<dir_delegations, client_delegations>>
  BY ZenonT(30) DEF Revoke, TypeInv, TypeOK
<1>3. CASE ~Exists(i)
  BY ZenonT(30), <1>2, <1>3 DEF Revoke, Keeps, Exists, Live, TypeInv, TypeOK
<1>4. CASE Exists(i)
  <2> DEFINE gone == [delegations[i] EXCEPT !.status = "Revoked"]
  <2>1. /\ gone \in DelegationState /\ gone.object = delegations[i].object
        /\ gone.clientid = delegations[i].clientid /\ gone.status = "Revoked"
    BY ZenonT(30), <1>1, <1>4 DEF DelegationState, Status
  <2>2. delegations' = [delegations EXCEPT ![i] = gone]
    BY ZenonT(30), <1>4 DEF Revoke
  <2> HIDE DEF gone
  <2>3. delegations'[i] = gone /\ \A j \in Id : j # i => delegations'[j] = delegations[j]
    BY ZenonT(30), <2>2 DEF TypeInv, TypeOK
  <2>4. delegations' \in [Id -> DelegationState \cup {NoState}]
    BY ZenonT(30), <2>1, <2>2 DEF TypeInv, TypeOK
  <2>5. Exists(i)'
    BY ZenonT(30), <2>1, <2>3, DirDelegationsAssumption DEF Exists
  <2> QED
    BY ZenonT(30), <1>2, <1>4, <2>1, <2>3, <2>4, <2>5 DEF Keeps, Exists, Live
<1> QED
  BY ZenonT(30), <1>3, <1>4

\* A step that leaves the table alone keeps it.
LEMMA UnchangedKeeps ==
    ASSUME TypeInv, UNCHANGED <<tables, flagged>>
    PROVE  /\ Keeps
           /\ \A j \in Id : Exists(j) =>
                /\ Exists(j)'
                /\ delegations'[j] = delegations[j] \/ delegations'[j].status = "Revoked"
           /\ flagged' \subseteq clients
           /\ UNCHANGED <<dir_delegations, client_delegations>>
           /\ \A i \in Id : Live(i)' <=> Live(i)
BY ZenonT(30) DEF Keeps, Exists, Live, tables, TypeInv, TypeOK

\* Awaited takes i off the outstanding stateids, and ends the recall with the last one.
LEMMA AwaitedFields ==
    ASSUME NEW r \in RecallState, r.dirs # <<>>, r.pc \in Watches, NEW i \in r.recalls
    PROVE  /\ Awaited(r, i) \in RecallState
           /\ Awaited(r, i).op = r.op /\ Awaited(r, i).client = r.client
           /\ Awaited(r, i).begun = r.begun
           /\ \/ /\ Awaited(r, i).pc \in Watches /\ Awaited(r, i).dirs = r.dirs
                 /\ Awaited(r, i).recalls = r.recalls \ {i}
              \/ /\ r.recalls = {i}
                 /\ Awaited(r, i) = RecallDone(r)
<1>1. CASE r.recalls = {i}
  BY ZenonT(30), <1>1, RecallDoneFields DEF Awaited
<1>2. CASE r.recalls # {i}
  <2> DEFINE rest == r.recalls \ {i}
  <2>1. Awaited(r, i) = [r EXCEPT !.recalls = rest]
    BY ZenonT(30), <1>2 DEF Awaited
  <2>2. rest \subseteq Id
    BY ZenonT(30) DEF RecallState
  <2> HIDE DEF rest
  <2>3. /\ Awaited(r, i) \in RecallState
        /\ Awaited(r, i).op = r.op /\ Awaited(r, i).client = r.client
        /\ Awaited(r, i).begun = r.begun
        /\ Awaited(r, i).pc = r.pc /\ Awaited(r, i).dirs = r.dirs
        /\ Awaited(r, i).recalls = rest
    BY ZenonT(30), <2>1, <2>2 DEF RecallState
  <2> QED
    BY ZenonT(30), <2>3 DEF rest
<1> QED
  BY ZenonT(30), <1>1, <1>2

LEMMA WatchesStep ==
    ASSUME TypeInv, NEW t \in Task,
           \/ RecallFilehandle(t) \/ SendDirectoryRecall(t) \/ RevokeUnreachable(t)
           \/ ObserveComplete(t) \/ RecallTimeout(t) \/ RevokeTimedOut(t)
    PROVE  WatchesOn(t)
<1> DEFINE r == task[t]
<1>1. r.pc \in Watches /\ r \in RecallState /\ r.dirs # <<>>
  <2>1. r.pc \in Watches
    BY ZenonT(30) DEF RecallFilehandle, SendDirectoryRecall, RevokeUnreachable, ObserveComplete,
           RecallTimeout, RevokeTimedOut, Watches
  <2> QED
    BY ZenonT(30), <2>1, TaskKinds DEF TypeInv, HasTarget, Recalling, Watches
\* The recall goes on with q, or ends.
<1>2. ASSUME NEW q \in RecallState, q.op = r.op, q.client = r.client, q.begun = r.begun,
             Goto(t, q), Keeps, flagged' \subseteq clients,
             \A i \in Id : Exists(i) =>
                /\ Exists(i)'
                /\ delegations'[i] = delegations[i] \/ delegations'[i].status = "Revoked",
             \/ /\ q.pc \in Watches /\ q.dirs = r.dirs
                /\ q.recalls \subseteq r.recalls
                /\ \A i \in r.recalls \ q.recalls : ~Live(i)'
             \/ /\ q = RecallDone(r)
                /\ Head(r.dirs) \in retired \/ \A i \in r.recalls : ~Live(i)',
             UNCHANGED <<dir_delegations, client_delegations, next_stateid, clients, retired>>
      PROVE  WatchesOn(t)
  <2>1. Serves(t) /\ task'[t] = q
    BY ZenonT(30), <1>1, <1>2, GotoServes
  <2>2. q = RecallDone(r) => Over(t)
    BY ZenonT(30), <1>1, <2>1, RecallDoneFields DEF Over
  <2> QED
    BY ZenonT(30), <1>1, <1>2, <2>1, <2>2 DEF WatchesOn
<1>3. CASE UNCHANGED <<tables, next_stateid, clients, flagged, retired>>
           /\ \E p \in Watches : Goto(t, [r EXCEPT !.pc = p])
  <2>1. PICK p \in Watches : Goto(t, [r EXCEPT !.pc = p])
    BY ZenonT(30), <1>3
  <2> DEFINE q == [r EXCEPT !.pc = p]
  <2>2. /\ q \in RecallState /\ q.op = r.op /\ q.client = r.client /\ q.begun = r.begun
        /\ q.pc \in Watches /\ q.dirs = r.dirs /\ q.recalls = r.recalls
    BY ZenonT(30), <1>1 DEF RecallState, Recalling
  <2> HIDE DEF q
  <2> QED
    BY ZenonT(30), <1>2, <1>3, <2>1, <2>2, UnchangedKeeps DEF q
<1>4. CASE RecallFilehandle(t)
  <2>1. UNCHANGED <<tables, next_stateid, clients, flagged, retired>>
    BY ZenonT(30), <1>4 DEF RecallFilehandle
  <2>2. CASE Goto(t, [r EXCEPT !.pc = IF r.callbacks = {} THEN "wait" ELSE "callback"])
    <3>1. (IF r.callbacks = {} THEN "wait" ELSE "callback") \in Watches
      BY ZenonT(30) DEF Watches
    <3> QED
      BY ZenonT(30), <1>3, <2>1, <2>2, <3>1
  <2>3. CASE Head(r.dirs) \in retired /\ Goto(t, RecallDone(r))
    <3>1. /\ RecallDone(r) \in RecallState /\ RecallDone(r).op = r.op
          /\ RecallDone(r).client = r.client /\ RecallDone(r).begun = r.begun
      BY ZenonT(30), <1>1, RecallDoneFields
    <3> QED
      BY ZenonT(30), <1>2, <2>1, <2>3, <3>1, UnchangedKeeps
  <2> QED
    BY ZenonT(30), <1>4, <2>2, <2>3 DEF RecallFilehandle
<1>5. CASE SendDirectoryRecall(t)
  <2>1. UNCHANGED <<tables, next_stateid, clients, flagged, retired>>
    BY ZenonT(30), <1>5 DEF SendDirectoryRecall
  <2>2. PICK i \in r.callbacks, ok \in BOOLEAN :
           Goto(t, [r EXCEPT !.callbacks = @ \ {i}, !.failed = IF ok THEN {} ELSE {i},
                             !.pc = CASE ~ok -> "revoke"
                                      [] ok /\ r.callbacks = {i} -> "wait"
                                      [] OTHER -> "callback"])
    BY ZenonT(30), <1>5 DEF SendDirectoryRecall
  <2> DEFINE cs == r.callbacks \ {i}
             fs == IF ok THEN {} ELSE {i}
             p == CASE ~ok -> "revoke"
                    [] ok /\ r.callbacks = {i} -> "wait"
                    [] OTHER -> "callback"
             q == [r EXCEPT !.callbacks = cs, !.failed = fs, !.pc = p]
  <2>3. p \in Watches
    BY ZenonT(30) DEF Watches
  <2>4. cs \subseteq Id /\ fs \subseteq Id
    BY ZenonT(30), <1>1 DEF RecallState
  <2>5. Goto(t, q)
    BY ZenonT(30), <2>2
  <2> HIDE DEF cs, fs, p
  <2>6. /\ q \in RecallState /\ q.op = r.op /\ q.client = r.client /\ q.begun = r.begun
        /\ q.pc \in Watches /\ q.dirs = r.dirs /\ q.recalls = r.recalls
    BY ZenonT(30), <1>1, <2>3, <2>4 DEF RecallState, Recalling
  <2> HIDE DEF q
  <2> QED
    BY ZenonT(30), <1>2, <2>1, <2>5, <2>6, UnchangedKeeps
<1>6. CASE RevokeUnreachable(t)
  <2>1. UNCHANGED <<next_stateid, clients, retired>>
    BY ZenonT(30), <1>6 DEF RevokeUnreachable
  <2>2. PICK i \in r.failed : Revoke(i)
    BY ZenonT(30), <1>6 DEF RevokeUnreachable
  <2>3. i \in Id
    BY ZenonT(30), <1>1 DEF RecallState
  <2> DEFINE p == IF r.callbacks = {} THEN "wait" ELSE "callback"
             q == [r EXCEPT !.failed = {}, !.pc = p]
  <2>4. p \in Watches
    BY ZenonT(30) DEF Watches
  <2>5. Goto(t, q)
    BY ZenonT(30), <1>6 DEF RevokeUnreachable
  <2> HIDE DEF p
  <2>6. /\ q \in RecallState /\ q.op = r.op /\ q.client = r.client /\ q.begun = r.begun
        /\ q.pc \in Watches /\ q.dirs = r.dirs /\ q.recalls = r.recalls
    BY ZenonT(30), <1>1, <2>4 DEF RecallState, Recalling
  <2> HIDE DEF q
  <2> QED
    BY ZenonT(30), <1>2, <2>1, <2>2, <2>3, <2>5, <2>6, RevokeKeeps
\* i needs no more waiting.
<1>7. ASSUME NEW i \in r.recalls, Goto(t, Awaited(r, i)), ~Live(i)', Keeps, flagged' \subseteq clients,
             \A j \in Id : Exists(j) =>
                /\ Exists(j)'
                /\ delegations'[j] = delegations[j] \/ delegations'[j].status = "Revoked",
             UNCHANGED <<dir_delegations, client_delegations, next_stateid, clients, retired>>
      PROVE  WatchesOn(t)
  <2> DEFINE q == Awaited(r, i)
  <2>1. /\ q \in RecallState /\ q.op = r.op /\ q.client = r.client /\ q.begun = r.begun
        /\ \/ /\ q.pc \in Watches /\ q.dirs = r.dirs
              /\ q.recalls = r.recalls \ {i}
           \/ r.recalls = {i} /\ q = RecallDone(r)
    BY ZenonT(30), <1>1, AwaitedFields
  <2>2. \/ /\ q.pc \in Watches /\ q.dirs = r.dirs
           /\ q.recalls \subseteq r.recalls
           /\ \A j \in r.recalls \ q.recalls : ~Live(j)'
        \/ /\ q = RecallDone(r)
           /\ \A j \in r.recalls : ~Live(j)'
    <3>1. \A j : j \in r.recalls \ (r.recalls \ {i}) => j = i
      BY ZenonT(30)
    <3> HIDE DEF q, r
    <3> QED
      BY ZenonT(30), <1>7, <2>1, <3>1
  <2> HIDE DEF q
  <2> QED
    BY ZenonT(30), <1>2, <1>7, <2>1, <2>2 DEF q
<1>8. CASE ObserveComplete(t)
  <2>1. UNCHANGED <<tables, next_stateid, clients, flagged, retired>>
    BY ZenonT(30), <1>8 DEF ObserveComplete
  <2>2. PICK i \in r.recalls : ~Live(i) /\ Goto(t, Awaited(r, i))
    BY ZenonT(30), <1>8 DEF ObserveComplete
  <2>3. i \in Id
    BY ZenonT(30), <1>1 DEF RecallState
  <2> QED
    BY ZenonT(30), <1>7, <2>1, <2>2, <2>3, UnchangedKeeps
<1>9. CASE RecallTimeout(t)
  <2>1. UNCHANGED <<tables, next_stateid, clients, flagged, retired>>
    BY ZenonT(30), <1>9 DEF RecallTimeout
  <2>2. Goto(t, [r EXCEPT !.pc = "timeout"]) /\ "timeout" \in Watches
    BY ZenonT(30), <1>9 DEF RecallTimeout, Watches
  <2> QED
    BY ZenonT(30), <1>3, <2>1, <2>2
<1>10. CASE RevokeTimedOut(t)
  <2>1. UNCHANGED <<next_stateid, clients, retired>>
    BY ZenonT(30), <1>10 DEF RevokeTimedOut
  <2>2. PICK i \in r.recalls : Revoke(i) /\ Goto(t, Awaited(r, i))
    BY ZenonT(30), <1>10 DEF RevokeTimedOut
  <2>3. i \in Id
    BY ZenonT(30), <1>1 DEF RecallState
  <2> QED
    BY ZenonT(30), <1>7, <2>1, <2>2, <2>3, RevokeKeeps
<1> QED
  BY ZenonT(30), <1>4, <1>5, <1>6, <1>8, <1>9, <1>10

\* Entries leave the table and both indexes, and nothing else happens to them.
Removes ==
    /\ Keeps
    /\ \A i \in Id : Exists(i)' => delegations'[i] = delegations[i]
    /\ dir_delegations' \in [Dir -> SUBSET Id]
    /\ client_delegations' \in [Client -> SUBSET Id]
    /\ IndexesAgree'
    /\ clients' \subseteq Client /\ flagged' \subseteq clients'
    /\ UNCHANGED <<next_stateid, retired>>

Drops == Removes /\ UNCHANGED task

\* t is left idle or with a grant to make; a retirement sweeps first.
Ends(t) ==
    /\ Removes
    /\ \A u \in Task : u # t => task'[u] = task[u]
    /\ task' \in [Task -> TaskState]
    /\ task[t].pc \in {"idle", "grant", "finish"}
    /\ task'[t].pc \in {"idle", "grant"}
    /\ task[t].pc = "finish" /\ task[t].op = "retire" =>
         \A i \in Id, b \in task[t].begun : Exists(i)' => delegations[i].object # b[1]

\* t begins an operation; a retirement marks its directory first.
Starts(t) ==
    /\ UNCHANGED <<tables, next_stateid, clients, flagged>>
    /\ \A u \in Task : u # t => task'[u] = task[u]
    /\ task' \in [Task -> TaskState]
    /\ task[t].pc = "idle"
    /\ task'[t].pc = "recall" /\ task'[t].begun = {} /\ task'[t].dirs # <<>>
    /\ retired \subseteq retired' /\ retired' \subseteq Dir
    /\ \A d \in retired' \ retired : task'[t].op = "retire" /\ Head(task'[t].dirs) = d

Grants(t) ==
    LET c == task[t].client
        d == task[t].dir
        entry == [object |-> d, clientid |-> c, status |-> "Granted"] IN
    /\ task[t] \in GrantState
    /\ next_stateid \in Id
    /\ Grantable(c, d)
    /\ delegations' = [delegations EXCEPT ![next_stateid] = entry]
    /\ dir_delegations' = [dir_delegations EXCEPT ![d] = dir_delegations[d] \cup {next_stateid}]
    /\ client_delegations' =
         [client_delegations EXCEPT ![c] = client_delegations[c] \cup {next_stateid}]
    /\ next_stateid' = next_stateid + 1
    /\ task' = [task EXCEPT ![t] = Idle]
    /\ UNCHANGED <<clients, flagged, retired>>

LEMMA RemoveRemoves ==
    ASSUME TypeInv, IndexesAgree, NEW S \in SUBSET Id, Remove(S),
           clients' \subseteq Client, flagged' \subseteq clients',
           UNCHANGED <<next_stateid, retired>>
    PROVE  Removes
<1>1. \A i \in Id : delegations'[i] = IF i \in S THEN NoState ELSE delegations[i]
  BY ZenonT(30) DEF Remove
<1>2. Keeps /\ \A i \in Id : Exists(i)' => delegations'[i] = delegations[i]
  <2>1. delegations' \in [Id -> DelegationState \cup {NoState}]
    BY ZenonT(30) DEF Remove, TypeInv, TypeOK
  <2>2. \A i \in Id : Exists(i)' => Exists(i) /\ delegations'[i] = delegations[i]
    BY ZenonT(30), <1>1 DEF Exists
  <2> QED
    BY ZenonT(30), <2>1, <2>2 DEF Keeps
<1>3. dir_delegations' \in [Dir -> SUBSET Id] /\ client_delegations' \in [Client -> SUBSET Id]
  BY ZenonT(30) DEF Remove, TypeInv, TypeOK
<1>4. \A i \in Id : Exists(i)' <=> Exists(i) /\ i \notin S
  BY ZenonT(30), <1>1 DEF Exists
<1>5. \A i \in Id, d \in Dir : i \in dir_delegations'[d] <=>
         i \in dir_delegations[d] /\ ~(i \in S /\ Exists(i) /\ delegations[i].object = d)
  BY ZenonT(30) DEF Remove, Exists
<1>6. \A i \in Id, c \in Client : i \in client_delegations'[c] <=>
         i \in client_delegations[c] /\ ~(i \in S /\ Exists(i) /\ delegations[i].clientid = c)
  BY ZenonT(30) DEF Remove, Exists
<1>7. IndexesAgree'
  <2>1. \A i \in Id, d \in Dir : i \in dir_delegations'[d] <=>
           Exists(i)' /\ delegations'[i].object = d
    BY <1>2, <1>4, <1>5 DEF IndexesAgree
  <2>2. \A i \in Id, c \in Client : i \in client_delegations'[c] <=>
           Exists(i)' /\ delegations'[i].clientid = c
    BY <1>2, <1>4, <1>6 DEF IndexesAgree
  <2> QED
    BY ZenonT(30), <2>1, <2>2 DEF IndexesAgree
<1> QED
  BY ZenonT(30), <1>2, <1>3, <1>7 DEF Removes

LEMMA UnchangedRemoves ==
    ASSUME TypeInv, IndexesAgree, UNCHANGED <<tables, next_stateid, clients, flagged, retired>>
    PROVE  Removes
<1>1. UNCHANGED <<delegations, dir_delegations, client_delegations>>
  BY ZenonT(30) DEF tables
<1>2. IndexesAgree'
  BY ZenonT(30), <1>1 DEF IndexesAgree, Exists
<1> QED
  BY ZenonT(30), <1>1, <1>2 DEF Removes, Keeps, Exists, TypeInv, TypeOK

LEMMA InvalidateEnds ==
    ASSUME TypeInv, IndexesAgree, NEW t \in Task, InvalidateObjects(t)
    PROVE  Ends(t)
<1> DEFINE swept == {b[1] : b \in task[t].begun}
           dropped == {i \in Id : Exists(i) /\ delegations[i].object \in swept}
<1>1. /\ task[t].pc = "finish" /\ task[t].op = "retire"
      /\ delegations' = [i \in Id |-> IF i \in dropped THEN NoState ELSE delegations[i]]
      /\ client_delegations' = [c \in Client |-> client_delegations[c] \ dropped]
      /\ dir_delegations' = [d \in Dir |-> IF d \in swept THEN {} ELSE dir_delegations[d]]
      /\ task' = [task EXCEPT ![t] = Idle]
      /\ UNCHANGED <<next_stateid, clients, flagged, retired>>
  BY ZenonT(30) DEF InvalidateObjects, Goto
<1>2. \A i \in Id : i \in dropped <=> Exists(i) /\ delegations[i].object \in swept
  BY ZenonT(30)
<1>3. \A b \in task[t].begun : b[1] \in swept
  BY ZenonT(30)
<1> HIDE DEF swept, dropped
<1>4. \A i \in Id : Exists(i)' <=> Exists(i) /\ delegations[i].object \notin swept
  BY ZenonT(30), <1>1, <1>2 DEF Exists
<1>5. Keeps /\ \A i \in Id : Exists(i)' => delegations'[i] = delegations[i]
  <2>1. delegations' \in [Id -> DelegationState \cup {NoState}]
    BY ZenonT(30), <1>1 DEF TypeInv, TypeOK
  <2>2. \A i \in Id : Exists(i)' => Exists(i) /\ delegations'[i] = delegations[i]
    BY ZenonT(30), <1>1, <1>2 DEF Exists
  <2> QED
    BY ZenonT(30), <2>1, <2>2 DEF Keeps
<1>6. dir_delegations' \in [Dir -> SUBSET Id] /\ client_delegations' \in [Client -> SUBSET Id]
  BY ZenonT(30), <1>1 DEF TypeInv, TypeOK
<1>7. IndexesAgree'
  <2>1. \A i \in Id, d \in Dir : i \in dir_delegations'[d] <=>
           Exists(i)' /\ delegations'[i].object = d
    <3>1. \A i \in Id, d \in Dir : i \in dir_delegations'[d] <=>
             i \in dir_delegations[d] /\ d \notin swept
      BY ZenonT(30), <1>1
    <3> QED
      BY <3>1, <1>4, <1>5 DEF IndexesAgree
  <2>2. \A i \in Id, c \in Client : i \in client_delegations'[c] <=>
           Exists(i)' /\ delegations'[i].clientid = c
    <3>1. \A i \in Id, c \in Client : i \in client_delegations'[c] <=>
             i \in client_delegations[c] /\ i \notin dropped
      BY ZenonT(30), <1>1
    <3> QED
      BY <3>1, <1>2, <1>4, <1>5 DEF IndexesAgree
  <2> QED
    BY ZenonT(30), <2>1, <2>2 DEF IndexesAgree
<1>8. Removes
  BY ZenonT(30), <1>1, <1>5, <1>6, <1>7 DEF Removes, TypeInv, TypeOK
<1>9. /\ \A u \in Task : u # t => task'[u] = task[u]
      /\ task' \in [Task -> TaskState]
      /\ task'[t].pc = "idle"
  BY ZenonT(30), <1>1, StatesAreTaskStates DEF TypeInv, TypeOK, Idle
<1> QED
  BY ZenonT(30), <1>1, <1>3, <1>4, <1>8, <1>9 DEF Ends

LEMMA GotoEnds ==
    ASSUME TypeInv, IndexesAgree, NEW t \in Task, NEW r \in GrantState \cup {Idle}, Goto(t, r),
           task[t].pc \in {"idle", "grant"} \/ (task[t].pc = "finish" /\ task[t].op = "mutate"),
           UNCHANGED <<tables, next_stateid, clients, flagged, retired>>
    PROVE  Ends(t)
<1>1. task' = [task EXCEPT ![t] = r]
  BY ZenonT(30) DEF Goto
<1>2. r.pc \in {"idle", "grant"} /\ r \in TaskState
  BY StatesAreTaskStates DEF Idle, GrantState
<1>3. /\ \A u \in Task : u # t => task'[u] = task[u]
      /\ task' \in [Task -> TaskState]
      /\ task'[t] = r
  BY ZenonT(30), <1>1, <1>2 DEF TypeInv, TypeOK
<1> QED
  BY ZenonT(30), <1>2, <1>3, UnchangedRemoves DEF Ends

LEMMA GotoStarts ==
    ASSUME TypeInv, NEW t \in Task, task[t] = Idle, NEW op \in {"mutate", "retire"},
           NEW c \in Client \cup {NoClient}, NEW dirs \in Seq(Dir), dirs # <<>>,
           Goto(t, Starting(op, c, dirs)),
           UNCHANGED <<tables, next_stateid, clients, flagged>>,
           retired \subseteq retired', retired' \subseteq Dir,
           \A d \in retired' \ retired : op = "retire" /\ Head(dirs) = d
    PROVE  Starts(t)
<1> DEFINE r == Starting(op, c, dirs)
<1>1. /\ r \in RecallState /\ r.pc = "recall" /\ r.begun = {} /\ r.dirs = dirs /\ r.op = op
  BY ZenonT(30) DEF Starting, RecallState, Recalling
<1> HIDE DEF r
<1>2. task' = [task EXCEPT ![t] = r] /\ task \in [Task -> TaskState] /\ r \in TaskState
  BY ZenonT(30), <1>1, StatesAreTaskStates DEF Goto, TypeInv, TypeOK, r
<1>3. /\ \A u \in Task : u # t => task'[u] = task[u]
      /\ task' \in [Task -> TaskState]
      /\ task'[t] = r
  BY ZenonT(30), <1>2
<1> QED
  BY <1>1, <1>3 DEF Starts, Idle

\* Every step is of one of six kinds.
LEMMA StepKinds ==
    ASSUME TypeInv, IndexesAgree, [Next]_vars
    PROVE  \/ Drops
           \/ \E t \in Task : Begins(t) \/ WatchesOn(t) \/ Grants(t) \/ Starts(t) \/ Ends(t)
<1>1. CASE UNCHANGED vars
  BY ZenonT(30), <1>1, UnchangedRemoves DEF vars, Drops
<1>2. ASSUME NEW t \in Task, StartGetDirDelegation(t)
      PROVE  Ends(t)
  <2>1. PICK c \in clients, d \in Dir : Goto(t, [pc |-> "grant", client |-> c, dir |-> d])
    BY ZenonT(30), <1>2 DEF StartGetDirDelegation
  <2>2. [pc |-> "grant", client |-> c, dir |-> d] \in GrantState
    BY ZenonT(30) DEF GrantState, TypeInv, TypeOK
  <2>3. task[t].pc = "idle"
    BY <1>2 DEF StartGetDirDelegation, Idle
  <2>4. UNCHANGED <<tables, next_stateid, clients, flagged, retired>>
    BY ZenonT(30), <1>2 DEF StartGetDirDelegation
  <2> QED
    BY ZenonT(30), <2>1, <2>2, <2>3, <2>4, GotoEnds
<1>3. ASSUME NEW t \in Task, GrantDirectoryDelegation(t)
      PROVE  Grants(t) \/ Ends(t)
  <2>1. task[t].pc = "grant" /\ task[t] \in GrantState
    BY ZenonT(30), <1>3, TaskKinds DEF GrantDirectoryDelegation, TypeInv
  <2>2. CASE ~Grantable(task[t].client, task[t].dir)
    <3>1. Goto(t, Idle) /\ UNCHANGED <<tables, next_stateid, clients, flagged, retired>>
      BY ZenonT(30), <1>3, <2>2 DEF GrantDirectoryDelegation
    <3> QED
      BY ZenonT(30), <2>1, <3>1, GotoEnds
  <2>3. CASE Grantable(task[t].client, task[t].dir)
    <3>1. /\ next_stateid \in Id
          /\ delegations' = [delegations EXCEPT ![next_stateid] =
               [object |-> task[t].dir, clientid |-> task[t].client, status |-> "Granted"]]
          /\ dir_delegations' = [dir_delegations EXCEPT ![task[t].dir] =
               dir_delegations[task[t].dir] \cup {next_stateid}]
          /\ client_delegations' = [client_delegations EXCEPT ![task[t].client] =
               client_delegations[task[t].client] \cup {next_stateid}]
          /\ next_stateid' = next_stateid + 1
      BY ZenonT(30), <1>3, <2>3 DEF GrantDirectoryDelegation
    <3>2. task' = [task EXCEPT ![t] = Idle] /\ UNCHANGED <<clients, flagged, retired>>
      BY ZenonT(30), <1>3 DEF GrantDirectoryDelegation, Goto
    <3> QED
      BY ZenonT(30), <2>1, <2>3, <3>1, <3>2 DEF Grants
  <2> QED
    BY ZenonT(30), <2>2, <2>3
<1>4. ASSUME NEW t \in Task, StartMutation(t)
      PROVE  Starts(t)
  <2>1. PICK c \in clients \cup {NoClient}, dirs \in Targets :
            Goto(t, Starting("mutate", c, dirs))
    BY ZenonT(30), <1>4 DEF StartMutation
  <2>2. c \in Client \cup {NoClient} /\ dirs \in Seq(Dir) /\ dirs # <<>>
    BY ZenonT(30), DirDelegationsAssumption DEF TypeInv, TypeOK
  <2>3. task[t] = Idle /\ UNCHANGED <<tables, next_stateid, clients, flagged, retired>>
    BY ZenonT(30), <1>4 DEF StartMutation
  <2>4. retired \subseteq retired' /\ retired' \subseteq Dir /\ retired' \ retired = {}
    BY ZenonT(30), <2>3 DEF TypeInv, TypeOK
  <2> QED
    BY ZenonT(30), <2>1, <2>2, <2>3, <2>4, GotoStarts
<1>5. ASSUME NEW t \in Task, StartRetirement(t)
      PROVE  Starts(t)
  <2>1. PICK d \in Retirable \ retired : /\ retired' = retired \cup {d}
                                         /\ Goto(t, Starting("retire", NoClient, <<d>>))
    BY ZenonT(30), <1>5 DEF StartRetirement
  <2>2. d \in Dir /\ <<d>> \in Seq(Dir) /\ <<d>> # <<>> /\ Head(<<d>>) = d
    BY DirDelegationsAssumption
  <2>3. task[t] = Idle /\ UNCHANGED <<tables, next_stateid, clients, flagged>>
    BY ZenonT(30), <1>5 DEF StartRetirement
  <2>4. retired \subseteq retired' /\ retired' \subseteq Dir /\ \A e \in retired' \ retired : e = d
    BY ZenonT(30), <2>1, <2>2 DEF TypeInv, TypeOK
  <2> QED
    BY ZenonT(30), <2>1, <2>2, <2>3, <2>4, GotoStarts
<1>6. ASSUME NEW t \in Task, Recall(t)
      PROVE  Begins(t) \/ WatchesOn(t)
  BY ZenonT(30), <1>6, BeginsStep, WatchesStep DEF Recall
<1>7. ASSUME NEW t \in Task, Mutate(t)
      PROVE  Ends(t)
  BY ZenonT(30), <1>7, GotoEnds DEF Mutate
<1>8. ASSUME NEW c \in Client, PurgeClientDelegations(c)
      PROVE  Drops
  BY ZenonT(30), <1>8, RemoveRemoves DEF PurgeClientDelegations, Drops, TypeInv, TypeOK
<1>9. ASSUME NEW c \in Client, DropClient(c)
      PROVE  Drops
  BY ZenonT(30), <1>9, RemoveRemoves DEF DropClient, Drops, TypeInv, TypeOK
<1>10. ASSUME NEW c \in Client, CreateSession(c)
       PROVE  Drops
  <2>1. UNCHANGED <<delegations, dir_delegations, client_delegations, next_stateid, retired, task>>
        /\ clients' = clients /\ flagged' \subseteq flagged
    BY ZenonT(30), <1>10 DEF CreateSession, tables
  <2>2. IndexesAgree'
    BY ZenonT(30), <2>1 DEF IndexesAgree, Exists
  <2> QED
    BY ZenonT(30), <2>1, <2>2 DEF Drops, Removes, Keeps, Exists, TypeInv, TypeOK
<1>11. ASSUME NEW i \in Id, ReturnDelegationState(i) \/ FreeStateid(i)
       PROVE  Drops
  <2>1. /\ Remove({i}) /\ {i} \in SUBSET Id
        /\ UNCHANGED <<next_stateid, clients, flagged, retired, task>>
    BY ZenonT(30), <1>11 DEF ReturnDelegationState, FreeStateid
  <2> QED
    BY ZenonT(30), <2>1, RemoveRemoves DEF Drops, TypeInv, TypeOK
<1> QED
  BY ZenonT(30), <1>1, <1>2, <1>3, <1>4, <1>5, <1>6, <1>7, <1>8, <1>9, <1>10, <1>11, InvalidateEnds DEF Next

-----------------------------------------------------------------------------
(* Types and indexes.                                                       *)

\* Stateids are not used twice.
Fresh == \A i \in Id : Exists(i) => i < next_stateid

Base == TypeInv /\ Fresh /\ IndexesAgree

LEMMA BaseInit == Init => Base
<1> SUFFICES ASSUME Init PROVE Base
  BY ZenonT(30)
<1>1. \A t \in Task : task[t].pc = "idle"
  BY ZenonT(30) DEF Init, Idle
<1>2. TypeOK
  BY StatesAreTaskStates, DirDelegationsAssumption DEF Init, TypeOK
<1> QED
  BY ZenonT(30), <1>1, <1>2 DEF Init, Base, TypeInv, HasTarget, Fresh, IndexesAgree, Exists, Recalling, Watches

LEMMA GrantEntry ==
    ASSUME Base, NEW t \in Task, Grants(t)
    PROVE  /\ task[t].client \in Client /\ task[t].dir \in Dir
           /\ ~Exists(next_stateid)
           /\ delegations'[next_stateid] \in DelegationState
           /\ delegations'[next_stateid] # NoState
           /\ delegations'[next_stateid].object = task[t].dir
           /\ delegations'[next_stateid].clientid = task[t].client
           /\ delegations'[next_stateid].status = "Granted"
           /\ \A i \in Id : i # next_stateid => delegations'[i] = delegations[i]
<1> DEFINE e == [object |-> task[t].dir, clientid |-> task[t].client, status |-> "Granted"]
<1>1. task[t].client \in Client /\ task[t].dir \in Dir
  BY ZenonT(30) DEF Grants, GrantState
<1>2. e \in DelegationState /\ e.object = task[t].dir /\ e.clientid = task[t].client
      /\ e.status = "Granted"
  BY ZenonT(30), <1>1 DEF DelegationState, Status
<1>3. delegations' = [delegations EXCEPT ![next_stateid] = e] /\ next_stateid \in Id
  BY ZenonT(30) DEF Grants
<1> HIDE DEF e
<1>4. delegations'[next_stateid] = e /\ \A i \in Id : i # next_stateid => delegations'[i] = delegations[i]
  BY ZenonT(30), <1>3 DEF Base, TypeInv, TypeOK
<1>5. ~Exists(next_stateid)
  BY <1>3, DirDelegationsAssumption DEF Base, Fresh, Id
<1> QED
  BY ZenonT(30), <1>1, <1>2, <1>4, <1>5, DirDelegationsAssumption DEF Exists

LEMMA BaseNext ==
    ASSUME Base, [Next]_vars
    PROVE  Base'
<1> USE DEF Base
<1>1. ASSUME Keeps, \A i \in Id : Exists(i) => Exists(i)',
             UNCHANGED <<dir_delegations, client_delegations>>
      PROVE  IndexesAgree'
  BY <1>1 DEF Keeps, IndexesAgree
<1>2. Keeps /\ next_stateid' = next_stateid => Fresh'
  BY ZenonT(30) DEF Keeps, Fresh
<1>3. CASE Drops
  BY ZenonT(30), <1>2, <1>3 DEF Drops, Removes, Keeps, TypeInv, TypeOK, HasTarget
<1>4. ASSUME NEW t \in Task, Begins(t)
      PROVE  Base'
  <2>1. IndexesAgree'
    BY ZenonT(30), <1>1, <1>4 DEF Begins
  <2>2. TypeOK'
    BY ZenonT(30), <1>4 DEF Begins, Keeps, Serves, TypeInv, TypeOK
  <2>3. HasTarget'
    BY ZenonT(30), <1>4 DEF Begins, Over, Serves, TypeInv, HasTarget, Recalling, Watches
  <2>4. Fresh'
    BY ZenonT(30), <1>2, <1>4 DEF Begins
  <2> QED
    BY ZenonT(30), <2>1, <2>2, <2>3, <2>4 DEF TypeInv
<1>5. ASSUME NEW t \in Task, WatchesOn(t)
      PROVE  Base'
  <2>1. IndexesAgree'
    BY ZenonT(30), <1>1, <1>5 DEF WatchesOn
  <2>2. TypeOK'
    BY ZenonT(30), <1>5 DEF WatchesOn, Keeps, Serves, TypeInv, TypeOK
  <2>3. HasTarget'
    BY ZenonT(30), <1>5 DEF WatchesOn, Over, Serves, TypeInv, HasTarget, Recalling, Watches
  <2>4. Fresh'
    BY ZenonT(30), <1>2, <1>5 DEF WatchesOn
  <2> QED
    BY ZenonT(30), <2>1, <2>2, <2>3, <2>4 DEF TypeInv
<1>6. ASSUME NEW t \in Task, Grants(t)
      PROVE  Base'
  <2>1. /\ task[t].client \in Client /\ task[t].dir \in Dir
        /\ delegations'[next_stateid] \in DelegationState
        /\ delegations'[next_stateid] # NoState
        /\ delegations'[next_stateid].object = task[t].dir
        /\ delegations'[next_stateid].clientid = task[t].client
        /\ \A i \in Id : i # next_stateid => delegations'[i] = delegations[i]
        /\ ~Exists(next_stateid)
    <3> HIDE DEF Base
    <3> QED
      BY ZenonT(30), <1>6, GrantEntry
  <2>2. /\ next_stateid \in Id /\ next_stateid' = next_stateid + 1
        /\ dir_delegations' = [dir_delegations EXCEPT ![task[t].dir] =
               dir_delegations[task[t].dir] \cup {next_stateid}]
        /\ client_delegations' = [client_delegations EXCEPT ![task[t].client] =
               client_delegations[task[t].client] \cup {next_stateid}]
        /\ task' = [task EXCEPT ![t] = Idle]
        /\ UNCHANGED <<clients, flagged, retired>>
    BY ZenonT(30), <1>6 DEF Grants
  <2>3. TypeOK'
    <3>1. delegations' \in [Id -> DelegationState \cup {NoState}]
      BY ZenonT(30), <1>6, <2>1 DEF Grants, TypeInv, TypeOK
    <3>2. next_stateid' \in 1..(MaxId + 1)
      BY <2>2, DirDelegationsAssumption DEF Id
    <3> QED
      BY ZenonT(30), <2>1, <2>2, <3>1, <3>2, StatesAreTaskStates DEF TypeInv, TypeOK
  <2>4. HasTarget'
    BY ZenonT(30), <2>2 DEF TypeInv, TypeOK, HasTarget, Idle, Recalling, Watches
  <2>5. Fresh'
    BY <2>1, <2>2, DirDelegationsAssumption DEF Fresh, Id, Exists
  <2>6. \A i \in Id, d \in Dir : i \in dir_delegations'[d] <=>
           Exists(i)' /\ delegations'[i].object = d
    <3>1. \A i \in Id, d \in Dir : i \in dir_delegations'[d] <=>
             i \in dir_delegations[d] \/ (d = task[t].dir /\ i = next_stateid)
      BY ZenonT(30), <2>1, <2>2 DEF TypeInv, TypeOK
    <3> QED
      BY <2>1, <3>1 DEF IndexesAgree, Exists
  <2>7. \A i \in Id, c \in Client : i \in client_delegations'[c] <=>
           Exists(i)' /\ delegations'[i].clientid = c
    <3>1. \A i \in Id, c \in Client : i \in client_delegations'[c] <=>
             i \in client_delegations[c] \/ (c = task[t].client /\ i = next_stateid)
      BY ZenonT(30), <2>1, <2>2 DEF TypeInv, TypeOK
    <3> QED
      BY <2>1, <3>1 DEF IndexesAgree, Exists
  <2> QED
    BY ZenonT(30), <2>3, <2>4, <2>5, <2>6, <2>7 DEF TypeInv, IndexesAgree
<1>7. ASSUME NEW t \in Task, Starts(t)
      PROVE  Base'
  <2>1. TypeOK' /\ IndexesAgree' /\ Fresh'
    BY <1>7 DEF Starts, tables, TypeInv, TypeOK, IndexesAgree, Fresh, Exists
  <2>2. HasTarget'
    BY ZenonT(30), <1>7 DEF Starts, TypeInv, HasTarget
  <2> QED
    BY ZenonT(30), <2>1, <2>2 DEF TypeInv
<1>8. ASSUME NEW t \in Task, Ends(t)
      PROVE  Base'
  <2>1. TypeOK' /\ IndexesAgree' /\ Fresh'
    BY ZenonT(30), <1>2, <1>8 DEF Ends, Removes, Keeps, TypeInv, TypeOK
  <2>2. HasTarget'
    BY ZenonT(30), <1>8 DEF Ends, TypeInv, HasTarget, Recalling, Watches
  <2> QED
    BY ZenonT(30), <2>1, <2>2 DEF TypeInv
<1> QED
  BY ZenonT(30), <1>3, <1>4, <1>5, <1>6, <1>7, <1>8, StepKinds

-----------------------------------------------------------------------------
(* Limits: live delegations only become fewer, except by a grant.           *)

LEMMA IdFinite == \A S \in SUBSET Id : IsFiniteSet(S) /\ Cardinality(S) \in Nat
<1>1. IsFiniteSet(Id)
  BY DirDelegationsAssumption, FS_Interval DEF Id
<1> QED
  BY ZenonT(30), <1>1, FS_Subset, FS_CardinalityType

LEMMA IdCardinality ==
    ASSUME NEW S \in SUBSET Id
    PROVE  /\ \A T \in SUBSET S : Cardinality(T) <= Cardinality(S)
           /\ \A x \in Id : Cardinality(S \cup {x}) <= Cardinality(S) + 1
<1>1. IsFiniteSet(S) /\ Cardinality(S) \in Nat
  BY ZenonT(30), IdFinite
<1>2. \A T \in SUBSET S : Cardinality(T) <= Cardinality(S)
  BY ZenonT(30), <1>1, FS_Subset
<1>3. \A x \in Id : Cardinality(S \cup {x}) <= Cardinality(S) + 1
  <2> TAKE x \in Id
  <2>1. Cardinality(S \cup {x}) = Cardinality(S) \/ Cardinality(S \cup {x}) = Cardinality(S) + 1
    BY ZenonT(30), <1>1, FS_AddElement
  <2> QED
    BY <2>1, <1>1
<1> QED
  BY ZenonT(30), <1>2, <1>3

LEMMA LiveShrinks ==
    ASSUME Base, GrantsAreLimited, Keeps, \A i \in Id : Live(i)' => Live(i)
    PROVE  GrantsAreLimited'
<1>1. \A i \in Id : Live(i)' => /\ delegations'[i].object = delegations[i].object
                               /\ delegations'[i].clientid = delegations[i].clientid
  BY ZenonT(30) DEF Keeps, Live
<1>2. \A i, j \in Id : Live(i)' /\ Live(j)' /\ delegations'[i].object = delegations'[j].object
                        /\ delegations'[i].clientid = delegations'[j].clientid => i = j
  BY ZenonT(30), <1>1 DEF GrantsAreLimited
<1>3. ASSUME NEW c \in Client
      PROVE  Cardinality({i \in Id : Live(i)' /\ delegations'[i].clientid = c}) <= MaxPerClient
  <2> DEFINE S == {i \in Id : Live(i) /\ delegations[i].clientid = c}
             T == {i \in Id : Live(i)' /\ delegations'[i].clientid = c}
  <2>1. S \in SUBSET Id /\ T \in SUBSET S /\ T \in SUBSET Id
    BY ZenonT(30), <1>1
  <2>2. Cardinality(S) <= MaxPerClient
    BY ZenonT(30) DEF GrantsAreLimited
  <2> HIDE DEF S, T
  <2>3. Cardinality(T) <= Cardinality(S) /\ Cardinality(T) \in Nat /\ Cardinality(S) \in Nat
    BY ZenonT(30), <2>1, IdCardinality, IdFinite
  <2>4. Cardinality(T) <= MaxPerClient
    BY <2>2, <2>3, DirDelegationsAssumption
  <2> QED
    BY ZenonT(30), <2>4 DEF T
<1>4. Cardinality({i \in Id : Live(i)'}) <= MaxTotal
  <2> DEFINE S == {i \in Id : Live(i)}
             T == {i \in Id : Live(i)'}
  <2>1. S \in SUBSET Id /\ T \in SUBSET S /\ T \in SUBSET Id
    BY ZenonT(30)
  <2>2. Cardinality(S) <= MaxTotal
    BY ZenonT(30) DEF GrantsAreLimited
  <2> HIDE DEF S, T
  <2>3. Cardinality(T) <= Cardinality(S) /\ Cardinality(T) \in Nat /\ Cardinality(S) \in Nat
    BY ZenonT(30), <2>1, IdCardinality, IdFinite
  <2>4. Cardinality(T) <= MaxTotal
    BY <2>2, <2>3, DirDelegationsAssumption
  <2> QED
    BY ZenonT(30), <2>4 DEF T
<1> QED
  BY ZenonT(30), <1>2, <1>3, <1>4 DEF GrantsAreLimited

LEMMA GrantWithinLimits ==
    ASSUME Base, GrantsAreLimited, NEW t \in Task, Grants(t)
    PROVE  GrantsAreLimited'
<1> DEFINE n == next_stateid
           c == task[t].client
           d == task[t].dir
<1>1. /\ c \in Client /\ d \in Dir /\ n \in Id
      /\ ~Exists(n)
      /\ delegations'[n] # NoState
      /\ delegations'[n].object = d
      /\ delegations'[n].clientid = c
      /\ delegations'[n].status = "Granted"
      /\ \A i \in Id : i # n => delegations'[i] = delegations[i]
  BY ZenonT(30), GrantEntry DEF Grants
<1>2. Grantable(c, d)
  BY ZenonT(30) DEF Grants
<1> HIDE DEF n, c, d
<1>3. ~Live(n) /\ \A i \in Id : Live(i)' <=> (Live(i) \/ i = n)
  BY ZenonT(30), <1>1 DEF Live, Exists
<1>4. \A i, j \in Id : Live(i)' /\ Live(j)' /\ delegations'[i].object = delegations'[j].object
                        /\ delegations'[i].clientid = delegations'[j].clientid => i = j
  <2>1. \A i \in Id : Live(i) => ~(delegations[i].object = d /\ delegations[i].clientid = c)
    <3>1. \A i \in Id : Live(i) /\ delegations[i].clientid = c => i \in client_delegations[c]
      BY ZenonT(30), <1>1 DEF Base, IndexesAgree, Live
    <3> QED
      BY ZenonT(30), <1>2, <3>1 DEF Grantable, Held
  <2> QED
    BY ZenonT(30), <1>1, <1>3, <2>1 DEF GrantsAreLimited
<1>5. ASSUME NEW k \in Client
      PROVE  Cardinality({i \in Id : Live(i)' /\ delegations'[i].clientid = k}) <= MaxPerClient
  <2> DEFINE S == {i \in Id : Live(i) /\ delegations[i].clientid = k}
             T == {i \in Id : Live(i)' /\ delegations'[i].clientid = k}
  <2>1. S \in SUBSET Id /\ T \in SUBSET Id
    BY ZenonT(30)
  <2>2. Cardinality(S) <= MaxPerClient
    BY ZenonT(30) DEF GrantsAreLimited
  <2>3. Cardinality(T) \in Nat /\ Cardinality(S) \in Nat
    BY ZenonT(30), <2>1, IdFinite
  <2>4. CASE k # c
    <3>1. T = S
      BY ZenonT(30), <1>1, <1>3, <2>4
    <3> QED
      BY ZenonT(30), <2>2, <3>1
  <2>5. CASE k = c
    <3>1. T = S \cup {n}
      BY ZenonT(30), <1>1, <1>3, <2>5
    <3>2. S = {i \in client_delegations[c] : Live(i)}
      BY <1>1, <2>5 DEF Base, TypeInv, TypeOK, IndexesAgree, Live
    <3>3. Cardinality(S) < MaxPerClient
      BY ZenonT(30), <1>2, <3>2 DEF Grantable
    <3> HIDE DEF S, T
    <3>4. Cardinality(T) <= Cardinality(S) + 1
      BY ZenonT(30), <1>1, <2>1, <3>1, IdCardinality
    <3>5. Cardinality(T) <= MaxPerClient
      BY <2>3, <3>3, <3>4, DirDelegationsAssumption
    <3> QED
      BY ZenonT(30), <3>5 DEF T
  <2> QED
    BY ZenonT(30), <2>4, <2>5
<1>6. Cardinality({i \in Id : Live(i)'}) <= MaxTotal
  <2> DEFINE S == {i \in Id : Live(i)}
             T == {i \in Id : Live(i)'}
  <2>1. S \in SUBSET Id /\ T \in SUBSET Id
    BY ZenonT(30)
  <2>2. T = S \cup {n}
    BY ZenonT(30), <1>1, <1>3
  <2>3. Cardinality(S) < MaxTotal
    BY ZenonT(30), <1>2 DEF Grantable
  <2> HIDE DEF S, T
  <2>4. Cardinality(T) <= Cardinality(S) + 1 /\ Cardinality(T) \in Nat /\ Cardinality(S) \in Nat
    BY ZenonT(30), <1>1, <2>1, <2>2, IdCardinality, IdFinite
  <2>5. Cardinality(T) <= MaxTotal
    BY <2>3, <2>4, DirDelegationsAssumption
  <2> QED
    BY ZenonT(30), <2>5 DEF T
<1> QED
  BY ZenonT(30), <1>4, <1>5, <1>6 DEF GrantsAreLimited

\* What is live after any step but a grant was live before.
LEMMA LiveBefore ==
    ASSUME Base, [Next]_vars
    PROVE  \/ \E t \in Task : Grants(t)
           \/ /\ Keeps /\ next_stateid' = next_stateid
              /\ \A i \in Id : Live(i)' => Live(i)
<1>1. CASE Removes
  BY ZenonT(30), <1>1 DEF Removes, Keeps, Live
<1>2. ASSUME NEW t \in Task, Begins(t)
      PROVE  Keeps /\ next_stateid' = next_stateid /\ \A i \in Id : Live(i)' => Live(i)
  <2> SUFFICES ASSUME NEW i \in Id, Live(i)' PROVE Live(i)
    BY ZenonT(30), <1>2 DEF Begins
  <2>1. Exists(i)
    BY ZenonT(30), <1>2 DEF Begins, Keeps, Live
  <2>2. delegations[i].status = "Granted" \/ delegations'[i] = delegations[i]
    BY ZenonT(30), <1>2, <2>1 DEF Begins
  <2> QED
    BY ZenonT(30), <2>1, <2>2 DEF Live
<1>3. ASSUME NEW t \in Task, WatchesOn(t)
      PROVE  Keeps /\ next_stateid' = next_stateid /\ \A i \in Id : Live(i)' => Live(i)
  <2> SUFFICES ASSUME NEW i \in Id, Live(i)' PROVE Live(i)
    BY ZenonT(30), <1>3 DEF WatchesOn
  <2>1. Exists(i)
    BY ZenonT(30), <1>3 DEF WatchesOn, Keeps, Live
  <2>2. delegations'[i].status = "Revoked" \/ delegations'[i] = delegations[i]
    BY ZenonT(30), <1>3, <2>1 DEF WatchesOn
  <2> QED
    BY ZenonT(30), <2>1, <2>2 DEF Live
<1>4. ASSUME NEW t \in Task, Starts(t)
      PROVE  Keeps /\ next_stateid' = next_stateid /\ \A i \in Id : Live(i)' => Live(i)
  BY ZenonT(30), <1>4 DEF Starts, tables, Keeps, Live, Exists, Base, TypeInv, TypeOK
<1> QED
  BY ZenonT(30), <1>1, <1>2, <1>3, <1>4, StepKinds DEF Base, Drops, Ends, Removes

LEMMA LimitsNext ==
    ASSUME Base, GrantsAreLimited, [Next]_vars
    PROVE  GrantsAreLimited'
BY ZenonT(30), LiveBefore, LiveShrinks, GrantWithinLimits

-----------------------------------------------------------------------------
(* Recalls.                                                                 *)

\* The stateids a recall waits for were handed out before, and are of Head(dirs).
RecallTargets ==
    \A t \in Task : task[t].pc \in Watches =>
      \A i \in task[t].recalls :
        i < next_stateid /\ (Exists(i) => delegations[i].object = Head(task[t].dirs))

\* RecalledBeforeMutation while the operation is still recalling: what is live is
\* waited for.
BegunCovered ==
    \A t \in Task : task[t].pc \in Recalling =>
      \A b \in task[t].begun :
        /\ b[2] <= next_stateid
        /\ \A i \in Id : Live(i) /\ delegations[i].object = b[1] /\ i < b[2] =>
             \/ delegations[i].clientid = task[t].client
             \/ b[1] \in retired
             \/ task[t].pc \in Watches /\ b[1] = Head(task[t].dirs) /\ i \in task[t].recalls

\* A retirement that will sweep d: it is about to recall d, or has begun to.
Sweeps(t, d) ==
    /\ task[t].pc \in Recalling /\ task[t].op = "retire"
    /\ \/ task[t].pc = "recall" /\ Head(task[t].dirs) = d
       \/ \E b \in task[t].begun : b[1] = d

RetirementsSweep ==
    \A i \in Id : Exists(i) /\ delegations[i].object \in retired =>
      \E t \in Task : Sweeps(t, delegations[i].object)

LEMMA TargetsNext ==
    ASSUME Base, RecallTargets, [Next]_vars
    PROVE  RecallTargets'
<1>1. ASSUME Keeps, next_stateid' = next_stateid,
             NEW u \in Task, task'[u].pc \in Watches => /\ task[u].pc \in Watches
                                                        /\ task'[u].recalls \subseteq task[u].recalls
                                                        /\ task'[u].dirs = task[u].dirs,
             task'[u].pc \in Watches, NEW i \in task'[u].recalls
      PROVE  i < next_stateid' /\ (Exists(i)' => delegations'[i].object = Head(task'[u].dirs))
  <2>1. task[u].pc \in Watches /\ i \in task[u].recalls
    BY ZenonT(30), <1>1
  <2>2. i \in Id
    BY ZenonT(30), <2>1, TaskKinds DEF Base, TypeInv, RecallState, Recalling
  <2> QED
    BY ZenonT(30), <1>1, <2>1, <2>2 DEF RecallTargets, Keeps
<1>2. CASE Drops
  <2>1. Keeps /\ next_stateid' = next_stateid /\ task' = task
    BY ZenonT(30), <1>2 DEF Drops, Removes
  <2> QED
    BY ZenonT(30), <1>1, <2>1 DEF RecallTargets
<1>3. ASSUME NEW t \in Task, Begins(t)
      PROVE  RecallTargets'
  <2>1. Keeps /\ next_stateid' = next_stateid /\ task'[t].recalls \subseteq Id
    BY ZenonT(30), <1>3 DEF Begins, Serves, RecallState
  <2>2. ASSUME NEW u \in Task, u # t, task'[u].pc \in Watches, NEW i \in task'[u].recalls
        PROVE  i < next_stateid' /\ (Exists(i)' => delegations'[i].object = Head(task'[u].dirs))
    <3>1. task'[u] = task[u]
      BY ZenonT(30), <1>3, <2>2 DEF Begins, Serves
    <3> QED
      BY ZenonT(30), <1>1, <2>1, <2>2, <3>1
  <2>3. ASSUME task'[t].pc \in Watches, NEW i \in task'[t].recalls
        PROVE  i < next_stateid' /\ (Exists(i)' => delegations'[i].object = Head(task'[t].dirs))
    <3>1. i \in Id
      BY ZenonT(30), <2>1, <2>3
    <3>2. Exists(i) /\ delegations[i].object = Head(task[t].dirs) /\ task'[t].dirs = task[t].dirs
      BY ZenonT(30), <1>3, <2>3, <3>1 DEF Begins, Over, Watches
    <3> QED
      BY ZenonT(30), <2>1, <3>1, <3>2 DEF Base, Fresh, Keeps
  <2> QED
    BY ZenonT(30), <2>2, <2>3 DEF RecallTargets
<1>4. ASSUME NEW t \in Task, WatchesOn(t)
      PROVE  RecallTargets'
  <2>1. Keeps /\ next_stateid' = next_stateid
    BY ZenonT(30), <1>4 DEF WatchesOn
  <2>2. ASSUME NEW u \in Task
        PROVE  task'[u].pc \in Watches => /\ task[u].pc \in Watches
                                          /\ task'[u].recalls \subseteq task[u].recalls
                                          /\ task'[u].dirs = task[u].dirs
    BY ZenonT(30), <1>4 DEF WatchesOn, Serves, Over, Watches
  <2> QED
    BY ZenonT(30), <1>1, <2>1, <2>2 DEF RecallTargets
<1>5. ASSUME NEW t \in Task, Grants(t)
      PROVE  RecallTargets'
  <2>1. /\ next_stateid \in Id /\ next_stateid' = next_stateid + 1
        /\ \A i \in Id : i # next_stateid => delegations'[i] = delegations[i]
    BY ZenonT(30), <1>5, GrantEntry DEF Grants
  <2>2. \A u \in Task : task'[u].pc \in Watches => task'[u] = task[u]
    BY ZenonT(30), <1>5 DEF Grants, Idle, Watches, Base, TypeInv, TypeOK
  <2>3. ASSUME NEW u \in Task, task'[u].pc \in Watches, NEW i \in task'[u].recalls
        PROVE  i < next_stateid' /\ (Exists(i)' => delegations'[i].object = Head(task'[u].dirs))
    <3>1. task'[u] = task[u]
      BY ZenonT(30), <2>2, <2>3
    <3>2. i \in Id
      BY ZenonT(30), <2>3, <3>1, TaskKinds DEF Base, TypeInv, RecallState, Recalling
    <3>3. i < next_stateid /\ (Exists(i) => delegations[i].object = Head(task[u].dirs))
      BY ZenonT(30), <2>3, <3>1 DEF RecallTargets
    <3>4. i # next_stateid /\ i < next_stateid + 1
      BY <2>1, <3>2, <3>3 DEF Id
    <3> QED
      BY ZenonT(30), <2>1, <3>1, <3>2, <3>3, <3>4 DEF Exists
  <2> QED
    BY ZenonT(30), <2>3 DEF RecallTargets
<1>6. ASSUME NEW t \in Task, Starts(t) \/ Ends(t)
      PROVE  RecallTargets'
  <2>1. Keeps /\ next_stateid' = next_stateid
    BY ZenonT(30), <1>6 DEF Starts, Ends, Removes, tables, Keeps, Exists, Base, TypeInv, TypeOK
  <2>2. ASSUME NEW u \in Task
        PROVE  task'[u].pc \in Watches => task'[u] = task[u]
    BY ZenonT(30), <1>6 DEF Starts, Ends, Watches
  <2> QED
    BY ZenonT(30), <1>1, <2>1, <2>2 DEF RecallTargets
<1> QED
  BY ZenonT(30), <1>2, <1>3, <1>4, <1>5, <1>6, StepKinds DEF Base

LEMMA WatchedNext ==
    ASSUME Base, RecallTargets, RecallsAreWatched, [Next]_vars
    PROVE  RecallsAreWatched'
<1> DEFINE W(t, i) == task[t].pc \in Watches /\ i \in task[t].recalls
<1>1. \A i \in Id : Exists(i) /\ delegations[i].status = "RecallInProgress" =>
        (\E t \in Task : W(t, i)) \/ delegations[i].object \in retired
  BY ZenonT(30) DEF RecallsAreWatched, Watches
<1>2. SUFFICES ASSUME NEW i \in Id, Exists(i)', delegations'[i].status = "RecallInProgress"
               PROVE  (\E t \in Task : W(t, i)') \/ delegations'[i].object \in retired'
  BY ZenonT(30) DEF RecallsAreWatched, Watches
<1> DEFINE Goal == (\E t \in Task : W(t, i)') \/ delegations'[i].object \in retired'
\* i was being recalled before the step, and its watchers still watch it.
<1>3. ASSUME Exists(i), delegations'[i] = delegations[i], retired \subseteq retired',
             \A u \in Task : W(u, i) => W(u, i)' \/ delegations[i].object \in retired
      PROVE  Goal
  BY ZenonT(30), <1>1, <1>2, <1>3
<1>4. ASSUME Drops
      PROVE  Goal
  BY ZenonT(30), <1>2, <1>3, <1>4 DEF Drops, Removes, Keeps
<1>5. ASSUME NEW t \in Task, Begins(t)
      PROVE  Goal
  <2>1. Exists(i)
    BY ZenonT(30), <1>2, <1>5 DEF Begins, Keeps
  <2>2. CASE delegations'[i] = delegations[i]
    <3>1. \A u \in Task : W(u, i) => W(u, i)'
      BY ZenonT(30), <1>5 DEF Begins, Serves, Watches
    <3> QED
      BY ZenonT(30), <1>3, <1>5, <2>1, <2>2, <3>1 DEF Begins
  <2>3. CASE delegations'[i] # delegations[i]
    <3>1. delegations[i].object = Head(task[t].dirs)
      BY ZenonT(30), <1>5, <2>1, <2>3 DEF Begins
    <3>2. task'[t].pc = "filehandle" /\ i \in task'[t].recalls
      BY ZenonT(30), <1>2, <1>5, <2>1, <3>1 DEF Begins
    <3> QED
      BY ZenonT(30), <3>2 DEF Watches
  <2> QED
    BY ZenonT(30), <2>2, <2>3
<1>6. ASSUME NEW t \in Task, WatchesOn(t)
      PROVE  Goal
  <2>1. Exists(i)
    BY ZenonT(30), <1>2, <1>6 DEF WatchesOn, Keeps
  <2>2. delegations'[i] = delegations[i] /\ Live(i)'
    BY ZenonT(30), <1>2, <1>6, <2>1 DEF WatchesOn, Live
  <2>3. ASSUME NEW u \in Task, W(u, i)
        PROVE  W(u, i)' \/ delegations[i].object \in retired
    <3>1. CASE u # t
      BY ZenonT(30), <1>6, <2>3, <3>1 DEF WatchesOn, Serves
    <3>2. CASE u = t
      <4>1. delegations[i].object = Head(task[t].dirs)
        BY ZenonT(30), <2>1, <2>3, <3>2 DEF RecallTargets
      <4> QED
        BY ZenonT(30), <1>6, <2>2, <2>3, <3>2, <4>1 DEF WatchesOn, Over
    <3> QED
      BY ZenonT(30), <3>1, <3>2
  <2> QED
    BY ZenonT(30), <1>3, <1>6, <2>1, <2>2, <2>3 DEF WatchesOn
<1>7. ASSUME NEW t \in Task, Grants(t)
      PROVE  Goal
  <2>1. delegations'[i] = delegations[i]
    BY ZenonT(30), <1>2, <1>7, GrantEntry
  <2>2. \A u \in Task : W(u, i) => W(u, i)'
    BY ZenonT(30), <1>7 DEF Grants, GrantState, Watches, Base, TypeInv, TypeOK
  <2>3. retired' = retired
    BY ZenonT(30), <1>7 DEF Grants
  <2> QED
    BY ZenonT(30), <1>2, <1>3, <2>1, <2>2, <2>3 DEF Exists
<1>8. ASSUME NEW t \in Task, Starts(t) \/ Ends(t)
      PROVE  Goal
  <2>1. Exists(i) /\ delegations'[i] = delegations[i] /\ retired \subseteq retired'
    BY ZenonT(30), <1>2, <1>8 DEF Starts, Ends, Removes, Keeps, tables, Exists
  <2>2. \A u \in Task : W(u, i) => W(u, i)'
    BY ZenonT(30), <1>8 DEF Starts, Ends, Watches
  <2> QED
    BY ZenonT(30), <1>3, <2>1, <2>2
<1> HIDE DEF Goal
<1>9. Goal
  BY ZenonT(30), <1>4, <1>5, <1>6, <1>7, <1>8, StepKinds DEF Base
<1> QED
  BY ZenonT(30), <1>9 DEF Goal

LEMMA BegunNext ==
    ASSUME Base, BegunCovered, [Next]_vars
    PROVE  BegunCovered'
<1> DEFINE C(u, b, i) ==
             \/ delegations[i].clientid = task[u].client
             \/ b[1] \in retired
             \/ task[u].pc \in Watches /\ b[1] = Head(task[u].dirs) /\ i \in task[u].recalls
<1>1. SUFFICES ASSUME NEW u \in Task, task'[u].pc \in Recalling, NEW b \in task'[u].begun
               PROVE  /\ b[2] <= next_stateid'
                      /\ \A i \in Id : Live(i)' /\ delegations'[i].object = b[1] /\ i < b[2] =>
                           C(u, b, i)'
  BY ZenonT(30) DEF BegunCovered
<1> DEFINE Goal == /\ b[2] <= next_stateid'
                   /\ \A i \in Id : Live(i)' /\ delegations'[i].object = b[1] /\ i < b[2] =>
                        C(u, b, i)'
\* An operation that does not move.
<1>2. ASSUME task'[u] = task[u], Keeps, next_stateid' = next_stateid,
             \A i \in Id : Live(i)' => Live(i), retired \subseteq retired'
      PROVE  Goal
  <2>1. task[u].pc \in Recalling /\ b \in task[u].begun
    BY ZenonT(30), <1>1, <1>2
  <2>2. b[2] <= next_stateid
    BY ZenonT(30), <2>1 DEF BegunCovered
  <2>3. ASSUME NEW i \in Id, Live(i)', delegations'[i].object = b[1], i < b[2]
        PROVE  C(u, b, i)'
    <3>1. /\ Live(i) /\ delegations[i].object = delegations'[i].object
          /\ delegations[i].clientid = delegations'[i].clientid
      BY ZenonT(30), <1>2, <2>3 DEF Keeps, Live
    <3>2. C(u, b, i)
      BY ZenonT(30), <2>1, <2>3, <3>1 DEF BegunCovered
    <3> QED
      BY ZenonT(30), <1>2, <3>1, <3>2
  <2> QED
    BY ZenonT(30), <1>2, <2>2, <2>3
<1>3. ASSUME Drops
      PROVE  Goal
  BY ZenonT(30), <1>2, <1>3 DEF Drops, Removes, Keeps, Live
<1>4. ASSUME NEW t \in Task, Begins(t) \/ WatchesOn(t), u # t
      PROVE  Goal
  <2>1. task'[u] = task[u] /\ Keeps /\ next_stateid' = next_stateid /\ retired' = retired
    BY ZenonT(30), <1>4 DEF Begins, WatchesOn, Serves
  <2>2. \A i \in Id : Live(i)' => Live(i)
    <3>1. ASSUME NEW v \in Task, Grants(v)
          PROVE  FALSE
      BY <2>1, <3>1 DEF Grants, Base, TypeInv, TypeOK
    <3> QED
      BY ZenonT(30), <3>1, LiveBefore
  <2> QED
    BY ZenonT(30), <1>2, <2>1, <2>2
<1>5. ASSUME Begins(u)
      PROVE  Goal
  <2> DEFINE d == Head(task[u].dirs)
  <2>1. /\ Keeps /\ next_stateid' = next_stateid /\ retired' = retired
        /\ task'[u].client = task[u].client /\ task[u].pc = "recall"
        /\ b \in task[u].begun \/ b = <<d, next_stateid>>
    BY ZenonT(30), <1>1, <1>5 DEF Begins, Serves
  <2>2. next_stateid \in Nat
    BY DEF Base, TypeInv, TypeOK
  <2>3. b[2] <= next_stateid'
    BY <2>1, <2>2 DEF BegunCovered, Recalling
  <2>4. ASSUME NEW i \in Id, Live(i)', delegations'[i].object = b[1], i < b[2]
        PROVE  C(u, b, i)'
    <3>1. /\ Exists(i) /\ delegations[i].object = delegations'[i].object
          /\ delegations[i].clientid = delegations'[i].clientid
      BY ZenonT(30), <2>1, <2>4 DEF Keeps, Live
    <3>2. CASE b \in task[u].begun
      <4>1. Live(i)
        BY ZenonT(30), <1>5, <2>4, <3>1 DEF Begins, Live
      <4>2. delegations[i].clientid = task[u].client \/ b[1] \in retired
        BY ZenonT(30), <2>1, <2>4, <3>1, <3>2, <4>1 DEF BegunCovered, Recalling, Watches
      <4> QED
        BY ZenonT(30), <2>1, <3>1, <4>2
    <3>3. CASE b = <<d, next_stateid>> /\ delegations[i].clientid # task[u].client
      <4>1. delegations[i].object = d
        BY ZenonT(30), <2>4, <3>1, <3>3
      <4>2. delegations'[i].status = "RecallInProgress"
        BY ZenonT(30), <1>5, <2>4, <3>1, <3>3, <4>1 DEF Begins, Live
      <4>3. task'[u].pc = "filehandle" /\ task'[u].dirs = task[u].dirs /\ i \in task'[u].recalls
        BY ZenonT(30), <1>5, <3>1, <4>1, <4>2 DEF Begins
      <4> QED
        BY ZenonT(30), <3>3, <4>3 DEF Watches
    <3> QED
      BY ZenonT(30), <2>1, <3>1, <3>2, <3>3
  <2> QED
    BY ZenonT(30), <2>3, <2>4
<1>6. ASSUME WatchesOn(u)
      PROVE  Goal
  <2>1. /\ Keeps /\ next_stateid' = next_stateid /\ retired' = retired
        /\ task'[u].client = task[u].client /\ task[u].pc \in Watches
        /\ b \in task[u].begun
    BY ZenonT(30), <1>1, <1>6 DEF WatchesOn, Serves
  <2>2. b[2] <= next_stateid'
    BY ZenonT(30), <2>1 DEF BegunCovered, Recalling
  <2>3. ASSUME NEW i \in Id, Live(i)', delegations'[i].object = b[1], i < b[2]
        PROVE  C(u, b, i)'
    <3>1. /\ Exists(i) /\ delegations'[i] = delegations[i]
      BY ZenonT(30), <1>6, <2>1, <2>3 DEF Keeps, Live, WatchesOn
    <3>2. C(u, b, i)
      BY ZenonT(30), <2>1, <2>3, <3>1 DEF BegunCovered, Recalling, Live, Exists
    <3>3. CASE b[1] = Head(task[u].dirs) /\ i \in task[u].recalls
      BY ZenonT(30), <1>6, <2>1, <2>3, <3>3 DEF WatchesOn, Over
    <3> QED
      BY ZenonT(30), <2>1, <3>1, <3>2, <3>3
  <2> QED
    BY ZenonT(30), <2>2, <2>3
<1>7. ASSUME NEW t \in Task, Grants(t)
      PROVE  Goal
  <2>1. /\ next_stateid \in Id /\ next_stateid' = next_stateid + 1 /\ retired' = retired
        /\ \A i \in Id : i # next_stateid => delegations'[i] = delegations[i]
    BY ZenonT(30), <1>7, GrantEntry DEF Grants
  <2>2. task'[u] = task[u]
    BY ZenonT(30), <1>1, <1>7 DEF Grants, Idle, Recalling, Watches, Base, TypeInv, TypeOK
  <2>3. b[2] \in Nat
    BY <1>1, <2>2, TaskKinds DEF RecallState, Base, TypeInv
  <2>4. b[2] <= next_stateid
    BY ZenonT(30), <1>1, <2>2 DEF BegunCovered
  <2>5. \A i \in Id : i < b[2] => i # next_stateid
    BY <2>1, <2>3, <2>4 DEF Id
  <2>6. ASSUME NEW i \in Id, Live(i)', delegations'[i].object = b[1], i < b[2]
        PROVE  C(u, b, i)'
    <3>1. delegations'[i] = delegations[i]
      BY ZenonT(30), <2>1, <2>5, <2>6
    <3>2. C(u, b, i)
      BY ZenonT(30), <1>1, <2>2, <2>6, <3>1 DEF BegunCovered, Live, Exists
    <3> QED
      BY ZenonT(30), <2>1, <2>2, <3>1, <3>2
  <2>7. b[2] <= next_stateid'
    BY <2>1, <2>3, <2>4 DEF Id
  <2> QED
    BY ZenonT(30), <2>6, <2>7
<1>8. ASSUME NEW t \in Task, Starts(t)
      PROVE  Goal
  <2>1. CASE u = t
    BY ZenonT(30), <1>1, <1>8, <2>1 DEF Starts
  <2>2. CASE u # t
    <3>1. task'[u] = task[u] /\ retired \subseteq retired'
      BY ZenonT(30), <1>8, <2>2 DEF Starts
    <3>2. Keeps /\ next_stateid' = next_stateid /\ \A i \in Id : Live(i)' => Live(i)
      BY ZenonT(30), <1>8 DEF Starts, tables, Keeps, Live, Exists, Base, TypeInv, TypeOK
    <3> QED
      BY ZenonT(30), <1>2, <3>1, <3>2
  <2> QED
    BY ZenonT(30), <2>1, <2>2
<1>9. ASSUME NEW t \in Task, Ends(t)
      PROVE  Goal
  <2>1. u # t
    BY ZenonT(30), <1>1, <1>9 DEF Ends, Recalling, Watches
  <2> QED
    BY ZenonT(30), <1>2, <1>9, <2>1 DEF Ends, Removes, Keeps, Live
<1> HIDE DEF Goal
<1>10. Goal
  BY ZenonT(30), <1>3, <1>4, <1>5, <1>6, <1>7, <1>8, <1>9, StepKinds DEF Base
<1> QED
  BY ZenonT(30), <1>10 DEF Goal

LEMMA SweepsNext ==
    ASSUME Base, RetirementsSweep, [Next]_vars
    PROVE  RetirementsSweep'
<1>1. SUFFICES ASSUME NEW i \in Id, NEW o, Exists(i)', delegations'[i].object = o, o \in retired'
               PROVE  \E u \in Task : Sweeps(u, o)'
  BY ZenonT(30) DEF RetirementsSweep, Sweeps
<1> DEFINE Goal == \E u \in Task : Sweeps(u, o)'
\* The retirement that was to sweep o still is.
<1>2. ASSUME Exists(i), delegations[i].object = o, o \in retired,
             \A u \in Task : Sweeps(u, o) => Sweeps(u, o)'
      PROVE  Goal
  BY ZenonT(30), <1>2 DEF RetirementsSweep
<1>3. ASSUME Drops
      PROVE  Goal
  <2>1. Exists(i) /\ delegations[i].object = o /\ o \in retired /\ task' = task
    BY ZenonT(30), <1>1, <1>3 DEF Drops, Removes, Keeps
  <2>2. \A u \in Task : Sweeps(u, o) => Sweeps(u, o)'
    BY ZenonT(30), <2>1 DEF Sweeps
  <2> QED
    BY ZenonT(30), <1>2, <2>1, <2>2
<1>4. ASSUME NEW t \in Task, Begins(t) \/ WatchesOn(t)
      PROVE  Goal
  <2>1. Exists(i) /\ delegations[i].object = o /\ o \in retired
    BY ZenonT(30), <1>1, <1>4 DEF Begins, WatchesOn, Keeps
  <2>2. Serves(t) /\ task'[t].pc \in Recalling
    BY ZenonT(30), <1>4 DEF Begins, WatchesOn, Over, Recalling, Watches
  <2>3. task[t].begun \subseteq task'[t].begun
    BY ZenonT(30), <1>4 DEF Begins, WatchesOn
  <2>4. task[t].pc = "recall" => \E b \in task'[t].begun : b[1] = Head(task[t].dirs)
    <3> SUFFICES ASSUME task[t].pc = "recall"
                 PROVE  \E b \in task'[t].begun : b[1] = Head(task[t].dirs)
      BY ZenonT(30)
    <3>1. <<Head(task[t].dirs), next_stateid>> \in task'[t].begun
      BY ZenonT(30), <1>4 DEF Begins, WatchesOn, Watches
    <3> QED
      BY ZenonT(30), <3>1
  <2>5. \A u \in Task : Sweeps(u, o) => Sweeps(u, o)'
    <3> TAKE u \in Task
    <3>1. CASE u = t
      BY ZenonT(30), <2>2, <2>3, <2>4, <3>1 DEF Sweeps, Serves
    <3>2. CASE u # t
      BY ZenonT(30), <2>2, <3>2 DEF Sweeps, Serves
    <3> QED
      BY ZenonT(30), <3>1, <3>2
  <2> QED
    BY ZenonT(30), <1>2, <2>1, <2>5
<1>5. ASSUME NEW t \in Task, Grants(t)
      PROVE  Goal
  <2>1. delegations'[next_stateid].object \notin retired /\ retired' = retired
    BY ZenonT(30), <1>5, GrantEntry DEF Grants, Grantable
  <2>2. i # next_stateid /\ delegations'[i] = delegations[i]
    BY ZenonT(30), <1>1, <1>5, <2>1, GrantEntry
  <2>3. Exists(i) /\ delegations[i].object = o /\ o \in retired
    BY ZenonT(30), <1>1, <2>1, <2>2 DEF Exists
  <2>4. \A u \in Task : u # t => task'[u] = task[u]
    BY ZenonT(30), <1>5 DEF Grants, Base, TypeInv, TypeOK
  <2>5. \A u \in Task : Sweeps(u, o) => Sweeps(u, o)'
    BY ZenonT(30), <1>5, <2>4 DEF Sweeps, Grants, GrantState, Recalling, Watches
  <2> QED
    BY ZenonT(30), <1>2, <2>3, <2>5
<1>6. ASSUME NEW t \in Task, Starts(t)
      PROVE  Goal
  <2>1. Exists(i) /\ delegations[i].object = o
    BY ZenonT(30), <1>1, <1>6 DEF Starts, tables, Exists
  <2>2. CASE o \in retired
    <3>1. \A u \in Task : Sweeps(u, o) => Sweeps(u, o)'
      BY ZenonT(30), <1>6 DEF Starts, Sweeps, Recalling, Watches
    <3> QED
      BY ZenonT(30), <1>2, <2>1, <2>2, <3>1
  <2>3. CASE o \notin retired
    <3>1. task'[t].pc = "recall" /\ task'[t].op = "retire" /\ Head(task'[t].dirs) = o
      BY ZenonT(30), <1>1, <1>6, <2>3 DEF Starts
    <3> QED
      BY ZenonT(30), <3>1 DEF Sweeps, Recalling
  <2> QED
    BY ZenonT(30), <2>2, <2>3
<1>7. ASSUME NEW t \in Task, Ends(t)
      PROVE  Goal
  <2>1. Exists(i) /\ delegations[i].object = o /\ o \in retired
    BY ZenonT(30), <1>1, <1>7 DEF Ends, Removes, Keeps
  <2>2. ~Sweeps(t, o)
    BY ZenonT(30), <1>1, <1>7, <2>1 DEF Ends, Sweeps, Recalling, Watches
  <2>3. \A u \in Task : Sweeps(u, o) => Sweeps(u, o)'
    BY ZenonT(30), <1>7, <2>2 DEF Ends, Sweeps
  <2> QED
    BY ZenonT(30), <1>2, <2>1, <2>3
<1> HIDE DEF Goal
<1>8. Goal
  BY ZenonT(30), <1>3, <1>4, <1>5, <1>6, <1>7, StepKinds DEF Base
<1> QED
  BY ZenonT(30), <1>8 DEF Goal

-----------------------------------------------------------------------------
(* The inductive invariant and the theorems.                                *)

Inv ==
    /\ Base
    /\ GrantsAreLimited
    /\ RecallTargets
    /\ RecallsAreWatched
    /\ BegunCovered
    /\ RetirementsSweep

LEMMA InvInit == Init => Inv
<1> SUFFICES ASSUME Init PROVE Inv
  BY ZenonT(30)
<1>1. \A t \in Task : task[t].pc = "idle"
  BY ZenonT(30) DEF Init, Idle
<1>2. \A i \in Id : ~Exists(i) /\ ~Live(i)
  BY ZenonT(30) DEF Init, Exists, Live
<1>3. GrantsAreLimited
  <2>1. {i \in Id : Live(i)} = {} /\ \A c \in Client : {i \in Id : Live(i) /\ delegations[i].clientid = c} = {}
    BY ZenonT(30), <1>2
  <2>2. Cardinality({}) = 0
    BY ZenonT(30), FS_EmptySet
  <2>3. Cardinality({}) <= MaxTotal /\ Cardinality({}) <= MaxPerClient
    BY <2>2, DirDelegationsAssumption
  <2> QED
    BY ZenonT(30), <1>2, <2>1, <2>3 DEF GrantsAreLimited
<1> QED
  BY ZenonT(30), <1>1, <1>2, <1>3, BaseInit DEF Inv, RecallTargets, RecallsAreWatched, BegunCovered,
     RetirementsSweep, Recalling, Watches

LEMMA InvNext == Inv /\ [Next]_vars => Inv'
BY ZenonT(30), BaseNext, LimitsNext, TargetsNext, WatchedNext, BegunNext, SweepsNext DEF Inv

\* The inductive invariant: what grants, recalls, returns, revocations and retirements
\* (session/delegations.rs) keep between any two of their guards.
THEOREM InvAlways == Spec => []Inv
BY InvInit, InvNext, PTL DEF Spec

\* The table and its two indexes agree, whatever grants, returns, revocations,
\* expiries and retirements overlap (remove_delegation_locked, invalidate_objects).
THEOREM IndexesStayInStep == Spec => [](TypeOK /\ IndexesAgree)
<1>1. Inv => TypeOK /\ IndexesAgree
  BY ZenonT(30) DEF Inv, Base, TypeInv
<1> QED
  BY <1>1, InvAlways, PTL

\* The limits of grant_directory_delegation are never exceeded.
THEOREM LimitsAreKept == Spec => []GrantsAreLimited
<1>1. Inv => GrantsAreLimited
  BY ZenonT(30) DEF Inv
<1> QED
  BY <1>1, InvAlways, PTL

\* No recall is forgotten by the operations that wait for it.
THEOREM RecallsStayWatched == Spec => []RecallsAreWatched
<1>1. Inv => RecallsAreWatched
  BY ZenonT(30) DEF Inv
<1> QED
  BY <1>1, InvAlways, PTL

\* Operations reach the backend only when what they recalled is returned or revoked.
THEOREM MutationsAwaitRecalls == Spec => []RecalledBeforeMutation
<1>1. Inv => RecalledBeforeMutation
  <2> SUFFICES ASSUME Inv, NEW t \in Task, task[t].pc = "finish", NEW b \in task[t].begun,
                      NEW i \in Id, Live(i), delegations[i].object = b[1], i < b[2]
               PROVE  delegations[i].clientid = task[t].client \/ b[1] \in retired
    BY ZenonT(30) DEF RecalledBeforeMutation
  <2> QED
    BY ZenonT(30) DEF Inv, BegunCovered, Recalling, Watches
<1> QED
  BY <1>1, InvAlways, PTL

\* A finished retirement leaves no delegation of the directory behind.
THEOREM RetirementsLeaveNothing == Spec => []RetiredHoldNothing
<1>1. Inv => RetiredHoldNothing
  BY ZenonT(30) DEF Inv, RetirementsSweep, RetiredHoldNothing, Sweeps, Recalling, Watches
<1> QED
  BY <1>1, InvAlways, PTL

\* grant_directory_delegation refuses while the directory is being recalled.
THEOREM GrantsAwaitRecalls == Spec => NoGrantDuringRecall
<1> DEFINE Step == \A i \in Id : ~Exists(i) /\ Exists(i)' =>
                     \A j \in Id : Exists(j) /\ delegations[j].object = delegations[i]'.object =>
                       delegations[j].status # "RecallInProgress"
<1>1. Inv /\ [Next]_vars => [Step]_vars
  <2> SUFFICES ASSUME Inv, [Next]_vars, NEW i \in Id, ~Exists(i), Exists(i)',
                      NEW j \in Id, Exists(j), delegations[j].object = delegations'[i].object
               PROVE  delegations[j].status # "RecallInProgress"
    BY ZenonT(30)
  <2>1. PICK t \in Task : Grants(t)
    BY ZenonT(30), LiveBefore DEF Inv, Keeps
  <2>2. i = next_stateid /\ delegations'[i].object = task[t].dir /\ task[t].dir \in Dir
    BY ZenonT(30), <2>1, GrantEntry DEF Inv, Exists
  <2>3. j \in dir_delegations[task[t].dir]
    BY ZenonT(30), <2>2 DEF Inv, Base, IndexesAgree
  <2> QED
    BY ZenonT(30), <2>1, <2>3 DEF Grants, Grantable, RecallPending
<1>2. NoGrantDuringRecall <=> [][Step]_vars
  BY ZenonT(30) DEF NoGrantDuringRecall
<1> QED
  BY <1>1, <1>2, InvAlways, PTL DEF Spec
=============================================================================
