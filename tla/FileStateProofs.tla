-------------------------- MODULE FileStateProofs --------------------------
(***************************************************************************)
(* Proofs about FileState, and about FileIo, which adds the I/O and the    *)
(* notifications of the backend to it: for any number of clients, owners,  *)
(* files, requests of either kind and stateids.                            *)
(***************************************************************************)
EXTENDS FileIo, TLAPS

LEMMA IdleTask == Idle.pc = "idle"
BY ZenonT(30) DEF Idle

\* What a request being served carries, by operation.
LEMMA TaskFields ==
    ASSUME TypeOK, NEW t \in Task
    PROVE  /\ At(t, "open", {"OPEN"}) =>
                /\ task[t].client \in Client /\ task[t].owner \in Owner
                /\ task[t].object \in Object
                /\ task[t].access \in SUBSET Mode /\ task[t].deny \in SUBSET Mode
           /\ At(t, "apply", {"CLOSE"}) => task[t].id \in Id /\ task[t].seq \in 0..MaxSeq
           /\ At(t, "apply", {"OPEN_DOWNGRADE"}) =>
                /\ task[t].id \in Id /\ task[t].seq \in 0..MaxSeq
                /\ task[t].access \in SUBSET Mode /\ task[t].deny \in SUBSET Mode
           /\ At(t, "apply", {"LOCK_NEW"}) =>
                /\ task[t].client \in Client /\ task[t].owner \in Owner
                /\ task[t].object \in Object /\ task[t].id \in Id
                /\ task[t].mode \in Mode /\ task[t].range \in SUBSET Byte
           /\ At(t, "apply", {"LOCK"}) =>
                /\ task[t].id \in Id /\ task[t].seq \in 0..MaxSeq
                /\ task[t].mode \in Mode /\ task[t].range \in SUBSET Byte
           /\ At(t, "apply", {"LOCKU"}) =>
                /\ task[t].id \in Id /\ task[t].seq \in 0..MaxSeq
                /\ task[t].range \in SUBSET Byte
<1>1. task[t] \in TaskState
  BY ZenonT(30) DEF TypeOK
<1> QED BY <1>1 DEF TaskState, At, Idle

\* The three outcomes of OPEN's guard: the owner's open upgraded, an open added,
\* or a conflict.
Upgrade(t, i) ==
    LET access == open_files[i].access \cup task[t].access
        deny == open_files[i].deny \cup task[t].deny
    IN  /\ At(t, "open", {"OPEN"})
        /\ open_files[i].seq < MaxSeq
        /\ ~ShareDenied({i}, access, deny, task[t].object)
        /\ open_files' = [open_files EXCEPT
              ![i].access = access, ![i].deny = deny, ![i].seq = @ + 1]
        /\ UNCHANGED next_stateid

NewOpen(t) ==
    LET r == task[t]
    IN  /\ At(t, "open", {"OPEN"})
        /\ OwnOpens(r) = {} /\ next_stateid \in Id
        /\ ~ShareDenied({}, r.access, r.deny, r.object)
        /\ open_files' = [open_files EXCEPT ![next_stateid] =
              [object |-> r.object, clientid |-> r.client, owner |-> r.owner,
               seq |-> 1, active |-> TRUE, access |-> r.access, deny |-> r.deny]]
        /\ next_stateid' = next_stateid + 1

LEMMA OpenOutcomes ==
    ASSUME NEW t \in Task, CreateOpenState(t)
    PROVE  \/ UNCHANGED <<open_files, next_stateid>>
           \/ \E i \in OwnOpens(task[t]) : Upgrade(t, i)
           \/ NewOpen(t)
  BY ZenonT(30) DEF CreateOpenState, Upgrade, NewOpen

\* An upgrade adds to one open of the requesting owner and leaves the others.
LEMMA UpgradeEffect ==
    ASSUME TypeOK, NEW t \in Task, NEW i \in OwnOpens(task[t]), Upgrade(t, i)
    PROVE  /\ i \in Id /\ OpenActive(i)
           /\ open_files[i] \in OpenFileState /\ open_files'[i] \in OpenFileState
           /\ open_files[i].object = task[t].object
           /\ open_files'[i].object = open_files[i].object
           /\ open_files'[i].clientid = open_files[i].clientid
           /\ open_files'[i].owner = open_files[i].owner
           /\ open_files'[i].seq >= open_files[i].seq
           /\ open_files'[i].active
           /\ open_files'[i].access = open_files[i].access \cup task[t].access
           /\ open_files'[i].deny = open_files[i].deny \cup task[t].deny
           /\ \A j \in Id \ {i} : open_files'[j] = open_files[j]
<1>1. i \in Id /\ OpenActive(i) /\ open_files[i].object = task[t].object
  BY ZenonT(30) DEF OwnOpens
<1>2. open_files[i] \in OpenFileState
  BY ZenonT(30), <1>1 DEF TypeOK, OpenActive
<1>3. \A j \in Id \ {i} : open_files'[j] = open_files[j]
  BY ZenonT(30), <1>1 DEF Upgrade, TypeOK
<1>4. open_files'[i] = [open_files[i] EXCEPT
                 !.access = open_files[i].access \cup task[t].access,
                 !.deny = open_files[i].deny \cup task[t].deny, !.seq = open_files[i].seq + 1]
  BY ZenonT(30), <1>1 DEF Upgrade, TypeOK
<1>5. open_files[i].seq + 1 \in 1..MaxSeq
  BY <1>2, FileStateAssumption DEF Upgrade, OpenFileState
<1>6. task[t].access \in SUBSET Mode /\ task[t].deny \in SUBSET Mode
  BY ZenonT(30), TaskFields DEF Upgrade
<1>7. open_files'[i] \in OpenFileState
  BY ZenonT(30), <1>2, <1>4, <1>5, <1>6 DEF OpenFileState
<1> QED BY <1>1, <1>2, <1>3, <1>4, <1>5, <1>7 DEF OpenActive, OpenFileState

\* Every field a guard reads or writes has the type the tables declare, whatever
\* interleaving of requests and revocations led there.
LEMMA TypeOKStep ==
    ASSUME TypeOK, [Next]_vars
    PROVE  TypeOK'
<1> USE FileStateAssumption
<1>1. ASSUME NEW t \in Task, StartOpen(t)
      PROVE  TypeOK'
  <2>1. PICK c \in clients, w \in Owner, o \in Object, share \in Shares :
           Begin(t, [pc |-> "open", op |-> "OPEN", client |-> c, owner |-> w, object |-> o,
                     access |-> share[1], deny |-> share[2]])
    BY ZenonT(30), <1>1 DEF StartOpen
  <2>2. share[1] \in SUBSET Mode /\ share[2] \in SUBSET Mode
    BY ZenonT(30)
  <2> QED BY ZenonT(30), <1>1, <2>1, <2>2 DEF StartOpen, Begin, TypeOK, TaskState, tables
<1>2. ASSUME NEW t \in Task, CreateOpenState(t)
      PROVE  TypeOK'
  <2>1. task' \in [Task -> TaskState] /\ At(t, "open", {"OPEN"})
    BY ZenonT(30), <1>2 DEF CreateOpenState, End, TypeOK, TaskState
  <2>2. CASE UNCHANGED <<open_files, next_stateid>>
    BY ZenonT(30), <1>2, <2>1, <2>2 DEF CreateOpenState, TypeOK
  <2>3. CASE \E i \in OwnOpens(task[t]) : Upgrade(t, i)
    <3>1. PICK i \in OwnOpens(task[t]) : Upgrade(t, i)
      BY ZenonT(30), <2>3
    <3>2. i \in Id /\ open_files'[i] \in OpenFileState
      BY ZenonT(30), <2>1, <3>1, UpgradeEffect
    <3> QED BY ZenonT(30), <1>2, <2>1, <3>1, <3>2 DEF Upgrade, CreateOpenState, TypeOK
  <2>4. CASE NewOpen(t)
    <3>1. open_files'[next_stateid] \in OpenFileState
      BY <2>1, <2>4, TaskFields DEF NewOpen, TypeOK, OpenFileState
    <3> QED BY <1>2, <2>1, <2>4, <3>1 DEF NewOpen, CreateOpenState, TypeOK, Id
  <2> QED BY ZenonT(30), <1>2, <2>2, <2>3, <2>4, OpenOutcomes
<1>3. ASSUME NEW i \in Id, NEW q \in 0..MaxSeq, ConfirmOpenState(i, q)
      PROVE  TypeOK'
  BY <1>3 DEF ConfirmOpenState, TypeOK, OpenActive, OpenFileState
<1>4. ASSUME NEW t \in Task, StartClose(t) \/ StartDowngrade(t) \/ StartUnlock(t)
      PROVE  TypeOK'
  BY <1>4 DEF StartClose, StartDowngrade, StartUnlock, Begin, TypeOK, TaskState, tables
<1>5. ASSUME NEW t \in Task, CloseState(t)
      PROVE  TypeOK'
  <2>1. task' \in [Task -> TaskState] /\ At(t, "apply", {"CLOSE"})
    BY ZenonT(30), <1>5 DEF CloseState, End, TypeOK, TaskState
  <2>2. open_files' \in [Id -> OpenFileState \cup {NoState}]
    BY <1>5, <2>1, TaskFields DEF CloseState, TypeOK, OpenActive, OpenFileState
  <2> QED BY ZenonT(30), <1>5, <2>1, <2>2 DEF CloseState, TypeOK
<1>6. ASSUME NEW t \in Task, OpenDowngrade(t)
      PROVE  TypeOK'
  <2>1. task' \in [Task -> TaskState] /\ At(t, "apply", {"OPEN_DOWNGRADE"})
    BY ZenonT(30), <1>6 DEF OpenDowngrade, End, TypeOK, TaskState
  <2>2. CASE UNCHANGED open_files
    BY ZenonT(30), <1>6, <2>1, <2>2 DEF OpenDowngrade, TypeOK
  <2>3. CASE open_files' # open_files
    <3>1. open_files[task[t].id] \in OpenFileState /\ task[t].id \in Id
      BY ZenonT(30), <1>6, <2>1, <2>3, TaskFields DEF OpenDowngrade, TypeOK, OpenActive
    <3>2. /\ open_files'[task[t].id] = [open_files[task[t].id] EXCEPT
                !.access = task[t].access, !.deny = task[t].deny,
                !.seq = open_files[task[t].id].seq + 1]
          /\ open_files[task[t].id].seq < MaxSeq
      BY ZenonT(30), <1>6, <2>3, <3>1 DEF OpenDowngrade, TypeOK
    <3>3. open_files[task[t].id].seq + 1 \in 1..MaxSeq
      BY <3>1, <3>2 DEF OpenFileState
    <3>4. task[t].access \in SUBSET Mode /\ task[t].deny \in SUBSET Mode
      BY ZenonT(30), <2>1, TaskFields
    <3>5. open_files'[task[t].id] \in OpenFileState
      BY ZenonT(30), <3>1, <3>2, <3>3, <3>4 DEF OpenFileState
    <3> QED BY ZenonT(30), <1>6, <2>1, <3>1, <3>5 DEF OpenDowngrade, TypeOK
  <2> QED BY ZenonT(30), <2>2, <2>3
<1>7. ASSUME NEW t \in Task, StartLockNew(t) \/ StartLock(t)
      PROVE  TypeOK'
  <2>1. task' \in [Task -> TaskState]
    BY <1>7, SMTT(30) DEF StartLockNew, StartLock, Begin, TypeOK, TaskState, ResolvesToOpen, OpenActive,
                ResolvesToLock, OpenFileState, LockFileState
  <2> QED BY ZenonT(30), <1>7, <2>1 DEF StartLockNew, StartLock, TypeOK, tables
<1>8. ASSUME NEW t \in Task, FindLockConflict(t)
      PROVE  TypeOK'
  <2>1. task' \in [Task -> TaskState]
    BY <1>8 DEF FindLockConflict, At, TypeOK, TaskState, Idle
  <2> QED BY ZenonT(30), <1>8, <2>1 DEF FindLockConflict, TypeOK, tables
<1>9. ASSUME NEW t \in Task, CreateLockState(t)
      PROVE  TypeOK'
  <2>1. task' \in [Task -> TaskState] /\ At(t, "apply", {"LOCK_NEW"})
    BY ZenonT(30), <1>9 DEF CreateLockState, End, TypeOK, TaskState
  <2>2. CASE UNCHANGED <<lock_files, next_stateid>>
    BY ZenonT(30), <1>9, <2>1, <2>2 DEF CreateLockState, TypeOK
  <2>3. CASE ~UNCHANGED <<lock_files, next_stateid>>
    <3>1. next_stateid \in Id /\ lock_files'[next_stateid] \in LockFileState
      BY SMTT(30), <1>9, <2>1, <2>3, TaskFields DEF CreateLockState, TypeOK, LockFileState
    <3> QED BY SMTT(30), <1>9, <2>1, <2>3, <3>1 DEF CreateLockState, TypeOK, Id
  <2> QED BY ZenonT(30), <2>2, <2>3
<1>10. ASSUME NEW t \in Task, UpdateLockState(t)
       PROVE  TypeOK'
  <2>1. task' \in [Task -> TaskState] /\ At(t, "apply", {"LOCK"})
    BY ZenonT(30), <1>10 DEF UpdateLockState, End, TypeOK, TaskState
  <2>2. lock_files' \in [Id -> LockFileState \cup {NoState}]
    BY <1>10, <2>1, TaskFields DEF UpdateLockState, TypeOK, LockFileState
  <2> QED BY ZenonT(30), <1>10, <2>1, <2>2 DEF UpdateLockState, TypeOK
<1>11. ASSUME NEW t \in Task, UnlockState(t)
       PROVE  TypeOK'
  <2>1. task' \in [Task -> TaskState] /\ At(t, "apply", {"LOCKU"})
    BY ZenonT(30), <1>11 DEF UnlockState, End, TypeOK, TaskState
  <2>2. lock_files' \in [Id -> LockFileState \cup {NoState}]
    BY <1>11, <2>1, TaskFields DEF UnlockState, TypeOK, LockFileState
  <2> QED BY ZenonT(30), <1>11, <2>1, <2>2 DEF UnlockState, TypeOK
<1>12. ASSUME NEW i \in Id, NEW q \in 0..MaxSeq, FreeStateid(i, q)
       PROVE  TypeOK'
  BY ZenonT(30), <1>12 DEF FreeStateid, TypeOK
<1>13. ASSUME NEW c \in Client, RevokeClientState(c)
       PROVE  TypeOK'
  BY ZenonT(30), <1>13 DEF RevokeClientState, TypeOK
<1>14. CASE UNCHANGED vars
  BY ZenonT(30), <1>14 DEF vars, tables, TypeOK
<1> QED BY ZenonT(30), <1>1, <1>2, <1>3, <1>4, <1>5, <1>6, <1>7, <1>8, <1>9, <1>10, <1>11, <1>12, <1>13,
           <1>14 DEF Next, Serve

\* The tables and the requests stay well typed (FileState!TypeOK).
THEOREM TypeCorrect == Spec => []TypeOK
<1>1. Init => TypeOK
  BY FileStateAssumption DEF Init, TypeOK, TaskState, Id
<1> QED BY <1>1, TypeOKStep, PTL DEF Spec

-----------------------------------------------------------------------------
\* What any step but a successful OPEN does to an open: it may go, or stay the same
\* open with no more access and no more denied than before.
Narrowed(i) ==
    OpenActive(i)' =>
      /\ OpenActive(i)
      /\ open_files'[i].object = open_files[i].object
      /\ open_files'[i].clientid = open_files[i].clientid
      /\ open_files'[i].owner = open_files[i].owner
      /\ open_files'[i].access \subseteq open_files[i].access
      /\ open_files'[i].deny \subseteq open_files[i].deny

LEMMA OthersNarrow ==
    ASSUME TypeOK,
           \/ \E i \in Id, q \in 0..MaxSeq : ConfirmOpenState(i, q) \/ FreeStateid(i, q)
           \/ \E c \in Client : RevokeClientState(c)
    PROVE  \A i \in Id : Narrowed(i)
<1>1. ASSUME NEW i \in Id, NEW q \in 0..MaxSeq, ConfirmOpenState(i, q)
      PROVE  \A j \in Id : Narrowed(j)
  <2>1. open_files[i] \in OpenFileState
    BY ZenonT(30), <1>1 DEF ConfirmOpenState, OpenActive, TypeOK
  <2> QED BY ZenonT(30), <1>1, <2>1 DEF ConfirmOpenState, Narrowed, OpenActive, TypeOK, OpenFileState
<1>2. ASSUME NEW i \in Id, NEW q \in 0..MaxSeq, FreeStateid(i, q)
      PROVE  \A j \in Id : Narrowed(j)
  BY ZenonT(30), <1>2 DEF FreeStateid, Narrowed, OpenActive, TypeOK
<1>3. ASSUME NEW c \in Client, RevokeClientState(c)
      PROVE  \A j \in Id : Narrowed(j)
  BY ZenonT(30), <1>3 DEF RevokeClientState, Narrowed, OpenActive, TypeOK
<1> QED BY ZenonT(30), <1>1, <1>2, <1>3

LEMMA OpenStep ==
    ASSUME TypeOK, [Next]_vars
    PROVE  \/ \E t \in Task : \E i \in OwnOpens(task[t]) : Upgrade(t, i)
           \/ \E t \in Task : NewOpen(t)
           \/ \A i \in Id : Narrowed(i)
<1>1. ASSUME UNCHANGED open_files
      PROVE  \A i \in Id : Narrowed(i)
  BY ZenonT(30), <1>1 DEF Narrowed, OpenActive
<1>2. ASSUME NEW t \in Task, CreateOpenState(t)
      PROVE  \/ UNCHANGED open_files
             \/ \E i \in OwnOpens(task[t]) : Upgrade(t, i)
             \/ NewOpen(t)
  BY ZenonT(30), <1>2, OpenOutcomes
<1>3. ASSUME NEW t \in Task, CloseState(t)
      PROVE  \A j \in Id : Narrowed(j)
  <2>1. CASE open_files' # open_files
    <3>1. open_files[task[t].id] \in OpenFileState /\ task[t].id \in Id
      BY ZenonT(30), <1>3, <2>1, TaskFields DEF CloseState, OpenActive, TypeOK
    <3> QED BY ZenonT(30), <1>3, <2>1, <3>1 DEF CloseState, Narrowed, OpenActive, TypeOK, OpenFileState
  <2> QED BY ZenonT(30), <1>1, <2>1
<1>4. ASSUME NEW t \in Task, OpenDowngrade(t)
      PROVE  \A j \in Id : Narrowed(j)
  <2>1. CASE open_files' # open_files
    <3>1. PICK k \in Id : k = task[t].id
      BY ZenonT(30), <1>4, TaskFields DEF OpenDowngrade
    <3>2. open_files[k] \in OpenFileState /\ OpenActive(k)
      BY ZenonT(30), <1>4, <2>1, <3>1 DEF OpenDowngrade, OpenActive, TypeOK
    <3>3. /\ open_files'[k] = [open_files[k] EXCEPT !.access = task[t].access,
                               !.deny = task[t].deny, !.seq = open_files[k].seq + 1]
          /\ task[t].access \subseteq open_files[k].access
          /\ task[t].deny \subseteq open_files[k].deny
      BY ZenonT(30), <1>4, <2>1, <3>1 DEF OpenDowngrade, TypeOK
    <3>4. Narrowed(k)
      BY ZenonT(30), <3>2, <3>3 DEF Narrowed, OpenActive, OpenFileState
    <3>5. \A j \in Id \ {k} : open_files'[j] = open_files[j]
      BY ZenonT(30), <1>4, <2>1, <3>1 DEF OpenDowngrade, TypeOK
    <3> QED BY ZenonT(30), <3>4, <3>5 DEF Narrowed, OpenActive
  <2> QED BY ZenonT(30), <1>1, <2>1
<1>5. ASSUME NEW t \in Task,
             \/ StartOpen(t) \/ StartClose(t) \/ StartDowngrade(t)
             \/ StartLockNew(t) \/ StartLock(t) \/ FindLockConflict(t)
             \/ CreateLockState(t) \/ UpdateLockState(t)
             \/ StartUnlock(t) \/ UnlockState(t)
      PROVE  UNCHANGED open_files
  BY ZenonT(30), <1>5 DEF StartOpen, StartClose, StartDowngrade, StartLockNew, StartLock, FindLockConflict,
              CreateLockState, UpdateLockState, StartUnlock, UnlockState, tables
<1>6. CASE UNCHANGED vars
  BY ZenonT(30), <1>1, <1>6 DEF vars, tables
<1> QED BY ZenonT(30), <1>1, <1>2, <1>3, <1>4, <1>5, <1>6, OthersNarrow DEF Next, Serve

\* A new open is recorded under the next id and is the request's.
LEMMA NewOpenEffect ==
    ASSUME TypeOK, NEW t \in Task, NewOpen(t)
    PROVE  /\ next_stateid \in Id
           /\ open_files'[next_stateid].object = task[t].object
           /\ open_files'[next_stateid].clientid = task[t].client
           /\ open_files'[next_stateid].owner = task[t].owner
           /\ open_files'[next_stateid].access = task[t].access
           /\ open_files'[next_stateid].deny = task[t].deny
           /\ \A j \in Id \ {next_stateid} : open_files'[j] = open_files[j]
  BY ZenonT(30) DEF NewOpen, TypeOK

\* Inductive step of ShareReservationsHold.  Only a successful OPEN adds access or
\* denies more, and create_open_state has compared the result with every other open.
LEMMA SharesStep ==
    ASSUME TypeOK, ShareReservationsHold, [Next]_vars
    PROVE  ShareReservationsHold'
<1>1. CASE \A i \in Id : Narrowed(i)
  BY <1>1 DEF ShareReservationsHold, Narrowed, OpenActive
<1>2. ASSUME NEW t \in Task, NEW k \in OwnOpens(task[t]), Upgrade(t, k)
      PROVE  ShareReservationsHold'
  <2>1. \A j \in Id \ {k} : OpenActive(j) /\ open_files[j].object = open_files[k].object =>
           /\ open_files[j].deny \cap open_files'[k].access = {}
           /\ open_files'[k].deny \cap open_files[j].access = {}
    <3>1. ~ShareDenied({k}, open_files[k].access \cup task[t].access,
                       open_files[k].deny \cup task[t].deny, task[t].object)
      BY ZenonT(30), <1>2 DEF Upgrade
    <3>2. /\ open_files[k].object = task[t].object
          /\ open_files'[k].access = open_files[k].access \cup task[t].access
          /\ open_files'[k].deny = open_files[k].deny \cup task[t].deny
      BY ZenonT(30), <1>2, UpgradeEffect
    <3> QED BY ZenonT(30), <3>1, <3>2 DEF ShareDenied, SharesConflict
  <2>2. \A j \in Id \ {k} : open_files'[j] = open_files[j]
    BY ZenonT(30), <1>2, UpgradeEffect
  <2>3. k \in Id /\ open_files'[k].object = open_files[k].object
    BY ZenonT(30), <1>2, UpgradeEffect
  <2> QED BY <2>1, <2>2, <2>3 DEF ShareReservationsHold, OpenActive
<1>3. ASSUME NEW t \in Task, NewOpen(t)
      PROVE  ShareReservationsHold'
  <2>1. PICK k \in Id : k = next_stateid
    BY ZenonT(30), <1>3 DEF NewOpen
  <2>2. \A j \in Id : OpenActive(j) /\ open_files[j].object = open_files'[k].object =>
           /\ open_files[j].deny \cap open_files'[k].access = {}
           /\ open_files'[k].deny \cap open_files[j].access = {}
    <3>1. ~ShareDenied({}, task[t].access, task[t].deny, task[t].object)
      BY ZenonT(30), <1>3 DEF NewOpen
    <3>2. /\ open_files'[k].object = task[t].object
          /\ open_files'[k].access = task[t].access
          /\ open_files'[k].deny = task[t].deny
      BY ZenonT(30), <1>3, <2>1, NewOpenEffect
    <3> QED BY ZenonT(30), <3>1, <3>2 DEF ShareDenied, SharesConflict
  <2>3. \A j \in Id \ {k} : open_files'[j] = open_files[j]
    BY ZenonT(30), <1>3, <2>1, NewOpenEffect
  <2> QED BY ZenonT(30), <2>2, <2>3 DEF ShareReservationsHold, OpenActive
<1> QED BY ZenonT(30), <1>1, <1>2, <1>3, OpenStep

\* No two opens of a file hold what the other denies, for any number of clients,
\* owners and interleaved OPEN, OPEN_DOWNGRADE, CLOSE and revocation.
THEOREM SharesAreHonoured == Spec => []ShareReservationsHold
<1>1. Init => ShareReservationsHold
  BY ZenonT(30) DEF Init, ShareReservationsHold, OpenActive
<1> QED BY <1>1, SharesStep, TypeCorrect, PTL DEF Spec

\* Inductive step of OneOpenPerOwner: an open is added only when its owner has none.
LEMMA OneOpenStep ==
    ASSUME TypeOK, OneOpenPerOwner, [Next]_vars
    PROVE  OneOpenPerOwner'
<1>1. CASE \A i \in Id : Narrowed(i)
  BY <1>1 DEF OneOpenPerOwner, Narrowed, OpenActive
<1>2. ASSUME NEW t \in Task, NEW k \in OwnOpens(task[t]), Upgrade(t, k)
      PROVE  OneOpenPerOwner'
  <2>1. \A j \in Id \ {k} : open_files'[j] = open_files[j]
    BY ZenonT(30), <1>2, UpgradeEffect
  <2>2. /\ k \in Id /\ OpenActive(k)
        /\ open_files'[k].object = open_files[k].object
        /\ open_files'[k].clientid = open_files[k].clientid
        /\ open_files'[k].owner = open_files[k].owner
    BY ZenonT(30), <1>2, UpgradeEffect
  <2> QED BY <2>1, <2>2 DEF OneOpenPerOwner, OpenActive
<1>3. ASSUME NEW t \in Task, NewOpen(t)
      PROVE  OneOpenPerOwner'
  <2>1. PICK k \in Id : k = next_stateid
    BY ZenonT(30), <1>3 DEF NewOpen
  <2>2. ASSUME NEW j \in Id, OpenActive(j), open_files[j].object = open_files'[k].object,
               open_files[j].clientid = open_files'[k].clientid
        PROVE  open_files[j].owner # open_files'[k].owner
    <3>1. OwnOpens(task[t]) = {}
      BY ZenonT(30), <1>3 DEF NewOpen
    <3>2. /\ open_files'[k].object = task[t].object
          /\ open_files'[k].clientid = task[t].client
          /\ open_files'[k].owner = task[t].owner
      BY ZenonT(30), <1>3, <2>1, NewOpenEffect
    <3>3. j \notin OwnOpens(task[t])
      BY ZenonT(30), <3>1
    <3> QED BY ZenonT(30), <2>2, <3>2, <3>3 DEF OwnOpens
  <2>3. \A j \in Id \ {k} : open_files'[j] = open_files[j]
    BY ZenonT(30), <1>3, <2>1, NewOpenEffect
  <2> QED BY <2>2, <2>3 DEF OneOpenPerOwner, OpenActive
<1> QED BY ZenonT(30), <1>1, <1>2, <1>3, OpenStep

\* An owner has at most one active open of a file, however its requests interleave.
THEOREM OwnersOpenOnce == Spec => []OneOpenPerOwner
<1>1. Init => OneOpenPerOwner
  BY ZenonT(30) DEF Init, OneOpenPerOwner, OpenActive
<1> QED BY <1>1, OneOpenStep, TypeCorrect, PTL DEF Spec

-----------------------------------------------------------------------------
\* Ids from next_stateid on are unused: the counter of StateManager only grows, so
\* an id FREE_STATEID or a revocation has emptied is not given out again.
FreshIds == \A i \in Id : i >= next_stateid => open_files[i] = NoState /\ lock_files[i] = NoState

\* What a step may do to the open and to the lock with stateid i.
OpenIsStable(i) ==
    /\ open_files[i] # NoState /\ open_files'[i] # NoState =>
         /\ open_files'[i].object = open_files[i].object
         /\ open_files'[i].clientid = open_files[i].clientid
         /\ open_files'[i].owner = open_files[i].owner
         /\ open_files'[i].seq >= open_files[i].seq
         /\ open_files'[i].active => open_files[i].active
    /\ open_files[i] = NoState /\ open_files'[i] # NoState =>
         i = next_stateid /\ next_stateid' = next_stateid + 1

LockIsStable(i) ==
    /\ lock_files[i] # NoState /\ lock_files'[i] # NoState =>
         /\ lock_files'[i].object = lock_files[i].object
         /\ lock_files'[i].open = lock_files[i].open
         /\ lock_files'[i].seq >= lock_files[i].seq
    /\ lock_files[i] = NoState /\ lock_files'[i] # NoState =>
         i = next_stateid /\ next_stateid' = next_stateid + 1

LEMMA OpensStable ==
    ASSUME TypeOK, FreshIds, [Next]_vars
    PROVE  \A i \in Id : OpenIsStable(i)
<1> USE FileStateAssumption
<1>1. ASSUME UNCHANGED open_files
      PROVE  \A i \in Id : OpenIsStable(i)
  BY <1>1 DEF OpenIsStable, TypeOK, OpenFileState
<1>2. ASSUME NEW t \in Task, NEW k \in OwnOpens(task[t]), Upgrade(t, k)
      PROVE  \A i \in Id : OpenIsStable(i)
  <2>1. \A j \in Id \ {k} : open_files'[j] = open_files[j]
    BY ZenonT(30), <1>2, UpgradeEffect
  <2>2. OpenIsStable(k)
    BY ZenonT(30), <1>2, UpgradeEffect DEF OpenIsStable, OpenActive
  <2> QED BY SMTT(30), <2>1, <2>2 DEF OpenIsStable, TypeOK, OpenFileState
<1>3. ASSUME NEW t \in Task, NewOpen(t)
      PROVE  \A i \in Id : OpenIsStable(i)
  <2>1. PICK k \in Id : k = next_stateid
    BY ZenonT(30), <1>3 DEF NewOpen
  <2>2. open_files[k] = NoState /\ next_stateid' = next_stateid + 1
    BY <1>3, <2>1 DEF FreshIds, Id, NewOpen
  <2>3. \A j \in Id \ {k} : open_files'[j] = open_files[j]
    BY ZenonT(30), <1>3, <2>1, NewOpenEffect
  <2> QED BY <2>1, <2>2, <2>3 DEF OpenIsStable, TypeOK, OpenFileState
<1>4. ASSUME NEW k \in Id, NEW q \in 0..MaxSeq, ConfirmOpenState(k, q)
      PROVE  \A i \in Id : OpenIsStable(i)
  <2>1. open_files[k] \in OpenFileState /\ open_files[k] # NoState /\ open_files[k].active
    BY ZenonT(30), <1>4 DEF ConfirmOpenState, OpenActive, TypeOK
  <2>2. open_files'[k] = [open_files[k] EXCEPT !.seq = open_files[k].seq + 1]
    BY ZenonT(30), <1>4 DEF ConfirmOpenState, TypeOK
  <2>3. \A j \in Id \ {k} : open_files'[j] = open_files[j]
    BY ZenonT(30), <1>4 DEF ConfirmOpenState, TypeOK
  <2>4. OpenIsStable(k)
    BY <2>1, <2>2 DEF OpenIsStable, OpenFileState
  <2> QED BY <2>3, <2>4 DEF OpenIsStable, TypeOK, OpenFileState
<1>5. ASSUME NEW t \in Task, CloseState(t) \/ OpenDowngrade(t), open_files' # open_files
      PROVE  \A i \in Id : OpenIsStable(i)
  <2>1. PICK k \in Id : k = task[t].id
    BY ZenonT(30), <1>5, TaskFields DEF CloseState, OpenDowngrade
  <2>2. open_files[k] \in OpenFileState /\ open_files[k] # NoState /\ open_files[k].active
    BY ZenonT(30), <1>5, <2>1 DEF CloseState, OpenDowngrade, OpenActive, TypeOK
  <2>3. \/ open_files'[k] = [open_files[k] EXCEPT !.active = FALSE, !.seq = open_files[k].seq + 1]
        \/ open_files'[k] = [open_files[k] EXCEPT !.access = task[t].access,
                             !.deny = task[t].deny, !.seq = open_files[k].seq + 1]
    BY ZenonT(30), <1>5, <2>1 DEF CloseState, OpenDowngrade, TypeOK
  <2>4. \A j \in Id \ {k} : open_files'[j] = open_files[j]
    BY ZenonT(30), <1>5, <2>1 DEF CloseState, OpenDowngrade, TypeOK
  <2>5. OpenIsStable(k)
    <3>1. /\ open_files'[k].object = open_files[k].object
          /\ open_files'[k].clientid = open_files[k].clientid
          /\ open_files'[k].owner = open_files[k].owner
          /\ open_files'[k].seq = open_files[k].seq + 1
      <4>1. CASE open_files'[k] = [open_files[k] EXCEPT !.active = FALSE,
                                   !.seq = open_files[k].seq + 1]
        BY ZenonT(30), <2>2, <4>1 DEF OpenFileState
      <4>2. CASE open_files'[k] = [open_files[k] EXCEPT !.access = task[t].access,
                                   !.deny = task[t].deny, !.seq = open_files[k].seq + 1]
        BY ZenonT(30), <2>2, <4>2 DEF OpenFileState
      <4> QED BY ZenonT(30), <2>3, <4>1, <4>2
    <3> QED BY <2>2, <3>1 DEF OpenIsStable, OpenFileState
  <2> QED BY SMTT(30), <2>4, <2>5 DEF OpenIsStable, TypeOK, OpenFileState
<1>6. ASSUME NEW k \in Id, NEW q \in 0..MaxSeq, FreeStateid(k, q)
      PROVE  \A i \in Id : OpenIsStable(i)
  BY SMTT(30), <1>6 DEF FreeStateid, OpenIsStable, TypeOK, OpenFileState
<1>7. ASSUME NEW c \in Client, RevokeClientState(c)
      PROVE  \A i \in Id : OpenIsStable(i)
  BY SMTT(30), <1>7 DEF RevokeClientState, OpenIsStable, TypeOK, OpenFileState
<1>8. ASSUME NEW t \in Task,
             \/ StartOpen(t) \/ StartClose(t) \/ StartDowngrade(t)
             \/ StartLockNew(t) \/ StartLock(t) \/ FindLockConflict(t)
             \/ CreateLockState(t) \/ UpdateLockState(t)
             \/ StartUnlock(t) \/ UnlockState(t)
      PROVE  UNCHANGED open_files
  BY ZenonT(30), <1>8 DEF StartOpen, StartClose, StartDowngrade, StartLockNew, StartLock, FindLockConflict,
              CreateLockState, UpdateLockState, StartUnlock, UnlockState, tables
<1>9. CASE UNCHANGED vars
  BY ZenonT(30), <1>1, <1>9 DEF vars, tables
<1> QED BY ZenonT(30), <1>1, <1>2, <1>3, <1>4, <1>5, <1>6, <1>7, <1>8, <1>9, OpenOutcomes DEF Next, Serve

LEMMA LocksStable ==
    ASSUME TypeOK, FreshIds, [Next]_vars
    PROVE  \A i \in Id : LockIsStable(i)
<1> USE FileStateAssumption
<1>1. ASSUME UNCHANGED lock_files
      PROVE  \A i \in Id : LockIsStable(i)
  BY <1>1 DEF LockIsStable, TypeOK, LockFileState
<1>2. ASSUME NEW t \in Task, CreateLockState(t), ~UNCHANGED lock_files
      PROVE  \A i \in Id : LockIsStable(i)
  <2>1. PICK k \in Id : k = next_stateid
    BY ZenonT(30), <1>2 DEF CreateLockState
  <2>2. lock_files[k] = NoState /\ next_stateid' = next_stateid + 1
    BY SMTT(30), <1>2, <2>1 DEF FreshIds, Id, CreateLockState
  <2>3. \A j \in Id \ {k} : lock_files'[j] = lock_files[j]
    BY ZenonT(30), <1>2, <2>1 DEF CreateLockState, TypeOK
  <2> QED BY <2>1, <2>2, <2>3 DEF LockIsStable, TypeOK, LockFileState
<1>3. ASSUME NEW t \in Task, UpdateLockState(t) \/ UnlockState(t), ~UNCHANGED lock_files
      PROVE  \A i \in Id : LockIsStable(i)
  <2>1. PICK k \in Id : k = task[t].id
    BY ZenonT(30), <1>3, TaskFields DEF UpdateLockState, UnlockState
  <2>2. lock_files[k] \in LockFileState /\ lock_files[k] # NoState
    BY ZenonT(30), <1>3, <2>1 DEF UpdateLockState, UnlockState, TypeOK
  <2>3. \E h : lock_files'[k] = [lock_files[k] EXCEPT !.seq = lock_files[k].seq + 1, !.held = h]
    BY ZenonT(30), <1>3, <2>1 DEF UpdateLockState, UnlockState, TypeOK
  <2>4. \A j \in Id \ {k} : lock_files'[j] = lock_files[j]
    BY ZenonT(30), <1>3, <2>1 DEF UpdateLockState, UnlockState, TypeOK
  <2>5. LockIsStable(k)
    BY <2>2, <2>3 DEF LockIsStable, LockFileState
  <2> QED BY SMTT(30), <2>4, <2>5 DEF LockIsStable, TypeOK, LockFileState
<1>4. ASSUME NEW k \in Id, NEW q \in 0..MaxSeq, FreeStateid(k, q)
      PROVE  \A i \in Id : LockIsStable(i)
  BY <1>4 DEF FreeStateid, LockIsStable, TypeOK, LockFileState
<1>5. ASSUME NEW c \in Client, RevokeClientState(c)
      PROVE  \A i \in Id : LockIsStable(i)
  BY SMTT(30), <1>5 DEF RevokeClientState, LockIsStable, TypeOK, LockFileState
<1>6. ASSUME NEW t \in Task,
             \/ StartOpen(t) \/ CreateOpenState(t) \/ StartClose(t) \/ CloseState(t)
             \/ StartDowngrade(t) \/ OpenDowngrade(t) \/ StartLockNew(t) \/ StartLock(t)
             \/ FindLockConflict(t) \/ StartUnlock(t)
      PROVE  UNCHANGED lock_files
  BY ZenonT(30), <1>6 DEF StartOpen, CreateOpenState, StartClose, CloseState, StartDowngrade, OpenDowngrade,
              StartLockNew, StartLock, FindLockConflict, StartUnlock, tables
<1>7. ASSUME NEW k \in Id, NEW q \in 0..MaxSeq, ConfirmOpenState(k, q)
      PROVE  UNCHANGED lock_files
  BY ZenonT(30), <1>7 DEF ConfirmOpenState
<1>8. CASE UNCHANGED vars
  BY ZenonT(30), <1>1, <1>8 DEF vars, tables
<1> QED BY ZenonT(30), <1>1, <1>2, <1>3, <1>4, <1>5, <1>6, <1>7, <1>8 DEF Next, Serve

\* The counter never goes back.
LEMMA CounterGrows ==
    ASSUME TypeOK, [Next]_vars
    PROVE  next_stateid' >= next_stateid
<1>1. ASSUME NEW t \in Task, Serve(t)
      PROVE  next_stateid' \in {next_stateid, next_stateid + 1}
  BY ZenonT(30), <1>1 DEF Serve, StartOpen, CreateOpenState, StartClose, CloseState, StartDowngrade,
              OpenDowngrade, StartLockNew, StartLock, FindLockConflict, CreateLockState,
              UpdateLockState, StartUnlock, UnlockState, tables
<1>2. ASSUME NEW k \in Id, NEW q \in 0..MaxSeq, ConfirmOpenState(k, q) \/ FreeStateid(k, q)
      PROVE  next_stateid' = next_stateid
  BY ZenonT(30), <1>2 DEF ConfirmOpenState, FreeStateid
<1>3. ASSUME NEW c \in Client, RevokeClientState(c)
      PROVE  next_stateid' = next_stateid
  BY ZenonT(30), <1>3 DEF RevokeClientState
<1>4. CASE UNCHANGED vars
  BY <1>4 DEF vars, tables, TypeOK
<1>5. next_stateid' \in {next_stateid, next_stateid + 1}
  BY ZenonT(30), <1>1, <1>2, <1>3, <1>4 DEF Next, vars, tables
<1> QED BY SMTT(30), <1>5 DEF TypeOK

LEMMA FreshStep ==
    ASSUME TypeOK, FreshIds, [Next]_vars
    PROVE  FreshIds'
<1> SUFFICES ASSUME NEW i \in Id, i >= next_stateid'
             PROVE  open_files'[i] = NoState /\ lock_files'[i] = NoState
  BY ZenonT(30) DEF FreshIds
<1>1. /\ next_stateid \in Nat /\ next_stateid' >= next_stateid /\ i \in Nat
      /\ next_stateid' \in Nat
  BY TypeOKStep, CounterGrows DEF TypeOK, Id
<1>2. open_files[i] = NoState /\ lock_files[i] = NoState
  BY <1>1 DEF FreshIds
<1>3. OpenIsStable(i) /\ LockIsStable(i)
  BY ZenonT(30), OpensStable, LocksStable
<1> QED BY <1>1, <1>2, <1>3 DEF OpenIsStable, LockIsStable

\* A stateid means one open or one lock for as long as the server runs: what it
\* names does not change, its seqid does not go back, and it is not used again.
THEOREM StateidsStayPut == Spec => StateidsAreStable
<1>1. Init => FreshIds
  BY ZenonT(30) DEF Init, FreshIds
<1>2. ASSUME TypeOK, FreshIds, [Next]_vars
      PROVE  [\A i \in Id :
         /\ open_files[i] # NoState /\ open_files'[i] # NoState =>
              /\ open_files'[i].object = open_files[i].object
              /\ open_files'[i].clientid = open_files[i].clientid
              /\ open_files'[i].owner = open_files[i].owner
              /\ open_files'[i].seq >= open_files[i].seq
              /\ open_files'[i].active => open_files[i].active
         /\ lock_files[i] # NoState /\ lock_files'[i] # NoState =>
              /\ lock_files'[i].object = lock_files[i].object
              /\ lock_files'[i].open = lock_files[i].open
              /\ lock_files'[i].seq >= lock_files[i].seq
         /\ i < next_stateid =>
              /\ open_files[i] = NoState => open_files'[i] = NoState
              /\ lock_files[i] = NoState => lock_files'[i] = NoState]_vars
  <2>1. \A i \in Id : OpenIsStable(i) /\ LockIsStable(i)
    BY ZenonT(30), <1>2, OpensStable, LocksStable
  <2>2. \A i \in Id : i < next_stateid => i # next_stateid
    BY <1>2 DEF TypeOK, Id
  <2> QED BY ZenonT(30), <2>1, <2>2 DEF OpenIsStable, LockIsStable
<1> QED BY <1>1, <1>2, FreshStep, TypeCorrect, PTL DEF Spec, StateidsAreStable

-----------------------------------------------------------------------------
(* Requests that use open and lock state one at a time.  Two LOCKs at once   *)
(* may both find no conflict, and a LOCK may be recorded under an open that  *)
(* a CLOSE has just closed; revocation, OPEN_CONFIRM and FREE_STATEID may    *)
(* come between any two steps even so.                                       *)

InTurn == \A t, u \in Task : t = u

\* A lock was taken through an open of its client.
Wedded(l) ==
    lock_files[l] # NoState =>
      /\ lock_files[l].open < next_stateid
      /\ open_files[lock_files[l].open] # NoState =>
           open_files[lock_files[l].open].clientid = lock_files[l].clientid

\* What a LOCK found out under its earlier guards still holds, as far as what it found
\* is still there.
Pending(r) ==
    r.pc \in {"conflict", "apply"} =>
      /\ r.op = "LOCK_NEW" =>
           /\ r.id \in Id /\ r.id < next_stateid
           /\ open_files[r.id] # NoState => open_files[r.id].clientid = r.client
      /\ r.op = "LOCK" =>
           /\ r.id \in Id /\ r.id < next_stateid
           /\ lock_files[r.id] # NoState => /\ lock_files[r.id].object = r.object
                                            /\ lock_files[r.id].clientid = r.client
                                            /\ lock_files[r.id].owner = r.owner
                                            /\ OpenActive(lock_files[r.id].open)
      /\ r.pc = "apply" /\ r.op \in {"LOCK_NEW", "LOCK"} => \A l \in Id : ~Conflicting(l, r)

LockInv ==
    /\ LocksExclude /\ HeldLocksHaveOpens
    /\ \A l \in Id : Wedded(l)
    /\ \A t \in Task : Pending(task[t])

LEMMA LockTypes ==
    ASSUME TypeOK, NEW l \in Id, lock_files[l] # NoState
    PROVE  /\ lock_files[l] \in LockFileState
           /\ lock_files[l].open \in Id
           /\ \A b \in Byte : lock_files[l].held[b] \in {"READ", "WRITE", "NONE"}
BY ZenonT(30) DEF TypeOK, LockFileState, Mode

LEMMA LockOwners ==
    ASSUME TypeOK, NEW l \in Id, lock_files[l] # NoState
    PROVE  /\ lock_files[l].object \in Object /\ lock_files[l].open \in Id
           /\ <<lock_files[l].clientid, lock_files[l].owner>> \in Client \X Owner
BY DEF TypeOK, LockFileState

\* Locks may go, and an open that a lock needs stays.
LEMMA LocksGo ==
    ASSUME TypeOK, FreshIds, [Next]_vars, LockInv,
           \A l \in Id : lock_files'[l] \in {lock_files[l], NoState},
           \A l \in Id : lock_files'[l] # NoState /\ LockActive(l) /\ OpenActive(lock_files[l].open)
                           => OpenActive(lock_files[l].open)'
    PROVE  LocksExclude' /\ HeldLocksHaveOpens' /\ \A l \in Id : Wedded(l)'
<1>1. LocksExclude'
  BY DEF LockInv, LocksExclude
<1>2. HeldLocksHaveOpens'
  <2> SUFFICES ASSUME NEW l \in Id, LockActive(l)' PROVE OpenActive(lock_files[l].open)'
    BY ZenonT(30) DEF HeldLocksHaveOpens
  <2>1. lock_files'[l] # NoState /\ lock_files'[l] = lock_files[l] /\ LockActive(l)
    BY ZenonT(30) DEF LockActive
  <2>2. OpenActive(lock_files[l].open)
    BY ZenonT(30), <2>1 DEF LockInv, HeldLocksHaveOpens
  <2> QED
    BY ZenonT(30), <2>1, <2>2 DEF OpenActive
<1>3. ASSUME NEW l \in Id PROVE Wedded(l)'
  <2> SUFFICES ASSUME lock_files'[l] # NoState
               PROVE  /\ lock_files[l].open < next_stateid'
                      /\ open_files'[lock_files[l].open] # NoState =>
                           open_files'[lock_files[l].open].clientid = lock_files[l].clientid
    BY ZenonT(30) DEF Wedded
  <2>1. PICK i \in Id : i = lock_files[l].open
    BY ZenonT(30), LockTypes
  <2>2. /\ i < next_stateid
        /\ open_files[i] # NoState => open_files[i].clientid = lock_files[l].clientid
    BY ZenonT(30), <2>1 DEF LockInv, Wedded
  <2>3. i < next_stateid' /\ i # next_stateid
    BY <2>2, TypeOKStep, CounterGrows DEF TypeOK, Id
  <2>4. OpenIsStable(i)
    BY ZenonT(30), OpensStable
  <2> QED
    BY ZenonT(30), <2>1, <2>2, <2>3, <2>4 DEF OpenIsStable
<1> QED
  BY ZenonT(30), <1>1, <1>2, <1>3

\* The one request is over.
LEMMA TaskEnds ==
    ASSUME InTurn, TypeOK, NEW t \in Task, End(t)
    PROVE  \A u \in Task : Pending(task[u])'
<1>1. \A u \in Task : task'[u] = Idle
  BY ZenonT(30) DEF InTurn, End, TypeOK
<1> QED
  BY <1>1 DEF Pending, Idle

\* CREATE and upgrade, CLOSE and OPEN_DOWNGRADE: CLOSE looks for locks.
LEMMA OpensMove ==
    ASSUME InTurn, TypeOK, FreshIds, LockInv, NEW t \in Task,
           CreateOpenState(t) \/ CloseState(t) \/ OpenDowngrade(t)
    PROVE  LockInv'
<1>1. [Next]_vars /\ End(t) /\ UNCHANGED lock_files
  BY ZenonT(30) DEF Next, Serve, CreateOpenState, CloseState, OpenDowngrade
<1>2. ASSUME NEW l \in Id, LockActive(l), NEW i \in Id, i = lock_files[l].open, OpenActive(i)
      PROVE  OpenActive(i)'
  <2>1. CASE UNCHANGED open_files
    BY ZenonT(30), <1>2, <2>1 DEF OpenActive
  <2>2. ASSUME NEW k \in OwnOpens(task[t]), Upgrade(t, k)
        PROVE  OpenActive(i)'
    <3>1. /\ open_files'[k].active /\ open_files'[k] \in OpenFileState
          /\ \A j \in Id \ {k} : open_files'[j] = open_files[j]
      BY ZenonT(30), <2>2, UpgradeEffect
    <3> QED
      BY ZenonT(30), <1>2, <3>1, FileStateAssumption DEF OpenActive
  <2>3. CASE NewOpen(t)
    <3>1. next_stateid \in Id /\ open_files[next_stateid] = NoState
      BY SMTT(30), <2>3 DEF NewOpen, FreshIds, Id
    <3>2. open_files'[i] = open_files[i]
      BY ZenonT(30), <1>2, <2>3, <3>1, NewOpenEffect DEF OpenActive
    <3> QED
      BY ZenonT(30), <1>2, <3>2 DEF OpenActive
  <2>4. CASE CloseState(t) /\ open_files' # open_files
    <3>1. PICK k \in Id : k = task[t].id
      BY ZenonT(30), <2>4, TaskFields DEF CloseState
    <3>2. ~LocksHeld(k) /\ \A j \in Id \ {k} : open_files'[j] = open_files[j]
      BY ZenonT(30), <2>4, <3>1 DEF CloseState, TypeOK
    <3>3. i # k
      BY ZenonT(30), <1>2, <3>2 DEF LocksHeld
    <3> QED
      BY ZenonT(30), <1>2, <3>2, <3>3 DEF OpenActive
  <2>5. CASE OpenDowngrade(t) /\ open_files' # open_files
    <3>1. PICK k \in Id : k = task[t].id
      BY ZenonT(30), <2>5, TaskFields DEF OpenDowngrade
    <3>2. open_files[k] \in OpenFileState /\ OpenActive(k)
      BY ZenonT(30), <2>5, <3>1 DEF OpenDowngrade, OpenActive, TypeOK
    <3>3. open_files'[k] = [open_files[k] EXCEPT !.access = task[t].access,
                            !.deny = task[t].deny, !.seq = open_files[k].seq + 1]
      BY ZenonT(30), <2>5, <3>1 DEF OpenDowngrade, TypeOK
    <3>4. open_files'[k].active /\ open_files'[k] # NoState
      <4>1. open_files'[k].active
        BY ZenonT(30), <3>2, <3>3 DEF OpenFileState, OpenActive
      <4>2. open_files[k].seq + 1 \in 1..MaxSeq
        <5>1. open_files[k].seq < MaxSeq
          BY ZenonT(30), <2>5, <3>1 DEF OpenDowngrade
        <5>2. open_files[k].seq \in 1..MaxSeq
          BY ZenonT(30), <3>2 DEF OpenFileState
        <5> QED BY SMTT(30), <5>1, <5>2, FileStateAssumption
      <4>3. task[t].access \in SUBSET Mode /\ task[t].deny \in SUBSET Mode
        BY ZenonT(30), <2>5, TaskFields DEF OpenDowngrade
      <4>4. open_files'[k] \in OpenFileState
        BY ZenonT(30), <3>2, <3>3, <4>2, <4>3 DEF OpenFileState
      <4> QED BY ZenonT(30), <4>1, <4>4, FileStateAssumption
    <3>5. \A j \in Id \ {k} : open_files'[j] = open_files[j]
      BY ZenonT(30), <2>5, <3>1 DEF OpenDowngrade, TypeOK
    <3> QED
      BY ZenonT(30), <1>2, <3>4, <3>5 DEF OpenActive
  <2> QED
    BY ZenonT(30), <2>1, <2>2, <2>3, <2>4, <2>5, OpenOutcomes
<1>3. \A l \in Id : /\ lock_files'[l] \in {lock_files[l], NoState}
                    /\ LockActive(l) /\ OpenActive(lock_files[l].open)
                         => OpenActive(lock_files[l].open)'
  <2> SUFFICES ASSUME NEW l \in Id, LockActive(l), OpenActive(lock_files[l].open)
               PROVE  OpenActive(lock_files[l].open)'
    BY ZenonT(30), <1>1
  <2>1. PICK i \in Id : i = lock_files[l].open
    BY ZenonT(30), LockTypes DEF LockActive
  <2>2. OpenActive(i)'
    BY ZenonT(30), <1>2, <2>1
  <2> QED
    BY ZenonT(30), <1>1, <2>1, <2>2 DEF OpenActive
<1>4. LocksExclude' /\ HeldLocksHaveOpens' /\ \A l \in Id : Wedded(l)'
  BY ZenonT(30), <1>1, <1>3, LocksGo
<1> QED
  BY ZenonT(30), <1>1, <1>4, TaskEnds DEF LockInv

\* What a lock entry may become: it excludes what the others hold and, while it holds
\* something, hangs on an active open of its client.
Fits(k, n) ==
    /\ n.open \in Id
    /\ \A m \in Id \ {k} :
         /\ lock_files[m] # NoState /\ lock_files[m].object = n.object
         /\ <<lock_files[m].clientid, lock_files[m].owner>> # <<n.clientid, n.owner>>
         => \A b \in Byte : /\ n.held[b] = "WRITE" => lock_files[m].held[b] = "NONE"
                            /\ lock_files[m].held[b] = "WRITE" => n.held[b] = "NONE"
    /\ (\E b \in Byte : n.held[b] # "NONE") => OpenActive(n.open)
    /\ n.open < next_stateid
    /\ open_files[n.open] # NoState => open_files[n.open].clientid = n.clientid

LEMMA PutLock ==
    ASSUME TypeOK, FreshIds, [Next]_vars, LockInv, UNCHANGED open_files,
           NEW k \in Id, NEW n, Fits(k, n),
           lock_files'[k] = n, \A m \in Id \ {k} : lock_files'[m] = lock_files[m]
    PROVE  LocksExclude' /\ HeldLocksHaveOpens' /\ \A l \in Id : Wedded(l)'
<1>1. /\ lock_files'[k] = n
      /\ \A m \in Id \ {k} : lock_files'[m] = lock_files[m]
  BY ZenonT(30)
<1>2. LocksExclude'
  <2> SUFFICES ASSUME NEW l \in Id, NEW m \in Id,
                      lock_files'[l] # NoState, lock_files'[m] # NoState,
                      lock_files'[l].object = lock_files'[m].object,
                      <<lock_files'[l].clientid, lock_files'[l].owner>>
                        # <<lock_files'[m].clientid, lock_files'[m].owner>>,
                      NEW b \in Byte, lock_files'[l].held[b] = "WRITE"
               PROVE  lock_files'[m].held[b] = "NONE"
    BY ZenonT(30) DEF LocksExclude
  <2>1. CASE l = k /\ m # k
    BY <1>1, <2>1 DEF Fits
  <2>2. CASE l # k /\ m = k
    BY ZenonT(30), <1>1, <2>2 DEF Fits
  <2>3. CASE l # k /\ m # k
    BY <1>1, <2>3 DEF LockInv, LocksExclude
  <2> QED
    BY ZenonT(30), <2>1, <2>2, <2>3
<1>3. HeldLocksHaveOpens'
  <2> SUFFICES ASSUME NEW l \in Id, LockActive(l)' PROVE OpenActive(lock_files[l].open)'
    BY ZenonT(30) DEF HeldLocksHaveOpens
  <2>1. CASE l = k
    BY ZenonT(30), <1>1, <2>1 DEF LockActive, OpenActive, Fits
  <2>2. CASE l # k
    BY ZenonT(30), <1>1, <2>2 DEF LockActive, OpenActive, LockInv, HeldLocksHaveOpens
  <2> QED
    BY ZenonT(30), <2>1, <2>2
<1>4. next_stateid \in Nat /\ next_stateid' \in Nat /\ next_stateid' >= next_stateid
  BY TypeOKStep, CounterGrows DEF TypeOK
<1>5. ASSUME NEW l \in Id PROVE Wedded(l)'
  <2>1. CASE l = k
    <3>1. n.open \in Nat /\ n.open < next_stateid
      BY DEF Fits, Id
    <3>2. n.open < next_stateid'
      BY <1>4, <3>1
    <3> QED
      BY ZenonT(30), <1>1, <2>1, <3>2 DEF Wedded, Fits
  <2>2. CASE l # k
    <3> SUFFICES ASSUME lock_files[l] # NoState PROVE Wedded(l)'
      BY ZenonT(30), <1>1, <2>2 DEF Wedded
    <3>1. lock_files[l].open \in Nat
      BY LockTypes DEF Id
    <3>2. Wedded(l)
      BY ZenonT(30) DEF LockInv
    <3>3. lock_files[l].open < next_stateid'
      BY <1>4, <3>1, <3>2 DEF Wedded
    <3> QED
      BY ZenonT(30), <1>1, <2>2, <3>2, <3>3 DEF Wedded
  <2> QED
    BY ZenonT(30), <2>1, <2>2
<1> QED
  BY ZenonT(30), <1>2, <1>3, <1>5

\* LOCK by a new owner: no other lock conflicted, and the open is looked at again.
LEMMA NewLock ==
    ASSUME InTurn, TypeOK, FreshIds, LockInv, NEW t \in Task, CreateLockState(t)
    PROVE  LockInv'
<1>1. [Next]_vars /\ End(t) /\ UNCHANGED open_files /\ At(t, "apply", {"LOCK_NEW"})
  BY ZenonT(30) DEF Next, Serve, CreateLockState
<1>2. CASE UNCHANGED lock_files
  <2>1. \A l \in Id : /\ lock_files'[l] \in {lock_files[l], NoState}
                      /\ OpenActive(lock_files[l].open) => OpenActive(lock_files[l].open)'
    BY ZenonT(30), <1>1, <1>2 DEF OpenActive
  <2> QED
    BY ZenonT(30), <1>1, <2>1, LocksGo, TaskEnds DEF LockInv
<1>3. CASE ~UNCHANGED lock_files
  <2>1. PICK r : r = task[t]
    BY ZenonT(30)
  <2>2. PICK k \in Id : k = next_stateid
    BY ZenonT(30), <1>3 DEF CreateLockState
  <2>3. PICK held : held = [b \in Byte |-> IF b \in r.range THEN r.mode ELSE "NONE"]
    BY ZenonT(30)
  <2>4. PICK n : n = [object |-> r.object, clientid |-> r.client, owner |-> r.owner, open |-> r.id,
                      held |-> held, seq |-> 1]
    BY ZenonT(30)
  <2>5. /\ OpenActive(r.id)
        /\ lock_files'[k] = n /\ \A m \in Id \ {k} : lock_files'[m] = lock_files[m]
    BY ZenonT(30), <1>3, <2>1, <2>2, <2>3, <2>4 DEF CreateLockState, TypeOK
  <2>6. /\ r.id \in Id /\ r.id < next_stateid
        /\ open_files[r.id] # NoState => open_files[r.id].clientid = r.client
        /\ \A l \in Id : ~Conflicting(l, r)
    BY ZenonT(30), <1>1, <2>1 DEF LockInv, Pending, At
  <2>7. /\ n.object = r.object /\ n.clientid = r.client /\ n.owner = r.owner
        /\ n.open = r.id /\ n.held = held
    BY ZenonT(30), <2>4
  <2>8. r.mode \in Mode
    BY ZenonT(30), <1>1, <2>1, TaskFields
  <2>9. ASSUME NEW m \in Id \ {k}, lock_files[m] # NoState, lock_files[m].object = n.object,
               <<lock_files[m].clientid, lock_files[m].owner>> # <<n.clientid, n.owner>>,
               NEW b \in Byte
        PROVE  /\ n.held[b] = "WRITE" => lock_files[m].held[b] = "NONE"
               /\ lock_files[m].held[b] = "WRITE" => n.held[b] = "NONE"
    <3>1. lock_files[m].held[b] \in {"READ", "WRITE", "NONE"}
      BY ZenonT(30), <2>9, LockTypes
    <3>2. \A a \in r.range : /\ lock_files[m].held[a] # "WRITE"
                             /\ ~(lock_files[m].held[a] = "READ" /\ r.mode = "WRITE")
      BY ZenonT(30), <2>6, <2>7, <2>9 DEF Conflicting
    <3> QED
      BY ZenonT(30), <2>3, <2>7, <2>8, <2>9, <3>1, <3>2 DEF Mode
  <2>10. Fits(k, n)
    BY ZenonT(30), <2>5, <2>6, <2>7, <2>9 DEF Fits
  <2>11. LocksExclude' /\ HeldLocksHaveOpens' /\ \A l \in Id : Wedded(l)'
    BY ZenonT(30), <1>1, <2>5, <2>10, PutLock
  <2> QED
    BY ZenonT(30), <1>1, <2>11, TaskEnds DEF LockInv
<1> QED
  BY ZenonT(30), <1>2, <1>3

\* LOCK by an owner that has locks, and LOCKU: one entry gets other ranges.
LEMMA OtherRanges ==
    ASSUME InTurn, TypeOK, FreshIds, LockInv, NEW t \in Task,
           UpdateLockState(t) \/ UnlockState(t)
    PROVE  LockInv'
<1>1. [Next]_vars /\ End(t) /\ UNCHANGED open_files
  BY ZenonT(30) DEF Next, Serve, UpdateLockState, UnlockState
<1>2. CASE UNCHANGED lock_files
  <2>1. \A l \in Id : /\ lock_files'[l] \in {lock_files[l], NoState}
                      /\ OpenActive(lock_files[l].open) => OpenActive(lock_files[l].open)'
    BY ZenonT(30), <1>1, <1>2 DEF OpenActive
  <2> QED
    BY ZenonT(30), <1>1, <2>1, LocksGo, TaskEnds DEF LockInv
<1>3. CASE ~UNCHANGED lock_files
  <2>1. PICK r : r = task[t]
    BY ZenonT(30)
  <2>2. PICK k \in Id : k = r.id
    BY ZenonT(30), <1>3, <2>1, TaskFields DEF UpdateLockState, UnlockState
  <2>3. PICK o : o = lock_files[k]
    BY ZenonT(30)
  <2>4. o \in LockFileState /\ o # NoState
    BY ZenonT(30), <1>3, <2>1, <2>2, <2>3 DEF UpdateLockState, UnlockState, TypeOK
  <2>5. PICK held : /\ lock_files'[k] = [o EXCEPT !.seq = o.seq + 1, !.held = held]
                    /\ \A m \in Id \ {k} : lock_files'[m] = lock_files[m]
                    /\ \/ /\ At(t, "apply", {"LOCK"})
                          /\ held = [b \in Byte |-> IF b \in r.range THEN r.mode ELSE o.held[b]]
                       \/ /\ At(t, "apply", {"LOCKU"})
                          /\ held = [b \in Byte |-> IF b \in r.range THEN "NONE" ELSE o.held[b]]
    <3>1. ASSUME NEW held,
                 lock_files' = [lock_files EXCEPT ![task[t].id].seq = lock_files[task[t].id].seq + 1,
                                                  ![task[t].id].held = held]
          PROVE  /\ lock_files'[k] = [o EXCEPT !.seq = o.seq + 1, !.held = held]
                 /\ \A m \in Id \ {k} : lock_files'[m] = lock_files[m]
      BY ZenonT(30), <2>1, <2>2, <2>3, <3>1 DEF TypeOK
    <3>2. CASE UpdateLockState(t)
      <4>1. PICK h : h = [b \in Byte |-> IF b \in task[t].range THEN task[t].mode
                                         ELSE lock_files[task[t].id].held[b]]
        BY ZenonT(30)
      <4>2. /\ At(t, "apply", {"LOCK"})
            /\ lock_files' = [lock_files EXCEPT ![task[t].id].seq = lock_files[task[t].id].seq + 1,
                                                ![task[t].id].held = h]
        BY Zenon, <1>3, <3>2, <4>1 DEF UpdateLockState
      <4> QED
        BY Zenon, <2>1, <2>2, <2>3, <3>1, <4>1, <4>2
    <3>3. CASE UnlockState(t)
      <4>1. PICK h : h = [b \in Byte |-> IF b \in task[t].range THEN "NONE"
                                         ELSE lock_files[task[t].id].held[b]]
        BY ZenonT(30)
      <4>2. /\ At(t, "apply", {"LOCKU"})
            /\ lock_files' = [lock_files EXCEPT ![task[t].id].seq = lock_files[task[t].id].seq + 1,
                                                ![task[t].id].held = h]
        BY Zenon, <1>3, <3>3, <4>1 DEF UnlockState
      <4> QED
        BY Zenon, <2>1, <2>2, <2>3, <3>1, <4>1, <4>2
    <3> QED
      BY ZenonT(30), <3>2, <3>3
  <2>6. PICK n : n = [o EXCEPT !.seq = o.seq + 1, !.held = held]
    BY ZenonT(30)
  <2>7. /\ n.object = o.object /\ n.clientid = o.clientid /\ n.owner = o.owner
        /\ n.open = o.open /\ n.held = held /\ o.open \in Id
    BY ZenonT(30), <2>4, <2>6 DEF LockFileState
  <2>8. /\ At(t, "apply", {"LOCK"}) =>
             /\ o.object = r.object /\ o.clientid = r.client /\ o.owner = r.owner
             /\ OpenActive(o.open)
             /\ r.mode \in Mode
             /\ \A l \in Id : ~Conflicting(l, r)
    BY ZenonT(30), <2>1, <2>2, <2>3, <2>4, TaskFields DEF LockInv, Pending, At
  <2>9. ASSUME NEW m \in Id \ {k}, lock_files[m] # NoState, lock_files[m].object = n.object,
               <<lock_files[m].clientid, lock_files[m].owner>> # <<n.clientid, n.owner>>,
               NEW b \in Byte
        PROVE  /\ n.held[b] = "WRITE" => lock_files[m].held[b] = "NONE"
               /\ lock_files[m].held[b] = "WRITE" => n.held[b] = "NONE"
    <3>1. lock_files[m].held[b] \in {"READ", "WRITE", "NONE"}
      BY ZenonT(30), <2>9, LockTypes
    <3>2. /\ o.held[b] = "WRITE" => lock_files[m].held[b] = "NONE"
          /\ lock_files[m].held[b] = "WRITE" => o.held[b] = "NONE"
      BY ZenonT(30), <2>3, <2>4, <2>7, <2>9 DEF LockInv, LocksExclude
    <3>3. CASE At(t, "apply", {"LOCK"}) /\ held[b] # o.held[b]
      <4>1. b \in r.range /\ held[b] = r.mode
        BY ZenonT(30), <2>5, <3>3 DEF At
      <4>2. /\ lock_files[m].held[b] # "WRITE"
            /\ ~(lock_files[m].held[b] = "READ" /\ r.mode = "WRITE")
        BY ZenonT(30), <2>7, <2>8, <2>9, <3>3, <4>1 DEF Conflicting
      <4> QED
        BY ZenonT(30), <2>7, <3>1, <4>1, <4>2
    <3>4. CASE held[b] = o.held[b] \/ held[b] = "NONE"
      BY ZenonT(30), <2>7, <3>1, <3>2, <3>4
    <3> QED
      BY ZenonT(30), <2>5, <3>3, <3>4
  <2>10. (\E b \in Byte : n.held[b] # "NONE") => OpenActive(n.open)
    <3>1. CASE At(t, "apply", {"LOCK"})
      BY ZenonT(30), <2>7, <2>8, <3>1
    <3>2. CASE At(t, "apply", {"LOCKU"})
      <4> SUFFICES ASSUME NEW b \in Byte, n.held[b] # "NONE" PROVE OpenActive(n.open)
        BY ZenonT(30)
      <4>1. o.held[b] # "NONE"
        BY ZenonT(30), <2>5, <2>7, <3>2 DEF At
      <4> QED
        BY ZenonT(30), <2>3, <2>4, <2>7, <4>1 DEF LockInv, HeldLocksHaveOpens, LockActive
    <3> QED
      BY ZenonT(30), <2>5, <3>1, <3>2
  <2>11. /\ n.open < next_stateid
         /\ open_files[n.open] # NoState => open_files[n.open].clientid = n.clientid
    BY ZenonT(30), <2>3, <2>4, <2>7 DEF LockInv, Wedded
  <2>12. Fits(k, n)
    BY ZenonT(30), <2>7, <2>9, <2>10, <2>11 DEF Fits
  <2>13. LocksExclude' /\ HeldLocksHaveOpens' /\ \A l \in Id : Wedded(l)'
    BY ZenonT(30), <1>1, <2>5, <2>6, <2>12, PutLock
  <2> QED
    BY ZenonT(30), <1>1, <2>13, TaskEnds DEF LockInv
<1> QED
  BY ZenonT(30), <1>2, <1>3

\* A request resolves its stateid or looks for a conflict: the tables stay.
LEMMA Looks ==
    ASSUME InTurn, TypeOK, FreshIds, LockInv, NEW t \in Task,
           UNCHANGED tables, task' = [task EXCEPT ![t] = task'[t]], Pending(task'[t])
    PROVE  LockInv'
<1>1. \A u \in Task : u = t
  BY ZenonT(30) DEF InTurn
<1>2. /\ open_files' = open_files /\ lock_files' = lock_files /\ next_stateid' = next_stateid
  BY ZenonT(30) DEF tables
<1>3. PICK r : r = task'[t]
  BY ZenonT(30)
<1>4. Pending(r)'
  BY ZenonT(30), <1>2, <1>3 DEF Pending, Conflicting, OpenActive
<1>5. \A u \in Task : Pending(task[u])'
  BY ZenonT(30), <1>1, <1>3, <1>4
<1> QED
  BY ZenonT(30), <1>2, <1>5 DEF LockInv, LocksExclude, HeldLocksHaveOpens, Wedded, LockActive, OpenActive

LEMMA LookSteps ==
    ASSUME InTurn, TypeOK, FreshIds, LockInv, NEW t \in Task,
           \/ StartOpen(t) \/ StartClose(t) \/ StartDowngrade(t) \/ StartLockNew(t)
           \/ StartLock(t) \/ StartUnlock(t) \/ FindLockConflict(t)
    PROVE  LockInv'
<1> SUFFICES Pending(task'[t])
  <2>1. UNCHANGED tables /\ task' = [task EXCEPT ![t] = task'[t]]
    BY DEF StartOpen, StartClose, StartDowngrade, StartLockNew, StartLock, StartUnlock,
           FindLockConflict, Begin, TypeOK
  <2> QED
    BY ZenonT(30), <2>1, Looks
<1>1. \A i \in Id : open_files[i] # NoState \/ lock_files[i] # NoState => i < next_stateid
  BY DEF FreshIds, TypeOK, Id
<1>2. task \in [Task -> TaskState]
  BY ZenonT(30) DEF TypeOK
<1>3. CASE StartOpen(t)
  <2>1. task'[t].pc = "open"
    BY <1>2, <1>3 DEF StartOpen, Begin
  <2> QED
    BY ZenonT(30), <2>1 DEF Pending
<1>4. CASE StartClose(t) \/ StartDowngrade(t) \/ StartUnlock(t)
  <2>1. task'[t].op \notin {"LOCK_NEW", "LOCK"}
    <3>1. CASE StartClose(t)
      BY <1>2, <3>1 DEF StartClose, Begin
    <3>2. CASE StartDowngrade(t)
      BY <1>2, <3>2 DEF StartDowngrade, Begin
    <3>3. CASE StartUnlock(t)
      BY <1>2, <3>3 DEF StartUnlock, Begin
    <3> QED
      BY ZenonT(30), <1>4, <3>1, <3>2, <3>3
  <2> QED
    BY ZenonT(30), <2>1 DEF Pending
<1>5. CASE StartLockNew(t)
  <2>1. PICK c \in clients, w \in Owner, i \in Id, q \in 0..MaxSeq, m \in Mode, range \in Ranges :
          /\ ResolvesToOpen(c, i, q)
          /\ Begin(t, [pc |-> "conflict", op |-> "LOCK_NEW", client |-> c, owner |-> w,
                       object |-> open_files[i].object, id |-> i, mode |-> m, range |-> range])
    BY ZenonT(30), <1>5 DEF StartLockNew
  <2>2. c # NoClient
    BY ZenonT(30), FileStateAssumption DEF TypeOK
  <2>3. open_files[i] # NoState /\ open_files[i].clientid = c
    BY ZenonT(30), <2>1, <2>2 DEF ResolvesToOpen, OpenActive
  <2>4. /\ task'[t].pc = "conflict" /\ task'[t].op = "LOCK_NEW" /\ task'[t].client = c
        /\ task'[t].id = i
    BY ZenonT(30), <2>1 DEF Begin, TypeOK
  <2> QED
    BY ZenonT(30), <1>1, <2>3, <2>4 DEF Pending
<1>6. CASE StartLock(t)
  <2>1. PICK c \in clients, i \in Id, q \in 0..MaxSeq, m \in Mode, range \in Ranges :
          /\ ResolvesToLock(c, i, q)
          /\ Begin(t, [pc |-> "conflict", op |-> "LOCK", client |-> lock_files[i].clientid,
                       owner |-> lock_files[i].owner, object |-> lock_files[i].object,
                       id |-> i, seq |-> q, mode |-> m, range |-> range])
    BY ZenonT(30), <1>6 DEF StartLock
  <2>2. lock_files[i] # NoState /\ OpenActive(lock_files[i].open)
    BY ZenonT(30), <2>1 DEF ResolvesToLock
  <2>3. /\ task'[t].pc = "conflict" /\ task'[t].op = "LOCK" /\ task'[t].id = i
        /\ task'[t].client = lock_files[i].clientid /\ task'[t].owner = lock_files[i].owner
        /\ task'[t].object = lock_files[i].object
    BY ZenonT(30), <2>1 DEF Begin, TypeOK
  <2> QED
    BY ZenonT(30), <1>1, <2>2, <2>3 DEF Pending
<1>7. CASE FindLockConflict(t)
  <2>1. CASE task'[t] = Idle
    <3>1. task'[t].pc = "idle"
      BY <2>1, IdleTask, Zenon
    <3> QED
      BY ZenonT(30), <3>1 DEF Pending
  <2>2. CASE /\ task'[t] = [task[t] EXCEPT !.pc = "apply"]
             /\ \A l \in Id : ~Conflicting(l, task[t])
    <3>1. PICK r \in TaskState : r = task[t] /\ r.pc = "conflict" /\ r.op \in {"LOCK_NEW", "LOCK"}
      BY ZenonT(30), <1>7 DEF FindLockConflict, At, TypeOK
    <3>2. PICK s : s = task'[t]
      BY ZenonT(30)
    <3>3. /\ s.pc = "apply" /\ s.op = r.op /\ s.client = r.client /\ s.owner = r.owner
          /\ s.object = r.object /\ s.id = r.id /\ s.mode = r.mode /\ s.range = r.range
      BY <2>2, <3>1, <3>2 DEF TaskState, Idle
    <3>4. \A l \in Id : ~Conflicting(l, s)
      BY ZenonT(30), <2>2, <3>1, <3>3 DEF Conflicting
    <3>5. Pending(r)
      BY ZenonT(30), <3>1 DEF LockInv
    <3>6. Pending(s)
      BY ZenonT(30), <3>1, <3>3, <3>4, <3>5 DEF Pending
    <3> QED
      BY ZenonT(30), <3>2, <3>6
  <2> QED
    BY ZenonT(30), <1>7, <2>1, <2>2 DEF FindLockConflict, TypeOK
<1> QED
  BY ZenonT(30), <1>3, <1>4, <1>5, <1>6, <1>7

\* What may come between the steps of a request: state of inactive stateids or of a
\* whole client goes, so a lock that stays keeps its open.
LEMMA Interludes ==
    ASSUME TypeOK, FreshIds, LockInv, [Next]_vars, UNCHANGED <<next_stateid, task>>,
           \A l \in Id : lock_files'[l] \in {lock_files[l], NoState},
           \A l, i \in Id : /\ lock_files'[l] # NoState /\ i = lock_files[l].open
                            /\ OpenActive(i)
                            => OpenActive(i)'
    PROVE  LockInv'
<1>1. LocksExclude' /\ HeldLocksHaveOpens' /\ \A l \in Id : Wedded(l)'
  <2>1. ASSUME NEW l \in Id, lock_files'[l] # NoState, LockActive(l),
               OpenActive(lock_files[l].open)
        PROVE  OpenActive(lock_files[l].open)'
    <3>1. lock_files'[l] = lock_files[l]
      BY ZenonT(30), <2>1
    <3>2. PICK i \in Id : i = lock_files[l].open
      BY ZenonT(30), <2>1, LockTypes DEF LockActive
    <3>3. OpenActive(i)'
      BY ZenonT(30), <2>1, <3>2
    <3> QED
      BY ZenonT(30), <3>1, <3>2, <3>3 DEF OpenActive
  <2> QED
    BY ZenonT(30), <2>1, LocksGo
<1>2. ASSUME NEW t \in Task PROVE Pending(task[t])'
  <2>1. PICK r : r = task[t] /\ r = task'[t] /\ Pending(r)
    BY ZenonT(30) DEF LockInv
  <2>2. ASSUME NEW i \in Id, i < next_stateid
        PROVE  OpenIsStable(i) /\ i # next_stateid
    BY SMTT(30), <2>2, OpensStable DEF TypeOK, Id
  <2>3. ASSUME r.pc \in {"conflict", "apply"}, r.op = "LOCK_NEW"
        PROVE  /\ r.id \in Id /\ r.id < next_stateid'
               /\ open_files'[r.id] # NoState => open_files'[r.id].clientid = r.client
    <3>1. PICK i \in Id : i = r.id
      BY ZenonT(30), <2>1, <2>3 DEF Pending
    <3>2. /\ i < next_stateid
          /\ open_files[i] # NoState => open_files[i].clientid = r.client
      BY ZenonT(30), <2>1, <2>3, <3>1 DEF Pending
    <3> QED
      BY ZenonT(30), <2>2, <3>1, <3>2 DEF OpenIsStable
  <2>4. ASSUME r.pc \in {"conflict", "apply"}, r.op = "LOCK"
        PROVE  /\ r.id \in Id /\ r.id < next_stateid'
               /\ lock_files'[r.id] # NoState => /\ lock_files'[r.id].object = r.object
                                                 /\ lock_files'[r.id].clientid = r.client
                                                 /\ lock_files'[r.id].owner = r.owner
                                                 /\ OpenActive(lock_files[r.id].open)'
    <3>1. PICK l \in Id : l = r.id
      BY ZenonT(30), <2>1, <2>4 DEF Pending
    <3>2. /\ l < next_stateid
          /\ lock_files[l] # NoState => /\ lock_files[l].object = r.object
                                        /\ lock_files[l].clientid = r.client
                                        /\ lock_files[l].owner = r.owner
                                        /\ OpenActive(lock_files[l].open)
      BY ZenonT(30), <2>1, <2>4, <3>1 DEF Pending
    <3>3. ASSUME lock_files'[l] # NoState
          PROVE  lock_files'[l] = lock_files[l] /\ OpenActive(lock_files[l].open)'
      <4>1. lock_files'[l] = lock_files[l]
        BY ZenonT(30), <3>3
      <4>2. PICK i \in Id : i = lock_files[l].open
        BY ZenonT(30), <3>3, <4>1, LockTypes
      <4>3. OpenActive(i)'
        BY ZenonT(30), <3>2, <3>3, <4>1, <4>2
      <4> QED
        BY ZenonT(30), <4>1, <4>2, <4>3 DEF OpenActive
    <3> QED
      BY ZenonT(30), <3>1, <3>2, <3>3
  <2>5. \A l \in Id : Conflicting(l, r)' => Conflicting(l, r)
    BY ZenonT(30) DEF Conflicting
  <2>6. Pending(r)'
    BY ZenonT(30), <2>1, <2>3, <2>4, <2>5 DEF Pending
  <2> QED
    BY ZenonT(30), <2>1, <2>6
<1> QED
  BY ZenonT(30), <1>1, <1>2 DEF LockInv

LEMMA InterludeSteps ==
    ASSUME TypeOK, FreshIds, LockInv,
           \/ \E i \in Id, q \in 0..MaxSeq : ConfirmOpenState(i, q) \/ FreeStateid(i, q)
           \/ \E c \in Client : RevokeClientState(c)
           \/ UNCHANGED vars
    PROVE  LockInv'
<1>1. [Next]_vars /\ UNCHANGED <<next_stateid, task>>
  BY ZenonT(30) DEF Next, vars, tables, ConfirmOpenState, FreeStateid, RevokeClientState
<1> SUFFICES /\ \A l \in Id : lock_files'[l] \in {lock_files[l], NoState}
             /\ \A l, i \in Id : /\ lock_files'[l] # NoState /\ i = lock_files[l].open
                                 /\ OpenActive(i)
                                 => OpenActive(i)'
  BY ZenonT(30), <1>1, Interludes
<1>2. CASE UNCHANGED vars
  BY ZenonT(30), <1>2 DEF vars, tables, OpenActive
<1>3. ASSUME NEW i \in Id, NEW q \in 0..MaxSeq, ConfirmOpenState(i, q)
      PROVE  UNCHANGED lock_files /\ \A j \in Id : OpenActive(j) => OpenActive(j)'
  <2>1. open_files[i] \in OpenFileState /\ OpenActive(i) /\ UNCHANGED lock_files
    BY ZenonT(30), <1>3 DEF ConfirmOpenState, OpenActive, TypeOK
  <2>2. /\ open_files'[i] = [open_files[i] EXCEPT !.seq = open_files[i].seq + 1]
        /\ \A j \in Id \ {i} : open_files'[j] = open_files[j]
    BY ZenonT(30), <1>3 DEF ConfirmOpenState, TypeOK
  <2>3. open_files'[i].active
    BY ZenonT(30), <2>1, <2>2 DEF OpenFileState, OpenActive
  <2>4. open_files[i].seq \in 1..MaxSeq /\ open_files[i].seq < MaxSeq
    <3>1. open_files[i].seq \in 1..MaxSeq
      BY ZenonT(30), <2>1 DEF OpenFileState
    <3>2. open_files[i].seq < MaxSeq
      BY ZenonT(30), <1>3 DEF ConfirmOpenState
    <3> QED
      BY ZenonT(30), <3>1, <3>2
  <2>5. open_files[i].seq + 1 \in 1..MaxSeq
    BY <2>4, FileStateAssumption
  <2>6. open_files'[i] \in OpenFileState
    BY ZenonT(30), <2>1, <2>2, <2>5 DEF OpenFileState
  <2> QED
    BY ZenonT(30), <2>1, <2>2, <2>3, <2>6, FileStateAssumption DEF OpenActive
<1>4. ASSUME NEW i \in Id, NEW q \in 0..MaxSeq, FreeStateid(i, q)
      PROVE  /\ \A l \in Id : lock_files'[l] \in {lock_files[l], NoState}
             /\ \A j \in Id : OpenActive(j) => OpenActive(j)'
  BY ZenonT(30), <1>4 DEF FreeStateid, OpenActive, TypeOK
<1>5. ASSUME NEW c \in Client, RevokeClientState(c)
      PROVE  /\ \A l \in Id : lock_files'[l] \in {lock_files[l], NoState}
             /\ \A l, i \in Id : /\ lock_files'[l] # NoState /\ i = lock_files[l].open
                                 /\ OpenActive(i)
                                 => OpenActive(i)'
  <2>1. \A l \in Id : lock_files'[l] \in {lock_files[l], NoState}
    BY ZenonT(30), <1>5 DEF RevokeClientState
  <2>2. ASSUME NEW l \in Id, NEW i \in Id, lock_files'[l] # NoState, i = lock_files[l].open,
               OpenActive(i)
        PROVE  OpenActive(i)'
    <3>1. lock_files[l] # NoState /\ lock_files[l].clientid # c
      BY ZenonT(30), <1>5, <2>2 DEF RevokeClientState
    <3>2. open_files[i].clientid = lock_files[l].clientid
      BY ZenonT(30), <2>2, <3>1 DEF LockInv, Wedded, OpenActive
    <3> QED
      BY ZenonT(30), <1>5, <2>2, <3>1, <3>2 DEF RevokeClientState, OpenActive
  <2> QED
    BY ZenonT(30), <2>1, <2>2
<1> QED
  BY ZenonT(30), <1>2, <1>3, <1>4, <1>5

LEMMA LockStep ==
    ASSUME InTurn, TypeOK, FreshIds, LockInv, [Next]_vars
    PROVE  LockInv'
BY ZenonT(30), OpensMove, NewLock, OtherRanges, LookSteps, InterludeSteps DEF Next, Serve

LEMMA LocksInTurn ==
    ASSUME InTurn
    PROVE  Spec => []LockInv
<1>1. ASSUME Init PROVE LockInv
  <2>1. \A l \in Id : lock_files[l] = NoState
    BY ZenonT(30), <1>1 DEF Init
  <2>2. \A l \in Id : ~LockActive(l) /\ Wedded(l)
    BY ZenonT(30), <2>1 DEF LockActive, Wedded
  <2>3. \A t \in Task : task[t].pc = "idle"
    BY ZenonT(30), <1>1 DEF Init, Idle
  <2>4. \A t \in Task : Pending(task[t])
    BY ZenonT(30), <2>3 DEF Pending
  <2> QED
    BY ZenonT(30), <2>1, <2>2, <2>4 DEF LockInv, LocksExclude, HeldLocksHaveOpens
<1>2. Init => FreshIds
  BY ZenonT(30) DEF Init, FreshIds
<1>3. TypeOK /\ FreshIds /\ LockInv /\ [Next]_vars => LockInv'
  BY ZenonT(30), LockStep
<1>4. TypeOK /\ FreshIds /\ [Next]_vars => FreshIds'
  BY ZenonT(30), FreshStep
<1> QED
  BY <1>1, <1>2, <1>3, <1>4, TypeCorrect, PTL DEF Spec

\* find_lock_conflict, then create_lock_state or update_lock_state: as long as no two
\* requests that use open or lock state overlap, the lock recorded excludes every other
\* owner's on its bytes, even if OPEN_CONFIRM, FREE_STATEID or a revocation comes between
\* the guards.  (Two LOCKs at once: filestate_lock_race.cfg.)
THEOREM LocksExcludeInTurn ==
    ASSUME InTurn
    PROVE  Spec => []LocksExclude
<1>1. LockInv => LocksExclude
  BY ZenonT(30) DEF LockInv
<1> QED
  BY <1>1, LocksInTurn, PTL

\* close_state's look at the locks suffices under the same condition: a held lock always
\* has its open, so LOCKU can release it.  (A CLOSE beside a LOCK: filestate_lock_close.cfg.)
THEOREM LocksKeepOpensInTurn ==
    ASSUME InTurn
    PROVE  Spec => []HeldLocksHaveOpens
<1>1. LockInv => HeldLocksHaveOpens
  BY ZenonT(30) DEF LockInv
<1> QED
  BY <1>1, LocksInTurn, PTL

-----------------------------------------------------------------------------
(* I/O and notifications.                                                   *)

\* An I/O or a notification is no step of the open and lock tables.
LEMMA IoStepIsStep ==
    ASSUME [IoNext]_ioVars
    PROVE  [Next]_vars
<1>1. ASSUME NEW k \in IoTask,
             \/ StartSpecialIo(k) \/ StartOpenIo(k) \/ StartLockIo(k)
             \/ CheckShareDeny(k) \/ CheckIoLock(k)
      PROVE  UNCHANGED vars
  BY ZenonT(30), <1>1 DEF StartSpecialIo, StartOpenIo, StartLockIo, Admit, CheckShareDeny, CheckIoLock
<1>2. ASSUME NEW t \in Task, ServeState(t) \/ Notify(t)
      PROVE  [Next]_vars
  BY ZenonT(30), <1>2 DEF ServeState, Notify, Next
<1>3. ASSUME ServeOthers
      PROVE  [Next]_vars
  BY ZenonT(30), <1>3 DEF ServeOthers, Next
<1>4. CASE UNCHANGED ioVars
  BY ZenonT(30), <1>4 DEF ioVars
<1> QED BY ZenonT(30), <1>1, <1>2, <1>3, <1>4 DEF IoNext

\* Serving I/O and notifying the backend adds no behaviour of the open and lock
\* tables: all that is proved of FileState holds beside them.
THEOREM IoRefinesFileState == IoSpec => Spec
<1>1. IoInit => Init
  BY ZenonT(30) DEF IoInit
<1> QED BY <1>1, IoStepIsStep, PTL DEF IoSpec, Spec

-----------------------------------------------------------------------------
\* create_open_state and create_lock_state draw their ids from one counter.
IdsAreOne == \A i \in Id : open_files[i] = NoState \/ lock_files[i] = NoState

\* A step that adds an open adds no lock.
LEMMA OneTableAtATime ==
    ASSUME TypeOK, [Next]_vars, open_files' # open_files, lock_files' # lock_files
    PROVE  \A i \in Id : /\ open_files'[i] \in {open_files[i], NoState}
                         /\ lock_files'[i] \in {lock_files[i], NoState}
<1>1. ASSUME NEW t \in Task, Serve(t)
      PROVE  FALSE
  BY ZenonT(30), <1>1 DEF Serve, StartOpen, CreateOpenState, StartClose, CloseState, StartDowngrade,
              OpenDowngrade, StartLockNew, StartLock, FindLockConflict, CreateLockState,
              UpdateLockState, StartUnlock, UnlockState, tables
<1>2. ASSUME NEW i \in Id, NEW q \in 0..MaxSeq, ConfirmOpenState(i, q) \/ FreeStateid(i, q)
      PROVE  FALSE
  BY ZenonT(30), <1>2 DEF ConfirmOpenState, FreeStateid
<1>3. ASSUME NEW c \in Client, RevokeClientState(c)
      PROVE  \A i \in Id : /\ open_files'[i] \in {open_files[i], NoState}
                           /\ lock_files'[i] \in {lock_files[i], NoState}
  BY ZenonT(30), <1>3 DEF RevokeClientState, TypeOK
<1>4. CASE UNCHANGED vars
  BY ZenonT(30), <1>4 DEF vars, tables
<1> QED BY ZenonT(30), <1>1, <1>2, <1>3, <1>4 DEF Next

LEMMA IdsStep ==
    ASSUME TypeOK, FreshIds, IdsAreOne, [Next]_vars
    PROVE  IdsAreOne'
<1> SUFFICES ASSUME NEW i \in Id, open_files'[i] # NoState, lock_files'[i] # NoState
             PROVE  FALSE
  BY ZenonT(30) DEF IdsAreOne
<1>1. OpenIsStable(i) /\ LockIsStable(i)
  BY ZenonT(30), OpensStable, LocksStable
<1>2. next_stateid \in Nat /\ i \in Nat
  BY DEF TypeOK, Id
<1>3. CASE i >= next_stateid
  <2>1. open_files[i] = NoState /\ lock_files[i] = NoState
    BY ZenonT(30), <1>3 DEF FreshIds
  <2>2. open_files' # open_files /\ lock_files' # lock_files
    BY ZenonT(30), <2>1
  <2> QED BY ZenonT(30), <2>1, <2>2, OneTableAtATime
<1>4. CASE i < next_stateid
  <2>1. i # next_stateid
    BY <1>2, <1>4
  <2> QED BY ZenonT(30), <1>1, <2>1 DEF OpenIsStable, LockIsStable, IdsAreOne
<1> QED BY <1>2, <1>3, <1>4

-----------------------------------------------------------------------------
\* What is in the way of an I/O and has been so all along is in the way now; once
\* the share reservations are looked at, only locks are left.
StillInTheWay(r) ==
    r.pc \in {"deny", "locks"} =>
      /\ r.inway \subseteq InTheWay(open_files, lock_files, r)
      /\ r.pc = "locks" => \A i \in r.inway : lock_files[i] # NoState

IoInv ==
    /\ io \in [IoTask -> IoState]
    /\ \A k \in IoTask : StillInTheWay(io[k])
    /\ crossed = {}

\* An I/O that begins takes along all that is in its way.
LEMMA AdmitStep ==
    ASSUME TypeOK, IoInv, NEW k \in IoTask, NEW mode \in Mode, NEW object \in Object,
           NEW range \in SUBSET Byte, NEW open \in Id \cup {NoId}, NEW lock \in Id \cup {NoId},
           NEW owner \in (Client \X Owner) \cup {NoClient},
           Admit(k, mode, object, range, open, lock, owner)
    PROVE  IoInv'
<1> DEFINE request(w) == [pc |-> "deny", mode |-> mode, object |-> object, range |-> range,
                          open |-> open, lock |-> lock, owner |-> owner, inway |-> w]
<1>1. PICK w : w = InTheWay(open_files, lock_files, request({}))
  BY ZenonT(30)
<1>2. PICK s : s = request(w)
  BY ZenonT(30)
<1>3. io' = [io EXCEPT ![k] = s] /\ UNCHANGED <<open_files, lock_files, crossed>>
  BY ZenonT(30), <1>1, <1>2 DEF Admit, vars, tables
<1>4. w \subseteq Id
  BY ZenonT(30), <1>1 DEF InTheWay
<1>5. s \in IoState
  BY ZenonT(30), <1>2, <1>4 DEF IoState, IoRequest
<1>6. InTheWay(open_files, lock_files, s) = w
  BY ZenonT(30), <1>1, <1>2 DEF InTheWay
<1>7. s.pc = "deny" /\ s.inway = w
  BY ZenonT(30), <1>2
<1> QED BY ZenonT(30), <1>3, <1>5, <1>6, <1>7 DEF IoInv, StillInTheWay

LEMMA StartStep ==
    ASSUME TypeOK, IoInv, NEW k \in IoTask,
           StartSpecialIo(k) \/ StartOpenIo(k) \/ StartLockIo(k)
    PROVE  IoInv'
<1> USE FileStateAssumption, FileIoAssumption
<1>1. CASE StartSpecialIo(k)
  <2>1. PICK m \in IoModes, o \in Object, range \in Ranges :
           Admit(k, m, o, range, NoId, NoId, NoClient)
    BY ZenonT(30), <1>1 DEF StartSpecialIo
  <2>2. m \in Mode /\ range \in SUBSET Byte
    BY ZenonT(30)
  <2> QED BY ZenonT(30), <2>1, <2>2, AdmitStep
<1>2. CASE StartOpenIo(k)
  <2>1. PICK i \in Id, m \in IoModes, range \in Ranges :
           /\ ResolvesToOpen(NoClient, i, 0)
           /\ Admit(k, m, open_files[i].object, range, i, NoId, NoClient)
    BY ZenonT(30), <1>2 DEF StartOpenIo
  <2>2. m \in Mode /\ range \in SUBSET Byte
    BY ZenonT(30)
  <2>3. open_files[i].object \in Object
    BY ZenonT(30), <2>1 DEF ResolvesToOpen, OpenActive, TypeOK, OpenFileState
  <2> QED BY ZenonT(30), <2>1, <2>2, <2>3, AdmitStep
<1>3. CASE StartLockIo(k)
  <2>1. PICK i \in Id, m \in IoModes, range \in Ranges :
           /\ ResolvesToLock(NoClient, i, 0)
           /\ Admit(k, m, lock_files[i].object, range, lock_files[i].open, i,
                    <<lock_files[i].clientid, lock_files[i].owner>>)
    BY ZenonT(30), <1>3 DEF StartLockIo
  <2>2. m \in Mode /\ range \in SUBSET Byte
    BY ZenonT(30)
  <2>3. /\ lock_files[i].object \in Object /\ lock_files[i].open \in Id
        /\ <<lock_files[i].clientid, lock_files[i].owner>> \in Client \X Owner
    <3>1. lock_files[i] # NoState
      BY <2>1, Zenon DEF ResolvesToLock
    <3> QED BY ZenonT(30), <3>1, LockOwners
  <2> QED BY ZenonT(30), <2>1, <2>2, <2>3, AdmitStep
<1> QED BY ZenonT(30), <1>1, <1>2, <1>3

\* has_conflicting_share_deny finds every open in the way.
LEMMA DenyFinds ==
    ASSUME IdsAreOne, NEW r, NEW i \in InTheWay(open_files, lock_files, r), OpenActive(i)
    PROVE  has_conflicting_share_deny(r)
<1>1. i \in Id /\ lock_files[i] = NoState
  BY ZenonT(30) DEF InTheWay, IdsAreOne, OpenActive
<1> QED BY ZenonT(30), <1>1 DEF InTheWay, has_conflicting_share_deny

\* has_conflicting_io_lock finds every lock in the way.
LEMMA LockFinds ==
    ASSUME IdsAreOne, NEW r, NEW i \in InTheWay(open_files, lock_files, r),
           lock_files[i] # NoState
    PROVE  has_conflicting_io_lock(r)
<1>1. i \in Id /\ open_files[i] = NoState
  BY ZenonT(30) DEF InTheWay, IdsAreOne
<1>2. PICK b \in r.range : {lock_files[i].held[b], r.mode} \in {{"WRITE"}, Mode}
  BY ZenonT(30), <1>1 DEF InTheWay
<1>3. \/ lock_files[i].held[b] = "WRITE"
      \/ lock_files[i].held[b] = "READ" /\ r.mode = "WRITE"
  BY ZenonT(30), <1>2 DEF Mode
<1> QED BY ZenonT(30), <1>1, <1>3 DEF InTheWay, has_conflicting_io_lock

LEMMA CheckShareDenyStep ==
    ASSUME TypeOK, IdsAreOne, IoInv, NEW k \in IoTask, CheckShareDeny(k)
    PROVE  IoInv'
<1> DEFINE r == io[k]
<1>1. r \in IoRequest /\ r.pc = "deny" /\ UNCHANGED <<open_files, lock_files>>
  BY DEF IoInv, CheckShareDeny, IoState, IoIdle, vars, tables
<1>2. r.inway \subseteq InTheWay(open_files, lock_files, r)
  BY ZenonT(30), <1>1 DEF IoInv, StillInTheWay
<1>3. CASE has_conflicting_share_deny(r)
  <2>1. io' = [io EXCEPT ![k] = IoIdle] /\ crossed' = {}
    BY ZenonT(30), <1>3 DEF CheckShareDeny, IoInv
  <2> QED BY ZenonT(30), <1>1, <2>1 DEF IoInv, StillInTheWay, IoState, IoIdle
<1>4. CASE ~has_conflicting_share_deny(r)
  <2>1. {i \in r.inway : OpenActive(i)} = {}
    BY ZenonT(30), <1>2, <1>4, DenyFinds
  <2>2. PICK s : s = [r EXCEPT !.pc = "locks", !.open = NoId, !.inway = r.inway]
    BY ZenonT(30)
  <2>3. io' = [io EXCEPT ![k] = s] /\ crossed' = {}
    BY ZenonT(30), <1>4, <2>1, <2>2 DEF CheckShareDeny, IoInv
  <2>4. /\ s \in IoRequest /\ s.pc = "locks" /\ s.inway = r.inway
        /\ s.object = r.object /\ s.mode = r.mode /\ s.range = r.range
        /\ s.lock = r.lock /\ s.owner = r.owner
    BY ZenonT(30), <1>1, <2>2 DEF IoRequest
  <2>5. \A i \in r.inway : lock_files[i] # NoState /\ ~OpenActive(i)
    BY ZenonT(30), <1>2, <2>1 DEF InTheWay, OpenActive
  <2>6. s.inway \subseteq InTheWay(open_files, lock_files, s)
    BY ZenonT(30), <1>2, <2>4, <2>5 DEF InTheWay, OpenActive
  <2>7. StillInTheWay(s)'
    BY ZenonT(30), <1>1, <2>4, <2>5, <2>6 DEF StillInTheWay
  <2> QED BY ZenonT(30), <1>1, <2>3, <2>4, <2>7 DEF IoInv, StillInTheWay, IoState
<1> QED BY ZenonT(30), <1>3, <1>4

LEMMA CheckIoLockStep ==
    ASSUME TypeOK, IdsAreOne, IoInv, NEW k \in IoTask, CheckIoLock(k)
    PROVE  IoInv'
<1>1. io[k].pc = "locks" /\ UNCHANGED <<open_files, lock_files>> /\ io' = [io EXCEPT ![k] = IoIdle]
  BY ZenonT(30) DEF CheckIoLock, vars, tables
<1>2. /\ io[k].inway \subseteq InTheWay(open_files, lock_files, io[k])
      /\ \A i \in io[k].inway : lock_files[i] # NoState
  BY ZenonT(30), <1>1 DEF IoInv, StillInTheWay
<1>3. ~has_conflicting_io_lock(io[k]) => io[k].inway = {}
  BY ZenonT(30), <1>2, LockFinds
<1>4. crossed' = {}
  BY ZenonT(30), <1>3 DEF CheckIoLock, IoInv
<1> QED BY ZenonT(30), <1>1, <1>4 DEF IoInv, StillInTheWay, IoState, IoIdle

\* A step of the tables only takes out of an I/O's way.
LEMMA PersistingStep ==
    ASSUME TypeOK, FreshIds, IdsAreOne, IoInv, [Next]_vars, Persisting
    PROVE  IoInv'
<1>1. ASSUME NEW k \in IoTask
      PROVE  io'[k] \in IoState /\ StillInTheWay(io[k])'
  <2>1. CASE io[k] = IoIdle
    BY ZenonT(30), <1>1, <2>1 DEF Persisting, StillInTheWay, IoState, IoIdle
  <2>2. CASE io[k] # IoIdle
    <3> DEFINE way == InTheWay(open_files', lock_files', io[k])
    <3>1. io[k] \in IoRequest /\ io[k].pc \in {"deny", "locks"}
      BY ZenonT(30), <1>1, <2>2 DEF IoInv, IoState, IoRequest
    <3>2. PICK s : s = [io[k] EXCEPT !.inway = io[k].inway \cap way]
      BY ZenonT(30)
    <3>3. io'[k] = s
      BY ZenonT(30), <1>1, <2>2, <3>2 DEF Persisting
    <3>4. /\ s \in IoRequest /\ s.pc = io[k].pc /\ s.inway = io[k].inway \cap way
          /\ s.object = io[k].object /\ s.mode = io[k].mode /\ s.range = io[k].range
          /\ s.lock = io[k].lock /\ s.owner = io[k].owner /\ s.open = io[k].open
      BY ZenonT(30), <3>1, <3>2 DEF IoRequest
    <3>5. way = InTheWay(open_files', lock_files', s)
      BY ZenonT(30), <3>4 DEF InTheWay
    <3>6. ASSUME s.pc = "locks", NEW i \in s.inway
          PROVE  lock_files'[i] # NoState
      <4>1. i \in Id /\ lock_files[i] # NoState /\ open_files[i] = NoState
        <5>1. i \in io[k].inway /\ io[k].pc = "locks"
          BY ZenonT(30), <3>4, <3>6
        <5>2. i \in Id /\ lock_files[i] # NoState
          BY ZenonT(30), <1>1, <3>1, <5>1 DEF IoInv, StillInTheWay, IoRequest
        <5> QED BY ZenonT(30), <5>2 DEF IdsAreOne
      <4>2. open_files'[i] = NoState
        <5>1. i # next_stateid
          BY <4>1 DEF FreshIds, TypeOK, Id
        <5>2. OpenIsStable(i)
          BY ZenonT(30), <4>1, OpensStable
        <5> QED BY ZenonT(30), <4>1, <5>1, <5>2 DEF OpenIsStable
      <4> QED BY ZenonT(30), <3>4, <3>6, <4>2 DEF InTheWay
    <3> QED BY ZenonT(30), <3>3, <3>4, <3>5, <3>6 DEF StillInTheWay, IoState
  <2> QED BY ZenonT(30), <2>1, <2>2
<1>2. io' \in [IoTask -> IoState] /\ crossed' = {}
  BY ZenonT(30), <1>1 DEF Persisting, IoInv
<1> QED BY ZenonT(30), <1>1, <1>2 DEF IoInv

LEMMA IoInvStep ==
    ASSUME TypeOK, FreshIds, IdsAreOne, IoInv, [IoNext]_ioVars
    PROVE  IoInv'
<1>1. ASSUME Persisting
      PROVE  IoInv'
  BY ZenonT(30), <1>1, IoStepIsStep, PersistingStep
<1>2. ASSUME NEW t \in Task, Notify(t)
      PROVE  IoInv'
  BY ZenonT(30), <1>2 DEF Notify, IoInv, StillInTheWay, vars, tables
<1>3. CASE UNCHANGED ioVars
  BY ZenonT(30), <1>3 DEF ioVars, IoInv, StillInTheWay, vars, tables
<1> QED BY ZenonT(30), <1>1, <1>2, <1>3, StartStep, CheckShareDenyStep, CheckIoLockStep
        DEF IoNext, ServeState, ServeOthers

\* No READ, WRITE or truncation gets past a share reservation or a byte-range lock
\* that was there when its stateid was resolved and is still there when the check
\* is made (NothingIsCrossed), for any number of requests: OPEN, CLOSE, LOCK and
\* LOCKU may race with it and with each other.
THEOREM MandatoryLocksHold == IoSpec => []NothingIsCrossed
<1>1. Init => FreshIds /\ IdsAreOne
  BY ZenonT(30) DEF Init, FreshIds, IdsAreOne
<1>2. IoInit => IoInv
  BY DEF IoInit, IoInv, StillInTheWay, IoState, IoIdle
<1>3. IoInv => NothingIsCrossed
  BY ZenonT(30) DEF IoInv, NothingIsCrossed
<1>4. Spec => [](TypeOK /\ FreshIds /\ IdsAreOne)
  BY <1>1, FreshStep, IdsStep, TypeCorrect, PTL DEF Spec
<1> QED BY <1>2, <1>3, <1>4, IoInvStep, IoRefinesFileState, PTL DEF IoSpec

-----------------------------------------------------------------------------
(* Notifications of the backend.                                            *)

HookState == {NoHook} \cup [call : {"on_open", "on_close"}, object : Object]

HookTypes == hook \in [Task -> HookState] /\ base \subseteq Object

\* What a request owes the backend names a file.
LEMMA OwedType ==
    ASSUME TypeOK, NEW t \in Task, Serve(t)
    PROVE  Owed(t) \in HookState
<1>1. CASE task[t].pc = "open"
  <2>1. task[t].object \in Object
    <3>1. task[t] \in TaskState
      BY ZenonT(30) DEF TypeOK
    <3> QED
      BY <1>1, <3>1 DEF TaskState, Idle
  <2> QED
    BY ZenonT(30), <1>1, <2>1 DEF Owed, HookState
<1>2. CASE /\ task[t].pc = "apply" /\ task[t].op = "CLOSE" /\ open_files' # open_files
           /\ "WRITE" \in open_files[task[t].id].access
           /\ Writers(open_files', open_files[task[t].id].object) = {}
  <2>1. CloseState(t)
    BY ZenonT(30), <1>2 DEF Serve, StartOpen, CreateOpenState, StartClose, StartDowngrade, OpenDowngrade,
                StartLockNew, StartLock, FindLockConflict, CreateLockState, UpdateLockState,
                StartUnlock, UnlockState, tables, At
  <2>2. PICK k \in Id : k = task[t].id
    BY ZenonT(30), <2>1, TaskFields DEF CloseState
  <2>3. open_files[k].object \in Object
    BY ZenonT(30), <1>2, <2>1, <2>2 DEF CloseState, OpenActive, TypeOK, OpenFileState
  <2> QED
    BY ZenonT(30), <1>2, <2>2, <2>3 DEF Owed, HookState
<1>3. CASE /\ task[t].pc # "open"
           /\ ~(/\ task[t].pc = "apply" /\ task[t].op = "CLOSE" /\ open_files' # open_files
                /\ "WRITE" \in open_files[task[t].id].access
                /\ Writers(open_files', open_files[task[t].id].object) = {})
  BY ZenonT(30), <1>3 DEF Owed, HookState
<1> QED
  BY ZenonT(30), <1>1, <1>2, <1>3

LEMMA HookTypesStep ==
    ASSUME TypeOK, HookTypes, [IoNext]_ioVars
    PROVE  HookTypes'
<1>1. ASSUME NEW t \in Task, ServeState(t)
      PROVE  HookTypes'
  BY ZenonT(30), <1>1, OwedType DEF ServeState, HookTypes
<1>2. ASSUME NEW t \in Task, Notify(t)
      PROVE  HookTypes'
  <2>1. hook[t].object \in Object
    BY ZenonT(30), <1>2 DEF Notify, HookTypes, HookState
  <2> QED
    BY ZenonT(30), <1>2, <2>1 DEF Notify, HookTypes, HookState
<1>3. ASSUME UNCHANGED <<hook, base>>
      PROVE  HookTypes'
  BY ZenonT(30), <1>3 DEF HookTypes
<1>4. ASSUME NEW k \in IoTask,
             \/ StartSpecialIo(k) \/ StartOpenIo(k) \/ StartLockIo(k)
             \/ CheckShareDeny(k) \/ CheckIoLock(k)
      PROVE  UNCHANGED <<hook, base>>
  BY ZenonT(30), <1>4 DEF StartSpecialIo, StartOpenIo, StartLockIo, Admit, CheckShareDeny, CheckIoLock
<1>5. CASE UNCHANGED ioVars
  BY ZenonT(30), <1>3, <1>5 DEF ioVars
<1>6. CASE ServeOthers
  BY ZenonT(30), <1>3, <1>6 DEF ServeOthers
<1> QED
  BY ZenonT(30), <1>1, <1>2, <1>3, <1>4, <1>5, <1>6 DEF IoNext

\* A step other than a successful OPEN adds no writer.
LEMMA WritersNarrow ==
    ASSUME \A i \in Id : Narrowed(i), NEW o
    PROVE  Writers(open_files', o) \subseteq Writers(open_files, o)
BY ZenonT(30) DEF Writers, Narrowed, OpenActive

\* An OPEN makes writers of one file only, and only if it asked to write.
LEMMA WritersGrow ==
    ASSUME TypeOK, NEW t \in Task, NewOpen(t) \/ \E i \in OwnOpens(task[t]) : Upgrade(t, i),
           NEW o, NEW w \in Writers(open_files', o), w \notin Writers(open_files, o)
    PROVE  o = task[t].object /\ "WRITE" \in task[t].access
<1>1. w \in Id
  BY ZenonT(30) DEF Writers
<1>2. CASE NewOpen(t)
  <2>1. PICK k \in Id : k = next_stateid
    BY ZenonT(30), <1>2, NewOpenEffect
  <2>2. CASE w = k
    BY ZenonT(30), <1>2, <2>1, <2>2, NewOpenEffect DEF Writers
  <2>3. CASE w # k
    BY ZenonT(30), <1>1, <1>2, <2>1, <2>3, NewOpenEffect DEF Writers
  <2> QED
    BY ZenonT(30), <2>2, <2>3
<1>3. ASSUME NEW i \in OwnOpens(task[t]), Upgrade(t, i)
      PROVE  o = task[t].object /\ "WRITE" \in task[t].access
  <2>1. CASE w = i
    BY <1>3, <2>1, UpgradeEffect DEF Writers, OpenActive
  <2>2. CASE w # i
    BY <1>1, <1>3, <2>2, UpgradeEffect DEF Writers
  <2> QED
    BY ZenonT(30), <2>1, <2>2
<1> QED
  BY ZenonT(30), <1>2, <1>3

-----------------------------------------------------------------------------
\* A close that is still to be notified left no writer, and nobody has opened since:
\* the request that could is not over.
BaseInv ==
    /\ WritersHaveBase
    /\ \A t \in Task : hook[t] # NoHook /\ hook[t].call = "on_close"
                         => Writers(open_files, hook[t].object) = {}

\* Steps that notify nobody and add no writer.
LEMMA BaseKept ==
    ASSUME BaseInv, UNCHANGED <<hook, base>>,
           \A o : Writers(open_files', o) \subseteq Writers(open_files, o)
    PROVE  BaseInv'
<1>1. ASSUME NEW o \in Object, Writers(open_files', o) # {}
      PROVE  o \in base \/ \E t \in Task : hook[t] # NoHook /\ hook[t].object = o
  BY ZenonT(30), <1>1 DEF BaseInv, WritersHaveBase
<1>2. ASSUME NEW t \in Task, hook[t] # NoHook, hook[t].call = "on_close"
      PROVE  Writers(open_files', hook[t].object) = {}
  BY ZenonT(30), <1>2 DEF BaseInv
<1> QED
  BY ZenonT(30), <1>1, <1>2 DEF BaseInv, WritersHaveBase

LEMMA NotifyStep ==
    ASSUME InTurn, HookTypes, BaseInv, NEW t \in Task, Notify(t)
    PROVE  BaseInv'
<1>1. PICK h \in [call : {"on_open", "on_close"}, object : Object] : h = hook[t]
  BY ZenonT(30) DEF Notify, HookTypes, HookState
<1>2. /\ open_files' = open_files
      /\ \A u \in Task : hook'[u] = NoHook
      /\ base' = IF h.call = "on_open" THEN base \cup {h.object} ELSE base \ {h.object}
  BY ZenonT(30), <1>1 DEF Notify, InTurn, HookTypes, vars, tables
<1>3. ASSUME NEW o \in Object, Writers(open_files, o) # {}
      PROVE  o \in base'
  <2>1. o \in base \/ h.object = o
    BY ZenonT(30), <1>1, <1>3 DEF BaseInv, WritersHaveBase, InTurn
  <2>2. h.call = "on_close" => h.object # o
    BY ZenonT(30), <1>1, <1>3 DEF BaseInv, Notify
  <2> QED
    BY ZenonT(30), <1>1, <1>2, <2>1, <2>2
<1> QED
  BY ZenonT(30), <1>2, <1>3 DEF BaseInv, WritersHaveBase

LEMMA ServeStateStep ==
    ASSUME InTurn, TypeOK, HookTypes, BaseInv, NEW t \in Task, ServeState(t)
    PROVE  BaseInv'
<1>1. [Next]_vars /\ base' = base /\ hook'[t] = Owed(t)
  BY ZenonT(30) DEF ServeState, Next, HookTypes
<1>2. \A u \in Task : u = t
  BY ZenonT(30) DEF InTurn
<1>3. ASSUME NEW o \in Object, Writers(open_files, o) # {}
      PROVE  o \in base
  BY ZenonT(30), <1>2, <1>3 DEF BaseInv, WritersHaveBase, ServeState
<1>4. ASSUME NEW o \in Object, Writers(open_files', o) # {}, Writers(open_files, o) = {}
      PROVE  Owed(t) = [call |-> "on_open", object |-> o]
  <2>1. PICK w : w \in Writers(open_files', o) /\ w \notin Writers(open_files, o)
    BY ZenonT(30), <1>4
  <2>2. ~ \A i \in Id : Narrowed(i)
    BY ZenonT(30), <2>1, WritersNarrow
  <2>3. NewOpen(t) \/ \E i \in OwnOpens(task[t]) : Upgrade(t, i)
    BY ZenonT(30), <1>1, <1>2, <2>2, OpenStep
  <2>4. o = task[t].object /\ "WRITE" \in task[t].access
    BY ZenonT(30), <2>1, <2>3, WritersGrow
  <2>5. task[t].pc = "open" /\ open_files' # open_files
    BY ZenonT(30), <1>4, <2>3 DEF NewOpen, Upgrade, At
  <2> QED
    BY ZenonT(30), <2>4, <2>5 DEF Owed
<1>5. WritersHaveBase'
  <2> SUFFICES ASSUME NEW o \in Object, Writers(open_files', o) # {}
               PROVE  o \in base' \/ \E u \in Task : hook'[u] # NoHook /\ hook'[u].object = o
    BY ZenonT(30) DEF WritersHaveBase
  <2>1. CASE Writers(open_files, o) # {}
    BY ZenonT(30), <1>1, <1>3, <2>1
  <2>2. CASE Writers(open_files, o) = {}
    <3>1. hook'[t] = [call |-> "on_open", object |-> o]
      BY ZenonT(30), <1>1, <1>4, <2>2
    <3>2. hook'[t] # NoHook
      BY <3>1 DEF NoHook
    <3> QED
      BY <3>1, <3>2
  <2> QED
    BY ZenonT(30), <2>1, <2>2
<1>6. ASSUME NEW u \in Task, hook'[u] # NoHook, hook'[u].call = "on_close"
      PROVE  Writers(open_files', hook'[u].object) = {}
  <2>1. u = t /\ Owed(t) # NoHook /\ Owed(t).call = "on_close"
    BY ZenonT(30), <1>1, <1>2, <1>6
  <2>2. Writers(open_files', Owed(t).object) = {}
    BY ZenonT(30), <2>1 DEF Owed, NoHook
  <2> QED
    BY ZenonT(30), <1>1, <2>1, <2>2
<1> QED
  BY ZenonT(30), <1>5, <1>6 DEF BaseInv

LEMMA BaseStep ==
    ASSUME InTurn, TypeOK, HookTypes, BaseInv, [IoNext]_ioVars
    PROVE  BaseInv'
<1>1. ASSUME ServeOthers
      PROVE  BaseInv'
  BY ZenonT(30), <1>1, OthersNarrow, WritersNarrow, BaseKept DEF ServeOthers
<1>2. ASSUME UNCHANGED <<open_files, hook, base>>
      PROVE  BaseInv'
  BY ZenonT(30), <1>2, BaseKept
<1>3. ASSUME NEW k \in IoTask,
             \/ StartSpecialIo(k) \/ StartOpenIo(k) \/ StartLockIo(k)
             \/ CheckShareDeny(k) \/ CheckIoLock(k)
      PROVE  UNCHANGED <<open_files, hook, base>>
  BY ZenonT(30), <1>3 DEF StartSpecialIo, StartOpenIo, StartLockIo, Admit, CheckShareDeny, CheckIoLock,
              vars, tables
<1>4. CASE UNCHANGED ioVars
  BY ZenonT(30), <1>2, <1>4 DEF ioVars, vars, tables
<1> QED
  BY ZenonT(30), <1>1, <1>2, <1>3, <1>4, ServeStateStep, NotifyStep DEF IoNext

\* The requests, the history and what the backend is owed stay well typed, for any
\* number of requests at once (IoTypeOK).
THEOREM IoTypeCorrect == IoSpec => []IoTypeOK
<1>1. IoInit => HookTypes
  BY ZenonT(30) DEF IoInit, HookTypes, HookState
<1>2. Init => FreshIds /\ IdsAreOne
  BY ZenonT(30) DEF Init, FreshIds, IdsAreOne
<1>3. IoInit => IoInv
  BY DEF IoInit, IoInv, StillInTheWay, IoState, IoIdle
<1>4. Spec => [](TypeOK /\ FreshIds /\ IdsAreOne)
  BY <1>2, FreshStep, IdsStep, TypeCorrect, PTL DEF Spec
<1>5. TypeOK /\ HookTypes /\ IoInv => IoTypeOK
  BY ZenonT(30) DEF HookTypes, HookState, IoInv, IoTypeOK
<1> QED
  BY <1>1, <1>3, <1>4, <1>5, IoInvStep, HookTypesStep, IoRefinesFileState, PTL DEF IoSpec

\* op_open's and op_close's notifications of a backend that keeps scratch copies: as
\* long as no two requests that use open state overlap, a file that is open for writing
\* has its copy, even if OPEN_CONFIRM, FREE_STATEID or a revocation comes before the
\* notification.  (A CLOSE beside an OPEN: filestate_hooks.cfg.)
THEOREM WritersHaveBaseInTurn ==
    ASSUME InTurn
    PROVE  IoSpec => []WritersHaveBase
<1>1. IoInit => HookTypes /\ BaseInv
  BY ZenonT(30) DEF IoInit, Init, HookTypes, HookState, BaseInv, WritersHaveBase, Writers
<1>2. TypeOK /\ HookTypes /\ BaseInv /\ [IoNext]_ioVars => HookTypes' /\ BaseInv'
  BY ZenonT(30), HookTypesStep, BaseStep
<1>3. BaseInv => WritersHaveBase
  BY ZenonT(30) DEF BaseInv
<1> QED
  BY <1>1, <1>2, <1>3, TypeCorrect, IoRefinesFileState, PTL DEF IoSpec
=============================================================================
