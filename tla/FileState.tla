------------------------------ MODULE FileState ------------------------------
(***************************************************************************)
(* Open and lock state: session/opens.rs, session/locks.rs, the lookup of  *)
(* session/stateids.rs, and the operations of server/ops/file.rs and       *)
(* server/ops/locking.rs that drive them.  Each step is one guard of       *)
(* StateInner: LOCK takes three (resolve the stateid, look for a conflict, *)
(* record the lock), CLOSE, LOCKU and OPEN_DOWNGRADE take two.             *)
(***************************************************************************)
EXTENDS Naturals, FiniteSets

CONSTANTS Client, Owner, Object, Byte, Task,
          Ranges,      \* byte ranges requests name, each a set of bytes
          Shares,      \* <<share_access, share_deny>> requests name
          Ops,         \* operations the clients use
          MaxId,       \* bound: stateids handed out
          MaxSeq,      \* bound: seqid of a stateid
          NoClient, NoState

Id == 1..MaxId
Mode == {"READ", "WRITE"}
Operation == {"OPEN", "OPEN_CONFIRM", "OPEN_DOWNGRADE", "CLOSE", "LOCK_NEW", "LOCK",
              "LOCKU", "FREE_STATEID"}

\* Keyed in the code by the stateid's `other`.  Byte ranges are what they lock:
\* the type held on each byte (module LockRanges relates them to LockRange lists).
OpenFileState == [object : Object, clientid : Client, owner : Owner, seq : 1..MaxSeq,
                  active : BOOLEAN, access : SUBSET Mode, deny : SUBSET Mode]
LockFileState == [object : Object, clientid : Client, owner : Owner, open : Id,
                  held : [Byte -> Mode \cup {"NONE"}], seq : 1..MaxSeq]

ASSUME FileStateAssumption ==
    /\ Ranges \subseteq (SUBSET Byte) \ {{}}
    /\ Shares \subseteq ((SUBSET Mode) \ {{}}) \X (SUBSET Mode)
    /\ Ops \subseteq Operation
    /\ MaxId \in Nat /\ MaxSeq \in Nat \ {0}
    /\ NoClient \notin Client
    /\ NoState \notin OpenFileState /\ NoState \notin LockFileState

VARIABLES open_files, lock_files, next_stateid,
          clients,   \* clients the server still knows
          task       \* requests being served

tables == <<open_files, lock_files, next_stateid>>
vars == <<tables, clients, task>>

Idle == [pc |-> "idle"]
TaskState ==
    {Idle}
    \cup [pc : {"open"}, op : {"OPEN"}, client : Client, owner : Owner, object : Object,
          access : SUBSET Mode, deny : SUBSET Mode]
    \cup [pc : {"apply"}, op : {"CLOSE"}, id : Id, seq : 0..MaxSeq]
    \cup [pc : {"apply"}, op : {"OPEN_DOWNGRADE"}, id : Id, seq : 0..MaxSeq,
          access : SUBSET Mode, deny : SUBSET Mode]
    \cup [pc : {"conflict", "apply"}, op : {"LOCK_NEW"}, client : Client, owner : Owner,
          object : Object, id : Id, mode : Mode, range : SUBSET Byte]
    \cup [pc : {"conflict", "apply"}, op : {"LOCK"}, client : Client, owner : Owner,
          object : Object, id : Id, seq : 0..MaxSeq, mode : Mode, range : SUBSET Byte]
    \cup [pc : {"apply"}, op : {"LOCKU"}, id : Id, seq : 0..MaxSeq, range : SUBSET Byte]

TypeOK ==
    /\ open_files \in [Id -> OpenFileState \cup {NoState}]
    /\ lock_files \in [Id -> LockFileState \cup {NoState}]
    /\ next_stateid \in 1..(MaxId + 1)
    /\ clients \subseteq Client
    /\ task \in [Task -> TaskState]

Init ==
    /\ open_files = [i \in Id |-> NoState]
    /\ lock_files = [i \in Id |-> NoState]
    /\ next_stateid = 1
    /\ clients = Client
    /\ task = [t \in Task |-> Idle]

-----------------------------------------------------------------------------
Begin(t, request) == task[t] = Idle /\ request.op \in Ops /\ task' = [task EXCEPT ![t] = request]
End(t) == task' = [task EXCEPT ![t] = Idle]
At(t, pc, ops) == task[t].pc = pc /\ task[t].op \in ops

\* validate_stateid_seq: seqid 0 stands for the latest.
ValidSeq(stored, provided) == provided \in {0, stored}

OpenActive(i) == open_files[i] # NoState /\ open_files[i].active
\* LockFileState.active: UNLOCK clears it when no range is left.
LockActive(i) == lock_files[i] # NoState /\ \E b \in Byte : lock_files[i].held[b] # "NONE"

\* resolve_stateid.  An NFSv4.0 request names no client: NoClient.
ResolvesToOpen(c, i, q) ==
    /\ OpenActive(i)
    /\ ValidSeq(open_files[i].seq, q)
    /\ c \in {NoClient, open_files[i].clientid}

ResolvesToLock(c, i, q) ==
    /\ lock_files[i] # NoState
    /\ ValidSeq(lock_files[i].seq, q)
    /\ OpenActive(lock_files[i].open)
    /\ c \in {NoClient, lock_files[i].clientid}
    /\ c \in {NoClient, open_files[lock_files[i].open].clientid}

\* Mutant: only what is denied to the newcomer counts, not what it denies.
SharesConflictOneWay(s, access, deny) == s.deny \cap access # {}

SharesConflict(s, access, deny) == s.deny \cap access # {} \/ deny \cap s.access # {}

-----------------------------------------------------------------------------
(* OPEN: the request was admitted by SEQUENCE while its client was known.    *)

StartOpen(t) ==
    /\ \E c \in clients, w \in Owner, o \in Object, share \in Shares :
         Begin(t, [pc |-> "open", op |-> "OPEN", client |-> c, owner |-> w, object |-> o,
                   access |-> share[1], deny |-> share[2]])
    /\ UNCHANGED <<tables, clients>>

\* Mutant: an open is found only if the request adds access to it.
OwnOpensNarrower(r) == {i \in Id : /\ OpenActive(i)
                                   /\ open_files[i].object = r.object
                                   /\ open_files[i].clientid = r.client
                                   /\ open_files[i].owner = r.owner
                                   /\ ~(r.access \subseteq open_files[i].access)}

\* The owner's active open of the object, if any: create_open_state upgrades it.
OwnOpens(r) == {i \in Id : /\ OpenActive(i)
                           /\ open_files[i].object = r.object
                           /\ open_files[i].clientid = r.client
                           /\ open_files[i].owner = r.owner}

ShareDenied(own, access, deny, object) ==
    \E i \in Id \ own : /\ OpenActive(i)
                        /\ open_files[i].object = object
                        /\ SharesConflict(open_files[i], access, deny)

CreateOpenState(t) ==
    LET r == task[t] IN
    /\ At(t, "open", {"OPEN"})
    /\ End(t)
    /\ \/ \E i \in OwnOpens(r) :
            LET access == open_files[i].access \cup r.access
                deny == open_files[i].deny \cup r.deny IN
            /\ open_files[i].seq < MaxSeq
            /\ IF ShareDenied({i}, access, deny, r.object) THEN UNCHANGED open_files
               ELSE open_files' = [open_files EXCEPT
                      ![i].access = access, ![i].deny = deny, ![i].seq = @ + 1]
            /\ UNCHANGED next_stateid
       \/ /\ OwnOpens(r) = {}
          /\ next_stateid \in Id
          /\ IF ShareDenied({}, r.access, r.deny, r.object)
             THEN UNCHANGED <<open_files, next_stateid>>
             ELSE /\ open_files' = [open_files EXCEPT ![next_stateid] =
                       [object |-> r.object, clientid |-> r.client, owner |-> r.owner,
                        seq |-> 1, active |-> TRUE, access |-> r.access, deny |-> r.deny]]
                  /\ next_stateid' = next_stateid + 1
    /\ UNCHANGED <<lock_files, clients>>

\* OPEN_CONFIRM (NFSv4.0).
ConfirmOpenState(i, q) ==
    /\ "OPEN_CONFIRM" \in Ops
    /\ OpenActive(i)
    /\ ValidSeq(open_files[i].seq, q)
    /\ open_files[i].seq < MaxSeq
    /\ open_files' = [open_files EXCEPT ![i].seq = @ + 1]
    /\ UNCHANGED <<lock_files, next_stateid, clients, task>>

-----------------------------------------------------------------------------
(* CLOSE and OPEN_DOWNGRADE: resolve the stateid, then act on it under a     *)
(* second guard.  What resolves for some client resolves for NoClient.       *)

StartClose(t) ==
    /\ \E i \in Id, q \in 0..MaxSeq :
         /\ ResolvesToOpen(NoClient, i, q)
         /\ Begin(t, [pc |-> "apply", op |-> "CLOSE", id |-> i, seq |-> q])
    /\ UNCHANGED <<tables, clients>>

\* Mutant: read locks do not count.
LocksHeldForWriting(i) ==
    \E l \in Id : /\ lock_files[l] # NoState /\ lock_files[l].open = i
                  /\ \E b \in Byte : lock_files[l].held[b] = "WRITE"

LocksHeld(i) == \E l \in Id : LockActive(l) /\ lock_files[l].open = i

CloseState(t) ==
    LET i == task[t].id IN
    /\ At(t, "apply", {"CLOSE"})
    /\ End(t)
    /\ \/ /\ OpenActive(i) /\ ValidSeq(open_files[i].seq, task[t].seq)
          /\ ~LocksHeld(i)
          /\ open_files[i].seq < MaxSeq
          /\ open_files' = [open_files EXCEPT ![i].active = FALSE, ![i].seq = @ + 1]
       \/ /\ ~(OpenActive(i) /\ ValidSeq(open_files[i].seq, task[t].seq)) \/ LocksHeld(i)
          /\ UNCHANGED open_files
    /\ UNCHANGED <<lock_files, next_stateid, clients>>

StartDowngrade(t) ==
    /\ \E i \in Id, q \in 0..MaxSeq, share \in Shares :
         /\ ResolvesToOpen(NoClient, i, q)
         /\ Begin(t, [pc |-> "apply", op |-> "OPEN_DOWNGRADE", id |-> i, seq |-> q,
                      access |-> share[1], deny |-> share[2]])
    /\ UNCHANGED <<tables, clients>>

\* Mutant: the stateid starts over at seqid 1.
OpenDowngradeRestarts(t) ==
    LET r == task[t] IN
    /\ At(t, "apply", {"OPEN_DOWNGRADE"})
    /\ End(t)
    /\ OpenActive(r.id) /\ ValidSeq(open_files[r.id].seq, r.seq)
    /\ open_files' = [open_files EXCEPT ![r.id] = [@ EXCEPT !.access = r.access, !.seq = 1]]
    /\ UNCHANGED <<lock_files, next_stateid, clients>>

\* open_downgrade: to a subset of what is held.
OpenDowngrade(t) ==
    LET r == task[t]
        ok == /\ OpenActive(r.id) /\ ValidSeq(open_files[r.id].seq, r.seq)
              /\ r.access \subseteq open_files[r.id].access
              /\ r.deny \subseteq open_files[r.id].deny
    IN
    /\ At(t, "apply", {"OPEN_DOWNGRADE"})
    /\ End(t)
    /\ \/ /\ ok
          /\ open_files[r.id].seq < MaxSeq
          /\ open_files' = [open_files EXCEPT
               ![r.id].access = r.access, ![r.id].deny = r.deny, ![r.id].seq = @ + 1]
       \/ ~ok /\ UNCHANGED open_files
    /\ UNCHANGED <<lock_files, next_stateid, clients>>

-----------------------------------------------------------------------------
(* LOCK, by a new or an existing lock owner.                                 *)

StartLockNew(t) ==
    /\ \E c \in clients, w \in Owner, i \in Id, q \in 0..MaxSeq, m \in Mode, range \in Ranges :
         /\ ResolvesToOpen(c, i, q)
         /\ Begin(t, [pc |-> "conflict", op |-> "LOCK_NEW", client |-> c, owner |-> w,
                      object |-> open_files[i].object, id |-> i, mode |-> m, range |-> range])
    /\ UNCHANGED <<tables, clients>>

StartLock(t) ==
    /\ \E c \in clients, i \in Id, q \in 0..MaxSeq, m \in Mode, range \in Ranges :
         /\ ResolvesToLock(c, i, q)
         /\ Begin(t, [pc |-> "conflict", op |-> "LOCK", client |-> lock_files[i].clientid,
                      owner |-> lock_files[i].owner, object |-> lock_files[i].object,
                      id |-> i, seq |-> q, mode |-> m, range |-> range])
    /\ UNCHANGED <<tables, clients>>

\* Mutant: only a lock for writing meets a conflict.
ConflictingWrite(l, r) ==
    /\ lock_files[l] # NoState /\ lock_files[l].object = r.object
    /\ <<lock_files[l].clientid, lock_files[l].owner>> # <<r.client, r.owner>>
    /\ r.mode = "WRITE" /\ \E b \in r.range : lock_files[l].held[b] # "NONE"

\* find_lock_conflict: another owner's lock on one of the bytes, one of the two
\* for writing.
Conflicting(l, r) ==
    /\ lock_files[l] # NoState
    /\ lock_files[l].object = r.object
    /\ <<lock_files[l].clientid, lock_files[l].owner>> # <<r.client, r.owner>>
    /\ \E b \in r.range : \/ lock_files[l].held[b] = "WRITE"
                          \/ lock_files[l].held[b] = "READ" /\ r.mode = "WRITE"

FindLockConflict(t) ==
    /\ At(t, "conflict", {"LOCK_NEW", "LOCK"})
    /\ task' = [task EXCEPT ![t] =
                  IF \E l \in Id : Conflicting(l, @) THEN Idle ELSE [@ EXCEPT !.pc = "apply"]]
    /\ UNCHANGED <<tables, clients>>

\* create_lock_state looks at the open again, at the other locks no more.
CreateLockState(t) ==
    LET r == task[t] IN
    /\ At(t, "apply", {"LOCK_NEW"})
    /\ End(t)
    /\ \/ /\ OpenActive(r.id) /\ open_files[r.id].object = r.object
          /\ next_stateid \in Id
          /\ lock_files' = [lock_files EXCEPT ![next_stateid] =
               [object |-> r.object, clientid |-> r.client, owner |-> r.owner, open |-> r.id,
                held |-> [b \in Byte |-> IF b \in r.range THEN r.mode ELSE "NONE"], seq |-> 1]]
          /\ next_stateid' = next_stateid + 1
       \/ /\ ~(OpenActive(r.id) /\ open_files[r.id].object = r.object)
          /\ UNCHANGED <<lock_files, next_stateid>>
    /\ UNCHANGED <<open_files, clients>>

\* update_lock_state looks neither at the open nor at the other locks.
UpdateLockState(t) ==
    LET r == task[t]
        ok == lock_files[r.id] # NoState /\ ValidSeq(lock_files[r.id].seq, r.seq) IN
    /\ At(t, "apply", {"LOCK"})
    /\ End(t)
    /\ \/ /\ ok
          /\ lock_files[r.id].seq < MaxSeq
          /\ lock_files' = [lock_files EXCEPT ![r.id].seq = @ + 1,
               ![r.id].held = [b \in Byte |-> IF b \in r.range THEN r.mode ELSE @[b]]]
       \/ ~ok /\ UNCHANGED lock_files
    /\ UNCHANGED <<open_files, next_stateid, clients>>

StartUnlock(t) ==
    /\ \E c \in clients, i \in Id, q \in 0..MaxSeq, range \in Ranges :
         /\ ResolvesToLock(c, i, q)
         /\ Begin(t, [pc |-> "apply", op |-> "LOCKU", id |-> i, seq |-> q, range |-> range])
    /\ UNCHANGED <<tables, clients>>

UnlockState(t) ==
    LET r == task[t]
        ok == lock_files[r.id] # NoState /\ ValidSeq(lock_files[r.id].seq, r.seq) IN
    /\ At(t, "apply", {"LOCKU"})
    /\ End(t)
    /\ \/ /\ ok
          /\ lock_files[r.id].seq < MaxSeq
          /\ lock_files' = [lock_files EXCEPT ![r.id].seq = @ + 1,
               ![r.id].held = [b \in Byte |-> IF b \in r.range THEN "NONE" ELSE @[b]]]
       \/ ~ok /\ UNCHANGED lock_files
    /\ UNCHANGED <<open_files, next_stateid, clients>>

-----------------------------------------------------------------------------
\* FREE_STATEID, under one guard.
FreeStateid(i, q) ==
    /\ "FREE_STATEID" \in Ops
    /\ \/ /\ open_files[i] # NoState /\ ValidSeq(open_files[i].seq, q)
          /\ ~OpenActive(i) /\ ~LocksHeld(i)
          /\ open_files' = [open_files EXCEPT ![i] = NoState]
          /\ UNCHANGED lock_files
       \/ /\ lock_files[i] # NoState /\ ValidSeq(lock_files[i].seq, q)
          /\ ~LockActive(i)
          /\ lock_files' = [lock_files EXCEPT ![i] = NoState]
          /\ UNCHANGED open_files
    /\ UNCHANGED <<next_stateid, clients, task>>

\* revoke_client_state, for a client whose lease ran out or that was replaced;
\* its requests may still be running.
RevokeClientState(c) ==
    /\ c \in clients
    /\ clients' = clients \ {c}
    /\ open_files' = [i \in Id |-> IF open_files[i] # NoState /\ open_files[i].clientid = c
                                   THEN NoState ELSE open_files[i]]
    /\ lock_files' = [i \in Id |-> IF lock_files[i] # NoState /\ lock_files[i].clientid = c
                                   THEN NoState ELSE lock_files[i]]
    /\ UNCHANGED <<next_stateid, task>>

Serve(t) ==
    \/ StartOpen(t) \/ CreateOpenState(t)
    \/ StartClose(t) \/ CloseState(t)
    \/ StartDowngrade(t) \/ OpenDowngrade(t)
    \/ StartLockNew(t) \/ StartLock(t) \/ FindLockConflict(t)
    \/ CreateLockState(t) \/ UpdateLockState(t)
    \/ StartUnlock(t) \/ UnlockState(t)

Next ==
    \/ \E t \in Task : Serve(t)
    \/ \E i \in Id, q \in 0..MaxSeq : ConfirmOpenState(i, q) \/ FreeStateid(i, q)
    \/ \E c \in Client : RevokeClientState(c)

Spec == Init /\ [][Next]_vars

-----------------------------------------------------------------------------
(* Properties.                                                              *)

\* Share reservations: nobody holds an access another open of the file denies.
\* create_open_state compares an upgrade's union with every other open.
ShareReservationsHold ==
    \A i, j \in Id :
      i # j /\ OpenActive(i) /\ OpenActive(j) /\ open_files[i].object = open_files[j].object
        => open_files[i].access \cap open_files[j].deny = {}

\* A repeated OPEN upgrades: an owner never has two opens of one file.
OneOpenPerOwner ==
    \A i, j \in Id :
      OpenActive(i) /\ OpenActive(j)
      /\ open_files[i].object = open_files[j].object
      /\ open_files[i].clientid = open_files[j].clientid
      /\ open_files[i].owner = open_files[j].owner
        => i = j

\* A stateid names one open or one lock for good: nothing it stands for changes
\* owner or file, its seqid only grows, a closed open is not reopened and a freed
\* stateid is not handed out again.
StateidsAreStable ==
    [][\A i \in Id :
         /\ open_files[i] # NoState /\ open_files'[i] # NoState =>
              /\ open_files'[i].object = open_files[i].object
              /\ open_files'[i].clientid = open_files[i].clientid
              /\ open_files'[i].owner = open_files[i].owner
              /\ open_files'[i].seq >= open_files[i].seq
              /\ open_files'[i].active => open_files[i].active
         /\ lock_files[i] # NoState /\ lock_files'[i] # NoState =>
              /\ lock_files'[i].object = lock_files[i].object
              /\ lock_files'[i].open = lock_files[i].open
              /\ lock_files'[i].seq >= lock_files[i].seq
         /\ i < next_stateid =>
              /\ open_files[i] = NoState => open_files'[i] = NoState
              /\ lock_files[i] = NoState => lock_files'[i] = NoState]_vars

\* Byte-range locks exclude: two owners hold a byte together only for reading.
LocksExclude ==
    \A l, m \in Id :
      /\ lock_files[l] # NoState /\ lock_files[m] # NoState
      /\ lock_files[l].object = lock_files[m].object
      /\ <<lock_files[l].clientid, lock_files[l].owner>>
           # <<lock_files[m].clientid, lock_files[m].owner>>
      => \A b \in Byte : lock_files[l].held[b] = "WRITE" => lock_files[m].held[b] = "NONE"

\* A held lock belongs to an active open: CLOSE refuses while locks are held, and
\* LOCKU needs the open to be active to release them.
HeldLocksHaveOpens ==
    \A l \in Id : LockActive(l) => OpenActive(lock_files[l].open)

\* The server holds no state for a client it has revoked.
RevokedClientsHoldNothing ==
    \A i \in Id : /\ open_files[i] # NoState => open_files[i].clientid \in clients
                  /\ lock_files[i] # NoState => lock_files[i].clientid \in clients
=============================================================================
