--------------------------- MODULE DirDelegations ---------------------------
(***************************************************************************)
(* Directory delegations and their recall before namespace mutations:      *)
(* session/delegations.rs and server/ops/delegation.rs, with the mutating  *)
(* operations of server/ops/directory.rs (CREATE, LINK, REMOVE, RENAME),   *)
(* file.rs (OPEN with create), attrs.rs (SETATTR), the embedder's          *)
(* recall_directory and retire_handles as their callers.                   *)
(* Each step is one guard of StateInner or one callback.  How a callback   *)
(* ends is left open: an answer, an error and silence are all possible.    *)
(***************************************************************************)
EXTENDS Naturals, Sequences, FiniteSets

CONSTANTS Client, Dir, Task,
          Targets,         \* directories a mutation touches, in recall order
          Retirable,       \* directories the embedder may retire
          MaxPerClient,    \* DelegationConfig.max_delegations_per_client
          MaxTotal,        \* DelegationConfig.max_delegations_total
          MaxId,           \* bound: stateids handed out
          NoClient, NoState

Id == 1..MaxId

\* Returned is never seen: return_delegation_state removes in the same guard.
Status == {"Granted", "RecallInProgress", "Revoked"}
DelegationState == [object : Dir, clientid : Client, status : Status]

ASSUME DirDelegationsAssumption ==
    /\ Targets \subseteq Seq(Dir) \ {<<>>} /\ Retirable \subseteq Dir
    /\ MaxPerClient \in Nat /\ MaxTotal \in Nat /\ MaxId \in Nat
    /\ NoClient \notin Client
    /\ NoState \notin DelegationState

VARIABLES delegations,          \* by stateid
          dir_delegations,      \* index by directory
          client_delegations,   \* index by client
          next_stateid,
          clients,              \* clients with an active lease
          flagged,              \* ... with SEQ4_STATUS_RECALLABLE_STATE_REVOKED set
          retired,              \* directories marked retired
          task                  \* operations being served

tables == <<delegations, dir_delegations, client_delegations>>
vars == <<tables, next_stateid, clients, flagged, retired, task>>

Idle == [pc |-> "idle"]
TaskState ==
    {Idle} \cup [pc : {"grant"}, client : Client, dir : Dir]
    \cup [pc : {"recall", "filehandle", "callback", "revoke", "wait", "timeout", "finish"},
          op : {"mutate", "retire"}, client : Client \cup {NoClient},
          dirs : Seq(Dir),                   \* still to be recalled
          begun : SUBSET (Dir \X Nat),       \* recalled, with next_stateid at that moment
          recalls : SUBSET Id,               \* of the current recall, outstanding
          callbacks : SUBSET Id,             \* ... of those, CB_RECALL not sent yet
          failed : SUBSET Id]                \* ... CB_RECALL failed, to be revoked

TypeOK ==
    /\ delegations \in [Id -> DelegationState \cup {NoState}]
    /\ dir_delegations \in [Dir -> SUBSET Id]
    /\ client_delegations \in [Client -> SUBSET Id]
    /\ next_stateid \in 1..(MaxId + 1)
    /\ flagged \subseteq clients /\ clients \subseteq Client
    /\ retired \subseteq Dir
    /\ task \in [Task -> TaskState]

Init ==
    /\ delegations = [i \in Id |-> NoState]
    /\ dir_delegations = [d \in Dir |-> {}]
    /\ client_delegations = [c \in Client |-> {}]
    /\ next_stateid = 1
    /\ clients = Client
    /\ flagged = {}
    /\ retired = {}
    /\ task = [t \in Task |-> Idle]

-----------------------------------------------------------------------------
Goto(t, state) == task' = [task EXCEPT ![t] = state]

Exists(i) == delegations[i] # NoState
Live(i) == Exists(i) /\ delegations[i].status \in {"Granted", "RecallInProgress"}

\* Mutant: the client index keeps the stateid.
RemoveFromDir(S) ==
    /\ delegations' = [i \in Id |-> IF i \in S THEN NoState ELSE delegations[i]]
    /\ dir_delegations' = [d \in Dir |-> dir_delegations[d] \ S]
    /\ UNCHANGED client_delegations

\* remove_delegation_locked, for every stateid of S.
Remove(S) ==
    /\ delegations' = [i \in Id |-> IF i \in S THEN NoState ELSE delegations[i]]
    /\ dir_delegations' = [d \in Dir |-> dir_delegations[d] \
                             {i \in S : Exists(i) /\ delegations[i].object = d}]
    /\ client_delegations' = [c \in Client |-> client_delegations[c] \
                                {i \in S : Exists(i) /\ delegations[i].clientid = c}]

\* revoke_recallable_delegation; BadStateid when the stateid is gone.
Revoke(i) ==
    /\ delegations' = IF Exists(i) THEN [delegations EXCEPT ![i].status = "Revoked"]
                      ELSE delegations
    /\ flagged' = IF Exists(i) THEN flagged \cup ({delegations[i].clientid} \cap clients)
                  ELSE flagged
    /\ UNCHANGED <<dir_delegations, client_delegations>>

-----------------------------------------------------------------------------
(* GET_DIR_DELEGATION.                                                       *)

\* The directory was checked and a callback path was found.
StartGetDirDelegation(t) ==
    /\ task[t] = Idle
    /\ \E c \in clients, d \in Dir : Goto(t, [pc |-> "grant", client |-> c, dir |-> d])
    /\ UNCHANGED <<tables, next_stateid, clients, flagged, retired>>

Held(c, d) == \E i \in client_delegations[c] : Live(i) /\ delegations[i].object = d
RecallPending(d) ==
    \E i \in dir_delegations[d] : Exists(i) /\ delegations[i].status = "RecallInProgress"

\* Mutants: the client's limit, a running recall, the retirement are not looked at.
GrantableUnlimited(c, d) ==
    /\ d \notin retired /\ ~Held(c, d) /\ ~RecallPending(d)
    /\ Cardinality({i \in Id : Live(i)}) < MaxTotal
GrantableInRecall(c, d) ==
    /\ d \notin retired /\ ~Held(c, d)
    /\ Cardinality({i \in client_delegations[c] : Live(i)}) < MaxPerClient
    /\ Cardinality({i \in Id : Live(i)}) < MaxTotal
GrantableRetired(c, d) ==
    /\ ~Held(c, d) /\ ~RecallPending(d)
    /\ Cardinality({i \in client_delegations[c] : Live(i)}) < MaxPerClient
    /\ Cardinality({i \in Id : Live(i)}) < MaxTotal

Grantable(c, d) ==
    /\ d \notin retired
    /\ ~Held(c, d)
    /\ ~RecallPending(d)
    /\ Cardinality({i \in client_delegations[c] : Live(i)}) < MaxPerClient
    /\ Cardinality({i \in Id : Live(i)}) < MaxTotal

GrantDirectoryDelegation(t) ==
    LET c == task[t].client
        d == task[t].dir
        other == next_stateid IN
    /\ task[t].pc = "grant"
    /\ Goto(t, Idle)
    /\ \/ /\ Grantable(c, d)
          /\ other \in Id
          /\ delegations' = [delegations EXCEPT ![other] =
                               [object |-> d, clientid |-> c, status |-> "Granted"]]
          /\ dir_delegations' = [dir_delegations EXCEPT ![d] = @ \cup {other}]
          /\ client_delegations' = [client_delegations EXCEPT ![c] = @ \cup {other}]
          /\ next_stateid' = next_stateid + 1
       \/ ~Grantable(c, d) /\ UNCHANGED <<tables, next_stateid>>
    /\ UNCHANGED <<clients, flagged, retired>>

-----------------------------------------------------------------------------
(* A mutation: recall each directory it touches, then go to the backend.     *)

Starting(op, c, dirs) ==
    [pc |-> "recall", op |-> op, client |-> c, dirs |-> dirs, begun |-> {},
     recalls |-> {}, callbacks |-> {}, failed |-> {}]

\* NoClient: no session (NFSv4.0), or the embedder's recall_directory.
StartMutation(t) ==
    /\ task[t] = Idle
    /\ \E c \in clients \cup {NoClient}, dirs \in Targets : Goto(t, Starting("mutate", c, dirs))
    /\ UNCHANGED <<tables, next_stateid, clients, flagged, retired>>

\* retire_handles marks the object, recalls its delegations, then sweeps.
StartRetirement(t) ==
    /\ task[t] = Idle
    /\ \E d \in Retirable \ retired : /\ retired' = retired \cup {d}
                                      /\ Goto(t, Starting("retire", NoClient, <<d>>))
    /\ UNCHANGED <<tables, next_stateid, clients, flagged>>

\* The recall of Head(dirs) is over.
RecallDone(r) ==
    [r EXCEPT !.pc = IF Len(r.dirs) = 1 THEN "finish" ELSE "recall",
              !.dirs = Tail(r.dirs), !.recalls = {}, !.callbacks = {}]

\* Mutant: waits only for what it recalls itself.
BeginOwnRecall(t) ==
    LET r == task[t]
        d == Head(r.dirs)
        granted == {i \in dir_delegations[d] : /\ Exists(i)
                                               /\ delegations[i].status = "Granted"
                                               /\ delegations[i].clientid # r.client}
        begun == [r EXCEPT !.begun = @ \cup {<<d, next_stateid>>}]
    IN
    /\ r.pc = "recall"
    /\ delegations' = [i \in Id |-> IF i \in granted
                                    THEN [delegations[i] EXCEPT !.status = "RecallInProgress"]
                                    ELSE delegations[i]]
    /\ Goto(t, IF granted = {} THEN RecallDone(begun)
               ELSE [begun EXCEPT !.pc = "filehandle", !.recalls = granted, !.callbacks = granted])
    /\ UNCHANGED <<dir_delegations, client_delegations, next_stateid, clients, flagged, retired>>

\* begin_directory_recall_excluding: the caller's own granted delegation is left
\* alone; one that is being recalled already is waited for without a callback.
BeginDirectoryRecall(t) ==
    LET r == task[t]
        d == Head(r.dirs)
        granted == {i \in dir_delegations[d] : /\ Exists(i)
                                               /\ delegations[i].status = "Granted"
                                               /\ delegations[i].clientid # r.client}
        pending == {i \in dir_delegations[d] : /\ Exists(i)
                                               /\ delegations[i].status = "RecallInProgress"}
        begun == [r EXCEPT !.begun = @ \cup {<<d, next_stateid>>}]
    IN
    /\ r.pc = "recall"
    /\ delegations' = [i \in Id |-> IF i \in granted
                                    THEN [delegations[i] EXCEPT !.status = "RecallInProgress"]
                                    ELSE delegations[i]]
    /\ Goto(t, IF granted \cup pending = {} THEN RecallDone(begun)
               ELSE [begun EXCEPT !.pc = "filehandle", !.recalls = granted \cup pending,
                                  !.callbacks = granted])
    /\ UNCHANGED <<dir_delegations, client_delegations, next_stateid, clients, flagged, retired>>

\* object_to_fh answers None only for a retired object whose mapping is gone; then
\* the recall is dropped.
RecallFilehandle(t) ==
    LET r == task[t] IN
    /\ r.pc = "filehandle"
    /\ \/ Goto(t, [r EXCEPT !.pc = IF r.callbacks = {} THEN "wait" ELSE "callback"])
       \/ Head(r.dirs) \in retired /\ Goto(t, RecallDone(r))
    /\ UNCHANGED <<tables, next_stateid, clients, flagged, retired>>

\* send_directory_recall, one delegation after the other: CB_RECALL is accepted, or
\* there is no path, no answer in time, or an error.
SendDirectoryRecall(t) ==
    LET r == task[t] IN
    /\ r.pc = "callback"
    /\ \E i \in r.callbacks, ok \in BOOLEAN :
         Goto(t, [r EXCEPT !.callbacks = @ \ {i}, !.failed = IF ok THEN {} ELSE {i},
                           !.pc = CASE ~ok -> "revoke"
                                    [] ok /\ r.callbacks = {i} -> "wait"
                                    [] OTHER -> "callback"])
    /\ UNCHANGED <<tables, next_stateid, clients, flagged, retired>>

RevokeUnreachable(t) ==
    LET r == task[t] IN
    /\ r.pc = "revoke"
    /\ \E i \in r.failed : Revoke(i)
    /\ Goto(t, [r EXCEPT !.failed = {}, !.pc = IF r.callbacks = {} THEN "wait" ELSE "callback"])
    /\ UNCHANGED <<next_stateid, clients, retired>>

Awaited(r, i) ==
    IF r.recalls = {i} THEN RecallDone(r) ELSE [r EXCEPT !.recalls = @ \ {i}]

\* wait_for_recalled_delegations: one delegation_recall_complete of its loop.
ObserveComplete(t) ==
    LET r == task[t] IN
    /\ r.pc = "wait"
    /\ \E i \in r.recalls : ~Live(i) /\ Goto(t, Awaited(r, i))
    /\ UNCHANGED <<tables, next_stateid, clients, flagged, retired>>

\* Mutant: no deadline.
RecallSleeps(t) == task[t].pc = "wait" /\ UNCHANGED vars

RecallTimeout(t) ==
    /\ task[t].pc = "wait"
    /\ Goto(t, [task[t] EXCEPT !.pc = "timeout"])
    /\ UNCHANGED <<tables, next_stateid, clients, flagged, retired>>

\* Mutant: gives up without revoking.
GiveUp(t) ==
    /\ task[t].pc = "timeout"
    /\ Goto(t, RecallDone(task[t]))
    /\ UNCHANGED <<tables, next_stateid, clients, flagged, retired>>

\* What is still outstanding is revoked, stateid by stateid.
RevokeTimedOut(t) ==
    LET r == task[t] IN
    /\ r.pc = "timeout"
    /\ \E i \in r.recalls : Revoke(i) /\ Goto(t, Awaited(r, i))
    /\ UNCHANGED <<next_stateid, clients, retired>>

\* The backend is called; whether it succeeds is of no consequence here.
Mutate(t) ==
    /\ task[t].pc = "finish" /\ task[t].op = "mutate"
    /\ Goto(t, Idle)
    /\ UNCHANGED <<tables, next_stateid, clients, flagged, retired>>

\* invalidate_objects: the table by object, then both indexes.
InvalidateObjects(t) ==
    LET swept == {b[1] : b \in task[t].begun}
        dropped == {i \in Id : Exists(i) /\ delegations[i].object \in swept} IN
    /\ task[t].pc = "finish" /\ task[t].op = "retire"
    /\ delegations' = [i \in Id |-> IF i \in dropped THEN NoState ELSE delegations[i]]
    /\ client_delegations' = [c \in Client |-> client_delegations[c] \ dropped]
    /\ dir_delegations' = [d \in Dir |-> IF d \in swept THEN {}
                                         ELSE dir_delegations[d]]
    /\ Goto(t, Idle)
    /\ UNCHANGED <<next_stateid, clients, flagged, retired>>

-----------------------------------------------------------------------------
(* What clients and leases do to delegations.  A client's request may still   *)
(* be running when its lease is gone.                                       *)

\* DELEGRETURN by the holder: return_delegation_state.
ReturnDelegationState(i) ==
    /\ Live(i)
    /\ Remove({i})
    /\ UNCHANGED <<next_stateid, clients, flagged, retired, task>>

\* DELEGPURGE: purge_client_delegations.
PurgeClientDelegations(c) ==
    /\ Remove(client_delegations[c])
    /\ UNCHANGED <<next_stateid, clients, flagged, retired, task>>

\* FREE_STATEID of a delegation.
FreeStateid(i) ==
    /\ Exists(i)
    /\ delegations[i].status = "Revoked"
    /\ Remove({i})
    /\ UNCHANGED <<next_stateid, clients, flagged, retired, task>>

\* revoke_client_state and drop_client_state: lease expiry, DESTROY_CLIENTID or
\* replacement.
DropClient(c) ==
    /\ c \in clients
    /\ clients' = clients \ {c}
    /\ flagged' = flagged \ {c}
    /\ Remove(client_delegations[c])
    /\ UNCHANGED <<next_stateid, retired, task>>

\* create_session resets the client's status flags.
CreateSession(c) ==
    /\ c \in flagged
    /\ flagged' = flagged \ {c}
    /\ UNCHANGED <<tables, next_stateid, clients, retired, task>>

Recall(t) ==
    \/ BeginDirectoryRecall(t) \/ RecallFilehandle(t) \/ SendDirectoryRecall(t)
    \/ RevokeUnreachable(t) \/ ObserveComplete(t) \/ RecallTimeout(t) \/ RevokeTimedOut(t)

Next ==
    \/ \E t \in Task : \/ StartGetDirDelegation(t) \/ GrantDirectoryDelegation(t)
                       \/ StartMutation(t) \/ StartRetirement(t)
                       \/ Recall(t) \/ Mutate(t) \/ InvalidateObjects(t)
    \/ \E c \in Client : PurgeClientDelegations(c) \/ DropClient(c) \/ CreateSession(c)
    \/ \E i \in Id : ReturnDelegationState(i) \/ FreeStateid(i)

Spec == Init /\ [][Next]_vars

\* Operations run on: callbacks and waits end, at the latest by their timeouts.
\* Clients owe nothing.
FairSpec == Spec /\ \A t \in Task : WF_vars(Recall(t))

-----------------------------------------------------------------------------
(* Properties.                                                              *)

\* The two indexes hold exactly the stateids of the delegation table: what is
\* looked up through one (recall by directory, expiry by client) misses nothing.
IndexesAgree ==
    \A i \in Id :
      /\ \A d \in Dir : i \in dir_delegations[d] <=> Exists(i) /\ delegations[i].object = d
      /\ \A c \in Client : i \in client_delegations[c] <=> Exists(i) /\ delegations[i].clientid = c

\* A client has at most one live delegation of a directory, and the configured
\* limits hold, whatever requests overlap (grant_directory_delegation).
GrantsAreLimited ==
    /\ \A i, j \in Id : Live(i) /\ Live(j) /\ delegations[i].object = delegations[j].object
                        /\ delegations[i].clientid = delegations[j].clientid => i = j
    /\ \A c \in Client :
         Cardinality({i \in Id : Live(i) /\ delegations[i].clientid = c}) <= MaxPerClient
    /\ Cardinality({i \in Id : Live(i)}) <= MaxTotal

\* A recall is never forgotten: while a delegation is marked RecallInProgress some
\* operation will see it returned or revoke it, or its directory is being retired.
\* Otherwise grants of the directory would be refused for good.
RecallsAreWatched ==
    \A i \in Id : Exists(i) /\ delegations[i].status = "RecallInProgress" =>
      \/ \E t \in Task : /\ task[t].pc \in {"filehandle", "callback", "revoke", "wait", "timeout"}
                         /\ i \in task[t].recalls
      \/ delegations[i].object \in retired

\* Nobody is granted a delegation while the directory's recall is under way
\* (has_recall_in_progress).
NoGrantDuringRecall ==
    [][\A i \in Id : ~Exists(i) /\ Exists(i)' =>
         \A j \in Id : Exists(j) /\ delegations[j].object = delegations[i]'.object =>
           delegations[j].status # "RecallInProgress"]_vars

\* A delegation another client held when the operation began its recall is
\* returned or revoked before the operation reaches the backend
\* (wait_for_recalled_delegations), unless the directory is being retired.
RecalledBeforeMutation ==
    \A t \in Task : task[t].pc = "finish" =>
      \A b \in task[t].begun, i \in Id :
        Live(i) /\ delegations[i].object = b[1] /\ i < b[2] =>
          delegations[i].clientid = task[t].client \/ b[1] \in retired

\* No other client holds a delegation of a directory while it is changed.
NoDelegationDuringMutation ==
    \A t \in Task : task[t].pc = "finish" /\ task[t].op = "mutate" =>
      \A b \in task[t].begun, i \in Id :
        Live(i) /\ delegations[i].object = b[1] =>
          delegations[i].clientid = task[t].client \/ b[1] \in retired

\* Nothing is left of a retired directory's delegations once the retirement is
\* over (the is_retired check under the guard the sweep takes).
RetiredHoldNothing ==
    \A i \in Id : Exists(i) /\ delegations[i].object \in retired =>
      \E t \in Task : task[t].pc # "idle" /\ task[t].pc # "grant" /\ task[t].op = "retire"

\* The server keeps no delegation for a client whose lease is gone.
DroppedClientsHoldNothing == \A i \in Id : Exists(i) => delegations[i].clientid \in clients

\* A client that has lost a delegation is told so by SEQUENCE until it frees it.
RevocationIsReported ==
    \A i \in Id : Exists(i) /\ delegations[i].status = "Revoked"
                  /\ delegations[i].clientid \in clients => delegations[i].clientid \in flagged

\* A mutation reaches the backend in the end, even if no client answers and if
\* mutations wait for each other's callers (the deadline of each wait).
MutationsProceed == \A t \in Task : task[t].pc = "recall" ~> task[t].pc = "finish"
=============================================================================
