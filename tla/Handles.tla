------------------------------ MODULE Handles ------------------------------
(***************************************************************************)
(* How backend objects get names: registration of backend handles as       *)
(* object ids (server/objects.rs), minting of filehandles                  *)
(* (session/filehandles.rs), and retirement of a part of the export        *)
(* (server/ops/delegation.rs retire_handles, session/invalidate.rs).       *)
(*                                                                         *)
(* The registration maps are guarded by one RwLock, StateInner by another. *)
(* The filehandle maps and the retired set are DashMaps: every access of   *)
(* one entry is atomic and nothing more is.  So one action is one guard of *)
(* a lock or one DashMap access, and request tasks and retirements         *)
(* interleave between any two of them.                                     *)
(***************************************************************************)
EXTENDS Naturals, FiniteSets

CONSTANTS Handle,     \* backend handles (FileSystem::Handle)
          Body,       \* durable encodings a PersistentHandles codec produces
          Encoding,   \* encode_handle, of the handles that have one
          Ops,        \* the operations clients send
          Task,       \* request tasks
          Retirer,    \* concurrent calls of retire_handles
          MaxId,      \* bound on next_object_id
          MaxFh,      \* bound on next_fh
          NoHandle, NoObject, NoFh

Durable == DOMAIN Encoding
Id == 1..MaxId
NoId == 0

\* ServerObject (internal.rs): a backend object, or what hangs off it: its
\* named-attribute directory or an attribute in it.  The latter two carry the
\* parent's id and take the same paths, so one kind stands for both.
Kind == {"Fs", "NamedAttr"}
Object == [kind : Kind, id : Id]
Fs(i) == [kind |-> "Fs", id |-> i]
NamedAttr(i) == [kind |-> "NamedAttr", id |-> i]

\* Filehandles: [tag | encoding], or [boot nonce | counter].
PersistentFh == [tag : {"persistent"}, body : Body]
BootFh == [tag : {"boot"}, body : 1..MaxFh]
Fh == PersistentFh \cup BootFh
Durably(b) == [tag |-> "persistent", body |-> b]
BootScoped(n) == [tag |-> "boot", body |-> n]

ASSUME EncodingAssumption ==
    /\ Durable \subseteq Handle
    /\ Encoding \in [Durable -> Body]
ASSUME OpsAssumption == Ops \subseteq {"LOOKUP", "OPEN", "OPENATTR", "LOCK"}
ASSUME BoundAssumption == MaxId \in Nat /\ MaxFh \in Nat
ASSUME NoneAssumption ==
    /\ NoHandle \notin Handle
    /\ NoObject \notin Object
    /\ NoFh \notin Fh

VARIABLES
    handle_to_object,  \* [Handle -> Id \cup {NoId}]
    object_to_handle,  \* [Id -> Handle \cup {NoHandle}]
    next_object_id,
    fences,            \* handles some installed retirement predicate matches
    retired_objects,   \* ids the state manager refuses
    persistent_fh,     \* [Id -> PersistentFh \cup {NoFh}]
    fh_to_object,      \* [Fh -> Object \cup {NoObject}]
    object_to_fh,      \* [Object -> Fh \cup {NoFh}]
    next_fh,
    held,              \* objects with OPEN, lock or delegation state
    metadata,          \* objects with synthetic metadata
    issued,            \* <<object, filehandle>> pairs answered to clients
    task,              \* the request tasks' locals
    retire             \* the retirements' locals

maps == <<handle_to_object, object_to_handle, next_object_id, fences>>
names == <<persistent_fh, fh_to_object, object_to_fh, next_fh>>
state == <<held, metadata>>
vars == <<maps, retired_objects, names, state, issued, task, retire>>

NoOp == "none"
TaskPc == {"idle", "register", "getattr", "meta", "state", "lookup_fh", "check",
           "claim", "reserve", "boot", "publish", "recheck",
           "back_out_fh", "back_out_object"}
\* want: the filehandle being re-minted by decode_persistent_fh, if any.
TaskState == [pc : TaskPc, op : Ops \cup {NoOp}, handle : Handle \cup {NoHandle},
              object : Object \cup {NoObject}, fh : Fh \cup {NoFh},
              want : Fh \cup {NoFh}]
RetirePc == {"idle", "mark", "collect", "drop_fh", "drop_object", "forget",
             "sweep", "done"}
RetireState == [pc : RetirePc, ids : SUBSET Id, todo : SUBSET Id,
                visited : SUBSET Fh, stale : SUBSET (Fh \X Object),
                object : Object \cup {NoObject}]

TypeOK ==
    /\ handle_to_object \in [Handle -> Id \cup {NoId}]
    /\ object_to_handle \in [Id -> Handle \cup {NoHandle}]
    /\ next_object_id \in 1..(MaxId + 1)
    /\ fences \subseteq Handle
    /\ retired_objects \subseteq Id
    /\ persistent_fh \in [Id -> PersistentFh \cup {NoFh}]
    /\ fh_to_object \in [Fh -> Object \cup {NoObject}]
    /\ object_to_fh \in [Object -> Fh \cup {NoFh}]
    /\ next_fh \in 1..(MaxFh + 1)
    /\ held \subseteq Object
    /\ metadata \subseteq Object
    /\ issued \subseteq (Object \X Fh)
    /\ task \in [Task -> TaskState]
    /\ retire \in [Retirer -> RetireState]

IdleTask == [pc |-> "idle", op |-> NoOp, handle |-> NoHandle,
             object |-> NoObject, fh |-> NoFh, want |-> NoFh]
IdleRetire == [pc |-> "idle", ids |-> {}, todo |-> {}, visited |-> {},
               stale |-> {}, object |-> NoObject]

Init ==
    /\ handle_to_object = [h \in Handle |-> NoId]
    /\ object_to_handle = [i \in Id |-> NoHandle]
    /\ next_object_id = 1
    /\ fences = {}
    /\ retired_objects = {}
    /\ persistent_fh = [i \in Id |-> NoFh]
    /\ fh_to_object = [f \in Fh |-> NoObject]
    /\ object_to_fh = [o \in Object |-> NoFh]
    /\ next_fh = 1
    /\ held = {}
    /\ metadata = {}
    /\ issued = {}
    /\ task = [t \in Task |-> IdleTask]
    /\ retire = [r \in Retirer |-> IdleRetire]

\* StateManager::is_retired and belongs_to: an attribute object is retired
\* with its parent.
is_retired(o) == o.id \in retired_objects
belongs_to(o, ids) == o # NoObject /\ o.id \in ids

-----------------------------------------------------------------------------
(* A request: resolve the current filehandle, or register a handle the      *)
(* backend has just returned; create state; mint the filehandle to answer.  *)

Finish(t) == task' = [task EXCEPT ![t] = IdleTask]
Goto(t, pc) == task' = [task EXCEPT ![t].pc = pc]

\* A task whose operation op has found its object o.  OPENATTR goes on with
\* the attributes of a backend object and refuses any other (Inval); OPEN and
\* LOCK ask the backend for the object's attributes first.
Proceeding(op, o) ==
    IF op = "OPENATTR" /\ o.kind # "Fs" THEN IdleTask
    ELSE [IdleTask EXCEPT
            !.op = op,
            !.object = IF op = "OPENATTR" THEN NamedAttr(o.id) ELSE o,
            !.pc = CASE op = "LOOKUP" -> "lookup_fh"
                     [] op = "OPENATTR" -> "meta"
                     [] OTHER -> "getattr"]

Registering(op, h, want) ==
    [IdleTask EXCEPT !.pc = "register", !.op = op, !.handle = h, !.want = want]

\* The backend's lookup returned handle h to a LOOKUP or an OPEN by name.
BackendReturns(t, op, h) ==
    /\ task[t].pc = "idle"
    /\ op \in {"LOOKUP", "OPEN"}
    /\ task' = [task EXCEPT ![t] = Registering(op, h, NoFh)]
    /\ UNCHANGED <<maps, retired_objects, names, state, issued, retire>>

\* resolve_object for a filehandle the client holds: one it was given by this
\* boot, or a persistent one of an earlier boot.
ResolveObject(t, op, f) ==
    /\ task[t].pc = "idle"
    /\ op \in {"OPEN", "OPENATTR", "LOCK"}
    /\ f \in PersistentFh \/ \E o \in Object : <<o, f>> \in issued
    /\ \/ /\ fh_to_object[f] # NoObject
          /\ task' = [task EXCEPT ![t] = Proceeding(op, fh_to_object[f])]
       \/ /\ fh_to_object[f] = NoObject   \* decode_persistent_fh
          /\ \E h \in Durable :
                /\ f = Durably(Encoding[h])
                /\ task' = [task EXCEPT ![t] = Registering(op, h, f)]
    /\ UNCHANGED <<maps, retired_objects, names, state, issued, retire>>

\* register_handle.  The fast path under the read guard and the re-check under
\* the write guard answer alike; a fast-path miss changes nothing, so the
\* action is the guard that answers.
Registered(t, i) ==
    LET k == task[t] IN
    task' = [task EXCEPT
               ![t] = IF k.want = NoFh THEN Proceeding(k.op, Fs(i))
                      ELSE [k EXCEPT !.pc = "lookup_fh", !.object = Fs(i),
                                     !.handle = NoHandle]]

RegisterKnown(t) ==
    LET h == task[t].handle IN
    /\ task[t].pc = "register"
    /\ handle_to_object[h] # NoId
    /\ Registered(t, handle_to_object[h])
    /\ UNCHANGED <<maps, retired_objects, names, state, issued, retire>>

RegisterFenced(t) ==
    LET h == task[t].handle IN
    /\ task[t].pc = "register"
    /\ handle_to_object[h] = NoId
    /\ h \in fences
    /\ Finish(t)
    /\ UNCHANGED <<maps, retired_objects, names, state, issued, retire>>

\* Mutants: the write guard does not look at the map again; nor at the fences.
RegisterNewBlindly(t) ==
    LET h == task[t].handle
        i == next_object_id
    IN
    /\ task[t].pc = "register" /\ h \notin fences /\ i <= MaxId
    /\ next_object_id' = i + 1
    /\ handle_to_object' = [handle_to_object EXCEPT ![h] = i]
    /\ object_to_handle' = [object_to_handle EXCEPT ![i] = h]
    /\ Registered(t, i)
    /\ UNCHANGED <<fences, retired_objects, names, state, issued, retire>>

RegisterNewUnfenced(t) ==
    LET h == task[t].handle
        i == next_object_id
    IN
    /\ task[t].pc = "register" /\ handle_to_object[h] = NoId /\ i <= MaxId
    /\ next_object_id' = i + 1
    /\ handle_to_object' = [handle_to_object EXCEPT ![h] = i]
    /\ object_to_handle' = [object_to_handle EXCEPT ![i] = h]
    /\ Registered(t, i)
    /\ UNCHANGED <<fences, retired_objects, names, state, issued, retire>>

RegisterNew(t) ==
    LET h == task[t].handle
        i == next_object_id
    IN
    /\ task[t].pc = "register"
    /\ handle_to_object[h] = NoId
    /\ h \notin fences
    /\ i <= MaxId
    /\ next_object_id' = i + 1
    /\ handle_to_object' = [handle_to_object EXCEPT ![h] = i]
    /\ object_to_handle' = [object_to_handle EXCEPT ![i] = h]
    /\ persistent_fh' = IF h \in Durable
                        THEN [persistent_fh EXCEPT ![i] = Durably(Encoding[h])]
                        ELSE persistent_fh
    /\ Registered(t, i)
    /\ UNCHANGED <<fences, retired_objects, fh_to_object, object_to_fh, next_fh,
                   state, issued, retire>>

\* build_attr: resolve_backend_handle fails with BadHandle for an unmapped id.
GetAttr(t) ==
    LET o == task[t].object IN
    /\ task[t].pc = "getattr"
    /\ IF object_to_handle[o.id] = NoHandle THEN Finish(t)
       ELSE Goto(t, IF o.kind = "Fs" THEN "state" ELSE "meta")
    /\ UNCHANGED <<maps, retired_objects, names, state, issued, retire>>

\* ensure_meta, under the StateInner write guard.
EnsureMeta(t) ==
    /\ task[t].pc = "meta"
    /\ metadata' = metadata \cup {task[t].object}
    /\ Goto(t, IF task[t].op = "OPENATTR" THEN "lookup_fh" ELSE "state")
    /\ UNCHANGED <<maps, retired_objects, names, held, issued, retire>>

\* Mutant: no retired check under the guard.
CreateStateUnchecked(t) ==
    /\ task[t].pc = "state"
    /\ held' = held \cup {task[t].object}
    /\ IF task[t].op = "OPEN" THEN Goto(t, "lookup_fh") ELSE Finish(t)
    /\ UNCHANGED <<maps, retired_objects, names, metadata, issued, retire>>

\* create_open_state, create_lock_state, grant_directory_delegation: the
\* retired check and the insertion are under one StateInner write guard.
CreateState(t) ==
    LET o == task[t].object IN
    /\ task[t].pc = "state"
    /\ IF is_retired(o) THEN Finish(t) /\ UNCHANGED held
       ELSE /\ held' = held \cup {o}
            /\ IF task[t].op = "OPEN" THEN Goto(t, "lookup_fh") ELSE Finish(t)
    /\ UNCHANGED <<maps, retired_objects, names, metadata, issued, retire>>

-----------------------------------------------------------------------------
(* object_to_fh: mint or reuse the filehandle of task[t].object.            *)

\* The caller of object_to_fh gets filehandle f: decode_persistent_fh compares
\* it with the client's bytes, every other caller answers it.
Minted(t, f) ==
    LET k == task[t] IN
    IF k.want = NoFh
    THEN Finish(t) /\ issued' = issued \cup {<<k.object, f>>}
    ELSE /\ task' = [task EXCEPT ![t] = IF f = k.want
                                        THEN Proceeding(k.op, k.object)
                                        ELSE IdleTask]
         /\ UNCHANGED issued

LookupFh(t) ==
    LET f == object_to_fh[task[t].object] IN
    /\ task[t].pc = "lookup_fh"
    /\ IF f # NoFh THEN Minted(t, f) ELSE Goto(t, "check") /\ UNCHANGED issued
    /\ UNCHANGED <<maps, retired_objects, names, state, retire>>

CheckRetired(t) ==
    /\ task[t].pc = "check"
    /\ IF is_retired(task[t].object) THEN Finish(t) ELSE Goto(t, "claim")
    /\ UNCHANGED <<maps, retired_objects, names, state, issued, retire>>

\* claim_persistent_fh reads the recorded encoding ...
ClaimPersistent(t) ==
    LET o == task[t].object IN
    /\ task[t].pc = "claim"
    /\ IF o.kind = "Fs" /\ persistent_fh[o.id] # NoFh
       THEN task' = [task EXCEPT ![t].pc = "reserve", ![t].fh = persistent_fh[o.id]]
       ELSE Goto(t, "boot")
    /\ UNCHANGED <<maps, retired_objects, names, state, issued, retire>>

\* ... and reserves it in fh_to_object, unless it names another object.
ReservePersistent(t) ==
    LET o == task[t].object
        f == task[t].fh
    IN
    /\ task[t].pc = "reserve"
    /\ IF fh_to_object[f] \in {NoObject, o}
       THEN fh_to_object' = [fh_to_object EXCEPT ![f] = o] /\ Goto(t, "publish")
       ELSE Goto(t, "boot") /\ UNCHANGED fh_to_object
    /\ UNCHANGED <<maps, retired_objects, persistent_fh, object_to_fh, next_fh,
                   state, issued, retire>>

MintBootScoped(t) ==
    LET f == BootScoped(next_fh) IN
    /\ task[t].pc = "boot"
    /\ next_fh <= MaxFh
    /\ next_fh' = next_fh + 1
    /\ fh_to_object' = [fh_to_object EXCEPT ![f] = task[t].object]
    /\ task' = [task EXCEPT ![t].pc = "publish", ![t].fh = f]
    /\ UNCHANGED <<maps, retired_objects, persistent_fh, object_to_fh, state,
                   issued, retire>>

\* Mutants: the loser of the race answers its own filehandle; the loser drops its
\* filehandle even if it is the winner's as well.
PublishBoth(t) ==
    LET o == task[t].object IN
    /\ task[t].pc = "publish"
    /\ \/ /\ object_to_fh[o] = NoFh
          /\ object_to_fh' = [object_to_fh EXCEPT ![o] = task[t].fh]
          /\ Goto(t, "recheck") /\ UNCHANGED issued
       \/ object_to_fh[o] # NoFh /\ Minted(t, task[t].fh) /\ UNCHANGED object_to_fh
    /\ UNCHANGED <<maps, retired_objects, persistent_fh, fh_to_object, next_fh, state, retire>>

PublishDropping(t) ==
    LET o == task[t].object IN
    /\ task[t].pc = "publish"
    /\ \/ /\ object_to_fh[o] = NoFh
          /\ object_to_fh' = [object_to_fh EXCEPT ![o] = task[t].fh]
          /\ Goto(t, "recheck")
          /\ UNCHANGED <<fh_to_object, issued>>
       \/ /\ object_to_fh[o] # NoFh
          /\ fh_to_object' = [fh_to_object EXCEPT ![task[t].fh] = NoObject]
          /\ Minted(t, object_to_fh[o]) /\ UNCHANGED object_to_fh
    /\ UNCHANGED <<maps, retired_objects, persistent_fh, next_fh, state, retire>>

\* One access of the object_to_fh entry: the first mint of an object inserts;
\* a later one takes the winner's filehandle and drops its own while it still
\* holds the entry (remove_if: only if it still names the object).
Publish(t) ==
    LET o == task[t].object
        f == task[t].fh
        winner == object_to_fh[o]
    IN
    /\ task[t].pc = "publish"
    /\ \/ /\ winner = NoFh
          /\ object_to_fh' = [object_to_fh EXCEPT ![o] = f]
          /\ Goto(t, "recheck")
          /\ UNCHANGED <<fh_to_object, issued>>
       \/ /\ winner # NoFh
          /\ fh_to_object' = IF winner # f /\ fh_to_object[f] = o
                             THEN [fh_to_object EXCEPT ![f] = NoObject]
                             ELSE fh_to_object
          /\ Minted(t, winner)
          /\ UNCHANGED object_to_fh
    /\ UNCHANGED <<maps, retired_objects, persistent_fh, next_fh, state, retire>>

\* Mutant: the retired check is not repeated.
RecheckNot(t) ==
    /\ task[t].pc = "recheck"
    /\ Minted(t, task[t].fh)
    /\ UNCHANGED <<maps, retired_objects, names, state, retire>>

\* Register-then-validate: the retired check is repeated after publishing.
Recheck(t) ==
    /\ task[t].pc = "recheck"
    /\ IF is_retired(task[t].object)
       THEN Goto(t, "back_out_fh") /\ UNCHANGED issued
       ELSE Minted(t, task[t].fh)
    /\ UNCHANGED <<maps, retired_objects, names, state, retire>>

BackOutFh(t) ==
    /\ task[t].pc = "back_out_fh"
    /\ fh_to_object' = [fh_to_object EXCEPT ![task[t].fh] = NoObject]
    /\ Goto(t, "back_out_object")
    /\ UNCHANGED <<maps, retired_objects, persistent_fh, object_to_fh, next_fh,
                   state, issued, retire>>

BackOutObject(t) ==
    /\ task[t].pc = "back_out_object"
    /\ object_to_fh' = [object_to_fh EXCEPT ![task[t].object] = NoFh]
    /\ Finish(t)
    /\ UNCHANGED <<maps, retired_objects, persistent_fh, fh_to_object, next_fh,
                   state, issued, retire>>

-----------------------------------------------------------------------------
(* retire_handles and invalidate_objects.                                   *)

\* Fence, snapshot and unmap under the registration write guard.
RetireBegin(r, P) ==
    LET matched == {h \in P : handle_to_object[h] # NoId}
        ids == {handle_to_object[h] : h \in matched}
    IN
    /\ retire[r].pc = "idle"
    /\ fences' = fences \cup P
    /\ handle_to_object' = [h \in Handle |-> IF h \in matched THEN NoId
                                             ELSE handle_to_object[h]]
    /\ object_to_handle' = [i \in Id |-> IF i \in ids THEN NoHandle
                                         ELSE object_to_handle[i]]
    /\ retire' = [retire EXCEPT ![r].pc = IF ids = {} THEN "done" ELSE "mark",
                                ![r].ids = ids, ![r].todo = ids]
    /\ UNCHANGED <<next_object_id, retired_objects, names, state, issued, task>>

\* mark_retired, one id at a time.  Marking again in invalidate_objects changes
\* nothing, and the recall in between only names filehandles that exist.
MarkRetired(r, i) ==
    /\ retire[r].pc = "mark"
    /\ i \in retire[r].todo
    /\ retired_objects' = retired_objects \cup {i}
    /\ retire' = [retire EXCEPT
                    ![r].todo = retire[r].todo \ {i},
                    ![r].pc = IF retire[r].todo = {i} THEN "collect" ELSE "mark"]
    /\ UNCHANGED <<maps, names, state, issued, task>>

\* The iteration over fh_to_object: it visits the entries in an order the hash
\* decides, and misses what is inserted behind it.
CollectStale(r, f) ==
    LET k == retire[r]
        o == fh_to_object[f]
        stale == IF belongs_to(o, k.ids) THEN k.stale \cup {<<f, o>>} ELSE k.stale
        visited == k.visited \cup {f}
    IN
    /\ k.pc = "collect"
    /\ f \notin k.visited
    /\ retire' = [retire EXCEPT
                    ![r] = [k EXCEPT !.visited = visited, !.stale = stale,
                                     !.pc = IF visited = Fh THEN "drop_fh" ELSE "collect"]]
    /\ UNCHANGED <<maps, retired_objects, names, state, issued, task>>

\* For every stale pair: remove the filehandle, then the object's entry.
DropFh(r, p) ==
    /\ retire[r].pc = "drop_fh"
    /\ p \in retire[r].stale
    /\ fh_to_object' = [fh_to_object EXCEPT ![p[1]] = NoObject]
    /\ retire' = [retire EXCEPT ![r].pc = "drop_object", ![r].stale = retire[r].stale \ {p},
                                ![r].object = p[2]]
    /\ UNCHANGED <<maps, retired_objects, persistent_fh, object_to_fh, next_fh,
                   state, issued, task>>

DropObject(r) ==
    /\ retire[r].pc = "drop_object"
    /\ object_to_fh' = [object_to_fh EXCEPT ![retire[r].object] = NoFh]
    /\ retire' = [retire EXCEPT ![r].pc = "drop_fh", ![r].object = NoObject]
    /\ UNCHANGED <<maps, retired_objects, persistent_fh, fh_to_object, next_fh,
                   state, issued, task>>

AllDropped(r) ==
    /\ retire[r].pc = "drop_fh"
    /\ retire[r].stale = {}
    /\ retire' = [retire EXCEPT ![r].pc = "forget", ![r].todo = retire[r].ids]
    /\ UNCHANGED <<maps, retired_objects, names, state, issued, task>>

ForgetPersistent(r, i) ==
    /\ retire[r].pc = "forget"
    /\ i \in retire[r].todo
    /\ persistent_fh' = [persistent_fh EXCEPT ![i] = NoFh]
    /\ retire' = [retire EXCEPT
                    ![r].todo = retire[r].todo \ {i},
                    ![r].pc = IF retire[r].todo = {i} THEN "sweep" ELSE "forget"]
    /\ UNCHANGED <<maps, retired_objects, fh_to_object, object_to_fh, next_fh,
                   state, issued, task>>

\* Opens, locks, delegations and metadata go under one StateInner write guard.
SweepState(r) ==
    LET gone == {o \in Object : belongs_to(o, retire[r].ids)} IN
    /\ retire[r].pc = "sweep"
    /\ held' = held \ gone
    /\ metadata' = metadata \ gone
    /\ retire' = [retire EXCEPT ![r].pc = "done"]
    /\ UNCHANGED <<maps, retired_objects, names, issued, task>>

-----------------------------------------------------------------------------
TaskStep(t) ==
    \/ \E op \in Ops, h \in Handle : BackendReturns(t, op, h)
    \/ \E op \in Ops, f \in Fh : ResolveObject(t, op, f)
    \/ RegisterKnown(t) \/ RegisterFenced(t) \/ RegisterNew(t)
    \/ GetAttr(t) \/ EnsureMeta(t) \/ CreateState(t)
    \/ LookupFh(t) \/ CheckRetired(t) \/ ClaimPersistent(t)
    \/ ReservePersistent(t) \/ MintBootScoped(t) \/ Publish(t)
    \/ Recheck(t) \/ BackOutFh(t) \/ BackOutObject(t)

RetireStep(r) ==
    \/ \E P \in (SUBSET Handle) \ {{}} : RetireBegin(r, P)
    \/ \E i \in Id : MarkRetired(r, i) \/ ForgetPersistent(r, i)
    \/ \E f \in Fh : CollectStale(r, f)
    \/ \E p \in retire[r].stale : DropFh(r, p)
    \/ DropObject(r) \/ AllDropped(r) \/ SweepState(r)

Next == (\E t \in Task : TaskStep(t)) \/ (\E r \in Retirer : RetireStep(r))

Spec == Init /\ [][Next]_vars

-----------------------------------------------------------------------------
(* Properties.                                                              *)

\* The retirement that withdrew id i has returned to its caller.
Withdrawn(i) == \E r \in Retirer : retire[r].pc = "done" /\ i \in retire[r].ids

\* A task inside object_to_fh that is bound to remove filehandle f again, or
\* to find out that it must.
StillMinting(f, o) ==
    \E t \in Task : /\ task[t].pc \in {"publish", "recheck", "back_out_fh"}
                    /\ task[t].fh = f /\ task[t].object = o

\* filehandles.rs, object_to_fh: "There is no interleaving in which a mapping
\* outlives the retirement."  Once retire_handles has returned and no task is
\* inside object_to_fh for the object any more, no filehandle names a withdrawn
\* object.
NoMappingOutlivesRetirement ==
    \A f \in Fh : fh_to_object[f] # NoObject /\ Withdrawn(fh_to_object[f].id) =>
        \E t \in Task : /\ task[t].object = fh_to_object[f]
                        /\ task[t].pc \in {"claim", "reserve", "boot", "publish",
                            "recheck", "back_out_fh", "back_out_object"}

\* What object_to_fh does achieve, for boot-scoped filehandles: once
\* retire_handles has returned, such a filehandle names a withdrawn object only
\* while the very mint that created it has yet to back it out.
NoBootMappingOutlivesRetirement ==
    \A f \in BootFh : fh_to_object[f] # NoObject /\ Withdrawn(fh_to_object[f].id) =>
        StillMinting(f, fh_to_object[f])

\* Once retire_handles has returned, no request -- however long ago it resolved
\* its object -- can give a withdrawn object OPEN, lock or delegation state.
NoStateOutlivesRetirement == \A o \in held : ~Withdrawn(o.id)

\* session/mod.rs on retired_objects: "every creation path consults it, so a
\* retired object can never acquire new server state."
NoMetadataOutlivesRetirement == \A o \in metadata : ~Withdrawn(o.id)

\* retirement.rs: a withdrawn handle never gets an object id again, and what
\* was unmapped stays unmapped: from the moment of the fence on, no object id
\* reaches a fenced backend handle, not even through a filehandle that still
\* resolves.
FencedHandlesUnreachable ==
    /\ \A h \in fences : handle_to_object[h] = NoId
    /\ \A i \in Id : object_to_handle[i] \notin fences

\* The two registration maps stay inverse to each other: two ids never reach
\* one backend object, and two handles never share an id.
RegistrationIsBijective ==
    \A h \in Handle, i \in Id : handle_to_object[h] = i <=> object_to_handle[i] = h

\* filehandles.rs: "keep one handle per object so the client never sees two
\* names for one file", as long as the object is not retired.
OneNamePerLiveObject ==
    \A p, q \in issued : p[1] = q[1] /\ ~is_retired(p[1]) => p = q

\* claim_persistent_fh: even if the backend encodes two objects alike, a
\* filehandle that clients were given never means two files that both live.
FilehandleMeansOneObject ==
    \A p, q \in issued :
        p[2] = q[2] /\ ~is_retired(p[1]) /\ ~is_retired(q[1]) => p = q

\* A filehandle answered to a client resolves to its object until the object is
\* retired, whatever mints and retirements of other objects run meanwhile.
IssuedFilehandlesResolve ==
    \A p \in issued : is_retired(p[1]) \/ fh_to_object[p[2]] = p[1]
=============================================================================
