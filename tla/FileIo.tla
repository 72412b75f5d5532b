------------------------------- MODULE FileIo -------------------------------
(***************************************************************************)
(* READ, WRITE and SETATTR of a size beside the opens and locks of module  *)
(* FileState, and the OPEN/CLOSE notifications of a backend that publishes *)
(* a file when its last writer closes it: validate_io_stateid, op_read,    *)
(* op_write, op_setattr and the hooks of op_open and op_close under        *)
(* src/crates/embednfs/src/server/ops.  An I/O takes three guards of the   *)
(* state lock (resolve the stateid, look at the share reservations, look   *)
(* at the locks) and then calls the backend under none.                    *)
(***************************************************************************)
EXTENDS FileState

CONSTANTS IoTask,    \* I/O requests being served
          IoModes    \* what they do: "READ", "WRITE" (also SETATTR of a size)

ASSUME FileIoAssumption == IoModes \subseteq Mode

VARIABLES io,        \* the I/O requests' locals
          crossed,   \* history: what was in the way of an I/O that was let through
          hook,      \* the notification a task owes the backend
          base       \* files the backend keeps a scratch copy of (external)

ioVars == <<vars, io, crossed, hook, base>>

NoId == 0
NoHook == [call |-> "none"]
IoIdle == [pc |-> "idle"]
\* open, lock and owner are what the checks leave out: the state the stateid names.
\* inway is history: the opens and locks of others that forbid the I/O, and have
\* done so ever since it began.
IoRequest == [pc : {"deny", "locks"}, mode : Mode, object : Object, range : SUBSET Byte,
              open : Id \cup {NoId}, lock : Id \cup {NoId},
              owner : (Client \X Owner) \cup {NoClient}, inway : SUBSET Id]
IoState == {IoIdle} \cup IoRequest

IoTypeOK ==
    /\ TypeOK
    /\ io \in [IoTask -> IoState]
    /\ crossed \subseteq Id
    /\ hook \in [Task -> {NoHook} \cup [call : {"on_open", "on_close"}, object : Object]]
    /\ base \subseteq Object

IoInit ==
    /\ Init
    /\ io = [k \in IoTask |-> IoIdle]
    /\ crossed = {}
    /\ hook = [t \in Task |-> NoHook]
    /\ base = {}

-----------------------------------------------------------------------------
(* The checks.                                                              *)

has_conflicting_share_deny(r) ==
    \E i \in Id \ {r.open} : /\ OpenActive(i) /\ open_files[i].object = r.object
                             /\ r.mode \in open_files[i].deny

\* Mutant: a lock for reading does not keep a write out.
BarredByWriters(r) ==
    \E l \in Id \ {r.lock} : /\ lock_files[l] # NoState /\ lock_files[l].object = r.object
                             /\ <<lock_files[l].clientid, lock_files[l].owner>> # r.owner
                             /\ \E b \in r.range : lock_files[l].held[b] = "WRITE"

\* A write meets any lock, a read a lock for writing.  An open's stateid has no lock
\* owner: the locks taken through that open count as well.
has_conflicting_io_lock(r) ==
    \E l \in Id \ {r.lock} : /\ lock_files[l] # NoState /\ lock_files[l].object = r.object
                             /\ <<lock_files[l].clientid, lock_files[l].owner>> # r.owner
                             /\ \E b \in r.range : \/ lock_files[l].held[b] = "WRITE"
                                                   \/ lock_files[l].held[b] = "READ" /\ r.mode = "WRITE"

\* What should keep an I/O out, by the tables given: the opens of others that deny
\* it, and the locks of other owners that one of its bytes conflicts with.
InTheWay(opens, locks, r) ==
    {i \in Id : \/ /\ opens[i] # NoState /\ opens[i].active /\ opens[i].object = r.object
                   /\ i # r.open /\ opens[i].deny \cap {r.mode} # {}
                \/ /\ locks[i] # NoState /\ locks[i].object = r.object /\ i # r.lock
                   /\ <<locks[i].clientid, locks[i].owner>> # r.owner
                   /\ \E b \in r.range : {locks[i].held[b], r.mode} \in {{"WRITE"}, Mode}}

-----------------------------------------------------------------------------
(* I/O.                                                                     *)

\* The stateid resolves; a write needs an open for writing, a read no open for
\* reading.
Admit(k, mode, object, range, open, lock, owner) ==
    LET request(inway) == [pc |-> "deny", mode |-> mode, object |-> object, range |-> range,
                           open |-> open, lock |-> lock, owner |-> owner, inway |-> inway] IN
    /\ io[k] = IoIdle
    /\ mode = "WRITE" /\ open # NoId => mode \in open_files[open].access
    /\ io' = [io EXCEPT ![k] = request(InTheWay(open_files, lock_files, request({})))]
    /\ UNCHANGED <<vars, crossed, hook, base>>

\* op_read, op_write and op_setattr (of a size: the bytes between the old and the new
\* end) begin alike, with the anonymous or the bypass stateid, with an open's, or with
\* a lock's.  Seqid 0 in an NFSv4.0 request resolves whatever any other does.  An I/O
\* of no bytes meets no lock and is left out.
StartSpecialIo(k) ==
    \E m \in IoModes, o \in Object, range \in Ranges : Admit(k, m, o, range, NoId, NoId, NoClient)

StartOpenIo(k) ==
    \E i \in Id, m \in IoModes, range \in Ranges :
      /\ ResolvesToOpen(NoClient, i, 0)
      /\ Admit(k, m, open_files[i].object, range, i, NoId, NoClient)

StartLockIo(k) ==
    \E i \in Id, m \in IoModes, range \in Ranges :
      /\ ResolvesToLock(NoClient, i, 0)
      /\ Admit(k, m, lock_files[i].object, range, lock_files[i].open, i,
               <<lock_files[i].clientid, lock_files[i].owner>>)

CheckShareDeny(k) ==
    LET crossing == {i \in io[k].inway : OpenActive(i)} IN
    /\ io[k].pc = "deny"
    /\ io' = [io EXCEPT ![k] = IF has_conflicting_share_deny(@) THEN IoIdle
                               ELSE [@ EXCEPT !.pc = "locks", !.open = NoId,
                                              !.inway = io[k].inway \ crossing]]
    /\ crossed' = IF has_conflicting_share_deny(io[k]) THEN crossed ELSE crossed \cup crossing
    /\ UNCHANGED <<vars, hook, base>>

\* Then the backend is called, or refuses: nothing looks at opens or locks again.
CheckIoLock(k) ==
    /\ io[k].pc = "locks"
    /\ crossed' = IF has_conflicting_io_lock(io[k]) THEN crossed ELSE crossed \cup io[k].inway
    /\ io' = [io EXCEPT ![k] = IoIdle]
    /\ UNCHANGED <<vars, hook, base>>

\* What still is in the way after a step of the tables.
Persisting ==
    /\ io' = [k \in IoTask |->
                IF io[k] = IoIdle THEN IoIdle
                ELSE [io[k] EXCEPT !.inway = @ \cap InTheWay(open_files', lock_files', io[k])]]
    /\ UNCHANGED crossed

-----------------------------------------------------------------------------
(* Notifications.                                                           *)

Writers(opens, o) ==
    {i \in Id : opens[i] # NoState /\ opens[i].active /\ opens[i].object = o
                /\ "WRITE" \in opens[i].access}

\* Mutant: any close of an open for writing is taken for the last.
OwedAtEveryClose(t) ==
    LET r == task[t] IN
    CASE /\ r.pc = "open" /\ open_files' # open_files /\ "WRITE" \in r.access ->
           [call |-> "on_open", object |-> r.object]
      [] /\ r.pc = "apply" /\ r.op = "CLOSE" /\ open_files' # open_files
         /\ "WRITE" \in open_files[r.id].access ->
           [call |-> "on_close", object |-> open_files[r.id].object]
      [] OTHER -> NoHook

\* op_open notifies when write access was asked for and granted, op_close when
\* close_state found that the open it closed was the last for writing.
Owed(t) ==
    LET r == task[t] IN
    CASE /\ r.pc = "open" /\ open_files' # open_files /\ "WRITE" \in r.access ->
           [call |-> "on_open", object |-> r.object]
      [] /\ r.pc = "apply" /\ r.op = "CLOSE" /\ open_files' # open_files
         /\ "WRITE" \in open_files[r.id].access
         /\ Writers(open_files', open_files[r.id].object) = {} ->
           [call |-> "on_close", object |-> open_files[r.id].object]
      [] OTHER -> NoHook

\* The backend takes a scratch copy when a writer opens, and publishes it when told
\* that the last one closed.  A call that fails is only logged: it is left out.
Notify(t) ==
    /\ hook[t] # NoHook
    /\ base' = IF hook[t].call = "on_open" THEN base \cup {hook[t].object}
               ELSE base \ {hook[t].object}
    /\ hook' = [hook EXCEPT ![t] = NoHook]
    /\ UNCHANGED <<vars, io, crossed>>

-----------------------------------------------------------------------------
ServeState(t) ==
    /\ hook[t] = NoHook
    /\ Serve(t)
    /\ hook' = [hook EXCEPT ![t] = Owed(t)]
    /\ Persisting
    /\ UNCHANGED base

ServeOthers ==
    /\ \/ \E i \in Id, q \in 0..MaxSeq : ConfirmOpenState(i, q) \/ FreeStateid(i, q)
       \/ \E c \in Client : RevokeClientState(c)
    /\ Persisting
    /\ UNCHANGED <<hook, base>>

IoNext ==
    \/ \E t \in Task : ServeState(t) \/ Notify(t)
    \/ ServeOthers
    \/ \E k \in IoTask : \/ StartSpecialIo(k) \/ StartOpenIo(k) \/ StartLockIo(k)
                         \/ CheckShareDeny(k) \/ CheckIoLock(k)

IoSpec == IoInit /\ [][IoNext]_ioVars

-----------------------------------------------------------------------------
(* Properties.                                                              *)

\* Mandatory locking: a READ, WRITE or truncation that is let through to the backend
\* met no open that denies it and no lock of another owner on its bytes that was
\* there from before it began, however opens and locks changed around it.
NothingIsCrossed == crossed = {}

\* A file some client has open for writing has a scratch copy in the backend, as
\* soon as its OPEN has returned.
WritersHaveBase ==
    \A o \in Object : Writers(open_files, o) # {} =>
      o \in base \/ \E t \in Task : hook[t] # NoHook /\ hook[t].object = o

\* The last writer's close reaches the backend: without one, no scratch copy is left.
LastCloseIsNotified ==
    \A o \in base : \/ Writers(open_files, o) # {}
                    \/ \E t \in Task : hook[t] # NoHook /\ hook[t].object = o
=============================================================================
