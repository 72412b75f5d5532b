------------------------------ MODULE Compound ------------------------------
(***************************************************************************)
(* One COMPOUND request at a time, operation by operation, over the        *)
(* in-memory backend (module MemFs), while other requests and the          *)
(* embedding program change the backend and destroy the session.           *)
(* src/crates/embednfs/src/server/compound.rs and the handlers under       *)
(* server/ops that read or set the current and saved filehandle.  A step   *)
(* is one backend call of a handler, with what the handler does after it.  *)
(***************************************************************************)
EXTENDS Naturals

CONSTANTS Name, XattrName, Sizes, MaxBytes, MaxId, MaxChange, NoInode,
          None,        \* no filehandle, no stateid
          Anonymous,   \* Stateid4::ANONYMOUS
          Current      \* Stateid4::CURRENT

VARIABLES inodes, next_id, next_change, creating,   \* the backend
          session,   \* the session the client's SEQUENCEs name is there
          req        \* the COMPOUND in progress

Fs == INSTANCE MemFs

vars == <<inodes, next_id, next_change, creating, session, req>>
backend == <<inodes, next_id, next_change, creating>>

\* ServerObject.  A filehandle stands for the object it was minted for.
Object ==
    [type : {"fs", "attrdir"}, id : Fs!Id, name : {None}]
      \cup [type : {"attrfile"}, id : Fs!Id, name : XattrName]
FsObject(i) == [type |-> "fs", id |-> i, name |-> None]
AttrDir(i) == [type |-> "attrdir", id |-> i, name |-> None]
AttrFile(i, x) == [type |-> "attrfile", id |-> i, name |-> x]

\* Whether a stateid is live is module FileState's business; here it is the kind
\* of state, its object, and what the operation that returned it took the object
\* from: the current filehandle, or the stateid it was given.
Stateid == [kind : {"open", "lock", "deleg"}, object : Object, by : {"fh", "stateid"}]
\* What a client may name itself: state of files and of their named attributes.
Held == {s \in Stateid : /\ s.by = "fh" /\ s.kind # "deleg"
                         /\ s.object.type # "attrdir" /\ s.object.id # Fs!Root}

ASSUME CompoundAssumption ==
    MaxId \in Nat \ {0} /\ None \notin Object /\ None \notin Stateid /\ Anonymous \notin Stateid

Returned(kind, object) == [kind |-> kind, object |-> object, by |-> "fh"]

\* Operations that may stand alone without SEQUENCE.
allows_compound_without_sequence ==
    {"EXCHANGE_ID", "CREATE_SESSION", "DESTROY_SESSION", "DESTROY_CLIENTID", "BIND_CONN_TO_SESSION"}
First == allows_compound_without_sequence \cup {"SEQUENCE", "other"}

\* CompoundExecutionState, with the locals of handle_compound and op_open.
\* Version 2 is handled as version 1.
Request ==
    [pc : {"idle", "begun", "op", "creating", "opening"}, minor : {0, 1}, first : First,
     only : BOOLEAN,      \* total_ops = 1
     later : BOOLEAN,     \* idx > 0
     client : BOOLEAN,    \* leading_sequence_clientid is Some
     ended : BOOLEAN,     \* this COMPOUND destroyed its own session
     current_fh : Object \cup {None}, current_stateid : Stateid \cup {Anonymous, None},
     saved_fh : Object \cup {None}, saved_stateid : Stateid \cup {Anonymous, None},
     claim : Name \cup XattrName \cup {None},   \* the name OPEN is creating
     target : Object \cup {None}]             \* what OPEN is opening

Idle == [pc |-> "idle", minor |-> 0, first |-> "other", only |-> FALSE, later |-> FALSE,
         client |-> FALSE, ended |-> FALSE, current_fh |-> None, current_stateid |-> None,
         saved_fh |-> None, saved_stateid |-> None, claim |-> None, target |-> None]

TypeOK == Fs!TypeOK /\ session \in BOOLEAN /\ req \in Request

Init == Fs!Init /\ session = TRUE /\ req = Idle

-----------------------------------------------------------------------------
(* handle_compound.                                                         *)

\* The first operation of a COMPOUND of minor version 1 or 2 is SEQUENCE, or one
\* that may stand alone and does.
Admits(minor, first, only) ==
    minor # 0 /\ first # "SEQUENCE" => first \in allows_compound_without_sequence /\ only

\* A leading SEQUENCE is answered by prepare_sequence, under the state lock, before
\* handle_compound runs.  In minor version 0 a SEQUENCE fails, and any other
\* operation may come first.
Begin(minor, first, only) ==
    /\ req.pc = "idle"
    /\ Admits(minor, first, only)
    /\ first = "SEQUENCE" => session /\ ~only
    /\ minor = 0 => first = "other"
    /\ req' = [Idle EXCEPT !.pc = IF first = "SEQUENCE" THEN "begun" ELSE "op",
                           !.minor = minor, !.first = first, !.only = only,
                           !.later = (first = "SEQUENCE")]
    /\ UNCHANGED <<backend, session>>

\* session_clientid, under another guard of that lock.
FindClient ==
    /\ req.pc = "begun"
    /\ req' = [req EXCEPT !.pc = "op", !.client = session]
    /\ UNCHANGED <<backend, session>>

\* The operation was the last one, or the next one follows.
Proceed(r, last) ==
    /\ req.only => last
    /\ ~req.only /\ ~req.later => ~last
    /\ req' = IF last THEN Idle ELSE [r EXCEPT !.pc = "op", !.later = TRUE, !.claim = None, !.target = None]

\* An operation failed: nothing after it runs.  Every early return of a handler
\* ends here, as do SEQUENCE and BIND_CONN_TO_SESSION after the first operation.
Fail ==
    /\ req.pc \in {"op", "creating", "opening"}
    /\ req' = Idle
    /\ UNCHANGED <<backend, session>>

SetsFh == {"PUTFH", "PUTPUBFH", "PUTROOTFH", "LOOKUP", "LOOKUPP", "CREATE", "OPENATTR",
           "SECINFO_NO_NAME"}

\* Mutant: RESTOREFH leaves the current stateid alone.
RestoresFhOnly(op, r, stateid) ==
    LET s == IF stateid = None THEN r ELSE [r EXCEPT !.current_stateid = stateid]
    IN CASE op = "SAVEFH" -> [s EXCEPT !.saved_fh = s.current_fh, !.saved_stateid = s.current_stateid]
         [] op \in SetsFh ->
              [s EXCEPT !.current_stateid = IF s.current_fh = None THEN None ELSE Anonymous]
         [] OTHER -> s

\* After an operation that succeeded, r being the state its handler left and
\* stateid the one it returned, if any (returned_stateid).
apply_compound_state_transition(op, r, stateid) ==
    LET s == IF stateid = None THEN r ELSE [r EXCEPT !.current_stateid = stateid]
    IN CASE op = "SAVEFH" -> [s EXCEPT !.saved_fh = s.current_fh, !.saved_stateid = s.current_stateid]
         [] op = "RESTOREFH" -> [s EXCEPT !.current_stateid = s.saved_stateid]
         [] op \in SetsFh ->
              [s EXCEPT !.current_stateid = IF s.current_fh = None THEN None ELSE Anonymous]
         [] OTHER -> s

Ready == req.pc = "op" /\ req.first \notin allows_compound_without_sequence
Succeed(op, fh, stateid) ==
    \E last \in BOOLEAN :
      Proceed(apply_compound_state_transition(op, [req EXCEPT !.current_fh = fh], stateid), last)

-----------------------------------------------------------------------------
(* Filehandles.                                                             *)

\* fh_has_valid_format lets any handle through; what it stands for is looked up
\* by the operation that uses it.
Putfh(object) ==
    /\ Ready /\ object.id < next_id
    /\ Succeed("PUTFH", object, None)
    /\ UNCHANGED <<backend, session>>

\* PUTPUBFH and PUTROOTFH.
Putrootfh ==
    /\ Ready
    /\ Succeed("PUTROOTFH", FsObject(Fs!Root), None)
    /\ UNCHANGED <<backend, session>>

Savefh ==
    /\ Ready /\ req.current_fh # None
    /\ Succeed("SAVEFH", req.current_fh, None)
    /\ UNCHANGED <<backend, session>>

Restorefh ==
    /\ Ready /\ req.saved_fh # None
    /\ Succeed("RESTOREFH", req.saved_fh, None)
    /\ UNCHANGED <<backend, session>>

IsFs(fh) == fh # None /\ fh.type = "fs"
IsAttrDir(fh) == fh # None /\ fh.type = "attrdir"
IsAttrFile(fh) == fh # None /\ fh.type = "attrfile"
\* build_attr finds the object.
Exists(object) == Fs!Live(object.id)
                  /\ (object.type = "attrfile" => object.name \in inodes[object.id].xattrs)
IsFileLike(object) == IsAttrFile(object) \/ (IsFs(object) /\ ~Fs!IsDir(object.id))

Lookup(child) ==
    /\ Ready
    /\ \/ IsFs(req.current_fh) /\ \E n \in Name : child = FsObject(Fs!Lookup(req.current_fh.id, n))
       \/ /\ IsAttrDir(req.current_fh)
          /\ \E x \in XattrName : child = AttrFile(req.current_fh.id, x)
    /\ child.id # 0 /\ Exists(child)
    /\ Succeed("LOOKUP", child, None)
    /\ UNCHANGED <<backend, session>>

\* lookup_parent returns the backend's parent of a directory.
Lookupp(parent) ==
    /\ Ready /\ req.current_fh # FsObject(Fs!Root)
    /\ \/ IsFs(req.current_fh) /\ Fs!Parent(req.current_fh.id) # 0
          /\ parent = FsObject(Fs!Parent(req.current_fh.id))
       \/ IsAttrDir(req.current_fh) /\ parent = FsObject(req.current_fh.id)
       \/ IsAttrFile(req.current_fh) /\ parent = AttrDir(req.current_fh.id)
    /\ Succeed("LOOKUPP", parent, None)
    /\ UNCHANGED <<backend, session>>

Openattr ==
    /\ Ready /\ IsFs(req.current_fh)
    /\ Succeed("OPENATTR", AttrDir(req.current_fh.id), None)
    /\ UNCHANGED <<backend, session>>

\* Style 1 asks about the parent.  Either style consumes the current filehandle.
SecinfoNoName(style) ==
    /\ Ready /\ req.current_fh # None
    /\ style = 1 /\ IsFs(req.current_fh) =>
         req.current_fh.id # Fs!Root /\ Fs!Parent(req.current_fh.id) # 0
    /\ Succeed("SECINFO_NO_NAME", None, None)
    /\ UNCHANGED <<backend, session>>

-----------------------------------------------------------------------------
(* Names.  Each handler's earlier getattr finds nothing the backend call does  *)
(* not find again.                                                             *)

\* id is a number drawn when the call began (MemFs!TakeId).  A call the backend
\* refuses uses it up.  The attributes it sets are left out.
Create(id, n, kind) ==
    /\ Ready /\ IsFs(req.current_fh)
    /\ Fs!Make(id, req.current_fh.id, n, kind, "none")
    /\ IF inodes' = inodes THEN req' = Idle ELSE Succeed("CREATE", FsObject(id), None)
    /\ UNCHANGED session

Link(n) ==
    /\ Ready /\ IsFs(req.current_fh) /\ IsFs(req.saved_fh)
    /\ Fs!Link(req.saved_fh.id, req.current_fh.id, n)
    /\ Succeed("LINK", req.current_fh, None)
    /\ UNCHANGED session

\* A name in a directory, or of a named attribute.
Remove ==
    /\ Ready
    /\ \/ IsFs(req.current_fh) /\ \E n \in Name : Fs!Remove(req.current_fh.id, n)
       \/ IsAttrDir(req.current_fh) /\ \E x \in XattrName : Fs!RemoveXattr(req.current_fh.id, x)
    /\ Succeed("REMOVE", req.current_fh, None)
    /\ UNCHANGED session

Rename(fn, tn) ==
    /\ Ready /\ IsFs(req.current_fh) /\ IsFs(req.saved_fh)
    /\ Fs!Rename(req.saved_fh.id, fn, req.current_fh.id, tn)
    /\ Succeed("RENAME", req.current_fh, None)
    /\ UNCHANGED session

-----------------------------------------------------------------------------
(* OPEN and the operations on stateids.                                     *)

\* The object is found by name in a directory or an attribute directory; a missing
\* name may be created.
OpenName(claim, create) ==
    LET fh == req.current_fh
        found == IF IsFs(fh) THEN FsObject(Fs!Lookup(fh.id, claim)) ELSE AttrFile(fh.id, claim) IN
    /\ Ready
    /\ \/ IsFs(fh) /\ Fs!IsDir(fh.id) /\ claim \in Name
       \/ IsAttrDir(fh) /\ Fs!Live(fh.id) /\ claim \in XattrName
    /\ \/ /\ found.id # 0 /\ Exists(found)
          /\ req' = [req EXCEPT !.pc = "opening", !.target = found]
       \/ /\ found.id = 0 \/ ~Exists(found)
          /\ create
          /\ req' = [req EXCEPT !.pc = "creating", !.claim = claim]
    /\ UNCHANGED <<backend, session>>

\* Claim FH, and the claims that reclaim: the current filehandle's object.
OpenFh ==
    /\ Ready /\ req.current_fh # None
    /\ req' = [req EXCEPT !.pc = "opening", !.target = req.current_fh]
    /\ UNCHANGED <<backend, session>>

\* create_file in a directory, set_xattr in an attribute directory.
OpenCreate ==
    /\ req.pc = "creating"
    /\ \/ /\ IsFs(req.current_fh)
          /\ \E id \in Fs!Id :
               /\ Fs!Make(id, req.current_fh.id, req.claim, "file", "none")
               /\ req' = IF inodes' = inodes THEN Idle
                         ELSE [req EXCEPT !.pc = "opening", !.target = FsObject(id)]
       \/ /\ IsAttrDir(req.current_fh)
          /\ \E mode \in {"create", "either"} : Fs!SetXattr(req.current_fh.id, req.claim, mode)
          /\ req' = [req EXCEPT !.pc = "opening", !.target = AttrFile(req.current_fh.id, req.claim)]
    /\ UNCHANGED session

\* build_attr, create_open_state and object_to_fh.
OpenState ==
    /\ req.pc = "opening"
    /\ Exists(req.target) /\ IsFileLike(req.target)
    /\ Succeed("OPEN", req.target, Returned("open", req.target))
    /\ UNCHANGED <<backend, session>>

\* normalize_stateid: None where it fails, or the special stateids are refused.
normalize_stateid(arg) ==
    IF arg # Current THEN arg
    ELSE IF req.current_stateid = Anonymous THEN None ELSE req.current_stateid

\* The stateid resolves to state of the current filehandle's object.
OfCurrentFh(arg, kinds) ==
    /\ normalize_stateid(arg) # None
    /\ normalize_stateid(arg).kind \in kinds
    /\ normalize_stateid(arg).object = req.current_fh

Close(arg) ==
    /\ Ready /\ OfCurrentFh(arg, {"open"})
    /\ Succeed("CLOSE", req.current_fh, [normalize_stateid(arg) EXCEPT !.by = "fh"])
    /\ UNCHANGED <<backend, session>>

\* With a new lock owner the stateid is an open's, else a lock's.  LOCK and LOCKU
\* need the client SEQUENCE named.
Lock(arg) ==
    /\ Ready /\ req.client /\ OfCurrentFh(arg, {"open", "lock"})
    /\ Exists(req.current_fh) /\ IsFileLike(req.current_fh)
    /\ Succeed("LOCK", req.current_fh, Returned("lock", req.current_fh))
    /\ UNCHANGED <<backend, session>>

Locku(arg) ==
    /\ Ready /\ req.client /\ OfCurrentFh(arg, {"lock"})
    /\ Succeed("LOCKU", req.current_fh, Returned("lock", req.current_fh))
    /\ UNCHANGED <<backend, session>>

\* OPEN_DOWNGRADE does not look at the current filehandle.
OpenDowngrade(arg) ==
    /\ Ready /\ normalize_stateid(arg) # None /\ normalize_stateid(arg).kind = "open"
    /\ Succeed("OPEN_DOWNGRADE", req.current_fh,
               [normalize_stateid(arg) EXCEPT !.by = IF normalize_stateid(arg).object = req.current_fh THEN "fh" ELSE "stateid"])
    /\ UNCHANGED <<backend, session>>

GetDirDelegation ==
    /\ Ready /\ req.minor # 0 /\ req.client
    /\ IsFs(req.current_fh) /\ Fs!IsDir(req.current_fh.id)
    /\ Succeed("GET_DIR_DELEGATION", req.current_fh, Returned("deleg", req.current_fh))
    /\ UNCHANGED <<backend, session>>

\* Operations that set neither filehandle nor stateid: WRITE, SETATTR, SETXATTR and
\* REMOVEXATTR change the current file, the others nothing here.
Other ==
    /\ Ready
    /\ \/ UNCHANGED backend
       \/ /\ IsFs(req.current_fh)
          /\ \/ Fs!SetMode(req.current_fh.id)
             \/ \E x \in XattrName : Fs!SetXattr(req.current_fh.id, x, "either")
                                    \/ Fs!RemoveXattr(req.current_fh.id, x)
    /\ Succeed("other", req.current_fh, None)
    /\ UNCHANGED session

-----------------------------------------------------------------------------
(* Sessions.                                                                *)

\* Mutant: a COMPOUND may go on after it destroyed its own session.
DestroyAnywhere(last) ==
    /\ req.pc = "op" /\ session
    /\ req.first \in {"SEQUENCE", "DESTROY_SESSION", "other"}
    /\ session' = FALSE
    /\ Proceed([req EXCEPT !.ended = (req.first = "SEQUENCE")], last)
    /\ UNCHANGED backend

\* DESTROY_SESSION of the session the leading SEQUENCE named comes last.
DestroySessionOp(last) ==
    /\ req.pc = "op" /\ session
    /\ req.first \in {"SEQUENCE", "DESTROY_SESSION", "other"}
    /\ req.first = "SEQUENCE" => last
    /\ session' = FALSE
    /\ Proceed([req EXCEPT !.ended = (req.first = "SEQUENCE")], last)
    /\ UNCHANGED backend

\* EXCHANGE_ID, CREATE_SESSION, DESTROY_CLIENTID of another client and, alone or
\* first, BIND_CONN_TO_SESSION.
SessionOp(op) ==
    /\ req.pc = "op"
    /\ req.first \in {"SEQUENCE", "other", op}
    /\ op = "BIND_CONN_TO_SESSION" => ~req.later /\ session
    /\ session' = (session \/ op = "CREATE_SESSION")
    /\ \E last \in BOOLEAN : Proceed(req, last)
    /\ UNCHANGED backend

\* Other connections of the client, and its lease running out.  Once session_clientid
\* has returned only DESTROY_SESSION and BIND_CONN_TO_SESSION look at the session
\* again, and fail (Fail) if it is gone.
SessionElsewhere ==
    /\ req.pc \in {"idle", "begun"}
    /\ session' \in BOOLEAN
    /\ session' # session
    /\ UNCHANGED <<backend, req>>

\* Other requests, as far as a COMPOUND can see what they do.
BackendElsewhere ==
    /\ \/ Fs!TakeId
       \/ \E id, p \in Fs!Id, n \in Name, kind \in Fs!Kind : Fs!Make(id, p, n, kind, "none")
       \/ Fs!Names
       \/ \E i \in Fs!Id, x \in XattrName : Fs!SetXattr(i, x, "create") \/ Fs!RemoveXattr(i, x)
    /\ UNCHANGED <<session, req>>

FilehandleOp ==
    \/ \E object \in Object : Putfh(object) \/ Lookup(object) \/ Lookupp(object)
    \/ Putrootfh \/ Savefh \/ Restorefh \/ Openattr
    \/ \E style \in {0, 1} : SecinfoNoName(style)

NameOp ==
    \/ \E id \in Fs!Id, n \in Name, kind \in {"dir", "symlink"} : Create(id, n, kind)
    \/ \E n \in Name : Link(n)
    \/ Remove
    \/ \E fn, tn \in Name : Rename(fn, tn)

StateOp ==
    \/ \E claim \in Name \cup XattrName, create \in BOOLEAN : OpenName(claim, create)
    \/ OpenFh \/ OpenCreate \/ OpenState
    \/ \E arg \in Held \cup {Current} : Close(arg) \/ Lock(arg) \/ Locku(arg) \/ OpenDowngrade(arg)
    \/ GetDirDelegation \/ Other

Next ==
    \/ \E minor \in {0, 1}, first \in First, only \in BOOLEAN : Begin(minor, first, only)
    \/ FindClient \/ Fail
    \/ FilehandleOp \/ NameOp \/ StateOp
    \/ \E last \in BOOLEAN : DestroySessionOp(last)
    \/ \E op \in allows_compound_without_sequence \ {"DESTROY_SESSION"} : SessionOp(op)
    \/ SessionElsewhere \/ BackendElsewhere

Spec == Init /\ [][Next]_vars

-----------------------------------------------------------------------------
(* Properties.                                                              *)

\* Each filehandle keeps its stateid.  SAVEFH, RESTOREFH and every operation that
\* replaces the current filehandle replace the stateid with it: a stateid that an
\* operation returned for the current filehandle, used as the current stateid later
\* in the COMPOUND, is state of the filehandle then current.
Fits(fh, stateid) == stateid \in Stateid /\ stateid.by = "fh" => stateid.object = fh
StateidsFollowFilehandles ==
    Fits(req.current_fh, req.current_stateid) /\ Fits(req.saved_fh, req.saved_stateid)

\* In minor versions 1 and 2 an operation runs under the session that a leading
\* SEQUENCE named and this COMPOUND has not destroyed, or alone.
OperationsRunInSession ==
    req.pc \in {"op", "creating", "opening"} /\ req.minor # 0 =>
      \/ req.first = "SEQUENCE" /\ ~req.ended
      \/ req.first \in allows_compound_without_sequence /\ req.only /\ ~req.later

\* A handler of a COMPOUND that SEQUENCE began knows its client.
SequencedHaveClients ==
    req.pc \in {"op", "creating", "opening"} /\ req.first = "SEQUENCE" => req.client
=============================================================================
