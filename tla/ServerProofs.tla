---------------------------- MODULE ServerProofs ----------------------------
(***************************************************************************)
(* Proofs about the dispatch of a COMPOUND, for any backend tree, any      *)
(* names and any interference by other requests, and about client          *)
(* identities and leases, for any number of owners, verifiers, clients and *)
(* sessions and any lengths of lease and retention.                        *)
(***************************************************************************)
EXTENDS Compound, Leases, TLAPS

-----------------------------------------------------------------------------
(* The dispatch of a COMPOUND.                                              *)

Running == {"op", "creating", "opening"}

\* The inductive invariant: what OPEN has found out so far, the filehandles with their
\* stateids, and the session.
Inv ==
    /\ req \in Request
    /\ req.pc = "creating" /\ IsAttrDir(req.current_fh) => req.claim \in XattrName
    /\ req.pc = "opening" => req.target \in Object
    /\ req.pc = "begun" => req.first = "SEQUENCE"
    /\ ~req.ended
    /\ StateidsFollowFilehandles
    /\ OperationsRunInSession

\* What the handlers leave alone.
SameHead(r, s) ==
    r.minor = s.minor /\ r.first = s.first /\ r.only = s.only /\ r.ended = s.ended

LEMMA RequestFields ==
    ASSUME NEW r \in Request
    PROVE  /\ r.pc \in {"idle", "begun", "op", "creating", "opening"} /\ r.minor \in {0, 1}
           /\ r.first \in First /\ r.only \in BOOLEAN /\ r.later \in BOOLEAN
           /\ r.client \in BOOLEAN /\ r.ended \in BOOLEAN
           /\ r.current_fh \in Object \cup {None} /\ r.saved_fh \in Object \cup {None}
           /\ r.current_stateid \in Stateid \cup {Anonymous, None}
           /\ r.saved_stateid \in Stateid \cup {Anonymous, None}
           /\ r.claim \in Name \cup XattrName \cup {None} /\ r.target \in Object \cup {None}
BY ZenonT(30) DEF Request

\* A request that begins.
Begun(pc, minor, first, only, later) ==
    [Idle EXCEPT !.pc = pc, !.minor = minor, !.first = first, !.only = only, !.later = later]

Begins(r, pc, minor, first, only, later) ==
    /\ r \in Request /\ r.pc = pc /\ r.minor = minor /\ r.first = first
    /\ r.only = only /\ r.later = later /\ r.ended = FALSE
    /\ r.current_stateid = None /\ r.saved_stateid = None

LEMMA BegunFields ==
    ASSUME NEW pc \in {"begun", "op"}, NEW minor \in {0, 1}, NEW first \in First,
           NEW only \in BOOLEAN, NEW later \in BOOLEAN
    PROVE  Begins(Begun(pc, minor, first, only, later), pc, minor, first, only, later)
<1>0. PICK r : r = Begun(pc, minor, first, only, later)
  BY Zenon
<1>1. r = [pc |-> pc, minor |-> minor, first |-> first, only |-> only, later |-> later,
           client |-> FALSE, ended |-> FALSE, current_fh |-> None, current_stateid |-> None,
           saved_fh |-> None, saved_stateid |-> None, claim |-> None, target |-> None]
  BY <1>0 DEF Begun, Idle
<1>2. Begins(r, pc, minor, first, only, later)
  BY <1>1 DEF Request, Begins
<1> QED BY <1>0, <1>2, Zenon

LEMMA IdleInv ==
    ASSUME req' = Idle
    PROVE  Inv'
<1>1. Idle \in Request
  BY ZenonT(30) DEF Idle, Request, First
<1>2. /\ Idle.pc = "idle" /\ Idle.current_stateid = None /\ Idle.saved_stateid = None
      /\ Idle.ended = FALSE
  BY ZenonT(30) DEF Idle
<1> QED
  BY ZenonT(30), <1>1, <1>2, CompoundAssumption
     DEF Inv, StateidsFollowFilehandles, Fits, OperationsRunInSession

\* The COMPOUND goes on, in an operation or with the next one.
LEMMA GoOn ==
    ASSUME Inv, req.pc \in Running, NEW r \in Request, SameHead(r, req), req' = r,
           r.pc \in Running, r.later = req.later \/ ~req.only,
           r.pc = "creating" /\ IsAttrDir(r.current_fh) => r.claim \in XattrName,
           r.pc = "opening" => r.target \in Object,
           Fits(r.current_fh, r.current_stateid), Fits(r.saved_fh, r.saved_stateid)
    PROVE  Inv'
<1>1. StateidsFollowFilehandles'
  BY ZenonT(30) DEF StateidsFollowFilehandles, Fits
<1>2. OperationsRunInSession'
  BY ZenonT(30) DEF Inv, OperationsRunInSession, SameHead, Running
<1>3. req' \in Request
  BY ZenonT(30)
<1>4. /\ req'.pc = "creating" /\ IsAttrDir(req'.current_fh) => req'.claim \in XattrName
      /\ req'.pc = "opening" => req'.target \in Object
      /\ req'.pc # "begun" /\ ~req'.ended
  BY ZenonT(30) DEF Running, SameHead, Inv
<1> QED
  BY ZenonT(30), <1>1, <1>2, <1>3, <1>4 DEF Inv, IsAttrDir

LEMMA ProceedInv ==
    ASSUME Inv, req.pc \in Running, NEW r \in Request, SameHead(r, req), NEW last \in BOOLEAN,
           Proceed(r, last),
           Fits(r.current_fh, r.current_stateid), Fits(r.saved_fh, r.saved_stateid)
    PROVE  Inv'
<1>1. CASE last
  BY ZenonT(30), <1>1, IdleInv DEF Proceed
<1>2. CASE ~last
  <2> DEFINE t == [r EXCEPT !.pc = "op", !.later = TRUE, !.claim = None, !.target = None]
  <2>1. req' = t /\ ~req.only
    BY ZenonT(30), <1>2 DEF Proceed
  <2>2. /\ t \in Request /\ t.pc = "op" /\ SameHead(t, r)
        /\ t.current_fh = r.current_fh /\ t.current_stateid = r.current_stateid
        /\ t.saved_fh = r.saved_fh /\ t.saved_stateid = r.saved_stateid
    BY ZenonT(30) DEF Request, SameHead
  <2> HIDE DEF t
  <2>3. SameHead(t, req) /\ t.pc \in Running
    BY ZenonT(30), <2>2 DEF SameHead, Running
  <2> QED
    BY ZenonT(30), <2>1, <2>2, <2>3, GoOn
<1> QED
  BY ZenonT(30), <1>1, <1>2

\* The stateid an operation leaves with filehandle fh, in the terms of
\* apply_compound_state_transition: one that fits, or that a rule replaces.
Matches(op, fh, stateid) ==
    \/ op \in SetsFh /\ stateid = None
    \/ op = "RESTOREFH" /\ stateid = None /\ fh = req.saved_fh
    \/ op \notin SetsFh \cup {"RESTOREFH"} /\ stateid = None /\ fh = req.current_fh
    \/ op \notin SetsFh \cup {"RESTOREFH"} /\ stateid \in Stateid /\ Fits(fh, stateid)

LEMMA TransitionFits ==
    ASSUME Inv, NEW op, NEW fh \in Object \cup {None}, NEW stateid, Matches(op, fh, stateid)
    PROVE  LET r == apply_compound_state_transition(op, [req EXCEPT !.current_fh = fh], stateid)
           IN  /\ r \in Request /\ SameHead(r, req)
               /\ Fits(r.current_fh, r.current_stateid) /\ Fits(r.saved_fh, r.saved_stateid)
<1> DEFINE q == [req EXCEPT !.current_fh = fh]
           s == IF stateid = None THEN q ELSE [q EXCEPT !.current_stateid = stateid]
           r == apply_compound_state_transition(op, q, stateid)
<1>1. /\ q \in Request /\ SameHead(q, req) /\ q.current_fh = fh /\ q.saved_fh = req.saved_fh
      /\ q.current_stateid = req.current_stateid /\ q.saved_stateid = req.saved_stateid
  BY ZenonT(30) DEF Inv, Request, SameHead
<1> HIDE DEF q
<1>2. stateid = None \/ stateid \in Stateid
  BY ZenonT(30) DEF Matches
<1>3. /\ s \in Request /\ SameHead(s, req) /\ s.current_fh = fh /\ s.saved_fh = req.saved_fh
      /\ s.saved_stateid = req.saved_stateid
      /\ s.current_stateid = IF stateid = None THEN req.current_stateid ELSE stateid
  <2>1. CASE stateid = None
    BY ZenonT(30), <1>1, <2>1
  <2>2. CASE stateid # None
    <3>1. s = [q EXCEPT !.current_stateid = stateid]
      BY ZenonT(30), <2>2
    <3> HIDE DEF s
    <3> QED
      BY ZenonT(30), <1>1, <1>2, <2>2, <3>1 DEF Request, SameHead
  <2> QED
    BY ZenonT(30), <2>1, <2>2
<1>4. r = CASE op = "SAVEFH" -> [s EXCEPT !.saved_fh = s.current_fh, !.saved_stateid = s.current_stateid]
            [] op = "RESTOREFH" -> [s EXCEPT !.current_stateid = s.saved_stateid]
            [] op \in SetsFh ->
                 [s EXCEPT !.current_stateid = IF s.current_fh = None THEN None ELSE Anonymous]
            [] OTHER -> s
  BY ZenonT(30) DEF apply_compound_state_transition
<1> HIDE DEF s, r
<1>5. Fits(req.current_fh, req.current_stateid) /\ Fits(req.saved_fh, req.saved_stateid)
  BY ZenonT(30) DEF Inv, StateidsFollowFilehandles
<1>6. /\ s.current_fh \in Object \cup {None} /\ s.saved_fh \in Object \cup {None}
      /\ s.current_stateid \in Stateid \cup {Anonymous, None}
      /\ s.saved_stateid \in Stateid \cup {Anonymous, None}
  BY ZenonT(30), <1>3, RequestFields
<1>7. CASE op = "SAVEFH"
  <2>1. r = [s EXCEPT !.saved_fh = s.current_fh, !.saved_stateid = s.current_stateid]
    BY ZenonT(30), <1>4, <1>7 DEF SetsFh
  <2>2. /\ r \in Request /\ SameHead(r, req)
        /\ r.current_fh = s.current_fh /\ r.current_stateid = s.current_stateid
        /\ r.saved_fh = s.current_fh /\ r.saved_stateid = s.current_stateid
    BY ZenonT(30), <1>3, <1>6, <2>1 DEF Request, SameHead
  <2>3. Fits(s.current_fh, s.current_stateid)
    BY ZenonT(30), <1>2, <1>3, <1>5, <1>7, CompoundAssumption DEF Matches, SetsFh
  <2>4. Fits(r.current_fh, r.current_stateid) /\ Fits(r.saved_fh, r.saved_stateid)
    BY ZenonT(30), <2>2, <2>3
  <2> QED
    BY ZenonT(30), <2>2, <2>4 DEF r, q
<1>8. CASE op = "RESTOREFH"
  <2>1. r = [s EXCEPT !.current_stateid = s.saved_stateid]
    BY ZenonT(30), <1>4, <1>8 DEF SetsFh
  <2>2. /\ r \in Request /\ SameHead(r, req)
        /\ r.current_fh = s.current_fh /\ r.current_stateid = s.saved_stateid
        /\ r.saved_fh = s.saved_fh /\ r.saved_stateid = s.saved_stateid
    BY ZenonT(30), <1>3, <1>6, <2>1 DEF Request, SameHead
  <2>3. s.current_fh = s.saved_fh
    BY ZenonT(30), <1>3, <1>8 DEF Matches, SetsFh
  <2>4. Fits(r.current_fh, r.current_stateid) /\ Fits(r.saved_fh, r.saved_stateid)
    BY ZenonT(30), <1>3, <1>5, <2>2, <2>3
  <2> QED
    BY ZenonT(30), <2>2, <2>4 DEF r, q
<1>9. CASE op \in SetsFh
  <2> DEFINE n == IF s.current_fh = None THEN None ELSE Anonymous
  <2>1. r = [s EXCEPT !.current_stateid = n] /\ n \in {Anonymous, None}
    BY ZenonT(30), <1>4, <1>9 DEF SetsFh
  <2> HIDE DEF n
  <2>2. /\ r \in Request /\ SameHead(r, req)
        /\ r.current_fh = s.current_fh /\ r.current_stateid = n
        /\ r.saved_fh = s.saved_fh /\ r.saved_stateid = s.saved_stateid
    BY ZenonT(30), <1>3, <1>6, <2>1 DEF Request, SameHead
  <2>3. Fits(r.current_fh, r.current_stateid)
    BY ZenonT(30), <2>1, <2>2, CompoundAssumption DEF Fits
  <2>4. Fits(r.saved_fh, r.saved_stateid)
    BY ZenonT(30), <1>3, <1>5, <2>2
  <2> QED
    BY ZenonT(30), <2>2, <2>3, <2>4 DEF r, q
<1>10. CASE op \notin SetsFh \cup {"SAVEFH", "RESTOREFH"}
  <2>1. r = s
    BY ZenonT(30), <1>4, <1>10
  <2>2. Fits(s.current_fh, s.current_stateid)
    BY ZenonT(30), <1>2, <1>3, <1>5, <1>10, CompoundAssumption DEF Matches
  <2>3. Fits(s.saved_fh, s.saved_stateid)
    BY ZenonT(30), <1>3, <1>5
  <2> QED
    BY ZenonT(30), <1>3, <2>1, <2>2, <2>3 DEF r, q
<1> QED
  BY ZenonT(30), <1>7, <1>8, <1>9, <1>10

LEMMA SucceedInv ==
    ASSUME Inv, req.pc \in Running, NEW op, NEW fh \in Object \cup {None}, NEW stateid,
           Matches(op, fh, stateid), Succeed(op, fh, stateid)
    PROVE  Inv'
<1> DEFINE r == apply_compound_state_transition(op, [req EXCEPT !.current_fh = fh], stateid)
<1>1. PICK last \in BOOLEAN : Proceed(r, last)
  BY ZenonT(30) DEF Succeed
<1>2. /\ r \in Request /\ SameHead(r, req)
      /\ Fits(r.current_fh, r.current_stateid) /\ Fits(r.saved_fh, r.saved_stateid)
  BY ZenonT(30), TransitionFits
<1> HIDE DEF r
<1> QED
  BY ZenonT(30), <1>1, <1>2, ProceedInv

-----------------------------------------------------------------------------
(* The operations.                                                          *)

LEMMA Objects ==
    /\ \A i \in Fs!Id : FsObject(i) \in Object /\ AttrDir(i) \in Object
    /\ \A i \in Fs!Id, x \in XattrName : AttrFile(i, x) \in Object
    /\ \A o \in Object : o.id \in Fs!Id /\ (o.type = "attrfile" => o.name \in XattrName)
BY ZenonT(30) DEF Object, FsObject, AttrDir, AttrFile

LEMMA FilehandleOpStep ==
    ASSUME Inv, FilehandleOp
    PROVE  Inv'
<1> USE DEF Matches, SetsFh
<1>1. /\ Ready /\ req.pc \in Running
      /\ req.current_fh \in Object \cup {None} /\ req.saved_fh \in Object \cup {None}
  <2>1. Ready
    BY ZenonT(30) DEF FilehandleOp, Putfh, Lookup, Lookupp, Putrootfh, Savefh, Restorefh, Openattr,
           SecinfoNoName
  <2> QED
    BY ZenonT(30), <2>1, RequestFields DEF Inv, Ready, Running
<1>2. ASSUME NEW object \in Object, Putfh(object) \/ Lookup(object) \/ Lookupp(object)
      PROVE  Inv'
  <2>1. \E op \in {"PUTFH", "LOOKUP", "LOOKUPP"} : Succeed(op, object, None)
    BY ZenonT(30), <1>2 DEF Putfh, Lookup, Lookupp
  <2> QED
    BY ZenonT(30), <1>1, <2>1, SucceedInv
<1>3. CASE Putrootfh
  <2>1. Fs!Root \in Fs!Id
    BY CompoundAssumption DEF Fs!Id, Fs!Root
  <2>2. Succeed("PUTROOTFH", FsObject(Fs!Root), None) /\ FsObject(Fs!Root) \in Object
    BY ZenonT(30), <1>3, <2>1, Objects DEF Putrootfh
  <2> QED
    BY ZenonT(30), <1>1, <2>2, SucceedInv
<1>4. CASE Savefh
  <2>1. Succeed("SAVEFH", req.current_fh, None)
    BY ZenonT(30), <1>4 DEF Savefh
  <2> QED
    BY ZenonT(30), <1>1, <2>1, SucceedInv
<1>5. CASE Restorefh
  <2>1. Succeed("RESTOREFH", req.saved_fh, None)
    BY ZenonT(30), <1>5 DEF Restorefh
  <2> QED
    BY ZenonT(30), <1>1, <2>1, SucceedInv
<1>6. CASE Openattr
  <2>1. Succeed("OPENATTR", AttrDir(req.current_fh.id), None) /\ AttrDir(req.current_fh.id) \in Object
    BY ZenonT(30), <1>1, <1>6, Objects DEF Openattr, IsFs
  <2> QED
    BY ZenonT(30), <1>1, <2>1, SucceedInv
<1>7. ASSUME NEW style \in {0, 1}, SecinfoNoName(style)
      PROVE  Inv'
  <2>1. Succeed("SECINFO_NO_NAME", None, None)
    BY ZenonT(30), <1>7 DEF SecinfoNoName
  <2> QED
    BY ZenonT(30), <1>1, <2>1, SucceedInv
<1> QED
  BY ZenonT(30), <1>2, <1>3, <1>4, <1>5, <1>6, <1>7 DEF FilehandleOp

LEMMA NameOpStep ==
    ASSUME Inv, NameOp
    PROVE  Inv'
<1> USE DEF Matches, SetsFh
<1>1. req.pc \in Running /\ req.current_fh \in Object \cup {None}
  <2>1. Ready
    BY ZenonT(30) DEF NameOp, Create, Link, Remove, Rename
  <2> QED
    BY ZenonT(30), <2>1, RequestFields DEF Inv, Ready, Running
<1>2. ASSUME NEW id \in Fs!Id, NEW n \in Name, NEW kind \in {"dir", "symlink"}, Create(id, n, kind)
      PROVE  Inv'
  <2>1. req' = Idle \/ Succeed("CREATE", FsObject(id), None)
    BY ZenonT(30), <1>2 DEF Create
  <2>2. FsObject(id) \in Object
    BY ZenonT(30), Objects
  <2> QED
    BY ZenonT(30), <1>1, <2>1, <2>2, SucceedInv, IdleInv
<1>3. CASE (\E n \in Name : Link(n)) \/ Remove \/ (\E fn, tn \in Name : Rename(fn, tn))
  <2>1. \E op \in {"LINK", "REMOVE", "RENAME"} : Succeed(op, req.current_fh, None)
    BY ZenonT(30), <1>3 DEF Link, Remove, Rename
  <2> QED
    BY ZenonT(30), <1>1, <2>1, SucceedInv
<1> QED
  BY ZenonT(30), <1>2, <1>3 DEF NameOp

\* What a handler takes the object from, or finds.
LEMMA OpenSteps ==
    ASSUME Inv,
           \/ \E claim \in Name \cup XattrName, create \in BOOLEAN : OpenName(claim, create)
           \/ OpenFh \/ OpenCreate
    PROVE  Inv'
<1>1. /\ req \in Request /\ req.pc \in Running /\ req.current_fh \in Object \cup {None}
      /\ Fits(req.current_fh, req.current_stateid) /\ Fits(req.saved_fh, req.saved_stateid)
  BY ZenonT(30), RequestFields DEF Inv, StateidsFollowFilehandles, OpenName, OpenFh, OpenCreate, Ready, Running
<1>2. ASSUME NEW target \in Object, req' = [req EXCEPT !.pc = "opening", !.target = target]
      PROVE  Inv'
  <2> DEFINE r == [req EXCEPT !.pc = "opening", !.target = target]
  <2>1. /\ r \in Request /\ SameHead(r, req) /\ r.pc = "opening" /\ r.later = req.later
        /\ r.target = target
        /\ r.current_fh = req.current_fh /\ r.current_stateid = req.current_stateid
        /\ r.saved_fh = req.saved_fh /\ r.saved_stateid = req.saved_stateid
    BY ZenonT(30), <1>1 DEF Request, SameHead
  <2>2. req' = r
    BY ZenonT(30), <1>2
  <2> HIDE DEF r
  <2>3. r.pc \in Running /\ r.pc # "creating"
    BY ZenonT(30), <2>1 DEF Running
  <2> QED
    BY ZenonT(30), <1>1, <2>1, <2>2, <2>3, GoOn
<1>3. ASSUME NEW claim \in Name \cup XattrName, NEW create \in BOOLEAN, OpenName(claim, create)
      PROVE  Inv'
  <2> DEFINE fh == req.current_fh
             found == IF IsFs(fh) THEN FsObject(Fs!Lookup(fh.id, claim)) ELSE AttrFile(fh.id, claim)
  <2>1. /\ \/ IsFs(fh) /\ claim \in Name
           \/ IsAttrDir(fh) /\ Fs!Live(fh.id) /\ claim \in XattrName
        /\ \/ Exists(found) /\ req' = [req EXCEPT !.pc = "opening", !.target = found]
           \/ req' = [req EXCEPT !.pc = "creating", !.claim = claim]
    BY ZenonT(30), <1>3 DEF OpenName
  <2>2. ASSUME Exists(found)
        PROVE  found \in Object
    <3>1. CASE IsFs(fh)
      <4>1. found = FsObject(Fs!Lookup(fh.id, claim))
        BY ZenonT(30), <3>1
      <4>2. Fs!Lookup(fh.id, claim) \in Fs!Id
        BY <2>2, <4>1 DEF Exists, FsObject, Fs!Live
      <4> QED
        BY ZenonT(30), <4>1, <4>2, Objects
    <3>2. CASE ~IsFs(fh)
      <4>1. found = AttrFile(fh.id, claim) /\ fh.id \in Fs!Id /\ claim \in XattrName
        BY ZenonT(30), <2>1, <3>2 DEF Fs!Live
      <4> QED
        BY ZenonT(30), <4>1, Objects
    <3> QED
      BY ZenonT(30), <3>1, <3>2
  <2> HIDE DEF found
  <2>3. ASSUME req' = [req EXCEPT !.pc = "creating", !.claim = claim]
        PROVE  Inv'
    <3> DEFINE r == [req EXCEPT !.pc = "creating", !.claim = claim]
    <3>1. /\ r \in Request /\ SameHead(r, req) /\ r.pc = "creating" /\ r.later = req.later
          /\ r.claim = claim
          /\ r.current_fh = req.current_fh /\ r.current_stateid = req.current_stateid
          /\ r.saved_fh = req.saved_fh /\ r.saved_stateid = req.saved_stateid
      BY ZenonT(30), <1>1 DEF Request, SameHead
    <3>2. req' = r
      BY ZenonT(30), <2>3
    <3> HIDE DEF r
    <3>3. r.pc \in Running /\ r.pc # "opening"
      BY ZenonT(30), <3>1 DEF Running
    <3>4. IsAttrDir(r.current_fh) => r.claim \in XattrName
      BY ZenonT(30), <2>1, <3>1 DEF IsAttrDir, IsFs
    <3> QED
      BY ZenonT(30), <1>1, <3>1, <3>2, <3>3, <3>4, GoOn
  <2> QED
    BY ZenonT(30), <1>2, <2>1, <2>2, <2>3
<1>4. CASE OpenFh
  <2>1. req.current_fh \in Object /\ req' = [req EXCEPT !.pc = "opening", !.target = req.current_fh]
    BY ZenonT(30), <1>1, <1>4 DEF OpenFh
  <2> QED
    BY ZenonT(30), <1>2, <2>1
<1>5. CASE OpenCreate
  <2>1. req.current_fh \in Object
    BY ZenonT(30), <1>1, <1>5 DEF OpenCreate, IsFs, IsAttrDir
  <2>2. \/ req' = Idle
        \/ \E id \in Fs!Id : req' = [req EXCEPT !.pc = "opening", !.target = FsObject(id)]
        \/ /\ IsAttrDir(req.current_fh)
           /\ req' = [req EXCEPT !.pc = "opening", !.target = AttrFile(req.current_fh.id, req.claim)]
    BY ZenonT(30), <1>5 DEF OpenCreate
  <2>3. /\ \A id \in Fs!Id : FsObject(id) \in Object
        /\ IsAttrDir(req.current_fh) => AttrFile(req.current_fh.id, req.claim) \in Object
    BY ZenonT(30), <1>5, <2>1, Objects DEF Inv, OpenCreate
  <2> QED
    BY ZenonT(30), <1>2, <2>2, <2>3, IdleInv
<1> QED
  BY ZenonT(30), <1>3, <1>4, <1>5

LEMMA StateOpStep ==
    ASSUME Inv, StateOp
    PROVE  Inv'
<1> USE DEF SetsFh
<1>1. /\ req.current_fh \in Object \cup {None}
      /\ req.current_stateid \in Stateid \cup {Anonymous, None}
      /\ req.pc = "opening" => req.target \in Object
  BY ZenonT(30), RequestFields DEF Inv
<1>2. \A kind \in {"open", "lock", "deleg"}, o \in Object :
        /\ Returned(kind, o) \in Stateid /\ Fits(o, Returned(kind, o))
  BY ZenonT(30) DEF Returned, Stateid, Fits
<1>3. ASSUME NEW arg \in Held \cup {Current}, normalize_stateid(arg) # None
      PROVE  normalize_stateid(arg) \in Stateid
  BY ZenonT(30), <1>1, <1>3 DEF Held, normalize_stateid
<1>4. CASE OpenState
  <2>1. req.pc \in Running /\ req.target \in Object
    BY ZenonT(30), <1>1, <1>4 DEF OpenState, Running
  <2>2. Succeed("OPEN", req.target, Returned("open", req.target))
    BY ZenonT(30), <1>4 DEF OpenState
  <2>3. Matches("OPEN", req.target, Returned("open", req.target))
    BY ZenonT(30), <1>2, <2>1 DEF Matches
  <2> QED
    BY ZenonT(30), <2>1, <2>2, <2>3, SucceedInv
<1>5. ASSUME NEW arg \in Held \cup {Current}, Close(arg)
      PROVE  Inv'
  <2> DEFINE n == normalize_stateid(arg)
             returned == [n EXCEPT !.by = "fh"]
  <2>1. /\ n \in Stateid /\ n.object = req.current_fh /\ req.pc \in Running
        /\ Succeed("CLOSE", req.current_fh, returned)
    BY ZenonT(30), <1>3, <1>5 DEF Close, OfCurrentFh, Ready, Running
  <2> HIDE DEF n
  <2>2. returned \in Stateid /\ returned.object = req.current_fh
    BY ZenonT(30), <2>1 DEF Stateid
  <2>3. Matches("CLOSE", req.current_fh, returned)
    BY ZenonT(30), <2>2 DEF Matches, Fits
  <2> HIDE DEF returned
  <2> QED
    BY ZenonT(30), <1>1, <2>1, <2>3, SucceedInv
<1>6. ASSUME NEW arg \in Held \cup {Current}, Lock(arg) \/ Locku(arg)
      PROVE  Inv'
  <2>1. /\ req.pc \in Running /\ normalize_stateid(arg) # None
        /\ normalize_stateid(arg).object = req.current_fh
        /\ \E op \in {"LOCK", "LOCKU"} : Succeed(op, req.current_fh, Returned("lock", req.current_fh))
    BY ZenonT(30), <1>6 DEF Lock, Locku, OfCurrentFh, Ready, Running
  <2>2. req.current_fh \in Object
    BY ZenonT(30), <1>3, <2>1 DEF Stateid
  <2>3. \A op \in {"LOCK", "LOCKU"} : Matches(op, req.current_fh, Returned("lock", req.current_fh))
    BY ZenonT(30), <1>2, <2>2 DEF Matches
  <2> QED
    BY ZenonT(30), <1>1, <2>1, <2>3, SucceedInv
<1>7. ASSUME NEW arg \in Held \cup {Current}, OpenDowngrade(arg)
      PROVE  Inv'
  <2> DEFINE n == normalize_stateid(arg)
             by == IF n.object = req.current_fh THEN "fh" ELSE "stateid"
             returned == [n EXCEPT !.by = by]
  <2>1. /\ n \in Stateid /\ req.pc \in Running
        /\ Succeed("OPEN_DOWNGRADE", req.current_fh, returned)
    BY ZenonT(30), <1>3, <1>7 DEF OpenDowngrade, Ready, Running
  <2> HIDE DEF n
  <2>2. by \in {"fh", "stateid"} /\ (by = "fh" => n.object = req.current_fh)
    BY ZenonT(30)
  <2> HIDE DEF by
  <2>3. returned \in Stateid /\ returned.object = n.object /\ returned.by = by
    BY ZenonT(30), <2>1, <2>2 DEF Stateid
  <2>4. Matches("OPEN_DOWNGRADE", req.current_fh, returned)
    BY ZenonT(30), <2>2, <2>3 DEF Matches, Fits
  <2> HIDE DEF returned
  <2> QED
    BY ZenonT(30), <1>1, <2>1, <2>4, SucceedInv
<1>8. CASE GetDirDelegation
  <2>1. /\ req.pc \in Running /\ req.current_fh \in Object
        /\ Succeed("GET_DIR_DELEGATION", req.current_fh, Returned("deleg", req.current_fh))
    BY ZenonT(30), <1>1, <1>8 DEF GetDirDelegation, Ready, Running, IsFs
  <2>2. Matches("GET_DIR_DELEGATION", req.current_fh, Returned("deleg", req.current_fh))
    BY ZenonT(30), <1>2, <2>1 DEF Matches
  <2> QED
    BY ZenonT(30), <2>1, <2>2, SucceedInv
<1>9. CASE Other
  <2>1. req.pc \in Running /\ Succeed("other", req.current_fh, None)
    BY ZenonT(30), <1>9 DEF Other, Ready, Running
  <2>2. Matches("other", req.current_fh, None)
    BY ZenonT(30) DEF Matches
  <2> QED
    BY ZenonT(30), <1>1, <2>1, <2>2, SucceedInv
<1> QED
  BY ZenonT(30), <1>4, <1>5, <1>6, <1>7, <1>8, <1>9, OpenSteps DEF StateOp

-----------------------------------------------------------------------------
(* The whole request.                                                       *)

LEMMA BeginStep ==
    ASSUME Inv, NEW minor \in {0, 1}, NEW first \in First, NEW only \in BOOLEAN,
           Begin(minor, first, only)
    PROVE  Inv'
<1>1. PICK pc, later, r :
         /\ pc = IF first = "SEQUENCE" THEN "begun" ELSE "op"
         /\ later = (first = "SEQUENCE")
         /\ r = Begun(pc, minor, first, only, later) /\ req' = r
         /\ minor # 0 /\ first # "SEQUENCE" => first \in allows_compound_without_sequence /\ only
  BY ZenonT(30) DEF Begin, Admits, Begun
<1>2. pc \in {"begun", "op"} /\ (pc = "begun" <=> first = "SEQUENCE")
  BY ZenonT(30), <1>1
<1>3. later \in BOOLEAN /\ (first # "SEQUENCE" => ~later)
  BY ZenonT(30), <1>1
<1>4. /\ r \in Request /\ r.pc = pc /\ r.minor = minor /\ r.first = first /\ r.only = only
      /\ r.later = later /\ r.ended = FALSE
      /\ r.current_stateid = None /\ r.saved_stateid = None
  <2>1. Begins(r, pc, minor, first, only, later)
    BY <1>1, <1>2, <1>3, BegunFields
  <2> QED BY <2>1 DEF Begins
<1>5. StateidsFollowFilehandles'
  BY ZenonT(30), <1>1, <1>4, CompoundAssumption DEF StateidsFollowFilehandles, Fits
<1>6. OperationsRunInSession'
  BY ZenonT(30), <1>1, <1>2, <1>3, <1>4 DEF OperationsRunInSession
<1> QED
  BY ZenonT(30), <1>1, <1>2, <1>4, <1>5, <1>6 DEF Inv

LEMMA FindClientStep ==
    ASSUME Inv, session \in BOOLEAN, FindClient
    PROVE  Inv'
<1> DEFINE r == [req EXCEPT !.pc = "op", !.client = session]
<1>0. req \in Request
  BY ZenonT(30) DEF Inv
<1>1. /\ r \in Request /\ SameHead(r, req) /\ r.pc = "op"
      /\ r.current_fh = req.current_fh /\ r.current_stateid = req.current_stateid
      /\ r.saved_fh = req.saved_fh /\ r.saved_stateid = req.saved_stateid
  BY ZenonT(30), <1>0 DEF Request, SameHead
<1>2. req' = r /\ req.first = "SEQUENCE" /\ ~req.ended
  BY ZenonT(30) DEF Inv, FindClient
<1> HIDE DEF r
<1>3. StateidsFollowFilehandles'
  BY ZenonT(30), <1>1, <1>2 DEF Inv, StateidsFollowFilehandles, Fits
<1>4. OperationsRunInSession'
  BY ZenonT(30), <1>1, <1>2 DEF OperationsRunInSession, SameHead
<1> QED
  BY ZenonT(30), <1>1, <1>2, <1>3, <1>4 DEF Inv, SameHead

LEMMA SessionSteps ==
    ASSUME Inv,
           \/ \E last \in BOOLEAN : DestroySessionOp(last)
           \/ \E op \in allows_compound_without_sequence \ {"DESTROY_SESSION"} : SessionOp(op)
    PROVE  Inv'
<1>1. /\ req \in Request /\ req.pc \in Running
      /\ Fits(req.current_fh, req.current_stateid) /\ Fits(req.saved_fh, req.saved_stateid)
  BY ZenonT(30) DEF Inv, StateidsFollowFilehandles, DestroySessionOp, SessionOp, Running
<1>2. ASSUME NEW last \in BOOLEAN, DestroySessionOp(last)
      PROVE  Inv'
  <2>1. CASE last
    BY ZenonT(30), <1>2, <2>1, IdleInv DEF DestroySessionOp, Proceed
  <2>2. CASE ~last
    <3> DEFINE e == (req.first = "SEQUENCE")
               r == [req EXCEPT !.ended = e]
    <3>1. e = FALSE /\ Proceed(r, last) /\ req.ended = FALSE
      BY ZenonT(30), <1>1, <1>2, <2>2, RequestFields DEF DestroySessionOp, Inv
    <3> HIDE DEF e
    <3>2. /\ r \in Request /\ r.ended = FALSE
          /\ r.minor = req.minor /\ r.first = req.first /\ r.only = req.only
          /\ r.current_fh = req.current_fh /\ r.current_stateid = req.current_stateid
          /\ r.saved_fh = req.saved_fh /\ r.saved_stateid = req.saved_stateid
      BY ZenonT(30), <1>1, <3>1 DEF Request
    <3> HIDE DEF r
    <3> QED
      BY ZenonT(30), <1>1, <2>2, <3>1, <3>2, ProceedInv DEF SameHead
  <2> QED
    BY ZenonT(30), <2>1, <2>2
<1>3. ASSUME NEW op \in allows_compound_without_sequence \ {"DESTROY_SESSION"}, SessionOp(op)
      PROVE  Inv'
  <2>1. PICK last \in BOOLEAN : Proceed(req, last)
    BY ZenonT(30), <1>3 DEF SessionOp
  <2> QED
    BY ZenonT(30), <1>1, <2>1, ProceedInv DEF SameHead
<1> QED
  BY ZenonT(30), <1>2, <1>3

LEMMA InvInit == Init => Inv /\ session \in BOOLEAN
<1> SUFFICES ASSUME Init PROVE Inv /\ session \in BOOLEAN
  BY ZenonT(30)
<1>1. Idle \in Request
  BY ZenonT(30) DEF Idle, Request, First
<1>2. /\ req = Idle /\ session = TRUE
      /\ Idle.pc = "idle" /\ Idle.current_stateid = None /\ Idle.saved_stateid = None
      /\ Idle.ended = FALSE
  BY ZenonT(30) DEF Init, Idle
<1> QED
  BY ZenonT(30), <1>1, <1>2, CompoundAssumption
     DEF Inv, StateidsFollowFilehandles, Fits, OperationsRunInSession

LEMMA InvNext == Inv /\ session \in BOOLEAN /\ [Next]_vars => Inv' /\ session' \in BOOLEAN
<1> SUFFICES ASSUME Inv, session \in BOOLEAN, [Next]_vars PROVE Inv' /\ session' \in BOOLEAN
  BY ZenonT(30)
<1>1. ASSUME UNCHANGED req PROVE Inv'
  BY ZenonT(30), <1>1 DEF Inv, StateidsFollowFilehandles, Fits, OperationsRunInSession, IsAttrDir
<1>2. Inv'
  <2>1. CASE UNCHANGED vars \/ SessionElsewhere \/ BackendElsewhere
    BY ZenonT(30), <1>1, <2>1 DEF vars, SessionElsewhere, BackendElsewhere
  <2>2. CASE Fail
    BY ZenonT(30), <2>2, IdleInv DEF Fail
  <2> QED
    BY ZenonT(30), <2>1, <2>2, BeginStep, FindClientStep, FilehandleOpStep, NameOpStep, StateOpStep,
       SessionSteps DEF Next
<1>3. session' \in BOOLEAN
  <2>1. CASE UNCHANGED session
    BY ZenonT(30), <2>1
  <2>2. ASSUME NEW last \in BOOLEAN, DestroySessionOp(last) PROVE session' \in BOOLEAN
    BY ZenonT(30), <2>2 DEF DestroySessionOp
  <2>3. ASSUME NEW op, SessionOp(op) PROVE session' \in BOOLEAN
    BY ZenonT(30), <2>3 DEF SessionOp
  <2>4. CASE SessionElsewhere
    BY ZenonT(30), <2>4 DEF SessionElsewhere
  <2>5. CASE FilehandleOp
    BY ZenonT(30), <2>1, <2>5 DEF FilehandleOp, Putfh, Lookup, Lookupp, Putrootfh, Savefh, Restorefh, Openattr,
                      SecinfoNoName
  <2>6. CASE NameOp
    BY ZenonT(30), <2>1, <2>6 DEF NameOp, Create, Link, Remove, Rename
  <2>7. CASE StateOp
    BY ZenonT(30), <2>1, <2>7 DEF StateOp, OpenName, OpenFh, OpenCreate, OpenState, Close, Lock, Locku,
                      OpenDowngrade, GetDirDelegation, Other
  <2> QED
    BY ZenonT(30), <2>1, <2>2, <2>3, <2>4, <2>5, <2>6, <2>7 DEF Next, vars, Begin, FindClient, Fail,
                                                   BackendElsewhere
<1> QED
  BY ZenonT(30), <1>2, <1>3

-----------------------------------------------------------------------------
\* The inductive invariant, at every step of every handler.
THEOREM InvAlways == Spec => []Inv
<1> DEFINE J == Inv /\ session \in BOOLEAN
<1>1. Init => J
  BY ZenonT(30), InvInit
<1>2. J /\ [Next]_vars => J'
  BY ZenonT(30), InvNext
<1>3. J => Inv
  BY ZenonT(30)
<1> QED
  BY <1>1, <1>2, <1>3, PTL DEF Spec

\* For any backend, names and named attributes, and whatever other requests do between
\* two calls of a handler: a stateid returned for the current filehandle is, when a later
\* operation uses it as the current stateid, state of the filehandle then current
\* (apply_compound_state_transition and the handlers that set the filehandle).
THEOREM StateidsStayWithFilehandles == Spec => []StateidsFollowFilehandles
<1>1. Inv => StateidsFollowFilehandles
  BY ZenonT(30) DEF Inv
<1> QED
  BY <1>1, InvAlways, PTL

\* An operation of minor version 1 or 2 runs in the session its COMPOUND began with, and
\* none follows one that destroyed it (handle_compound).
THEOREM OperationsStayInSession == Spec => []OperationsRunInSession
<1>1. Inv => OperationsRunInSession
  BY ZenonT(30) DEF Inv
<1> QED
  BY <1>1, InvAlways, PTL


-----------------------------------------------------------------------------
(* Client identities and leases: the inductive invariant.                   *)

State == [clients : [Id -> ClientState \cup {NoClient}],
          sessions : SUBSET SessionId,
          holders : SUBSET Id]

\* Clientids are handed out in order.
Issued(s, n) == \A i \in Id : i >= n => s.clients[i] = NoClient

\* CREATE_SESSION confirms the client, and drop_client_state takes the sessions along.
SessionsConfirmed(s) == \A x \in s.sessions : x[1] \in Confirmed(s)

\* A client that is to replace another is its successor, and waits to be confirmed by
\* CREATE_SESSION alone.
Succeeds(s) ==
    \A j \in Known(s) :
      LET c == s.clients[j] IN
      c.replaced # NoClient =>
        /\ c.replaced < j /\ ~c.confirmed /\ c.v40_confirm = NoClient
        /\ c.replaced \in Known(s) => s.clients[c.replaced].owner = c.owner

\* An owner that speaks NFSv4.1 only has at most one confirmed client, and at most one
\* other, which is to replace it.
Lineage(s) ==
    \A i, j \in Known(s) :
      /\ s.clients[i].owner = s.clients[j].owner
      /\ Minor[s.clients[i].owner] = {1}
      => /\ s.clients[i].confirmed = s.clients[j].confirmed => i = j
         /\ s.clients[i].confirmed /\ ~s.clients[j].confirmed => s.clients[j].replaced = i

Good(s, n) ==
    /\ s \in State
    /\ Issued(s, n) /\ SessionsConfirmed(s) /\ Succeeds(s) /\ Lineage(s)

LeasesInv == Good(inner, next_clientid) /\ next_clientid \in 1..(MaxClientId + 1)

-----------------------------------------------------------------------------
(* Steps that keep what the invariant is about.                             *)

Same(c, d) ==
    /\ c.owner = d.owner /\ c.confirmed = d.confirmed
    /\ c.replaced = d.replaced /\ c.v40_confirm = d.v40_confirm

\* Clients may go, with their sessions; those that stay are who they were.
Tame(s, t) ==
    /\ t \in State
    /\ \A i \in Known(t) : i \in Known(s) /\ Same(t.clients[i], s.clients[i])
    /\ t.sessions \subseteq s.sessions
    /\ \A x \in t.sessions : x[1] \in Known(t)

LEMMA StateFacts ==
    ASSUME NEW s \in State
    PROVE  /\ s.clients \in [Id -> ClientState \cup {NoClient}]
           /\ s.sessions \subseteq SessionId /\ s.holders \subseteq Id
           /\ \A i \in Known(s) : i \in Id /\ s.clients[i] \in ClientState
           /\ \A i \in Id : s.clients[i] \in ClientState => i \in Known(s)
           /\ \A x \in s.sessions : x[1] \in Id
BY ZenonT(30), LeasesAssumption DEF State, Known, SessionId

LEMMA TameGood ==
    ASSUME NEW s, NEW t, NEW n, Good(s, n), Tame(s, t)
    PROVE  Good(t, n)
<1>1. t \in State
  BY ZenonT(30) DEF Tame
<1>2. Issued(t, n)
  BY ZenonT(30) DEF Good, Issued, Tame, Known
<1>3. SessionsConfirmed(t)
  BY ZenonT(30) DEF Good, SessionsConfirmed, Tame, Same, Confirmed
<1>4. Succeeds(t)
  BY DEF Good, Succeeds, Tame, Same
<1>5. Lineage(t)
  BY DEF Good, Lineage, Tame, Same
<1> QED
  BY ZenonT(30), <1>1, <1>2, <1>3, <1>4, <1>5 DEF Good

LEMMA TameTrans ==
    ASSUME NEW s, NEW t, NEW u, Tame(s, t), Tame(t, u)
    PROVE  Tame(s, u)
BY ZenonT(30) DEF Tame, Same

LEMMA DropFacts ==
    ASSUME NEW s \in State, NEW C, \A x \in s.sessions : x[1] \in Known(s)
    PROVE  LET t == Drop(s, C) IN
           /\ Tame(s, t)
           /\ \A i \in Id : t.clients[i] = IF i \in C THEN NoClient ELSE s.clients[i]
           /\ \A i \in Id : i \in Known(t) <=> i \in Known(s) /\ i \notin C
           /\ t.sessions = {x \in s.sessions : x[1] \notin C}
           /\ t.holders = s.holders \ C
<1> DEFINE t == Drop(s, C)
<1>1. /\ t.clients = [i \in Id |-> IF i \in C THEN NoClient ELSE s.clients[i]]
      /\ t.sessions = {x \in s.sessions : x[1] \notin C}
      /\ t.holders = s.holders \ C
  BY ZenonT(30) DEF Drop
<1>2. t \in State
  <2>1. /\ [i \in Id |-> IF i \in C THEN NoClient ELSE s.clients[i]]
             \in [Id -> ClientState \cup {NoClient}]
        /\ {x \in s.sessions : x[1] \notin C} \subseteq SessionId /\ s.holders \ C \subseteq Id
    BY ZenonT(30), StateFacts
  <2> QED
    BY ZenonT(30), <2>1 DEF Drop, State
<1> HIDE DEF t
<1>3. \A i \in Id : t.clients[i] = IF i \in C THEN NoClient ELSE s.clients[i]
  BY ZenonT(30), <1>1
<1>4. \A i \in Id : i \in Known(t) <=> i \in Known(s) /\ i \notin C
  BY ZenonT(30), <1>3 DEF Known
<1>5. \A i \in Known(t) : i \in Id /\ t.clients[i] = s.clients[i]
  BY ZenonT(30), <1>3, <1>4 DEF Known
<1>6. Tame(s, t)
  BY ZenonT(30), <1>1, <1>2, <1>4, <1>5, StateFacts DEF Tame, Same
<1> QED
  BY ZenonT(30), <1>1, <1>3, <1>4, <1>6 DEF t

-----------------------------------------------------------------------------
(* Reaping.                                                                 *)

LEMMA LeaseEdit ==
    ASSUME NEW c \in ClientState, NEW l \in LeaseState
    PROVE  /\ [c EXCEPT !.lease = l] \in ClientState
           /\ Same([c EXCEPT !.lease = l], c) /\ [c EXCEPT !.lease = l].lease = l
           /\ [c EXCEPT !.lease = l].sequence_id = c.sequence_id
BY ZenonT(30) DEF ClientState, Same

LEMMA LeaseTypes ==
    /\ Renewed \in LeaseState /\ Renewed.kind = "Active"
    /\ [kind |-> "Revoked", age |-> 0] \in LeaseState
BY LeasesAssumption DEF Renewed, LeaseState

\* The first half of Reaped: the expired become Revoked.
Marked(s) ==
    [s EXCEPT !.clients = [i \in Id |-> IF i \in Expired(s)
                            THEN [@[i] EXCEPT !.lease = [kind |-> "Revoked", age |-> 0]]
                            ELSE @[i]],
              !.holders = @ \ Expired(s)]

LEMMA MarkedFacts ==
    ASSUME NEW s \in State
    PROVE  LET t == Marked(s) IN
           /\ t \in State /\ t.sessions = s.sessions /\ t.holders = s.holders \ Expired(s)
           /\ \A i \in Id : i \in Known(t) <=> i \in Known(s)
           /\ \A i \in Known(s) : Same(t.clients[i], s.clients[i])
           /\ \A i \in Id : i \notin Expired(s) => t.clients[i] = s.clients[i]
           /\ \A i \in Expired(s) : t.clients[i].lease = [kind |-> "Revoked", age |-> 0]
<1> DEFINE f == [i \in Id |-> IF i \in Expired(s)
                   THEN [s.clients[i] EXCEPT !.lease = [kind |-> "Revoked", age |-> 0]]
                   ELSE s.clients[i]]
           t == Marked(s)
<1>1. \A i \in Expired(s) : i \in Known(s) /\ i \in Id /\ s.clients[i] \in ClientState
  BY ZenonT(30), StateFacts DEF Expired, Active
<1>2. f \in [Id -> ClientState \cup {NoClient}]
  BY ZenonT(30), <1>1, LeaseEdit, LeaseTypes, StateFacts
<1>3. \A i \in Id : i \notin Expired(s) => f[i] = s.clients[i]
  BY ZenonT(30)
<1>4. \A i \in Expired(s) : /\ f[i] \in ClientState /\ Same(f[i], s.clients[i])
                            /\ f[i].lease = [kind |-> "Revoked", age |-> 0]
  BY ZenonT(30), <1>1, LeaseEdit, LeaseTypes
<1> HIDE DEF f
<1>5. t = [s EXCEPT !.clients = f, !.holders = s.holders \ Expired(s)]
  BY ZenonT(30) DEF Marked, f
<1> HIDE DEF t
<1>6. /\ t \in State /\ t.clients = f /\ t.sessions = s.sessions
      /\ t.holders = s.holders \ Expired(s)
  BY ZenonT(30), <1>2, <1>5 DEF State
<1>7. \A i \in Id : i \in Known(t) <=> i \in Known(s)
  BY ZenonT(30), <1>1, <1>3, <1>4, <1>6, LeasesAssumption DEF Known
<1>8. \A i \in Known(s) : Same(t.clients[i], s.clients[i])
  BY ZenonT(30), <1>3, <1>4, <1>6 DEF Same, Known
<1> QED
  BY ZenonT(30), <1>3, <1>4, <1>6, <1>7, <1>8 DEF t

LEMMA ReapedFacts ==
    ASSUME NEW s \in State, \A x \in s.sessions : x[1] \in Known(s)
    PROVE  LET t == Reaped(s) IN
           /\ Tame(s, t)
           /\ \A i \in Active(t) : i \in Active(s) \ Expired(s)
           /\ \A i \in Active(s) \ Expired(s) : i \in Known(t) /\ t.clients[i] = s.clients[i]
           /\ \A i \in Revoked(t) : i \in HasSession(t)
           /\ \A i \in s.holders \ t.holders : i \in Expired(s) \/ i \notin Active(s)
           /\ \A x \in s.sessions \ t.sessions :
                x[1] \in Revoked(s) /\ s.clients[x[1]].lease.age = Retention
<1> DEFINE m == Marked(s)
           C == {i \in Revoked(m) : m.clients[i].lease.age = Retention \/ i \notin HasSession(m)}
           t == Reaped(s)
<1>1. t = Drop(m, C)
  BY ZenonT(30) DEF Reaped, Marked
<1>2. /\ m \in State /\ m.sessions = s.sessions /\ m.holders = s.holders \ Expired(s)
      /\ \A i \in Id : i \in Known(m) <=> i \in Known(s)
      /\ \A i \in Known(s) : Same(m.clients[i], s.clients[i])
      /\ \A i \in Id : i \notin Expired(s) => m.clients[i] = s.clients[i]
      /\ \A i \in Expired(s) : m.clients[i].lease = [kind |-> "Revoked", age |-> 0]
  BY ZenonT(30), MarkedFacts
<1> HIDE DEF m, t
<1>3. \A x \in m.sessions : x[1] \in Known(m)
  BY ZenonT(30), <1>2, StateFacts
<1>4. /\ Tame(m, t)
      /\ \A i \in Id : t.clients[i] = IF i \in C THEN NoClient ELSE m.clients[i]
      /\ \A i \in Id : i \in Known(t) <=> i \in Known(m) /\ i \notin C
      /\ t.sessions = {x \in m.sessions : x[1] \notin C}
      /\ t.holders = m.holders \ C
  BY <1>1, <1>2, <1>3, DropFacts
<1>5. /\ Known(s) \subseteq Id /\ Known(m) \subseteq Id /\ Known(t) \subseteq Id
      /\ Expired(s) \subseteq Active(s) /\ Active(s) \subseteq Known(s)
  BY ZenonT(30) DEF Known, Active, Expired
<1>6. Tame(s, m)
  BY ZenonT(30), <1>2, <1>3, <1>5 DEF Tame
<1>7. \A i \in Known(m) : i \in Active(m) <=> i \in Active(s) \ Expired(s)
  <2> TAKE i \in Known(m)
  <2>1. CASE i \in Expired(s)
    BY <1>2, <2>1 DEF Active
  <2>2. CASE i \notin Expired(s)
    BY ZenonT(30), <1>2, <1>5, <2>2 DEF Active
  <2> QED
    BY ZenonT(30), <2>1, <2>2
<1>8. \A i \in C : i \in Known(m) /\ i \notin Active(m)
  BY ZenonT(30) DEF Revoked
<1>9. \A i \in Active(t) : i \in Active(s) \ Expired(s)
  <2> TAKE i \in Active(t)
  <2>1. i \in Known(m) /\ t.clients[i] = m.clients[i]
    BY ZenonT(30), <1>4, <1>5 DEF Active
  <2>2. i \in Active(m)
    BY ZenonT(30), <2>1 DEF Active
  <2> QED
    BY ZenonT(30), <1>7, <2>1, <2>2
<1>10. \A i \in Active(s) \ Expired(s) : i \in Known(t) /\ t.clients[i] = s.clients[i]
  BY ZenonT(30), <1>2, <1>4, <1>5, <1>7, <1>8
<1>11. \A i \in Revoked(t) : i \in HasSession(t)
  <2> TAKE i \in Revoked(t)
  <2>1. i \in Known(m) /\ i \notin C /\ t.clients[i] = m.clients[i] /\ i \notin Active(t)
    BY ZenonT(30), <1>4, <1>5 DEF Revoked
  <2>2. i \in Revoked(m)
    BY ZenonT(30), <1>4, <1>5, <2>1 DEF Revoked, Active
  <2>3. i \in HasSession(m)
    BY ZenonT(30), <2>1, <2>2
  <2> QED
    BY ZenonT(30), <1>4, <2>1, <2>3 DEF HasSession
<1>12. \A i \in s.holders \ t.holders : i \in Expired(s) \/ i \notin Active(s)
  BY ZenonT(30), <1>2, <1>4, <1>7, <1>8
<1>13. \A x \in s.sessions \ t.sessions :
         x[1] \in Revoked(s) /\ s.clients[x[1]].lease.age = Retention
  <2> TAKE x \in s.sessions \ t.sessions
  <2>1. x \in m.sessions /\ x[1] \in C /\ x[1] \in HasSession(m) /\ x[1] \in Id
    BY ZenonT(30), <1>2, <1>4, StateFacts DEF HasSession
  <2>2. m.clients[x[1]].lease.age = Retention /\ x[1] \notin Active(m) /\ x[1] \in Known(m)
    BY ZenonT(30), <2>1 DEF Revoked
  <2>3. x[1] \notin Expired(s)
    <3> SUFFICES ASSUME x[1] \in Expired(s) PROVE FALSE
      BY ZenonT(30)
    <3>1. m.clients[x[1]].lease.age = 0
      BY <1>2
    <3> QED
      BY ZenonT(30), <2>2, <3>1, LeasesAssumption
  <2> QED
    BY ZenonT(30), <1>2, <1>7, <2>1, <2>2, <2>3 DEF Revoked
<1>14. Tame(s, t)
  BY ZenonT(30), <1>4, <1>6, TameTrans
<1> QED
  BY ZenonT(30), <1>9, <1>10, <1>11, <1>12, <1>13, <1>14 DEF t

\* A state that satisfies the invariant still does once it is reaped.
LEMMA ReapedGood ==
    ASSUME NEW s, NEW n, Good(s, n)
    PROVE  /\ \A x \in s.sessions : x[1] \in Known(s)
           /\ Good(Reaped(s), n)
           /\ \A x \in Reaped(s).sessions : x[1] \in Known(Reaped(s))
           /\ \A i \in Revoked(Reaped(s)) : i \in Confirmed(Reaped(s))
<1>1. s \in State /\ \A x \in s.sessions : x[1] \in Known(s)
  BY ZenonT(30) DEF Good, SessionsConfirmed, Confirmed
<1>2. /\ Tame(s, Reaped(s))
      /\ \A i \in Revoked(Reaped(s)) : i \in HasSession(Reaped(s))
  BY ZenonT(30), <1>1, ReapedFacts
<1>3. Good(Reaped(s), n)
  BY ZenonT(30), <1>2, TameGood
<1> QED
  BY ZenonT(30), <1>1, <1>2, <1>3 DEF Tame, Good, SessionsConfirmed, HasSession

-----------------------------------------------------------------------------
(* A new client, a client that changes, a client that is confirmed.         *)

LEMMA PutFacts ==
    ASSUME NEW s \in State, NEW c \in Id, NEW k \in ClientState
    PROVE  LET t == [s EXCEPT !.clients[c] = k] IN
           /\ t \in State /\ t.sessions = s.sessions /\ t.holders = s.holders
           /\ t.clients[c] = k
           /\ \A i \in Id : i # c => t.clients[i] = s.clients[i]
           /\ c \in Known(t)
           /\ \A i \in Id : i # c => (i \in Known(t) <=> i \in Known(s))
<1> DEFINE f == [s.clients EXCEPT ![c] = k]
           t == [s EXCEPT !.clients[c] = k]
<1>1. /\ f \in [Id -> ClientState \cup {NoClient}] /\ f[c] = k
      /\ \A i \in Id : i # c => f[i] = s.clients[i]
  BY ZenonT(30), StateFacts
<1> HIDE DEF f
<1>2. t = [s EXCEPT !.clients = f]
  BY ZenonT(30) DEF f
<1> HIDE DEF t
<1>3. t \in State /\ t.clients = f /\ t.sessions = s.sessions /\ t.holders = s.holders
  BY ZenonT(30), <1>1, <1>2 DEF State
<1>4. c \in Known(t) /\ \A i \in Id : i # c => (i \in Known(t) <=> i \in Known(s))
  BY ZenonT(30), <1>1, <1>3, LeasesAssumption DEF Known
<1> QED
  BY ZenonT(30), <1>1, <1>3, <1>4 DEF t

LEMMA JoinGood ==
    ASSUME NEW s, NEW n \in Id, Good(s, n), NEW o \in Owner, NEW v \in Verifier,
           NEW old \in Id \cup {NoClient}, NEW confirm \in Id \cup {NoClient},
           old # NoClient => confirm = NoClient /\ old \in Known(s) /\ s.clients[old].owner = o,
           Minor[o] = {1} => \A i \in OwnedBy(s, o) : i \in Confirmed(s) /\ old = i
    PROVE  Good([s EXCEPT !.clients[n] = NewClient(o, v, old, confirm)], n + 1)
<1> DEFINE k == NewClient(o, v, old, confirm)
           t == [s EXCEPT !.clients[n] = k]
<1>1. /\ k \in ClientState /\ k.owner = o /\ ~k.confirmed /\ k.replaced = old
      /\ k.v40_confirm = confirm
  BY ZenonT(30), LeaseTypes DEF NewClient, ClientState
<1>2. s \in State /\ Known(s) \subseteq Id /\ n \notin Known(s) /\ \A i \in Known(s) : i < n
  BY DEF Good, Issued, Known, Id
<1> HIDE DEF k
<1>3. /\ t \in State /\ t.sessions = s.sessions
      /\ t.clients[n] = k
      /\ \A i \in Id : i # n => t.clients[i] = s.clients[i]
      /\ n \in Known(t)
      /\ \A i \in Id : i # n => (i \in Known(t) <=> i \in Known(s))
  BY <1>1, <1>2, PutFacts
<1> HIDE DEF t
<1>4. \A i \in Known(t) : i = n \/ (i \in Known(s) /\ i # n /\ t.clients[i] = s.clients[i])
  BY ZenonT(30), <1>3 DEF Known
<1>5. \A i \in Known(s) : i \in Known(t) /\ i # n /\ t.clients[i] = s.clients[i]
  BY ZenonT(30), <1>2, <1>3
<1>6. Issued(t, n + 1)
  BY <1>3 DEF Good, Issued, Id
<1>7. SessionsConfirmed(t)
  BY ZenonT(30), <1>3, <1>5 DEF Good, SessionsConfirmed, Confirmed
<1>8. Succeeds(t)
  <2> SUFFICES ASSUME NEW j \in Known(t), t.clients[j].replaced # NoClient
               PROVE  LET c == t.clients[j] IN
                      /\ c.replaced < j /\ ~c.confirmed /\ c.v40_confirm = NoClient
                      /\ c.replaced \in Known(t) => t.clients[c.replaced].owner = c.owner
    BY ZenonT(30) DEF Succeeds
  <2>1. CASE j = n
    BY ZenonT(30), <1>1, <1>2, <1>3, <1>5, <2>1
  <2>2. CASE j \in Known(s) /\ t.clients[j] = s.clients[j]
    <3>1. /\ s.clients[j].replaced < j /\ ~s.clients[j].confirmed
          /\ s.clients[j].v40_confirm = NoClient
          /\ s.clients[j].replaced \in Known(s) =>
               s.clients[s.clients[j].replaced].owner = s.clients[j].owner
      BY ZenonT(30), <2>2 DEF Good, Succeeds
    <3>2. s.clients[j].replaced # n
      BY <1>2, <2>2, <3>1 DEF Id
    <3> QED
      BY SMTT(30), <1>4, <2>2, <3>1, <3>2
  <2> QED
    BY ZenonT(30), <1>4, <2>1, <2>2
<1>9. Lineage(t)
  <2>1. \A i \in Known(s) : s.clients[i].owner = o /\ Minor[o] = {1} =>
                              s.clients[i].confirmed /\ old = i
    BY ZenonT(30) DEF OwnedBy, Confirmed
  <2> QED
    BY <1>1, <1>3, <1>4, <2>1 DEF Good, Lineage
<1> QED
  BY ZenonT(30), <1>3, <1>6, <1>7, <1>8, <1>9 DEF Good, t, k

\* SETCLIENTID and SETCLIENTID_CONFIRM on a client of an NFSv4.0 owner.
LEMMA EditGood ==
    ASSUME NEW s, NEW n, Good(s, n), NEW c \in Known(s), NEW k \in ClientState,
           k.owner = s.clients[c].owner, 0 \in Minor[k.owner], k.replaced = NoClient,
           s.clients[c].confirmed => k.confirmed
    PROVE  Good([s EXCEPT !.clients[c] = k], n)
<1> DEFINE t == [s EXCEPT !.clients[c] = k]
<1>1. s \in State /\ Known(s) \subseteq Id
  BY ZenonT(30) DEF Good, Known
<1>2. /\ t \in State /\ t.sessions = s.sessions
      /\ t.clients[c] = k
      /\ \A i \in Id : i # c => t.clients[i] = s.clients[i]
      /\ c \in Known(t)
      /\ \A i \in Id : i # c => (i \in Known(t) <=> i \in Known(s))
  BY <1>1, PutFacts
<1> HIDE DEF t
<1>3. \A i \in Id : i \in Known(t) <=> i \in Known(s)
  BY ZenonT(30), <1>2
<1>4. \A i \in Known(t) : i \in Known(s) /\ i \in Id /\ t.clients[i].owner = s.clients[i].owner
  BY ZenonT(30), <1>2, <1>3 DEF Known
<1>5. Issued(t, n)
  BY ZenonT(30), <1>2, <1>3 DEF Good, Issued, Known
<1>6. SessionsConfirmed(t)
  BY ZenonT(30), <1>1, <1>2, <1>3 DEF Good, SessionsConfirmed, Confirmed
<1>7. Succeeds(t)
  BY <1>2, <1>4 DEF Good, Succeeds
<1>8. Lineage(t)
  <2> SUFFICES ASSUME NEW i \in Known(t), NEW j \in Known(t),
                      t.clients[i].owner = t.clients[j].owner, Minor[t.clients[i].owner] = {1}
               PROVE  /\ t.clients[i].confirmed = t.clients[j].confirmed => i = j
                      /\ t.clients[i].confirmed /\ ~t.clients[j].confirmed =>
                           t.clients[j].replaced = i
    BY ZenonT(30) DEF Lineage
  <2>1. i # c /\ j # c
    BY <1>2
  <2>2. t.clients[i] = s.clients[i] /\ t.clients[j] = s.clients[j]
    BY ZenonT(30), <1>2, <1>4, <2>1
  <2> QED
    BY <1>4, <2>2 DEF Good, Lineage
<1> QED
  BY ZenonT(30), <1>2, <1>5, <1>6, <1>7, <1>8 DEF Good, t

\* What CREATE_SESSION makes of a reaped state: the client is confirmed, gets a session
\* and its predecessor goes.
Installed(s, c) ==
    LET client == s.clients[c]
        confirmed == [s EXCEPT !.clients[c] =
                        [client EXCEPT !.sequence_id = @ + 1, !.confirmed = TRUE,
                                       !.lease = Renewed, !.replaced = NoClient]]
    IN  [Drop(confirmed, {client.replaced} \ {NoClient}) EXCEPT
           !.sessions = @ \cup {<<c, client.sequence_id + 1>>}]

LEMMA InstalledFacts ==
    ASSUME NEW s, NEW n, Good(s, n), NEW c \in Known(s)
    PROVE  LET t == Installed(s, c)
               C == {s.clients[c].replaced} \ {NoClient} IN
           /\ Good(t, n)
           /\ c \in Confirmed(t)
           /\ \A i \in C : ~s.clients[c].confirmed /\ (i \in Known(s) =>
                              s.clients[i].owner = s.clients[c].owner)
           /\ \A i \in Known(s) : i \notin C => i \in Known(t)
           /\ t.holders = s.holders \ C
           /\ \A x \in s.sessions \ t.sessions : x[1] \in C
<1> DEFINE k0 == s.clients[c]
           q == k0.replaced
           C == {q} \ {NoClient}
           k == [k0 EXCEPT !.sequence_id = @ + 1, !.confirmed = TRUE,
                           !.lease = Renewed, !.replaced = NoClient]
           u == [s EXCEPT !.clients[c] = k]
           d == Drop(u, C)
           t == [d EXCEPT !.sessions = @ \cup {<<c, k0.sequence_id + 1>>}]
<1>1. /\ s \in State /\ c \in Id /\ k0 \in ClientState /\ Known(s) \subseteq Id
      /\ \A x \in s.sessions : x[1] \in Known(s)
  BY ZenonT(30), StateFacts DEF Good, Known, SessionsConfirmed, Confirmed
<1>2. /\ k \in ClientState /\ k.owner = k0.owner /\ k.confirmed /\ k.replaced = NoClient
      /\ k0.sequence_id + 1 \in Nat
  <2> DEFINE m == k0.sequence_id + 1
  <2>1. m \in Nat
    BY <1>1 DEF ClientState
  <2>2. k = [k0 EXCEPT !.sequence_id = m, !.confirmed = TRUE,
                       !.lease = Renewed, !.replaced = NoClient]
    BY ZenonT(30)
  <2> HIDE DEF m, k, k0
  <2>3. k \in ClientState /\ k.owner = k0.owner /\ k.confirmed /\ k.replaced = NoClient
    BY ZenonT(30), <1>1, <2>1, <2>2, LeaseTypes DEF ClientState
  <2> QED
    BY ZenonT(30), <2>1, <2>3 DEF m
<1>3. /\ \A i \in C : /\ i = q /\ i < c /\ ~k0.confirmed
                      /\ i \in Known(s) => s.clients[i].owner = k0.owner
      /\ c \notin C
  BY <1>1 DEF Good, Succeeds, Id
<1> HIDE DEF k
<1>4. /\ u \in State /\ u.sessions = s.sessions /\ u.holders = s.holders
      /\ u.clients[c] = k
      /\ \A i \in Id : i # c => u.clients[i] = s.clients[i]
      /\ c \in Known(u)
      /\ \A i \in Id : i # c => (i \in Known(u) <=> i \in Known(s))
  BY ZenonT(30), <1>1, <1>2, PutFacts
<1> HIDE DEF u
<1>5. \A i \in Id : i \in Known(u) <=> i \in Known(s)
  BY ZenonT(30), <1>4
<1>6. /\ Tame(u, d)
      /\ \A i \in Id : d.clients[i] = IF i \in C THEN NoClient ELSE u.clients[i]
      /\ \A i \in Id : i \in Known(d) <=> i \in Known(u) /\ i \notin C
      /\ d.sessions = {x \in u.sessions : x[1] \notin C}
      /\ d.holders = u.holders \ C
  <2>1. \A x \in u.sessions : x[1] \in Known(u)
    BY ZenonT(30), <1>1, <1>4, <1>5
  <2> HIDE DEF C
  <2> QED
    BY ZenonT(30), <1>4, <2>1, DropFacts
<1>7. d \in State
  BY ZenonT(30), <1>6 DEF Tame
<1> HIDE DEF d, C
<1>8. /\ t \in State /\ t.clients = d.clients /\ t.holders = d.holders
      /\ t.sessions = d.sessions \cup {<<c, k0.sequence_id + 1>>}
  <2> DEFINE w == d.sessions \cup {<<c, k0.sequence_id + 1>>}
  <2>1. w \in SUBSET SessionId
    BY <1>1, <1>2, <1>7 DEF State, SessionId
  <2>2. t = [d EXCEPT !.sessions = w]
    BY ZenonT(30)
  <2> HIDE DEF w, t
  <2>3. t \in State /\ t.clients = d.clients /\ t.holders = d.holders /\ t.sessions = w
    BY ZenonT(30), <1>7, <2>1, <2>2 DEF State
  <2> QED
    BY ZenonT(30), <2>3 DEF w
<1> HIDE DEF t
<1>9. \A i \in Id : /\ i \in Known(t) <=> i \in Known(s) /\ i \notin C
                    /\ i \in Known(t) => t.clients[i] = IF i = c THEN k ELSE s.clients[i]
  <2>1. Known(t) = Known(d)
    BY ZenonT(30), <1>8 DEF Known
  <2> QED
    BY ZenonT(30), <1>4, <1>5, <1>6, <1>8, <2>1
<1>10. c \in Known(t) /\ c \in Confirmed(t)
  BY ZenonT(30), <1>1, <1>2, <1>3, <1>9 DEF Confirmed
<1>11. Known(t) \subseteq Id /\ Known(t) \subseteq Known(s)
  BY ZenonT(30), <1>9 DEF Known
<1>12. Issued(t, n)
  BY ZenonT(30), <1>9 DEF Good, Issued, Known
<1>13. SessionsConfirmed(t)
  <2> SUFFICES ASSUME NEW x \in t.sessions PROVE x[1] \in Confirmed(t)
    BY ZenonT(30) DEF SessionsConfirmed
  <2>1. CASE x = <<c, k0.sequence_id + 1>>
    BY ZenonT(30), <1>10, <2>1
  <2>2. CASE x \in s.sessions /\ x[1] \notin C
    <3>1. x[1] \in Confirmed(s)
      BY ZenonT(30), <2>2 DEF Good, SessionsConfirmed
    <3> QED
      BY ZenonT(30), <1>1, <1>2, <1>9, <2>2, <3>1 DEF Confirmed
  <2> QED
    BY ZenonT(30), <1>4, <1>6, <1>8, <2>1, <2>2
<1>14. Succeeds(t)
  BY <1>2, <1>9, <1>11 DEF Good, Succeeds
<1>15. Lineage(t)
  <2> SUFFICES ASSUME NEW i \in Known(t), NEW j \in Known(t),
                      t.clients[i].owner = t.clients[j].owner, Minor[t.clients[i].owner] = {1}
               PROVE  /\ t.clients[i].confirmed = t.clients[j].confirmed => i = j
                      /\ t.clients[i].confirmed /\ ~t.clients[j].confirmed =>
                           t.clients[j].replaced = i
    BY ZenonT(30) DEF Lineage
  <2>1. /\ i \in Known(s) /\ j \in Known(s) /\ i \in Id /\ j \in Id /\ i \notin C /\ j \notin C
        /\ t.clients[i].owner = s.clients[i].owner /\ t.clients[j].owner = s.clients[j].owner
    BY ZenonT(30), <1>2, <1>9, <1>11
  <2>2. /\ s.clients[i].confirmed = s.clients[j].confirmed => i = j
        /\ s.clients[i].confirmed /\ ~s.clients[j].confirmed => s.clients[j].replaced = i
        /\ s.clients[j].confirmed /\ ~s.clients[i].confirmed => s.clients[i].replaced = j
    <3>1. /\ s.clients[i].owner = s.clients[j].owner
          /\ Minor[s.clients[i].owner] = {1} /\ Minor[s.clients[j].owner] = {1}
      BY ZenonT(30), <2>1
    <3>2. Lineage(s)
      BY ZenonT(30) DEF Good
    <3> QED
      BY ZenonT(30), <2>1, <3>1, <3>2 DEF Lineage
  <2>3. /\ s.clients[i].confirmed \in BOOLEAN /\ s.clients[j].confirmed \in BOOLEAN
    BY ZenonT(30), <1>1, <2>1, StateFacts DEF ClientState
  <2>4. CASE i # c /\ j # c
    BY ZenonT(30), <1>9, <2>1, <2>2, <2>4
  <2>5. ASSUME NEW a \in Known(t), a # c, a = i \/ a = j, i = c \/ j = c
        PROVE  ~s.clients[a].confirmed /\ s.clients[a].replaced = c
    <3>1. a \in Id /\ a # NoClient /\ a # q
      BY ZenonT(30), <2>1, <2>5, LeasesAssumption DEF C
    <3> QED
      BY ZenonT(30), <2>1, <2>2, <2>3, <2>5, <3>1
  <2> QED
    BY ZenonT(30), <1>2, <1>9, <2>1, <2>4, <2>5
<1>16. Good(t, n)
  BY ZenonT(30), <1>8, <1>12, <1>13, <1>14, <1>15 DEF Good
<1>17. /\ \A i \in Known(s) : i \notin C => i \in Known(t)
       /\ t.holders = s.holders \ C
       /\ \A x \in s.sessions \ t.sessions : x[1] \in C
  BY ZenonT(30), <1>1, <1>4, <1>6, <1>8, <1>9
<1>18. t = Installed(s, c)
  BY ZenonT(30) DEF Installed, t, d, u, k, C
<1> QED
  BY ZenonT(30), <1>3, <1>10, <1>16, <1>17, <1>18 DEF C

-----------------------------------------------------------------------------
(* The operations.                                                          *)

Respects(s, t) ==
    \A c \in (s.holders \cap Confirmed(s) \cap Active(s)) \ t.holders :
      \/ c \in Expired(s)
      \/ t.clients[c] = s.clients[c]
      \/ \E n \in Confirmed(t) \ Confirmed(s) : s.clients[n].owner = s.clients[c].owner

Tells(s, t) ==
    \A x \in s.sessions \ t.sessions :
      \/ x[1] \in Known(t)
      \/ x[1] \in Revoked(s) /\ s.clients[x[1]].lease.age = Retention
      \/ \E n \in Confirmed(t) \ Confirmed(s) : s.clients[n].owner = s.clients[x[1]].owner

\* What every operation must show of the state and the clientid it leaves.
Fine(t, n) ==
    /\ Good(t, n) /\ n \in 1..(MaxClientId + 1)
    /\ Respects(inner, t) /\ Tells(inner, t)

\* After the reaping, an operation that confirms nobody takes state from the unconfirmed
\* only, and sessions only from clients that stay.
LEMMA AfterReaping ==
    ASSUME LeasesInv, NEW t, NEW n, Good(t, n), n \in 1..(MaxClientId + 1),
           \A c \in Reaped(inner).holders \ t.holders : c \notin Confirmed(Reaped(inner)),
           \A x \in Reaped(inner).sessions \ t.sessions : x[1] \in Known(t)
    PROVE  Fine(t, n)
<1> DEFINE s == Reaped(inner)
<1>1. inner \in State /\ \A x \in inner.sessions : x[1] \in Known(inner)
  BY ZenonT(30), ReapedGood DEF LeasesInv, Good
<1>2. /\ \A i \in Active(inner) \ Expired(inner) :
            i \in Known(s) /\ s.clients[i] = inner.clients[i]
      /\ \A i \in inner.holders \ s.holders : i \in Expired(inner) \/ i \notin Active(inner)
      /\ \A x \in inner.sessions \ s.sessions :
           x[1] \in Revoked(inner) /\ inner.clients[x[1]].lease.age = Retention
  BY ZenonT(30), <1>1, ReapedFacts
<1> HIDE DEF s
<1>3. Respects(inner, t)
  <2> SUFFICES ASSUME NEW c \in (inner.holders \cap Confirmed(inner) \cap Active(inner)) \ t.holders,
                      c \notin Expired(inner)
               PROVE  FALSE
    BY ZenonT(30) DEF Respects
  <2>1. c \in s.holders /\ c \in Confirmed(s)
    BY ZenonT(30), <1>2 DEF Confirmed
  <2> QED
    BY ZenonT(30), <2>1 DEF s
<1>4. Tells(inner, t)
  BY ZenonT(30), <1>2 DEF Tells, s
<1> QED
  BY ZenonT(30), <1>3, <1>4 DEF Fine

\* A client that changes what the invariant is not about.
LEMMA PutTame ==
    ASSUME NEW s, NEW n, Good(s, n), NEW c \in Known(s), NEW k \in ClientState,
           Same(k, s.clients[c])
    PROVE  LET t == [s EXCEPT !.clients[c] = k] IN
           /\ Good(t, n) /\ t.holders = s.holders /\ t.sessions = s.sessions
<1> DEFINE t == [s EXCEPT !.clients[c] = k]
<1>1. s \in State /\ c \in Id /\ \A x \in s.sessions : x[1] \in Known(s) /\ x[1] \in Id
  BY ZenonT(30), StateFacts DEF Good, Known, SessionsConfirmed, Confirmed
<1>2. /\ t \in State /\ t.sessions = s.sessions /\ t.holders = s.holders
      /\ t.clients[c] = k
      /\ \A i \in Id : i # c => t.clients[i] = s.clients[i]
      /\ c \in Known(t)
      /\ \A i \in Id : i # c => (i \in Known(t) <=> i \in Known(s))
  BY ZenonT(30), <1>1, PutFacts
<1> HIDE DEF t
<1>3. \A i \in Known(t) : i \in Known(s) /\ Same(t.clients[i], s.clients[i])
  BY ZenonT(30), <1>2 DEF Same, Known
<1>4. Tame(s, t)
  BY ZenonT(30), <1>1, <1>2, <1>3 DEF Tame
<1> QED
  BY ZenonT(30), <1>2, <1>4, TameGood DEF t

LEMMA ReapStep ==
    ASSUME LeasesInv, Reap
    PROVE  Fine(inner', next_clientid')
BY ZenonT(30), ReapedGood, AfterReaping DEF LeasesInv, Reap

LEMMA DestroySessionStep ==
    ASSUME LeasesInv, NEW x \in inner.sessions, DestroySession(x)
    PROVE  Fine(inner', next_clientid')
<1> DEFINE s == Reaped(inner)
           t == [s EXCEPT !.sessions = @ \ {x}]
<1>1. /\ Good(s, next_clientid) /\ x \in s.sessions /\ inner' = t
      /\ next_clientid' = next_clientid /\ next_clientid \in 1..(MaxClientId + 1)
      /\ \A y \in s.sessions : y[1] \in Known(s)
  BY ZenonT(30), ReapedGood DEF LeasesInv, DestroySession
<1> HIDE DEF s
<1>2. /\ t \in State /\ t.clients = s.clients /\ t.holders = s.holders
      /\ t.sessions = s.sessions \ {x}
  BY ZenonT(30), <1>1 DEF Good, State
<1> HIDE DEF t
<1>3. Known(t) = Known(s) /\ Tame(s, t)
  BY ZenonT(30), <1>1, <1>2 DEF Known, Tame, Same
<1>4. Good(t, next_clientid)
  BY ZenonT(30), <1>1, <1>3, TameGood
<1> QED
  BY ZenonT(30), <1>1, <1>2, <1>3, <1>4, AfterReaping DEF s

LEMMA DestroyClientidStep ==
    ASSUME LeasesInv, NEW c \in Id, DestroyClientid(c)
    PROVE  Fine(inner', next_clientid')
<1> DEFINE s == Reaped(inner)
           t == Drop(s, {c})
<1>1. /\ Good(s, next_clientid) /\ inner' = t
      /\ c \notin s.holders /\ c \notin HasSession(s)
      /\ next_clientid' = next_clientid /\ next_clientid \in 1..(MaxClientId + 1)
      /\ \A y \in s.sessions : y[1] \in Known(s)
  BY ZenonT(30), ReapedGood DEF LeasesInv, DestroyClientid
<1>2. /\ Tame(s, t)
      /\ t.sessions = {x \in s.sessions : x[1] \notin {c}}
      /\ t.holders = s.holders \ {c}
  BY ZenonT(30), <1>1, DropFacts DEF Good
<1> HIDE DEF s, t
<1>3. Good(t, next_clientid)
  BY ZenonT(30), <1>1, <1>2, TameGood
<1>4. t.sessions = s.sessions /\ t.holders = s.holders
  BY ZenonT(30), <1>1, <1>2 DEF HasSession
<1> QED
  BY ZenonT(30), <1>1, <1>3, <1>4, AfterReaping DEF s

LEMMA PrepareSequenceStep ==
    ASSUME LeasesInv, NEW x \in inner.sessions, PrepareSequence(x)
    PROVE  Fine(inner', next_clientid')
<1> DEFINE s == Reaped(inner)
           c == x[1]
           k == [s.clients[c] EXCEPT !.lease = Renewed]
<1>1. /\ Good(s, next_clientid) /\ c \in Known(s)
      /\ inner' = [s EXCEPT !.clients[c] = k]
      /\ next_clientid' = next_clientid /\ next_clientid \in 1..(MaxClientId + 1)
  BY ZenonT(30), ReapedGood DEF LeasesInv, PrepareSequence, Active
<1>2. k \in ClientState /\ Same(k, s.clients[c])
  BY ZenonT(30), <1>1, LeaseEdit, LeaseTypes, StateFacts DEF Good
<1> HIDE DEF s, k, c
<1>3. Good(inner', next_clientid) /\ inner'.holders = s.holders /\ inner'.sessions = s.sessions
  BY ZenonT(30), <1>1, <1>2, PutTame
<1> QED
  BY ZenonT(30), <1>1, <1>3, AfterReaping DEF s

LEMMA ReclaimCompleteStep ==
    ASSUME LeasesInv, NEW c \in Id, ReclaimComplete(c)
    PROVE  Fine(inner', next_clientid')
<1> DEFINE s == Reaped(inner)
           k == [s.clients[c] EXCEPT !.reclaim_complete = TRUE]
<1>1. /\ Good(s, next_clientid) /\ c \in Known(s)
      /\ inner' = [s EXCEPT !.clients[c] = k]
      /\ next_clientid' = next_clientid /\ next_clientid \in 1..(MaxClientId + 1)
  BY ZenonT(30), ReapedGood DEF LeasesInv, ReclaimComplete
<1>2. s.clients[c] \in ClientState
  BY ZenonT(30), <1>1, StateFacts DEF Good
<1>3. k \in ClientState /\ Same(k, s.clients[c])
  BY ZenonT(30), <1>2 DEF ClientState, Same
<1> HIDE DEF s, k
<1>4. Good(inner', next_clientid) /\ inner'.holders = s.holders /\ inner'.sessions = s.sessions
  BY ZenonT(30), <1>1, <1>3, PutTame
<1> QED
  BY ZenonT(30), <1>1, <1>4, AfterReaping DEF s

LEMMA ExchangeIdStep ==
    ASSUME LeasesInv, NEW o \in Owner, NEW v \in Verifier, ExchangeId(o, v)
    PROVE  Fine(inner', next_clientid')
<1> DEFINE n == next_clientid
           s == Reaped(inner)
           own == OwnedBy(s, o)
           same == own \cap WithVerifier(s, v)
           other == own \ WithVerifier(s, v)
           predecessors == other \cap (Confirmed(s) \cup Revoked(s))
           C == (other \ Confirmed(s)) \cap Active(s)
           d == Drop(s, C)
<1>1. PICK old \in IF predecessors # {} THEN predecessors ELSE Find(same \cap Revoked(s)) :
         inner' = [d EXCEPT !.clients[n] = NewClient(o, v, old, NoClient)]
  BY ZenonT(30) DEF ExchangeId
<1>2. /\ n \in Id /\ n' = n + 1 /\ same \cap Active(s) = {}
      /\ Good(s, n)
      /\ \A x \in s.sessions : x[1] \in Known(s)
      /\ \A i \in Revoked(s) : i \in Confirmed(s)
  BY ZenonT(30), ReapedGood DEF LeasesInv, ExchangeId
<1> HIDE DEF s, n
<1>3. /\ Tame(s, d)
      /\ \A i \in Id : d.clients[i] = IF i \in C THEN NoClient ELSE s.clients[i]
      /\ \A i \in Id : i \in Known(d) <=> i \in Known(s) /\ i \notin C
      /\ d.sessions = {x \in s.sessions : x[1] \notin C}
      /\ d.holders = s.holders \ C
  <2> HIDE DEF C
  <2> QED
    BY ZenonT(30), <1>2, DropFacts DEF Good
<1> HIDE DEF d
<1>4. Good(d, n)
  BY ZenonT(30), <1>2, <1>3, TameGood
<1>5. Known(s) \subseteq Id /\ Known(d) \subseteq Id
  BY ZenonT(30) DEF Known
<1>6. \A i \in Known(d) : i \in Known(s) /\ i \notin C /\ d.clients[i] = s.clients[i]
  BY ZenonT(30), <1>3, <1>5
<1>7. \A i \in own : i \in Known(s) /\ s.clients[i].owner = o
  BY ZenonT(30) DEF OwnedBy
\* The client the newcomer is to replace stays for now ...
<1>8. old # NoClient => old \in own /\ old \in Confirmed(s) /\ old \in Known(s)
  <2>1. \A i \in predecessors \cup (same \cap Revoked(s)) :
           i \in own /\ i \in Confirmed(s) /\ i \in Known(s)
    BY ZenonT(30), <1>2, <1>7
  <2> QED
    BY ZenonT(30), <1>1, <2>1 DEF Find
<1>9. /\ old \in Id \cup {NoClient}
      /\ old # NoClient => old \in Known(d) /\ d.clients[old].owner = o
  BY ZenonT(30), <1>3, <1>5, <1>7, <1>8
\* ... and is the only one of an NFSv4.1 owner that does.
<1>10. ASSUME Minor[o] = {1}, NEW i \in OwnedBy(d, o)
       PROVE  i \in Confirmed(d) /\ old = i
  <2>1. i \in Known(d) /\ d.clients[i].owner = o
    BY ZenonT(30) DEF OwnedBy
  <2>2. i \in Known(s) /\ i \notin C /\ s.clients[i].owner = o /\ d.clients[i] = s.clients[i]
    BY ZenonT(30), <1>6, <2>1
  <2>3. i \in own
    BY ZenonT(30), <2>2 DEF OwnedBy
  <2>4. i \in Active(s) \/ i \in Revoked(s)
    BY ZenonT(30), <2>2 DEF Revoked
  <2>5. i \in Confirmed(s)
    BY ZenonT(30), <1>2, <2>2, <2>3, <2>4
  <2>6. i \in predecessors \/ i \in same \cap Revoked(s)
    BY ZenonT(30), <1>2, <2>3, <2>4, <2>5
  <2>7. old \in predecessors \/ old \in same \cap Revoked(s)
    BY ZenonT(30), <1>1, <2>6 DEF Find
  <2>8. old \in own /\ old \in Confirmed(s)
    BY ZenonT(30), <1>2, <2>7
  <2>9. /\ s.clients[old].owner = s.clients[i].owner
        /\ Minor[s.clients[old].owner] = {1}
        /\ s.clients[old].confirmed /\ s.clients[i].confirmed
        /\ old \in Known(s)
    BY ZenonT(30), <1>7, <1>10, <2>2, <2>5, <2>8 DEF Confirmed
  <2>10. s.clients[old].confirmed \in BOOLEAN /\ s.clients[i].confirmed \in BOOLEAN
    BY ZenonT(30), <1>2, <2>2, <2>9, StateFacts DEF Good, ClientState
  <2>11. s.clients[old].confirmed = s.clients[i].confirmed
    BY ZenonT(30), <2>9, <2>10
  <2>12. old = i
    BY ZenonT(30), <1>2, <2>2, <2>9, <2>11 DEF Good, Lineage
  <2> QED
    BY ZenonT(30), <2>1, <2>2, <2>5, <2>12 DEF Confirmed
<1>11. Good(inner', n + 1)
  BY ZenonT(30), <1>1, <1>2, <1>4, <1>9, <1>10, JoinGood
<1>12. NewClient(o, v, old, NoClient) \in ClientState /\ n + 1 \in 1..(MaxClientId + 1)
  BY <1>2, <1>9, LeaseTypes, LeasesAssumption DEF NewClient, ClientState, Id
<1>13. inner'.sessions = d.sessions /\ inner'.holders = d.holders
  <2> HIDE DEF NewClient
  <2> QED
    BY <1>1, <1>2, <1>4, <1>12, PutFacts DEF Good
<1>14. \A x \in s.sessions : x[1] \notin C
  BY ZenonT(30), <1>2 DEF Good, SessionsConfirmed
<1>15. /\ \A i \in s.holders \ inner'.holders : i \notin Confirmed(s)
       /\ inner'.sessions = s.sessions
  BY ZenonT(30), <1>3, <1>13, <1>14
<1>16. Fine(inner', n + 1)
  <2> HIDE DEF own, same, other, predecessors, C
  <2> QED
    BY ZenonT(30), <1>11, <1>12, <1>15, AfterReaping DEF s
<1> QED
  BY ZenonT(30), <1>2, <1>16 DEF n

LEMMA CreateSessionStep ==
    ASSUME LeasesInv, NEW c \in Id, CreateSession(c)
    PROVE  Fine(inner', next_clientid')
<1> DEFINE n == next_clientid
           s == Reaped(inner)
           t == Installed(s, c)
           C == {s.clients[c].replaced} \ {NoClient}
<1>1. /\ c \in Known(s) /\ inner' = t /\ n' = n
      /\ inner \in State /\ Good(s, n) /\ n \in 1..(MaxClientId + 1)
      /\ \A x \in inner.sessions : x[1] \in Known(inner)
      /\ \A x \in s.sessions : x[1] \in Known(s)
  BY ZenonT(30), ReapedGood DEF LeasesInv, Good, CreateSession, Installed, Active
<1>2. /\ Tame(inner, s)
      /\ \A i \in Active(inner) \ Expired(inner) :
            i \in Known(s) /\ s.clients[i] = inner.clients[i]
      /\ \A i \in inner.holders \ s.holders : i \in Expired(inner) \/ i \notin Active(inner)
      /\ \A x \in inner.sessions \ s.sessions :
           x[1] \in Revoked(inner) /\ inner.clients[x[1]].lease.age = Retention
  BY ZenonT(30), <1>1, ReapedFacts
<1>3. /\ Good(t, n) /\ c \in Confirmed(t)
      /\ \A i \in C : ~s.clients[c].confirmed
                      /\ (i \in Known(s) => s.clients[i].owner = s.clients[c].owner)
      /\ \A i \in Known(s) : i \notin C => i \in Known(t)
      /\ t.holders = s.holders \ C
      /\ \A x \in s.sessions \ t.sessions : x[1] \in C
  <2> HIDE DEF s
  <2> QED
    BY <1>1, InstalledFacts
<1> HIDE DEF s, t, C
\* Whoever is replaced has a newly confirmed successor of the same owner.
<1>4. ASSUME NEW i \in C, i \in Known(s)
      PROVE  \E m \in Confirmed(t) \ Confirmed(inner) :
               inner.clients[m].owner = inner.clients[i].owner
  <2>1. /\ inner.clients[c].owner = s.clients[c].owner
        /\ inner.clients[c].confirmed = s.clients[c].confirmed
        /\ inner.clients[i].owner = s.clients[i].owner
    BY ZenonT(30), <1>1, <1>2, <1>4 DEF Tame, Same
  <2>2. c \notin Confirmed(inner)
    BY ZenonT(30), <1>3, <1>4, <2>1 DEF Confirmed
  <2> QED
    BY ZenonT(30), <1>3, <1>4, <2>1, <2>2
<1>5. Respects(inner, t)
  <2> SUFFICES ASSUME NEW i \in (inner.holders \cap Confirmed(inner) \cap Active(inner)) \ t.holders,
                      i \notin Expired(inner)
               PROVE  \E m \in Confirmed(t) \ Confirmed(inner) :
                        inner.clients[m].owner = inner.clients[i].owner
    BY ZenonT(30) DEF Respects
  <2>1. i \in s.holders /\ i \in Known(s)
    BY ZenonT(30), <1>2
  <2>2. i \in C
    BY ZenonT(30), <1>3, <2>1
  <2> QED
    BY ZenonT(30), <1>4, <2>1, <2>2
<1>6. Tells(inner, t)
  <2> SUFFICES ASSUME NEW x \in inner.sessions \ t.sessions,
                      ~(x[1] \in Revoked(inner) /\ inner.clients[x[1]].lease.age = Retention)
               PROVE  \E m \in Confirmed(t) \ Confirmed(inner) :
                        inner.clients[m].owner = inner.clients[x[1]].owner
    BY ZenonT(30) DEF Tells
  <2>1. x \in s.sessions /\ x[1] \in Known(s)
    BY ZenonT(30), <1>1, <1>2
  <2>2. x[1] \in C
    BY ZenonT(30), <1>3, <2>1
  <2> QED
    BY ZenonT(30), <1>4, <2>1, <2>2
<1> QED
  BY ZenonT(30), <1>1, <1>3, <1>5, <1>6 DEF Fine

LEMMA SetClientIdStep ==
    ASSUME LeasesInv, NEW o \in Owner, NEW v \in Verifier, SetClientId(o, v)
    PROVE  Fine(inner', next_clientid')
<1> DEFINE n == next_clientid
           s == Reaped(inner)
           C == OwnedBy(s, o) \ Confirmed(s)
           d == Drop(s, C)
<1>1. /\ 0 \in Minor[o] /\ n \in 1..(MaxClientId + 1)
      /\ Good(s, n)
      /\ \A x \in s.sessions : x[1] \in Known(s)
  BY ZenonT(30), ReapedGood DEF LeasesInv, SetClientId
<1>2. \/ \E c \in OwnedBy(s, o) \cap Confirmed(s) :
           /\ inner' = [d EXCEPT !.clients[c].v40_confirm = c, !.clients[c].lease = Renewed]
           /\ n' = n
      \/ /\ n \in Id /\ n' = n + 1
         /\ inner' = [d EXCEPT !.clients[n] = NewClient(o, v, NoClient, n)]
  BY ZenonT(30) DEF SetClientId, next_v40_confirm_verifier
<1> HIDE DEF s, n
<1>3. /\ Tame(s, d)
      /\ \A i \in Id : d.clients[i] = IF i \in C THEN NoClient ELSE s.clients[i]
      /\ \A i \in Id : i \in Known(d) <=> i \in Known(s) /\ i \notin C
      /\ d.sessions = {x \in s.sessions : x[1] \notin C}
      /\ d.holders = s.holders \ C
  <2> HIDE DEF C
  <2> QED
    BY ZenonT(30), <1>1, DropFacts DEF Good
<1> HIDE DEF d
<1>4. Good(d, n) /\ d \in State
  BY ZenonT(30), <1>1, <1>3, TameGood DEF Tame
<1>5. d.sessions = s.sessions /\ \A i \in s.holders \ d.holders : i \notin Confirmed(s)
  BY ZenonT(30), <1>1, <1>3 DEF Good, SessionsConfirmed
<1> HIDE DEF C
<1>6. ASSUME NEW c \in OwnedBy(s, o) \cap Confirmed(s), n' = n,
             inner' = [d EXCEPT !.clients[c].v40_confirm = c, !.clients[c].lease = Renewed]
      PROVE  Fine(inner', n')
  <2> DEFINE k0 == d.clients[c]
             k == [k0 EXCEPT !.v40_confirm = c, !.lease = Renewed]
  <2>1. /\ c \in Id /\ c \in Known(d) /\ k0 = s.clients[c] /\ k0 \in ClientState
        /\ k0.owner = o /\ k0.confirmed
    BY ZenonT(30), <1>3, <1>4, <1>6, StateFacts DEF OwnedBy, Confirmed, Known, C
  <2>2. k0.replaced = NoClient
    BY ZenonT(30), <1>4, <2>1 DEF Good, Succeeds
  <2>3. k \in ClientState /\ k.owner = o /\ k.confirmed /\ k.replaced = NoClient
    <3> HIDE DEF k0
    <3> QED
      BY ZenonT(30), <2>1, <2>2, LeaseTypes DEF ClientState
  <2>4. inner' = [d EXCEPT !.clients[c] = k]
    BY ZenonT(30), <1>4, <1>6, <2>1 DEF State
  <2> HIDE DEF k
  <2>5. Good(inner', n)
    BY ZenonT(30), <1>1, <1>4, <2>1, <2>3, <2>4, EditGood
  <2>6. inner'.sessions = d.sessions /\ inner'.holders = d.holders
    BY <1>4, <2>1, <2>3, <2>4, PutFacts
  <2> QED
    BY ZenonT(30), <1>1, <1>5, <1>6, <2>5, <2>6, AfterReaping DEF s
<1>7. ASSUME n \in Id, n' = n + 1,
             inner' = [d EXCEPT !.clients[n] = NewClient(o, v, NoClient, n)]
      PROVE  Fine(inner', n')
  <2>1. Good(inner', n + 1)
    BY <1>1, <1>4, <1>7, JoinGood
  <2>2. NewClient(o, v, NoClient, n) \in ClientState /\ n + 1 \in 1..(MaxClientId + 1)
    BY <1>7, LeaseTypes, LeasesAssumption DEF NewClient, ClientState, Id
  <2>3. inner'.sessions = d.sessions /\ inner'.holders = d.holders
    BY <1>4, <1>7, <2>2, PutFacts
  <2> QED
    BY ZenonT(30), <1>5, <1>7, <2>1, <2>2, <2>3, AfterReaping DEF s
<1>8. Fine(inner', n')
  BY ZenonT(30), <1>2, <1>6, <1>7
<1> QED
  BY ZenonT(30), <1>8 DEF n

LEMMA SetClientIdConfirmStep ==
    ASSUME LeasesInv, NEW c \in Id, NEW verifier \in Id, SetClientIdConfirm(c, verifier)
    PROVE  Fine(inner', next_clientid')
<1> DEFINE n == next_clientid
           s == Reaped(inner)
           k0 == s.clients[c]
           k == [k0 EXCEPT !.v40_confirm = NoClient, !.confirmed = TRUE, !.lease = Renewed]
<1>1. /\ c \in Known(s) /\ k0.v40_confirm = verifier /\ n' = n
      /\ inner' = [s EXCEPT !.clients[c] = k]
      /\ inner \in State /\ Good(s, n) /\ n \in 1..(MaxClientId + 1)
      /\ \A x \in inner.sessions : x[1] \in Known(inner)
  BY ZenonT(30), ReapedGood DEF LeasesInv, Good, SetClientIdConfirm
<1>2. Tame(inner, s)
  BY ZenonT(30), <1>1, ReapedFacts
<1>3. 0 \in Minor[k0.owner]
  BY ZenonT(30), <1>1, <1>2 DEF SetClientIdConfirm, Speaks, Tame, Same
<1> HIDE DEF s
<1>4. k0 \in ClientState /\ k0.replaced = NoClient
  BY ZenonT(30), <1>1, StateFacts, LeasesAssumption DEF Good, Succeeds
<1>5. k \in ClientState /\ k.owner = k0.owner /\ k.confirmed /\ k.replaced = NoClient
  <2> HIDE DEF k0
  <2> QED
    BY ZenonT(30), <1>4, LeaseTypes DEF ClientState
<1> HIDE DEF k
<1>6. Good(inner', n)
  BY ZenonT(30), <1>1, <1>3, <1>5, EditGood
<1>7. inner'.sessions = s.sessions /\ inner'.holders = s.holders
  BY <1>1, <1>5, PutFacts DEF Good
<1> QED
  BY ZenonT(30), <1>1, <1>6, <1>7, AfterReaping DEF s

LEMMA RenewStep ==
    ASSUME LeasesInv, NEW c \in Id, Renew(c)
    PROVE  Fine(inner', next_clientid')
<1> DEFINE k == [inner.clients[c] EXCEPT !.lease = Renewed]
<1>1. /\ Good(inner, next_clientid) /\ c \in Known(inner)
      /\ inner' = [inner EXCEPT !.clients[c] = k]
      /\ next_clientid' = next_clientid /\ next_clientid \in 1..(MaxClientId + 1)
  BY ZenonT(30) DEF LeasesInv, Renew, Active
<1>2. k \in ClientState /\ Same(k, inner.clients[c])
  BY ZenonT(30), <1>1, LeaseEdit, LeaseTypes, StateFacts DEF Good
<1> HIDE DEF k
<1>3. /\ Good(inner', next_clientid)
      /\ inner'.holders = inner.holders /\ inner'.sessions = inner.sessions
  BY ZenonT(30), <1>1, <1>2, PutTame
<1> QED
  BY ZenonT(30), <1>1, <1>3 DEF Fine, Respects, Tells

LEMMA HoldersStep ==
    ASSUME LeasesInv, NEW c \in Id, AcquireState(c) \/ ReleaseState(c)
    PROVE  Fine(inner', next_clientid')
<1>1. PICK H \in SUBSET Id : inner' = [inner EXCEPT !.holders = H]
  <2>1. inner.holders \subseteq Id
    BY ZenonT(30), StateFacts DEF LeasesInv, Good
  <2>2. CASE AcquireState(c)
    BY ZenonT(30), <2>1, <2>2 DEF AcquireState
  <2>3. CASE ReleaseState(c)
    BY ZenonT(30), <2>1, <2>3 DEF ReleaseState
  <2> QED
    BY ZenonT(30), <2>2, <2>3
<1>2. /\ Good(inner, next_clientid) /\ next_clientid' = next_clientid
      /\ next_clientid \in 1..(MaxClientId + 1)
      /\ \A x \in inner.sessions : x[1] \in Known(inner)
  BY ZenonT(30), ReapedGood DEF LeasesInv, AcquireState, ReleaseState
<1>3. inner' \in State /\ inner'.clients = inner.clients /\ inner'.sessions = inner.sessions
  BY ZenonT(30), <1>1, <1>2 DEF Good, State
<1> DEFINE t == inner'
<1>4. Known(t) = Known(inner) /\ Tame(inner, t)
  BY ZenonT(30), <1>2, <1>3 DEF Known, Tame, Same
<1>5. Good(t, next_clientid)
  BY ZenonT(30), <1>2, <1>4, TameGood
<1> QED
  BY ZenonT(30), <1>2, <1>3, <1>5 DEF Fine, Respects, Tells

LEMMA LaterLease ==
    ASSUME NEW l \in LeaseState
    PROVE  Later(l) \in LeaseState
<1>1. CASE l \in [kind : {"Active"}, left : 0..Lease]
  <2> DEFINE m == IF l.left = 0 THEN 0 ELSE l.left - 1
  <2>1. m \in 0..Lease /\ l.kind = "Active"
    BY <1>1, LeasesAssumption
  <2>2. Later(l) = [l EXCEPT !.left = m]
    BY ZenonT(30), <2>1 DEF Later
  <2> HIDE DEF m
  <2> QED
    BY ZenonT(30), <1>1, <2>1, <2>2 DEF LeaseState
<1>2. CASE l \in [kind : {"Revoked"}, age : 0..Retention]
  <2> DEFINE m == IF l.age = Retention THEN l.age ELSE l.age + 1
  <2>1. m \in 0..Retention /\ l.kind = "Revoked"
    BY <1>2, LeasesAssumption
  <2>2. Later(l) = [l EXCEPT !.age = m]
    BY ZenonT(30), <2>1 DEF Later
  <2> HIDE DEF m
  <2> QED
    BY ZenonT(30), <1>2, <2>1, <2>2 DEF LeaseState
<1> QED
  BY ZenonT(30), <1>1, <1>2 DEF LeaseState

LEMMA TickStep ==
    ASSUME LeasesInv, Tick
    PROVE  Fine(inner', next_clientid')
<1> DEFINE f == [i \in Id |-> IF inner.clients[i] = NoClient THEN NoClient
                              ELSE [inner.clients[i] EXCEPT !.lease = Later(inner.clients[i].lease)]]
           t == inner'
<1>1. /\ Good(inner, next_clientid) /\ inner \in State /\ next_clientid' = next_clientid
      /\ next_clientid \in 1..(MaxClientId + 1)
      /\ \A x \in inner.sessions : x[1] \in Known(inner) /\ x[1] \in Id
  BY ZenonT(30), ReapedGood, StateFacts DEF LeasesInv, Good, Tick
<1>2. t = [inner EXCEPT !.clients = f]
  BY ZenonT(30) DEF Tick
<1>3. \A i \in Id : /\ inner.clients[i] = NoClient => f[i] = NoClient
                    /\ inner.clients[i] # NoClient =>
                         f[i] \in ClientState /\ Same(f[i], inner.clients[i])
  <2> SUFFICES ASSUME NEW i \in Id, inner.clients[i] # NoClient
               PROVE  f[i] \in ClientState /\ Same(f[i], inner.clients[i])
    BY ZenonT(30)
  <2>1. inner.clients[i] \in ClientState
    BY ZenonT(30), <1>1, StateFacts
  <2>2. inner.clients[i].lease \in LeaseState
    BY ZenonT(30), <2>1 DEF ClientState
  <2>3. f[i] = [inner.clients[i] EXCEPT !.lease = Later(inner.clients[i].lease)]
    BY ZenonT(30)
  <2> HIDE DEF f
  <2> QED
    BY ZenonT(30), <2>1, <2>2, <2>3, LaterLease, LeaseEdit
<1>4. f \in [Id -> ClientState \cup {NoClient}]
  BY ZenonT(30), <1>3
<1> HIDE DEF f
<1>5. t \in State /\ t.clients = f /\ t.sessions = inner.sessions /\ t.holders = inner.holders
  BY ZenonT(30), <1>1, <1>2, <1>4 DEF State
<1> HIDE DEF t
<1>6. /\ Known(t) = Known(inner)
      /\ \A i \in Known(t) : Same(t.clients[i], inner.clients[i])
  BY ZenonT(30), <1>3, <1>5, LeasesAssumption DEF Known
<1>7. Tame(inner, t)
  BY ZenonT(30), <1>1, <1>5, <1>6 DEF Tame
<1>8. Good(t, next_clientid)
  BY ZenonT(30), <1>1, <1>7, TameGood
<1>9. Fine(t, next_clientid)
  BY ZenonT(30), <1>1, <1>5, <1>8 DEF Fine, Respects, Tells
<1> QED
  BY ZenonT(30), <1>1, <1>9 DEF t

LEMMA LeasesInvInit == LeasesInit => LeasesInv
<1> SUFFICES ASSUME LeasesInit PROVE LeasesInv
  BY ZenonT(30)
<1>1. inner.clients = [i \in Id |-> NoClient] /\ inner.sessions = {} /\ inner.holders = {}
  BY ZenonT(30) DEF LeasesInit
<1>2. inner \in State
  BY ZenonT(30) DEF LeasesInit, State
<1>3. Known(inner) = {} /\ next_clientid \in 1..(MaxClientId + 1)
  BY <1>1, LeasesAssumption DEF LeasesInit, Known
<1> QED
  BY ZenonT(30), <1>1, <1>2, <1>3 DEF LeasesInv, Good, Issued, SessionsConfirmed, Succeeds, Lineage

\* Every operation, client or session it is applied to keeps the invariant.
LEMMA StepIsFine ==
    ASSUME LeasesInv, LeasesNext
    PROVE  Fine(inner', next_clientid')
BY ZenonT(30), ReapStep, TickStep, ExchangeIdStep, SetClientIdStep, CreateSessionStep, DestroyClientidStep,
   ReclaimCompleteStep, RenewStep, HoldersStep, SetClientIdConfirmStep, DestroySessionStep,
   PrepareSequenceStep
   DEF LeasesNext

LEMMA LeasesInvNext == LeasesInv /\ [LeasesNext]_lease_vars => LeasesInv'
<1> SUFFICES ASSUME LeasesInv, [LeasesNext]_lease_vars PROVE LeasesInv'
  BY ZenonT(30)
<1>1. CASE LeasesNext
  BY ZenonT(30), <1>1, StepIsFine DEF Fine, LeasesInv
<1>2. CASE UNCHANGED lease_vars
  BY ZenonT(30), <1>2 DEF lease_vars, LeasesInv
<1> QED
  BY ZenonT(30), <1>1, <1>2

LEMMA TokensNext ==
    ASSUME LeasesInv, tokens \in [Owner -> Seq(Id)], [LeasesNext]_lease_vars
    PROVE  tokens' \in [Owner -> Seq(Id)]
<1>1. ASSUME NEW o \in Owner, NEW v \in Verifier, SetClientId(o, v)
      PROVE  tokens' \in [Owner -> Seq(Id)]
  <2>1. PICK c \in Id : tokens' = [tokens EXCEPT ![o] = Append(tokens[o], c)]
    BY ZenonT(30), <1>1 DEF SetClientId, next_v40_confirm_verifier, OwnedBy, Known
  <2>2. Append(tokens[o], c) \in Seq(Id)
    OBVIOUS
  <2> QED
    BY ZenonT(30), <2>1, <2>2
<1>2. (\E o \in Owner, v \in Verifier : SetClientId(o, v)) \/ tokens' = tokens
  BY ZenonT(30) DEF LeasesNext, lease_vars, Reap, Tick, ExchangeId, CreateSession, DestroyClientid, ReclaimComplete,
         Renew, AcquireState, ReleaseState, SetClientIdConfirm, DestroySession, PrepareSequence
<1> QED
  BY ZenonT(30), <1>1, <1>2

-----------------------------------------------------------------------------
\* The inductive invariant: what the two tables of StateManager and the clientid counter
\* hold between any two operations.
THEOREM LeasesInvAlways == LeasesSpec => [](LeasesInv /\ tokens \in [Owner -> Seq(Id)])
<1> DEFINE J == LeasesInv /\ tokens \in [Owner -> Seq(Id)]
<1>1. LeasesInit => J
  BY LeasesInvInit DEF LeasesInit
<1>2. J /\ [LeasesNext]_lease_vars => J'
  BY ZenonT(30), LeasesInvNext, TokensNext
<1> QED
  BY <1>1, <1>2, PTL DEF LeasesSpec

\* For any number of owners, verifiers and clientids and any lease: an owner that speaks
\* NFSv4.1 has at most one confirmed client, however EXCHANGE_ID and CREATE_SESSION of
\* several incarnations interleave with expiry (exchange_id, create_session,
\* reap_expired_clients_locked).
THEOREM OwnersHaveOneClient == LeasesSpec => [](LeasesTypeOK /\ OneConfirmedPerOwner)
<1>1. LeasesInv /\ tokens \in [Owner -> Seq(Id)] => LeasesTypeOK
  BY ZenonT(30), StateFacts DEF LeasesInv, Good, LeasesTypeOK, State
<1>2. LeasesInv => OneConfirmedPerOwner
  BY ZenonT(30) DEF LeasesInv, Good, Lineage, OneConfirmedPerOwner, Confirmed
<1> QED
  BY <1>1, <1>2, LeasesInvAlways, PTL

\* For any number of clients and any lease: no request of another client, and none of an
\* unconfirmed newcomer, takes the state of a confirmed client whose lease has not run
\* out (reap_expired_clients_locked, drop_client_state, exchange_id, create_session).
THEOREM LeasesAreRespected == LeasesSpec => LeaseIsRespected
<1>1. ASSUME LeasesInv, [LeasesNext]_lease_vars
      PROVE  [\A c \in (inner.holders \cap Confirmed(inner) \cap Active(inner)) \ inner'.holders :
                \/ c \in Expired(inner)
                \/ inner'.clients[c] = inner.clients[c]
                \/ \E n \in Confirmed(inner') \ Confirmed(inner) :
                     inner.clients[n].owner = inner.clients[c].owner]_lease_vars
  <2>1. CASE LeasesNext
    BY ZenonT(30), <1>1, <2>1, StepIsFine DEF Fine, Respects
  <2>2. CASE UNCHANGED lease_vars
    BY ZenonT(30), <2>2
  <2> QED
    BY ZenonT(30), <1>1, <2>1, <2>2
<1> QED
  BY <1>1, LeasesInvAlways, PTL DEF LeasesSpec, LeaseIsRespected

\* For any number of clients and sessions and any retention: the sessions of a client
\* whose lease ran out stay, to report the loss, until it destroys them, the retention
\* is over or a successor is confirmed (reap_expired_clients_locked).
THEOREM RevokedClientsAreTold == LeasesSpec => ExpiredClientsAreTold
<1>1. ASSUME LeasesInv, [LeasesNext]_lease_vars
      PROVE  [\A x \in inner.sessions \ inner'.sessions :
                \/ x[1] \in Known(inner')
                \/ x[1] \in Revoked(inner) /\ inner.clients[x[1]].lease.age = Retention
                \/ \E n \in Confirmed(inner') \ Confirmed(inner) :
                     inner.clients[n].owner = inner.clients[x[1]].owner]_lease_vars
  <2>1. CASE LeasesNext
    BY ZenonT(30), <1>1, <2>1, StepIsFine DEF Fine, Tells
  <2>2. CASE UNCHANGED lease_vars
    BY ZenonT(30), <2>2
  <2> QED
    BY ZenonT(30), <1>1, <2>1, <2>2
<1> QED
  BY <1>1, LeasesInvAlways, PTL DEF LeasesSpec, ExpiredClientsAreTold
=============================================================================
