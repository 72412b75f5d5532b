--------------------------- MODULE HandlesProofs ---------------------------
(***************************************************************************)
(* Proofs about Handles, for any number of backend handles, requests and   *)
(* retirements, and any encoding: registration, fences, what a retirement  *)
(* leaves behind, and what an answered filehandle resolves to.             *)
(***************************************************************************)
EXTENDS Handles, TLAPS

Minting == {"publish", "recheck", "back_out_fh", "back_out_object"}

\* What a task carries, by where it is.
Carries(k) ==
    /\ k \in TaskState
    /\ k.pc # "idle" => k.op \in Ops
    /\ k.pc = "register" => k.handle \in Handle
    /\ k.pc \notin {"idle", "register"} => k.object \in Object
    /\ k.pc = "reserve" => k.fh \in PersistentFh
    /\ k.pc \in Minting => k.fh \in Fh
    /\ k.pc \notin Minting => k.fh \notin BootFh

\* What a retirement carries: the filehandles it has collected are of its ids.
Holds(k) ==
    /\ k \in RetireState
    /\ k.pc = "idle" => k.ids = {}
    /\ k.pc \in {"idle", "mark"} => k.visited = {} /\ k.stale = {}
    /\ \A p \in k.stale : p[2].id \in k.ids
    /\ k.pc = "drop_object" => k.object \in Object /\ k.object.id \in k.ids

TypeInv ==
    /\ TypeOK
    /\ \A t \in Task : Carries(task[t])
    /\ \A r \in Retirer : Holds(retire[r])

LEMMA Kinds ==
    /\ NoFh \notin BootFh /\ NoFh \notin PersistentFh
    /\ \A f \in PersistentFh : f \notin BootFh
    /\ \A o \in Object : o.id \in Id /\ o.kind \in Kind
    /\ \A i \in Id : Fs(i) \in Object /\ NamedAttr(i) \in Object /\ Fs(i).id = i
    /\ \A o \in Object : o # NoObject
    /\ NoOp \notin Ops
    /\ NoId \notin Id
  BY NoneAssumption, OpsAssumption, BoundAssumption
     DEF Fh, BootFh, PersistentFh, Object, Kind, Fs, NamedAttr, NoOp, NoId, Id

LEMMA IdleCarries == Carries(IdleTask) /\ IdleTask.pc = "idle" /\ IdleTask.fh = NoFh
  BY ZenonT(30), Kinds DEF Carries, IdleTask, TaskState, TaskPc, Minting

LEMMA ProceedingCarries ==
    ASSUME NEW op \in Ops, NEW o \in Object
    PROVE  /\ Carries(Proceeding(op, o)) /\ Proceeding(op, o).pc \notin Minting
           /\ Proceeding(op, o).pc # "register" /\ Proceeding(op, o).fh = NoFh
<1>1. NamedAttr(o.id) \in Object
  BY ZenonT(30), Kinds
<1>2. CASE op = "OPENATTR" /\ o.kind # "Fs"
  BY ZenonT(30), <1>2, IdleCarries DEF Proceeding, Minting
<1>3. CASE ~(op = "OPENATTR" /\ o.kind # "Fs")
  <2>1. PICK pc \in {"lookup_fh", "meta", "getattr"}, p \in Object :
          Proceeding(op, o) = [IdleTask EXCEPT !.op = op, !.object = p, !.pc = pc]
    BY ZenonT(30), <1>1, <1>3 DEF Proceeding
  <2>2. Proceeding(op, o) = [pc |-> pc, op |-> op, handle |-> NoHandle, object |-> p,
                             fh |-> NoFh, want |-> NoFh]
    BY ZenonT(30), <2>1 DEF IdleTask
  <2>3. pc \in TaskPc /\ pc \notin Minting /\ pc \notin {"idle", "register", "reserve"}
    BY ZenonT(30) DEF TaskPc, Minting
  <2> QED BY <2>2, <2>3, Kinds DEF Carries, TaskState
<1> QED BY ZenonT(30), <1>2, <1>3

LEMMA RegisteringCarries ==
    ASSUME NEW op \in Ops, NEW h \in Handle, NEW f \in Fh \cup {NoFh}
    PROVE  /\ Carries(Registering(op, h, f)) /\ Registering(op, h, f).pc \notin Minting
  BY ZenonT(30), Kinds DEF Registering, Carries, IdleTask, TaskState, TaskPc, Minting

\* Goto changes where a task is, and nothing it carries.
LEMMA GotoCarries ==
    ASSUME NEW t \in Task, NEW pc \in TaskPc, TypeInv, task' = [task EXCEPT ![t].pc = pc]
    PROVE  \E k \in TaskState : /\ task' = [task EXCEPT ![t] = k]
                                /\ k.pc = pc /\ k.op = task[t].op /\ k.handle = task[t].handle
                                /\ k.object = task[t].object /\ k.fh = task[t].fh
                                /\ k.want = task[t].want
<1>1. task[t] \in TaskState /\ task \in [Task -> TaskState]
  BY ZenonT(30) DEF TypeInv, TypeOK
<1>2. PICK k : k = [task[t] EXCEPT !.pc = pc]
  BY ZenonT(30)
<1>3. /\ k \in TaskState /\ k.pc = pc /\ k.op = task[t].op /\ k.handle = task[t].handle
      /\ k.object = task[t].object /\ k.fh = task[t].fh /\ k.want = task[t].want
  BY ZenonT(30), <1>1, <1>2 DEF TaskState
<1> QED BY ZenonT(30), <1>2, <1>3

\* A step of task t that ends outside the mint, as it began, and leaves filehandles
\* and retirements alone.
Quiet(t) ==
    /\ \E k : /\ Carries(k) /\ k.pc \notin Minting /\ task[t].pc \notin Minting
              /\ task' = [task EXCEPT ![t] = k]
    /\ UNCHANGED <<retired_objects, fh_to_object, object_to_fh, next_fh, issued, retire>>

LEMMA QuietGoto ==
    ASSUME NEW t \in Task, TypeInv, NEW pc, Goto(t, pc), task[t].pc \notin Minting,
           task[t].pc \notin {"idle", "register"},
           pc \in {"state", "meta", "lookup_fh", "check", "claim", "boot"}
    PROVE  \E k : /\ Carries(k) /\ k.pc \notin Minting /\ task' = [task EXCEPT ![t] = k]
<1>1. pc \in TaskPc /\ pc \notin Minting /\ pc \notin {"idle", "register", "reserve"}
  BY ZenonT(30) DEF TaskPc, Minting
<1>2. task' = [task EXCEPT ![t].pc = pc]
  BY ZenonT(30) DEF Goto
<1>3. PICK k \in TaskState : /\ task' = [task EXCEPT ![t] = k]
                             /\ k.pc = pc /\ k.op = task[t].op /\ k.handle = task[t].handle
                             /\ k.object = task[t].object /\ k.fh = task[t].fh
                             /\ k.want = task[t].want
  BY ZenonT(30), <1>1, <1>2, GotoCarries
<1>4. Carries(task[t])
  BY ZenonT(30) DEF TypeInv
<1> QED BY ZenonT(30), <1>1, <1>3, <1>4 DEF Carries

LEMMA QuietFinish ==
    ASSUME NEW t \in Task, Finish(t)
    PROVE  \E k : /\ Carries(k) /\ k.pc \notin Minting /\ task' = [task EXCEPT ![t] = k]
  BY ZenonT(30), IdleCarries DEF Finish, Minting

\* A task that has its object id goes on with it.
LEMMA QuietRegistered ==
    ASSUME NEW t \in Task, TypeInv, task[t].pc = "register", NEW i \in Id, Registered(t, i)
    PROVE  \E k : /\ Carries(k) /\ k.pc \notin Minting /\ task' = [task EXCEPT ![t] = k]
<1>1. Carries(task[t]) /\ task[t] \in TaskState /\ task[t].op \in Ops /\ Fs(i) \in Object
  BY ZenonT(30), Kinds DEF TypeInv, Carries
<1>2. CASE task[t].want = NoFh
  BY ZenonT(30), <1>1, <1>2, ProceedingCarries DEF Registered
<1>3. CASE task[t].want # NoFh
  <2>1. PICK k : /\ k = [task[t] EXCEPT !.pc = "lookup_fh", !.object = Fs(i), !.handle = NoHandle]
                 /\ task' = [task EXCEPT ![t] = k]
    BY ZenonT(30), <1>3 DEF Registered
  <2>2. /\ k \in TaskState /\ k.pc = "lookup_fh" /\ k.op = task[t].op /\ k.object = Fs(i)
        /\ k.fh = task[t].fh
    BY ZenonT(30), <1>1, <2>1 DEF TaskState, TaskPc
  <2> QED BY ZenonT(30), <1>1, <2>1, <2>2 DEF Carries, Minting
<1> QED BY ZenonT(30), <1>2, <1>3

\* The steps of a request up to the mint are quiet.
\* The id RegisterNew draws is one.
LEMMA DrawsId ==
    ASSUME TypeOK, NEW t \in Task, RegisterNew(t)
    PROVE  next_object_id \in Id /\ next_object_id + 1 \in 1..(MaxId + 1)
<1>1. next_object_id \in 1..(MaxId + 1)
  BY ZenonT(30) DEF TypeOK
<1>2. next_object_id <= MaxId
  BY ZenonT(30) DEF RegisterNew
<1> QED BY <1>1, <1>2, BoundAssumption DEF Id

LEMMA QuietSteps ==
    ASSUME TypeInv, NEW t \in Task,
           \/ \E op \in Ops, h \in Handle : BackendReturns(t, op, h)
           \/ \E op \in Ops, f \in Fh : ResolveObject(t, op, f)
           \/ RegisterKnown(t) \/ RegisterFenced(t) \/ RegisterNew(t)
           \/ GetAttr(t) \/ EnsureMeta(t) \/ CreateState(t)
           \/ CheckRetired(t) \/ ClaimPersistent(t)
    PROVE  Quiet(t)
<1> DEFINE Moves == \E k : Carries(k) /\ k.pc \notin Minting /\ task' = [task EXCEPT ![t] = k]
<1>1. task[t].pc \notin Minting
  BY ZenonT(30) DEF BackendReturns, ResolveObject, RegisterKnown, RegisterFenced, RegisterNew,
         GetAttr, EnsureMeta, CreateState, CheckRetired, ClaimPersistent, Minting
<1>2. SUFFICES Moves
  BY ZenonT(30), <1>1 DEF Quiet, BackendReturns, ResolveObject, RegisterKnown, RegisterFenced, RegisterNew,
         GetAttr, EnsureMeta, CreateState, CheckRetired, ClaimPersistent, names
<1>3. TypeOK /\ Carries(task[t]) /\ task \in [Task -> TaskState]
  BY ZenonT(30) DEF TypeInv, TypeOK
<1>4. ASSUME NEW op \in Ops, NEW h \in Handle, BackendReturns(t, op, h) PROVE Moves
  BY ZenonT(30), <1>4, RegisteringCarries DEF BackendReturns
<1>5. ASSUME NEW op \in Ops, NEW f \in Fh, ResolveObject(t, op, f) PROVE Moves
  <2>1. CASE fh_to_object[f] # NoObject
    <3>1. fh_to_object[f] \in Object
      BY ZenonT(30), <1>3, <2>1 DEF TypeOK
    <3> QED BY ZenonT(30), <1>5, <2>1, <3>1, ProceedingCarries DEF ResolveObject
  <2>2. CASE fh_to_object[f] = NoObject
    <3>1. PICK h \in Durable : task' = [task EXCEPT ![t] = Registering(op, h, f)]
      BY ZenonT(30), <1>5, <2>2 DEF ResolveObject
    <3>2. h \in Handle
      BY ZenonT(30), EncodingAssumption
    <3> QED BY ZenonT(30), <3>1, <3>2, RegisteringCarries
  <2> QED BY ZenonT(30), <2>1, <2>2
<1>6. CASE RegisterKnown(t)
  <2>1. task[t].handle \in Handle
    BY ZenonT(30), <1>3, <1>6 DEF Carries, RegisterKnown
  <2>2. handle_to_object[task[t].handle] \in Id
    BY ZenonT(30), <1>3, <1>6, <2>1 DEF TypeOK, RegisterKnown
  <2>3. task[t].pc = "register" /\ Registered(t, handle_to_object[task[t].handle])
    BY ZenonT(30), <1>6 DEF RegisterKnown
  <2> QED BY ZenonT(30), <2>2, <2>3, QuietRegistered
<1>7. CASE RegisterFenced(t)
  <2>1. Finish(t)
    BY ZenonT(30), <1>7 DEF RegisterFenced
  <2> QED BY ZenonT(30), <2>1, QuietFinish
<1>8. CASE RegisterNew(t)
  <2>1. next_object_id \in Id
    BY ZenonT(30), <1>3, <1>8, DrawsId
  <2>2. task[t].pc = "register" /\ Registered(t, next_object_id)
    BY ZenonT(30), <1>8 DEF RegisterNew
  <2> QED BY ZenonT(30), <2>1, <2>2, QuietRegistered
<1>9. CASE GetAttr(t)
  BY ZenonT(30), <1>1, <1>9, QuietFinish, QuietGoto DEF GetAttr
<1>10. CASE EnsureMeta(t)
  BY ZenonT(30), <1>1, <1>10, QuietGoto DEF EnsureMeta
<1>11. CASE CreateState(t)
  BY ZenonT(30), <1>1, <1>11, QuietFinish, QuietGoto DEF CreateState
<1>12. CASE CheckRetired(t)
  BY ZenonT(30), <1>1, <1>12, QuietFinish, QuietGoto DEF CheckRetired
<1>13. CASE ClaimPersistent(t)
  <2>1. CASE task[t].object.kind = "Fs" /\ persistent_fh[task[t].object.id] # NoFh
    <3>1. PICK f : f = persistent_fh[task[t].object.id]
      BY ZenonT(30)
    <3>2. task[t].object \in Object /\ task[t].pc = "claim"
      BY ZenonT(30), <1>3, <1>13 DEF Carries, ClaimPersistent
    <3>3. f \in PersistentFh
      BY ZenonT(30), <1>3, <2>1, <3>1, <3>2, Kinds DEF TypeOK
    <3>4. PICK k : /\ k = [task[t] EXCEPT !.pc = "reserve", !.fh = f]
                   /\ task' = [task EXCEPT ![t] = k]
      BY ZenonT(30), <1>3, <1>13, <2>1, <3>1 DEF ClaimPersistent
    <3>5. /\ k \in TaskState /\ k.pc = "reserve" /\ k.op = task[t].op
          /\ k.object = task[t].object /\ k.fh = f
      BY ZenonT(30), <1>3, <3>3, <3>4 DEF Carries, TaskState, TaskPc, Fh
    <3> QED BY ZenonT(30), <1>3, <3>2, <3>3, <3>4, <3>5, Kinds DEF Carries, Minting
  <2>2. CASE ~(task[t].object.kind = "Fs" /\ persistent_fh[task[t].object.id] # NoFh)
    BY ZenonT(30), <1>1, <1>13, <2>2, QuietGoto DEF ClaimPersistent
  <2> QED BY ZenonT(30), <2>1, <2>2
<1> QED BY ZenonT(30), <1>4, <1>5, <1>6, <1>7, <1>8, <1>9, <1>10, <1>11, <1>12, <1>13

\* Task t moves on; where to, k says.
LEMMA MintGoto ==
    ASSUME NEW t \in Task, TypeInv, NEW pc \in Minting, Goto(t, pc), task[t].fh \in Fh,
           task[t].pc \notin {"idle", "register"}
    PROVE  \E k : /\ Carries(k) /\ task' = [task EXCEPT ![t] = k]
                  /\ k.pc = pc /\ k.fh = task[t].fh /\ k.object = task[t].object
<1>1. pc \in TaskPc /\ pc \notin {"idle", "register", "reserve"}
  BY ZenonT(30) DEF TaskPc, Minting
<1>2. task' = [task EXCEPT ![t].pc = pc]
  BY ZenonT(30) DEF Goto
<1>3. PICK k \in TaskState : /\ task' = [task EXCEPT ![t] = k]
                             /\ k.pc = pc /\ k.op = task[t].op /\ k.handle = task[t].handle
                             /\ k.object = task[t].object /\ k.fh = task[t].fh
                             /\ k.want = task[t].want
  BY ZenonT(30), <1>1, <1>2, GotoCarries
<1>4. Carries(task[t])
  BY ZenonT(30) DEF TypeInv
<1> QED BY ZenonT(30), <1>1, <1>3, <1>4 DEF Carries

\* The end of a mint: f is answered, or was only looked up.
LEMMA MintedMoves ==
    ASSUME NEW t \in Task, TypeInv, NEW f \in Fh, Minted(t, f),
           task[t].pc \notin {"idle", "register"}
    PROVE  /\ \E k : Carries(k) /\ k.pc \notin Minting /\ task' = [task EXCEPT ![t] = k]
           /\ issued' \in {issued, issued \cup {<<task[t].object, f>>}}
           /\ task[t].object \in Object
<1>1. Carries(task[t]) /\ task[t].op \in Ops /\ task[t].object \in Object
  BY ZenonT(30) DEF TypeInv, Carries
<1>2. CASE task[t].want = NoFh
  <2>1. Finish(t) /\ issued' = issued \cup {<<task[t].object, f>>}
    BY ZenonT(30), <1>2 DEF Minted
  <2> QED BY ZenonT(30), <1>1, <2>1, QuietFinish
<1>3. CASE task[t].want # NoFh
  <2>1. issued' = issued
    BY ZenonT(30), <1>3 DEF Minted
  <2>2. CASE f = task[t].want
    <3>1. task' = [task EXCEPT ![t] = Proceeding(task[t].op, task[t].object)]
      BY ZenonT(30), <1>3, <2>2 DEF Minted
    <3> QED BY ZenonT(30), <1>1, <2>1, <3>1, ProceedingCarries
  <2>3. CASE f # task[t].want
    <3>1. task' = [task EXCEPT ![t] = IdleTask]
      BY ZenonT(30), <1>3, <2>3 DEF Minted
    <3> QED BY ZenonT(30), <1>1, <2>1, <3>1, IdleCarries DEF Minting
  <2> QED BY ZenonT(30), <2>2, <2>3
<1> QED BY ZenonT(30), <1>2, <1>3

\* The steps of object_to_fh, with what each does to the maps.
Move(t, pc, fh) ==
    \E k : /\ Carries(k) /\ task' = [task EXCEPT ![t] = k]
           /\ k.pc = pc /\ k.fh = fh /\ k.object = task[t].object

Leave(t) == \E k : Carries(k) /\ k.pc \notin Minting /\ task' = [task EXCEPT ![t] = k]

Answers(t, f) == issued' \in {issued, issued \cup {<<task[t].object, f>>}}

\* LookupFh finds the object's filehandle.
Found(t) ==
    /\ task[t].pc = "lookup_fh" /\ object_to_fh[task[t].object] \in Fh
    /\ Leave(t) /\ Answers(t, object_to_fh[task[t].object])
    /\ UNCHANGED <<retired_objects, fh_to_object, object_to_fh, next_fh, retire>>

Reserved(t) ==
    /\ task[t].pc = "reserve" /\ task[t].fh \in PersistentFh
    /\ Move(t, "publish", task[t].fh)
    /\ fh_to_object' = [fh_to_object EXCEPT ![task[t].fh] = task[t].object]
    /\ UNCHANGED <<retired_objects, object_to_fh, next_fh, issued, retire>>

BootMinted(t) ==
    LET f == BootScoped(next_fh) IN
    /\ task[t].pc = "boot" /\ next_fh <= MaxFh /\ f \in BootFh
    /\ Move(t, "publish", f)
    /\ next_fh' = next_fh + 1
    /\ fh_to_object' = [fh_to_object EXCEPT ![f] = task[t].object]
    /\ UNCHANGED <<retired_objects, object_to_fh, issued, retire>>

Published(t) ==
    /\ task[t].pc = "publish" /\ object_to_fh[task[t].object] = NoFh
    /\ Move(t, "recheck", task[t].fh)
    /\ object_to_fh' = [object_to_fh EXCEPT ![task[t].object] = task[t].fh]
    /\ UNCHANGED <<retired_objects, fh_to_object, next_fh, issued, retire>>

Lost(t) ==
    LET winner == object_to_fh[task[t].object] IN
    /\ task[t].pc = "publish" /\ winner \in Fh
    /\ Leave(t) /\ Answers(t, winner)
    /\ fh_to_object' = IF winner # task[t].fh /\ fh_to_object[task[t].fh] = task[t].object
                       THEN [fh_to_object EXCEPT ![task[t].fh] = NoObject]
                       ELSE fh_to_object
    /\ UNCHANGED <<retired_objects, object_to_fh, next_fh, retire>>

Valid(t) ==
    /\ task[t].pc = "recheck" /\ ~is_retired(task[t].object)
    /\ Leave(t) /\ Answers(t, task[t].fh)
    /\ UNCHANGED <<retired_objects, fh_to_object, object_to_fh, next_fh, retire>>

Invalid(t) ==
    /\ task[t].pc = "recheck" /\ is_retired(task[t].object)
    /\ Move(t, "back_out_fh", task[t].fh)
    /\ UNCHANGED <<retired_objects, fh_to_object, object_to_fh, next_fh, issued, retire>>

FhBackedOut(t) ==
    /\ task[t].pc = "back_out_fh"
    /\ Move(t, "back_out_object", task[t].fh)
    /\ fh_to_object' = [fh_to_object EXCEPT ![task[t].fh] = NoObject]
    /\ UNCHANGED <<retired_objects, object_to_fh, next_fh, issued, retire>>

ObjectBackedOut(t) ==
    /\ task[t].pc = "back_out_object"
    /\ Leave(t)
    /\ object_to_fh' = [object_to_fh EXCEPT ![task[t].object] = NoFh]
    /\ UNCHANGED <<retired_objects, fh_to_object, next_fh, issued, retire>>

\* What a step of a task can do to filehandles.
LEMMA TaskOutcomes ==
    ASSUME TypeInv, NEW t \in Task, TaskStep(t)
    PROVE  /\ task[t].pc \notin {"idle", "register"} => task[t].object \in Object
           /\ task[t].pc \in Minting => task[t].fh \in Fh
           /\ \/ Quiet(t) \/ Found(t) \/ Reserved(t) \/ BootMinted(t) \/ Published(t)
              \/ Lost(t) \/ Valid(t) \/ Invalid(t) \/ FhBackedOut(t) \/ ObjectBackedOut(t)
<1>1. TypeOK /\ Carries(task[t]) /\ task[t] \in TaskState /\ task \in [Task -> TaskState]
  BY ZenonT(30) DEF TypeInv, TypeOK
<1>2. /\ task[t].pc \notin {"idle", "register"} => task[t].object \in Object
      /\ task[t].pc \in Minting => task[t].fh \in Fh
  BY ZenonT(30), <1>1 DEF Carries
<1> DEFINE o == task[t].object
<1> DEFINE Outcome ==
      \/ Quiet(t) \/ Found(t) \/ Reserved(t) \/ BootMinted(t) \/ Published(t)
      \/ Lost(t) \/ Valid(t) \/ Invalid(t) \/ FhBackedOut(t) \/ ObjectBackedOut(t)
<1>3. SUFFICES Outcome
  BY ZenonT(30), <1>2
<1> HIDE DEF Outcome
<1>4. CASE \/ \E op \in Ops, h \in Handle : BackendReturns(t, op, h)
           \/ \E op \in Ops, f \in Fh : ResolveObject(t, op, f)
           \/ RegisterKnown(t) \/ RegisterFenced(t) \/ RegisterNew(t)
           \/ GetAttr(t) \/ EnsureMeta(t) \/ CreateState(t)
           \/ CheckRetired(t) \/ ClaimPersistent(t)
  BY ZenonT(30), <1>4, QuietSteps DEF Outcome
<1>5. CASE LookupFh(t)
  <2>1. task[t].pc = "lookup_fh" /\ o \in Object
    BY ZenonT(30), <1>2, <1>5 DEF LookupFh
  <2>2. object_to_fh[o] \in Fh \cup {NoFh}
    BY ZenonT(30), <1>1, <2>1 DEF TypeOK
  <2>3. CASE object_to_fh[o] # NoFh
    <3>1. Minted(t, object_to_fh[o]) /\ UNCHANGED <<retired_objects, names, retire>>
      BY ZenonT(30), <1>5, <2>3 DEF LookupFh
    <3>2. Leave(t) /\ Answers(t, object_to_fh[o])
      BY ZenonT(30), <2>1, <2>2, <2>3, <3>1, MintedMoves DEF Leave, Answers
    <3> QED BY ZenonT(30), <2>1, <2>2, <2>3, <3>1, <3>2 DEF Outcome, Found, names
  <2>4. CASE object_to_fh[o] = NoFh
    <3>1. Goto(t, "check") /\ UNCHANGED <<retired_objects, names, issued, retire>>
      BY ZenonT(30), <1>5, <2>4 DEF LookupFh
    <3>2. task[t].pc \notin Minting
      BY ZenonT(30), <2>1 DEF Minting
    <3>3. \E k : Carries(k) /\ k.pc \notin Minting /\ task' = [task EXCEPT ![t] = k]
      BY ZenonT(30), <2>1, <3>1, <3>2, QuietGoto
    <3> QED BY ZenonT(30), <3>1, <3>2, <3>3 DEF Outcome, Quiet, names
  <2> QED BY ZenonT(30), <2>3, <2>4
<1>6. CASE ReservePersistent(t)
  <2>1. task[t].pc = "reserve" /\ o \in Object /\ task[t].fh \in PersistentFh /\ task[t].fh \in Fh
    BY ZenonT(30), <1>1, <1>2, <1>6 DEF ReservePersistent, Carries, Fh
  <2>2. CASE fh_to_object[task[t].fh] \in {NoObject, o}
    <3>1. /\ Goto(t, "publish") /\ fh_to_object' = [fh_to_object EXCEPT ![task[t].fh] = o]
          /\ UNCHANGED <<retired_objects, object_to_fh, next_fh, issued, retire>>
      BY ZenonT(30), <1>6, <2>2 DEF ReservePersistent
    <3>2. Move(t, "publish", task[t].fh)
      BY ZenonT(30), <2>1, <3>1, MintGoto DEF Move, Minting
    <3> QED BY ZenonT(30), <2>1, <3>1, <3>2 DEF Outcome, Reserved
  <2>3. CASE fh_to_object[task[t].fh] \notin {NoObject, o}
    <3>1. Goto(t, "boot") /\ UNCHANGED <<retired_objects, fh_to_object, object_to_fh, next_fh, issued, retire>>
      BY ZenonT(30), <1>6, <2>3 DEF ReservePersistent
    <3>2. task[t].pc \notin Minting
      BY ZenonT(30), <2>1 DEF Minting
    <3>3. \E k : Carries(k) /\ k.pc \notin Minting /\ task' = [task EXCEPT ![t] = k]
      BY ZenonT(30), <2>1, <3>1, <3>2, QuietGoto
    <3> QED BY ZenonT(30), <3>1, <3>2, <3>3 DEF Outcome, Quiet
  <2> QED BY ZenonT(30), <2>2, <2>3
<1>7. CASE MintBootScoped(t)
  <2>1. /\ task[t].pc = "boot" /\ next_fh <= MaxFh /\ next_fh' = next_fh + 1
        /\ fh_to_object' = [fh_to_object EXCEPT ![BootScoped(next_fh)] = o]
        /\ UNCHANGED <<retired_objects, object_to_fh, issued, retire>>
    BY ZenonT(30), <1>7 DEF MintBootScoped
  <2>2. BootScoped(next_fh) \in BootFh /\ BootScoped(next_fh) \in Fh
    BY SMTT(30), <1>1, <2>1, BoundAssumption DEF TypeOK, BootScoped, BootFh, Fh
  <2>3. PICK k : /\ k = [task[t] EXCEPT !.pc = "publish", !.fh = BootScoped(next_fh)]
                 /\ task' = [task EXCEPT ![t] = k]
    BY ZenonT(30), <1>1, <1>7 DEF MintBootScoped
  <2>4. /\ k \in TaskState /\ k.pc = "publish" /\ k.op = task[t].op /\ k.object = o
        /\ k.fh = BootScoped(next_fh)
    BY ZenonT(30), <1>1, <2>2, <2>3 DEF TaskState, TaskPc
  <2>5. Carries(k)
    BY ZenonT(30), <1>1, <2>1, <2>2, <2>4 DEF Carries, Minting
  <2> QED BY ZenonT(30), <2>1, <2>2, <2>3, <2>4, <2>5 DEF Outcome, BootMinted, Move
<1>8. CASE Publish(t)
  <2>1. task[t].pc = "publish" /\ task[t].pc \in Minting /\ o \in Object /\ task[t].fh \in Fh
    BY ZenonT(30), <1>2, <1>8 DEF Publish, Minting
  <2>2. object_to_fh[o] \in Fh \cup {NoFh}
    BY ZenonT(30), <1>1, <2>1 DEF TypeOK
  <2>3. CASE object_to_fh[o] = NoFh
    <3>1. /\ Goto(t, "recheck") /\ object_to_fh' = [object_to_fh EXCEPT ![o] = task[t].fh]
          /\ UNCHANGED <<retired_objects, fh_to_object, next_fh, issued, retire>>
      BY ZenonT(30), <1>8, <2>3 DEF Publish
    <3>2. Move(t, "recheck", task[t].fh)
      BY ZenonT(30), <2>1, <3>1, MintGoto DEF Move, Minting
    <3> QED BY ZenonT(30), <2>1, <2>3, <3>1, <3>2 DEF Outcome, Published
  <2>4. CASE object_to_fh[o] # NoFh
    <3>1. /\ Minted(t, object_to_fh[o])
          /\ fh_to_object' = IF object_to_fh[o] # task[t].fh /\ fh_to_object[task[t].fh] = o
                             THEN [fh_to_object EXCEPT ![task[t].fh] = NoObject]
                             ELSE fh_to_object
          /\ UNCHANGED <<retired_objects, object_to_fh, next_fh, retire>>
      BY ZenonT(30), <1>8, <2>4 DEF Publish
    <3>2. Leave(t) /\ Answers(t, object_to_fh[o])
      BY ZenonT(30), <2>1, <2>2, <2>4, <3>1, MintedMoves DEF Leave, Answers
    <3> QED BY ZenonT(30), <2>1, <2>2, <2>4, <3>1, <3>2 DEF Outcome, Lost
  <2> QED BY ZenonT(30), <2>3, <2>4
<1>9. CASE Recheck(t)
  <2>1. task[t].pc = "recheck" /\ task[t].pc \in Minting /\ o \in Object /\ task[t].fh \in Fh
    BY ZenonT(30), <1>2, <1>9 DEF Recheck, Minting
  <2>2. CASE is_retired(o)
    <3>1. Goto(t, "back_out_fh") /\ UNCHANGED <<retired_objects, names, issued, retire>>
      BY ZenonT(30), <1>9, <2>2 DEF Recheck
    <3>2. Move(t, "back_out_fh", task[t].fh)
      BY ZenonT(30), <2>1, <3>1, MintGoto DEF Move, Minting
    <3> QED BY ZenonT(30), <2>1, <2>2, <3>1, <3>2 DEF Outcome, Invalid, names
  <2>3. CASE ~is_retired(o)
    <3>1. Minted(t, task[t].fh) /\ UNCHANGED <<retired_objects, names, retire>>
      BY ZenonT(30), <1>9, <2>3 DEF Recheck
    <3>2. Leave(t) /\ Answers(t, task[t].fh)
      BY ZenonT(30), <2>1, <3>1, MintedMoves DEF Leave, Answers
    <3> QED BY ZenonT(30), <2>1, <2>3, <3>1, <3>2 DEF Outcome, Valid, names
  <2> QED BY ZenonT(30), <2>2, <2>3
<1>10. CASE BackOutFh(t)
  <2>1. task[t].pc = "back_out_fh" /\ task[t].pc \in Minting /\ task[t].fh \in Fh
    BY ZenonT(30), <1>2, <1>10 DEF BackOutFh, Minting
  <2>2. Move(t, "back_out_object", task[t].fh)
    BY ZenonT(30), <1>10, <2>1, MintGoto DEF BackOutFh, Move, Minting
  <2> QED BY ZenonT(30), <1>10, <2>1, <2>2 DEF Outcome, FhBackedOut, BackOutFh
<1>11. CASE BackOutObject(t)
  <2>1. Leave(t)
    BY ZenonT(30), <1>11, QuietFinish DEF BackOutObject, Leave
  <2> QED BY ZenonT(30), <1>11, <2>1 DEF Outcome, ObjectBackedOut, BackOutObject
<1> QED BY ZenonT(30), <1>4, <1>5, <1>6, <1>7, <1>8, <1>9, <1>10, <1>11 DEF TaskStep

-----------------------------------------------------------------------------
\* The steps of a retirement, with what each does to the maps.
Turn(r, k) ==
    /\ Holds(k) /\ retire' = [retire EXCEPT ![r] = k]
    /\ UNCHANGED <<next_fh, issued, task>>

Begun(r) ==
    /\ retire[r].pc = "idle"
    /\ \E k : /\ Turn(r, k) /\ k.pc \in {"mark", "done"} /\ k.todo = k.ids
              /\ k.pc = "done" => k.ids = {}
    /\ UNCHANGED <<retired_objects, fh_to_object, object_to_fh>>

Marks(r, i) ==
    /\ retire[r].pc = "mark"
    /\ \E k : /\ Turn(r, k) /\ k.ids = retire[r].ids /\ k.todo = retire[r].todo \ {i}
              /\ k.pc = "mark" \/ (k.pc = "collect" /\ retire[r].todo = {i})
              /\ k.visited = {}
    /\ retired_objects' = retired_objects \cup {i}
    /\ UNCHANGED <<fh_to_object, object_to_fh>>

Collects(r, f) ==
    /\ retire[r].pc = "collect" /\ f \notin retire[r].visited
    /\ \E k : /\ Turn(r, k) /\ k.ids = retire[r].ids
              /\ k.visited = retire[r].visited \cup {f}
              /\ retire[r].stale \subseteq k.stale
              /\ belongs_to(fh_to_object[f], retire[r].ids) => <<f, fh_to_object[f]>> \in k.stale
              /\ k.pc = "collect" \/ (k.pc = "drop_fh" /\ k.visited = Fh)
    /\ UNCHANGED <<retired_objects, fh_to_object, object_to_fh>>

DropsFh(r, p) ==
    /\ retire[r].pc = "drop_fh" /\ p \in retire[r].stale /\ p[1] \in Fh
    /\ \E k : /\ Turn(r, k) /\ k.ids = retire[r].ids /\ k.stale = retire[r].stale \ {p}
              /\ k.pc = "drop_object"
    /\ fh_to_object' = [fh_to_object EXCEPT ![p[1]] = NoObject]
    /\ UNCHANGED <<retired_objects, object_to_fh>>

DropsObject(r) ==
    /\ retire[r].pc = "drop_object"
    /\ \E k : /\ Turn(r, k) /\ k.ids = retire[r].ids /\ k.stale = retire[r].stale
              /\ k.pc = "drop_fh"
    /\ object_to_fh' = [object_to_fh EXCEPT ![retire[r].object] = NoFh]
    /\ UNCHANGED <<retired_objects, fh_to_object>>

\* The filehandles are gone; what follows does not touch them.
Rests(r) ==
    /\ \/ retire[r].pc = "drop_fh" /\ retire[r].stale = {}
       \/ retire[r].pc \in {"forget", "sweep"}
    /\ \E k : Turn(r, k) /\ k.ids = retire[r].ids /\ k.pc \in {"forget", "sweep", "done"}
    /\ UNCHANGED <<retired_objects, fh_to_object, object_to_fh>>

LEMMA RetireOutcomes ==
    ASSUME TypeInv, NEW r \in Retirer, RetireStep(r)
    PROVE  \/ Begun(r) \/ (\E i \in Id : Marks(r, i)) \/ (\E f \in Fh : Collects(r, f))
           \/ (\E p : DropsFh(r, p)) \/ DropsObject(r) \/ Rests(r)
<1> DEFINE x == retire[r]
<1>1. TypeOK /\ Holds(x) /\ x \in RetireState /\ retire \in [Retirer -> RetireState]
  BY ZenonT(30) DEF TypeInv, TypeOK
<1>2. /\ x.ids \subseteq Id /\ x.todo \subseteq Id /\ x.visited \subseteq Fh
      /\ x.stale \subseteq Fh \X Object /\ x.object \in Object \cup {NoObject}
      /\ {"mark", "collect", "drop_fh", "drop_object", "forget", "sweep", "done"} \subseteq RetirePc
  BY ZenonT(30), <1>1 DEF RetireState, RetirePc
<1>3. UNCHANGED <<next_fh, issued, task>>
  BY ZenonT(30) DEF RetireStep, RetireBegin, MarkRetired, ForgetPersistent, CollectStale, DropFh, DropObject,
         AllDropped, SweepState, names
<1>4. ASSUME NEW P \in (SUBSET Handle) \ {{}}, RetireBegin(r, P) PROVE Begun(r)
  <2>1. PICK ids : ids = {handle_to_object[h] : h \in {g \in P : handle_to_object[g] # NoId}}
    BY ZenonT(30)
  <2>2. ids \subseteq Id
    BY ZenonT(30), <1>1, <2>1 DEF TypeOK
  <2>3. PICK k : /\ k = [x EXCEPT !.pc = IF ids = {} THEN "done" ELSE "mark", !.ids = ids, !.todo = ids]
                 /\ retire' = [retire EXCEPT ![r] = k]
    BY ZenonT(30), <1>1, <1>4, <2>1 DEF RetireBegin
  <2>4. /\ k \in RetireState /\ k.pc = IF ids = {} THEN "done" ELSE "mark"
        /\ k.ids = ids /\ k.todo = ids /\ k.visited = x.visited /\ k.stale = x.stale
    BY ZenonT(30), <1>1, <1>2, <2>2, <2>3 DEF RetireState
  <2>5. x.pc = "idle" /\ UNCHANGED <<retired_objects, fh_to_object, object_to_fh>>
    BY ZenonT(30), <1>4 DEF RetireBegin, names
  <2>6. Holds(k)
    BY ZenonT(30), <1>1, <2>4, <2>5 DEF Holds
  <2>7. Turn(r, k)
    BY ZenonT(30), <1>3, <2>3, <2>6 DEF Turn
  <2>8. k.pc \in {"mark", "done"} /\ k.todo = k.ids /\ (k.pc = "done" => k.ids = {})
    BY ZenonT(30), <2>4
  <2> QED BY ZenonT(30), <2>5, <2>7, <2>8 DEF Begun
<1>5. ASSUME NEW i \in Id, MarkRetired(r, i) PROVE Marks(r, i)
  <2>1. PICK k : /\ k = [x EXCEPT !.todo = x.todo \ {i},
                                 !.pc = IF x.todo = {i} THEN "collect" ELSE "mark"]
                 /\ retire' = [retire EXCEPT ![r] = k]
    BY ZenonT(30), <1>1, <1>5 DEF MarkRetired
  <2>2. /\ k \in RetireState /\ k.pc = IF x.todo = {i} THEN "collect" ELSE "mark"
        /\ k.ids = x.ids /\ k.todo = x.todo \ {i} /\ k.visited = x.visited /\ k.stale = x.stale
    BY ZenonT(30), <1>1, <1>2, <2>1 DEF RetireState
  <2>3. /\ x.pc = "mark" /\ retired_objects' = retired_objects \cup {i}
        /\ UNCHANGED <<fh_to_object, object_to_fh>>
    BY ZenonT(30), <1>5 DEF MarkRetired, names
  <2>4. Holds(k) /\ k.visited = {}
    BY ZenonT(30), <1>1, <2>2, <2>3 DEF Holds
  <2>5. Turn(r, k)
    BY ZenonT(30), <1>3, <2>1, <2>4 DEF Turn
  <2>6. k.pc = "mark" \/ (k.pc = "collect" /\ x.todo = {i})
    BY ZenonT(30), <2>2
  <2> QED BY ZenonT(30), <2>2, <2>3, <2>4, <2>5, <2>6 DEF Marks
<1>6. ASSUME NEW f \in Fh, CollectStale(r, f) PROVE Collects(r, f)
  <2> DEFINE o == fh_to_object[f]
  <2>1. PICK visited, stale :
          /\ visited = x.visited \cup {f}
          /\ stale = IF belongs_to(o, x.ids) THEN x.stale \cup {<<f, o>>} ELSE x.stale
    BY ZenonT(30)
  <2>2. PICK k : /\ k = [x EXCEPT !.visited = visited, !.stale = stale,
                                 !.pc = IF visited = Fh THEN "drop_fh" ELSE "collect"]
                 /\ retire' = [retire EXCEPT ![r] = k]
    BY ZenonT(30), <1>6, <2>1 DEF CollectStale
  <2>3. o \in Object \cup {NoObject}
    BY ZenonT(30), <1>1 DEF TypeOK
  <2>4. visited \subseteq Fh /\ stale \subseteq Fh \X Object
    BY SMTT(30), <1>2, <2>1, <2>3 DEF belongs_to
  <2>5. /\ k \in RetireState /\ k.pc = IF visited = Fh THEN "drop_fh" ELSE "collect"
        /\ k.ids = x.ids /\ k.visited = visited /\ k.stale = stale
    BY ZenonT(30), <1>1, <1>2, <2>2, <2>4 DEF RetireState
  <2>6. /\ x.pc = "collect" /\ f \notin x.visited
        /\ UNCHANGED <<retired_objects, fh_to_object, object_to_fh>>
    BY ZenonT(30), <1>6 DEF CollectStale, names
  <2>7. \A p \in stale : p[2].id \in x.ids
    BY SMTT(30), <1>1, <2>1 DEF Holds, belongs_to
  <2>8. Holds(k)
    BY ZenonT(30), <1>1, <2>5, <2>7 DEF Holds
  <2>9. Turn(r, k)
    BY ZenonT(30), <1>3, <2>2, <2>8 DEF Turn
  <2>10. /\ k.visited = x.visited \cup {f}
         /\ x.stale \subseteq k.stale /\ (belongs_to(o, x.ids) => <<f, o>> \in k.stale)
         /\ k.pc = "collect" \/ (k.pc = "drop_fh" /\ k.visited = Fh)
    BY ZenonT(30), <2>1, <2>5
  <2> QED BY ZenonT(30), <2>5, <2>6, <2>9, <2>10 DEF Collects
<1>7. ASSUME NEW p \in x.stale, DropFh(r, p) PROVE DropsFh(r, p)
  <2>1. p[1] \in Fh /\ p[2] \in Object /\ p[2].id \in x.ids
    BY ZenonT(30), <1>1, <1>2 DEF Holds
  <2>2. PICK k : /\ k = [x EXCEPT !.pc = "drop_object", !.stale = x.stale \ {p}, !.object = p[2]]
                 /\ retire' = [retire EXCEPT ![r] = k]
    BY ZenonT(30), <1>1, <1>7 DEF DropFh
  <2>3. /\ k \in RetireState /\ k.pc = "drop_object" /\ k.ids = x.ids
        /\ k.stale = x.stale \ {p} /\ k.object = p[2]
    BY ZenonT(30), <1>1, <1>2, <2>1, <2>2 DEF RetireState
  <2>4. Holds(k)
    BY ZenonT(30), <1>1, <2>1, <2>3 DEF Holds
  <2>5. /\ x.pc = "drop_fh" /\ fh_to_object' = [fh_to_object EXCEPT ![p[1]] = NoObject]
        /\ UNCHANGED <<retired_objects, object_to_fh>>
    BY ZenonT(30), <1>7 DEF DropFh
  <2> QED BY ZenonT(30), <1>3, <2>1, <2>2, <2>3, <2>4, <2>5 DEF DropsFh, Turn
<1>8. CASE DropObject(r)
  <2>1. PICK k : /\ k = [x EXCEPT !.pc = "drop_fh", !.object = NoObject]
                 /\ retire' = [retire EXCEPT ![r] = k]
    BY ZenonT(30), <1>1, <1>8 DEF DropObject
  <2>2. k \in RetireState /\ k.pc = "drop_fh" /\ k.ids = x.ids /\ k.stale = x.stale
    BY ZenonT(30), <1>1, <1>2, <2>1 DEF RetireState
  <2>3. Holds(k)
    BY ZenonT(30), <1>1, <2>2 DEF Holds
  <2>4. /\ x.pc = "drop_object" /\ object_to_fh' = [object_to_fh EXCEPT ![x.object] = NoFh]
        /\ UNCHANGED <<retired_objects, fh_to_object>>
    BY ZenonT(30), <1>8 DEF DropObject
  <2> QED BY ZenonT(30), <1>3, <2>1, <2>2, <2>3, <2>4 DEF DropsObject, Turn
<1>9. ASSUME NEW pc \in {"forget", "sweep", "done"}, NEW todo \in SUBSET Id,
             retire' = [retire EXCEPT ![r] = [x EXCEPT !.pc = pc, !.todo = todo]]
      PROVE  \E k : Holds(k) /\ retire' = [retire EXCEPT ![r] = k] /\ k.ids = x.ids /\ k.pc = pc
  <2>1. PICK k : /\ k = [x EXCEPT !.pc = pc, !.todo = todo]
                 /\ retire' = [retire EXCEPT ![r] = k]
    BY ZenonT(30), <1>9
  <2>2. k \in RetireState /\ k.pc = pc /\ k.ids = x.ids /\ k.stale = x.stale
    BY ZenonT(30), <1>1, <1>2, <2>1 DEF RetireState
  <2>3. Holds(k)
    BY ZenonT(30), <1>1, <2>2 DEF Holds
  <2> QED BY ZenonT(30), <2>1, <2>2, <2>3
<1>10. CASE AllDropped(r)
  <2>1. retire' = [retire EXCEPT ![r] = [x EXCEPT !.pc = "forget", !.todo = x.ids]]
    BY ZenonT(30), <1>1, <1>10 DEF AllDropped
  <2>2. \E k : Holds(k) /\ retire' = [retire EXCEPT ![r] = k] /\ k.ids = x.ids /\ k.pc = "forget"
    BY ZenonT(30), <1>2, <1>9, <2>1
  <2> QED BY ZenonT(30), <1>3, <1>10, <2>2 DEF Rests, Turn, AllDropped, names
<1>11. ASSUME NEW i \in Id, ForgetPersistent(r, i) PROVE Rests(r)
  <2>1. PICK pc \in {"forget", "sweep"} : pc = IF x.todo = {i} THEN "sweep" ELSE "forget"
    BY ZenonT(30)
  <2>2. retire' = [retire EXCEPT ![r] = [x EXCEPT !.pc = pc, !.todo = x.todo \ {i}]]
    BY ZenonT(30), <1>1, <1>11, <2>1 DEF ForgetPersistent
  <2>0. pc \in {"forget", "sweep", "done"} /\ x.todo \ {i} \in SUBSET Id
    BY ZenonT(30), <1>2
  <2>3. \E k : Holds(k) /\ retire' = [retire EXCEPT ![r] = k] /\ k.ids = x.ids /\ k.pc = pc
    BY ZenonT(30), <1>9, <2>0, <2>2
  <2> QED BY ZenonT(30), <1>3, <1>11, <2>3 DEF Rests, Turn, ForgetPersistent
<1>12. CASE SweepState(r)
  <2>1. retire' = [retire EXCEPT ![r] = [x EXCEPT !.pc = "done", !.todo = x.todo]]
    BY ZenonT(30), <1>1, <1>12 DEF SweepState, RetireState
  <2>2. \E k : Holds(k) /\ retire' = [retire EXCEPT ![r] = k] /\ k.ids = x.ids /\ k.pc = "done"
    BY ZenonT(30), <1>2, <1>9, <2>1
  <2> QED BY ZenonT(30), <1>3, <1>12, <2>2 DEF Rests, Turn, SweepState, names
<1> QED BY ZenonT(30), <1>4, <1>5, <1>6, <1>7, <1>8, <1>10, <1>11, <1>12 DEF RetireStep

-----------------------------------------------------------------------------
\* Types.

\* Who changes the registration maps and the state of objects.
LEMMA OtherOutcomes ==
    ASSUME [Next]_vars
    PROVE  /\ \/ UNCHANGED <<maps, persistent_fh>>
              \/ \E t \in Task : RegisterNew(t)
              \/ \E r \in Retirer, P \in SUBSET Handle : RetireBegin(r, P)
              \/ UNCHANGED maps /\ \E r \in Retirer, i \in Id : ForgetPersistent(r, i)
           /\ \/ UNCHANGED state
              \/ \E t \in Task : EnsureMeta(t) \/ CreateState(t)
              \/ \E r \in Retirer : SweepState(r)
<1>1. CASE UNCHANGED vars
  BY ZenonT(30), <1>1 DEF vars, names
<1>2. ASSUME NEW t \in Task, TaskStep(t)
      PROVE  /\ UNCHANGED <<maps, persistent_fh>> \/ RegisterNew(t)
             /\ UNCHANGED state \/ EnsureMeta(t) \/ CreateState(t)
  BY ZenonT(30), <1>2 DEF TaskStep, BackendReturns, ResolveObject, RegisterKnown, RegisterFenced, RegisterNew,
       GetAttr, EnsureMeta, CreateState, LookupFh, CheckRetired, ClaimPersistent,
       ReservePersistent, MintBootScoped, Publish, Recheck, BackOutFh, BackOutObject, names
<1>3. ASSUME NEW r \in Retirer, RetireStep(r)
      PROVE  /\ \/ UNCHANGED <<maps, persistent_fh>>
                \/ \E P \in SUBSET Handle : RetireBegin(r, P)
                \/ UNCHANGED maps /\ \E i \in Id : ForgetPersistent(r, i)
             /\ UNCHANGED state \/ SweepState(r)
  BY ZenonT(30), <1>3 DEF RetireStep, RetireBegin, MarkRetired, ForgetPersistent, CollectStale, DropFh,
       DropObject, AllDropped, SweepState, names
<1> QED BY ZenonT(30), <1>1, <1>2, <1>3 DEF Next

\* The conjuncts of TypeOK, by what changes together.
MapsOK ==
    /\ handle_to_object \in [Handle -> Id \cup {NoId}]
    /\ object_to_handle \in [Id -> Handle \cup {NoHandle}]
    /\ next_object_id \in 1..(MaxId + 1)
    /\ fences \subseteq Handle
    /\ persistent_fh \in [Id -> PersistentFh \cup {NoFh}]

FilehandlesOK ==
    /\ retired_objects \subseteq Id
    /\ fh_to_object \in [Fh -> Object \cup {NoObject}]
    /\ object_to_fh \in [Object -> Fh \cup {NoFh}]
    /\ next_fh \in 1..(MaxFh + 1)
    /\ issued \subseteq (Object \X Fh)

LEMMA MapTypes ==
    ASSUME TypeInv, [Next]_vars
    PROVE  MapsOK'
<1>1. TypeOK
  BY ZenonT(30) DEF TypeInv
<1>2. CASE UNCHANGED <<maps, persistent_fh>>
  BY ZenonT(30), <1>1, <1>2 DEF TypeOK, maps, MapsOK
<1>3. ASSUME NEW t \in Task, RegisterNew(t) PROVE MapsOK'
  <2>1. task[t].handle \in Handle
    BY ZenonT(30), <1>3 DEF TypeInv, Carries, RegisterNew
  <2>2. next_object_id \in Id /\ next_object_id + 1 \in 1..(MaxId + 1)
    BY ZenonT(30), <1>1, <1>3, DrawsId
  <2>3. task[t].handle \in Durable => Durably(Encoding[task[t].handle]) \in PersistentFh
    BY ZenonT(30), EncodingAssumption DEF Durably, PersistentFh
  <2> QED BY ZenonT(30), <1>1, <1>3, <2>1, <2>2, <2>3 DEF TypeOK, RegisterNew, MapsOK
<1>4. ASSUME NEW r \in Retirer, NEW P \in SUBSET Handle, RetireBegin(r, P) PROVE MapsOK'
  BY ZenonT(30), <1>1, <1>4 DEF TypeOK, RetireBegin, names, MapsOK
<1>5. ASSUME UNCHANGED maps, NEW r \in Retirer, NEW i \in Id, ForgetPersistent(r, i) PROVE MapsOK'
  BY ZenonT(30), <1>1, <1>5 DEF TypeOK, ForgetPersistent, maps, MapsOK
<1> QED BY ZenonT(30), <1>2, <1>3, <1>4, <1>5, OtherOutcomes

LEMMA StateTypes ==
    ASSUME TypeInv, [Next]_vars
    PROVE  (held \subseteq Object /\ metadata \subseteq Object)'
<1>1. TypeOK
  BY ZenonT(30) DEF TypeInv
<1>2. ASSUME NEW t \in Task, EnsureMeta(t) \/ CreateState(t)
      PROVE  (held \subseteq Object /\ metadata \subseteq Object)'
  <2>1. task[t].object \in Object
    BY ZenonT(30), <1>2 DEF TypeInv, Carries, EnsureMeta, CreateState
  <2> QED BY ZenonT(30), <1>1, <1>2, <2>1 DEF TypeOK, EnsureMeta, CreateState
<1>3. ASSUME NEW r \in Retirer, SweepState(r)
      PROVE  (held \subseteq Object /\ metadata \subseteq Object)'
  BY ZenonT(30), <1>1, <1>3 DEF TypeOK, SweepState
<1>4. CASE UNCHANGED state
  BY ZenonT(30), <1>1, <1>4 DEF TypeOK, state
<1> QED BY ZenonT(30), <1>2, <1>3, <1>4, OtherOutcomes

\* A task that moves carries what it must; so do the others, which stay.
LEMMA TasksCarry ==
    ASSUME TypeInv, NEW t \in Task, NEW k, Carries(k), task' = [task EXCEPT ![t] = k]
    PROVE  task' \in [Task -> TaskState] /\ \A u \in Task : Carries(task'[u])
  BY ZenonT(30) DEF TypeInv, TypeOK, Carries

LEMMA RetirersHold ==
    ASSUME TypeInv, NEW r \in Retirer, NEW k, Turn(r, k)
    PROVE  retire' \in [Retirer -> RetireState] /\ \A q \in Retirer : Holds(retire'[q])
  BY ZenonT(30) DEF TypeInv, TypeOK, Holds, Turn

LEMMA TaskTypes ==
    ASSUME TypeInv, NEW t \in Task, TaskStep(t)
    PROVE  /\ FilehandlesOK' /\ UNCHANGED retire
           /\ task' \in [Task -> TaskState] /\ \A u \in Task : Carries(task'[u])
<1>1. TypeOK /\ FilehandlesOK
  BY ZenonT(30) DEF TypeInv, TypeOK, FilehandlesOK
<1>2. \E k : Carries(k) /\ task' = [task EXCEPT ![t] = k]
  BY ZenonT(30), TaskOutcomes DEF Quiet, Found, Reserved, BootMinted, Published, Lost, Valid, Invalid,
       FhBackedOut, ObjectBackedOut, Move, Leave
<1>3. task' \in [Task -> TaskState] /\ \A u \in Task : Carries(task'[u])
  BY ZenonT(30), <1>2, TasksCarry
<1>4. /\ task[t].pc \notin {"idle", "register"} => task[t].object \in Object
      /\ task[t].pc \in Minting => task[t].fh \in Fh
  BY ZenonT(30), TaskOutcomes
<1>5. FilehandlesOK' /\ UNCHANGED retire
  <2>1. CASE Quiet(t)
    BY ZenonT(30), <1>1, <2>1 DEF FilehandlesOK, Quiet
  <2>2. CASE Found(t)
    BY <1>1, <1>4, <2>2 DEF FilehandlesOK, Found, Answers
  <2>3. CASE Reserved(t)
    BY ZenonT(30), <1>1, <1>4, <2>3 DEF FilehandlesOK, Reserved
  <2>4. CASE BootMinted(t)
    <3>1. BootScoped(next_fh) \in Fh /\ task[t].object \in Object
      BY ZenonT(30), <1>4, <2>4 DEF BootMinted, Fh
    <3>2. next_fh' \in 1..(MaxFh + 1)
      BY <1>1, <2>4, BoundAssumption DEF FilehandlesOK, BootMinted
    <3>3. fh_to_object' \in [Fh -> Object \cup {NoObject}]
      BY ZenonT(30), <1>1, <2>4, <3>1 DEF FilehandlesOK, BootMinted
    <3> QED BY ZenonT(30), <1>1, <2>4, <3>2, <3>3 DEF FilehandlesOK, BootMinted
  <2>5. CASE Published(t)
    BY ZenonT(30), <1>1, <1>4, <2>5 DEF FilehandlesOK, Published, Minting
  <2>6. CASE Lost(t)
    <3>1. /\ task[t].object \in Object /\ task[t].fh \in Fh
          /\ object_to_fh[task[t].object] \in Fh
      BY ZenonT(30), <1>4, <2>6 DEF Lost, Minting
    <3>2. issued' \subseteq Object \X Fh
      BY <1>1, <2>6, <3>1 DEF FilehandlesOK, Lost, Answers
    <3>3. fh_to_object' \in [Fh -> Object \cup {NoObject}]
      BY ZenonT(30), <1>1, <2>6, <3>1 DEF FilehandlesOK, Lost
    <3> QED BY ZenonT(30), <1>1, <2>6, <3>2, <3>3 DEF FilehandlesOK, Lost
  <2>7. CASE Valid(t)
    <3>1. task[t].object \in Object /\ task[t].fh \in Fh
      BY ZenonT(30), <1>4, <2>7 DEF Valid, Minting
    <3>2. issued' \subseteq Object \X Fh
      BY <1>1, <2>7, <3>1 DEF FilehandlesOK, Valid, Answers
    <3> QED BY ZenonT(30), <1>1, <2>7, <3>2 DEF FilehandlesOK, Valid
  <2>8. CASE Invalid(t)
    BY ZenonT(30), <1>1, <2>8 DEF FilehandlesOK, Invalid
  <2>9. CASE FhBackedOut(t)
    BY ZenonT(30), <1>1, <2>9 DEF FilehandlesOK, FhBackedOut
  <2>10. CASE ObjectBackedOut(t)
    BY ZenonT(30), <1>1, <2>10 DEF FilehandlesOK, ObjectBackedOut
  <2> QED BY ZenonT(30), <2>1, <2>2, <2>3, <2>4, <2>5, <2>6, <2>7, <2>8, <2>9, <2>10, TaskOutcomes
<1> QED BY ZenonT(30), <1>3, <1>5

LEMMA RetireTurns ==
    ASSUME TypeInv, NEW r \in Retirer, RetireStep(r)
    PROVE  \E k : Turn(r, k)
<1>1. CASE Begun(r) \/ DropsObject(r) \/ Rests(r)
  BY ZenonT(30), <1>1 DEF Begun, DropsObject, Rests
<1>2. CASE \E i \in Id : Marks(r, i)
  BY ZenonT(30), <1>2 DEF Marks
<1>3. CASE \E f \in Fh : Collects(r, f)
  BY ZenonT(30), <1>3 DEF Collects
<1>4. CASE \E p : DropsFh(r, p)
  BY ZenonT(30), <1>4 DEF DropsFh
<1> QED BY ZenonT(30), <1>1, <1>2, <1>3, <1>4, RetireOutcomes

\* Only the sweep, or a retirement that matches nothing, brings one to its end.
LEMMA OnlySweepsFinish ==
    ASSUME TypeInv, NEW r \in Retirer, RetireStep(r), ~SweepState(r)
    PROVE  retire'[r].pc = "done" => retire'[r].ids = {}
<1>1. retire \in [Retirer -> RetireState] /\ retire[r] \in RetireState
  BY ZenonT(30) DEF TypeInv, TypeOK
<1>2. ASSUME NEW P \in (SUBSET Handle) \ {{}}, RetireBegin(r, P)
      PROVE  retire'[r].pc = "done" => retire'[r].ids = {}
  BY ZenonT(30), <1>1, <1>2 DEF RetireBegin, RetireState
<1>3. ASSUME NEW i \in Id, MarkRetired(r, i) \/ ForgetPersistent(r, i) PROVE retire'[r].pc # "done"
  BY <1>1, <1>3 DEF MarkRetired, ForgetPersistent, RetireState
<1>4. ASSUME NEW f \in Fh, CollectStale(r, f) PROVE retire'[r].pc # "done"
  BY ZenonT(30), <1>1, <1>4 DEF CollectStale, RetireState
<1>5. ASSUME NEW p \in retire[r].stale, DropFh(r, p) PROVE retire'[r].pc # "done"
  BY ZenonT(30), <1>1, <1>5 DEF DropFh, RetireState
<1>6. ASSUME DropObject(r) \/ AllDropped(r) PROVE retire'[r].pc # "done"
  BY <1>1, <1>6 DEF DropObject, AllDropped, RetireState
<1> QED BY ZenonT(30), <1>2, <1>3, <1>4, <1>5, <1>6 DEF RetireStep

LEMMA RetireTypes ==
    ASSUME TypeInv, NEW r \in Retirer, RetireStep(r)
    PROVE  /\ FilehandlesOK' /\ UNCHANGED task
           /\ retire' \in [Retirer -> RetireState] /\ \A q \in Retirer : Holds(retire'[q])
<1>1. TypeOK /\ FilehandlesOK
  BY ZenonT(30) DEF TypeInv, TypeOK, FilehandlesOK
<1>2. PICK k : Turn(r, k)
  BY ZenonT(30), RetireTurns
<1>3. UNCHANGED <<next_fh, issued, task>>
  BY ZenonT(30), <1>2 DEF Turn
<1>4. FilehandlesOK'
  BY ZenonT(30), <1>1, <1>3, RetireOutcomes
     DEF FilehandlesOK, Begun, Marks, Collects, DropsFh, DropsObject, Rests
<1> QED BY ZenonT(30), <1>2, <1>3, <1>4, RetirersHold

LEMMA TypeInvInit == Init => TypeInv
<1> SUFFICES ASSUME Init PROVE TypeInv
  BY ZenonT(30)
<1>1. /\ IdleRetire \in RetireState /\ IdleRetire.pc = "idle" /\ IdleRetire.ids = {}
      /\ IdleRetire.visited = {} /\ IdleRetire.stale = {}
  BY ZenonT(30) DEF IdleRetire, RetireState, RetirePc
<1>2. Holds(IdleRetire)
  BY ZenonT(30), <1>1 DEF Holds
<1>3. IdleTask \in TaskState /\ Carries(IdleTask)
  BY ZenonT(30), IdleCarries DEF Carries
<1>4. TypeOK
  BY <1>1, <1>3, BoundAssumption DEF Init, TypeOK
<1> QED BY ZenonT(30), <1>2, <1>3, <1>4 DEF TypeInv, Init

LEMMA TypeInvStep ==
    ASSUME TypeInv, [Next]_vars
    PROVE  TypeInv'
<1>1. MapsOK' /\ (held \subseteq Object /\ metadata \subseteq Object)'
  BY ZenonT(30), MapTypes, StateTypes
<1> DEFINE Rest ==
      /\ FilehandlesOK'
      /\ task' \in [Task -> TaskState] /\ \A u \in Task : Carries(task'[u])
      /\ retire' \in [Retirer -> RetireState] /\ \A q \in Retirer : Holds(retire'[q])
<1>2. ASSUME UNCHANGED vars PROVE Rest
  <2>1. /\ UNCHANGED <<retired_objects, fh_to_object, object_to_fh, next_fh, issued>>
        /\ task' = task /\ retire' = retire
    BY ZenonT(30), <1>2 DEF vars, names
  <2> QED BY ZenonT(30), <2>1 DEF TypeInv, TypeOK, FilehandlesOK
<1>3. ASSUME NEW t \in Task, TaskStep(t) PROVE Rest
  BY ZenonT(30), <1>3, TaskTypes DEF TypeInv, TypeOK
<1>4. ASSUME NEW r \in Retirer, RetireStep(r) PROVE Rest
  BY ZenonT(30), <1>4, RetireTypes DEF TypeInv, TypeOK
<1>5. Rest
  BY ZenonT(30), <1>2, <1>3, <1>4 DEF Next
<1> QED BY ZenonT(30), <1>1, <1>5 DEF TypeInv, TypeOK, MapsOK, FilehandlesOK

-----------------------------------------------------------------------------
\* Registration.

\* The maps are inverse to each other, numbers not yet drawn are not in use, and
\* fenced handles have none.
RegistrationInv ==
    /\ RegistrationIsBijective
    /\ \A i \in Id : i >= next_object_id => object_to_handle[i] = NoHandle
    /\ \A h \in fences : handle_to_object[h] = NoId

LEMMA RegistrationInvInit == Init => RegistrationInv
  BY ZenonT(30), Kinds, NoneAssumption DEF Init, RegistrationInv, RegistrationIsBijective

LEMMA RegistrationInvStep ==
    ASSUME TypeInv, RegistrationInv, [Next]_vars
    PROVE  RegistrationInv'
<1>1. TypeOK /\ MapsOK
  BY ZenonT(30) DEF TypeInv, TypeOK, MapsOK
<1>2. CASE UNCHANGED maps
  BY ZenonT(30), <1>2 DEF RegistrationInv, RegistrationIsBijective, maps
<1>3. ASSUME NEW t \in Task, RegisterNew(t) PROVE RegistrationInv'
  <2>1. PICK h \in Handle, i \in Id :
          /\ h = task[t].handle /\ i = next_object_id /\ next_object_id' = i + 1
          /\ handle_to_object[h] = NoId /\ h \notin fences /\ fences' = fences
          /\ handle_to_object' = [handle_to_object EXCEPT ![h] = i]
          /\ object_to_handle' = [object_to_handle EXCEPT ![i] = h]
    <3>1. task[t].handle \in Handle
      BY ZenonT(30), <1>3 DEF TypeInv, Carries, RegisterNew
    <3>2. next_object_id \in Id
      BY ZenonT(30), <1>1, <1>3, DrawsId
    <3> QED BY ZenonT(30), <1>3, <3>1, <3>2 DEF RegisterNew
  <2>2. object_to_handle[i] = NoHandle
    BY <1>1, <2>1, BoundAssumption DEF RegistrationInv, Id
  <2>3. RegistrationIsBijective'
    <3> SUFFICES ASSUME NEW g \in Handle, NEW j \in Id
                 PROVE  handle_to_object'[g] = j <=> object_to_handle'[j] = g
      BY ZenonT(30) DEF RegistrationIsBijective
    <3>1. handle_to_object[g] = j <=> object_to_handle[j] = g
      BY ZenonT(30) DEF RegistrationInv, RegistrationIsBijective
    <3>2. handle_to_object'[g] = IF g = h THEN i ELSE handle_to_object[g]
      BY ZenonT(30), <1>1, <2>1 DEF MapsOK
    <3>3. object_to_handle'[j] = IF j = i THEN h ELSE object_to_handle[j]
      BY ZenonT(30), <1>1, <2>1 DEF MapsOK
    <3> QED BY ZenonT(30), <2>1, <2>2, <3>1, <3>2, <3>3, Kinds, NoneAssumption
  <2>4. \A j \in Id : j >= next_object_id' => object_to_handle'[j] = NoHandle
    BY <1>1, <2>1, BoundAssumption DEF MapsOK, RegistrationInv, Id
  <2>5. \A g \in fences' : handle_to_object'[g] = NoId
    BY ZenonT(30), <1>1, <2>1 DEF MapsOK, RegistrationInv
  <2> QED BY ZenonT(30), <2>3, <2>4, <2>5 DEF RegistrationInv
<1>4. ASSUME NEW r \in Retirer, NEW P \in SUBSET Handle, RetireBegin(r, P) PROVE RegistrationInv'
  <2>1. PICK matched, ids :
          /\ matched = {h \in P : handle_to_object[h] # NoId}
          /\ ids = {handle_to_object[h] : h \in matched}
          /\ fences' = fences \cup P /\ next_object_id' = next_object_id
          /\ handle_to_object' = [h \in Handle |-> IF h \in matched THEN NoId ELSE handle_to_object[h]]
          /\ object_to_handle' = [i \in Id |-> IF i \in ids THEN NoHandle ELSE object_to_handle[i]]
    BY ZenonT(30), <1>4 DEF RetireBegin
  <2>2. RegistrationIsBijective'
    <3> SUFFICES ASSUME NEW g \in Handle, NEW j \in Id
                 PROVE  handle_to_object'[g] = j <=> object_to_handle'[j] = g
      BY ZenonT(30) DEF RegistrationIsBijective
    <3>1. handle_to_object[g] = j <=> object_to_handle[j] = g
      BY ZenonT(30) DEF RegistrationInv, RegistrationIsBijective
    <3>2. \A f \in Handle : handle_to_object[f] = j <=> object_to_handle[j] = f
      BY ZenonT(30) DEF RegistrationInv, RegistrationIsBijective
    <3>3. handle_to_object[g] = j => (g \in matched <=> j \in ids)
      <4> SUFFICES ASSUME handle_to_object[g] = j PROVE g \in matched <=> j \in ids
        BY ZenonT(30)
      <4>1. ASSUME j \in ids PROVE g \in matched
        <5>1. PICK f \in matched : handle_to_object[f] = j
          BY ZenonT(30), <2>1, <4>1
        <5>2. f \in Handle
          BY ZenonT(30), <2>1, <5>1
        <5> QED BY ZenonT(30), <3>2, <5>1, <5>2
      <4>2. ASSUME g \in matched PROVE j \in ids
        BY ZenonT(30), <2>1, <4>2
      <4> QED BY ZenonT(30), <4>1, <4>2
    <3> QED BY ZenonT(30), <2>1, <3>1, <3>3, Kinds, NoneAssumption
  <2>3. \A j \in Id : j >= next_object_id' => object_to_handle'[j] = NoHandle
    BY ZenonT(30), <2>1 DEF RegistrationInv
  <2>4. \A g \in fences' : handle_to_object'[g] = NoId
    BY ZenonT(30), <1>1, <2>1 DEF MapsOK, RegistrationInv
  <2> QED BY ZenonT(30), <2>2, <2>3, <2>4 DEF RegistrationInv
<1> QED BY ZenonT(30), <1>2, <1>3, <1>4, OtherOutcomes

\* The two registration maps stay inverse to each other (objects.rs register_handle,
\* delegation.rs retire_handles), however many requests register at once.
THEOREM RegistrationStaysBijective == Spec => []RegistrationIsBijective
<1>1. Init => TypeInv /\ RegistrationInv
  BY ZenonT(30), TypeInvInit, RegistrationInvInit
<1>2. TypeInv /\ RegistrationInv /\ [Next]_vars => (TypeInv /\ RegistrationInv)'
  BY ZenonT(30), TypeInvStep, RegistrationInvStep
<1>3. RegistrationInv => RegistrationIsBijective
  BY ZenonT(30) DEF RegistrationInv
<1> QED BY <1>1, <1>2, <1>3, PTL DEF Spec

\* From the fence of retire_handles on no object id reaches a fenced handle
\* (retirement.rs, objects.rs register_handle).
THEOREM FencesHold == Spec => []FencedHandlesUnreachable
<1>1. Init => TypeInv /\ RegistrationInv
  BY ZenonT(30), TypeInvInit, RegistrationInvInit
<1>2. TypeInv /\ RegistrationInv /\ [Next]_vars => (TypeInv /\ RegistrationInv)'
  BY ZenonT(30), TypeInvStep, RegistrationInvStep
<1>3. TypeInv /\ RegistrationInv => FencedHandlesUnreachable
  <2> SUFFICES ASSUME TypeInv, RegistrationInv, NEW i \in Id, object_to_handle[i] \in fences
               PROVE  FALSE
    BY ZenonT(30) DEF FencedHandlesUnreachable, RegistrationInv
  <2>1. object_to_handle[i] \in Handle
    BY ZenonT(30) DEF TypeInv, TypeOK
  <2>2. handle_to_object[object_to_handle[i]] = i
    BY ZenonT(30), <2>1 DEF RegistrationInv, RegistrationIsBijective
  <2> QED BY ZenonT(30), <2>2, Kinds DEF RegistrationInv
<1> QED BY <1>1, <1>2, <1>3, PTL DEF Spec

-----------------------------------------------------------------------------
\* Retirement.

\* What a retirement has marked: all its ids once it collects filehandles.
Marked(k) ==
    /\ k.pc \notin {"idle", "mark"} => k.ids \subseteq retired_objects
    /\ k.pc = "mark" => k.ids \ k.todo \subseteq retired_objects

MarkedInv == \A r \in Retirer : Marked(retire[r])

LEMMA RetiredGrows ==
    ASSUME TypeInv, [Next]_vars
    PROVE  retired_objects \subseteq retired_objects'
<1>1. ASSUME NEW t \in Task, TaskStep(t) PROVE retired_objects' = retired_objects
  BY ZenonT(30), <1>1, TaskOutcomes DEF Quiet, Found, Reserved, BootMinted, Published, Lost, Valid, Invalid,
       FhBackedOut, ObjectBackedOut
<1>2. ASSUME NEW r \in Retirer, RetireStep(r) PROVE retired_objects \subseteq retired_objects'
  BY ZenonT(30), <1>2, RetireOutcomes DEF Begun, Marks, Collects, DropsFh, DropsObject, Rests
<1> QED BY ZenonT(30), <1>1, <1>2 DEF Next, vars

\* A retirement other than the one that steps stays as it is.
LEMMA OthersStay ==
    ASSUME TypeInv, NEW r \in Retirer, NEW k, Turn(r, k)
    PROVE  retire'[r] = k /\ \A q \in Retirer \ {r} : retire'[q] = retire[q]
  BY ZenonT(30) DEF TypeInv, TypeOK, Turn

LEMMA MarkedInvStep ==
    ASSUME TypeInv, MarkedInv, [Next]_vars
    PROVE  MarkedInv'
<1>1. retired_objects \subseteq retired_objects'
  BY ZenonT(30), RetiredGrows
<1>2. ASSUME UNCHANGED retire PROVE MarkedInv'
  BY ZenonT(30), <1>1, <1>2 DEF MarkedInv, Marked
<1>3. ASSUME NEW t \in Task, TaskStep(t) PROVE UNCHANGED retire
  BY ZenonT(30), <1>3, TaskTypes
<1>4. ASSUME NEW r \in Retirer, NEW k, Turn(r, k), Marked(k)' PROVE MarkedInv'
  <2>1. retire'[r] = k /\ \A q \in Retirer \ {r} : retire'[q] = retire[q]
    BY ZenonT(30), <1>4, OthersStay
  <2> SUFFICES ASSUME NEW q \in Retirer PROVE Marked(retire[q])'
    BY ZenonT(30) DEF MarkedInv
  <2>2. CASE q = r
    BY ZenonT(30), <1>4, <2>1, <2>2 DEF Marked
  <2>3. CASE q # r
    BY ZenonT(30), <1>1, <2>1, <2>3 DEF MarkedInv, Marked
  <2> QED BY ZenonT(30), <2>2, <2>3
<1>5. ASSUME NEW r \in Retirer, RetireStep(r)
      PROVE  \E k : Turn(r, k) /\ Marked(k)'
  <2>1. Marked(retire[r]) /\ Holds(retire[r])
    BY ZenonT(30) DEF MarkedInv, TypeInv
  <2>2. CASE Begun(r)
    <3>1. PICK k : /\ Turn(r, k) /\ k.pc \in {"mark", "done"} /\ k.todo = k.ids
                   /\ k.pc = "done" => k.ids = {}
      BY ZenonT(30), <2>2 DEF Begun
    <3>2. Marked(k)'
      BY ZenonT(30), <3>1 DEF Marked
    <3> QED BY ZenonT(30), <3>1, <3>2
  <2>3. ASSUME NEW i \in Id, Marks(r, i) PROVE \E k : Turn(r, k) /\ Marked(k)'
    <3>1. PICK k : /\ Turn(r, k) /\ k.ids = retire[r].ids /\ k.todo = retire[r].todo \ {i}
                   /\ k.pc = "mark" \/ (k.pc = "collect" /\ retire[r].todo = {i})
      BY ZenonT(30), <2>3 DEF Marks
    <3>2. retire[r].pc = "mark" /\ retired_objects' = retired_objects \cup {i}
      BY ZenonT(30), <2>3 DEF Marks
    <3>3. Marked(k)'
      BY ZenonT(30), <2>1, <3>1, <3>2 DEF Marked
    <3> QED BY ZenonT(30), <3>1, <3>3
  <2>4. ASSUME NEW k, Turn(r, k), k.ids = retire[r].ids, retire[r].pc \notin {"idle", "mark"},
               k.pc # "mark"
        PROVE  Marked(k)'
    BY ZenonT(30), <1>1, <2>1, <2>4 DEF Marked
  <2>5. CASE \E f \in Fh : Collects(r, f)
    <3>1. PICK f \in Fh : Collects(r, f)
      BY ZenonT(30), <2>5
    <3>2. PICK k : Turn(r, k) /\ k.ids = retire[r].ids /\ k.pc \in {"collect", "drop_fh"}
      BY ZenonT(30), <3>1 DEF Collects
    <3>3. retire[r].pc = "collect"
      BY ZenonT(30), <3>1 DEF Collects
    <3> QED BY ZenonT(30), <2>4, <3>2, <3>3
  <2>6. CASE (\E p : DropsFh(r, p)) \/ DropsObject(r) \/ Rests(r)
    <3>1. PICK k : Turn(r, k) /\ k.ids = retire[r].ids /\ k.pc # "mark"
      BY ZenonT(30), <2>6 DEF DropsFh, DropsObject, Rests
    <3>2. retire[r].pc \notin {"idle", "mark"}
      BY ZenonT(30), <2>6 DEF DropsFh, DropsObject, Rests
    <3> QED BY ZenonT(30), <2>4, <3>1, <3>2
  <2> QED BY ZenonT(30), <1>5, <2>2, <2>3, <2>5, <2>6, RetireOutcomes
<1>6. CASE UNCHANGED vars
  BY ZenonT(30), <1>2, <1>6 DEF vars
<1> QED BY ZenonT(30), <1>2, <1>3, <1>4, <1>5, <1>6 DEF Next

LEMMA MarkedInvInit == Init => MarkedInv
  BY DEF Init, MarkedInv, Marked, IdleRetire

\* Nothing is held of what a finished retirement withdrew.
HeldInv == \A r \in Retirer, o \in held : retire[r].pc = "done" => o.id \notin retire[r].ids

LEMMA HeldInvStep ==
    ASSUME TypeInv, MarkedInv, HeldInv, [Next]_vars
    PROVE  HeldInv'
<1>1. MarkedInv'
  BY ZenonT(30), MarkedInvStep
<1>2. held \subseteq Object
  BY ZenonT(30) DEF TypeInv, TypeOK
<1>3. ASSUME UNCHANGED <<held, retire>> PROVE HeldInv'
  BY ZenonT(30), <1>3 DEF HeldInv
<1>4. ASSUME NEW t \in Task, TaskStep(t) PROVE HeldInv'
  <2>1. UNCHANGED retire
    BY ZenonT(30), <1>4, TaskTypes
  <2>2. UNCHANGED held \/ CreateState(t)
    BY ZenonT(30), <1>4 DEF TaskStep, BackendReturns, ResolveObject, RegisterKnown, RegisterFenced, RegisterNew,
         GetAttr, EnsureMeta, LookupFh, CheckRetired, ClaimPersistent,
         ReservePersistent, MintBootScoped, Publish, Recheck, BackOutFh, BackOutObject, state
  <2>3. CASE CreateState(t)
    <3>1. /\ UNCHANGED retired_objects
          /\ held' = held \/ (held' = held \cup {task[t].object} /\ task[t].object.id \notin retired_objects)
      BY ZenonT(30), <2>3 DEF CreateState, is_retired
    <3>2. \A r \in Retirer : retire[r].pc = "done" => retire[r].ids \subseteq retired_objects
      BY ZenonT(30) DEF MarkedInv, Marked
    <3> QED BY ZenonT(30), <2>1, <3>1, <3>2 DEF HeldInv
  <2> QED BY ZenonT(30), <1>3, <2>1, <2>2, <2>3
<1>5. ASSUME NEW r \in Retirer, RetireStep(r) PROVE HeldInv'
  <2>1. UNCHANGED held \/ SweepState(r)
    BY ZenonT(30), <1>5 DEF RetireStep, RetireBegin, MarkRetired, ForgetPersistent, CollectStale, DropFh,
         DropObject, AllDropped, state
  <2>2. held' \subseteq held
    BY ZenonT(30), <2>1 DEF SweepState
  <2>3. PICK k : Turn(r, k)
    BY ZenonT(30), <1>5, RetireTurns
  <2>4. retire'[r] = k /\ \A q \in Retirer \ {r} : retire'[q] = retire[q]
    BY ZenonT(30), <2>3, OthersStay
  <2>5. k.pc = "done" => k.ids = {} \/ \A o \in held' : o.id \notin k.ids
    <3>1. CASE SweepState(r)
      <4>1. retire'[r].ids = retire[r].ids
        BY ZenonT(30), <3>1 DEF SweepState, TypeInv, TypeOK, RetireState
      <4>2. \A o \in held' : ~belongs_to(o, retire[r].ids)
        BY ZenonT(30), <1>2, <3>1 DEF SweepState
      <4> QED BY ZenonT(30), <1>2, <2>2, <2>4, <4>1, <4>2, Kinds DEF belongs_to
    <3>2. CASE ~SweepState(r)
      <4>1. k.pc # "done" \/ k.ids = {}
        BY ZenonT(30), <1>5, <2>4, <3>2, OnlySweepsFinish
      <4> QED BY ZenonT(30), <4>1
    <3> QED BY ZenonT(30), <3>1, <3>2
  <2> SUFFICES ASSUME NEW q \in Retirer, NEW o \in held', retire'[q].pc = "done"
               PROVE  o.id \notin retire'[q].ids
    BY ZenonT(30) DEF HeldInv
  <2> QED BY ZenonT(30), <2>2, <2>4, <2>5 DEF HeldInv
<1>6. CASE UNCHANGED vars
  BY ZenonT(30), <1>3, <1>6 DEF vars, state
<1> QED BY ZenonT(30), <1>4, <1>5, <1>6 DEF Next

LEMMA HeldInvInit == Init => HeldInv
  BY ZenonT(30) DEF Init, HeldInv

\* Once retire_handles has returned, no request gives a withdrawn object state
\* (invalidate.rs; create_open_state and its likes), however long ago it resolved it.
THEOREM RetiredObjectsHoldNothing == Spec => []NoStateOutlivesRetirement
<1>1. Init => TypeInv /\ MarkedInv /\ HeldInv
  BY ZenonT(30), TypeInvInit, MarkedInvInit, HeldInvInit
<1>2. TypeInv /\ MarkedInv /\ HeldInv /\ [Next]_vars => (TypeInv /\ MarkedInv /\ HeldInv)'
  BY ZenonT(30), TypeInvStep, MarkedInvStep, HeldInvStep
<1>3. HeldInv => NoStateOutlivesRetirement
  BY ZenonT(30) DEF HeldInv, NoStateOutlivesRetirement, Withdrawn
<1> QED BY <1>1, <1>2, <1>3, PTL DEF Spec

-----------------------------------------------------------------------------
\* One name per object.

\* What was answered for an object that is not retired is what object_to_fh has;
\* a task that is about to answer has put it there; one that backs out has seen the
\* object retired.
Announced(k) ==
    /\ k.pc = "recheck" => is_retired(k.object) \/ object_to_fh[k.object] = k.fh
    /\ k.pc \in {"back_out_fh", "back_out_object"} => is_retired(k.object)

NamesInv ==
    /\ \A p \in issued : is_retired(p[1]) \/ object_to_fh[p[1]] = p[2]
    /\ \A t \in Task : Announced(task[t])

\* The step keeps the filehandle of every object that is not retired.
KeepsNames == \A o \in Object : is_retired(o) \/ object_to_fh[o] = NoFh \/ object_to_fh'[o] = object_to_fh[o]

LEMMA NamesKept ==
    ASSUME TypeInv, MarkedInv, NamesInv, [Next]_vars
    PROVE  KeepsNames
<1>1. object_to_fh \in [Object -> Fh \cup {NoFh}]
  BY ZenonT(30) DEF TypeInv, TypeOK
<1>2. ASSUME UNCHANGED object_to_fh PROVE KeepsNames
  BY ZenonT(30), <1>2 DEF KeepsNames
<1>3. ASSUME NEW t \in Task, TaskStep(t) PROVE KeepsNames
  <2>1. CASE Published(t)
    BY ZenonT(30), <1>1, <2>1 DEF Published, KeepsNames
  <2>2. CASE ObjectBackedOut(t)
    <3>1. is_retired(task[t].object)
      BY ZenonT(30), <2>2 DEF NamesInv, Announced, ObjectBackedOut
    <3> QED BY ZenonT(30), <1>1, <2>2, <3>1 DEF ObjectBackedOut, KeepsNames
  <2>3. CASE UNCHANGED object_to_fh
    BY ZenonT(30), <1>2, <2>3
  <2> QED BY ZenonT(30), <1>3, <2>1, <2>2, <2>3, TaskOutcomes
          DEF Quiet, Found, Reserved, BootMinted, Lost, Valid, Invalid, FhBackedOut
<1>4. ASSUME NEW r \in Retirer, RetireStep(r) PROVE KeepsNames
  <2>1. CASE DropsObject(r)
    <3>1. retire[r].object \in Object /\ retire[r].object.id \in retire[r].ids
      BY ZenonT(30), <2>1 DEF TypeInv, Holds, DropsObject
    <3>2. is_retired(retire[r].object)
      BY ZenonT(30), <2>1, <3>1 DEF DropsObject, MarkedInv, Marked, is_retired
    <3> QED BY ZenonT(30), <1>1, <2>1, <3>2 DEF DropsObject, KeepsNames
  <2>2. CASE UNCHANGED object_to_fh
    BY ZenonT(30), <1>2, <2>2
  <2> QED BY ZenonT(30), <1>4, <2>1, <2>2, RetireOutcomes DEF Begun, Marks, Collects, DropsFh, Rests
<1> QED BY ZenonT(30), <1>2, <1>3, <1>4 DEF Next, vars, names

\* What is retired stays retired.
LEMMA StaysRetired ==
    ASSUME TypeInv, [Next]_vars, NEW o, is_retired(o)
    PROVE  o.id \in retired_objects'
  BY ZenonT(30), RetiredGrows DEF is_retired

LEMMA IssuedKept ==
    ASSUME TypeInv, MarkedInv, NamesInv, [Next]_vars,
           \A p \in issued' \ issued : object_to_fh'[p[1]] = p[2]
    PROVE  \A p \in issued' : is_retired(p[1])' \/ object_to_fh'[p[1]] = p[2]
<1> SUFFICES ASSUME NEW p \in issued, ~is_retired(p[1]) PROVE object_to_fh'[p[1]] = p[2]
  BY ZenonT(30), StaysRetired DEF is_retired
<1>1. p[1] \in Object /\ p[2] \in Fh
  BY ZenonT(30) DEF TypeInv, TypeOK
<1>2. object_to_fh[p[1]] = p[2] /\ p[2] # NoFh
  BY ZenonT(30), <1>1, NoneAssumption DEF NamesInv
<1> QED BY ZenonT(30), <1>1, <1>2, NamesKept DEF KeepsNames

LEMMA AnnouncedKept ==
    ASSUME TypeInv, MarkedInv, NamesInv, [Next]_vars, NEW u \in Task, task'[u] = task[u]
    PROVE  Announced(task[u])'
<1>1. Announced(task[u]) /\ Carries(task[u])
  BY ZenonT(30) DEF NamesInv, TypeInv
<1>2. CASE is_retired(task[u].object)
  BY ZenonT(30), <1>2, StaysRetired DEF Announced, is_retired
<1>3. CASE ~is_retired(task[u].object) /\ task[u].pc = "recheck"
  <2>1. /\ task[u].object \in Object /\ task[u].fh \in Fh /\ task[u].fh # NoFh
        /\ object_to_fh[task[u].object] = task[u].fh
    BY ZenonT(30), <1>1, <1>3, NoneAssumption DEF Announced, Carries, Minting
  <2>2. object_to_fh'[task[u].object] = task[u].fh
    BY ZenonT(30), <1>3, <2>1, NamesKept DEF KeepsNames
  <2> QED BY ZenonT(30), <1>3, <2>2 DEF Announced
<1>4. CASE ~is_retired(task[u].object) /\ task[u].pc # "recheck"
  BY ZenonT(30), <1>1, <1>4 DEF Announced
<1> QED BY ZenonT(30), <1>2, <1>3, <1>4

LEMMA NamesInvStep ==
    ASSUME TypeInv, MarkedInv, NamesInv, [Next]_vars
    PROVE  NamesInv'
<1> DEFINE Fresh == \A p \in issued' \ issued : object_to_fh'[p[1]] = p[2]
<1>1. ASSUME Fresh, \A u \in Task : Announced(task[u])' PROVE NamesInv'
  BY ZenonT(30), <1>1, IssuedKept DEF NamesInv
<1>2. ASSUME UNCHANGED <<issued, task>> PROVE NamesInv'
  BY ZenonT(30), <1>1, <1>2, AnnouncedKept
<1>3. ASSUME NEW t \in Task, TaskStep(t) PROVE NamesInv'
  <2>1. /\ object_to_fh \in [Object -> Fh \cup {NoFh}] /\ task \in [Task -> TaskState]
        /\ Announced(task[t])
    BY ZenonT(30) DEF TypeInv, TypeOK, NamesInv
  <2>2. /\ task[t].pc \notin {"idle", "register"} => task[t].object \in Object
        /\ task[t].pc \in Minting => task[t].fh \in Fh
    BY ZenonT(30), <1>3, TaskOutcomes
  <2>3. ASSUME NEW k, task' = [task EXCEPT ![t] = k], Announced(k)', Fresh PROVE NamesInv'
    <3> SUFFICES ASSUME NEW u \in Task PROVE Announced(task[u])'
      BY ZenonT(30), <1>1, <2>3
    <3>1. CASE u = t
      BY ZenonT(30), <2>1, <2>3, <3>1 DEF Announced
    <3>2. CASE u # t
      BY ZenonT(30), <2>1, <2>3, <3>2, AnnouncedKept
    <3> QED BY ZenonT(30), <3>1, <3>2
  <2>4. ASSUME Leave(t), Fresh PROVE NamesInv'
    <3>1. PICK k : k.pc \notin Minting /\ task' = [task EXCEPT ![t] = k]
      BY ZenonT(30), <2>4 DEF Leave
    <3>2. Announced(k)'
      BY ZenonT(30), <3>1 DEF Announced, Minting
    <3> QED BY ZenonT(30), <2>3, <2>4, <3>1, <3>2
  <2>5. CASE Quiet(t)
    <3>1. Leave(t) /\ Fresh
      BY ZenonT(30), <2>5 DEF Quiet, Leave
    <3> QED BY ZenonT(30), <2>4, <3>1
  <2>6. CASE Found(t) \/ Lost(t)
    <3>1. Leave(t) /\ Answers(t, object_to_fh[task[t].object]) /\ UNCHANGED object_to_fh
      BY ZenonT(30), <2>6 DEF Found, Lost
    <3>2. Leave(t) /\ Fresh
      BY <3>1 DEF Answers
    <3> QED BY ZenonT(30), <2>4, <3>2
  <2>7. CASE Valid(t)
    <3>1. object_to_fh[task[t].object] = task[t].fh
      BY ZenonT(30), <2>1, <2>7 DEF Valid, Announced
    <3>2. Leave(t) /\ Fresh
      BY <2>7, <3>1 DEF Valid, Answers
    <3> QED BY ZenonT(30), <2>4, <3>2
  <2>8. CASE ObjectBackedOut(t)
    <3>1. Leave(t) /\ Fresh
      BY ZenonT(30), <2>8 DEF ObjectBackedOut
    <3> QED BY ZenonT(30), <2>4, <3>1
  <2>9. CASE Reserved(t) \/ BootMinted(t)
    <3>1. PICK k : k.pc = "publish" /\ task' = [task EXCEPT ![t] = k]
      BY ZenonT(30), <2>9 DEF Reserved, BootMinted, Move
    <3>2. Announced(k)' /\ Fresh
      BY ZenonT(30), <2>9, <3>1 DEF Reserved, BootMinted, Announced
    <3> QED BY ZenonT(30), <2>3, <3>1, <3>2
  <2>10. CASE Published(t)
    <3>1. PICK k : /\ k.pc = "recheck" /\ k.fh = task[t].fh /\ k.object = task[t].object
                   /\ task' = [task EXCEPT ![t] = k]
      BY ZenonT(30), <2>10 DEF Published, Move
    <3>2. object_to_fh'[task[t].object] = task[t].fh
      BY ZenonT(30), <2>1, <2>2, <2>10 DEF Published
    <3>3. Announced(k)' /\ Fresh
      BY ZenonT(30), <2>10, <3>1, <3>2 DEF Published, Announced
    <3> QED BY ZenonT(30), <2>3, <3>1, <3>3
  <2>11. CASE Invalid(t) \/ FhBackedOut(t)
    <3>1. PICK k : /\ k.pc \in {"back_out_fh", "back_out_object"} /\ k.object = task[t].object
                   /\ task' = [task EXCEPT ![t] = k]
      BY ZenonT(30), <2>11 DEF Invalid, FhBackedOut, Move
    <3>2. is_retired(task[t].object)
      BY ZenonT(30), <2>1, <2>11 DEF Invalid, FhBackedOut, Announced
    <3>3. task[t].object.id \in retired_objects'
      BY ZenonT(30), <3>2, StaysRetired
    <3>4. Announced(k)' /\ Fresh
      BY ZenonT(30), <2>11, <3>1, <3>3 DEF Invalid, FhBackedOut, Announced, is_retired
    <3> QED BY ZenonT(30), <2>3, <3>1, <3>4
  <2> QED BY ZenonT(30), <1>3, <2>5, <2>6, <2>7, <2>8, <2>9, <2>10, <2>11, TaskOutcomes
<1>4. ASSUME NEW r \in Retirer, RetireStep(r) PROVE NamesInv'
  <2>1. UNCHANGED <<issued, task>>
    BY ZenonT(30), <1>4, RetireTurns DEF Turn
  <2> QED BY ZenonT(30), <1>2, <2>1
<1>5. CASE UNCHANGED vars
  BY ZenonT(30), <1>2, <1>5 DEF vars
<1> QED BY ZenonT(30), <1>3, <1>4, <1>5 DEF Next

LEMMA NamesInvInit == Init => NamesInv
  BY DEF Init, NamesInv, Announced, IdleTask

\* An object that is not retired has been answered under one filehandle only
\* (filehandles.rs object_to_fh), however many requests minted one at once.
THEOREM LiveObjectsHaveOneName == Spec => []OneNamePerLiveObject
<1>1. Init => TypeInv /\ MarkedInv /\ NamesInv
  BY ZenonT(30), TypeInvInit, MarkedInvInit, NamesInvInit
<1>2. TypeInv /\ MarkedInv /\ NamesInv /\ [Next]_vars => (TypeInv /\ MarkedInv /\ NamesInv)'
  BY ZenonT(30), TypeInvStep, MarkedInvStep, NamesInvStep
<1>3. TypeInv /\ NamesInv => OneNamePerLiveObject
  <2> SUFFICES ASSUME TypeInv, NamesInv, NEW p \in issued, NEW q \in issued,
                      p[1] = q[1], ~is_retired(p[1])
               PROVE  p = q
    BY ZenonT(30) DEF OneNamePerLiveObject
  <2>1. p \in Object \X Fh /\ q \in Object \X Fh
    BY ZenonT(30) DEF TypeInv, TypeOK
  <2>2. p[2] = q[2]
    BY DEF NamesInv
  <2> QED BY <2>1, <2>2
<1> QED BY <1>1, <1>2, <1>3, PTL DEF Spec

-----------------------------------------------------------------------------
\* Boot-scoped filehandles.

\* A boot-scoped filehandle is its mint's own: its number has been drawn, no other
\* task has it, and object_to_fh does not have it before it is published.
OwnInv ==
    /\ \A t \in Task : task[t].fh \in BootFh => task[t].fh.body < next_fh
    /\ \A o \in Object : object_to_fh[o] \in BootFh => object_to_fh[o].body < next_fh
    /\ \A t, u \in Task : t # u /\ task[t].fh \in BootFh => task[u].fh # task[t].fh
    /\ \A t \in Task, o \in Object :
         task[t].pc = "publish" /\ task[t].fh \in BootFh => object_to_fh[o] # task[t].fh

\* Task t comes to have no boot-scoped filehandle, or keeps the one it has; object_to_fh
\* gets none.
LEMMA OwnKept ==
    ASSUME TypeInv, OwnInv, NEW t \in Task, NEW k, task' = [task EXCEPT ![t] = k],
           k.fh \notin BootFh \/ (k.fh = task[t].fh /\ k.pc # "publish"),
           \A o \in Object : object_to_fh'[o] \in {object_to_fh[o], NoFh},
           UNCHANGED next_fh
    PROVE  OwnInv'
<1>1. task'[t] = k /\ \A u \in Task \ {t} : task'[u] = task[u]
  BY ZenonT(30) DEF TypeInv, TypeOK
<1>2. \A o \in Object : object_to_fh'[o] \in BootFh => object_to_fh'[o] = object_to_fh[o]
  BY ZenonT(30), Kinds
<1>3. \A u \in Task : task'[u].fh \in BootFh => task'[u].fh = task[u].fh
  BY ZenonT(30), <1>1
<1>4. (\A u \in Task : task[u].fh \in BootFh => task[u].fh.body < next_fh)'
  BY ZenonT(30), <1>3 DEF OwnInv
<1>5. (\A o \in Object : object_to_fh[o] \in BootFh => object_to_fh[o].body < next_fh)'
  BY ZenonT(30), <1>2 DEF OwnInv
<1>6. (\A u, v \in Task : u # v /\ task[u].fh \in BootFh => task[v].fh # task[u].fh)'
  <2> SUFFICES ASSUME NEW u \in Task, NEW v \in Task, u # v, task'[u].fh \in BootFh,
                      task'[v].fh = task'[u].fh
               PROVE  FALSE
    BY ZenonT(30)
  <2>1. task[u].fh \in BootFh /\ task[v].fh = task[u].fh
    BY ZenonT(30), <1>3
  <2> QED BY ZenonT(30), <2>1 DEF OwnInv
<1>7. (\A u \in Task, o \in Object :
         task[u].pc = "publish" /\ task[u].fh \in BootFh => object_to_fh[o] # task[u].fh)'
  <2> SUFFICES ASSUME NEW u \in Task, NEW o \in Object, task'[u].pc = "publish",
                      task'[u].fh \in BootFh
               PROVE  object_to_fh'[o] # task'[u].fh
    BY ZenonT(30)
  <2>1. task'[u] = task[u]
    BY ZenonT(30), <1>1
  <2>2. object_to_fh[o] # task[u].fh
    BY ZenonT(30), <2>1 DEF OwnInv
  <2> QED BY ZenonT(30), <1>2, <2>1, <2>2
<1> QED BY ZenonT(30), <1>4, <1>5, <1>6, <1>7 DEF OwnInv

LEMMA OwnInvStep ==
    ASSUME TypeInv, OwnInv, [Next]_vars
    PROVE  OwnInv'
<1>1. /\ object_to_fh \in [Object -> Fh \cup {NoFh}] /\ task \in [Task -> TaskState]
      /\ next_fh \in Nat
  BY BoundAssumption DEF TypeInv, TypeOK
<1>2. ASSUME NEW t \in Task, TaskStep(t) PROVE OwnInv'
  <2>1. /\ task[t].pc \notin {"idle", "register"} => task[t].object \in Object
        /\ task[t].pc \in Minting => task[t].fh \in Fh
    BY ZenonT(30), <1>2, TaskOutcomes
  <2>2. ASSUME Leave(t), UNCHANGED next_fh,
               \A o \in Object : object_to_fh'[o] \in {object_to_fh[o], NoFh}
        PROVE  OwnInv'
    <3>1. PICK k : k.fh \notin BootFh /\ task' = [task EXCEPT ![t] = k]
      BY ZenonT(30), <2>2 DEF Leave, Carries
    <3> QED BY ZenonT(30), <2>2, <3>1, OwnKept
  <2>3. CASE Quiet(t) \/ Found(t) \/ Lost(t) \/ Valid(t)
    <3>1. Leave(t) /\ UNCHANGED <<next_fh, object_to_fh>>
      BY ZenonT(30), <2>3 DEF Quiet, Found, Lost, Valid, Leave
    <3> QED BY ZenonT(30), <2>2, <3>1
  <2>4. CASE ObjectBackedOut(t)
    <3>1. \A o \in Object : object_to_fh'[o] \in {object_to_fh[o], NoFh}
      BY ZenonT(30), <1>1, <2>4 DEF ObjectBackedOut
    <3> QED BY ZenonT(30), <2>2, <2>4, <3>1 DEF ObjectBackedOut
  <2>5. CASE Reserved(t)
    <3>1. PICK k : k.fh \notin BootFh /\ task' = [task EXCEPT ![t] = k]
      BY ZenonT(30), <2>5, Kinds DEF Reserved, Move
    <3> QED BY ZenonT(30), <2>5, <3>1, OwnKept DEF Reserved
  <2>6. CASE Invalid(t) \/ FhBackedOut(t)
    <3>1. PICK k : k.fh = task[t].fh /\ k.pc # "publish" /\ task' = [task EXCEPT ![t] = k]
      BY ZenonT(30), <2>6 DEF Invalid, FhBackedOut, Move
    <3> QED BY ZenonT(30), <2>6, <3>1, OwnKept DEF Invalid, FhBackedOut
  <2>7. CASE BootMinted(t)
    <3> DEFINE f == BootScoped(next_fh)
    <3>1. PICK k : k.fh = f /\ k.pc = "publish" /\ task' = [task EXCEPT ![t] = k]
      BY ZenonT(30), <2>7 DEF BootMinted, Move
    <3>2. task'[t] = k /\ \A u \in Task \ {t} : task'[u] = task[u]
      BY ZenonT(30), <1>1, <3>1
    <3>3. f \in BootFh /\ f.body = next_fh /\ next_fh' = next_fh + 1 /\ UNCHANGED object_to_fh
      BY ZenonT(30), <2>7 DEF BootMinted, BootScoped
    <3> HIDE DEF f
    <3>4. ~(f.body < next_fh) /\ \A g \in BootFh : g.body < next_fh => g.body < next_fh'
      <4>1. \A g \in BootFh : g.body \in Nat
        BY BoundAssumption DEF BootFh
      <4> QED BY <1>1, <3>3, <4>1
    <3>5. (\A u \in Task : task[u].fh # f) /\ (\A o \in Object : object_to_fh[o] # f)
      BY ZenonT(30), <3>3, <3>4 DEF OwnInv
    <3>6. (\A u \in Task : task[u].fh \in BootFh => task[u].fh.body < next_fh)'
      <4> SUFFICES ASSUME NEW u \in Task, task'[u].fh \in BootFh
                   PROVE  task'[u].fh.body < next_fh'
        BY ZenonT(30)
      <4>1. CASE u = t
        BY <1>1, <3>1, <3>2, <3>3, <4>1
      <4>2. CASE u # t
        BY ZenonT(30), <3>2, <3>4, <4>2 DEF OwnInv
      <4> QED BY ZenonT(30), <4>1, <4>2
    <3>7. (\A o \in Object : object_to_fh[o] \in BootFh => object_to_fh[o].body < next_fh)'
      BY ZenonT(30), <3>3, <3>4 DEF OwnInv
    <3>8. (\A u, v \in Task : u # v /\ task[u].fh \in BootFh => task[v].fh # task[u].fh)'
      BY <3>1, <3>2, <3>5 DEF OwnInv
    <3>9. (\A u \in Task, o \in Object :
             task[u].pc = "publish" /\ task[u].fh \in BootFh => object_to_fh[o] # task[u].fh)'
      <4> SUFFICES ASSUME NEW u \in Task, NEW o \in Object, task'[u].pc = "publish",
                          task'[u].fh \in BootFh
                   PROVE  object_to_fh[o] # task'[u].fh
        BY ZenonT(30), <3>3
      <4>1. CASE u = t
        BY ZenonT(30), <3>1, <3>2, <3>5, <4>1
      <4>2. CASE u # t
        BY ZenonT(30), <3>2, <4>2 DEF OwnInv
      <4> QED BY ZenonT(30), <4>1, <4>2
    <3> QED BY ZenonT(30), <3>6, <3>7, <3>8, <3>9 DEF OwnInv
  <2>8. CASE Published(t)
    <3>1. PICK k : k.fh = task[t].fh /\ k.pc = "recheck" /\ task' = [task EXCEPT ![t] = k]
      BY ZenonT(30), <2>8 DEF Published, Move
    <3>2. task'[t] = k /\ \A u \in Task \ {t} : task'[u] = task[u]
      BY ZenonT(30), <1>1, <3>1
    <3>3. /\ UNCHANGED next_fh
          /\ \A o \in Object : object_to_fh'[o] = object_to_fh[o] \/ object_to_fh'[o] = task[t].fh
      BY ZenonT(30), <1>1, <2>8 DEF Published
    <3>4. \A u \in Task : task'[u].fh = task[u].fh
      BY ZenonT(30), <3>1, <3>2
    <3>5. (\A u \in Task : task[u].fh \in BootFh => task[u].fh.body < next_fh)'
      BY ZenonT(30), <3>3, <3>4 DEF OwnInv
    <3>6. (\A o \in Object : object_to_fh[o] \in BootFh => object_to_fh[o].body < next_fh)'
      BY ZenonT(30), <3>3 DEF OwnInv
    <3>7. (\A u, v \in Task : u # v /\ task[u].fh \in BootFh => task[v].fh # task[u].fh)'
      BY ZenonT(30), <3>4 DEF OwnInv
    <3>8. (\A u \in Task, o \in Object :
             task[u].pc = "publish" /\ task[u].fh \in BootFh => object_to_fh[o] # task[u].fh)'
      <4> SUFFICES ASSUME NEW u \in Task, NEW o \in Object, task'[u].pc = "publish",
                          task'[u].fh \in BootFh
                   PROVE  object_to_fh'[o] # task'[u].fh
        BY ZenonT(30)
      <4>1. u # t /\ task'[u] = task[u]
        BY ZenonT(30), <3>1, <3>2
      <4> QED BY ZenonT(30), <3>3, <4>1 DEF OwnInv
    <3> QED BY ZenonT(30), <3>5, <3>6, <3>7, <3>8 DEF OwnInv
  <2> QED BY ZenonT(30), <1>2, <2>3, <2>4, <2>5, <2>6, <2>7, <2>8, TaskOutcomes
<1>3. ASSUME UNCHANGED <<task, next_fh>>,
             \A o \in Object : object_to_fh'[o] \in {object_to_fh[o], NoFh}
      PROVE  OwnInv'
  BY ZenonT(30), <1>3, Kinds DEF OwnInv
<1>4. ASSUME NEW r \in Retirer, RetireStep(r) PROVE OwnInv'
  <2>1. UNCHANGED <<task, next_fh>>
    BY ZenonT(30), <1>4, RetireTurns DEF Turn
  <2>2. \A o \in Object : object_to_fh'[o] \in {object_to_fh[o], NoFh}
    BY ZenonT(30), <1>1, <1>4, RetireOutcomes DEF Begun, Marks, Collects, DropsFh, DropsObject, Rests
  <2> QED BY ZenonT(30), <1>3, <2>1, <2>2
<1>5. CASE UNCHANGED vars
  BY ZenonT(30), <1>3, <1>5 DEF vars, names
<1> QED BY ZenonT(30), <1>2, <1>4, <1>5 DEF Next

LEMMA OwnInvInit == Init => OwnInv
<1> SUFFICES ASSUME Init PROVE OwnInv
  BY ZenonT(30)
<1>1. (\A t \in Task : task[t].fh = NoFh) /\ (\A o \in Object : object_to_fh[o] = NoFh)
  BY ZenonT(30) DEF Init, IdleTask
<1>2. NoFh \notin BootFh
  BY ZenonT(30), Kinds
<1> QED BY ZenonT(30), <1>1, <1>2 DEF OwnInv

\* A retirement misses no boot-scoped filehandle of what it withdraws: it has yet to
\* visit it, or has it among the stale ones, or the task that mints it will see the
\* mark.
Pending(k, f, o) ==
    \/ k.pc = "collect" /\ f \notin k.visited
    \/ k.pc \in {"collect", "drop_fh", "drop_object"} /\ <<f, o>> \in k.stale

Covered(k, f) ==
    /\ k.pc \notin {"idle", "mark"} /\ fh_to_object[f] # NoObject
    /\ fh_to_object[f].id \in k.ids
    => StillMinting(f, fh_to_object[f]) \/ Pending(k, f, fh_to_object[f])

CoveredInv == \A r \in Retirer, f \in BootFh : Covered(retire[r], f)

\* A task that stops being bound to a boot-scoped filehandle of a retired object
\* unmaps it.
LEMMA MintingKept ==
    ASSUME TypeInv, OwnInv, NEW t \in Task, TaskStep(t), NEW f \in BootFh,
           fh_to_object'[f] # NoObject, fh_to_object'[f] = fh_to_object[f],
           StillMinting(f, fh_to_object[f]), fh_to_object[f].id \in retired_objects
    PROVE  StillMinting(f, fh_to_object[f])'
<1> DEFINE o == fh_to_object[f]
<1>1. PICK u \in Task : /\ task[u].pc \in {"publish", "recheck", "back_out_fh"}
                        /\ task[u].fh = f /\ task[u].object = o
  BY ZenonT(30) DEF StillMinting
<1>2. /\ object_to_fh \in [Object -> Fh \cup {NoFh}] /\ task \in [Task -> TaskState]
      /\ fh_to_object \in [Fh -> Object \cup {NoObject}] /\ f \in Fh
  BY ZenonT(30) DEF TypeInv, TypeOK, Fh
<1>3. ASSUME u # t PROVE StillMinting(f, o)'
  <2>1. PICK k : task' = [task EXCEPT ![t] = k]
    BY ZenonT(30), TaskOutcomes DEF Quiet, Found, Reserved, BootMinted, Published, Lost, Valid, Invalid,
         FhBackedOut, ObjectBackedOut, Move, Leave
  <2>2. task'[u] = task[u]
    BY ZenonT(30), <1>2, <1>3, <2>1
  <2> QED BY ZenonT(30), <1>1, <2>2 DEF StillMinting
<1>4. ASSUME u = t PROVE StillMinting(f, o)'
  <2>1. task[t].pc \in {"publish", "recheck", "back_out_fh"} /\ task[t].fh = f /\ task[t].object = o
    BY ZenonT(30), <1>1, <1>4
  <2>2. ASSUME NEW pc \in {"publish", "recheck", "back_out_fh"}, Move(t, pc, f)
        PROVE  StillMinting(f, o)'
    <3>1. PICK k : task' = [task EXCEPT ![t] = k] /\ k.pc = pc /\ k.fh = f /\ k.object = o
      BY ZenonT(30), <2>1, <2>2 DEF Move
    <3>2. task'[t] = k
      BY ZenonT(30), <1>2, <3>1
    <3> QED BY ZenonT(30), <2>2, <3>1, <3>2 DEF StillMinting
  <2>3. CASE Published(t)
    BY ZenonT(30), <2>1, <2>2, <2>3 DEF Published
  <2>4. CASE Invalid(t)
    BY ZenonT(30), <2>1, <2>2, <2>4 DEF Invalid
  <2>5. ~Lost(t)
    <3>1. o \in Object
      BY ZenonT(30), <1>2
    <3>2. task[t].pc = "publish" => object_to_fh[o] # f
      BY ZenonT(30), <2>1, <3>1 DEF OwnInv
    <3>3. [fh_to_object EXCEPT ![f] = NoObject][f] = NoObject
      BY ZenonT(30), <1>2
    <3> QED BY ZenonT(30), <2>1, <3>2, <3>3 DEF Lost
  <2>6. ~Valid(t)
    BY ZenonT(30), <2>1 DEF Valid, is_retired
  <2>7. ~FhBackedOut(t)
    <3>1. [fh_to_object EXCEPT ![f] = NoObject][f] = NoObject
      BY ZenonT(30), <1>2
    <3> QED BY ZenonT(30), <2>1, <3>1 DEF FhBackedOut
  <2>8. ~(Quiet(t) \/ Found(t) \/ Reserved(t) \/ BootMinted(t) \/ ObjectBackedOut(t))
    BY ZenonT(30), <2>1 DEF Quiet, Found, Reserved, BootMinted, ObjectBackedOut, Minting
  <2> QED BY ZenonT(30), <2>3, <2>4, <2>5, <2>6, <2>7, <2>8, TaskOutcomes
<1> QED BY ZenonT(30), <1>3, <1>4

LEMMA CoveredByTask ==
    ASSUME TypeInv, OwnInv, MarkedInv, CoveredInv, NEW t \in Task, TaskStep(t)
    PROVE  CoveredInv'
<1> SUFFICES ASSUME NEW r \in Retirer, NEW f \in BootFh,
                    retire'[r].pc \notin {"idle", "mark"}, fh_to_object'[f] # NoObject,
                    fh_to_object'[f].id \in retire'[r].ids
             PROVE  \/ StillMinting(f, fh_to_object[f])'
                    \/ Pending(retire[r], f, fh_to_object[f])'
  BY ZenonT(30) DEF CoveredInv, Covered
<1>1. UNCHANGED retire
  BY ZenonT(30), TaskTypes
<1>2. /\ fh_to_object \in [Fh -> Object \cup {NoObject}] /\ f \in Fh
      /\ task \in [Task -> TaskState]
  BY ZenonT(30) DEF TypeInv, TypeOK, Fh
<1>3. CASE fh_to_object'[f] = fh_to_object[f]
  <2>1. fh_to_object[f].id \in retired_objects
    BY ZenonT(30), <1>1, <1>3 DEF MarkedInv, Marked
  <2>2. StillMinting(f, fh_to_object[f]) \/ Pending(retire[r], f, fh_to_object[f])
    BY ZenonT(30), <1>1, <1>3 DEF CoveredInv, Covered
  <2>3. CASE StillMinting(f, fh_to_object[f])
    BY ZenonT(30), <1>3, <2>1, <2>3, MintingKept
  <2>4. CASE Pending(retire[r], f, fh_to_object[f])
    BY ZenonT(30), <1>1, <1>3, <2>4 DEF Pending
  <2> QED BY ZenonT(30), <2>2, <2>3, <2>4
<1>4. CASE fh_to_object'[f] # fh_to_object[f]
  <2>1. BootMinted(t) /\ f = BootScoped(next_fh) /\ fh_to_object'[f] = task[t].object
    BY ZenonT(30), <1>2, <1>4, Kinds, TaskOutcomes DEF Quiet, Found, Reserved, BootMinted, Published, Lost,
       Valid, Invalid, FhBackedOut, ObjectBackedOut
  <2>2. PICK k : /\ task' = [task EXCEPT ![t] = k]
                 /\ k.pc = "publish" /\ k.fh = f /\ k.object = task[t].object
    BY ZenonT(30), <2>1 DEF BootMinted, Move
  <2>3. task'[t] = k
    BY ZenonT(30), <1>2, <2>2
  <2> QED BY ZenonT(30), <2>1, <2>2, <2>3 DEF StillMinting
<1> QED BY ZenonT(30), <1>3, <1>4

LEMMA CoveredByRetire ==
    ASSUME TypeInv, CoveredInv, NEW r \in Retirer, RetireStep(r)
    PROVE  CoveredInv'
<1> SUFFICES ASSUME NEW q \in Retirer, NEW f \in BootFh,
                    retire'[q].pc \notin {"idle", "mark"}, fh_to_object'[f] # NoObject,
                    fh_to_object'[f].id \in retire'[q].ids
             PROVE  \/ StillMinting(f, fh_to_object[f])'
                    \/ Pending(retire[q], f, fh_to_object[f])'
  BY ZenonT(30) DEF CoveredInv, Covered
<1> DEFINE o == fh_to_object[f]
<1>1. fh_to_object \in [Fh -> Object \cup {NoObject}] /\ f \in Fh
  BY ZenonT(30) DEF TypeInv, TypeOK, Fh
<1>2. UNCHANGED task
  BY ZenonT(30), RetireTurns DEF Turn
<1>3. fh_to_object'[f] = o
  BY ZenonT(30), <1>1, RetireOutcomes DEF Begun, Marks, Collects, DropsFh, DropsObject, Rests
<1>4. StillMinting(f, o)' <=> StillMinting(f, o)
  BY ZenonT(30), <1>2, <1>3 DEF StillMinting
<1>5. ASSUME retire[q].pc \notin {"idle", "mark"}, o.id \in retire[q].ids
      PROVE  StillMinting(f, o) \/ Pending(retire[q], f, o)
  BY ZenonT(30), <1>3, <1>5 DEF CoveredInv, Covered
<1>6. CASE q # r
  <2>1. UNCHANGED retire[q]
    BY ZenonT(30), <1>6, RetireTurns, OthersStay
  <2>2. Pending(retire[q], f, o)' <=> Pending(retire[q], f, o)
    BY ZenonT(30), <1>3, <2>1 DEF Pending
  <2> QED BY ZenonT(30), <1>3, <1>4, <1>5, <2>1, <2>2
<1>7. CASE q = r
  <2>1. ASSUME NEW k, Turn(r, k), Pending(k, f, o) PROVE Pending(retire[q], f, fh_to_object[f])'
    <3>1. retire'[q] = k
      BY ZenonT(30), <1>7, <2>1, OthersStay
    <3> QED BY ZenonT(30), <1>3, <2>1, <3>1 DEF Pending
  <2>2. ASSUME NEW k, Turn(r, k) PROVE k.pc \notin {"idle", "mark"} /\ o.id \in k.ids
    BY ZenonT(30), <1>3, <1>7, <2>2, OthersStay
  <2>3. ~Begun(r)
    BY ZenonT(30), <2>2 DEF Begun
  <2>4. ASSUME NEW i \in Id, Marks(r, i) PROVE Pending(retire[q], f, fh_to_object[f])'
    <3>1. PICK k : Turn(r, k) /\ k.visited = {} /\ (k.pc = "mark" \/ k.pc = "collect")
      BY ZenonT(30), <2>4 DEF Marks
    <3> QED BY ZenonT(30), <2>1, <2>2, <3>1 DEF Pending
  <2>5. ASSUME NEW k, Turn(r, k), k.ids = retire[r].ids, retire[r].pc \notin {"idle", "mark"},
               Pending(retire[r], f, o) => Pending(k, f, o)
        PROVE  StillMinting(f, o)' \/ Pending(retire[q], f, fh_to_object[f])'
    <3>1. StillMinting(f, o) \/ Pending(retire[r], f, o)
      BY ZenonT(30), <1>5, <1>7, <2>2, <2>5
    <3> QED BY ZenonT(30), <1>4, <2>1, <2>5, <3>1
  <2>6. ASSUME NEW g \in Fh, Collects(r, g)
        PROVE  StillMinting(f, o)' \/ Pending(retire[q], f, fh_to_object[f])'
    <3>1. retire[r].pc = "collect" /\ g \notin retire[r].visited
      BY ZenonT(30), <2>6 DEF Collects
    <3>2. PICK k : /\ Turn(r, k) /\ k.ids = retire[r].ids
                   /\ k.visited = retire[r].visited \cup {g}
                   /\ retire[r].stale \subseteq k.stale
                   /\ belongs_to(fh_to_object[g], retire[r].ids) => <<g, fh_to_object[g]>> \in k.stale
                   /\ k.pc = "collect" \/ (k.pc = "drop_fh" /\ k.visited = Fh)
      BY ZenonT(30), <2>6 DEF Collects
    <3>3. CASE f = g
      <4>1. belongs_to(o, retire[r].ids)
        BY ZenonT(30), <1>3, <2>2, <3>2 DEF belongs_to
      <4> QED BY ZenonT(30), <2>1, <3>2, <3>3, <4>1 DEF Pending
    <3>4. CASE f # g
      <4>1. Pending(retire[r], f, o) => Pending(k, f, o)
        BY ZenonT(30), <1>1, <3>1, <3>2, <3>4 DEF Pending
      <4> QED BY ZenonT(30), <2>5, <3>1, <3>2, <4>1
    <3> QED BY ZenonT(30), <3>3, <3>4
  <2>7. ASSUME NEW p, DropsFh(r, p)
        PROVE  StillMinting(f, o)' \/ Pending(retire[q], f, fh_to_object[f])'
    <3>1. PICK k : /\ Turn(r, k) /\ k.ids = retire[r].ids /\ k.stale = retire[r].stale \ {p}
                   /\ k.pc = "drop_object"
      BY ZenonT(30), <2>7 DEF DropsFh
    <3>2. retire[r].pc = "drop_fh" /\ fh_to_object' = [fh_to_object EXCEPT ![p[1]] = NoObject]
      BY ZenonT(30), <2>7 DEF DropsFh
    <3>3. p # <<f, o>>
      <4> SUFFICES ASSUME p = <<f, o>> PROVE FALSE
        BY ZenonT(30)
      <4>1. p[1] = f
        BY ZenonT(30)
      <4> QED BY ZenonT(30), <1>1, <3>2, <4>1
    <3>4. Pending(retire[r], f, o) => Pending(k, f, o)
      BY ZenonT(30), <3>1, <3>2, <3>3 DEF Pending
    <3> QED BY ZenonT(30), <2>5, <3>1, <3>2, <3>4
  <2>8. CASE DropsObject(r)
    <3>1. PICK k : /\ Turn(r, k) /\ k.ids = retire[r].ids /\ k.stale = retire[r].stale
                   /\ k.pc = "drop_fh"
      BY ZenonT(30), <2>8 DEF DropsObject
    <3>2. retire[r].pc = "drop_object"
      BY ZenonT(30), <2>8 DEF DropsObject
    <3>3. Pending(retire[r], f, o) => Pending(k, f, o)
      BY ZenonT(30), <3>1, <3>2 DEF Pending
    <3> QED BY ZenonT(30), <2>5, <3>1, <3>2, <3>3
  <2>9. CASE Rests(r)
    <3>1. PICK k : Turn(r, k) /\ k.ids = retire[r].ids
      BY ZenonT(30), <2>9 DEF Rests
    <3>2. retire[r].pc \notin {"idle", "mark"} /\ ~Pending(retire[r], f, o)
      BY ZenonT(30), <2>9 DEF Rests, Pending
    <3> QED BY ZenonT(30), <2>5, <3>1, <3>2
  <2> QED BY ZenonT(30), <1>3, <2>3, <2>4, <2>6, <2>7, <2>8, <2>9, RetireOutcomes
<1> QED BY ZenonT(30), <1>6, <1>7

LEMMA CoveredInvStep ==
    ASSUME TypeInv, OwnInv, MarkedInv, CoveredInv, [Next]_vars
    PROVE  CoveredInv'
<1>1. CASE UNCHANGED vars
  BY ZenonT(30), <1>1 DEF vars, names, CoveredInv, Covered, Pending, StillMinting
<1> QED BY ZenonT(30), <1>1, CoveredByTask, CoveredByRetire DEF Next

LEMMA CoveredInvInit == Init => CoveredInv
<1>1. Init => \A r \in Retirer : retire[r].pc = "idle"
  BY DEF Init, IdleRetire
<1> QED BY ZenonT(30), <1>1 DEF CoveredInv, Covered

\* filehandles.rs, object_to_fh and retire_handles: whatever the order of a mint and a
\* retirement, once retire_handles has returned no boot-scoped filehandle names a
\* withdrawn object, except one whose mint has still to look at the mark and take it
\* back.
THEOREM RetirementsMissNoMint == Spec => []NoBootMappingOutlivesRetirement
<1>1. Init => TypeInv /\ OwnInv /\ MarkedInv /\ CoveredInv
  BY ZenonT(30), TypeInvInit, OwnInvInit, MarkedInvInit, CoveredInvInit
<1>2. TypeInv /\ OwnInv /\ MarkedInv /\ CoveredInv /\ [Next]_vars
      => (TypeInv /\ OwnInv /\ MarkedInv /\ CoveredInv)'
  BY ZenonT(30), TypeInvStep, OwnInvStep, MarkedInvStep, CoveredInvStep
<1>3. CoveredInv => NoBootMappingOutlivesRetirement
  BY ZenonT(30) DEF CoveredInv, Covered, Pending, NoBootMappingOutlivesRetirement, Withdrawn
<1> QED BY <1>1, <1>2, <1>3, PTL DEF Spec

-----------------------------------------------------------------------------
\* What an answered filehandle resolves to.

\* encode_handle must be canonical: "decode_handle of them yields an equal handle"
\* (fs.rs, PersistentHandles), so no two handles are encoded alike.
DistinctEncodings == \A g, h \in Durable : Encoding[g] = Encoding[h] => g = h

\* Filehandle f is recorded for object o, being minted for it, its name in one of the
\* maps, or on the list of a retirement that takes it for o's.
Claim(f, o) ==
    \/ o.kind = "Fs" /\ persistent_fh[o.id] = f
    \/ \E t \in Task : /\ task[t].pc \in {"reserve"} \cup Minting
                       /\ task[t].fh = f /\ task[t].object = o
    \/ fh_to_object[f] = o
    \/ object_to_fh[o] = f
    \/ \E r \in Retirer : <<f, o>> \in retire[r].stale

\* No two objects claim a filehandle.  A durable one is claimed by the object its handle
\* is registered as, or the handle is fenced and registers no more; a boot-scoped one
\* has been drawn.
ClaimInv ==
    /\ \A f \in Fh, o, p \in Object : Claim(f, o) /\ Claim(f, p) => o = p
    /\ \A h \in Durable, o \in Object :
         Claim(Durably(Encoding[h]), o) => h \in fences \/ handle_to_object[h] = o.id
    /\ \A f \in BootFh, o \in Object : Claim(f, o) => f.body < next_fh

\* A live object's filehandle resolves to it; so does the one being published for it,
\* as long as no other mint has come first.
ResolveInv ==
    /\ \A o \in Object :
         object_to_fh[o] # NoFh /\ ~is_retired(o) => fh_to_object[object_to_fh[o]] = o
    /\ \A t \in Task :
         /\ task[t].pc = "publish" /\ ~is_retired(task[t].object)
         /\ object_to_fh[task[t].object] = NoFh
         => fh_to_object[task[t].fh] = task[t].object

LEMMA ProceedingPc ==
    ASSUME NEW op \in Ops, NEW o
    PROVE  Proceeding(op, o).pc # "reserve"
  BY ZenonT(30), OpsAssumption DEF Proceeding, IdleTask

\* Only ClaimPersistent brings a task to the reservation, with the recorded encoding.
LEMMA ReservesTheRecorded ==
    ASSUME TypeInv, NEW t \in Task, TaskStep(t), task'[t].pc = "reserve"
    PROVE  /\ task'[t].object.kind = "Fs"
           /\ persistent_fh[task'[t].object.id] = task'[t].fh
<1>1. Carries(task[t]) /\ task[t] \in TaskState /\ task \in [Task -> TaskState]
  BY ZenonT(30) DEF TypeInv, TypeOK
<1>2. ASSUME NEW k, task' = [task EXCEPT ![t] = k], k.pc # "reserve" PROVE FALSE
  BY ZenonT(30), <1>1, <1>2
<1>3. ASSUME Finish(t) PROVE FALSE
  BY ZenonT(30), <1>1, <1>3, IdleCarries DEF Finish
<1>4. ASSUME NEW pc, Goto(t, pc), pc # "reserve" PROVE FALSE
  BY ZenonT(30), <1>1, <1>4 DEF Goto, TaskState
<1>5. ASSUME NEW i, task[t].pc = "register", Registered(t, i) PROVE FALSE
  <2>1. task[t].op \in Ops
    BY ZenonT(30), <1>1, <1>5 DEF Carries
  <2>2. CASE task[t].want = NoFh
    BY ZenonT(30), <1>2, <1>5, <2>1, <2>2, ProceedingPc DEF Registered
  <2>3. CASE task[t].want # NoFh
    <3>1. PICK k : /\ k = [task[t] EXCEPT !.pc = "lookup_fh", !.object = Fs(i), !.handle = NoHandle]
                   /\ task' = [task EXCEPT ![t] = k]
      BY ZenonT(30), <1>5, <2>3 DEF Registered
    <3>2. k.pc = "lookup_fh"
      BY ZenonT(30), <1>1, <3>1 DEF TaskState
    <3> QED BY ZenonT(30), <1>2, <3>1, <3>2
  <2> QED BY ZenonT(30), <2>2, <2>3
<1>6. ASSUME NEW f, Minted(t, f), task[t].pc \notin {"idle", "register"} PROVE FALSE
  <2>1. task[t].op \in Ops
    BY ZenonT(30), <1>1, <1>6 DEF Carries
  <2> QED BY <1>2, <1>3, <1>6, <2>1, ProceedingPc, IdleCarries DEF Minted
<1>7. ASSUME NEW op \in Ops, NEW h \in Handle, BackendReturns(t, op, h) PROVE FALSE
  BY ZenonT(30), <1>2, <1>7 DEF BackendReturns, Registering, IdleTask
<1>8. ASSUME NEW op \in Ops, NEW f \in Fh, ResolveObject(t, op, f) PROVE FALSE
  BY ZenonT(30), <1>2, <1>8, ProceedingPc DEF ResolveObject, Registering, IdleTask
<1>9. CASE RegisterKnown(t) \/ RegisterFenced(t) \/ RegisterNew(t)
  BY ZenonT(30), <1>3, <1>5, <1>9 DEF RegisterKnown, RegisterFenced, RegisterNew
<1>10. CASE GetAttr(t) \/ EnsureMeta(t) \/ CreateState(t) \/ CheckRetired(t)
  BY ZenonT(30), <1>3, <1>4, <1>10 DEF GetAttr, EnsureMeta, CreateState, CheckRetired
<1>11. CASE LookupFh(t) \/ Publish(t) \/ Recheck(t)
  BY ZenonT(30), <1>4, <1>6, <1>11 DEF LookupFh, Publish, Recheck
<1>12. CASE ReservePersistent(t) \/ BackOutFh(t) \/ BackOutObject(t)
  BY ZenonT(30), <1>3, <1>4, <1>12 DEF ReservePersistent, BackOutFh, BackOutObject
<1>13. CASE MintBootScoped(t)
  <2>1. task' = [task EXCEPT ![t].pc = "publish", ![t].fh = BootScoped(next_fh)]
    BY ZenonT(30), <1>13 DEF MintBootScoped
  <2> QED BY ZenonT(30), <1>1, <2>1 DEF TaskState
<1>14. CASE ClaimPersistent(t)
  <2>1. CASE task[t].object.kind = "Fs" /\ persistent_fh[task[t].object.id] # NoFh
    <3>1. task' = [task EXCEPT ![t].pc = "reserve", ![t].fh = persistent_fh[task[t].object.id]]
      BY ZenonT(30), <1>14, <2>1 DEF ClaimPersistent
    <3>2. task'[t].object = task[t].object /\ task'[t].fh = persistent_fh[task[t].object.id]
      BY ZenonT(30), <1>1, <3>1 DEF TaskState
    <3> QED BY ZenonT(30), <2>1, <3>2
  <2>2. CASE ~(task[t].object.kind = "Fs" /\ persistent_fh[task[t].object.id] # NoFh)
    BY ZenonT(30), <1>4, <1>14, <2>2 DEF ClaimPersistent
  <2> QED BY ZenonT(30), <2>1, <2>2
<1> QED BY ZenonT(30), <1>7, <1>8, <1>9, <1>10, <1>11, <1>12, <1>13, <1>14 DEF TaskStep

\* A retirement lists what it finds in fh_to_object.
LEMMA ListsTheMapped ==
    ASSUME TypeInv, NEW r \in Retirer, RetireStep(r), NEW f \in Fh, NEW o \in Object,
           <<f, o>> \in retire'[r].stale
    PROVE  <<f, o>> \in retire[r].stale \/ fh_to_object[f] = o
<1>1. retire \in [Retirer -> RetireState] /\ retire[r] \in RetireState
  BY ZenonT(30) DEF TypeInv, TypeOK
<1>2. ASSUME NEW P \in (SUBSET Handle) \ {{}}, RetireBegin(r, P)
      PROVE  retire'[r].stale = retire[r].stale
  BY ZenonT(30), <1>1, <1>2 DEF RetireBegin, RetireState
<1>3. ASSUME NEW i \in Id, MarkRetired(r, i) \/ ForgetPersistent(r, i)
      PROVE  retire'[r].stale = retire[r].stale
  BY <1>1, <1>3 DEF MarkRetired, ForgetPersistent, RetireState
<1>4. ASSUME NEW g \in Fh, CollectStale(r, g)
      PROVE  retire'[r].stale \subseteq retire[r].stale \cup {<<g, fh_to_object[g]>>}
  BY ZenonT(30), <1>1, <1>4 DEF CollectStale, RetireState
<1>5. ASSUME NEW p \in retire[r].stale, DropFh(r, p)
      PROVE  retire'[r].stale \subseteq retire[r].stale
  BY ZenonT(30), <1>1, <1>5 DEF DropFh, RetireState
<1>6. ASSUME DropObject(r) \/ AllDropped(r) \/ SweepState(r)
      PROVE  retire'[r].stale = retire[r].stale
  BY <1>1, <1>6 DEF DropObject, AllDropped, SweepState, RetireState
<1> QED BY ZenonT(30), <1>2, <1>3, <1>4, <1>5, <1>6 DEF RetireStep

\* Where a claim comes from: it was one, or registration records an encoding for the id
\* it draws, or a mint draws a boot-scoped filehandle.
Recorded(f, o) ==
    \E t \in Task : /\ RegisterNew(t) /\ o = Fs(next_object_id) /\ task[t].handle \in Durable
                    /\ f = Durably(Encoding[task[t].handle])

Drawn(f, o) == \E t \in Task : BootMinted(t) /\ f = BootScoped(next_fh) /\ o = task[t].object

LEMMA RecordedClaims ==
    ASSUME TypeInv, [Next]_vars, NEW f \in Fh, NEW o \in Object,
           o.kind = "Fs", persistent_fh'[o.id] = f
    PROVE  Claim(f, o) \/ Recorded(f, o)
<1>1. TypeOK /\ o.id \in Id /\ f # NoFh
  BY ZenonT(30), Kinds, NoneAssumption DEF TypeInv
<1>2. ASSUME persistent_fh'[o.id] = persistent_fh[o.id] PROVE Claim(f, o)
  BY ZenonT(30), <1>2 DEF Claim
<1>3. ASSUME NEW t \in Task, RegisterNew(t) PROVE Claim(f, o) \/ Recorded(f, o)
  <2>1. CASE task[t].handle \in Durable /\ o.id = next_object_id
    <3>1. persistent_fh' = [persistent_fh EXCEPT ![o.id] = Durably(Encoding[task[t].handle])]
      BY ZenonT(30), <1>3, <2>1 DEF RegisterNew
    <3>2. f = Durably(Encoding[task[t].handle])
      BY ZenonT(30), <1>1, <3>1 DEF TypeOK
    <3>3. o = Fs(next_object_id)
      BY ZenonT(30), <2>1 DEF Fs, Object
    <3> QED BY ZenonT(30), <1>3, <2>1, <3>2, <3>3 DEF Recorded
  <2>2. CASE ~(task[t].handle \in Durable /\ o.id = next_object_id)
    <3>1. persistent_fh'[o.id] = persistent_fh[o.id]
      BY ZenonT(30), <1>1, <1>3, <2>2 DEF RegisterNew, TypeOK
    <3> QED BY ZenonT(30), <1>2, <3>1
  <2> QED BY ZenonT(30), <2>1, <2>2
<1>4. ASSUME NEW r \in Retirer, NEW i \in Id, ForgetPersistent(r, i) PROVE Claim(f, o)
  <2>1. persistent_fh' = [persistent_fh EXCEPT ![i] = NoFh]
    BY ZenonT(30), <1>4 DEF ForgetPersistent
  <2>2. persistent_fh'[o.id] = persistent_fh[o.id]
    BY ZenonT(30), <1>1, <2>1 DEF TypeOK
  <2> QED BY ZenonT(30), <1>2, <2>2
<1>5. ASSUME NEW r \in Retirer, NEW P \in SUBSET Handle, RetireBegin(r, P) PROVE Claim(f, o)
  BY ZenonT(30), <1>2, <1>5 DEF RetireBegin, names
<1> QED BY ZenonT(30), <1>2, <1>3, <1>4, <1>5, OtherOutcomes

LEMMA TaskClaims ==
    ASSUME TypeInv, NEW t \in Task, TaskStep(t), NEW f \in Fh, NEW o \in Object,
           \/ \E u \in Task : /\ task'[u].pc \in {"reserve"} \cup Minting
                              /\ task'[u].fh = f /\ task'[u].object = o
           \/ fh_to_object'[f] = o
           \/ object_to_fh'[o] = f
    PROVE  Claim(f, o) \/ Drawn(f, o)
<1>1. /\ TypeOK /\ task \in [Task -> TaskState]
      /\ fh_to_object \in [Fh -> Object \cup {NoObject}]
      /\ object_to_fh \in [Object -> Fh \cup {NoFh}]
  BY ZenonT(30) DEF TypeInv, TypeOK
<1>2. o # NoObject /\ f # NoFh
  BY ZenonT(30), Kinds, NoneAssumption
<1> DEFINE Same == \A g \in Fh : fh_to_object'[g] \in {fh_to_object[g], NoObject}
<1> DEFINE Kept == \A q \in Object : object_to_fh'[q] \in {object_to_fh[q], NoFh}
<1>3. ASSUME Same, fh_to_object'[f] = o PROVE Claim(f, o)
  BY ZenonT(30), <1>2, <1>3 DEF Claim
<1>4. ASSUME Kept, object_to_fh'[o] = f PROVE Claim(f, o)
  BY ZenonT(30), <1>2, <1>4 DEF Claim
<1>5. ASSUME NEW u \in Task, task'[u] = task[u], task'[u].pc \in {"reserve"} \cup Minting,
             task'[u].fh = f, task'[u].object = o
      PROVE  Claim(f, o)
  BY ZenonT(30), <1>5 DEF Claim
<1>6. ASSUME task'[t].pc = "reserve", task'[t].fh = f, task'[t].object = o PROVE Claim(f, o)
  BY ZenonT(30), <1>6, ReservesTheRecorded DEF Claim
<1>7. ASSUME NEW k, task' = [task EXCEPT ![t] = k]
      PROVE  task'[t] = k /\ \A u \in Task \ {t} : task'[u] = task[u]
  BY ZenonT(30), <1>1, <1>7
<1>8. ASSUME Leave(t), Same, Kept PROVE Claim(f, o)
  BY ZenonT(30), <1>3, <1>4, <1>5, <1>6, <1>7, <1>8 DEF Leave
<1>9. ASSUME NEW pc, Move(t, pc, task[t].fh), task[t].pc \in {"reserve"} \cup Minting, Same, Kept
      PROVE  Claim(f, o)
  <2>1. PICK k : k.fh = task[t].fh /\ k.object = task[t].object /\ task' = [task EXCEPT ![t] = k]
    BY ZenonT(30), <1>9 DEF Move
  <2>2. task'[t] = k /\ \A u \in Task \ {t} : task'[u] = task[u]
    BY ZenonT(30), <1>7, <2>1
  <2>3. CASE k.fh = f /\ k.object = o
    BY ZenonT(30), <1>9, <2>1, <2>3 DEF Claim
  <2>4. CASE ~(k.fh = f /\ k.object = o)
    BY ZenonT(30), <1>3, <1>4, <1>5, <1>9, <2>2, <2>4
  <2> QED BY ZenonT(30), <2>3, <2>4
<1>10. CASE Quiet(t)
  <2>1. Leave(t) /\ Same /\ Kept
    BY ZenonT(30), <1>10 DEF Quiet, Leave
  <2> QED BY ZenonT(30), <1>8, <2>1
<1>11. CASE Found(t) \/ Lost(t) \/ Valid(t)
  <2>1. Leave(t) /\ Kept
    BY ZenonT(30), <1>11 DEF Found, Lost, Valid
  <2>2. Same
    BY ZenonT(30), <1>1, <1>11 DEF Found, Lost, Valid
  <2> QED BY ZenonT(30), <1>8, <2>1, <2>2
<1>12. CASE ObjectBackedOut(t)
  <2>1. Leave(t) /\ Same /\ Kept
    BY ZenonT(30), <1>1, <1>12 DEF ObjectBackedOut
  <2> QED BY ZenonT(30), <1>8, <2>1
<1>13. CASE Invalid(t) \/ FhBackedOut(t)
  <2>1. /\ \E pc : Move(t, pc, task[t].fh)
        /\ task[t].pc \in {"reserve"} \cup Minting /\ Kept
    BY ZenonT(30), <1>13 DEF Invalid, FhBackedOut, Minting
  <2>2. Same
    BY ZenonT(30), <1>1, <1>13 DEF Invalid, FhBackedOut
  <2> QED BY ZenonT(30), <1>9, <2>1, <2>2
<1>14. CASE Reserved(t)
  <2>1. /\ Move(t, "publish", task[t].fh) /\ task[t].pc \in {"reserve"} \cup Minting /\ Kept
        /\ fh_to_object' = [fh_to_object EXCEPT ![task[t].fh] = task[t].object]
    BY ZenonT(30), <1>14 DEF Reserved
  <2>2. CASE f = task[t].fh /\ o = task[t].object
    BY ZenonT(30), <2>1, <2>2 DEF Claim
  <2>3. CASE ~(f = task[t].fh /\ o = task[t].object)
    <3>1. fh_to_object'[f] = o => Claim(f, o)
      BY ZenonT(30), <1>1, <2>1, <2>3 DEF Claim
    <3>2. PICK k : k.fh = task[t].fh /\ k.object = task[t].object /\ task' = [task EXCEPT ![t] = k]
      BY ZenonT(30), <2>1 DEF Move
    <3> QED BY <1>4, <1>5, <1>7, <2>1, <2>3, <3>1, <3>2
  <2> QED BY ZenonT(30), <2>2, <2>3
<1>15. CASE BootMinted(t)
  <2>1. /\ Move(t, "publish", BootScoped(next_fh)) /\ Kept
        /\ fh_to_object' = [fh_to_object EXCEPT ![BootScoped(next_fh)] = task[t].object]
    BY ZenonT(30), <1>15 DEF BootMinted
  <2>2. CASE f = BootScoped(next_fh) /\ o = task[t].object
    BY ZenonT(30), <1>15, <2>2 DEF Drawn
  <2>3. CASE ~(f = BootScoped(next_fh) /\ o = task[t].object)
    <3>1. fh_to_object'[f] = o => Claim(f, o)
      BY ZenonT(30), <1>1, <2>1, <2>3 DEF Claim
    <3>2. PICK k : /\ k.fh = BootScoped(next_fh) /\ k.object = task[t].object
                   /\ task' = [task EXCEPT ![t] = k]
      BY ZenonT(30), <2>1 DEF Move
    <3> QED BY <1>4, <1>5, <1>7, <2>1, <2>3, <3>1, <3>2
  <2> QED BY ZenonT(30), <2>2, <2>3
<1>16. CASE Published(t)
  <2>1. /\ Move(t, "recheck", task[t].fh) /\ task[t].pc \in {"reserve"} \cup Minting /\ Same
        /\ object_to_fh' = [object_to_fh EXCEPT ![task[t].object] = task[t].fh]
    BY ZenonT(30), <1>16 DEF Published, Minting
  <2>2. CASE f = task[t].fh /\ o = task[t].object
    BY ZenonT(30), <2>1, <2>2 DEF Claim
  <2>3. CASE ~(f = task[t].fh /\ o = task[t].object)
    <3>1. object_to_fh'[o] = f => Claim(f, o)
      BY ZenonT(30), <1>1, <2>1, <2>3 DEF Claim
    <3>2. PICK k : k.fh = task[t].fh /\ k.object = task[t].object /\ task' = [task EXCEPT ![t] = k]
      BY ZenonT(30), <2>1 DEF Move
    <3> QED BY <1>3, <1>5, <1>7, <2>1, <2>3, <3>1, <3>2
  <2> QED BY ZenonT(30), <2>2, <2>3
<1> QED BY ZenonT(30), <1>10, <1>11, <1>12, <1>13, <1>14, <1>15, <1>16, TaskOutcomes

LEMMA ClaimsComeFrom ==
    ASSUME TypeInv, [Next]_vars, NEW f \in Fh, NEW o \in Object, Claim(f, o)'
    PROVE  Claim(f, o) \/ Recorded(f, o) \/ Drawn(f, o)
<1> DEFINE InMaps ==
      \/ \E u \in Task : /\ task'[u].pc \in {"reserve"} \cup Minting
                         /\ task'[u].fh = f /\ task'[u].object = o
      \/ fh_to_object'[f] = o
      \/ object_to_fh'[o] = f
<1> DEFINE Listed == \E r \in Retirer : <<f, o>> \in retire'[r].stale
<1>1. (o.kind = "Fs" /\ persistent_fh'[o.id] = f) \/ InMaps \/ Listed
  BY ZenonT(30) DEF Claim
<1>2. CASE o.kind = "Fs" /\ persistent_fh'[o.id] = f
  BY ZenonT(30), <1>2, RecordedClaims
<1>3. ASSUME NEW t \in Task, TaskStep(t), InMaps PROVE Claim(f, o) \/ Drawn(f, o)
  BY ZenonT(30), <1>3, TaskClaims
<1>4. ASSUME NEW t \in Task, TaskStep(t), Listed PROVE Claim(f, o)
  <2>1. retire' = retire
    BY ZenonT(30), <1>4, TaskTypes
  <2> QED BY ZenonT(30), <1>4, <2>1 DEF Claim
<1>5. ASSUME NEW r \in Retirer, RetireStep(r), InMaps PROVE Claim(f, o)
  <2>1. task' = task
    BY ZenonT(30), <1>5, RetireTypes
  <2>2. o # NoObject /\ f # NoFh
    BY ZenonT(30), Kinds, NoneAssumption
  <2>3. /\ fh_to_object \in [Fh -> Object \cup {NoObject}]
        /\ object_to_fh \in [Object -> Fh \cup {NoFh}]
    BY ZenonT(30) DEF TypeInv, TypeOK
  <2>4. fh_to_object'[f] \in {fh_to_object[f], NoObject} /\ object_to_fh'[o] \in {object_to_fh[o], NoFh}
    BY ZenonT(30), <1>5, <2>3, RetireOutcomes DEF Begun, Marks, Collects, DropsFh, DropsObject, Rests
  <2> QED BY ZenonT(30), <1>5, <2>1, <2>2, <2>4 DEF Claim
<1>6. ASSUME NEW r \in Retirer, RetireStep(r), Listed PROVE Claim(f, o)
  <2>1. PICK k : Turn(r, k)
    BY ZenonT(30), <1>6, RetireTurns
  <2>2. \A q \in Retirer \ {r} : retire'[q] = retire[q]
    BY ZenonT(30), <2>1, OthersStay
  <2>3. PICK q \in Retirer : <<f, o>> \in retire'[q].stale
    BY ZenonT(30), <1>6
  <2>4. CASE q = r
    BY ZenonT(30), <1>6, <2>3, <2>4, ListsTheMapped DEF Claim
  <2>5. CASE q # r
    BY ZenonT(30), <2>2, <2>3, <2>5 DEF Claim
  <2> QED BY ZenonT(30), <2>4, <2>5
<1>7. CASE UNCHANGED vars
  BY ZenonT(30), <1>7 DEF vars, names, Claim
<1> QED BY ZenonT(30), <1>1, <1>2, <1>3, <1>4, <1>5, <1>6, <1>7 DEF Next

\* Nobody claims what registration records or a mint draws.
LEMMA NewClaims ==
    ASSUME TypeInv, ClaimInv, NEW f \in Fh, NEW o \in Object, NEW p \in Object,
           Recorded(f, o) \/ Drawn(f, o)
    PROVE  ~Claim(f, p)
<1> SUFFICES ASSUME Claim(f, p) PROVE FALSE
  BY ZenonT(30)
<1>1. CASE Recorded(f, o)
  <2>1. PICK t \in Task : /\ RegisterNew(t) /\ task[t].handle \in Durable
                          /\ f = Durably(Encoding[task[t].handle])
    BY ZenonT(30), <1>1 DEF Recorded
  <2>2. task[t].handle \in fences \/ handle_to_object[task[t].handle] = p.id
    BY ZenonT(30), <2>1 DEF ClaimInv
  <2>3. task[t].handle \notin fences /\ handle_to_object[task[t].handle] = NoId
    BY ZenonT(30), <2>1 DEF RegisterNew
  <2> QED BY ZenonT(30), <2>2, <2>3, Kinds
<1>2. CASE Drawn(f, o)
  <2>1. f \in BootFh /\ f.body = next_fh
    BY <1>2 DEF Drawn, BootMinted, BootScoped
  <2>2. f.body < next_fh
    BY ZenonT(30), <2>1 DEF ClaimInv
  <2>3. next_fh \in Nat
    BY BoundAssumption DEF TypeInv, TypeOK
  <2> QED BY <2>1, <2>2, <2>3
<1> QED BY ZenonT(30), <1>1, <1>2

LEMMA NewClaimsAgree ==
    ASSUME TypeInv, NEW f \in Fh, NEW o \in Object, NEW p \in Object,
           Recorded(f, o) \/ Drawn(f, o), Recorded(f, p) \/ Drawn(f, p)
    PROVE  o = p
<1>1. Recorded(f, o) /\ Recorded(f, p) => o = p
  BY ZenonT(30) DEF Recorded
<1>2. ASSUME NEW q, Recorded(f, q) PROVE f \notin BootFh
  BY <1>2 DEF Recorded, Durably, BootFh
<1>3. ASSUME NEW q, Drawn(f, q) PROVE f \in BootFh /\ fh_to_object'[f] = q
  <2>1. fh_to_object \in [Fh -> Object \cup {NoObject}]
    BY ZenonT(30) DEF TypeInv, TypeOK
  <2> QED BY ZenonT(30), <1>3, <2>1 DEF Drawn, BootMinted
<1> QED BY <1>1, <1>2, <1>3

LEMMA ClaimInvStep ==
    ASSUME DistinctEncodings, TypeInv, ClaimInv, [Next]_vars
    PROVE  ClaimInv'
<1>1. ASSUME NEW f \in Fh, NEW o \in Object, NEW p \in Object, Claim(f, o)', Claim(f, p)'
      PROVE  o = p
  <2>1. /\ Claim(f, o) \/ Recorded(f, o) \/ Drawn(f, o)
        /\ Claim(f, p) \/ Recorded(f, p) \/ Drawn(f, p)
    BY ZenonT(30), <1>1, ClaimsComeFrom
  <2>2. CASE Claim(f, o) /\ Claim(f, p)
    BY ZenonT(30), <2>2 DEF ClaimInv
  <2>3. CASE ~Claim(f, o) /\ ~Claim(f, p)
    BY ZenonT(30), <2>1, <2>3, NewClaimsAgree
  <2> QED BY ZenonT(30), <2>1, <2>2, <2>3, NewClaims
<1>2. ASSUME NEW h \in Durable, NEW o \in Object, Claim(Durably(Encoding[h]), o)'
      PROVE  h \in fences' \/ handle_to_object'[h] = o.id
  <2>1. PICK f \in PersistentFh : f = Durably(Encoding[h])
    BY ZenonT(30), EncodingAssumption DEF Durably, PersistentFh
  <2>2. /\ f \in Fh /\ f \notin BootFh /\ h \in Handle
        /\ handle_to_object \in [Handle -> Id \cup {NoId}]
    BY ZenonT(30), <2>1, Kinds, EncodingAssumption DEF Fh, TypeInv, TypeOK
  <2>3. Claim(f, o)'
    BY ZenonT(30), <1>2, <2>1
  <2>4. CASE Claim(f, o)
    <3>1. h \in fences \/ handle_to_object[h] = o.id
      BY ZenonT(30), <2>1, <2>4 DEF ClaimInv
    <3>2. CASE UNCHANGED maps
      BY ZenonT(30), <3>1, <3>2 DEF maps
    <3>3. ASSUME NEW t \in Task, RegisterNew(t) PROVE h \in fences' \/ handle_to_object'[h] = o.id
      <4>1. /\ fences' = fences /\ handle_to_object[task[t].handle] = NoId
            /\ handle_to_object' = [handle_to_object EXCEPT ![task[t].handle] = next_object_id]
        BY ZenonT(30), <3>3 DEF RegisterNew
      <4> QED BY ZenonT(30), <2>2, <3>1, <4>1, Kinds
    <3>4. ASSUME NEW r \in Retirer, NEW P \in SUBSET Handle, RetireBegin(r, P)
          PROVE  h \in fences' \/ handle_to_object'[h] = o.id
      <4>1. /\ fences' = fences \cup P
            /\ handle_to_object' = [g \in Handle |-> IF g \in {x \in P : handle_to_object[x] # NoId}
                                                     THEN NoId ELSE handle_to_object[g]]
        BY ZenonT(30), <3>4 DEF RetireBegin
      <4> QED BY ZenonT(30), <2>2, <3>1, <4>1
    <3> QED BY ZenonT(30), <3>2, <3>3, <3>4, OtherOutcomes
  <2>5. CASE Recorded(f, o)
    <3>1. PICK t \in Task : /\ RegisterNew(t) /\ o = Fs(next_object_id)
                            /\ task[t].handle \in Durable
                            /\ f = Durably(Encoding[task[t].handle])
      BY ZenonT(30), <2>5 DEF Recorded
    <3>2. Encoding[task[t].handle] = Encoding[h]
      BY <2>1, <3>1 DEF Durably
    <3>3. task[t].handle = h
      BY ZenonT(30), <3>1, <3>2 DEF DistinctEncodings
    <3>4. handle_to_object' = [handle_to_object EXCEPT ![h] = next_object_id]
      BY ZenonT(30), <3>1, <3>3 DEF RegisterNew
    <3> QED BY ZenonT(30), <2>2, <3>1, <3>4 DEF Fs
  <2>6. ~Drawn(f, o)
    BY ZenonT(30), <2>2 DEF Drawn, BootMinted
  <2> QED BY ZenonT(30), <2>2, <2>3, <2>4, <2>5, <2>6, ClaimsComeFrom
<1>3. ASSUME NEW f \in BootFh, NEW o \in Object, Claim(f, o)' PROVE f.body < next_fh'
  <2>1. f \in Fh /\ f \notin PersistentFh /\ f.body \in Nat /\ next_fh \in Nat
    BY Kinds, BoundAssumption DEF Fh, BootFh, TypeInv, TypeOK
  <2>2. next_fh' \in {next_fh, next_fh + 1}
    <3>1. ASSUME NEW t \in Task, TaskStep(t) PROVE next_fh' \in {next_fh, next_fh + 1}
      BY ZenonT(30), <3>1, TaskOutcomes DEF Quiet, Found, Reserved, BootMinted, Published, Lost, Valid, Invalid,
           FhBackedOut, ObjectBackedOut
    <3>2. ASSUME NEW r \in Retirer, RetireStep(r) PROVE next_fh' = next_fh
      BY ZenonT(30), <3>2, RetireTurns DEF Turn
    <3> QED BY ZenonT(30), <3>1, <3>2 DEF Next, vars, names
  <2>3. CASE Claim(f, o)
    <3>1. f.body < next_fh
      BY ZenonT(30), <2>3 DEF ClaimInv
    <3> QED BY <2>1, <2>2, <3>1
  <2>4. ~Recorded(f, o)
    BY EncodingAssumption, <2>1 DEF Recorded, Durably, PersistentFh
  <2>5. CASE Drawn(f, o)
    <3>1. f.body = next_fh /\ next_fh' = next_fh + 1
      BY <2>5 DEF Drawn, BootMinted, BootScoped
    <3> QED BY <2>1, <3>1
  <2> QED BY ZenonT(30), <1>3, <2>1, <2>3, <2>4, <2>5, ClaimsComeFrom
<1> QED BY ZenonT(30), <1>1, <1>2, <1>3 DEF ClaimInv

LEMMA ClaimInvInit == Init => ClaimInv
<1> SUFFICES ASSUME Init PROVE ClaimInv
  BY ZenonT(30)
<1>1. ASSUME NEW f \in Fh, NEW o \in Object PROVE ~Claim(f, o)
  <2>1. f # NoFh /\ o # NoObject /\ o.id \in Id
    BY ZenonT(30), Kinds, NoneAssumption
  <2> QED BY ZenonT(30), <2>1, IdleCarries DEF Init, Claim, IdleRetire, Minting
<1>2. \A h \in Durable : Durably(Encoding[h]) \in Fh
  BY ZenonT(30), EncodingAssumption DEF Durably, PersistentFh, Fh
<1> QED BY ZenonT(30), <1>1, <1>2 DEF ClaimInv, Fh

\* A live object's filehandle is taken from the map only by a mint that came second.
LEMMA MappingsKept ==
    ASSUME TypeInv, MarkedInv, NamesInv, ClaimInv, [Next]_vars,
           NEW f \in Fh, NEW o \in Object, fh_to_object[f] = o, ~is_retired(o)
    PROVE  fh_to_object'[f] = o \/ object_to_fh[o] \notin {NoFh, f}
<1>1. fh_to_object \in [Fh -> Object \cup {NoObject}]
  BY ZenonT(30) DEF TypeInv, TypeOK
<1>2. Claim(f, o)
  BY ZenonT(30) DEF Claim
<1>3. ASSUME NEW p \in Object, Claim(f, p) PROVE o = p
  BY ZenonT(30), <1>2, <1>3 DEF ClaimInv
<1>4. ASSUME NEW t \in Task, TaskStep(t) PROVE fh_to_object'[f] = o \/ object_to_fh[o] \notin {NoFh, f}
  <2>1. /\ task[t].pc \notin {"idle", "register"} => task[t].object \in Object
        /\ task[t].pc \in Minting => task[t].fh \in Fh
    BY ZenonT(30), <1>4, TaskOutcomes
  <2>2. task[t].pc \in {"reserve"} \cup Minting /\ task[t].fh = f => o = task[t].object
    BY ZenonT(30), <1>3, <2>1 DEF Claim, Minting
  <2>3. CASE fh_to_object' = fh_to_object
    BY ZenonT(30), <2>3
  <2>4. CASE Reserved(t)
    BY ZenonT(30), <1>1, <2>2, <2>4 DEF Reserved
  <2>5. CASE BootMinted(t)
    <3>1. f # BootScoped(next_fh)
      <4> SUFFICES ASSUME f = BootScoped(next_fh) PROVE FALSE
        BY ZenonT(30)
      <4>1. f \in BootFh /\ f.body = next_fh
        BY ZenonT(30), <2>5 DEF BootMinted, BootScoped
      <4>2. f.body < next_fh /\ next_fh \in Nat
        BY <1>2, <4>1, BoundAssumption DEF ClaimInv, TypeInv, TypeOK
      <4> QED BY <4>1, <4>2
    <3> QED BY ZenonT(30), <1>1, <2>5, <3>1 DEF BootMinted
  <2>6. CASE Lost(t)
    <3>1. CASE task[t].fh = f /\ object_to_fh[task[t].object] # f
      BY ZenonT(30), <2>2, <2>6, <3>1, NoneAssumption DEF Lost, Minting
    <3>2. CASE ~(task[t].fh = f /\ object_to_fh[task[t].object] # f)
      BY ZenonT(30), <1>1, <2>6, <3>2 DEF Lost
    <3> QED BY ZenonT(30), <3>1, <3>2
  <2>7. CASE FhBackedOut(t)
    <3>1. is_retired(task[t].object)
      BY ZenonT(30), <2>7 DEF NamesInv, Announced, FhBackedOut
    <3> QED BY ZenonT(30), <1>1, <2>2, <2>7, <3>1 DEF FhBackedOut, Minting
  <2> QED BY ZenonT(30), <1>4, <2>3, <2>4, <2>5, <2>6, <2>7, TaskOutcomes
          DEF Quiet, Found, Published, Valid, Invalid, ObjectBackedOut
<1>5. ASSUME NEW r \in Retirer, RetireStep(r) PROVE fh_to_object'[f] = o
  <2>1. CASE fh_to_object' = fh_to_object
    BY ZenonT(30), <2>1
  <2>2. ASSUME NEW p, DropsFh(r, p) PROVE fh_to_object'[f] = o
    <3>1. /\ p \in retire[r].stale /\ retire[r].stale \subseteq Fh \X Object
          /\ retire[r].pc = "drop_fh" /\ Holds(retire[r])
      BY ZenonT(30), <2>2 DEF DropsFh, TypeInv, Holds, RetireState
    <3>2. p = <<p[1], p[2]>> /\ p[2] \in Object /\ p[2].id \in retire[r].ids
      BY <3>1 DEF Holds
    <3>3. is_retired(p[2])
      BY ZenonT(30), <3>1, <3>2 DEF MarkedInv, Marked, is_retired
    <3>4. p[1] # f
      BY ZenonT(30), <1>3, <3>1, <3>2, <3>3 DEF Claim
    <3> QED BY ZenonT(30), <1>1, <2>2, <3>4 DEF DropsFh
  <2> QED BY ZenonT(30), <1>5, <2>1, <2>2, RetireOutcomes DEF Begun, Marks, Collects, DropsObject, Rests
<1> QED BY ZenonT(30), <1>4, <1>5 DEF Next, vars, names

LEMMA ResolveInvStep ==
    ASSUME TypeInv, MarkedInv, NamesInv, ClaimInv, ResolveInv, [Next]_vars
    PROVE  ResolveInv'
<1>1. /\ object_to_fh \in [Object -> Fh \cup {NoFh}] /\ task \in [Task -> TaskState]
      /\ fh_to_object \in [Fh -> Object \cup {NoObject}] /\ NoFh \notin Fh
  BY ZenonT(30), NoneAssumption DEF TypeInv, TypeOK
<1>2. ASSUME NEW o \in Object, ~is_retired(o)'
      PROVE  ~is_retired(o) /\ (object_to_fh[o] = NoFh \/ object_to_fh'[o] = object_to_fh[o])
  BY ZenonT(30), <1>2, StaysRetired, NamesKept DEF is_retired, KeepsNames
<1>3. ASSUME NEW o \in Object, ~is_retired(o)', object_to_fh'[o] # NoFh
      PROVE  fh_to_object'[object_to_fh'[o]] = o
  <2>1. ~is_retired(o) /\ (object_to_fh[o] = NoFh \/ object_to_fh'[o] = object_to_fh[o])
    BY ZenonT(30), <1>2, <1>3
  <2>2. CASE object_to_fh[o] # NoFh
    <3>1. PICK f \in Fh : object_to_fh[o] = f
      BY ZenonT(30), <1>1, <2>2
    <3>2. fh_to_object[f] = o
      BY ZenonT(30), <2>1, <2>2, <3>1 DEF ResolveInv
    <3>3. fh_to_object'[f] = o
      BY ZenonT(30), <2>1, <3>1, <3>2, MappingsKept
    <3> QED BY ZenonT(30), <2>1, <2>2, <3>1, <3>3
  <2>3. CASE object_to_fh[o] = NoFh
    <3>1. object_to_fh'[o] # object_to_fh[o]
      BY ZenonT(30), <1>3, <2>3
    <3>2. ASSUME NEW r \in Retirer, RetireStep(r) PROVE FALSE
      BY ZenonT(30), <1>1, <2>3, <3>1, <3>2, RetireOutcomes
         DEF Begun, Marks, Collects, DropsFh, DropsObject, Rests
    <3>3. ASSUME NEW t \in Task, TaskStep(t)
          PROVE  Published(t)
      <4>1. CASE ObjectBackedOut(t)
        BY ZenonT(30), <1>1, <2>3, <3>1, <4>1 DEF ObjectBackedOut
      <4> QED BY ZenonT(30), <3>1, <3>3, <4>1, TaskOutcomes
              DEF Quiet, Found, Reserved, BootMinted, Lost, Valid, Invalid, FhBackedOut
    <3>4. PICK t \in Task : Published(t)
      BY ZenonT(30), <3>1, <3>2, <3>3 DEF Next, vars, names
    <3>5. o = task[t].object /\ object_to_fh'[o] = task[t].fh
      BY ZenonT(30), <1>1, <2>3, <3>1, <3>4 DEF Published
    <3>6. fh_to_object[task[t].fh] = o /\ fh_to_object' = fh_to_object
      BY ZenonT(30), <2>1, <2>3, <3>4, <3>5 DEF Published, ResolveInv
    <3> QED BY ZenonT(30), <3>5, <3>6
  <2> QED BY ZenonT(30), <2>2, <2>3
<1>4. ASSUME NEW u \in Task, task'[u].pc = "publish", ~is_retired(task[u].object)',
             object_to_fh'[task'[u].object] = NoFh
      PROVE  fh_to_object'[task'[u].fh] = task'[u].object
  <2>1. CASE task'[u] = task[u]
    <3>1. PICK o \in Object, f \in Fh : o = task[u].object /\ f = task[u].fh
      BY ZenonT(30), <1>4, <2>1 DEF TypeInv, Carries, Minting
    <3>2. ~is_retired(o)' /\ object_to_fh'[o] = NoFh /\ task[u].pc = "publish"
      BY ZenonT(30), <1>4, <2>1, <3>1 DEF is_retired
    <3>3. ~is_retired(o) /\ object_to_fh[o] = NoFh
      BY ZenonT(30), <1>2, <3>2
    <3>4. fh_to_object[f] = o
      BY ZenonT(30), <3>1, <3>2, <3>3 DEF ResolveInv
    <3>5. fh_to_object'[f] = o
      BY ZenonT(30), <3>3, <3>4, MappingsKept
    <3> QED BY ZenonT(30), <2>1, <3>1, <3>5
  <2>2. CASE task'[u] # task[u]
    <3>1. PICK t \in Task : TaskStep(t)
      <4>1. ASSUME NEW r \in Retirer, RetireStep(r) PROVE FALSE
        BY ZenonT(30), <2>2, <4>1, RetireTypes
      <4> QED BY ZenonT(30), <2>2, <4>1 DEF Next, vars
    <3>2. PICK k : task' = [task EXCEPT ![t] = k]
      BY ZenonT(30), <3>1, TaskOutcomes DEF Quiet, Found, Reserved, BootMinted, Published, Lost, Valid, Invalid,
           FhBackedOut, ObjectBackedOut, Move, Leave
    <3>3. u = t /\ task'[u] = k /\ k.pc = "publish"
      BY ZenonT(30), <1>1, <1>4, <2>2, <3>2
    <3>4. ~Leave(t)
      BY ZenonT(30), <1>1, <3>3 DEF Leave, Minting
    <3>5. ASSUME NEW pc, NEW f, Move(t, pc, f)
          PROVE  k.pc = pc /\ k.fh = f /\ k.object = task[t].object
      BY ZenonT(30), <1>1, <3>3, <3>5 DEF Move
    <3>6. CASE Reserved(t)
      <4>1. task[t].fh \in Fh
        BY ZenonT(30), <3>6 DEF Reserved, Fh
      <4> QED BY ZenonT(30), <1>1, <3>3, <3>5, <3>6, <4>1 DEF Reserved
    <3>7. CASE BootMinted(t)
      <4>1. BootScoped(next_fh) \in Fh
        BY ZenonT(30), <3>7 DEF BootMinted, Fh
      <4> QED BY ZenonT(30), <1>1, <3>3, <3>5, <3>7, <4>1 DEF BootMinted
    <3>8. ~Published(t) /\ ~Invalid(t) /\ ~FhBackedOut(t)
      BY <3>3, <3>5 DEF Published, Invalid, FhBackedOut
    <3>9. Quiet(t) => Leave(t)
      BY ZenonT(30) DEF Quiet, Leave
    <3> QED BY ZenonT(30), <3>1, <3>4, <3>6, <3>7, <3>8, <3>9, TaskOutcomes
            DEF Found, Lost, Valid, ObjectBackedOut
  <2> QED BY ZenonT(30), <2>1, <2>2
<1> QED BY ZenonT(30), <1>3, <1>4 DEF ResolveInv

LEMMA ResolveInvInit == Init => ResolveInv
  BY ZenonT(30), IdleCarries DEF Init, ResolveInv

\* A filehandle answered to a client resolves to its object until the object is retired
\* (filehandles.rs object_to_fh and claim_persistent_fh), whatever mints and retirements
\* run meanwhile, if the backend's encodings are canonical as fs.rs demands.
THEOREM AnsweredFilehandlesResolve ==
    ASSUME DistinctEncodings
    PROVE  Spec => []IssuedFilehandlesResolve
<1> DEFINE All == TypeInv /\ MarkedInv /\ NamesInv /\ ClaimInv /\ ResolveInv
<1>1. Init => All
  BY ZenonT(30), TypeInvInit, MarkedInvInit, NamesInvInit, ClaimInvInit, ResolveInvInit
<1>2. All /\ [Next]_vars => All'
  BY ZenonT(30), TypeInvStep, MarkedInvStep, NamesInvStep, ClaimInvStep, ResolveInvStep
<1>3. All => IssuedFilehandlesResolve
  <2> SUFFICES ASSUME All, NEW p \in issued, ~is_retired(p[1]) PROVE fh_to_object[p[2]] = p[1]
    BY ZenonT(30) DEF IssuedFilehandlesResolve
  <2>1. p[1] \in Object /\ p[2] \in Fh /\ p[2] # NoFh
    BY ZenonT(30), NoneAssumption DEF TypeInv, TypeOK
  <2>2. object_to_fh[p[1]] = p[2]
    BY ZenonT(30) DEF NamesInv
  <2> QED BY ZenonT(30), <2>1, <2>2 DEF ResolveInv
<1> QED BY <1>1, <1>2, <1>3, PTL DEF Spec

\* A filehandle that clients were given never means two files that both live
\* (filehandles.rs claim_persistent_fh): it resolves to each of them.
THEOREM FilehandlesNameOneObject ==
    ASSUME DistinctEncodings
    PROVE  Spec => []FilehandleMeansOneObject
<1>1. TypeOK /\ IssuedFilehandlesResolve => FilehandleMeansOneObject
  <2> SUFFICES ASSUME TypeOK, IssuedFilehandlesResolve, NEW p \in issued, NEW q \in issued,
                      p[2] = q[2], ~is_retired(p[1]), ~is_retired(q[1])
               PROVE  p = q
    BY ZenonT(30) DEF FilehandleMeansOneObject
  <2>1. p \in Object \X Fh /\ q \in Object \X Fh
    BY ZenonT(30) DEF TypeOK
  <2>2. p[1] = q[1]
    BY DEF IssuedFilehandlesResolve
  <2> QED BY <2>1, <2>2
<1>2. Spec => []TypeOK
  <2>1. TypeInv => TypeOK
    BY ZenonT(30) DEF TypeInv
  <2> QED BY <2>1, TypeInvInit, TypeInvStep, PTL DEF Spec
<1> QED BY <1>1, <1>2, AnsweredFilehandlesResolve, PTL
=============================================================================
