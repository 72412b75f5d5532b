------------------------------ MODULE Listings ------------------------------
(***************************************************************************)
(* One directory, or the attribute directory of one file, that a client    *)
(* reads page by page with READDIR and LISTXATTRS while others add and     *)
(* remove names: op_readdir, the named attribute branches of op_open and   *)
(* op_remove, server/ops/xattrs.rs, server/file_attrs.rs and the synthetic *)
(* metadata of session/metadata.rs under src/crates/embednfs/src.  A step  *)
(* is one backend call or one guard of the state lock.                     *)
(***************************************************************************)
EXTENDS Naturals, FiniteSets

CONSTANTS Name,         \* names, numbers that stand for their sort order
          Unreadable,   \* names whose getattr fails
          Retired,      \* names whose handle register_handle refuses
          Task,         \* OPEN and REMOVE requests on the attribute directory
          MaxMutations, \* bound: names added and removed
          None

ASSUME ListingsAssumption ==
    Name \subseteq Nat /\ IsFiniteSet(Name) /\ Unreadable \subseteq Name /\ Retired \subseteq Name /\ MaxMutations \in Nat

VARIABLES kind,     \* "fs": a directory; "attr": an attribute directory
          names,    \* what the backend has
          change,   \* the change id: the backend's, or the synthetic metadata's
          count,    \* named_attr_count of the synthetic metadata
          tasks,    \* OPEN and REMOVE in progress in the attribute directory
          rd,       \* the client's READDIR listing
          lx,       \* the client's LISTXATTRS listing
          mutations

vars == <<kind, names, change, count, tasks, rd, lx, mutations>>

Entry == [name : Name, cookie : Nat]
Readdir == [pc : {"off", "ask", "count", "fetch", "answer", "done"}, cookie : Nat, verf : Nat,
            got : SUBSET Name, entries : SUBSET Entry, eof : BOOLEAN, inline : BOOLEAN, n : Nat,
            foreign : BOOLEAN]   \* SETXATTR or REMOVEXATTR came in between
Listxattrs == [pc : {"off", "ask", "done"}, cookie : Nat, got : SUBSET Name,
               clean : BOOLEAN]  \* nothing was added or removed in between

TypeOK ==
    /\ kind \in {"fs", "attr"} /\ names \subseteq Name /\ change \in Nat /\ count \in Nat \cup {None}
    /\ tasks \in [Task -> [pc : {"idle", "refresh", "store", "touch"}, n : Nat]]
    /\ rd \in Readdir /\ lx \in Listxattrs /\ mutations \in 0..MaxMutations

NoReaddir == [pc |-> "off", cookie |-> 0, verf |-> 0, got |-> {}, entries |-> {}, eof |-> FALSE,
              inline |-> FALSE, n |-> 0, foreign |-> FALSE]
NoListxattrs == [pc |-> "off", cookie |-> 0, got |-> {}, clean |-> TRUE]

Init ==
    /\ kind \in {"fs", "attr"} /\ names \in SUBSET Name
    /\ change = 1 /\ count = None /\ mutations = 0
    /\ tasks = [t \in Task |-> [pc |-> "idle", n |-> 0]]
    /\ rd = NoReaddir /\ lx = NoListxattrs

\* Where a name comes in the sorted list of all names.
Position(n) == Cardinality({m \in names : m <= n})
Length == Cardinality(names)

\* The names after position start, up to position end.
Between(start, end) == {n \in names : start < Position(n) /\ Position(n) <= end}

-----------------------------------------------------------------------------
(* Mutations.                                                               *)

Mutated(n) ==
    /\ mutations < MaxMutations /\ mutations' = mutations + 1
    /\ names' \in {names \cup {n}, names \ {n}} \ {names}
    /\ lx' = [lx EXCEPT !.clean = FALSE]

\* The backend adds or removes an entry of a directory, with a new change id.
Mutate(n) ==
    /\ kind = "fs" /\ Mutated(n)
    /\ change' = change + 1
    /\ UNCHANGED <<kind, count, tasks, rd>>

\* OPEN that creates and REMOVE, in an attribute directory: set_xattr or
\* remove_xattr, then the summary and the metadata.
MutateNamed(t, n) ==
    /\ kind = "attr" /\ tasks[t].pc = "idle" /\ Mutated(n)
    /\ tasks' = [tasks EXCEPT ![t].pc = "refresh"]
    /\ UNCHANGED <<kind, change, count, rd>>

\* refresh_xattr_summary lists, and stores the count.  A failure is only logged.
RefreshList(t) ==
    /\ tasks[t].pc = "refresh"
    /\ \E pc \in {"store", "touch"} :
         tasks' = [tasks EXCEPT ![t] = [pc |-> pc, n |-> Cardinality(names)]]
    /\ UNCHANGED <<kind, names, change, count, rd, lx, mutations>>

RefreshStore(t) ==
    /\ tasks[t].pc = "store"
    /\ count' = tasks[t].n
    /\ tasks' = [tasks EXCEPT ![t].pc = "touch"]
    /\ UNCHANGED <<kind, names, change, rd, lx, mutations>>

\* Mutant: the attribute directory keeps its change id.
TouchNothing(t) ==
    /\ tasks[t].pc = "touch"
    /\ tasks' = [tasks EXCEPT ![t] = [pc |-> "idle", n |-> 0]]
    /\ UNCHANGED <<kind, names, change, count, rd, lx, mutations>>

\* touch_metadata.
Touch(t) ==
    /\ tasks[t].pc = "touch"
    /\ change' = change + 1
    /\ tasks' = [tasks EXCEPT ![t] = [pc |-> "idle", n |-> 0]]
    /\ UNCHANGED <<kind, names, count, rd, lx, mutations>>

\* SETXATTR, REMOVEXATTR, and a WRITE that puts back an attribute removed under it:
\* the backend's change and nothing else.
MutateXattr(n) ==
    /\ kind = "attr" /\ Mutated(n)
    /\ rd' = [rd EXCEPT !.foreign = TRUE]
    /\ UNCHANGED <<kind, change, count, tasks>>

-----------------------------------------------------------------------------
(* READDIR.                                                                 *)

\* The client starts a listing, one at a time: cookie 0.
ReaddirStart ==
    /\ rd.pc \in {"off", "done"} /\ lx.pc \in {"off", "done"}
    /\ rd' = [NoReaddir EXCEPT !.pc = "ask"]
    /\ lx' = NoListxattrs
    /\ UNCHANGED <<kind, names, change, count, tasks, mutations>>

\* build_attr of an attribute directory whose count is not known: xattr_count,
\* then set_named_attr_count.
CountAttributes ==
    /\ rd.pc = "ask" /\ kind = "attr" /\ count = None
    /\ rd' = [rd EXCEPT !.pc = "count", !.n = Cardinality(names)]
    /\ UNCHANGED <<kind, names, change, count, tasks, lx, mutations>>

StoreCount ==
    /\ rd.pc = "count"
    /\ count' = rd.n
    /\ rd' = [rd EXCEPT !.pc = "ask", !.n = 0]
    /\ UNCHANGED <<kind, names, change, tasks, lx, mutations>>

\* A page after the first is given out only to the verifier of the first.
SameVerifier == rd.cookie = 0 \/ rd.verf = change

\* The rest of build_attr, and the checks of the arguments.  NFS4ERR_NOT_SAME makes
\* the client start over.
CheckVerifier ==
    /\ rd.pc = "ask" /\ (kind = "attr" => count # None)
    /\ \/ SameVerifier /\ rd' = [rd EXCEPT !.pc = "fetch", !.verf = change]
       \/ ~SameVerifier /\ rd' = [NoReaddir EXCEPT !.pc = "ask"]
    /\ UNCHANGED <<kind, names, change, count, tasks, lx, mutations>>

\* Mutant: the cookie of an entry is the position of the entry itself.
PageFromSelf(start, k) ==
    {[name |-> n, cookie |-> Position(n) + 1] : n \in Between(start, start + k)}

\* The k entries after position start.  A cookie is the position after its entry,
\* past the values 0, 1 and 2.
Page(start, k) ==
    {[name |-> n, cookie |-> Position(n) + 2] : n \in Between(start, start + k)}

\* NfsServer::readdir drops the entries register_handle refuses.
Dropped == IF kind = "fs" THEN Retired ELSE {}

\* The backend's readdir, of at most maxcount / 128 entries, whose retired ones are
\* dropped; or list_xattrs, which returns all.
Fetch(k) ==
    LET start == IF rd.cookie = 0 THEN 0 ELSE rd.cookie - 2
        left == IF start < Length THEN Length - start ELSE 0 IN
    /\ rd.pc = "fetch"
    /\ k <= left /\ (left > 0 => k > 0) /\ (kind = "attr" => k = left)
    /\ \E inline \in BOOLEAN :
         /\ kind = "attr" => ~inline
         /\ rd' = [rd EXCEPT !.pc = "answer", !.eof = (k = left), !.inline = inline,
                     !.entries = {e \in Page(start, k) : e.name \notin Dropped}]
    /\ UNCHANGED <<kind, names, change, count, tasks, lx, mutations>>

\* An entry without attributes of the backend's is skipped when its getattr fails.
Listed(e) == rd.inline \/ (e.name \in names /\ e.name \notin Unreadable)

\* The last page holds everything the backend returned.
Eof(results) == rd.eof /\ results = rd.entries

\* The reply takes the entries of a prefix of the page, those with a cookie up to m
\* being looked at: the first always fits (or NFS4ERR_TOOSMALL is returned), so an empty
\* reply has skipped them all.  The client goes on from the last cookie it was given.
Answer(m) ==
    LET results == {e \in rd.entries : e.cookie <= m /\ Listed(e)} IN
    /\ rd.pc = "answer"
    /\ results = {} => \A e \in rd.entries : e.cookie <= m
    /\ \E cookie \in {rd.cookie} \cup {e.cookie : e \in results} :
         /\ \A e \in results : e.cookie <= cookie
         /\ rd' = [rd EXCEPT
              !.pc = IF Eof(results) THEN "done" ELSE "ask",
              !.cookie = cookie,
              !.got = @ \cup {e.name : e \in results},
              !.entries = {}, !.eof = FALSE, !.inline = FALSE]
    /\ UNCHANGED <<kind, names, change, count, tasks, lx, mutations>>

-----------------------------------------------------------------------------
(* LISTXATTRS.                                                              *)

ListxattrsStart ==
    /\ kind = "attr" /\ lx.pc \in {"off", "done"} /\ rd.pc \in {"off", "done"}
    /\ lx' = [NoListxattrs EXCEPT !.pc = "ask"]
    /\ rd' = NoReaddir
    /\ UNCHANGED <<kind, names, change, count, tasks, mutations>>

\* Mutant: eof is set one name early.
EndsBefore(end) == end + 1 >= Length

Ends(end) == end = Length

\* listxattrs_page returns the names from the cookie, an index, up to end.  A
\* cookie past the names is NFS4ERR_INVAL, and the client starts over.
ListxattrsPage(end) ==
    /\ lx.pc = "ask"
    /\ \/ /\ lx.cookie > Length
          /\ lx' = [NoListxattrs EXCEPT !.pc = "ask"]
       \/ /\ lx.cookie <= end /\ end <= Length
          /\ lx.cookie < Length => lx.cookie < end
          /\ lx' = [lx EXCEPT !.pc = IF Ends(end) THEN "done" ELSE "ask", !.cookie = end,
                              !.got = @ \cup Between(lx.cookie, end)]
    /\ UNCHANGED <<kind, names, change, count, tasks, rd, mutations>>

Positions == 0..Cardinality(Name)
Cookies == 0..(Cardinality(Name) + 2)
ReaddirStep ==
    CountAttributes \/ StoreCount \/ CheckVerifier
    \/ (\E k \in Positions : Fetch(k)) \/ (\E m \in Cookies : Answer(m))
ListxattrsStep == \E end \in Positions : ListxattrsPage(end)
TaskStep(t) == RefreshList(t) \/ RefreshStore(t) \/ Touch(t)

Next ==
    \/ \E n \in Name : Mutate(n) \/ MutateXattr(n) \/ \E t \in Task : MutateNamed(t, n)
    \/ \E t \in Task : TaskStep(t)
    \/ ReaddirStart \/ ReaddirStep \/ ListxattrsStart \/ ListxattrsStep

Spec == Init /\ [][Next]_vars

\* A client that keeps asking, and a server that answers.
FairSpec == Spec /\ WF_vars(ReaddirStep) /\ WF_vars(ListxattrsStep)

-----------------------------------------------------------------------------
(* Properties.                                                              *)

\* The verifier vouches for the whole listing.  When READDIR has reached the end
\* and the change id still is the verifier of the pages, the client has every name
\* of the directory that can be listed, and no other: none fell between two pages.  For an
\* attribute directory this takes that OPEN and REMOVE have finished and that no
\* SETXATTR or REMOVEXATTR came in between, which leave the verifier alone.
ListingsAreExact ==
    rd.pc = "done" /\ rd.verf = change /\ ~rd.foreign /\ (\A t \in Task : tasks[t].pc = "idle")
      => rd.got = names \ Dropped

\* The same without the exception for SETXATTR and REMOVEXATTR.
VerifiersVouch ==
    rd.pc = "done" /\ rd.verf = change /\ (\A t \in Task : tasks[t].pc = "idle")
      => rd.got = names \ Dropped

\* LISTXATTRS has no verifier: what it returns is exact when nothing was added or
\* removed meanwhile.
XattrListingsAreExact == lx.pc = "done" /\ lx.clean => lx.got = names

\* Pages make progress: once the directory is left alone, READDIR and LISTXATTRS come
\* to an end.
ListingsEnd == (rd.pc = "ask" ~> rd.pc = "done") /\ (lx.pc = "ask" ~> lx.pc = "done")

\* The size of an attribute directory is the number of attributes, when no request
\* that changes them is in progress.
CountsAreRight ==
    count # None /\ rd.pc # "count" /\ (\A t \in Task : tasks[t].pc = "idle")
      => count = Cardinality(names)
=============================================================================
