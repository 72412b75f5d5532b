-------------------------------- MODULE MemFs --------------------------------
(***************************************************************************)
(* The in-memory backend, src/crates/embednfs/src/memfs: inodes under one  *)
(* lock.  A step is one call of the FileSystem trait that changes          *)
(* something; only the creating calls take two steps, because they draw    *)
(* the new inode's number before they wait for the lock.  A call that      *)
(* fails under the lock changes nothing and is no step.                    *)
(***************************************************************************)
EXTENDS Naturals, FiniteSets

CONSTANTS Name,        \* names of directory entries
          XattrName,   \* names of extended attributes
          Sizes,       \* file sizes requests name
          MaxBytes,    \* MAX_FILE_BYTES
          MaxId,       \* bound: inode numbers handed out
          MaxChange,   \* bound: change ids handed out
          NoInode

Id == 1..MaxId
Root == 1
Kind == {"file", "dir", "symlink"}
Change == 1..(MaxChange + MaxId + 1)
Inode == [type : Kind, parent : 0..MaxId, entries : [Name -> 0..MaxId], size : 0..MaxBytes,
          xattrs : SUBSET XattrName, link_count : Nat, change : Change]

ASSUME MemFsAssumption ==
    /\ IsFiniteSet(Name) /\ Sizes \subseteq Nat
    /\ MaxBytes \in Nat /\ MaxId \in Nat \ {0} /\ MaxChange \in Nat \ {0}
    /\ NoInode \notin Inode

VARIABLES inodes, next_id, next_change,
          creating   \* numbers drawn by create calls that wait for the lock

vars == <<inodes, next_id, next_change, creating>>

TypeOK ==
    /\ inodes \in [Id -> Inode \cup {NoInode}]
    /\ next_id \in 2..(MaxId + 1)
    /\ next_change \in Change
    /\ creating \subseteq 2..MaxId

-----------------------------------------------------------------------------
NoEntries == [n \in Name |-> 0]
\* Attrs::new: the first change id of an inode is its number.
NewInode(id, kind, p) ==
    [type |-> kind, parent |-> p, entries |-> NoEntries, size |-> 0, xattrs |-> {},
     link_count |-> IF kind = "dir" THEN 2 ELSE 1, change |-> id]

\* MemFs::new.  A parent of 0 stands for None.
Init ==
    /\ inodes = [i \in Id |-> IF i = Root THEN NewInode(Root, "dir", 0) ELSE NoInode]
    /\ next_id = 2
    /\ next_change = 2
    /\ creating = {}

Live(i) == i \in Id /\ inodes[i] # NoInode
IsDir(i) == Live(i) /\ inodes[i].type = "dir"
IsFile(i) == Live(i) /\ inodes[i].type = "file"

\* lookup and parent, 0 where the code fails.
Lookup(d, n) == IF IsDir(d) THEN inodes[d].entries[n] ELSE 0
Parent(d) == IF IsDir(d) THEN inodes[d].parent ELSE 0

Present(tree) == {i \in Id : tree[i] # NoInode}
Entries(tree) == {e \in Present(tree) \X Name : tree[e[1]].entries[e[2]] # 0}
Target(tree, e) == tree[e[1]].entries[e[2]]

\* Mutant: a directory counts its entries, of whatever type.
RecomputeCountingEntries(tree) ==
    [i \in Id |->
       IF tree[i] = NoInode THEN NoInode
       ELSE [tree[i] EXCEPT !.link_count =
               IF tree[i].type = "dir"
               THEN 2 + Cardinality({e \in Entries(tree) : e[1] = i})
               ELSE Cardinality({e \in Entries(tree) : Target(tree, e) = i})]]

\* recompute_link_counts: a directory counts 2 and its subdirectories, anything
\* else its names.
RecomputeLinkCounts(tree) ==
    [i \in Id |->
       IF tree[i] = NoInode THEN NoInode
       ELSE [tree[i] EXCEPT !.link_count =
               IF tree[i].type = "dir"
               THEN 2 + Cardinality({e \in Entries(tree) : /\ e[1] = i
                                                          /\ Target(tree, e) \in Present(tree)
                                                          /\ tree[Target(tree, e)].type = "dir"})
               ELSE Cardinality({e \in Entries(tree) : Target(tree, e) = i})]]

\* Mutant: a file is removed although another name of it is left.
RemoveAnyway(tree, i) == [tree EXCEPT ![i] = NoInode]

\* remove_if_unlinked: a directory has one name, anything else goes with its last.
RemoveIfUnlinked(tree, i) ==
    IF tree[i] # NoInode
       /\ (tree[i].type = "dir" \/ \A e \in Entries(tree) : Target(tree, e) # i)
    THEN [tree EXCEPT ![i] = NoInode] ELSE tree

\* Mutant: only the directory itself is compared.
AncestorsOfSelf(d) == {d}

\* directory_descends_from walks up the parents, at most as often as there are
\* inodes: what it meets from d on.
Ancestors(d) ==
    LET met[n \in 0..Cardinality(Present(inodes))] ==
          IF n = 0 THEN {d} ELSE met[n - 1] \cup {Parent(i) : i \in met[n - 1]}
    IN met[Cardinality(Present(inodes))] \ {0}

-----------------------------------------------------------------------------
(* Creation.                                                                *)

\* create and create_symlink call next_id before they take the lock.
TakeId ==
    /\ next_id <= MaxId
    /\ next_id' = next_id + 1
    /\ creating' = creating \cup {next_id}
    /\ UNCHANGED <<inodes, next_change>>

\* The rest, under the lock.  A size among the attributes of anything but a file
\* is refused, as are a name in use and a parent that is gone or no directory; the
\* number is lost then.  Any attribute gives the inode a change id of its own.
Make(id, p, n, kind, attrs) ==
    /\ id \in creating
    /\ creating' = creating \ {id}
    /\ \/ /\ IsDir(p) /\ Lookup(p, n) = 0
          /\ attrs = "size" => kind = "file"
          /\ LET c == IF attrs = "none" THEN next_change ELSE next_change + 1
                 new == IF attrs = "none" THEN NewInode(id, kind, p)
                        ELSE [NewInode(id, kind, p) EXCEPT !.change = next_change]
             IN /\ c < MaxChange
                /\ inodes' = RecomputeLinkCounts([inodes EXCEPT
                     ![id] = new, ![p].entries[n] = id, ![p].change = c])
                /\ next_change' = c + 1
       \/ /\ ~IsDir(p) \/ Lookup(p, n) # 0 \/ (attrs = "size" /\ kind # "file")
          /\ UNCHANGED <<inodes, next_change>>
    /\ UNCHANGED next_id

Create(id, p, n, kind, attrs) == kind \in {"file", "dir"} /\ Make(id, p, n, kind, attrs)
CreateSymlink(id, p, n, attrs) == Make(id, p, n, "symlink", attrs)

-----------------------------------------------------------------------------
(* Names.                                                                   *)

\* touch_change, touch_data_change: the next change id.
Touched(tree, i) == [tree EXCEPT ![i].change = next_change]
Spend(k) == next_change + k <= MaxChange /\ next_change' = next_change + k

Link(source, p, n) ==
    /\ Live(source) /\ ~IsDir(source)
    /\ IsDir(p) /\ Lookup(p, n) = 0
    /\ inodes' = RecomputeLinkCounts(Touched([inodes EXCEPT ![p].entries[n] = source], p))
    /\ Spend(1)
    /\ UNCHANGED <<next_id, creating>>

Remove(p, n) ==
    LET child == Lookup(p, n) IN
    /\ child # 0
    /\ IsDir(child) => inodes[child].entries = NoEntries
    /\ inodes' = RecomputeLinkCounts(RemoveIfUnlinked(
                   Touched([inodes EXCEPT ![p].entries[n] = 0], p), child))
    /\ Spend(1)
    /\ UNCHANGED <<next_id, creating>>

\* What rename accepts in the place it moves to: nothing, an empty directory for
\* a directory, a file or symbolic link for one.
Replaceable(child, replaced) ==
    \/ replaced = 0
    \/ IsDir(child) /\ IsDir(replaced) /\ inodes[replaced].entries = NoEntries
    \/ ~IsDir(child) /\ ~IsDir(replaced)

\* Mutant: the parent of a directory that moves is not updated.
MovedOnly(from, fn, to, tn) ==
    [inodes EXCEPT ![from].entries[fn] = 0, ![from].change = next_change,
                   ![to].entries[tn] = Lookup(from, fn), ![to].change = next_change]

\* The entries, change ids and parent after a rename.  Both directories are
\* touched, from_dir first; one directory is touched once.
Moved(from, fn, to, tn) ==
    LET child == Lookup(from, fn)
        moved == [[inodes EXCEPT ![from].entries[fn] = 0, ![from].change = next_change]
                    EXCEPT ![to].entries[tn] = child,
                           ![to].change = IF from = to THEN next_change ELSE next_change + 1]
    IN IF IsDir(child) /\ from # to THEN [moved EXCEPT ![child].parent = to] ELSE moved

Rename(from, fn, to, tn) ==
    LET child == Lookup(from, fn)
        replaced == Lookup(to, tn)
        moved == Moved(from, fn, to, tn) IN
    /\ child # 0 /\ IsDir(to)
    /\ IsDir(child) => child \notin Ancestors(to)
    /\ replaced # child
    /\ Replaceable(child, replaced)
    /\ inodes' = RecomputeLinkCounts(IF replaced = 0 THEN moved
                                     ELSE RemoveIfUnlinked(moved, replaced))
    /\ Spend(IF from = to THEN 1 ELSE 2)
    /\ UNCHANGED <<next_id, creating>>

-----------------------------------------------------------------------------
(* Contents and attributes.                                                 *)

\* checked_write_range: the end of what is written counts.
Write(i, offset, length) ==
    /\ IsFile(i)
    /\ offset + length <= MaxBytes
    /\ inodes' = Touched([inodes EXCEPT ![i].size = IF offset + length > @ THEN offset + length
                                                   ELSE @], i)
    /\ Spend(1)
    /\ UNCHANGED <<next_id, creating>>

\* setattr with a size, and with anything else.
SetSize(i, size) ==
    /\ IsFile(i) /\ size <= MaxBytes
    /\ inodes' = Touched([inodes EXCEPT ![i].size = size], i)
    /\ Spend(1)
    /\ UNCHANGED <<next_id, creating>>

SetMode(i) ==
    /\ Live(i)
    /\ inodes' = Touched(inodes, i)
    /\ Spend(1)
    /\ UNCHANGED <<next_id, creating>>

\* set_xattr and remove_xattr.  mode is "create", "replace" or "either".
SetXattr(i, x, mode) ==
    /\ Live(i)
    /\ mode = "create" => x \notin inodes[i].xattrs
    /\ mode = "replace" => x \in inodes[i].xattrs
    /\ inodes' = Touched([inodes EXCEPT ![i].xattrs = @ \cup {x}], i)
    /\ Spend(1)
    /\ UNCHANGED <<next_id, creating>>

RemoveXattr(i, x) ==
    /\ Live(i) /\ x \in inodes[i].xattrs
    /\ inodes' = Touched([inodes EXCEPT ![i].xattrs = @ \ {x}], i)
    /\ Spend(1)
    /\ UNCHANGED <<next_id, creating>>

Names ==
    \/ \E i, p \in Id, n \in Name : Link(i, p, n)
    \/ \E p \in Id, n \in Name : Remove(p, n)
    \/ \E from, to \in Id, fn, tn \in Name : Rename(from, fn, to, tn)

Contents ==
    \E i \in Id :
      \/ \E offset, length \in Sizes : Write(i, offset, length)
      \/ \E size \in Sizes : SetSize(i, size)
      \/ SetMode(i)
      \/ \E x \in XattrName : \/ RemoveXattr(i, x)
                              \/ \E mode \in {"create", "replace", "either"} : SetXattr(i, x, mode)

Next ==
    \/ TakeId
    \/ \E id, p \in Id, n \in Name, attrs \in {"none", "mode", "size"} :
         \/ \E kind \in Kind : Create(id, p, n, kind, attrs)
         \/ CreateSymlink(id, p, n, attrs)
    \/ Names
    \/ Contents

Spec == Init /\ [][Next]_vars

-----------------------------------------------------------------------------
(* Properties.                                                              *)

\* No name dangles: what lookup or readdir returns is an inode that getattr finds,
\* whatever was removed, replaced or linked before.
NamesResolve == \A d \in Id, n \in Name : Lookup(d, n) # 0 => Live(Lookup(d, n))

\* The directories form a tree: a directory has one name, parent returns the
\* directory that holds it, and the root has none.
DirectoriesHaveOneName ==
    /\ \A n \in Name, d \in Id : Lookup(d, n) # Root
    /\ \A d \in Id, n \in Name :
         IsDir(Lookup(d, n)) =>
           /\ Parent(Lookup(d, n)) = d
           /\ \A m \in Name : Lookup(d, m) = Lookup(d, n) => m = n

\* What can be reached by lookup from the root: the least set that holds the root
\* and what the entries of its directories name.
Reachable ==
    {i \in Id : \A S \in SUBSET Id :
                  /\ Root \in S
                  /\ \A d \in S, n \in Name : Lookup(d, n) # 0 => Lookup(d, n) \in S
                  => i \in S}

\* Nothing is lost and no directory is its own ancestor: every inode is reached
\* from the root, whatever renames moved and replaced.
NothingIsLost == \A i \in Id : Live(i) => i \in Reachable

\* link_count is the number of names of a file or symbolic link, and for a
\* directory 2 and its subdirectories.
LinkCountsAreNames ==
    \A i \in Id : Live(i) =>
      inodes[i].link_count =
        IF IsDir(i) THEN 2 + Cardinality({n \in Name : IsDir(Lookup(i, n))})
        ELSE Cardinality({e \in Id \X Name : Lookup(e[1], e[2]) = i})

\* The change id tells contents apart: a call that changes a directory's entries,
\* a file's size or an inode's extended attributes changes its change id.
ChangesAreVisible ==
    [][\A i \in Id :
         inodes[i] # NoInode /\ inodes'[i] # NoInode
         /\ (\/ inodes'[i].entries # inodes[i].entries
             \/ inodes'[i].size # inodes[i].size
             \/ inodes'[i].xattrs # inodes[i].xattrs)
           => inodes'[i].change # inodes[i].change]_vars
=============================================================================
