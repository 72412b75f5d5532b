------------------------------ MODULE MCMemFs ------------------------------
(* Instances of MemFs for TLC.                                              *)
EXTENDS MemFs, TLC

Symmetry == Permutations(Name)
\* The names and link counts; calls that change contents or change ids decide
\* nothing about them.  The root's attributes are kept so that one can be removed.
Tree == <<[i \in Id |-> IF inodes[i] = NoInode THEN NoInode
                        ELSE [type |-> inodes[i].type, parent |-> inodes[i].parent,
                              entries |-> inodes[i].entries, links |-> inodes[i].link_count]],
          inodes[Root].xattrs, next_id, creating>>
=============================================================================
