----------------------------- MODULE MCCompound -----------------------------
(* The model of module Compound that TLC checks. *)
EXTENDS Compound, TLC

Symmetry == Permutations(Name)

\* What the properties can tell apart: the tree without sizes, link counts and
\* change ids, and without the difference of files and symbolic links.
Seen == <<[i \in Fs!Id |-> IF Fs!Live(i)
                           THEN <<Fs!IsDir(i), inodes[i].parent, inodes[i].entries, inodes[i].xattrs>>
                           ELSE <<>>],
          next_id, creating, session, req>>
=============================================================================
