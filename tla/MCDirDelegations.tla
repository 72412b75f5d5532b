-------------------------- MODULE MCDirDelegations --------------------------
(* Instances of DirDelegations for TLC.                                     *)
EXTENDS DirDelegations, TLC

CONSTANTS d1, d2

OneDir == {<<d1>>}
Renames == {<<d1, d2>>}
Symmetry == Permutations(Client) \cup Permutations(Task)
=============================================================================
