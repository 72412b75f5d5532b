------------------------------ MODULE MCLeases ------------------------------
(* Instances of Leases for TLC.                                             *)
EXTENDS Leases, TLC

CONSTANTS o1, o2

\* o1 speaks NFSv4.1, o2 NFSv4.0.
Mixed == o1 :> {1} @@ o2 :> {0}
OldOnly == o1 :> {0}

Symmetry == Permutations(Verifier)
=============================================================================
