----------------------------- MODULE MCListings -----------------------------
(* The model of module Listings that TLC checks. *)
EXTENDS Listings, TLC

Symmetry == Permutations(Task)
=============================================================================
