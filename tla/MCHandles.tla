----------------------------- MODULE MCHandles -----------------------------
(* Handles for TLC.  h1 and h2 are two backend objects; the encodings are    *)
(* given per run.                                                            *)
EXTENDS Handles, TLC
CONSTANTS h1, h2, b1, b2

NoEncoding == <<>>
Injective == h1 :> b1 @@ h2 :> b2
Colliding == h1 :> b1 @@ h2 :> b1
OneDurable == h1 :> b1

Symmetry == Permutations(Task) \cup Permutations(Retirer)
=============================================================================
