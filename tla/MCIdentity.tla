---------------------------- MODULE MCIdentity -----------------------------
(* Values for TLC: which founder and which request is which does not matter. *)
EXTENDS Identity, TLC

Symmetry == Permutations(Founder) \cup Permutations(Request)

=============================================================================
