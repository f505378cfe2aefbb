-------------------------- MODULE MCThreadListing --------------------------
(***************************************************************************)
(* ThreadListing for TLC, with the processes up to permutation.            *)
(***************************************************************************)
EXTENDS ThreadListing, TLC

Symmetry == Permutations(Proc)
=============================================================================
