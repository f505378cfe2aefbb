------------------------- MODULE MCThreadLifecycle -------------------------
(***************************************************************************)
(* ThreadLifecycle for TLC.  Processes are interchangeable, so the runs    *)
(* that check no liveness take them up to permutation.                     *)
(***************************************************************************)
EXTENDS ThreadLifecycle, TLC

Symmetry == Permutations(Proc)
=============================================================================
