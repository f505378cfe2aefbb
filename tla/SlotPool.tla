------------------------------ MODULE SlotPool ------------------------------
(***************************************************************************)
(* What the concurrency limit of `uwf thread exec` promises, without how:  *)
(* a pool of at most MaxRunning places.  A process takes a place only when *)
(* one is free, and gives it back when it finishes or dies.                *)
(*                                                                         *)
(* ConcurrencySlots shows that the slot files of                           *)
(* packages/cli/src/concurrency implement this pool; ThreadLifecycle uses  *)
(* the pool as the slot step of an exec.                                   *)
(***************************************************************************)
EXTENDS Naturals, FiniteSets

CONSTANTS
    Proc,       \* the operating-system processes that may run an exec
    MaxRunning  \* the largest number of places

VARIABLE holders  \* the live processes that hold a place

InitPool == holders = {}

\* acquireSlot returns: the caller joins the holders, and the pool is not
\* overfull.
Acquire(p) ==
    /\ p \notin holders
    /\ Cardinality(holders) < MaxRunning
    /\ holders' = holders \cup {p}

\* SlotHandle.release(), the signal handler, or the death of the holder.
Release(p) ==
    /\ p \in holders
    /\ holders' = holders \ {p}

NextPool == \E p \in Proc : Acquire(p) \/ Release(p)

SpecPool == InitPool /\ [][NextPool]_holders
=============================================================================
