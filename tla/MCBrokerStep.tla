---------------------------- MODULE MCBrokerStep ----------------------------
(* Two interchangeable processes; a second step that is corrected says      *)
(* nothing then.                                                            *)
EXTENDS BrokerStep, TLC

MCWordless == {[owner |-> 2, nth |-> 2]}

Symmetry == Permutations(Proc)
=============================================================================
