-------------------------- MODULE MCWorkflowEditor --------------------------
(* A chain with one named status, and a review loop; roles may be given     *)
(* names that a file uses for something else.                              *)
EXTENDS WorkflowEditor, TLC

MCNodeIds == <<"n1", "n2", "n3">>

MCIndices == <<"1">>

MCFiles == {
    [first |-> "plan", graph |-> [plan |-> ("_" :> "work"), work |-> ("done" :> "$END")]],
    [first |-> "plan", graph |-> [plan |-> ("_" :> "work"),
                                  work |-> ("done" :> "$END") @@ ("_" :> "plan")]]}
=============================================================================
