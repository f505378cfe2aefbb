------------------------------ MODULE MCEvalRun ------------------------------
(* Two tasks: the manifest of one was edited between two runs, that of the  *)
(* other first named a judge without a script.                              *)
EXTENDS EvalRun, TLC

CONSTANTS p1, p2

J(name, weight, builtin) ==
    [name |-> name, weight |-> weight, builtin |-> builtin, entry |-> name = "script"]

MCManifests == {
    [name |-> "fix", maxSteps |-> 1, complete |-> TRUE,
     judges |-> <<J("script", 2, FALSE), J("token-stats", 0, TRUE)>>],
    [name |-> "fix", maxSteps |-> 1, complete |-> TRUE,
     judges |-> <<J("frontmatter-compliance", 1, TRUE)>>],
    [name |-> "add", maxSteps |-> 0, complete |-> TRUE,
     judges |-> <<J("hallucination", 1, TRUE)>>],
    [name |-> "add", maxSteps |-> 0, complete |-> TRUE, judges |-> <<J("lost", 1, FALSE)>>]}

Processes == Permutations({p1, p2})
=============================================================================
