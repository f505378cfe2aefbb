---------------------------- MODULE TurnDelivery ----------------------------
(***************************************************************************)
(* What an exchange with a Sumeru session promises to the broker           *)
(* (packages/broker/src/send/types.ts): the listener is told each turn of  *)
(* the agent once and in order; a completed answer means that the agent    *)
(* said so and that no turn is missing; a suspended one that the agent was *)
(* timed out.  A failure promises nothing more.                            *)
(***************************************************************************)
EXTENDS Naturals, Sequences

CONSTANT MaxLog  \* bound: events of one exchange

VARIABLES
    log,     \* what the agent's side has emitted: the event with id i is log[i]
    turns,   \* ids of the turns the listener was told
    result   \* "pending", "completed", "suspended", "failed"

vars == <<log, turns, result>>

(* An assistant turn, what does not end the stream, what a client may fail  *)
(* to read, and the ends.                                                   *)
Terminal == {"done", "suspend", "error"}
Kinds == {"assistant", "other", "garbled"} \cup Terminal

Told == {turns[k] : k \in 1..Len(turns)}
Ended(l) == l # <<>> /\ l[Len(l)] \in Terminal

(* No turn up to the event i has been left out. *)
ToldUpTo(i) == \A j \in 1..i : log[j] = "assistant" => j \in Told

Init == log = <<>> /\ turns = <<>> /\ result = "pending"

Emit(kind) ==
    /\ Len(log) < MaxLog
    /\ ~Ended(log)
    /\ log' = Append(log, kind)
    /\ UNCHANGED <<turns, result>>

Tell(i) ==
    /\ result = "pending"
    /\ log[i] = "assistant"
    /\ i \notin Told
    /\ ToldUpTo(i - 1)
    /\ turns' = Append(turns, i)
    /\ UNCHANGED <<log, result>>

Answer(r) ==
    /\ result = "pending"
    /\ r = "completed" => Ended(log) /\ log[Len(log)] = "done" /\ ToldUpTo(Len(log)) /\ turns # <<>>
    /\ r = "suspended" => Ended(log) /\ log[Len(log)] = "suspend" /\ ToldUpTo(Len(log))
    /\ result' = r
    /\ UNCHANGED <<log, turns>>

Next ==
    \/ \E kind \in Kinds : Emit(kind)
    \/ \E i \in 1..Len(log) : Tell(i)
    \/ \E r \in {"completed", "suspended", "failed"} : Answer(r)

Spec == Init /\ [][Next]_vars
=============================================================================
