---------------------------- MODULE SumeruStream ----------------------------
(***************************************************************************)
(* sendMessage of packages/broker/src/sumeru-client/sumeru-client.ts: one  *)
(* prompt, answered by a stream of server-sent events that may stall or be *)
(* cut, and is resumed at most once with Last-Event-ID.                    *)
(*                                                                         *)
(* The stream reaches the client as bytes.  A read brings the rest of a    *)
(* frame (ReadEvent) or the first part of one (ReadPart); frames that come *)
(* in one chunk are taken one after the other, which nothing can tell from *)
(* one chunk for each.  Heartbeats only hold the watchdog back and are     *)
(* left out: it may fire whenever a read is pending.                       *)
(***************************************************************************)
EXTENDS Naturals, Sequences

CONSTANT MaxLog  \* bound: events of one exchange

ASSUME MaxLogAssumption == MaxLog \in Nat

VARIABLES
    log,       \* the server's buffer: the event with id i is log[i]
    pc,        \* "post", "read", "drained", "resume", "ended"
    attempt,   \* 1, or 2 after the reconnect
    next,      \* the event this connection sends next
    part,      \* the parser holds the first part of that event's frame
    lastSeen,  \* lastSeenId, 0 when no event was seen
    turns,     \* state.assistantTurns and the calls of onAssistantTurn: event ids
    fin,       \* what ended the stream: "none", "done", "suspend", "error"
    result     \* the outcome of the call

vars == <<log, pc, attempt, next, part, lastSeen, turns, fin, result>>

(* The broker tells one failure from the others: the session is unknown. *)
Delivery == INSTANCE TurnDelivery
                WITH result <- IF result = "not_found" THEN "failed" ELSE result

(* An event can be read wrongly: its data is no JSON, or lacks its fields. *)
Terminal == {"done", "suspend", "error"}
Kinds == {"assistant", "other", "garbled"} \cup Terminal

(* handleEvent: what an event says about the end of the stream.  Unknown    *)
(* events, turns of other roles and foreign envelopes say nothing.          *)
Says(kind) ==
    IF kind \in Terminal THEN kind ELSE IF kind = "garbled" THEN "error" ELSE "none"

Init ==
    /\ log = <<>> /\ turns = <<>> /\ result = "pending"
    /\ pc = "post" /\ attempt = 1 /\ next = 1 /\ part = FALSE
    /\ lastSeen = 0 /\ fin = "none"

-----------------------------------------------------------------------------
(* The server keeps every event of an exchange and sends, after a resume,   *)
(* those with an id above the one it is given.  What it emits once the call *)
(* is over is left out, and so is a prompt that it did not take.            *)
Emit(kind) ==
    /\ pc \notin {"post", "ended"}
    /\ Len(log) < MaxLog
    /\ ~Delivery!Ended(log)
    /\ log' = Append(log, kind)
    /\ UNCHANGED <<pc, attempt, next, part, lastSeen, turns, fin, result>>

(* The first request: a stream, or a refusal that the call throws at once,  *)
(* as SumeruSessionNotFoundError for a 404 session_not_found.               *)
Post(reply) ==
    /\ pc = "post"
    /\ pc' = IF reply = "stream" THEN "read" ELSE "ended"
    /\ result' = CASE reply = "stream" -> result
                   [] reply = "session_not_found" -> "not_found"
                   [] OTHER -> "failed"
    /\ UNCHANGED <<log, attempt, next, part, lastSeen, turns, fin>>

(* applyOutcome: the listener is called as the event is read. *)
Apply(i) ==
    /\ turns' = IF log[i] = "assistant" THEN Append(turns, i) ELSE turns
    /\ fin' = Says(log[i])

\* Mutant: the id of an event that ends nothing is not kept.
ReadEventUnseen ==
    /\ pc = "read"
    /\ fin = "none"
    /\ next <= Len(log)
    /\ lastSeen' = IF log[next] \in Terminal THEN next ELSE lastSeen
    /\ Apply(next)
    /\ next' = next + 1
    /\ part' = FALSE
    /\ UNCHANGED <<log, pc, attempt, result>>

(* A frame is complete: its id is kept, then the event is applied. *)
ReadEvent ==
    /\ pc = "read"
    /\ fin = "none"
    /\ next <= Len(log)
    /\ lastSeen' = next
    /\ Apply(next)
    /\ next' = next + 1
    /\ part' = FALSE
    /\ UNCHANGED <<log, pc, attempt, result>>

ReadPart ==
    /\ pc = "read"
    /\ fin = "none"
    /\ next <= Len(log)
    /\ part' = TRUE
    /\ UNCHANGED <<log, pc, attempt, next, lastSeen, turns, fin, result>>

(* finalizeOutcome: an error, then a suspension, then the lack of `done',   *)
(* then the lack of any turn.                                               *)
Finalize(f, t) ==
    IF f = "error" THEN "failed"
    ELSE IF f = "suspend" THEN "suspended"
    ELSE IF f = "none" \/ t = <<>> THEN "failed"
    ELSE "completed"

(* The connection ends, or a read is rejected, which the reader takes for   *)
(* the same.  What the parser holds is drained: it lacks its data, or is    *)
(* whole but for the blank line, or is cut in the middle of its JSON.       *)
Close(rest) ==
    /\ pc = "read"
    /\ fin = "none"
    /\ rest # "nothing" => part
    /\ CASE rest = "whole" -> Apply(next)
         [] rest = "broken" -> fin' = "error" /\ UNCHANGED turns
         [] OTHER -> UNCHANGED <<turns, fin>>
    /\ pc' = "drained"
    /\ UNCHANGED <<log, attempt, next, part, lastSeen, result>>

(* Reading has stopped, at the stream's end or at an end event. *)
Return ==
    /\ pc = "drained" \/ (pc = "read" /\ fin # "none")
    /\ pc' = "ended"
    /\ result' = Finalize(fin, turns)
    /\ UNCHANGED <<log, attempt, next, part, lastSeen, turns, fin>>

\* Mutant: a reconnect after every timeout.
WatchdogPatient ==
    /\ pc = "read"
    /\ fin = "none"
    /\ part' = FALSE
    /\ pc' = "resume"
    /\ UNCHANGED <<log, attempt, next, lastSeen, turns, fin, result>>

(* No event for sseHeartbeatTimeoutMs.  The reader and its parser are gone; *)
(* the first time a new stream is asked for, the second time the call ends  *)
(* with what it has.                                                        *)
Watchdog ==
    /\ pc = "read"
    /\ fin = "none"
    /\ part' = FALSE
    /\ IF attempt = 1
       THEN pc' = "resume" /\ UNCHANGED result
       ELSE pc' = "ended" /\ result' = Finalize(fin, turns)
    /\ UNCHANGED <<log, attempt, next, lastSeen, turns, fin>>

\* Mutant: a reconnect that is refused is thrown like a first request.
ResumeThrowing(ok) ==
    /\ pc = "resume"
    /\ attempt' = 2
    /\ IF ok THEN pc' = "read" /\ next' = lastSeen + 1 /\ UNCHANGED result
             ELSE pc' = "ended" /\ result' = "not_found" /\ UNCHANGED next
    /\ UNCHANGED <<log, part, lastSeen, turns, fin>>

(* The reconnect with Last-Event-ID: a stream, or anything else. *)
Resume(ok) ==
    /\ pc = "resume"
    /\ attempt' = 2
    /\ IF ok THEN pc' = "read" /\ next' = lastSeen + 1 /\ UNCHANGED result
             ELSE pc' = "ended" /\ result' = Finalize(fin, turns) /\ UNCHANGED next
    /\ UNCHANGED <<log, part, lastSeen, turns, fin>>

-----------------------------------------------------------------------------
Client ==
    \/ \E reply \in {"stream", "session_not_found", "refused"} : Post(reply)
    \/ \E ok \in BOOLEAN : Resume(ok)
    \/ ReadEvent \/ ReadPart \/ Return \/ Watchdog
    \/ \E rest \in {"nothing", "whole", "broken"} : Close(rest)

Next == Client \/ \E kind \in Kinds : Emit(kind)

Spec == Init /\ [][Next]_vars

(* A reconnect is answered, and the timers of the client run.  Neither the    *)
(* server nor the network has to do anything else.                          *)
FairSpec ==
    /\ Spec
    /\ WF_vars(\E ok \in BOOLEAN : Resume(ok))
    /\ WF_vars(Return) /\ WF_vars(Watchdog)

-----------------------------------------------------------------------------
(* The broker sends the same prompt again to a fresh session when, and only *)
(* when, the first one is unknown: then no agent has begun to act on it.    *)
NotFoundMeansUnheard == result = "not_found" => log = <<>> /\ turns = <<>>

(* The client, with its cuts, stalls and its reconnect, delivers what       *)
(* TurnDelivery promises: no turn twice, none out of order, none missing    *)
(* from an answer that counts as completed or suspended.                    *)
DeliverySpec == Delivery!Spec

(* A server that falls silent does not hold the caller: the call returns.   *)
SendReturns == pc = "read" ~> pc = "ended"
=============================================================================
