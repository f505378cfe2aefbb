---------------------------- MODULE HermesClient ----------------------------
(***************************************************************************)
(* legacy-packages/agent-hermes: the adapter that drives one role of one   *)
(* thread through `hermes acp', a child process which answers JSON-RPC     *)
(* requests on its standard streams.  acp-client.ts keeps the requests it  *)
(* waits for, each with a timer, and the pieces of text that stream in     *)
(* beside the answers; hermes.ts decides whether a session is resumed or   *)
(* begun anew, and what it is told.                                        *)
(*                                                                         *)
(* A step is an event of the adapter's event loop, what the awaiting code  *)
(* does with the answer before the next event, or a move of a child, which *)
(* may stall, stop, or outlive the patience of its client.                 *)
(***************************************************************************)
EXTENDS Integers, Sequences

CONSTANTS
    MaxRuns,    \* bound: invocations of the adapter, one after the other
    MaxPieces,  \* bound: pieces of text in answer to a prompt
    MaxRetries  \* corrections that run.ts asks for

ASSUME HermesAssumption == {MaxRuns, MaxPieces, MaxRetries} \subseteq Nat

VARIABLES
    pc,      \* "idle", the request that is waited for, "closing", "closed", "exited"
    resuming, \* UWF_HERMES_RESUME, of this invocation
    answer,  \* what came for it: "none", "ok", "error", "reject", "timeout"
    op,      \* the handshake under way, "connect" or "resume"
    attempt, \* [resumed, kind, next]: how the session was come by, what it is
             \* to be told, and what follows once the client is closed
    process, \* this.process: a child, 0 when there is none
    pending, \* this.pending: the identifiers of requests without an answer
    nextId,
    session, \* this.sessionId
    chunks,  \* this.messageChunks, each by the prompt it answers
    retries, \* corrections sent
    child,   \* the children of this invocation
    cache,   \* the session cached for the role, 0: none
    visited, \* whether a step of the role is on the thread
    runs,    \* invocations so far
    heard,   \* history: [first, lost] of each conversation: what it has heard
             \* first, "nothing" so far, and whether what it ought to have
             \* heard before was lost on the side of the children
    said,    \* history: how many pieces were sent in answer to each request
    text,    \* history: [id, pieces] of the last prompt that was answered
    stray    \* history: a child was left running by close

client == <<process, pending, nextId, session, chunks>>
world == <<cache, visited, runs>>
past == <<heard, said, text, stray>>
vars == <<pc, answer, resuming, op, attempt, client, retries, child, world, past>>

Plain == [resumed |-> FALSE, kind |-> "initial", next |-> "done"]
NoText == [id |-> 0, pieces |-> <<>>]
NewChild == [up |-> TRUE, code |-> 0, eof |-> FALSE, inbox |-> <<>>, out |-> <<>>,
             job |-> 0, asks |-> FALSE, gone |-> FALSE, talk |-> 0]

Init ==
    /\ pc = "idle" /\ answer = "none" /\ resuming = FALSE /\ op = "connect" /\ attempt = Plain
    /\ process = 0 /\ pending = {} /\ nextId = 1 /\ session = 0 /\ chunks = <<>>
    /\ retries = 0 /\ child = <<>> /\ cache = 0 /\ visited = FALSE /\ runs = 0
    /\ heard = <<>> /\ said = <<>> /\ text = NoText /\ stray = FALSE

-----------------------------------------------------------------------------
(* What a conversation has heard, or would have but for its child. *)
Knows(s) == heard[s].first # "nothing" \/ heard[s].lost

(* Nothing is left to do, and the process ends as soon as Node lets it. *)
Lingering == pc = "closed" /\ attempt.next = "done"

(* writeLine. *)
Written(children, c, line) == [children EXCEPT ![c].inbox = Append(@, line)]

(* sendRequest: a fresh identifier, an entry in pending, a timer. *)
SendRequest(children, c, method, s, kind) ==
    /\ pc' = method /\ answer' = "none"
    /\ pending' = pending \cup {nextId}
    /\ nextId' = nextId + 1
    /\ said' = Append(said, 0)
    /\ child' = Written(children, c, [id |-> nextId, method |-> method,
                                       session |-> s, says |-> kind])

(* ensureProcess and the first half of initialize. *)
Handshake(how) ==
    LET spawned == Append(child, NewChild)
    IN  /\ op' = how
        /\ process' = Len(spawned)
        /\ SendRequest(spawned, Len(spawned), "initialize", 0, "nothing")

\* Mutant: what streamed in for an earlier prompt is kept.
ClearChunksNot == UNCHANGED chunks

(* The first lines of prompt. *)
ClearChunks == chunks' = <<>>

Prompt(s, kind) ==
    /\ ClearChunks
    /\ session' = s
    /\ SendRequest(child, process, "session/prompt", s, kind)

(* close: the child's input ends. *)
Close(next) ==
    /\ pc' = "closing" /\ answer' = "none"
    /\ attempt' = [attempt EXCEPT !.next = next]
    /\ session' = 0
    /\ child' = [child EXCEPT ![process].eof = TRUE]
    /\ UNCHANGED <<process, pending, nextId, chunks, said>>

-----------------------------------------------------------------------------
(* The cached session, of which nothing is known unless resuming is on. *)
CachedSessionId(on) == IF on THEN cache ELSE 0

(* runHermes, prepareSession: is there a session to resume? *)
Begin ==
    /\ pc = "idle" /\ runs < MaxRuns
    /\ runs' = runs + 1
    /\ \E on \in BOOLEAN :
        /\ resuming' = on
        /\ Handshake(IF CachedSessionId(on) # 0 THEN "resume" ELSE "connect")
    /\ UNCHANGED <<attempt, session, chunks, retries, cache, visited, heard, text, stray>>

(* connect and resume, from one answer to the next request. *)
Initialized ==
    /\ pc = "initialize" /\ answer = "ok"
    /\ SendRequest(child, process, IF op = "resume" THEN "session/resume" ELSE "session/new",
                   cache, "nothing")
    /\ UNCHANGED <<resuming, op, attempt, process, session, chunks, retries, world,
                   heard, text, stray>>

\* Mutant: the second attempt says what the first one said.
FreshAttemptContinued == [attempt EXCEPT !.resumed = FALSE]

(* What a session is told that has heard nothing yet. *)
FreshAttempt == Plain

(* connect: the answer names the session that the child has made.           *)
Connected ==
    /\ pc = "session/new" /\ answer = "ok"
    /\ attempt' = FreshAttempt
    /\ Prompt(child[process].talk, attempt'.kind)
    /\ UNCHANGED <<resuming, op, process, retries, world, heard, text, stray>>

(* A resumed session is told what is new, or, when its step never made it   *)
(* to the thread, only the format of an answer.                             *)
ResumedAttempt ==
    [attempt EXCEPT !.resumed = TRUE,
                    !.kind = IF visited THEN "continuation" ELSE "correction"]

(* resume: whatever session the answer names, it is the cached one that is  *)
(* spoken to from here on.                                                  *)
ResumedSession ==
    /\ pc = "session/resume" /\ answer = "ok"
    /\ op' = "connect"
    /\ attempt' = ResumedAttempt
    /\ Prompt(cache, attempt'.kind)
    /\ UNCHANGED <<resuming, process, retries, world, heard, text, stray>>

(* runWithMessage and fail: the process exits and waits for no child.       *)
Exit ==
    /\ pc' = "exited" /\ answer' = "none"
    /\ UNCHANGED <<attempt, client, child, said>>

(* An exception: a resumed session is given up for a new one, everything    *)
(* else is the end.                                                         *)
Failure ==
    IF op = "resume" \/ (attempt.resumed /\ retries = 0) THEN Close("connect") ELSE Exit

Failed ==
    /\ \/ pc = "session/prompt" /\ answer \in {"error", "reject"}
       \/ pc \in {"initialize", "session/new", "session/resume"}
          /\ answer \in {"error", "reject", "timeout"}
    /\ Failure
    /\ UNCHANGED <<resuming, op, retries, world, heard, text, stray>>

(* runPrompt and continueHermes with an answer: the session's detail is     *)
(* stored, which fails when the session cannot be found, and the first      *)
(* prompt's session is cached.  A prompt that timed out counts as the wish  *)
(* to be suspended, whether or not a child has read it.  Then run.ts asks   *)
(* for a correction, or it is done, with a step that makes it to the thread *)
(* or does not.                                                             *)
Cached == IF resuming /\ retries = 0 THEN session ELSE cache
PromptResult == IF answer = "ok" THEN [id |-> nextId - 1, pieces |-> chunks] ELSE NoText
Answered ==
    /\ pc = "session/prompt" /\ answer \in {"ok", "timeout"}
    /\ text' = PromptResult
    /\ heard' = [heard EXCEPT ![session].lost = @ \/ (answer = "timeout" /\ ~Knows(session))]
    /\ \/ /\ Failure
          /\ UNCHANGED <<retries, cache, visited>>
       \/ /\ cache' = Cached
          /\ answer = "ok" /\ retries < MaxRetries
          /\ retries' = retries + 1
          /\ Prompt(session, "correction")
          /\ UNCHANGED <<attempt, process, visited>>
       \/ /\ cache' = Cached
          /\ visited' \in {visited, TRUE}
          /\ Close("done")
          /\ UNCHANGED retries
    /\ UNCHANGED <<resuming, op, runs, stray>>

(* After close: a second attempt, or the end of the process, which Node puts *)
(* off while a child is up: its pipes are still open.  What is left behind   *)
(* by an exit reads on at most what was written for its own conversation.    *)
Reopen ==
    /\ pc = "closed" /\ attempt.next = "connect"
    /\ attempt' = [attempt EXCEPT !.resumed = FALSE]
    /\ Handshake("connect")
    /\ UNCHANGED <<resuming, session, chunks, retries, world, heard, text, stray>>

End ==
    /\ \/ Lingering /\ \A c \in DOMAIN child : ~child[c].up
       \/ pc = "exited"
    /\ pc' = "idle" /\ answer' = "none" /\ resuming' = FALSE /\ op' = "connect" /\ attempt' = Plain
    /\ process' = 0 /\ pending' = {} /\ nextId' = 1 /\ session' = 0 /\ chunks' = <<>>
    /\ retries' = 0 /\ child' = <<>> /\ said' = <<>> /\ text' = NoText /\ stray' = FALSE
    /\ UNCHANGED <<world, heard>>

-----------------------------------------------------------------------------
Listening == answer = "none" /\ (pc \notin {"idle", "closed", "exited"} \/ Lingering)
Rest == UNCHANGED <<resuming, op, attempt, process, nextId, session, retries, world,
                    heard, said, text, stray>>

(* handleLine, for the next line of a child, even of one given up: an       *)
(* answer, a piece of text, or the request for a permission, which is       *)
(* granted to the child that is there now.                                  *)
Line(c) ==
    LET line == Head(child[c].out)
        rest == [child EXCEPT ![c].out = Tail(@)]
    IN  /\ Listening /\ child[c].out # <<>>
        /\ CASE line.what = "response" ->
                    /\ answer' = IF line.id \in pending THEN line.result ELSE "none"
                    /\ pending' = pending \ {line.id}
                    /\ child' = rest
                    /\ UNCHANGED <<pc, chunks>>
             [] line.what = "piece" ->
                    /\ chunks' = Append(chunks, line.id)
                    /\ child' = rest
                    /\ UNCHANGED <<pc, answer, pending>>
             [] OTHER ->
                    /\ child' = IF process = c THEN [rest EXCEPT ![c].asks = FALSE] ELSE rest
                    /\ pc' = IF child[process].eof THEN "exited" ELSE pc
                    /\ UNCHANGED <<answer, pending, chunks>>
        /\ Rest

(* The close event of a child, after its last line: rejectAll. *)
CloseEvent(c) ==
    /\ Listening
    /\ ~child[c].up /\ child[c].out = <<>> /\ ~child[c].gone
    /\ child' = [child EXCEPT ![c].gone = TRUE]
    /\ IF child[c].code # 0 /\ pending # {}
       THEN pending' = {} /\ answer' = "reject"
       ELSE UNCHANGED <<pending, answer>>
    /\ pc' = IF pc = "closing" /\ c = process THEN "closed" ELSE pc
    /\ UNCHANGED chunks /\ Rest

\* Mutant: only prompts have a timer.
TimerOfPrompts ==
    /\ Listening /\ pending # {} /\ pc = "session/prompt"
    /\ pending' = {} /\ answer' = "timeout"
    /\ UNCHANGED <<pc, chunks, child>> /\ Rest

(* The timer of the request that is waited for. *)
Timer ==
    /\ Listening /\ pending # {}
    /\ pending' = {} /\ answer' = "timeout"
    /\ UNCHANGED <<pc, chunks, child>> /\ Rest

(* The five seconds that close waits. *)
CloseTimer ==
    /\ Listening /\ pc = "closing"
    /\ pc' = "closed"
    /\ stray' = (stray \/ ~child[process].gone)
    /\ UNCHANGED <<answer, resuming, op, attempt, client, retries, child, world,
                   heard, said, text>>

(* A line written to a child that is down already, while its end is not yet *)
(* known here: nobody listens to the errors of that stream.                 *)
BrokenPipe ==
    /\ Listening
    /\ ~child[process].up /\ child[process].inbox # <<>> /\ ~child[process].gone
    /\ pc' = "exited"
    /\ UNCHANGED <<answer, pending, chunks, child>> /\ Rest

-----------------------------------------------------------------------------
(* The other side: `hermes acp'. *)
ChildRest == UNCHANGED <<pc, answer, resuming, op, attempt, client, retries, world, text, stray>>

(* A conversation hears a prompt. *)
Hears(s, kind) ==
    heard' = IF heard[s].first = "nothing" THEN [heard EXCEPT ![s].first = kind] ELSE heard

ReadsPrompt(c, line, rest) ==
    /\ line.method = "session/prompt"
    /\ child' = [rest EXCEPT ![c].job = line.id]
    /\ Hears(child[c].talk, line.says)

(* What a child talks in after a request that is no prompt: a conversation  *)
(* that it makes, or the one it is asked to resume.  session-cache.ts knows *)
(* that a resumption may as well end in a conversation without a past.      *)
Begins(lost) == heard' = Append(heard, [first |-> "nothing", lost |-> lost])
TalksIn(s, line, talk) ==
    CASE line.method = "session/new" -> s = Len(heard) + 1 /\ Begins(FALSE)
      [] line.method = "session/resume" ->
            \/ s = line.session /\ UNCHANGED heard
            \/ s = Len(heard) + 1 /\ Begins(TRUE)
      [] OTHER -> s = talk /\ UNCHANGED heard

Replies(c, line, rest) ==
    /\ line.method # "session/prompt"
    /\ \E r \in {"ok", "error"}, s \in 0..Len(heard) + 1 :
        /\ child' = [rest EXCEPT ![c].talk = s, ![c].out =
                        Append(@, [what |-> "response", id |-> line.id, result |-> r])]
        /\ TalksIn(s, line, child[c].talk)

ChildReads(c) ==
    /\ child[c].up /\ child[c].inbox # <<>> /\ child[c].job = 0
    /\ LET line == Head(child[c].inbox)
           rest == [child EXCEPT ![c].inbox = Tail(@)]
       IN  ReadsPrompt(c, line, rest) \/ Replies(c, line, rest)
    /\ UNCHANGED said /\ ChildRest

ChildSays(c) ==
    /\ child[c].job # 0 /\ ~child[c].asks
    /\ \/ /\ said[child[c].job] < MaxPieces
          /\ said' = [said EXCEPT ![child[c].job] = @ + 1]
          /\ child' = [child EXCEPT ![c].out = Append(@, [what |-> "piece", id |-> child[c].job])]
       \/ /\ \A i \in DOMAIN child[c].out : child[c].out[i].what # "ask"
          /\ child' = [child EXCEPT ![c].asks = TRUE, ![c].out = Append(@, [what |-> "ask"])]
          /\ UNCHANGED said
       \/ \E r \in {"ok", "error"} :
            /\ child' = [child EXCEPT ![c].job = 0, ![c].out =
                            Append(@, [what |-> "response", id |-> child[c].job, result |-> r])]
            /\ UNCHANGED said
    /\ UNCHANGED heard /\ ChildRest

ChildExits(c) ==
    /\ child[c].up
    /\ \E code \in {0, 1} :
        child' = [child EXCEPT ![c].up = FALSE, ![c].code = code, ![c].job = 0,
                               ![c].inbox = <<>>, ![c].asks = FALSE]
    /\ UNCHANGED <<heard, said>> /\ ChildRest

-----------------------------------------------------------------------------
Adapter ==
    \/ Begin \/ Initialized \/ Connected \/ ResumedSession \/ Answered \/ Failed
    \/ Reopen \/ End
    \/ Timer \/ CloseTimer \/ BrokenPipe
    \/ \E c \in DOMAIN child : Line(c) \/ CloseEvent(c)

Next ==
    \/ Adapter
    \/ \E c \in DOMAIN child : ChildReads(c) \/ ChildSays(c) \/ ChildExits(c)

(* Node runs the adapter and its timers; nothing is expected of a child.    *)
Spec ==
    /\ Init /\ [][Next]_vars
    /\ WF_vars(Initialized \/ Connected \/ ResumedSession \/ Answered \/ Failed \/ Reopen \/ End)
    /\ WF_vars(Timer) /\ WF_vars(CloseTimer)

-----------------------------------------------------------------------------
(* Whatever is late, lost or answered after its time is up: the text of an  *)
(* answer is what the child said in answer to that very prompt, all of it,  *)
(* in order, and a request is rejected only because its own child is down.  *)
(* It needs close to have been patient enough: a child that is left running *)
(* still writes into the lists of the client that gave it up.               *)
AnswersAreOwn ==
    ~stray =>
        /\ text.id # 0 => text.pieces = [i \in 1..said[text.id] |-> text.id]
        /\ answer = "reject" => ~child[process].up

(* Whatever a conversation hears first is the whole of its task: what is    *)
(* new since a last visit, or the form of an answer, is said only to one    *)
(* that knows the rest, also after resumptions that failed halfway, prompts *)
(* without an answer, steps that were never written and changes of          *)
(* UWF_HERMES_RESUME.  Two are excused, where the past is lost on the other *)
(* side: a conversation that Hermes began in place of the one to resume,    *)
(* and one whose task had timed out unread.                                 *)
FreshSessionsToldAll ==
    \A s \in DOMAIN heard : heard[s].lost \/ heard[s].first \in {"nothing", "initial"}

(* A child that stays up although close has ended its input. *)
Outlives == \E c \in DOMAIN child : child[c].eof /\ child[c].up

(* An invocation ends, though its children stall, stop or never read; only  *)
(* one that stays up for good after the end of its input can hold it, which *)
(* close neither kills nor lets go of.                                      *)
InvocationEnds == []<>~Outlives => (pc # "idle" ~> pc = "idle")
=============================================================================
