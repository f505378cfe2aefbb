----------------------------- MODULE BrokerStep -----------------------------
(***************************************************************************)
(* One step of a thread driven through the broker: executeBrokerStep in    *)
(* packages/cli/src/commands/broker-step.ts, broker.send in                *)
(* packages/broker/src/send/send.ts and the session store under it.        *)
(*                                                                         *)
(* Several uwf processes may run steps of ONE thread (a worker does not    *)
(* check for another runner, poke and resume leave no marker).  They share *)
(* the session store (rows), two variables of the thread (activeStep,      *)
(* turnHead), its head, and the Sumeru server, which forgets its sessions  *)
(* when it restarts.  Each action ends at a point where another process    *)
(* may run: a database call, an await on the network.                      *)
(*                                                                         *)
(* Hosts and gateways are one value of Gateway.  Texts are reduced to what *)
(* the next step of the code asks about them: an output fits the role's    *)
(* schema, yields, or fits nothing, as an empty one does.                  *)
(***************************************************************************)
EXTENDS Naturals, Sequences, FiniteSets

CONSTANTS
    Proc,         \* uwf processes
    NoProc,       \* no process
    Role,         \* roles of the workflow
    Gateway,      \* agents a role may be routed to
    NoRow,        \* no row of the session store
    Commands,     \* the commands issued: some of "exec", "resume", "poke"
    Wordless,     \* turns of calls alone, whose text is empty
    MaxRetries,   \* MAX_FRONTMATTER_RETRIES, 2 in the code
    MaxStarts,    \* bound: steps ever begun
    MaxSessions,  \* bound: sessions ever created
    MaxTurns,     \* bound: turns of one exchange
    MaxRestarts,  \* bound: restarts of the server
    MaxKills      \* bound: processes killed

ASSUME BoundsAssumption ==
    /\ {MaxStarts, MaxSessions, MaxTurns} \subseteq Nat \ {0}
    /\ {MaxRestarts, MaxKills, MaxRetries} \subseteq Nat
    /\ NoProc \notin Proc
    /\ Gateway # {} /\ Role # {}
    /\ Commands \subseteq {"exec", "resume", "poke"}

ASSUME WordlessAssumption == Wordless \subseteq [owner : Nat \ {0}, nth : Nat \ {0}]

ASSUME NoRowAssumption == NoRow \notin [gateway : Gateway, sid : Nat]

VARIABLES
    rows,        \* the broker's database: role -> [gateway, sid]
    activeStep,  \* @uwf/active-step/<thread>: a step start, 0 when absent
    turnHead,    \* @uwf/active-turn-head/<thread>: the chain it heads, oldest first
    starts,      \* step starts written so far
    nodes,       \* step nodes written so far
    head,        \* the thread's head: a step node, 0 for the StartNode
    marker,      \* the process whose running marker isThreadRunning accepts
    sessions,    \* sessions the server ever made: their gateways
    live,        \* the sessions it still knows
    pc, loc,     \* control and local state of each process
    restarts, kills,
    heard,       \* history: session -> steps whose first prompt it accepted
    mixed        \* history: steps during which another process ran a step

stored == <<rows, activeStep, turnHead, starts, nodes, head, marker>>
server == <<sessions, live>>
history == <<heard, mixed>>
faults == <<restarts, kills>>
vars == <<stored, server, pc, loc, history, faults>>

SessionIds == 1..MaxSessions

(***************************************************************************)
(* Local state.  `chain' is the prevTurnHash of makeOnTurn with the chain  *)
(* behind it, `turns' its turnCount, `now' the turns of this exchange.     *)
(***************************************************************************)
Blank == [cmd |-> "none", route |-> CHOOSE g \in Gateway : TRUE,
          role |-> CHOOSE r \in Role : TRUE, prev |-> 0, start |-> 0,
          chain |-> <<>>, turns |-> 0, now |-> 0, retry |-> 0,
          gateway |-> CHOOSE g \in Gateway : TRUE, sid |-> 0, cached |-> FALSE,
          kind |-> "none"]

(* The nodes from the first step to a head (collectOrderedSteps), and how   *)
(* many they are.                                                           *)
Ordered(h) ==
    LET walk[n \in 0..Len(nodes)] == IF n = 0 THEN <<>> ELSE Append(walk[nodes[n].prev], n)
    IN  walk[h]

StepIndex(h) == Len(Ordered(h))

(* What a process keeps from one step to the next, and from the last answer *)
(* of a step to its node.                                                  *)
Between(l) == [Blank EXCEPT !.cmd = l.cmd, !.route = l.route]
Answered(l, kind) == [l EXCEPT !.kind = kind, !.chain = <<>>, !.now = 0, !.retry = 0,
                               !.sid = 0, !.cached = FALSE, !.gateway = l.route]

(* Processes that have begun a step and not yet ended it. *)
InStep(p) == pc[p] \notin {"idle", "between", "mark", "leave"}

Init ==
    /\ rows = [r \in Role |-> NoRow]
    /\ activeStep = 0 /\ turnHead = <<>> /\ head = 0
    /\ starts = <<>> /\ nodes = <<>> /\ marker = NoProc
    /\ sessions = <<>> /\ live = {}
    /\ pc = [p \in Proc |-> "idle"]
    /\ loc = [p \in Proc |-> Blank]
    /\ restarts = 0 /\ kills = 0
    /\ heard = [s \in SessionIds |-> {}]
    /\ mixed = {}

Goto(p, l) == pc' = [pc EXCEPT ![p] = l]

-----------------------------------------------------------------------------
(* Commands around the step.  A worker of `thread exec --background' marks  *)
(* the thread without looking; poke and resume look and leave no marker.    *)
Launch(p, cmd, g) ==
    /\ pc[p] = "idle"
    /\ Len(starts) < MaxStarts
    /\ cmd # "exec" => marker = NoProc
    /\ cmd = "poke" => head # 0
    /\ marker' = IF cmd = "exec" THEN p ELSE marker
    /\ loc' = [loc EXCEPT ![p] = [Blank EXCEPT !.cmd = cmd, !.route = g]]
    /\ Goto(p, "between")
    /\ UNCHANGED <<rows, activeStep, turnHead, starts, nodes, head, server, history, faults>>

(* The head is read, and the prompt assembled from the chain behind it.  A  *)
(* poke takes the head's role and its prev: the new node replaces the head. *)
ReadHead(p, r) ==
    /\ pc[p] = "between"
    /\ Len(starts) < MaxStarts
    /\ loc[p].cmd = "poke" => r = nodes[head].role
    /\ loc' = [loc EXCEPT ![p].role = r,
                          ![p].prev = IF loc[p].cmd = "poke" THEN nodes[head].prev ELSE head]
    /\ Goto(p, "mark")
    /\ UNCHANGED <<stored, server, history, faults>>

(* writeStepStart, setActiveStep. *)
MarkActive(p) ==
    LET s == Len(starts) + 1
        others == {q \in Proc \ {p} : InStep(q)}
    IN  /\ pc[p] = "mark"
        /\ Len(starts) < MaxStarts
        /\ starts' = Append(starts, [role |-> loc[p].role, stepIndex |-> StepIndex(loc[p].prev)])
        /\ activeStep' = s
        /\ loc' = [loc EXCEPT ![p].start = s, ![p].retry = 0, ![p].turns = 0, ![p].kind = "none"]
        /\ mixed' = IF others = {} THEN mixed
                    ELSE mixed \cup {s} \cup {loc[q].start : q \in others}
        /\ Goto(p, "turnhead")
        /\ UNCHANGED <<rows, turnHead, nodes, head, marker, server, heard, faults>>

\* Mutant: every step begins a chain of its own.
ReadTurnHeadAnew(p) ==
    /\ pc[p] = "turnhead"
    /\ Goto(p, "get")
    /\ UNCHANGED <<stored, server, loc, history, faults>>

(* makeOnTurn reads the chain's head once, before the first prompt. *)
ReadTurnHead(p) ==
    /\ pc[p] = "turnhead"
    /\ loc' = [loc EXCEPT ![p].chain = turnHead]
    /\ Goto(p, "get")
    /\ UNCHANGED <<stored, server, history, faults>>

-----------------------------------------------------------------------------
\* Mutant: the store is not asked, each prompt gets a session.
GetSessionAfresh(p) ==
    /\ pc[p] = "get"
    /\ loc' = [loc EXCEPT ![p].cached = FALSE, ![p].gateway = loc[p].route]
    /\ Goto(p, "create")
    /\ UNCHANGED <<stored, server, history, faults>>

(* broker.send: the row decides where the prompt goes, the route only when *)
(* there is no row.                                                        *)
GetSession(p) ==
    LET row == rows[loc[p].role]
    IN  /\ pc[p] = "get"
        /\ IF row = NoRow
           THEN /\ loc' = [loc EXCEPT ![p].cached = FALSE, ![p].gateway = loc[p].route]
                /\ Goto(p, "create")
           ELSE /\ loc' = [loc EXCEPT ![p].cached = TRUE, ![p].gateway = row.gateway,
                                      ![p].sid = row.sid]
                /\ Goto(p, "post")
        /\ UNCHANGED <<stored, server, history, faults>>

\* Mutant: the prompt is sent before the session is stored.
CreateSessionUnstored(p) ==
    /\ pc[p] = "create"
    /\ Len(sessions) < MaxSessions
    /\ sessions' = Append(sessions, loc[p].gateway)
    /\ live' = live \cup {Len(sessions')}
    /\ loc' = [loc EXCEPT ![p].sid = Len(sessions'), ![p].cached = FALSE]
    /\ Goto(p, "post")
    /\ UNCHANGED <<stored, history, faults>>

CreateSession(p) ==
    /\ pc[p] = "create"
    /\ Len(sessions) < MaxSessions
    /\ sessions' = Append(sessions, loc[p].gateway)
    /\ live' = live \cup {Len(sessions')}
    /\ loc' = [loc EXCEPT ![p].sid = Len(sessions'), ![p].cached = FALSE]
    /\ Goto(p, "upsert")
    /\ UNCHANGED <<stored, history, faults>>

(* upsertSession: the row is written before the first message is sent. *)
UpsertSession(p) ==
    /\ pc[p] = "upsert"
    /\ rows' = [rows EXCEPT ![loc[p].role] = [gateway |-> loc[p].gateway, sid |-> loc[p].sid]]
    /\ Goto(p, "post")
    /\ UNCHANGED <<activeStep, turnHead, starts, nodes, head, marker, server, loc, history, faults>>

(* The server accepts the prompt and begins to stream. *)
Accepted(p) ==
    LET s == loc[p].start
    IN  /\ pc[p] = "post"
        /\ loc[p].sid \in live
        /\ heard' = [heard EXCEPT ![loc[p].sid] = IF loc[p].retry = 0 THEN @ \cup {s} ELSE @]
        /\ loc' = [loc EXCEPT ![p].now = 0]
        /\ Goto(p, "stream")
        /\ UNCHANGED <<stored, server, mixed, faults>>

(* 404 session_not_found on a session taken from the store: a new session   *)
(* on the gateway of the row, and the same prompt once more.                *)
Fallback(p) ==
    /\ pc[p] = "post"
    /\ loc[p].sid \notin live
    /\ loc[p].cached
    /\ Goto(p, "create")
    /\ UNCHANGED <<stored, server, loc, history, faults>>

\* Mutant: the head is set to the turn before the one just written.
OnTurnLate(p) ==
    LET chain == Append(loc[p].chain, [owner |-> loc[p].start, nth |-> loc[p].turns + 1])
    IN  /\ pc[p] = "stream"
        /\ loc[p].now < MaxTurns
        /\ turnHead' = loc[p].chain
        /\ loc' = [loc EXCEPT ![p].chain = chain, ![p].turns = @ + 1, ![p].now = @ + 1]
        /\ UNCHANGED <<rows, activeStep, starts, nodes, head, marker, server, pc, history, faults>>

(* onTurn: a node linked to the process's own previous turn, then the head. *)
OnTurn(p) ==
    LET chain == Append(loc[p].chain, [owner |-> loc[p].start, nth |-> loc[p].turns + 1])
    IN  /\ pc[p] = "stream"
        /\ loc[p].now < MaxTurns
        /\ turnHead' = chain
        /\ loc' = [loc EXCEPT ![p].chain = chain, ![p].turns = @ + 1, ![p].now = @ + 1]
        /\ UNCHANGED <<rows, activeStep, starts, nodes, head, marker, server, pc, history, faults>>

(* A completed exchange has at least one turn (the client throws otherwise) *)
(* and its last turn is the output that tryExtract judges.                  *)
Completed(p, kind) ==
    /\ pc[p] = "stream"
    /\ loc[p].now > 0
    /\ kind = "bad" \/ [owner |-> loc[p].start, nth |-> loc[p].turns] \notin Wordless
    /\ IF kind = "bad" /\ loc[p].retry < MaxRetries
       THEN /\ loc' = [loc EXCEPT ![p].retry = @ + 1]
            /\ Goto(p, "get")
       ELSE /\ loc' = [loc EXCEPT ![p] = Answered(@, IF kind = "bad" THEN "error" ELSE kind)]
            /\ Goto(p, "clear")
    /\ UNCHANGED <<stored, server, history, faults>>

(* The server's timeout: a suspend event ends the step, never a correction. *)
Suspended(p) ==
    /\ pc[p] = "stream"
    /\ loc' = [loc EXCEPT ![p] = Answered(@, "suspend")]
    /\ Goto(p, "clear")
    /\ UNCHANGED <<stored, server, history, faults>>

-----------------------------------------------------------------------------
\* Mutant: the active step is left as it is.
ClearActiveForgotten(p) ==
    /\ pc[p] = "clear"
    /\ Goto(p, "node")
    /\ UNCHANGED <<stored, server, loc, history, faults>>

(* storeBrokerDetail or the detail of writeSuspendedStep, clearActiveStep. *)
ClearActive(p) ==
    /\ pc[p] = "clear"
    /\ activeStep' = 0
    /\ Goto(p, "node")
    /\ UNCHANGED <<rows, turnHead, starts, nodes, head, marker, server, loc, history, faults>>

(* writeBrokerStepNode.  The agent it names is the route, not the session. *)
WriteNode(p) ==
    /\ pc[p] = "node"
    /\ nodes' = Append(nodes, [start |-> loc[p].start, prev |-> loc[p].prev,
                               role |-> loc[p].role, kind |-> loc[p].kind,
                               turnCount |-> loc[p].turns, agent |-> loc[p].route])
    /\ Goto(p, "commit")
    /\ UNCHANGED <<rows, activeStep, turnHead, starts, head, marker, server, loc, history, faults>>

(* The CLI advances the head, unless the node is an error's.  The loop of   *)
(* exec goes on only after a step that neither failed nor yielded.          *)
Commit(p) ==
    LET mine == {i \in 1..Len(nodes) : nodes[i].start = loc[p].start}
    IN  /\ pc[p] = "commit"
        /\ head' = IF loc[p].kind = "error" THEN head ELSE CHOOSE i \in mine : TRUE
        /\ loc' = [loc EXCEPT ![p] = Between(@)]
        /\ Goto(p, IF loc[p].cmd = "exec" /\ loc[p].kind = "ok" THEN "between" ELSE "leave")
        /\ UNCHANGED <<rows, activeStep, turnHead, starts, nodes, marker, server, history, faults>>

(* The end of a command, also when the thread turns out to be at its end:   *)
(* `deleteMarker' in the finally of exec.                                   *)
Leave(p) ==
    /\ pc[p] \in {"leave", "between"} \/ (pc[p] = "mark" /\ Len(starts) = MaxStarts)
    /\ marker' = IF loc[p].cmd = "exec" THEN NoProc ELSE marker
    /\ loc' = [loc EXCEPT ![p] = Blank]
    /\ Goto(p, "idle")
    /\ UNCHANGED <<rows, activeStep, turnHead, starts, nodes, head, server, history, faults>>

(* Anything that throws: the server refuses a session, a fresh session is   *)
(* not found, an error event, a stream without an end.  The active step     *)
(* stays as it is.                                                          *)
Throw(p) ==
    /\ \/ pc[p] = "create"
       \/ pc[p] = "post" /\ loc[p].sid \notin live /\ ~loc[p].cached
       \/ pc[p] = "stream"
    /\ loc' = [loc EXCEPT ![p] = Between(@)]
    /\ Goto(p, "leave")
    /\ UNCHANGED <<stored, server, history, faults>>

(* The process is killed; its marker is no longer accepted. *)
Kill(p) ==
    /\ pc[p] # "idle"
    /\ kills < MaxKills
    /\ kills' = kills + 1
    /\ marker' = IF marker = p THEN NoProc ELSE marker
    /\ loc' = [loc EXCEPT ![p] = Blank]
    /\ Goto(p, "idle")
    /\ UNCHANGED <<rows, activeStep, turnHead, starts, nodes, head, server, history, restarts>>

(* The Sumeru server restarts and knows no session any more. *)
Restart ==
    /\ restarts < MaxRestarts
    /\ live # {}
    /\ restarts' = restarts + 1
    /\ live' = {}
    /\ UNCHANGED <<stored, sessions, pc, loc, history, kills>>

-----------------------------------------------------------------------------
Send(p) ==
    \/ GetSession(p) \/ CreateSession(p) \/ UpsertSession(p)
    \/ Accepted(p) \/ Fallback(p) \/ OnTurn(p)

ExecuteStep(p) ==
    \/ \E r \in Role : ReadHead(p, r)
    \/ MarkActive(p) \/ ReadTurnHead(p)
    \/ \E k \in {"ok", "suspend", "bad"} : Completed(p, k)
    \/ Suspended(p) \/ ClearActive(p) \/ WriteNode(p) \/ Commit(p)

Step(p) == Send(p) \/ ExecuteStep(p) \/ Throw(p) \/ Leave(p)

Next ==
    \/ \E p \in Proc :
        \/ \E cmd \in Commands, g \in Gateway : Launch(p, cmd, g)
        \/ Step(p)
        \/ Kill(p)
    \/ Restart

Spec == Init /\ [][Next]_vars

-----------------------------------------------------------------------------
TurnCount(chain, s) == Cardinality({j \in 1..Len(chain) : chain[j].owner = s})

(* The active-step variable never names a step that has its node already:   *)
(* a reader that finds the variable may say the step is in flight.          *)
InFlightUnfinished ==
    \A i \in 1..Len(nodes) : nodes[i].start # activeStep

(* The turn count kept in a step's detail is the number of turns a reader   *)
(* finds for it in the thread's chain, also after later steps, kills and    *)
(* restarts, as long as no other process ran a step at the same time.       *)
DetailCountsTurns ==
    \A i \in 1..Len(nodes) :
        nodes[i].start \notin mixed => nodes[i].turnCount = TurnCount(turnHead, nodes[i].start)

(* A correction is accepted only by the session that heard the step's       *)
(* first prompt, or when the server has lost that session.                  *)
CorrectionInContext ==
    \A p \in Proc :
        (pc[p] = "stream" /\ loc[p].retry > 0 /\ loc[p].start \notin mixed)
            => \/ loc[p].start \in heard[loc[p].sid]
               \/ \A s \in live : loc[p].start \notin heard[s]

(* Write before stream: a conversation that the server still remembers is   *)
(* the one the store knows, on the gateway it was made on, whatever was     *)
(* killed in between.  Two sends at once break it: the second upsert wins.  *)
StoreKnowsSession ==
    /\ \A r \in Role : rows[r] # NoRow => rows[r].gateway = sessions[rows[r].sid]
    /\ mixed = {} =>
        \A s \in live, i \in 1..Len(starts) :
            i \in heard[s] => /\ rows[starts[i].role] # NoRow
                              /\ rows[starts[i].role].sid = s
=============================================================================
