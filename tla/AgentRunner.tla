---------------------------- MODULE AgentRunner ----------------------------
(***************************************************************************)
(* One run of an agent program: packages/util-agent/src/run.ts around the  *)
(* tool loop of packages/agent-builtin/src/loop.ts.  The agent is asked,   *)
(* works in turns within a budget, and hands in a text; when that has no   *)
(* valid frontmatter it is asked to correct itself, without tools; then    *)
(* the step is stored, the list of failed attempts of the role is brought  *)
(* up to date, and the step is reported on the standard output.            *)
(*                                                                         *)
(* A text is                                                               *)
(*   "good"     it starts with frontmatter that fits the role              *)
(*   "suspend"  its frontmatter has $status $SUSPEND                       *)
(*   "bad"      it starts with frontmatter that does not fit               *)
(*   "buried"   prose, then good frontmatter on a line of its own          *)
(*   "prose"    no frontmatter, as the output of an earlier step           *)
(*   ""         nothing, or blanks                                         *)
(* Only one program runs for a thread at a time; it may be killed anywhere *)
(* (an exception of the model or a tool ends it just so).                  *)
(***************************************************************************)
EXTENDS BrokerPrompt

CONSTANTS
    Roles,         \* the roles of the workflow
    MaxTurns,      \* BUILTIN_MAX_TURNS
    ContinueTurns, \* BUILTIN_CONTINUE_MAX_TURNS
    MaxNudges,     \* MAX_NUDGES
    DeadlineTurns, \* DEADLINE_WARNING_TURNS
    MaxRetries     \* MAX_FRONTMATTER_RETRIES

ASSUME LoopAssumption ==
    /\ {MaxTurns, ContinueTurns, MaxNudges, DeadlineTurns} \subseteq Nat \ {0}
    /\ MaxRetries \in Nat
    /\ DeadlineTurns <= MaxTurns

Texts == {"good", "suspend", "bad", "buried", "prose", ""}
Fenced == {"good", "suspend", "bad"}

VARIABLES
    failed, \* @uwf/thread-failed/<thread>/<role>: the failed steps of a role
    steps,  \* the stored steps: [role, prev, ok, previous, own]
    agent   \* the program, or Asleep

agentVars == <<failed, steps, agent>>

Asleep == [pc |-> "asleep"]
NothingSaid == [text |-> "", own |-> FALSE]

\* Mutant: what the role said before is shown with its frontmatter.
SaidInFull == [text |-> "good", own |-> FALSE]

(* An earlier output among the messages is JSON. *)
SaidBefore == [text |-> "prose", own |-> FALSE]

AgentInit ==
    /\ failed = [r \in Roles |-> <<>>]
    /\ steps = <<>>
    /\ agent = Asleep

-----------------------------------------------------------------------------
(* The steps of a thread, the newest last, from its head. *)
Chain(head) ==
    LET walk[n \in 0..Len(steps)] ==
            IF n = 0 THEN <<>> ELSE Append(walk[steps[n].prev], n)
    IN  walk[head]

(* Every time a role has its turn: its place in the thread, a new one last. *)
TurnsOf(roles, role) == Visits(roles, role) \cup {Len(roles) + 1}

\* Mutant: a summary starts with the visit before, which it repeats.
SummaryRepeating(roles, role, t) == Max({1} \cup {v \in Visits(roles, role) : v < t})..(t - 1)

(* buildStepsSummary: the steps since the visit before. *)
Summary(roles, role, t) == (Max({0} \cup {v \in Visits(roles, role) : v < t}) + 1)..(t - 1)

(* buildBuiltinMessages: for every turn of the role what happened since its *)
(* last, and then, if it is an earlier one, what the role said.  A message  *)
(* is named by its author and the place of the turn; these are the steps    *)
(* that each tells of.                                                      *)
Messages(roles, role) ==
    [m \in ({"user"} \X TurnsOf(roles, role)) \cup ({"assistant"} \X Visits(roles, role)) |->
        IF m[1] = "user" THEN Summary(roles, role, m[2]) ELSE {m[2]}]

-----------------------------------------------------------------------------
(* Each loop starts with its budget and a tool set; `last' is the last text *)
(* with anything in it.                                                     *)
Looping(a, budget, noTools) ==
    [a EXCEPT !.pc = "loop", !.turn = 0, !.budget = budget, !.noTools = noTools,
              !.nudges = 0, !.asked = 0, !.warned = 0]

(* createAgent up to options.run: the context, with what the role said      *)
(* before among the messages.                                               *)
Begin(role, head) ==
    /\ agent = Asleep
    /\ LET chain == Chain(head)
           visited == \E i \in DOMAIN chain : steps[chain[i]].role = role IN
       agent' = Looping([pc |-> "", role |-> role, head |-> head, turn |-> 0, budget |-> 0,
                         noTools |-> FALSE, nudges |-> 0, asked |-> 0, warned |-> 0,
                         last |-> IF visited THEN SaidBefore ELSE NothingSaid,
                         text |-> NothingSaid, retries |-> 0, step |-> 0],
                        MaxTurns, FALSE)
    /\ UNCHANGED <<failed, steps>>

(* shouldInjectDeadlineWarning: once, when few turns remain.  `warned'      *)
(* counts the requests since, the next one included.                        *)
Warning(a) ==
    /\ ~a.noTools /\ a.warned = 0
    /\ a.budget - a.turn <= DeadlineTurns

ShouldNudge(a, text) == ~a.noTools /\ text \notin Fenced /\ a.turn < a.budget - 1

\* Mutant: no nudge takes a turn of the budget.
NudgesAreFree(a) == TRUE

NudgeIsFree(a) == a.nudges < MaxNudges

(* One request to the model in processLoopIteration, with its warning. *)
Request(a) ==
    [a EXCEPT !.asked = @ + 1,
              !.warned = IF Warning(a) \/ a.warned > 0 THEN @ + 1 ELSE 0]

Heard(a, text) == IF text = "" THEN a.last ELSE [text |-> text, own |-> TRUE]

(* handleToolCallTurn: the model says something and calls tools, all of     *)
(* which are run and answered.                                              *)
Tools ==
    /\ agent.pc = "loop" /\ agent.turn < agent.budget /\ ~agent.noTools
    /\ \E text \in Texts :
        agent' = [Request(agent) EXCEPT !.turn = @ + 1, !.last = Heard(agent, text)]
    /\ UNCHANGED <<failed, steps>>

(* handleTextOnlyTurn that asks for more. *)
Nudge ==
    /\ agent.pc = "loop" /\ agent.turn < agent.budget
    /\ \E text \in Texts :
        /\ ShouldNudge(agent, text)
        /\ agent' = [Request(agent) EXCEPT
                        !.turn = IF NudgeIsFree(agent) THEN @ ELSE @ + 1,
                        !.nudges = @ + 1, !.last = Heard(agent, text)]
    /\ UNCHANGED <<failed, steps>>

(* stripPreamble *)
Stripped(said) == IF said.text = "buried" THEN [said EXCEPT !.text = "good"] ELSE said

(* handleTextOnlyTurn that ends the loop; a text of nothing is replaced by  *)
(* the last one that has something (extractFinalText).                      *)
HandIn ==
    /\ agent.pc = "loop" /\ agent.turn < agent.budget
    /\ \E text \in Texts :
        /\ ~ShouldNudge(agent, text)
        /\ agent' = [Request(agent) EXCEPT !.pc = "extract", !.last = Heard(agent, text),
                                           !.text = Stripped(Heard(agent, text))]
    /\ UNCHANGED <<failed, steps>>

(* The budget is used up. *)
CutOff ==
    /\ agent.pc = "loop" /\ agent.turn = agent.budget
    /\ agent' = [agent EXCEPT !.pc = "extract", !.text = Stripped(agent.last)]
    /\ UNCHANGED <<failed, steps>>

-----------------------------------------------------------------------------
(* trySuspendFastPath and tryFrontmatterFastPath: any role may suspend. *)
Suspends(text) == text = "suspend"
FitsRole(text) == text = "good"

(* tryExtractOutput *)
Valid(text) == Suspends(text) \/ FitsRole(text)

(* retryFrontmatterExtraction: the agent's own session goes on. *)
Correct ==
    /\ agent.pc = "extract" /\ ~Valid(agent.text.text) /\ agent.retries < MaxRetries
    /\ agent' = [Looping(agent, ContinueTurns, TRUE) EXCEPT !.retries = @ + 1]
    /\ UNCHANGED <<failed, steps>>

Stored(ok, previous) ==
    Append(steps, [role |-> agent.role, prev |-> agent.head, ok |-> ok,
                   previous |-> previous, own |-> ok /\ agent.text.own])

(* handleExtractionFailure up to persistStep. *)
StoreFailure ==
    /\ agent.pc = "extract" /\ ~Valid(agent.text.text) /\ agent.retries = MaxRetries
    /\ steps' = Stored(FALSE, <<>>)
    /\ agent' = [agent EXCEPT !.pc = "append", !.step = Len(steps')]
    /\ UNCHANGED failed

(* appendFailedAttempt *)
AppendFailure ==
    /\ agent.pc = "append"
    /\ failed' = [failed EXCEPT ![agent.role] = Append(@, agent.step)]
    /\ agent' = [agent EXCEPT !.pc = "report"]
    /\ UNCHANGED steps

\* Mutant: the failed attempts are forgotten before the step holds them.
StoreSuccessClearing ==
    /\ agent.pc = "extract" /\ Valid(agent.text.text)
    /\ failed' = [failed EXCEPT ![agent.role] = <<>>]
    /\ steps' = Stored(TRUE, <<>>)
    /\ agent' = [agent EXCEPT !.pc = "report", !.step = Len(steps')]

(* The failed attempts are read and the step stored with them. *)
StoreSuccess ==
    /\ agent.pc = "extract" /\ Valid(agent.text.text)
    /\ steps' = Stored(TRUE, failed[agent.role])
    /\ agent' = [agent EXCEPT !.step = Len(steps'),
                              !.pc = IF failed[agent.role] = <<>> THEN "report" ELSE "clear"]
    /\ UNCHANGED failed

(* clearFailedAttempts *)
ClearFailures ==
    /\ agent.pc = "clear"
    /\ failed' = [failed EXCEPT ![agent.role] = <<>>]
    /\ agent' = [agent EXCEPT !.pc = "report"]
    /\ UNCHANGED steps

AgentStep ==
    \/ Tools \/ Nudge \/ HandIn \/ CutOff
    \/ Correct \/ StoreFailure \/ AppendFailure \/ StoreSuccess \/ ClearFailures

(* The program ends without a report. *)
Die ==
    /\ agent # Asleep
    /\ agent' = Asleep
    /\ UNCHANGED <<failed, steps>>
=============================================================================
