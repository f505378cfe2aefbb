------------------------------ MODULE UwfHome ------------------------------
(***************************************************************************)
(* A home directory that older versions left behind, and the commands that *)
(* work in it one after the other: each opens the store (StoreOpening),    *)
(* and may then have an agent take a step for the thread (AgentRunner),    *)
(* store what it reported, or archive the thread.  Every command and every *)
(* agent may be killed anywhere.                                           *)
(***************************************************************************)
EXTENDS StoreOpening, AgentRunner, SequencesExt

CONSTANTS
    TheThread, \* the thread the commands work on
    Legacies,  \* what the sources may hold at first
    MaxSteps   \* bound: steps stored in all

(* A home is of the right shape; the variables of the last source are all  *)
(* understood.                                                             *)
ASSUME HomeAssumption ==
    /\ TheThread \in Ids
    /\ Absent \notin Seq(Records) \cup Entries
    /\ \A legacy \in Legacies :
        /\ legacy \in [1..LastSource -> Seq(Records) \cup {Absent}]
        /\ legacy[LastSource] # Absent =>
            \A i \in DOMAIN legacy[LastSource] : Understood(legacy[LastSource][i])

VARIABLES
    report,   \* the step the agent printed and nobody has read, or 0
    writing,  \* the entry setThread is about to set, or Absent
    archiving, \* completeThread has the lists of failed attempts to clear
    \* what happened, for the properties:
    legacy,   \* the sources at first
    written,  \* the last entry a command wrote, or Absent
    torn,     \* a command was killed inside setThread
    reported, \* the steps that were printed
    dismissed \* the steps in the lists of the threads that were archived

ghosts == <<legacy, written, torn, reported, dismissed>>
vars == <<openVars, agentVars, report, writing, archiving, ghosts>>

Init ==
    /\ legacy \in Legacies
    /\ OpenInit(legacy)
    /\ AgentInit
    /\ report = 0 /\ writing = Absent /\ archiving = FALSE
    /\ written = Absent /\ torn = FALSE /\ reported = {} /\ dismissed = {}

Opening ==
    /\ OpenStep
    /\ UNCHANGED <<agentVars, report, writing, archiving, ghosts>>

Free == Opened /\ agent = Asleep /\ report = 0 /\ writing = Absent /\ ~archiving

(* An agent program is started for a role. *)
Exec(role) ==
    /\ Free /\ threads[TheThread] # Absent
    /\ Len(steps) < MaxSteps
    /\ Begin(role, threads[TheThread].head)
    /\ UNCHANGED <<openVars, report, writing, archiving, ghosts>>

Working ==
    /\ agent # Asleep
    /\ AgentStep
    /\ UNCHANGED <<openVars, report, writing, archiving, ghosts>>

(* The last line of createAgent. *)
Report ==
    /\ agent.pc = "report"
    /\ agent' = Asleep
    /\ report' = agent.step
    /\ reported' = reported \cup {agent.step}
    /\ UNCHANGED <<openVars, failed, steps, writing, archiving, legacy, written, torn, dismissed>>

(* The report of a step is stored as the new head; a failure is not.        *)
Take ==
    /\ report # 0
    /\ report' = 0
    /\ IF steps[report].ok
       THEN /\ threads' = [threads EXCEPT ![TheThread] = Absent]
            /\ writing' = [head |-> report, status |-> "idle"]
       ELSE UNCHANGED <<threads, writing>>
    /\ UNCHANGED <<sources, registry, opening, agentVars, archiving, ghosts>>

(* completeThread reads the entry and writes it with its new status. *)
Archive(status) ==
    /\ Free /\ threads[TheThread] # Absent /\ threads[TheThread].status \notin {"end", "cancelled"}
    /\ threads' = [threads EXCEPT ![TheThread] = Absent]
    /\ writing' = [threads[TheThread] EXCEPT !.status = status]
    /\ archiving' = TRUE
    /\ UNCHANGED <<sources, registry, opening, agentVars, report, ghosts>>

(* The second half of setThread. *)
Write ==
    /\ writing # Absent
    /\ threads' = [threads EXCEPT ![TheThread] = writing]
    /\ written' = writing
    /\ writing' = Absent
    /\ UNCHANGED <<sources, registry, opening, agentVars, report, archiving,
                   legacy, torn, reported, dismissed>>

(* clearThreadFailedAttempts, one variable at a time. *)
ClearOf(role) ==
    /\ archiving /\ writing = Absent /\ failed[role] # <<>>
    /\ failed' = [failed EXCEPT ![role] = <<>>]
    /\ dismissed' = dismissed \cup {failed[role][i] : i \in DOMAIN failed[role]}
    /\ UNCHANGED <<openVars, steps, agent, report, writing, archiving,
                   legacy, written, torn, reported>>

Archived ==
    /\ archiving /\ writing = Absent /\ \A role \in Roles : failed[role] = <<>>
    /\ archiving' = FALSE
    /\ UNCHANGED <<openVars, agentVars, report, writing, ghosts>>

AgentDies ==
    /\ Die
    /\ UNCHANGED <<openVars, report, writing, archiving, ghosts>>

(* The command ends or is killed, and its agent with it. *)
Exit ==
    /\ Close
    /\ agent' = Asleep /\ report' = 0 /\ writing' = Absent /\ archiving' = FALSE
    /\ torn' = (torn \/ writing # Absent)
    /\ UNCHANGED <<failed, steps, legacy, written, reported, dismissed>>

Next ==
    \/ Opening \/ Working \/ Report \/ Take \/ Write \/ Archived \/ AgentDies \/ Exit
    \/ \E role \in Roles : Exec(role) \/ ClearOf(role)
    \/ \E status \in {"end", "cancelled"} : Archive(status)

Spec == Init /\ [][Next]_vars

-----------------------------------------------------------------------------
(* buildStepEntry and sumStepEntryUsage: the runs that the usage of a step  *)
(* counts, its own and those of the failed attempts it tells of.            *)
StepUsage(n) ==
    LET runs[k \in DOMAIN steps] ==
            <<k>> \o FlattenSeq([i \in DOMAIN steps[k].previous |-> runs[steps[k].previous[i]]])
    IN  runs[n]

(* aggregateThreadUsage: over the steps that cmdStepList lists. *)
ThreadUsage(head) ==
    LET chain == Chain(head)
    IN  FlattenSeq([i \in DOMAIN chain |-> StepUsage(chain[i])])

-----------------------------------------------------------------------------
(* A thread that an older version knew is in a variable, or still in a      *)
(* source the next command will read, however often opening is cut short;   *)
(* only a command that is inside its own setThread, or was killed there,    *)
(* has it nowhere.  And whoever finds the store open finds every thread as  *)
(* the last source that names it tells, or as a command has written it      *)
(* since: what was carried over once does not come back.                    *)
InGap(id) == id = TheThread /\ (torn \/ writing # Absent)

AsTold(id) ==
    IF InGap(id) THEN threads[id] = Absent
    ELSE IF id = TheThread /\ written # Absent THEN threads[id] = written
    ELSE Tells(legacy, id, threads[id])

CarriedOverOnce ==
    \A id \in Ids :
        /\ (\E s \in 2..LastSource : Named(legacy[s], id)) /\ threads[id] = Absent =>
            InGap(id) \/ \E s \in 2..LastSource : Named(sources[s], id)
        /\ Opened => AsTold(id)

(* A failed attempt that was reported is in the list of its role or in a    *)
(* later step of that role, unless the thread was archived; and the usage   *)
(* of the thread counts no run twice.                                       *)
Tell(list, f) == \E i \in DOMAIN list : list[i] = f

AttemptsTold ==
    \A f \in reported : ~steps[f].ok =>
        \/ Tell(failed[steps[f].role], f)
        \/ \E n \in DOMAIN steps : steps[n].role = steps[f].role /\ Tell(steps[n].previous, f)
        \/ f \in dismissed

LineageWhole ==
    /\ AttemptsTold
    /\ written # Absent => IsInjective(ThreadUsage(written.head))

(* A loop makes no more requests than its budget and the free nudges, and   *)
(* an agent is not cut off unless it was warned with DeadlineTurns requests *)
(* to go.                                                                   *)
BudgetKept ==
    agent # Asleep =>
        /\ agent.asked <= agent.budget + MaxNudges
        /\ agent.pc = "loop" /\ agent.turn = agent.budget => agent.warned >= DeadlineTurns

(* The output of a step is what the agent said in this run: when it fell    *)
(* silent an earlier text may stand in, but never that of an earlier step.  *)
OwnWords == \A n \in DOMAIN steps : steps[n].ok => steps[n].own

(* The messages that the builtin agent starts with tell of every step of     *)
(* the thread exactly once.  The prompts that the broker sends to a role's  *)
(* session, one for each of its turns, tell together of every step of the   *)
(* others exactly once, but for those that the first has no room for; each  *)
(* stands under its number in the thread, unless steps before it were left  *)
(* out, and never under a later one than the step that is to be taken.      *)
ToldOnce ==
    agent # Asleep =>
        LET chain == Chain(agent.head)
            roles == [i \in DOMAIN chain |-> steps[chain[i]].role]
            messages == Messages(roles, agent.role)
            turns == TurnsOf(roles, agent.role)
            first == Min(turns)
        IN  \A i \in DOMAIN chain :
                /\ Cardinality({m \in DOMAIN messages : i \in messages[m]}) = 1
                /\ \A room \in 1..(Len(roles) + 1) :
                    LET prompt(t) == AssembleBrokerPrompt(SubSeq(roles, 1, t - 1), agent.role, room)
                        telling == {t \in turns : \E s \in prompt(t).steps : s.step = i}
                        leftOut == roles[i] = agent.role \/ i + room < first
                    IN  /\ Cardinality(telling) = (IF leftOut THEN 0 ELSE 1)
                        /\ \A t \in telling : \A s \in prompt(t).steps :
                            /\ s.number < prompt(t).progress.thisStep
                            /\ (t # first \/ room >= t - 1) => s.number = s.step
=============================================================================
