--------------------------- MODULE UwfHomeProofs ---------------------------
(***************************************************************************)
(* Whatever an older version left behind, and wherever commands and agents *)
(* are killed: every thread is carried over once (CarriedOverOnce), a      *)
(* reported failure can be found and no run is counted twice               *)
(* (LineageWhole), an agent is told of every step once (ToldOnce), keeps   *)
(* to its budget (BudgetKept) and reports its own words (OwnWords).        *)
(*                                                                         *)
(* The argument for the first: what a source still holds is the end of     *)
(* what it held, sources are given up in their order, and a record is only *)
(* given up when its thread has been set from it.  So a thread that none   *)
(* of the records still to be read names is as the last one told; that     *)
(* remains true when the command is killed, because the next one reads     *)
(* more records than were left, not fewer.                                 *)
(*                                                                         *)
(* For the runs of a thread: a failed step is in one list only.  It gets   *)
(* into the list of its role before it is reported; when a step takes the  *)
(* list over, the list is cleared before that step is reported, and only a *)
(* reported step becomes part of a thread (LineageInv).                    *)
(***************************************************************************)
EXTENDS UwfHome, SequenceTheorems, FiniteSetTheorems, WellFoundedInduction, TLAPS

Sources == 2..LastSource

(* tail is what is left of whole when some records at its front are gone. *)
Ending(tail, whole) ==
    /\ Len(tail) <= Len(whole)
    /\ \A i \in 1..Len(tail) : tail[i] = whole[Len(whole) - Len(tail) + i]

OpeningTyped ==
    /\ legacy \in Legacies
    /\ sources \in [1..LastSource -> Seq(Records) \cup {Absent}]
    /\ threads \in [Ids -> Entries \cup {Absent}]
    /\ opening \in [at : 0..LastSource + 1, todo : Seq(Records), phase : {"next", "removed", "set"}]
    /\ {writing, written} \subseteq Entries \cup {Absent}
    /\ report \in Nat

\* What is left of the sources that hold threads.
Left ==
    /\ \A s \in Sources : sources[s] # Absent =>
        /\ legacy[s] # Absent
        /\ IF s = LastSource THEN Ending(sources[s], legacy[s]) ELSE sources[s] = legacy[s]
    /\ \A s, u \in Sources : u < s /\ sources[u] # Absent => sources[s] = legacy[s]
    /\ \A s \in Sources : s < opening.at => sources[s] = Absent

\* The records in work.
Todo ==
    /\ opening.at \in Sources /\ opening.todo # <<>> =>
        /\ sources[opening.at] # Absent
        /\ IF opening.at = LastSource THEN opening.todo = sources[opening.at]
           ELSE Ending(opening.todo, sources[opening.at])
    /\ Opened \/ opening.at = 0 => opening.todo = <<>>
    /\ opening.phase # "next" =>
        /\ opening.at \in Sources /\ opening.todo # <<>> /\ Understood(Current)
        /\ opening.phase = "set" =>
            opening.at = LastSource /\ threads[Current.id] = EntryOf(LastSource, Current)

(* Some record that opening the store will still read names the thread. *)
Remaining(id) ==
    IF opening.at < 2 THEN \E s \in Sources : Named(sources[s], id)
    ELSE \/ Named(opening.todo, id)
         \/ \E s \in Sources : s > opening.at /\ Named(sources[s], id)

Carried == \A id \in Ids : ~Remaining(id) => AsTold(id)

\* A command does its own work in a store that is open.
Worked ==
    /\ written # Absent \/ torn => \A s \in Sources : sources[s] = Absent
    /\ agent # Asleep \/ report # 0 \/ writing # Absent \/ archiving => Opened /\ ~torn
    /\ agent # Asleep => report = 0 /\ writing = Absent /\ ~archiving
    /\ report # 0 => writing = Absent /\ ~archiving

HomeInv == OpeningTyped /\ Left /\ Todo /\ Carried /\ Worked

-----------------------------------------------------------------------------
\* "" is the place of a program that is put together and has no loop yet.
Phases == {"", "loop", "extract", "append", "clear", "report"}
Said == [text : Texts, own : BOOLEAN]

(* A text that is not the agent's own fits nothing. *)
Idle(said) == said.own \/ said.text \in {"prose", ""}

Program ==
    [pc : Phases, role : Roles, head : Nat, turn : Nat, budget : Nat, noTools : BOOLEAN,
     nudges : Nat, asked : Nat, warned : Nat, last : Said, text : Said, retries : Nat, step : Nat]

(* The first loop has tools and MaxTurns, one for a correction neither. *)
Budget(a) ==
    /\ a.budget = IF a.noTools THEN ContinueTurns ELSE MaxTurns
    /\ a.turn <= a.budget
    /\ a.noTools => a.turn = 0

(* Every request takes a turn or one of the free nudges; when there are     *)
(* DeadlineTurns to go, the next one has the warning.                       *)
Asked(a) ==
    IF a.pc = "loop"
    THEN /\ a.asked = a.turn + (IF a.nudges < MaxNudges THEN a.nudges ELSE MaxNudges)
         /\ ~a.noTools => a.warned + a.budget >= a.turn + DeadlineTurns
    ELSE a.asked <= a.budget + MaxNudges

AgentTyped == agent = Asleep \/ agent \in Program

Fit(a) == Budget(a) /\ Asked(a) /\ Idle(a.last) /\ Idle(a.text)

Running == agent # Asleep => Fit(agent)

Step == [role : Roles, prev : Nat, ok : BOOLEAN, previous : Seq(Nat), own : BOOLEAN]

StepsTyped == steps \in Seq(Step) /\ failed \in [Roles -> Seq(Nat)] /\ report \in Nat

(* What a failed attempt can be found in. *)
Found(f) ==
    \/ Tell(failed[steps[f].role], f)
    \/ \E n \in DOMAIN steps : steps[n].role = steps[f].role /\ Tell(steps[n].previous, f)
    \/ f \in dismissed

\* The step that the agent is about to report.
Reporting ==
    /\ agent # Asleep /\ agent.pc \in {"append", "clear", "report"} =>
        agent.step \in DOMAIN steps /\ steps[agent.step].role = agent.role
    /\ agent # Asleep /\ agent.pc = "clear" =>
        steps[agent.step].ok /\ steps[agent.step].previous = failed[agent.role]
    /\ agent # Asleep /\ agent.pc = "report" /\ ~steps[agent.step].ok => Found(agent.step)

Attempts == reported \subseteq DOMAIN steps /\ AttemptsTold

AgentInv == StepsTyped /\ AgentTyped /\ Running /\ OwnWords /\ Reporting /\ Attempts

-----------------------------------------------------------------------------
(* What a loop starts with. *)
LEMMA LoopStarts ==
    ASSUME NEW a \in Program, NEW budget \in Nat, NEW noTools \in BOOLEAN
    PROVE  /\ Looping(a, budget, noTools) \in Program
           /\ Looping(a, budget, noTools).pc = "loop"
           /\ Looping(a, budget, noTools).turn = 0
           /\ Looping(a, budget, noTools).budget = budget
           /\ Looping(a, budget, noTools).noTools = noTools
           /\ Looping(a, budget, noTools).nudges = 0
           /\ Looping(a, budget, noTools).asked = 0
           /\ Looping(a, budget, noTools).warned = 0
           /\ Looping(a, budget, noTools).last = a.last
           /\ Looping(a, budget, noTools).text = a.text
           /\ Looping(a, budget, noTools).retries = a.retries
  BY DEF Looping, Program, Phases

(* What a request changes. *)
LEMMA RequestCounts ==
    ASSUME NEW a \in Program
    PROVE  /\ Request(a) \in Program
           /\ Request(a).asked = a.asked + 1
           /\ Request(a).warned = IF Warning(a) \/ a.warned > 0 THEN a.warned + 1 ELSE 0
           /\ Request(a).pc = a.pc /\ Request(a).turn = a.turn /\ Request(a).budget = a.budget
           /\ Request(a).noTools = a.noTools /\ Request(a).nudges = a.nudges
           /\ Request(a).last = a.last /\ Request(a).text = a.text
           /\ Request(a).retries = a.retries
<1> DEFINE warned == IF Warning(a) \/ a.warned > 0 THEN a.warned + 1 ELSE 0
           asked == a.asked + 1
<1>1. warned \in Nat /\ asked \in Nat
  BY DEF Program
<1>2. Request(a) = [a EXCEPT !.asked = asked, !.warned = warned]
  BY DEF Request
<1> HIDE DEF warned, asked
<1>3. /\ Request(a) \in Program /\ Request(a).asked = asked /\ Request(a).warned = warned
      /\ Request(a).pc = a.pc /\ Request(a).turn = a.turn /\ Request(a).budget = a.budget
      /\ Request(a).noTools = a.noTools /\ Request(a).nudges = a.nudges
      /\ Request(a).last = a.last /\ Request(a).text = a.text
      /\ Request(a).retries = a.retries
  BY <1>1, <1>2 DEF Program
<1> QED
  BY <1>3 DEF warned, asked

(* A request keeps the count of warned ones ahead of the budget. *)
LEMMA RequestWarns ==
    ASSUME LoopAssumption, NEW a \in Program, ~a.noTools, a.warned + a.budget >= a.turn + DeadlineTurns
    PROVE  Request(a).warned + a.budget >= a.turn + 1 + DeadlineTurns
<1>1. {a.warned, a.budget, a.turn, DeadlineTurns} \subseteq Nat
  BY DEF Program, LoopAssumption
<1>2. CASE Warning(a) \/ a.warned > 0
  BY <1>1, <1>2, RequestCounts
<1>3. CASE ~(Warning(a) \/ a.warned > 0)
  <2>1. a.warned = 0 /\ ~(a.budget - a.turn <= DeadlineTurns)
    BY <1>1, <1>3 DEF Warning
  <2> QED
    BY <1>1, <2>1, <1>3, RequestCounts
<1> QED
  BY <1>2, <1>3

(* What the agent has said last is its own, or fits nothing. *)
LEMMA HeardIsIdle ==
    ASSUME NEW a \in Program, Idle(a.last), NEW text \in Texts
    PROVE  /\ Heard(a, text) \in Said /\ Idle(Heard(a, text))
           /\ Stripped(Heard(a, text)) \in Said /\ Idle(Stripped(Heard(a, text)))
<1>1. a.last \in Said
  BY DEF Program
<1>2. Heard(a, text) \in Said /\ Idle(Heard(a, text))
  BY <1>1 DEF Heard, Said, Idle
<1>3. ASSUME NEW said \in Said, Idle(said) PROVE Stripped(said) \in Said /\ Idle(Stripped(said))
  BY <1>3 DEF Stripped, Said, Idle, Texts
<1> QED
  BY <1>2, <1>3

LEMMA AwakeIsTyped ==
    ASSUME AgentTyped, Running, agent.pc # "asleep"
    PROVE  agent \in Program /\ Fit(agent) /\ agent # Asleep
  BY DEF AgentTyped, Running, Asleep

LEMMA ProgramIsAwake ==
    ASSUME NEW a \in Program
    PROVE  a.pc # "asleep" /\ a # Asleep
<1>1. a.pc \in Phases
  BY DEF Program
<1>2. a.pc # "asleep"
  BY <1>1 DEF Phases
<1> QED
  BY <1>2 DEF Asleep

(* A loop that starts is fit, given what was said before is. *)
LEMMA LoopIsFit ==
    ASSUME LoopAssumption, NEW a \in Program, Idle(a.last), Idle(a.text), NEW noTools \in BOOLEAN
    PROVE  Fit(Looping(a, IF noTools THEN ContinueTurns ELSE MaxTurns, noTools))
<1> DEFINE budget == IF noTools THEN ContinueTurns ELSE MaxTurns
<1>1. /\ budget \in Nat /\ MaxTurns >= DeadlineTurns
      /\ {MaxTurns, ContinueTurns, MaxNudges, DeadlineTurns} \subseteq Nat \ {0}
  BY DEF LoopAssumption
<1> DEFINE b == Looping(a, budget, noTools)
<1>2. /\ b.pc = "loop" /\ b.turn = 0 /\ b.budget = budget /\ b.noTools = noTools
      /\ b.nudges = 0 /\ b.asked = 0 /\ b.warned = 0 /\ b.last = a.last /\ b.text = a.text
  BY <1>1, LoopStarts
<1> HIDE DEF b
<1>3. Budget(b)
  BY <1>1, <1>2 DEF Budget
<1>4. Asked(b)
  BY <1>1, <1>2 DEF Asked
<1>5. Fit(b)
  BY <1>2, <1>3, <1>4 DEF Fit
<1>6. b = Looping(a, IF noTools THEN ContinueTurns ELSE MaxTurns, noTools)
  BY DEF b
<1> QED
  BY <1>5, <1>6

LEMMA BeginIsFit ==
    ASSUME LoopAssumption, NEW role \in Roles, NEW head \in Nat, Begin(role, head)
    PROVE  agent' \in Program /\ agent'.pc = "loop" /\ Fit(agent')
<1>1. PICK visited \in BOOLEAN : agent' = Looping(
        [pc |-> "", role |-> role, head |-> head, turn |-> 0, budget |-> 0,
         noTools |-> FALSE, nudges |-> 0, asked |-> 0, warned |-> 0,
         last |-> IF visited THEN SaidBefore ELSE NothingSaid,
         text |-> NothingSaid, retries |-> 0, step |-> 0], MaxTurns, FALSE)
  BY DEF Begin
<1> DEFINE last == IF visited THEN SaidBefore ELSE NothingSaid
           a == [pc |-> "", role |-> role, head |-> head, turn |-> 0, budget |-> 0,
                 noTools |-> FALSE, nudges |-> 0, asked |-> 0, warned |-> 0,
                 last |-> last, text |-> NothingSaid, retries |-> 0, step |-> 0]
<1>2. last \in Said /\ NothingSaid \in Said /\ Idle(last) /\ Idle(NothingSaid)
  BY DEF Said, Texts, SaidBefore, NothingSaid, Idle
<1>3. agent' = Looping(a, MaxTurns, FALSE)
  BY <1>1
<1> HIDE DEF last
<1>4. a \in Program /\ a.last = last /\ a.text = NothingSaid
  BY <1>2 DEF Program, Phases
<1> HIDE DEF a
<1>5. MaxTurns \in Nat
  BY DEF LoopAssumption
<1> QED
  BY <1>2, <1>3, <1>4, <1>5, LoopStarts, LoopIsFit

-----------------------------------------------------------------------------
(* The steps of a loop keep it fit. *)
LEMMA ToolsKeepFit ==
    ASSUME LoopAssumption, AgentTyped, Running, Tools
    PROVE  agent' \in Program /\ agent'.pc = "loop" /\ Fit(agent')
<1>1. agent \in Program /\ Fit(agent) /\ agent.pc = "loop" /\ agent.turn < agent.budget /\ ~agent.noTools
  BY AwakeIsTyped DEF Tools
<1>2. PICK text \in Texts :
        agent' = [Request(agent) EXCEPT !.turn = Request(agent).turn + 1, !.last = Heard(agent, text)]
  BY DEF Tools
<1> DEFINE r == Request(agent)
           turn == r.turn + 1
           last == Heard(agent, text)
<1>3. /\ r \in Program /\ r.turn = agent.turn /\ r.asked = agent.asked + 1 /\ r.pc = "loop"
      /\ r.budget = agent.budget /\ r.noTools = agent.noTools /\ r.nudges = agent.nudges
      /\ r.text = agent.text
      /\ r.warned + agent.budget >= agent.turn + 1 + DeadlineTurns
  <2>1. agent.warned + agent.budget >= agent.turn + DeadlineTurns
    BY <1>1 DEF Fit, Asked
  <2> QED
    BY <1>1, <2>1, RequestCounts, RequestWarns
<1>4. last \in Said /\ Idle(last)
  BY <1>1, HeardIsIdle DEF Fit
<1>5. turn \in Nat
  BY <1>3 DEF Program
<1> HIDE DEF r, turn, last
<1>6. agent' = [r EXCEPT !.turn = turn, !.last = last]
  BY <1>2 DEF r, turn, last
<1>7. /\ agent' \in Program /\ agent'.turn = turn /\ agent'.asked = r.asked /\ agent'.pc = r.pc
      /\ agent'.budget = r.budget /\ agent'.noTools = r.noTools /\ agent'.nudges = r.nudges
      /\ agent'.text = r.text /\ agent'.last = last /\ agent'.warned = r.warned
  BY <1>3, <1>4, <1>5, <1>6 DEF Program
<1>8. turn = agent.turn + 1
  BY <1>3 DEF turn
<1>9. /\ {agent.turn, agent.budget, agent.asked, agent.nudges, r.warned, DeadlineTurns, MaxNudges} \subseteq Nat
  BY <1>1, <1>3 DEF Program, LoopAssumption
<1>10. Budget(agent')
  BY <1>1, <1>3, <1>7, <1>8, <1>9 DEF Fit, Budget
<1>11. Asked(agent')
  BY <1>1, <1>3, <1>7, <1>8, <1>9 DEF Fit, Asked
<1> QED
  BY <1>1, <1>3, <1>4, <1>7, <1>10, <1>11 DEF Fit

LEMMA NudgeKeepsFit ==
    ASSUME LoopAssumption, AgentTyped, Running, Nudge
    PROVE  agent' \in Program /\ agent'.pc = "loop" /\ Fit(agent')
<1>1. agent \in Program /\ Fit(agent) /\ agent.pc = "loop" /\ agent.turn < agent.budget /\ ~agent.noTools
  BY AwakeIsTyped DEF Nudge, ShouldNudge
<1>2. PICK text \in Texts :
        agent' = [Request(agent) EXCEPT
                    !.turn = IF NudgeIsFree(agent) THEN Request(agent).turn ELSE Request(agent).turn + 1,
                    !.nudges = Request(agent).nudges + 1, !.last = Heard(agent, text)]
  BY DEF Nudge
<1> DEFINE r == Request(agent)
           turn == IF NudgeIsFree(agent) THEN r.turn ELSE r.turn + 1
           nudges == r.nudges + 1
           last == Heard(agent, text)
<1>3. /\ r \in Program /\ r.turn = agent.turn /\ r.asked = agent.asked + 1 /\ r.pc = "loop"
      /\ r.budget = agent.budget /\ r.noTools = agent.noTools /\ r.nudges = agent.nudges
      /\ r.text = agent.text
      /\ r.warned + agent.budget >= agent.turn + 1 + DeadlineTurns
  <2>1. agent.warned + agent.budget >= agent.turn + DeadlineTurns
    BY <1>1 DEF Fit, Asked
  <2> QED
    BY <1>1, <2>1, RequestCounts, RequestWarns
<1>4. last \in Said /\ Idle(last)
  BY <1>1, HeardIsIdle DEF Fit
<1>5. turn \in Nat /\ nudges \in Nat
  BY <1>3 DEF Program
<1> HIDE DEF r, turn, last, nudges
<1>6. agent' = [r EXCEPT !.turn = turn, !.nudges = nudges, !.last = last]
  BY <1>2 DEF r, turn, last, nudges
<1>7. /\ agent' \in Program /\ agent'.turn = turn /\ agent'.asked = r.asked /\ agent'.pc = r.pc
      /\ agent'.budget = r.budget /\ agent'.noTools = r.noTools /\ agent'.nudges = nudges
      /\ agent'.text = r.text /\ agent'.last = last /\ agent'.warned = r.warned
  BY <1>3, <1>4, <1>5, <1>6 DEF Program
<1>8. /\ turn = IF agent.nudges < MaxNudges THEN agent.turn ELSE agent.turn + 1
      /\ nudges = agent.nudges + 1
  BY <1>3 DEF turn, nudges, NudgeIsFree
<1>9. /\ {agent.turn, agent.budget, agent.asked, agent.nudges, r.warned, DeadlineTurns, MaxNudges} \subseteq Nat
  BY <1>1, <1>3 DEF Program, LoopAssumption
<1>10. Budget(agent')
  BY <1>1, <1>3, <1>7, <1>8, <1>9 DEF Fit, Budget
<1>11. Asked(agent')
  BY <1>1, <1>3, <1>7, <1>8, <1>9 DEF Fit, Asked
<1> QED
  BY <1>1, <1>3, <1>4, <1>7, <1>10, <1>11 DEF Fit

LEMMA HandInIsFit ==
    ASSUME LoopAssumption, AgentTyped, Running, HandIn
    PROVE  agent' \in Program /\ agent'.pc = "extract" /\ Fit(agent')
<1>1. agent \in Program /\ Fit(agent) /\ agent.pc = "loop" /\ agent.turn < agent.budget
  BY AwakeIsTyped DEF HandIn
<1>2. PICK text \in Texts :
        agent' = [Request(agent) EXCEPT !.pc = "extract", !.last = Heard(agent, text),
                                        !.text = Stripped(Heard(agent, text))]
  BY DEF HandIn
<1> DEFINE r == Request(agent)
           last == Heard(agent, text)
           said == Stripped(Heard(agent, text))
<1>3. /\ r \in Program /\ r.turn = agent.turn /\ r.asked = agent.asked + 1
      /\ r.budget = agent.budget /\ r.noTools = agent.noTools
  BY <1>1, RequestCounts
<1>4. last \in Said /\ Idle(last) /\ said \in Said /\ Idle(said)
  BY <1>1, HeardIsIdle DEF Fit
<1> HIDE DEF r, last, said
<1>5. agent' = [r EXCEPT !.pc = "extract", !.last = last, !.text = said]
  BY <1>2 DEF r, last, said
<1>6. /\ agent' \in Program /\ agent'.turn = r.turn /\ agent'.asked = r.asked /\ agent'.pc = "extract"
      /\ agent'.budget = r.budget /\ agent'.noTools = r.noTools
      /\ agent'.text = said /\ agent'.last = last
  BY <1>3, <1>4, <1>5 DEF Program, Phases
<1>7. {agent.turn, agent.budget, agent.asked, agent.nudges, MaxNudges} \subseteq Nat
  BY <1>1 DEF Program, LoopAssumption
<1>8. Budget(agent')
  BY <1>1, <1>3, <1>6 DEF Fit, Budget
<1>9. agent.asked <= agent.turn + MaxNudges
  BY <1>1, <1>7 DEF Fit, Asked
<1>10. Asked(agent')
  BY <1>1, <1>3, <1>6, <1>7, <1>9 DEF Asked
<1> QED
  BY <1>4, <1>6, <1>8, <1>10 DEF Fit

LEMMA CutOffIsFit ==
    ASSUME LoopAssumption, AgentTyped, Running, CutOff
    PROVE  agent' \in Program /\ agent'.pc = "extract" /\ Fit(agent')
<1>1. agent \in Program /\ Fit(agent) /\ agent.pc = "loop"
  BY AwakeIsTyped DEF CutOff
<1> DEFINE said == Stripped(agent.last)
<1>2. said \in Said /\ Idle(said) /\ Idle(agent.last)
  BY <1>1 DEF Program, Fit, Stripped, Said, Idle, Texts
<1> HIDE DEF said
<1>3. agent' = [agent EXCEPT !.pc = "extract", !.text = said]
  BY DEF CutOff, said
<1>4. /\ agent' \in Program /\ agent'.turn = agent.turn /\ agent'.asked = agent.asked /\ agent'.pc = "extract"
      /\ agent'.budget = agent.budget /\ agent'.noTools = agent.noTools
      /\ agent'.text = said /\ agent'.last = agent.last
  BY <1>1, <1>2, <1>3 DEF Program, Phases
<1>5. {agent.turn, agent.budget, agent.asked, agent.nudges, MaxNudges} \subseteq Nat
  BY <1>1 DEF Program, LoopAssumption
<1>6. Budget(agent')
  BY <1>1, <1>4 DEF Fit, Budget
<1>7. Asked(agent')
  BY <1>1, <1>4, <1>5 DEF Fit, Asked, Budget
<1> QED
  BY <1>2, <1>4, <1>6, <1>7 DEF Fit

LEMMA CorrectIsFit ==
    ASSUME LoopAssumption, AgentTyped, Running, Correct
    PROVE  agent' \in Program /\ agent'.pc = "loop" /\ Fit(agent')
<1>1. agent \in Program /\ Fit(agent)
  BY AwakeIsTyped DEF Correct
<1> DEFINE b == Looping(agent, ContinueTurns, TRUE)
<1>2. ContinueTurns \in Nat
  BY DEF LoopAssumption
<1>3. b \in Program /\ b.pc = "loop" /\ Fit(b)
  BY <1>1, <1>2, LoopStarts, LoopIsFit DEF Fit
<1> HIDE DEF b
<1> DEFINE retries == b.retries + 1
<1>4. retries \in Nat
  BY <1>3 DEF Program
<1> HIDE DEF retries
<1>5. agent' = [b EXCEPT !.retries = retries]
  BY DEF Correct, b, retries
<1>6. /\ agent' \in Program /\ agent'.turn = b.turn /\ agent'.asked = b.asked /\ agent'.pc = b.pc
      /\ agent'.budget = b.budget /\ agent'.noTools = b.noTools /\ agent'.nudges = b.nudges
      /\ agent'.text = b.text /\ agent'.last = b.last /\ agent'.warned = b.warned
  BY <1>3, <1>4, <1>5 DEF Program
<1> QED
  BY <1>3, <1>6 DEF Fit, Budget, Asked

-----------------------------------------------------------------------------
(* A step is stored after those before it. *)
LEMMA StepIsAppended ==
    ASSUME StepsTyped, NEW step \in Step, steps' = Append(steps, step)
    PROVE  /\ steps' \in Seq(Step)
           /\ Len(steps') \in DOMAIN steps' /\ Len(steps') \in Nat /\ steps'[Len(steps')] = step
           /\ \A n \in DOMAIN steps : n \in DOMAIN steps' /\ steps'[n] = steps[n]
           /\ \A n \in DOMAIN steps' : n \in DOMAIN steps \/ n = Len(steps')
<1>1. steps \in Seq(Step) /\ Len(steps) \in Nat /\ DOMAIN steps = 1..Len(steps)
  BY DEF StepsTyped
<1> QED
  BY <1>1, AppendProperties

(* A step that is stored leaves the failed attempts where they are found. *)
LEMMA StoringKeepsFound ==
    ASSUME StepsTyped, NEW step \in Step, steps' = Append(steps, step),
           failed' = failed, dismissed' = dismissed,
           NEW f \in DOMAIN steps, Found(f)
    PROVE  Found(f)'
<1>1. /\ steps'[f] = steps[f]
      /\ \A n \in DOMAIN steps : n \in DOMAIN steps' /\ steps'[n] = steps[n]
  BY StepIsAppended
<1> QED
  BY <1>1 DEF Found, Tell

LEMMA StoringKeepsAttempts ==
    ASSUME StepsTyped, Attempts, NEW step \in Step, steps' = Append(steps, step),
           failed' = failed, dismissed' = dismissed, reported' = reported
    PROVE  Attempts'
<1>1. \A n \in DOMAIN steps : n \in DOMAIN steps' /\ steps'[n] = steps[n]
  BY StepIsAppended
<1>2. reported' \subseteq DOMAIN steps'
  BY <1>1 DEF Attempts
<1>3. ASSUME NEW f \in reported, ~steps'[f].ok
      PROVE  Found(f)'
  <2>1. f \in DOMAIN steps /\ ~steps[f].ok
    BY <1>1, <1>3 DEF Attempts
  <2>2. Found(f)
    BY <2>1 DEF Attempts, AttemptsTold, Found
  <2> QED
    BY <2>1, <2>2, StoringKeepsFound
<1>4. AttemptsTold'
  BY <1>3 DEF AttemptsTold, Found
<1> QED
  BY <1>2, <1>4 DEF Attempts

-----------------------------------------------------------------------------
(* The steps of a loop disturb nothing that is stored. *)
LEMMA LoopKeeps ==
    ASSUME LoopAssumption, AgentInv, Tools \/ Nudge \/ HandIn \/ CutOff \/ Correct,
           UNCHANGED <<report, reported, dismissed>>
    PROVE  AgentInv'
<1>1. agent' \in Program /\ agent'.pc \in {"loop", "extract"} /\ Fit(agent')
  BY ToolsKeepFit, NudgeKeepsFit, HandInIsFit, CutOffIsFit, CorrectIsFit DEF AgentInv
<1>2. UNCHANGED <<failed, steps>>
  BY DEF Tools, Nudge, HandIn, CutOff, Correct
<1>3. AgentTyped' /\ Running'
  BY <1>1 DEF AgentTyped, Running
<1>4. Reporting'
  BY <1>1 DEF Reporting
<1>5. StepsTyped' /\ OwnWords' /\ Attempts'
  BY <1>2 DEF AgentInv, StepsTyped, OwnWords, Attempts, AttemptsTold
<1> QED
  BY <1>3, <1>4, <1>5 DEF AgentInv

LEMMA StoreFailureKeeps ==
    ASSUME AgentInv, StoreFailure, UNCHANGED <<report, reported, dismissed>>
    PROVE  AgentInv'
<1>1. agent \in Program /\ Fit(agent) /\ agent.pc = "extract"
  BY AwakeIsTyped DEF AgentInv, StoreFailure
<1> DEFINE step == [role |-> agent.role, prev |-> agent.head, ok |-> FALSE,
                    previous |-> <<>>, own |-> FALSE /\ agent.text.own]
           n == Len(steps')
<1>2. step \in Step /\ ~step.ok /\ step.role = agent.role
  <2>1. <<>> \in Seq(Nat)
    OBVIOUS
  <2>2. (FALSE /\ agent.text.own) \in BOOLEAN
    OBVIOUS
  <2> QED
    BY <1>1, <2>1, <2>2 DEF Step, Program
<1>3. steps' = Append(steps, step) /\ failed' = failed
  BY DEF StoreFailure, Stored
<1> HIDE DEF step
<1>4. /\ n \in Nat /\ n \in DOMAIN steps' /\ steps' \in Seq(Step) /\ steps'[n] = step
      /\ \A i \in DOMAIN steps : steps'[i] = steps[i]
      /\ \A i \in DOMAIN steps' : i \in DOMAIN steps \/ i = n
  BY <1>2, <1>3, StepIsAppended DEF AgentInv
<1>5. agent' = [agent EXCEPT !.pc = "append", !.step = n]
  BY DEF StoreFailure
<1> HIDE DEF n
<1>6. /\ agent' \in Program /\ agent'.pc = "append" /\ agent'.step = n /\ agent'.role = agent.role
      /\ agent'.turn = agent.turn /\ agent'.asked = agent.asked
      /\ agent'.budget = agent.budget /\ agent'.noTools = agent.noTools
      /\ agent'.text = agent.text /\ agent'.last = agent.last
  BY <1>1, <1>4, <1>5 DEF Program, Phases
<1>7. Fit(agent')
  BY <1>1, <1>6 DEF Fit, Budget, Asked
<1>8. AgentTyped' /\ Running'
  BY <1>6, <1>7 DEF AgentTyped, Running
<1>9. StepsTyped'
  BY <1>3, <1>4 DEF AgentInv, StepsTyped
<1>10. OwnWords'
  BY <1>2, <1>4 DEF AgentInv, OwnWords
<1>11. Reporting'
  BY <1>2, <1>4, <1>6 DEF Reporting
<1>12. Attempts'
  BY <1>2, <1>3, StoringKeepsAttempts DEF AgentInv
<1> QED
  BY <1>8, <1>9, <1>10, <1>11, <1>12 DEF AgentInv

LEMMA StoreSuccessKeeps ==
    ASSUME AgentInv, StoreSuccess, UNCHANGED <<report, reported, dismissed>>
    PROVE  AgentInv'
<1>1. agent \in Program /\ Fit(agent) /\ agent.pc = "extract"
  BY AwakeIsTyped DEF AgentInv, StoreSuccess
<1> DEFINE list == failed[agent.role]
           own == TRUE /\ agent.text.own
           step == [role |-> agent.role, prev |-> agent.head, ok |-> TRUE,
                    previous |-> list, own |-> own]
           n == Len(steps')
           pc == IF list = <<>> THEN "report" ELSE "clear"
<1>2. own = TRUE
  <2>1. agent.text.text \in {"good", "suspend"}
    BY DEF StoreSuccess, Valid, Suspends, FitsRole
  <2> QED
    BY <1>1, <2>1 DEF Fit, Idle
<1> HIDE DEF own
<1>3. list \in Seq(Nat) /\ agent.role \in Roles /\ agent.head \in Nat
  BY <1>1 DEF Program, AgentInv, StepsTyped
<1>4. steps' = Append(steps, step) /\ failed' = failed /\ agent' = [agent EXCEPT !.step = n, !.pc = pc]
  BY DEF StoreSuccess, Stored, own
<1> HIDE DEF list
<1>5. step \in Step /\ step.ok /\ step.role = agent.role /\ step.previous = list /\ step.own
  BY <1>2, <1>3 DEF Step
<1> HIDE DEF step
<1>6. /\ n \in Nat /\ n \in DOMAIN steps' /\ steps' \in Seq(Step) /\ steps'[n] = step
      /\ \A i \in DOMAIN steps : steps'[i] = steps[i]
      /\ \A i \in DOMAIN steps' : i \in DOMAIN steps \/ i = n
  BY <1>4, <1>5, StepIsAppended DEF AgentInv
<1>7. pc \in {"report", "clear"}
  OBVIOUS
<1> HIDE DEF n, pc
<1>8. /\ agent' \in Program /\ agent'.pc = pc /\ agent'.step = n /\ agent'.role = agent.role
      /\ agent'.turn = agent.turn /\ agent'.asked = agent.asked
      /\ agent'.budget = agent.budget /\ agent'.noTools = agent.noTools
      /\ agent'.text = agent.text /\ agent'.last = agent.last
  BY <1>1, <1>4, <1>6, <1>7 DEF Program, Phases
<1>9. Fit(agent')
  BY <1>1, <1>7, <1>8 DEF Fit, Budget, Asked
<1>10. AgentTyped' /\ Running'
  BY <1>8, <1>9 DEF AgentTyped, Running
<1>11. StepsTyped'
  BY <1>4, <1>6 DEF AgentInv, StepsTyped
<1>12. OwnWords'
  BY <1>5, <1>6 DEF AgentInv, OwnWords
<1>13. failed'[agent'.role] = list
  BY <1>4, <1>8 DEF list
<1>14. Reporting'
  BY <1>5, <1>6, <1>8, <1>13 DEF Reporting
<1>15. Attempts'
  BY <1>4, <1>5, StoringKeepsAttempts DEF AgentInv
<1> QED
  BY <1>10, <1>11, <1>12, <1>14, <1>15 DEF AgentInv

(* A program that goes on where it is keeps its loop fit. *)
LEMMA MovesOn ==
    ASSUME AgentTyped, Running, agent.pc \in {"append", "clear"}, agent' = [agent EXCEPT !.pc = "report"]
    PROVE  /\ AgentTyped' /\ Running' /\ agent \in Program /\ agent # Asleep /\ agent' # Asleep
           /\ agent'.pc = "report" /\ agent'.step = agent.step /\ agent'.role = agent.role
<1>1. agent \in Program /\ Fit(agent) /\ agent # Asleep
  BY AwakeIsTyped
<1>2. /\ agent' \in Program /\ agent'.pc = "report"
      /\ agent'.step = agent.step /\ agent'.role = agent.role
      /\ agent'.turn = agent.turn /\ agent'.asked = agent.asked
      /\ agent'.budget = agent.budget /\ agent'.noTools = agent.noTools
      /\ agent'.text = agent.text /\ agent'.last = agent.last
  BY <1>1 DEF Program, Phases
<1>3. Fit(agent')
  BY <1>1, <1>2 DEF Fit, Budget, Asked
<1> QED
  BY <1>1, <1>2, <1>3, ProgramIsAwake DEF AgentTyped, Running

(* A failed attempt stays found when the list of a role grows, or when the  *)
(* whole list is in a step of the role or dismissed.                        *)
LEMMA AppendKeepsFound ==
    ASSUME AgentInv, NEW role \in Roles, NEW n \in Nat, NEW f \in DOMAIN steps, Found(f),
           failed' = [failed EXCEPT ![role] = Append(failed[role], n)], UNCHANGED <<steps, dismissed>>
    PROVE  Found(f)'
<1>1. steps[f].role \in Roles /\ failed \in [Roles -> Seq(Nat)]
  <2>1. steps[f] \in Step
    BY DEF AgentInv, StepsTyped
  <2> QED
    BY <2>1 DEF AgentInv, StepsTyped, Step
<1>2. ASSUME Tell(failed[steps[f].role], f)
      PROVE  Tell(failed'[steps[f].role], f)
  <2>1. PICK i \in DOMAIN failed[steps[f].role] : failed[steps[f].role][i] = f
    BY <1>2 DEF Tell
  <2>2. CASE steps[f].role = role
    <3>1. failed'[steps[f].role] = Append(failed[role], n)
      BY <1>1, <2>2
    <3>2. failed[role] \in Seq(Nat) /\ i \in 1..Len(failed[role])
      BY <1>1, <2>1, <2>2
    <3>3. i \in DOMAIN Append(failed[role], n) /\ Append(failed[role], n)[i] = f
      BY <2>1, <2>2, <3>2, AppendProperties
    <3> QED
      BY <3>1, <3>3 DEF Tell
  <2>3. CASE steps[f].role # role
    BY <1>1, <2>1, <2>3 DEF Tell
  <2> QED
    BY <2>2, <2>3
<1> QED
  BY <1>2 DEF Found, Tell

LEMMA EmptyingKeepsFound ==
    ASSUME AgentInv, NEW role \in Roles, NEW f \in DOMAIN steps, Found(f),
           failed' = [failed EXCEPT ![role] = <<>>], steps' = steps, dismissed \subseteq dismissed',
           \/ \E n \in DOMAIN steps : steps[n].role = role /\ steps[n].previous = failed[role]
           \/ \A i \in DOMAIN failed[role] : failed[role][i] \in dismissed'
    PROVE  Found(f)'
<1>1. steps[f].role \in Roles /\ failed \in [Roles -> Seq(Nat)]
  <2>1. steps[f] \in Step
    BY DEF AgentInv, StepsTyped
  <2> QED
    BY <2>1 DEF AgentInv, StepsTyped, Step
<1>2. CASE Tell(failed[steps[f].role], f) /\ steps[f].role = role
  BY <1>2 DEF Found, Tell
<1>3. CASE Tell(failed[steps[f].role], f) /\ steps[f].role # role
  BY <1>1, <1>3 DEF Found, Tell
<1>4. CASE ~Tell(failed[steps[f].role], f)
  BY <1>4 DEF Found, Tell
<1> QED
  BY <1>2, <1>3, <1>4

LEMMA AppendFailureKeeps ==
    ASSUME AgentInv, AppendFailure, UNCHANGED <<report, reported, dismissed>>
    PROVE  AgentInv'
<1>1. /\ AgentTyped' /\ Running' /\ agent \in Program /\ agent # Asleep /\ agent.pc = "append"
      /\ agent'.pc = "report" /\ agent'.step = agent.step /\ agent'.role = agent.role
  BY MovesOn DEF AgentInv, AppendFailure
<1> DEFINE role == agent.role
           n == agent.step
<1>2. /\ role \in Roles /\ n \in Nat /\ n \in DOMAIN steps /\ steps[n].role = role
  BY <1>1 DEF AgentInv, Reporting, Program
<1>3. failed' = [failed EXCEPT ![role] = Append(failed[role], n)] /\ UNCHANGED <<steps, dismissed>>
  BY DEF AppendFailure
<1> HIDE DEF role, n
<1>4. failed \in [Roles -> Seq(Nat)] /\ failed[role] \in Seq(Nat)
  BY <1>2 DEF AgentInv, StepsTyped
<1>5. Append(failed[role], n) \in Seq(Nat)
  BY <1>2, <1>4, AppendProperties
<1>6. StepsTyped' /\ OwnWords'
  BY <1>3, <1>4, <1>5 DEF AgentInv, StepsTyped, OwnWords
<1>7. Tell(failed'[role], n)
  <2>1. failed'[role] = Append(failed[role], n)
    BY <1>2, <1>3, <1>4
  <2>2. Len(failed[role]) + 1 \in DOMAIN failed'[role] /\ failed'[role][Len(failed[role]) + 1] = n
    BY <1>2, <1>4, <2>1, AppendProperties
  <2> QED
    BY <2>2 DEF Tell
<1>8. Reporting'
  BY <1>1, <1>2, <1>3, <1>7 DEF Reporting, Found, n, role
<1>9. Attempts'
  <2>1. ASSUME NEW f \in reported, ~steps[f].ok PROVE Found(f)'
    <3>1. f \in DOMAIN steps /\ Found(f)
      BY <2>1 DEF AgentInv, Attempts, AttemptsTold, Found
    <3> QED
      BY <1>2, <1>3, <3>1, AppendKeepsFound
  <2> QED
    BY <1>3, <2>1 DEF AgentInv, Attempts, AttemptsTold, Found
<1> QED
  BY <1>1, <1>6, <1>8, <1>9 DEF AgentInv

LEMMA ClearFailuresKeeps ==
    ASSUME AgentInv, ClearFailures, UNCHANGED <<report, reported, dismissed>>
    PROVE  AgentInv'
<1>1. /\ AgentTyped' /\ Running' /\ agent \in Program /\ agent # Asleep /\ agent.pc = "clear"
      /\ agent'.pc = "report" /\ agent'.step = agent.step /\ agent'.role = agent.role
  BY MovesOn DEF AgentInv, ClearFailures
<1> DEFINE role == agent.role
           n == agent.step
<1>2. /\ role \in Roles /\ n \in DOMAIN steps /\ steps[n].role = role
      /\ steps[n].ok /\ steps[n].previous = failed[role]
  BY <1>1 DEF AgentInv, Reporting, Program
<1>3. failed' = [failed EXCEPT ![role] = <<>>] /\ UNCHANGED <<steps, dismissed>>
  BY DEF ClearFailures
<1>4. Reporting'
  BY <1>1, <1>2, <1>3 DEF Reporting
<1> HIDE DEF role, n
<1>5. <<>> \in Seq(Nat)
  OBVIOUS
<1>6. StepsTyped' /\ OwnWords'
  BY <1>3, <1>5 DEF AgentInv, StepsTyped, OwnWords
<1>7. Attempts'
  <2>1. ASSUME NEW f \in reported, ~steps[f].ok PROVE Found(f)'
    <3>1. f \in DOMAIN steps /\ Found(f)
      BY <2>1 DEF AgentInv, Attempts, AttemptsTold, Found
    <3> QED
      BY <1>2, <1>3, <3>1, EmptyingKeepsFound
  <2> QED
    BY <1>3, <2>1 DEF AgentInv, Attempts, AttemptsTold, Found
<1> QED
  BY <1>1, <1>4, <1>6, <1>7 DEF AgentInv

-----------------------------------------------------------------------------
(* What the commands do between the runs of agents. *)
LEMMA ReportKeeps ==
    ASSUME AgentInv, Report
    PROVE  AgentInv'
<1>1. agent \in Program /\ agent # Asleep /\ agent.pc = "report"
  BY AwakeIsTyped DEF AgentInv, Report
<1>2. /\ agent' = Asleep /\ report' = agent.step /\ reported' = reported \cup {agent.step}
      /\ UNCHANGED <<failed, steps, dismissed>>
  BY DEF Report
<1>3. agent.step \in Nat /\ agent.step \in DOMAIN steps /\ (~steps[agent.step].ok => Found(agent.step))
  BY <1>1 DEF AgentInv, Reporting, Program
<1>4. StepsTyped' /\ OwnWords' /\ AgentTyped' /\ Running' /\ Reporting'
  BY <1>2, <1>3 DEF AgentInv, StepsTyped, OwnWords, AgentTyped, Running, Reporting
<1>5. Attempts'
  BY <1>2, <1>3 DEF AgentInv, Attempts, AttemptsTold, Found
<1> QED
  BY <1>4, <1>5 DEF AgentInv

LEMMA ExecKeeps ==
    ASSUME LoopAssumption, HomeAssumption, OpeningTyped, AgentInv, NEW role \in Roles, Exec(role)
    PROVE  AgentInv'
<1>1. threads[TheThread].head \in Nat
  BY DEF Exec, OpeningTyped, HomeAssumption, Entries
<1>2. agent' \in Program /\ agent'.pc = "loop" /\ Fit(agent')
  BY <1>1, BeginIsFit DEF Exec
<1>3. UNCHANGED <<failed, steps, report, reported, dismissed>>
  BY DEF Exec, Begin, ghosts
<1>4. AgentTyped' /\ Running'
  BY <1>2 DEF AgentTyped, Running
<1>5. Reporting'
  BY <1>2 DEF Reporting
<1>6. StepsTyped' /\ OwnWords' /\ Attempts'
  BY <1>3 DEF AgentInv, StepsTyped, OwnWords, Attempts, AttemptsTold
<1> QED
  BY <1>4, <1>5, <1>6 DEF AgentInv

LEMMA ClearOfKeeps ==
    ASSUME Worked, AgentInv, NEW role \in Roles, ClearOf(role)
    PROVE  AgentInv'
<1>1. agent = Asleep /\ agent' = Asleep
  BY DEF Worked, ClearOf
<1>2. /\ failed' = [failed EXCEPT ![role] = <<>>] /\ UNCHANGED <<steps, report, reported>>
      /\ dismissed' = dismissed \cup {failed[role][i] : i \in DOMAIN failed[role]}
  BY DEF ClearOf
<1>3. <<>> \in Seq(Nat)
  OBVIOUS
<1>4. StepsTyped' /\ OwnWords' /\ AgentTyped' /\ Running' /\ Reporting'
  BY <1>1, <1>2, <1>3 DEF AgentInv, StepsTyped, OwnWords, AgentTyped, Running, Reporting
<1>5. Attempts'
  <2>1. ASSUME NEW f \in reported, ~steps[f].ok PROVE Found(f)'
    <3>1. f \in DOMAIN steps /\ Found(f)
      BY <2>1 DEF AgentInv, Attempts, AttemptsTold, Found
    <3>2. dismissed \subseteq dismissed' /\ \A i \in DOMAIN failed[role] : failed[role][i] \in dismissed'
      BY <1>2
    <3> QED
      BY <1>2, <3>1, <3>2, EmptyingKeepsFound
  <2> QED
    BY <1>2, <2>1 DEF AgentInv, Attempts, AttemptsTold, Found
<1> QED
  BY <1>4, <1>5 DEF AgentInv

(* An agent that sleeps or is left alone. *)
LEMMA RestKeeps ==
    ASSUME AgentInv, UNCHANGED <<failed, steps, reported, dismissed>>, report' \in Nat,
           agent' = Asleep \/ agent' = agent
    PROVE  AgentInv'
<1>1. StepsTyped' /\ OwnWords' /\ Attempts'
  BY DEF AgentInv, StepsTyped, OwnWords, Attempts, AttemptsTold
<1>2. AgentTyped' /\ Running' /\ Reporting'
  BY DEF AgentInv, AgentTyped, Running, Reporting, Found
<1> QED
  BY <1>1, <1>2 DEF AgentInv

-----------------------------------------------------------------------------
LEMMA FourSources == LastSource = 4 /\ Sources = 2..4
  BY DEF LastSource, SourceNames, Sources

LEMMA EntryIsTyped ==
    ASSUME NEW s \in Sources, NEW r \in Records
    PROVE  EntryOf(s, r) \in Entries
<1>1. r.status \in OldStatuses
  BY DEF Records
<1> QED
  BY <1>1 DEF EntryOf, Entries, OldStatuses

(* The first record of what is left of a source is done with. *)
LEMMA EndingOfTail ==
    ASSUME NEW a \in Seq(Records), NEW b \in Seq(Records), a # <<>>, Ending(a, b)
    PROVE  /\ Tail(a) \in Seq(Records) /\ Head(a) \in Records
           /\ Ending(Tail(a), b)
           /\ Head(a) = b[Len(b) - Len(a) + 1]
<1>1. /\ Len(a) \in Nat /\ Len(b) \in Nat /\ Len(a) > 0 /\ Tail(a) \in Seq(Records)
      /\ Head(a) \in Records /\ Head(a) = a[1] /\ Len(Tail(a)) = Len(a) - 1
      /\ \A i \in 1..Len(Tail(a)) : Tail(a)[i] = a[i + 1]
  BY HeadTailProperties
<1>2. Head(a) = b[Len(b) - Len(a) + 1]
  BY <1>1 DEF Ending
<1>3. ASSUME NEW i \in 1..Len(Tail(a))
      PROVE  Tail(a)[i] = b[Len(b) - Len(Tail(a)) + i]
  <2>1. i + 1 \in 1..Len(a)
    BY <1>1
  <2>2. Tail(a)[i] = b[Len(b) - Len(a) + (i + 1)]
    BY <1>1, <2>1 DEF Ending
  <2>3. Len(b) - Len(a) + (i + 1) = Len(b) - Len(Tail(a)) + i
    BY <1>1
  <2> QED
    BY <2>2, <2>3
<1>4. Ending(Tail(a), b)
  BY <1>1, <1>3 DEF Ending
<1> QED
  BY <1>1, <1>2, <1>4

LEMMA WholeIsEnding ==
    ASSUME NEW a \in Seq(Records)
    PROVE  Ending(a, a)
<1>1. Len(a) \in Nat
  OBVIOUS
<1> QED
  BY <1>1 DEF Ending

(* What is named is named by the first record or by the others. *)
LEMMA NamedByHeadOrTail ==
    ASSUME HomeAssumption, NEW a \in Seq(Records), a # <<>>, NEW id
    PROVE  Named(a, id) <=> Names(Head(a), id) \/ Named(Tail(a), id)
<1>1. /\ Len(a) \in Nat /\ Len(a) > 0 /\ Tail(a) \in Seq(Records)
      /\ Head(a) = a[1] /\ Len(Tail(a)) = Len(a) - 1
      /\ DOMAIN a = 1..Len(a) /\ DOMAIN Tail(a) = 1..Len(Tail(a))
      /\ \A i \in 1..Len(Tail(a)) : Tail(a)[i] = a[i + 1]
  BY HeadTailProperties
<1>2. a # Absent /\ Tail(a) # Absent
  BY <1>1 DEF HomeAssumption
<1>3. ASSUME NEW i \in DOMAIN a, Names(a[i], id), ~Names(Head(a), id)
      PROVE  Named(Tail(a), id)
  <2>1. i # 1 /\ i - 1 \in DOMAIN Tail(a)
    BY <1>1, <1>3
  <2>2. Tail(a)[i - 1] = a[i]
    BY <1>1, <2>1
  <2> QED
    BY <1>2, <1>3, <2>1, <2>2 DEF Named
<1>4. ASSUME Names(Head(a), id) \/ Named(Tail(a), id)
      PROVE  Named(a, id)
  <2>1. CASE Names(Head(a), id)
    BY <1>1, <1>2, <2>1 DEF Named
  <2>2. CASE Named(Tail(a), id)
    <3>1. PICK i \in DOMAIN Tail(a) : Names(Tail(a)[i], id)
      BY <2>2 DEF Named
    <3>2. i + 1 \in DOMAIN a /\ a[i + 1] = Tail(a)[i]
      BY <1>1, <3>1
    <3> QED
      BY <1>2, <3>1, <3>2 DEF Named
  <2> QED
    BY <1>4, <2>1, <2>2
<1> QED
  BY <1>3, <1>4 DEF Named

(* What is left of a source names no thread that the source does not. *)
LEMMA NamedInEnding ==
    ASSUME HomeAssumption, NEW a \in Seq(Records), NEW b \in Seq(Records), Ending(a, b), NEW id, ~Named(b, id)
    PROVE  ~Named(a, id)
<1>1. b # Absent
  BY DEF HomeAssumption
<1>2. ASSUME NEW i \in DOMAIN a PROVE ~Names(a[i], id)
  <2>1. Len(a) \in Nat /\ Len(b) \in Nat /\ DOMAIN a = 1..Len(a) /\ DOMAIN b = 1..Len(b) /\ Len(a) <= Len(b)
    BY DEF Ending
  <2>2. a[i] = b[Len(b) - Len(a) + i] /\ Len(b) - Len(a) + i \in DOMAIN b
    BY <2>1 DEF Ending
  <2> QED
    BY <1>1, <2>2 DEF Named
<1> QED
  BY <1>2 DEF Named

LEMMA NothingIsNamed ==
    ASSUME NEW id
    PROVE  ~Named(<<>>, id) /\ ~Named(Absent, id)
<1>1. \A i \in DOMAIN <<>> : FALSE
  OBVIOUS
<1> QED
  BY <1>1 DEF Named

(* The last record that names a thread, in the last source that does, tells *)
(* what becomes of it.                                                      *)
LEMMA LastOneTells ==
    ASSUME HomeAssumption, NEW old \in Legacies, NEW s \in Sources, NEW a \in Seq(Records), NEW id,
           old[s] # Absent, a # <<>>, Ending(a, old[s]), Names(Head(a), id), ~Named(Tail(a), id),
           \A u \in (s + 1)..LastSource : ~Named(old[u], id)
    PROVE  Tells(old, id, EntryOf(s, Head(a)))
<1>1. old[s] \in Seq(Records)
  BY FourSources DEF HomeAssumption
<1> DEFINE b == old[s]
           i == Len(b) - Len(a) + 1
<1>2. Head(a) = b[i] /\ Tail(a) \in Seq(Records) /\ Ending(Tail(a), b)
  BY <1>1, EndingOfTail
<1>3. Len(a) \in Nat /\ Len(a) > 0 /\ Len(b) \in Nat /\ Len(a) <= Len(b) /\ Len(Tail(a)) = Len(a) - 1
      /\ DOMAIN b = 1..Len(b) /\ DOMAIN Tail(a) = 1..Len(Tail(a))
  BY <1>1, <1>2, HeadTailProperties DEF Ending
<1>4. i \in DOMAIN b
  BY <1>3
<1>5. ASSUME NEW j \in DOMAIN b, j > i
      PROVE  ~Names(b[j], id)
  <2> DEFINE k == j - i
  <2>1. k \in DOMAIN Tail(a) /\ Len(b) - Len(Tail(a)) + k = j
    BY <1>3, <1>5
  <2>2. Tail(a)[k] = b[j]
    BY <1>2, <1>3, <2>1 DEF Ending
  <2>3. Tail(a) # Absent
    BY <1>2 DEF HomeAssumption
  <2> QED
    BY <2>1, <2>2, <2>3 DEF Named
<1>6. Named(b, id) /\ Names(b[i], id) /\ EntryOf(s, Head(a)) = EntryOf(s, b[i])
  BY <1>2, <1>4 DEF Named
<1> HIDE DEF i
<1> QED
  BY <1>4, <1>5, <1>6, FourSources DEF Tells, Sources

-----------------------------------------------------------------------------
(* What opening the store leaves alone. *)
Untouched == UNCHANGED <<agentVars, report, writing, archiving, ghosts>>

(* The store is opened before the command does its own work. *)
LEMMA OpeningComesFirst ==
    ASSUME HomeInv, OpenStep
    PROVE  ~Opened /\ agent = Asleep /\ report = 0 /\ writing = Absent /\ ~archiving
<1>1. ~Opened
  BY FourSources DEF HomeInv, Todo, Opened, OpenStep, Open, PassOver, Register, Unset, Set, Forget, Leave, Sources
<1> QED
  BY <1>1 DEF HomeInv, Worked

LEMMA NotOpenKeepsWorked ==
    ASSUME HomeInv, OpenStep, Untouched, \A s \in Sources : sources[s] = Absent => sources'[s] = Absent
    PROVE  Worked'
  BY OpeningComesFirst DEF HomeInv, Worked, Untouched, agentVars, ghosts

(* A record in work is there because a source is; so no command has worked. *)
LEMMA StillTold ==
    ASSUME HomeInv, OpenStep, Untouched, NEW s \in Sources, sources[s] # Absent, NEW id \in Ids
    PROVE  /\ ~InGap(id)' /\ written' = Absent /\ legacy' = legacy
           /\ Tells(legacy, id, threads'[id]) => AsTold(id)'
  BY OpeningComesFirst DEF HomeInv, Worked, Untouched, ghosts, InGap, AsTold

(* A thread is carried over, or still has a record to come. *)
LEMMA CarriedStays ==
    ASSUME Carried, Untouched,
           \A id \in Ids :
             \/ threads'[id] = threads[id] /\ (Remaining(id) => Remaining(id)')
             \/ Remaining(id)'
             \/ AsTold(id)'
    PROVE  Carried'
  BY DEF Carried, Untouched, ghosts, AsTold, InGap

LEMMA OpenKeeps ==
    ASSUME HomeAssumption, HomeInv, Open, Untouched
    PROVE  HomeInv'
<1>1. /\ opening.at = 0 /\ opening' = Read(1) /\ UNCHANGED <<sources, registry, threads>>
      /\ UNCHANGED <<report, writing, ghosts>>
  BY DEF Open, Untouched
<1>2. /\ opening' \in [at : 0..LastSource + 1, todo : Seq(Records), phase : {"next", "removed", "set"}]
      /\ opening'.at = 1 /\ opening'.phase = "next"
  <2>1. (IF 1 > LastSource \/ sources[1] = Absent THEN <<>> ELSE sources[1]) \in Seq(Records)
    BY FourSources DEF HomeInv, OpeningTyped
  <2> QED
    BY <1>1, <2>1, FourSources DEF Read
<1>3. OpeningTyped'
  BY <1>1, <1>2 DEF HomeInv, OpeningTyped, ghosts
<1>4. Left'
  BY <1>1, <1>2, FourSources DEF HomeInv, Left, ghosts
<1>5. Todo'
  BY <1>1, <1>2, FourSources DEF Todo, Opened, Sources
<1>6. \A id \in Ids : Remaining(id) <=> Remaining(id)'
  BY <1>1, <1>2 DEF Remaining
<1>7. Carried'
  BY <1>1, <1>6, CarriedStays DEF HomeInv
<1>8. Worked'
  BY <1>1, NotOpenKeepsWorked DEF OpenStep
<1> QED
  BY <1>3, <1>4, <1>5, <1>7, <1>8 DEF HomeInv

(* The first record in work is done with; source 4 gives up its variable. *)
LEMMA TodoGetsShorter ==
    ASSUME HomeAssumption, HomeInv, opening.todo # <<>>, Untouched, threads' \in [Ids -> Entries \cup {Absent}],
           opening' = [at |-> opening.at, todo |-> Tail(opening.todo), phase |-> "next"],
           IF opening.at = LastSource
           THEN sources' = [sources EXCEPT ![LastSource] = Tail(sources[LastSource])]
           ELSE sources' = sources
    PROVE  /\ OpeningTyped' /\ Left' /\ Todo'
           /\ \A s \in Sources : sources[s] = Absent => sources'[s] = Absent
<1>1. /\ opening'.at = opening.at /\ opening'.todo = Tail(opening.todo) /\ opening'.phase = "next"
      /\ opening.at \in 1..4 /\ opening.todo \in Seq(Records) /\ Tail(opening.todo) \in Seq(Records)
      /\ UNCHANGED <<report, writing, ghosts>>
  <2>1. opening.at \in 0..5 /\ opening.todo \in Seq(Records)
    BY FourSources DEF HomeInv, OpeningTyped
  <2>2. opening.at # 0 /\ opening.at # 5
    BY FourSources DEF HomeInv, Todo, Opened
  <2>3. Tail(opening.todo) \in Seq(Records)
    BY <2>1, HeadTailProperties
  <2> QED
    BY <2>1, <2>2, <2>3 DEF Untouched
<1>2. CASE opening.at = LastSource
  <2> DEFINE rest == Tail(sources[4])
  <2>1. /\ sources[4] # Absent /\ opening.todo = sources[4] /\ sources' = [sources EXCEPT ![4] = rest]
        /\ rest \in Seq(Records) /\ rest = Tail(opening.todo) /\ rest # Absent
        /\ sources[4] \in Seq(Records) /\ legacy[4] \in Seq(Records) /\ legacy[4] # Absent
        /\ Ending(rest, legacy[4])
    <3>1. /\ sources[4] # Absent /\ opening.todo = sources[4] /\ sources' = [sources EXCEPT ![4] = rest]
          /\ legacy[4] # Absent /\ Ending(sources[4], legacy[4])
      BY <1>2, FourSources DEF HomeInv, Todo, Left
    <3>2. legacy[4] \in Seq(Records)
      BY <3>1, FourSources DEF HomeInv, OpeningTyped, HomeAssumption
    <3> QED
      BY <1>1, <3>1, <3>2, EndingOfTail DEF HomeAssumption
  <2> HIDE DEF rest
  <2>2. \A s \in 1..3 : sources'[s] = sources[s]
    BY <2>1, FourSources DEF HomeInv, OpeningTyped
  <2>3. sources'[4] = rest
    BY <2>1, FourSources DEF HomeInv, OpeningTyped
  <2>4. \A s \in 2..3 : sources[s] = Absent
    BY <1>2, FourSources DEF HomeInv, Left
  <2>5. OpeningTyped'
    <3>1. sources' \in [1..LastSource -> Seq(Records) \cup {Absent}]
      BY <2>1, FourSources DEF HomeInv, OpeningTyped
    <3>2. opening' \in [at : 0..LastSource + 1, todo : Seq(Records), phase : {"next", "removed", "set"}]
      <4>1. opening.at \in 0..LastSource + 1
        BY <1>1, FourSources
      <4> QED
        BY <1>1, <4>1
    <3> QED
      BY <1>1, <3>1, <3>2 DEF HomeInv, OpeningTyped, ghosts
  <2>6. Left'
    BY <1>1, <1>2, <2>1, <2>2, <2>3, <2>4, FourSources DEF Left, ghosts
  <2>7. Todo'
    BY <1>1, <1>2, <2>1, <2>3, FourSources DEF Todo, Opened
  <2> QED
    BY <2>1, <2>2, <2>4, <2>5, <2>6, <2>7, FourSources
<1>3. CASE opening.at # LastSource
  <2>1. sources' = sources
    BY <1>3
  <2>2. OpeningTyped'
    <3>1. opening' \in [at : 0..LastSource + 1, todo : Seq(Records), phase : {"next", "removed", "set"}]
      <4>1. opening.at \in 0..LastSource + 1
        BY <1>1, FourSources
      <4> QED
        BY <1>1, <4>1
    <3> QED
      BY <1>1, <2>1, <3>1 DEF HomeInv, OpeningTyped, ghosts
  <2>3. Left'
    BY <1>1, <2>1 DEF HomeInv, Left, ghosts
  <2>4. ASSUME opening.at \in Sources
        PROVE  sources[opening.at] # Absent /\ Ending(Tail(opening.todo), sources[opening.at])
    <3>1. sources[opening.at] # Absent /\ Ending(opening.todo, sources[opening.at])
      BY <1>3, <2>4 DEF HomeInv, Todo
    <3>2. sources[opening.at] \in Seq(Records)
      BY <1>1, <3>1, FourSources DEF HomeInv, OpeningTyped
    <3> QED
      BY <1>1, <3>1, <3>2, EndingOfTail
  <2>5. Todo'
    BY <1>1, <1>3, <2>1, <2>4, FourSources DEF Todo, Opened
  <2> QED
    BY <2>1, <2>2, <2>3, <2>5
<1> QED
  BY <1>2, <1>3

(* Only the thread of the first record has less to come when it is done.    *)
LEMMA OthersRemain ==
    ASSUME HomeAssumption, HomeInv, opening.todo # <<>>,
           opening'.at = opening.at, opening'.todo = Tail(opening.todo),
           \A s \in Sources : s > opening.at => sources'[s] = sources[s],
           NEW id, ~Names(Current, id) \/ opening.at < 2, Remaining(id),
           opening.at < 2 => sources' = sources
    PROVE  Remaining(id)'
<1>1. CASE opening.at < 2
  BY <1>1 DEF Remaining
<1>2. CASE ~(opening.at < 2)
  <2>1. opening.todo \in Seq(Records)
    BY DEF HomeInv, OpeningTyped
  <2>2. Named(opening.todo, id) => Named(Tail(opening.todo), id)
    BY <1>2, <2>1, NamedByHeadOrTail DEF Current
  <2> QED
    BY <1>2, <2>2 DEF Remaining
<1> QED
  BY <1>1, <1>2

LEMMA PassOverKeeps ==
    ASSUME HomeAssumption, HomeInv, PassOver, Untouched
    PROVE  HomeInv'
<1>1. /\ opening.todo # <<>> /\ ~Understood(Current) /\ opening.phase = "next"
      /\ opening' = [opening EXCEPT !.todo = Tail(opening.todo)]
      /\ UNCHANGED <<sources, registry, threads>>
  BY DEF PassOver, HomeInv, Todo, OpeningTyped
<1>2. opening' = [at |-> opening.at, todo |-> Tail(opening.todo), phase |-> "next"]
  BY <1>1 DEF HomeInv, OpeningTyped
<1>3. opening.at # LastSource
  <2> SUFFICES ASSUME opening.at = LastSource PROVE FALSE
    OBVIOUS
  <2>1. /\ opening.todo = sources[4] /\ legacy[4] # Absent /\ Ending(opening.todo, legacy[4])
    BY <1>1, FourSources DEF HomeInv, Todo, Left
  <2>2. legacy[4] \in Seq(Records) /\ opening.todo \in Seq(Records)
        /\ \A i \in DOMAIN legacy[4] : Understood(legacy[4][i])
    BY <2>1, FourSources DEF HomeInv, OpeningTyped, HomeAssumption
  <2> DEFINE b == legacy[4]
             i == Len(b) - Len(opening.todo) + 1
  <2>3. Current = b[i]
    BY <1>1, <2>1, <2>2, EndingOfTail DEF Current
  <2>4. i \in DOMAIN b
    <3>1. Len(opening.todo) \in Nat /\ Len(opening.todo) > 0 /\ Len(b) \in Nat /\ Len(opening.todo) <= Len(b)
          /\ DOMAIN b = 1..Len(b)
      BY <1>1, <2>1, <2>2, HeadTailProperties DEF Ending
    <3>2. \A m, n \in Nat : m > 0 /\ m <= n => n - m + 1 \in 1..n
      OBVIOUS
    <3> HIDE DEF b
    <3> QED
      BY <3>1, <3>2
  <2> QED
    BY <1>1, <2>2, <2>3, <2>4
<1>4. threads' \in [Ids -> Entries \cup {Absent}]
  BY <1>1 DEF HomeInv, OpeningTyped
<1>5. OpeningTyped' /\ Left' /\ Todo' /\ \A s \in Sources : sources[s] = Absent => sources'[s] = Absent
  BY <1>1, <1>2, <1>3, <1>4, TodoGetsShorter
<1>6. \A id : ~Names(Current, id)
  BY <1>1 DEF Names
<1>7. \A id \in Ids : Remaining(id) => Remaining(id)'
  BY <1>1, <1>2, <1>6, OthersRemain
<1>8. Carried'
  BY <1>1, <1>7, CarriedStays DEF HomeInv
<1>9. Worked'
  BY <1>5, NotOpenKeepsWorked DEF OpenStep
<1> QED
  BY <1>5, <1>8, <1>9 DEF HomeInv

LEMMA RegisterKeeps ==
    ASSUME HomeAssumption, HomeInv, Register, Untouched
    PROVE  HomeInv'
<1>1. /\ opening.todo # <<>> /\ opening.at = 1 /\ opening.phase = "next"
      /\ opening' = [opening EXCEPT !.todo = Tail(opening.todo)]
      /\ UNCHANGED <<sources, threads>>
  BY FourSources DEF Register, HomeInv, Todo, OpeningTyped
<1>2. opening' = [at |-> opening.at, todo |-> Tail(opening.todo), phase |-> "next"]
  BY <1>1 DEF HomeInv, OpeningTyped
<1>3. threads' \in [Ids -> Entries \cup {Absent}]
  BY <1>1 DEF HomeInv, OpeningTyped
<1>4. OpeningTyped' /\ Left' /\ Todo' /\ \A s \in Sources : sources[s] = Absent => sources'[s] = Absent
  <2>1. opening.at # LastSource /\ sources' = sources
    BY <1>1, FourSources
  <2> QED
    BY <1>1, <1>2, <1>3, <2>1, TodoGetsShorter
<1>5. \A id \in Ids : Remaining(id) => Remaining(id)'
  BY <1>1, <1>2, OthersRemain
<1>6. Carried'
  BY <1>1, <1>5, CarriedStays DEF HomeInv
<1>7. Worked'
  BY <1>4, NotOpenKeepsWorked DEF OpenStep
<1> QED
  BY <1>4, <1>6, <1>7 DEF HomeInv

(* While a thread has no entry, its record is still to be read. *)
LEMMA UnsetKeeps ==
    ASSUME HomeAssumption, HomeInv, Unset, Untouched
    PROVE  HomeInv'
<1>1. /\ opening.todo # <<>> /\ opening.at \in Sources /\ Understood(Current)
      /\ threads' = [threads EXCEPT ![Current.id] = Absent]
      /\ opening' = [opening EXCEPT !.phase = "removed"]
      /\ sources' = sources /\ UNCHANGED <<report, writing, ghosts>>
  BY DEF Unset, Sources, Untouched
<1>2. /\ opening' \in [at : 0..LastSource + 1, todo : Seq(Records), phase : {"next", "removed", "set"}]
      /\ opening'.at = opening.at /\ opening'.todo = opening.todo /\ opening'.phase = "removed"
  BY <1>1 DEF HomeInv, OpeningTyped
<1>3. OpeningTyped'
  BY <1>1, <1>2 DEF HomeInv, OpeningTyped, ghosts
<1>4. Left'
  BY <1>1, <1>2 DEF HomeInv, Left, ghosts
<1>5. Todo'
  BY <1>1, <1>2 DEF HomeInv, Todo, Opened, Current
<1>6. Remaining(Current.id)'
  <2>1. opening.todo \in Seq(Records) /\ Names(Current, Current.id)
    BY <1>1 DEF HomeInv, OpeningTyped, Names
  <2>2. Named(opening.todo, Current.id)
    BY <1>1, <2>1, NamedByHeadOrTail DEF Current
  <2> QED
    BY <1>1, <1>2, <2>2, FourSources DEF Remaining, Current
<1>7. \A id \in Ids : Remaining(id) <=> Remaining(id)'
  BY <1>1, <1>2 DEF Remaining
<1>8. ASSUME NEW id \in Ids
      PROVE  (threads'[id] = threads[id] /\ (Remaining(id) => Remaining(id)')) \/ Remaining(id)'
  <2>1. CASE id = Current.id
    <3>1. Current' = Current
      BY <1>2 DEF Current
    <3> QED
      BY <1>6, <2>1, <3>1
  <2>2. CASE id # Current.id
    BY <1>1, <1>7, <2>2 DEF HomeInv, OpeningTyped
  <2> QED
    BY <2>1, <2>2
<1>9. Carried'
  BY <1>8, CarriedStays DEF HomeInv
<1>10. Worked'
  BY <1>1, NotOpenKeepsWorked DEF OpenStep
<1> QED
  BY <1>3, <1>4, <1>5, <1>9, <1>10 DEF HomeInv

(* The record in work is the last word on its thread when no other record   *)
(* that is still to be read names it.                                       *)
LEMMA CurrentTells ==
    ASSUME HomeAssumption, HomeInv, opening.at \in Sources, opening.todo # <<>>, Understood(Current),
           ~Named(Tail(opening.todo), Current.id),
           \A s \in Sources : s > opening.at => ~Named(sources[s], Current.id)
    PROVE  Tells(legacy, Current.id, EntryOf(opening.at, Current))
<1>1. opening.todo \in Seq(Records) /\ legacy \in Legacies
  BY DEF HomeInv, OpeningTyped
<1>2. sources[opening.at] # Absent /\ legacy[opening.at] # Absent /\ Ending(opening.todo, legacy[opening.at])
  BY DEF HomeInv, Todo, Left
<1>3. ASSUME NEW u \in (opening.at + 1)..LastSource
      PROVE  ~Named(legacy[u], Current.id)
  <2>1. u \in Sources /\ opening.at < u
    BY FourSources
  <2>2. sources[u] = legacy[u]
    BY <1>2, <2>1 DEF HomeInv, Left
  <2>3. ~Named(sources[u], Current.id)
    BY <2>1, FourSources
  <2> QED
    BY <2>2, <2>3
<1>4. Names(Head(opening.todo), Current.id) /\ Current = Head(opening.todo)
  BY DEF Names, Current
<1> QED
  BY <1>1, <1>2, <1>3, <1>4, LastOneTells

LEMMA CurrentIsTyped ==
    ASSUME HomeInv, opening.at \in Sources, opening.todo # <<>>
    PROVE  /\ Current \in Records /\ Current.id \in Ids /\ EntryOf(opening.at, Current) \in Entries
           /\ opening.todo \in Seq(Records)
<1>1. opening.todo \in Seq(Records)
  BY DEF HomeInv, OpeningTyped
<1>2. Current \in Records
  BY <1>1, HeadTailProperties DEF Current
<1> QED
  BY <1>1, <1>2, EntryIsTyped DEF Records

LEMMA SetKeeps ==
    ASSUME HomeAssumption, HomeInv, Set, Untouched
    PROVE  HomeInv'
<1> DEFINE c == Current.id
           entry == EntryOf(opening.at, Current)
<1>1. /\ opening.phase = "removed" /\ opening.at \in Sources /\ opening.todo # <<>> /\ Understood(Current)
      /\ threads' = [threads EXCEPT ![c] = entry] /\ sources' = sources
      /\ UNCHANGED <<report, writing, ghosts>>
  BY DEF Set, HomeInv, Todo, Untouched
<1>2. c \in Ids /\ entry \in Entries /\ opening.todo \in Seq(Records) /\ Current \in Records
  BY <1>1, CurrentIsTyped
<1>3. /\ threads' \in [Ids -> Entries \cup {Absent}] /\ threads'[c] = entry
      /\ \A id \in Ids : id # c => threads'[id] = threads[id]
  BY <1>1, <1>2 DEF HomeInv, OpeningTyped
<1>4. Worked'
  BY <1>1, NotOpenKeepsWorked DEF OpenStep
<1>5. CASE opening.at = LastSource
  <2>1. /\ opening' \in [at : 0..LastSource + 1, todo : Seq(Records), phase : {"next", "removed", "set"}]
        /\ opening'.at = opening.at /\ opening'.todo = opening.todo /\ opening'.phase = "set"
    BY <1>5, FourSources DEF Set, HomeInv, OpeningTyped
  <2>2. OpeningTyped'
    BY <1>1, <1>3, <2>1 DEF HomeInv, OpeningTyped, ghosts
  <2>3. Left'
    BY <1>1, <2>1 DEF HomeInv, Left, ghosts
  <2>4. threads'[Current'.id] = EntryOf(LastSource, Current')
    BY <1>3, <1>5, <2>1 DEF Current
  <2>5. Todo'
    BY <1>1, <1>5, <2>1, <2>4 DEF HomeInv, Todo, Opened, Current
  <2>6. ASSUME NEW id \in Ids
        PROVE  (threads'[id] = threads[id] /\ (Remaining(id) => Remaining(id)')) \/ Remaining(id)'
    <3>1. Remaining(id) => Remaining(id)'
      BY <1>1, <2>1 DEF Remaining
    <3>2. CASE id # c
      BY <1>3, <3>1, <3>2
    <3>3. CASE id = c
      <4>1. Names(Current, id)
        BY <1>1, <3>3 DEF Names
      <4>2. Named(opening.todo, id)
        BY <1>1, <1>2, <4>1, NamedByHeadOrTail DEF Current
      <4> QED
        BY <1>1, <3>1, <4>2, FourSources DEF Remaining
    <3> QED
      BY <3>2, <3>3
  <2>7. Carried'
    BY <2>6, CarriedStays DEF HomeInv
  <2> QED
    BY <1>4, <2>2, <2>3, <2>5, <2>7 DEF HomeInv
<1>6. CASE opening.at # LastSource
  <2>1. opening' = [at |-> opening.at, todo |-> Tail(opening.todo), phase |-> "next"]
    BY <1>6, FourSources DEF Set, HomeInv, OpeningTyped
  <2>2. OpeningTyped' /\ Left' /\ Todo'
    BY <1>1, <1>3, <1>6, <2>1, TodoGetsShorter
  <2>3. ASSUME NEW id \in Ids
        PROVE  \/ threads'[id] = threads[id] /\ (Remaining(id) => Remaining(id)')
               \/ Remaining(id)' \/ AsTold(id)'
    <3>1. CASE id # c
      <4>1. ~Names(Current, id)
        BY <3>1 DEF Names
      <4> QED
        BY <1>1, <1>3, <2>1, <3>1, <4>1, OthersRemain
    <3>2. CASE id = c /\ ~Remaining(id)'
      <4>1. /\ ~Named(Tail(opening.todo), Current.id)
            /\ \A s \in Sources : s > opening.at => ~Named(sources[s], Current.id)
        BY <1>1, <2>1, <3>2, FourSources DEF Remaining
      <4>2. Tells(legacy, id, threads'[id])
        BY <1>1, <1>3, <3>2, <4>1, CurrentTells
      <4>3. sources[opening.at] # Absent
        BY <1>1 DEF HomeInv, Todo
      <4> QED
        BY <1>1, <4>2, <4>3, StillTold DEF OpenStep
    <3> QED
      BY <3>1, <3>2
  <2>4. Carried'
    BY <2>3, CarriedStays DEF HomeInv
  <2> QED
    BY <1>4, <2>2, <2>4 DEF HomeInv
<1> QED
  BY <1>5, <1>6

(* The old variable goes when the thread has its entry from it. *)
LEMMA ForgetKeeps ==
    ASSUME HomeAssumption, HomeInv, Forget, Untouched
    PROVE  HomeInv'
<1> DEFINE c == Current.id
<1>1. /\ opening.at = LastSource /\ opening.at \in Sources /\ opening.todo # <<>> /\ Understood(Current)
      /\ threads[c] = EntryOf(opening.at, Current)
      /\ sources' = [sources EXCEPT ![LastSource] = Tail(sources[LastSource])]
      /\ UNCHANGED <<registry, threads>>
  BY FourSources DEF Forget, HomeInv, Todo
<1>2. opening' = [at |-> opening.at, todo |-> Tail(opening.todo), phase |-> "next"]
  BY DEF Forget, HomeInv, OpeningTyped
<1>3. c \in Ids /\ opening.todo \in Seq(Records)
  BY <1>1, CurrentIsTyped
<1>4. threads' \in [Ids -> Entries \cup {Absent}]
  BY <1>1 DEF HomeInv, OpeningTyped
<1>5. OpeningTyped' /\ Left' /\ Todo' /\ \A s \in Sources : sources[s] = Absent => sources'[s] = Absent
  BY <1>1, <1>2, <1>4, TodoGetsShorter
<1>6. Worked'
  BY <1>5, NotOpenKeepsWorked DEF OpenStep
<1>7. ASSUME NEW id \in Ids
      PROVE  \/ threads'[id] = threads[id] /\ (Remaining(id) => Remaining(id)')
             \/ Remaining(id)' \/ AsTold(id)'
  <2>1. \A s \in Sources : ~(s > opening.at)
    BY <1>1, FourSources
  <2>2. CASE id # c
    <3>1. ~Names(Current, id)
      BY <2>2 DEF Names
    <3> QED
      BY <1>1, <1>2, <2>1, <3>1, FourSources, OthersRemain
  <2>3. CASE id = c /\ ~Remaining(id)'
    <3>1. ~Named(Tail(opening.todo), Current.id)
      BY <1>1, <1>2, <2>3, FourSources DEF Remaining
    <3>2. Tells(legacy, id, threads'[id])
      BY <1>1, <2>1, <2>3, <3>1, CurrentTells
    <3>3. sources[opening.at] # Absent
      BY <1>1 DEF HomeInv, Todo
    <3> QED
      BY <1>1, <3>2, <3>3, StillTold DEF OpenStep
  <2> QED
    BY <2>2, <2>3
<1>8. Carried'
  BY <1>7, CarriedStays DEF HomeInv
<1> QED
  BY <1>5, <1>6, <1>8 DEF HomeInv

(* A source that has been read is given up, and the next one is read. *)
LEMMA LeaveKeeps ==
    ASSUME HomeAssumption, HomeInv, Leave, Untouched
    PROVE  HomeInv'
<1> DEFINE at == opening.at
<1>1. /\ at \in 1..4 /\ opening.todo = <<>> /\ opening.phase = "next"
      /\ sources' = [sources EXCEPT ![at] = Absent] /\ opening' = Read(at + 1)
      /\ UNCHANGED <<threads, report, writing, ghosts>>
  BY FourSources DEF Leave, HomeInv, Todo, OpeningTyped, Untouched
<1> HIDE DEF at
<1>2. /\ sources'[at] = Absent /\ \A s \in 1..4 : s # at => sources'[s] = sources[s]
      /\ sources' \in [1..LastSource -> Seq(Records) \cup {Absent}]
  BY <1>1, FourSources DEF HomeInv, OpeningTyped
<1> DEFINE todo == IF at + 1 > LastSource \/ sources[at + 1] = Absent THEN <<>> ELSE sources[at + 1]
<1>3. todo \in Seq(Records)
  <2>1. <<>> \in Seq(Records)
    OBVIOUS
  <2> QED
    BY <1>1, <2>1, FourSources DEF HomeInv, OpeningTyped
<1>4. opening' = [at |-> at + 1, phase |-> "next", todo |-> todo]
  BY <1>1 DEF Read
<1>5. OpeningTyped'
  <2>1. opening' \in [at : 0..LastSource + 1, todo : Seq(Records), phase : {"next", "removed", "set"}]
    <3>1. at + 1 \in 0..LastSource + 1
      BY <1>1, FourSources
    <3> HIDE DEF todo
    <3> QED
      BY <1>3, <1>4, <3>1
  <2> QED
    BY <1>1, <1>2, <2>1 DEF HomeInv, OpeningTyped, ghosts
<1>6. opening'.at = at + 1 /\ opening'.todo = todo /\ opening'.phase = "next"
  BY <1>4
<1>7. Left'
  BY <1>1, <1>2, <1>6, FourSources DEF HomeInv, Left, ghosts, at
<1>8. ASSUME at + 1 \in Sources, todo # <<>>
      PROVE  /\ sources'[at + 1] # Absent
             /\ todo = sources'[at + 1] /\ Ending(todo, sources'[at + 1])
  <2>1. sources'[at + 1] = sources[at + 1] /\ todo = sources[at + 1] /\ sources[at + 1] # Absent
    BY <1>1, <1>2, <1>8, FourSources
  <2> QED
    BY <1>3, <2>1, WholeIsEnding
<1>9. Todo'
  <2>1. at + 1 > LastSource => todo = <<>>
    OBVIOUS
  <2> HIDE DEF todo
  <2> QED
    BY <1>1, <1>6, <1>8, <2>1, FourSources DEF Todo, Opened
<1>10. ASSUME NEW id \in Ids, Remaining(id)
       PROVE  Remaining(id)'
  <2>1. ~Named(opening.todo, id)
    BY <1>1, NothingIsNamed
  <2>2. PICK s \in Sources : s > at /\ Named(sources[s], id)
    <3>1. CASE at < 2
      <4>1. PICK s \in Sources : Named(sources[s], id)
        BY <1>10, <3>1 DEF Remaining, at
      <4>2. s > at
        BY <1>1, <3>1, FourSources
      <4> QED
        BY <4>1, <4>2
    <3>2. CASE ~(at < 2)
      BY <1>10, <2>1, <3>2 DEF Remaining, at
    <3> QED
      BY <3>1, <3>2
  <2>3. sources'[s] = sources[s] /\ sources[s] # Absent
    BY <1>1, <1>2, <2>2, FourSources DEF Named
  <2>4. s = at + 1 => todo = sources[s]
    BY <2>2, <2>3, FourSources
  <2> HIDE DEF todo
  <2> QED
    BY <1>1, <1>6, <2>2, <2>3, <2>4, FourSources DEF Remaining
<1>11. Carried'
  BY <1>1, <1>10, CarriedStays DEF HomeInv
<1>12. Worked'
  BY <1>1, <1>2, FourSources, NotOpenKeepsWorked DEF OpenStep
<1> QED
  BY <1>5, <1>7, <1>9, <1>11, <1>12 DEF HomeInv

-----------------------------------------------------------------------------
(* In an open store there is nothing left to carry over. *)
LEMMA OpenedIsDone ==
    ASSUME HomeAssumption, HomeInv, Opened
    PROVE  /\ \A s \in Sources : sources[s] = Absent
           /\ \A id \in Ids : ~Remaining(id) /\ AsTold(id)
<1>1. opening.at = 5 /\ opening.todo = <<>>
  BY FourSources DEF HomeInv, OpeningTyped, Todo, Opened
<1>2. \A s \in Sources : sources[s] = Absent
  BY <1>1, FourSources DEF HomeInv, Left
<1>3. \A id \in Ids : ~Remaining(id)
  BY <1>1, FourSources, NothingIsNamed DEF Remaining
<1> QED
  BY <1>2, <1>3 DEF HomeInv, Carried

LEMMA OpenedStays ==
    ASSUME HomeInv, Opened, UNCHANGED <<sources, opening, legacy>>
    PROVE  Left' /\ Todo' /\ Opened'
<1>1. opening.phase = "next"
  BY FourSources DEF HomeInv, Todo, Opened
<1> QED
  BY <1>1, FourSources DEF HomeInv, Left, Todo, Opened, Sources

(* An agent is started, works, dies or reports in a store that is open. *)
LEMMA AgentKeepsHome ==
    ASSUME HomeAssumption, HomeInv, Opened, ~torn, writing = Absent, ~archiving,
           UNCHANGED <<openVars, writing, archiving, legacy, written, torn>>,
           report' \in Nat, report' = 0 \/ agent' = Asleep
    PROVE  HomeInv'
<1>1. OpeningTyped'
  BY DEF HomeInv, OpeningTyped, openVars
<1>2. Left' /\ Todo' /\ Opened'
  BY OpenedStays DEF openVars
<1>3. Carried'
  BY OpenedIsDone DEF Carried, AsTold, InGap, openVars
<1>4. Worked'
  BY <1>2 DEF HomeInv, Worked, openVars
<1> QED
  BY <1>1, <1>2, <1>3, <1>4 DEF HomeInv

(* setThread takes the entry of the thread away and then sets it. *)
LEMMA GapKeepsHome ==
    ASSUME HomeAssumption, HomeInv, Opened, ~torn, agent = Asleep, agent' = Asleep,
           writing' \in Entries, threads' = [threads EXCEPT ![TheThread] = Absent], report' = 0,
           UNCHANGED <<sources, opening, legacy, written, torn>>
    PROVE  HomeInv'
<1>1. writing' # Absent
  BY DEF HomeAssumption
<1>2. OpeningTyped'
  BY DEF HomeInv, OpeningTyped
<1>3. Left' /\ Todo' /\ Opened'
  BY OpenedStays
<1>4. ASSUME NEW id \in Ids
      PROVE  AsTold(id)'
  <2>1. CASE id = TheThread
    BY <1>1, <2>1 DEF AsTold, InGap, HomeInv, OpeningTyped
  <2>2. CASE id # TheThread
    BY <2>2, OpenedIsDone DEF AsTold, InGap, HomeInv, OpeningTyped
  <2> QED
    BY <2>1, <2>2
<1>5. Carried'
  BY <1>4 DEF Carried
<1>6. Worked'
  BY <1>3, OpenedIsDone DEF Worked
<1> QED
  BY <1>2, <1>3, <1>5, <1>6 DEF HomeInv

LEMMA WriteKeepsHome ==
    ASSUME HomeAssumption, HomeInv, Write
    PROVE  HomeInv'
<1>1. /\ Opened /\ ~torn /\ agent = Asleep /\ report = 0 /\ writing \in Entries /\ writing # Absent
      /\ threads' = [threads EXCEPT ![TheThread] = writing] /\ written' = writing /\ writing' = Absent
      /\ UNCHANGED <<sources, opening, legacy, torn, agent, report>>
  BY DEF HomeInv, Worked, Write, OpeningTyped, agentVars
<1>2. OpeningTyped'
  BY <1>1 DEF HomeInv, OpeningTyped
<1>3. Left' /\ Todo' /\ Opened'
  BY <1>1, OpenedStays
<1>4. ASSUME NEW id \in Ids
      PROVE  AsTold(id)'
  <2>1. CASE id = TheThread
    BY <1>1, <2>1 DEF AsTold, InGap, HomeInv, OpeningTyped
  <2>2. CASE id # TheThread
    BY <1>1, <2>2, OpenedIsDone DEF AsTold, InGap, HomeInv, OpeningTyped
  <2> QED
    BY <2>1, <2>2
<1>5. Carried'
  BY <1>4 DEF Carried
<1>6. Worked'
  BY <1>1, <1>3, OpenedIsDone DEF Worked
<1> QED
  BY <1>2, <1>3, <1>5, <1>6 DEF HomeInv

(* A kill leaves as much to read as there was, or more. *)
LEMMA ExitKeepsHome ==
    ASSUME HomeAssumption, HomeInv, Exit
    PROVE  HomeInv'
<1>1. /\ opening' = Closed /\ UNCHANGED <<sources, threads, legacy, written>>
      /\ agent' = Asleep /\ report' = 0 /\ writing' = Absent /\ ~archiving'
      /\ torn' = (torn \/ writing # Absent)
  BY DEF Exit, Close
<1>2. /\ opening' \in [at : 0..LastSource + 1, todo : Seq(Records), phase : {"next", "removed", "set"}]
      /\ opening'.at = 0 /\ opening'.todo = <<>> /\ opening'.phase = "next"
  <2>1. <<>> \in Seq(Records)
    OBVIOUS
  <2> QED
    BY <1>1, <2>1, FourSources DEF Closed
<1>3. OpeningTyped'
  BY <1>1, <1>2 DEF HomeInv, OpeningTyped
<1>4. Left'
  BY <1>1, <1>2, FourSources DEF HomeInv, Left
<1>5. Todo'
  BY <1>2, FourSources DEF Todo
<1>6. ASSUME NEW id \in Ids, ~Remaining(id)'
      PROVE  AsTold(id)'
  <2>1. \A s \in Sources : ~Named(sources[s], id)
    BY <1>1, <1>2, <1>6 DEF Remaining
  <2>2. ASSUME opening.at \in Sources, opening.todo # <<>>
        PROVE  ~Named(opening.todo, id)
    <3>1. opening.todo \in Seq(Records) /\ sources[opening.at] \in Seq(Records)
      BY <2>2, FourSources DEF HomeInv, Todo, OpeningTyped
    <3>2. Ending(opening.todo, sources[opening.at])
      BY <2>2, <3>1, WholeIsEnding DEF HomeInv, Todo
    <3>3. ~Named(sources[opening.at], id)
      BY <2>1, <2>2
    <3> QED
      BY <3>1, <3>2, <3>3, NamedInEnding
  <2>3. opening.at < 2 \/ ~Named(opening.todo, id)
    <3>1. opening.at \in 0..5 /\ (Opened => opening.todo = <<>>)
      BY FourSources DEF HomeInv, OpeningTyped, Todo
    <3>2. opening.at < 2 \/ opening.at \in Sources \/ Opened
      BY <3>1, FourSources DEF Opened
    <3>3. opening.todo = <<>> => ~Named(opening.todo, id)
      BY NothingIsNamed
    <3> QED
      BY <2>2, <3>1, <3>2, <3>3
  <2>4. ~Remaining(id)
    BY <2>1, <2>3 DEF Remaining
  <2> QED
    BY <1>1, <2>4 DEF HomeInv, Carried, AsTold, InGap
<1>7. Carried'
  BY <1>6 DEF Carried
<1>8. Worked'
  BY <1>1, OpenedIsDone DEF HomeInv, Worked
<1> QED
  BY <1>3, <1>4, <1>5, <1>7, <1>8 DEF HomeInv

-----------------------------------------------------------------------------
(* No command works in a store whose thread was lost in setThread. *)
LEMMA LostIsNotWorkedOn ==
    ASSUME HomeAssumption, HomeInv, Free, threads[TheThread] # Absent
    PROVE  Opened /\ ~torn /\ agent = Asleep /\ report = 0 /\ writing = Absent /\ ~archiving
<1>1. Opened /\ agent = Asleep /\ report = 0 /\ writing = Absent /\ ~archiving
  BY DEF Free
<1>2. AsTold(TheThread)
  BY <1>1, OpenedIsDone DEF HomeAssumption
<1> QED
  BY <1>1, <1>2 DEF AsTold, InGap

LEMMA ArchiveKeepsHome ==
    ASSUME HomeAssumption, HomeInv, NEW status \in {"end", "cancelled"}, Archive(status)
    PROVE  HomeInv'
<1>1. Opened /\ ~torn /\ agent = Asleep /\ report = 0
  BY LostIsNotWorkedOn DEF Archive
<1>2. threads[TheThread] \in Entries
  BY DEF Archive, HomeInv, OpeningTyped, HomeAssumption
<1>3. writing' = [threads[TheThread] EXCEPT !.status = status]
  BY DEF Archive
<1>4. writing' \in Entries
  BY <1>2, <1>3 DEF Entries
<1> QED
  BY <1>1, <1>4, GapKeepsHome DEF Archive, agentVars, ghosts

LEMMA TakeKeepsHome ==
    ASSUME HomeAssumption, HomeInv, Take
    PROVE  HomeInv'
<1>1. /\ Opened /\ ~torn /\ agent = Asleep /\ agent' = Asleep /\ writing = Absent /\ ~archiving
      /\ report' = 0 /\ UNCHANGED <<sources, registry, opening, archiving, legacy, written, torn>>
  BY DEF Take, HomeInv, Worked, agentVars, ghosts
<1>2. CASE steps[report].ok
  <2>1. writing' = [head |-> report, status |-> "idle"] /\ threads' = [threads EXCEPT ![TheThread] = Absent]
    BY <1>2 DEF Take
  <2>2. writing' \in Entries
    BY <2>1 DEF Entries, HomeInv, OpeningTyped
  <2> QED
    BY <1>1, <2>1, <2>2, GapKeepsHome
<1>3. CASE ~steps[report].ok
  <2>1. UNCHANGED openVars /\ writing' = writing
    BY <1>1, <1>3 DEF Take, openVars
  <2> QED
    BY <1>1, <2>1, AgentKeepsHome
<1> QED
  BY <1>2, <1>3

-----------------------------------------------------------------------------
Inv == HomeInv /\ AgentInv

LEMMA InvHolds == Spec => []Inv
<1> USE LoopAssumption, HomeAssumption
<1>1. Init => Inv
  <2> SUFFICES ASSUME Init PROVE Inv
    OBVIOUS
  <2>1. /\ legacy \in Legacies /\ sources = legacy /\ threads = [id \in Ids |-> Absent] /\ opening = Closed
        /\ report = 0 /\ writing = Absent /\ archiving = FALSE /\ written = Absent /\ torn = FALSE
        /\ reported = {} /\ agent = Asleep /\ steps = <<>> /\ failed = [r \in Roles |-> <<>>]
    BY DEF Init, OpenInit, AgentInit
  <2>2. /\ opening \in [at : 0..LastSource + 1, todo : Seq(Records), phase : {"next", "removed", "set"}]
        /\ opening.at = 0 /\ opening.todo = <<>> /\ opening.phase = "next"
    <3>1. <<>> \in Seq(Records)
      OBVIOUS
    <3> QED
      BY <2>1, <3>1, FourSources DEF Closed
  <2>3. OpeningTyped
    BY <2>1, <2>2 DEF OpeningTyped
  <2>4. Left
    <3>1. legacy[4] # Absent => Ending(legacy[4], legacy[4])
      BY <2>1, FourSources, WholeIsEnding
    <3> QED
      BY <2>1, <2>2, <3>1, FourSources DEF Left
  <2>5. Todo
    BY <2>2, FourSources DEF Todo
  <2>6. ASSUME NEW id \in Ids, ~Remaining(id) PROVE AsTold(id)
    <3>1. \A s \in 2..LastSource : ~Named(legacy[s], id)
      BY <2>1, <2>2, <2>6 DEF Remaining, Sources
    <3> QED
      BY <2>1, <3>1 DEF AsTold, InGap, Tells
  <2>7. Carried
    BY <2>6 DEF Carried
  <2>8. Worked
    BY <2>1 DEF Worked
  <2>9. HomeInv
    BY <2>3, <2>4, <2>5, <2>7, <2>8 DEF HomeInv
  <2>10. StepsTyped
    <3>1. <<>> \in Seq(Nat) /\ <<>> \in Seq(Step)
      OBVIOUS
    <3> QED
      BY <2>1, <3>1 DEF StepsTyped
  <2>11. DOMAIN steps = {}
    BY <2>1
  <2>12. AgentTyped /\ Running /\ OwnWords /\ Reporting /\ Attempts
    BY <2>1, <2>11 DEF AgentTyped, Running, OwnWords, Reporting, Attempts, AttemptsTold
  <2> QED
    BY <2>9, <2>10, <2>12 DEF Inv, AgentInv
<1>2. Inv /\ [Next]_vars => Inv'
  <2> SUFFICES ASSUME Inv, [Next]_vars PROVE Inv'
    OBVIOUS
  <2> USE DEF Inv
  <2>1. CASE Opening
    <3>1. OpenStep /\ Untouched
      BY <2>1 DEF Opening, Untouched
    <3>2. HomeInv'
      BY <3>1, OpenKeeps, PassOverKeeps, RegisterKeeps, UnsetKeeps, SetKeeps, ForgetKeeps, LeaveKeeps
      DEF OpenStep
    <3>3. AgentInv'
      BY <3>1, RestKeeps DEF Untouched, agentVars, ghosts, AgentInv, StepsTyped
    <3> QED
      BY <3>2, <3>3
  <2>2. CASE Working
    <3>1. AgentStep /\ agent # Asleep /\ UNCHANGED <<openVars, report, writing, archiving, ghosts>>
      BY <2>2 DEF Working
    <3>2. AgentInv'
      BY <3>1, LoopKeeps, StoreFailureKeeps, AppendFailureKeeps, StoreSuccessKeeps, ClearFailuresKeeps
      DEF AgentStep, ghosts
    <3>3. HomeInv'
      BY <3>1, AgentKeepsHome DEF HomeInv, Worked, OpeningTyped, ghosts
    <3> QED
      BY <3>2, <3>3
  <2>3. CASE Report
    <3>1. AgentInv'
      BY <2>3, ReportKeeps
    <3>2. agent # Asleep
      BY <2>3 DEF Report, Asleep
    <3>3. HomeInv'
      BY <2>3, <3>1, <3>2, AgentKeepsHome DEF Report, HomeInv, Worked, AgentInv, StepsTyped
    <3> QED
      BY <3>1, <3>3
  <2>4. CASE Take
    <3>1. AgentInv'
      BY <2>4, RestKeeps DEF Take, agentVars, ghosts
    <3> QED
      BY <2>4, <3>1, TakeKeepsHome
  <2>5. CASE Write
    <3>1. AgentInv'
      BY <2>5, RestKeeps DEF Write, agentVars, AgentInv, StepsTyped
    <3> QED
      BY <2>5, <3>1, WriteKeepsHome
  <2>6. CASE Archived
    <3>1. AgentInv'
      BY <2>6, RestKeeps DEF Archived, agentVars, ghosts, AgentInv, StepsTyped
    <3>2. HomeInv'
      <4>1. /\ UNCHANGED <<openVars, agent, report, writing, legacy, written, torn>> /\ ~archiving'
        BY <2>6 DEF Archived, agentVars, ghosts
      <4>2. OpeningTyped' /\ Left' /\ Todo'
        BY <4>1 DEF HomeInv, OpeningTyped, Left, Todo, openVars, Opened, Current
      <4>3. Carried'
        BY <4>1 DEF HomeInv, Carried, Remaining, AsTold, InGap, openVars
      <4>4. Worked'
        BY <4>1 DEF HomeInv, Worked, openVars, Opened
      <4> QED
        BY <4>2, <4>3, <4>4 DEF HomeInv
    <3> QED
      BY <3>1, <3>2
  <2>7. CASE AgentDies
    <3>1. AgentInv'
      BY <2>7, RestKeeps DEF AgentDies, Die, ghosts, AgentInv, StepsTyped
    <3>2. HomeInv'
      BY <2>7, <3>1, AgentKeepsHome DEF AgentDies, Die, ghosts, HomeInv, Worked, AgentInv, StepsTyped
    <3> QED
      BY <3>1, <3>2
  <2>8. CASE Exit
    <3>1. AgentInv'
      BY <2>8, RestKeeps DEF Exit
    <3> QED
      BY <2>8, <3>1, ExitKeepsHome
  <2>9. ASSUME NEW role \in Roles, Exec(role) PROVE Inv'
    <3>1. AgentInv'
      BY <2>9, ExecKeeps DEF HomeInv
    <3>2. HomeInv'
      BY <2>9, <3>1, LostIsNotWorkedOn, AgentKeepsHome DEF Exec, ghosts, AgentInv, StepsTyped
    <3> QED
      BY <3>1, <3>2
  <2>10. ASSUME NEW role \in Roles, ClearOf(role) PROVE Inv'
    <3>1. AgentInv'
      BY <2>10, ClearOfKeeps DEF HomeInv
    <3>2. HomeInv'
      <4>1. UNCHANGED <<openVars, agent, report, writing, archiving, legacy, written, torn>>
        BY <2>10 DEF ClearOf
      <4>2. OpeningTyped' /\ Left' /\ Todo'
        BY <4>1 DEF HomeInv, OpeningTyped, Left, Todo, openVars, Opened, Current
      <4>3. Carried'
        BY <4>1 DEF HomeInv, Carried, Remaining, AsTold, InGap, openVars
      <4>4. Worked'
        BY <4>1 DEF HomeInv, Worked, openVars, Opened
      <4> QED
        BY <4>2, <4>3, <4>4 DEF HomeInv
    <3> QED
      BY <3>1, <3>2
  <2>11. ASSUME NEW status \in {"end", "cancelled"}, Archive(status) PROVE Inv'
    <3>1. AgentInv'
      BY <2>11, RestKeeps DEF Archive, agentVars, ghosts, AgentInv, StepsTyped
    <3> QED
      BY <2>11, <3>1, ArchiveKeepsHome
  <2>12. CASE UNCHANGED vars
    <3>1. UNCHANGED <<openVars, agentVars, report, writing, archiving, ghosts>>
      BY <2>12 DEF vars
    <3>2. AgentInv'
      BY <3>1, RestKeeps DEF agentVars, ghosts, AgentInv, StepsTyped
    <3>3. OpeningTyped' /\ Left' /\ Todo'
      BY <3>1 DEF HomeInv, OpeningTyped, Left, Todo, openVars, Opened, Current, ghosts
    <3>4. Carried'
      BY <3>1 DEF HomeInv, Carried, Remaining, AsTold, InGap, openVars, ghosts
    <3>5. Worked'
      BY <3>1 DEF HomeInv, Worked, openVars, agentVars, Opened, ghosts
    <3> QED
      BY <3>2, <3>3, <3>4, <3>5 DEF HomeInv
  <2> QED
    BY <2>1, <2>2, <2>3, <2>4, <2>5, <2>6, <2>7, <2>8, <2>9, <2>10, <2>11, <2>12 DEF Next
<1> QED
  BY <1>1, <1>2, PTL DEF Spec

-----------------------------------------------------------------------------
(* Every set of natural numbers has a least one. *)
LEMMA LeastOne ==
    ASSUME NEW S, S \subseteq Nat, S # {}
    PROVE  Min(S) \in S /\ Min(S) \in Nat /\ \A n \in S : Min(S) <= n
<1> DEFINE R == OpToRel(<, Nat)
<1>1. PICK m \in S : \A k \in S : <<k, m>> \notin R
  <2>1. IsWellFoundedOn(R, Nat)
    BY NatLessThanWellFounded
  <2> HIDE DEF R
  <2> QED
    BY <2>1, WFMin
<1>2. \A k \in S : ~(k < m)
  BY <1>1 DEF OpToRel
<1>3. ASSUME NEW k \in S PROVE m <= k
  <2>1. k \in Nat /\ m \in Nat
    BY <1>1
  <2> QED
    BY <1>2, <2>1
<1> HIDE DEF R
<1> QED
  BY <1>1, <1>3 DEF Min

(* A set of natural numbers with a bound has a greatest one. *)
LEMMA GreatestOne ==
    ASSUME NEW n \in Nat, NEW S, S \subseteq 0..n, S # {}
    PROVE  Max(S) \in S /\ Max(S) \in 0..n /\ \A k \in S : k <= Max(S)
<1> DEFINE T == {n - k : k \in S}
<1>1. T \subseteq Nat /\ T # {}
  <2>1. PICK k \in S : TRUE
    OBVIOUS
  <2>2. n - k \in T
    BY <2>1
  <2>3. \A j \in S : n - j \in Nat
    OBVIOUS
  <2> QED
    BY <2>2, <2>3
<1>2. Min(T) \in T /\ \A x \in T : Min(T) <= x
  BY <1>1, LeastOne
<1>3. PICK m \in S : Min(T) = n - m
  BY <1>2
<1>4. ASSUME NEW k \in S PROVE k <= m
  <2>1. n - m <= n - k
    BY <1>2, <1>3
  <2>2. k \in 0..n /\ m \in 0..n
    BY <1>3
  <2> QED
    BY <2>1, <2>2
<1>5. \A k \in S : m >= k
  BY <1>3, <1>4
<1> HIDE DEF T
<1> QED
  BY <1>3, <1>5 DEF Max

LEMMA LeastIs ==
    ASSUME NEW S, S \subseteq Nat, NEW m \in S, \A n \in S : m <= n
    PROVE  Min(S) = m
<1>1. Min(S) \in S /\ Min(S) <= m
  BY LeastOne
<1>2. Min(S) \in Nat /\ m \in Nat /\ m <= Min(S)
  BY <1>1
<1> QED
  BY <1>1, <1>2

LEMMA GreatestIs ==
    ASSUME NEW n \in Nat, NEW S, S \subseteq 0..n, NEW m \in S, \A k \in S : k <= m
    PROVE  Max(S) = m
<1>1. Max(S) \in S /\ m <= Max(S) /\ Max(S) <= m
  BY GreatestOne
<1>2. Max(S) \in Nat /\ m \in Nat
  <2>1. Max(S) \in 0..n /\ m \in 0..n
    BY <1>1
  <2> QED
    BY <2>1
<1> QED
  BY <1>1, <1>2

(* A set that holds a number whenever it holds all the smaller ones. *)
LEMMA UpTo ==
    ASSUME NEW n \in Nat, NEW S,
           \A k \in 0..n : (\A j \in 0..n : j < k => j \in S) => k \in S
    PROVE  \A k \in 0..n : k \in S
<1> SUFFICES ASSUME (0..n) \ S # {} PROVE FALSE
  OBVIOUS
<1> DEFINE T == (0..n) \ S
<1>1. T \subseteq Nat /\ T # {}
  OBVIOUS
<1>2. Min(T) \in T /\ Min(T) \in Nat /\ \A j \in T : Min(T) <= j
  BY <1>1, LeastOne
<1>3. ASSUME NEW j \in 0..n, j < Min(T) PROVE j \in S
  BY <1>2, <1>3
<1> QED
  BY <1>2, <1>3

-----------------------------------------------------------------------------
(* A walk back over numbered things, each of which comes after the one it   *)
(* names.                                                                   *)
LEMMA WalkExists ==
    ASSUME NEW n \in Nat, NEW prev, \A k \in 1..n : prev[k] \in 0..(k - 1)
    PROVE  \E walk : walk = [k \in 0..n |-> IF k = 0 THEN <<>> ELSE Append(walk[prev[k]], k)]
<1> DEFINE Walks(m) == \E walk : walk = [k \in 0..m |-> IF k = 0 THEN <<>> ELSE Append(walk[prev[k]], k)]
           S == {m \in 0..n : Walks(m)}
<1>1. ASSUME NEW m \in 0..n, \A j \in 0..n : j < m => j \in S
      PROVE  m \in S
  <2>1. CASE m = 0
    <3> DEFINE walk == [k \in 0..0 |-> <<>>]
    <3>1. walk = [k \in 0..0 |-> IF k = 0 THEN <<>> ELSE Append(walk[prev[k]], k)]
      OBVIOUS
    <3> HIDE DEF walk
    <3> QED
      BY <2>1, <3>1
  <2>2. CASE m # 0
    <3>1. m - 1 \in 0..n /\ m - 1 < m /\ m \in 1..n
      BY <2>2
    <3>2. PICK w : w = [k \in 0..(m - 1) |-> IF k = 0 THEN <<>> ELSE Append(w[prev[k]], k)]
      BY <1>1, <3>1
    <3> DEFINE walk == [k \in 0..m |-> IF k = m THEN Append(w[prev[m]], m) ELSE w[k]]
    <3>3. ASSUME NEW k \in 0..m
          PROVE  walk[k] = IF k = 0 THEN <<>> ELSE Append(walk[prev[k]], k)
      <4>1. CASE k = m
        <5>1. prev[m] \in 0..(m - 1)
          BY <3>1
        <5>2. prev[m] \in 0..m /\ prev[m] # m
          BY <3>1, <5>1
        <5> QED
          BY <2>2, <4>1, <5>2
      <4>2. CASE k # m /\ k # 0
        <5>1. k \in 0..(m - 1) /\ k \in 1..n
          BY <3>1, <4>2
        <5>2. prev[k] \in 0..(k - 1)
          BY <5>1
        <5>3. prev[k] \in 0..m /\ prev[k] # m
          BY <5>1, <5>2
        <5>4. w[k] = Append(w[prev[k]], k)
          BY <3>2, <4>2, <5>1
        <5> QED
          BY <4>2, <5>3, <5>4
      <4>3. CASE k # m /\ k = 0
        <5>1. k \in 0..(m - 1)
          BY <3>1, <4>3
        <5> QED
          BY <3>2, <4>3, <5>1
      <4> QED
        BY <4>1, <4>2, <4>3
    <3>4. walk = [k \in 0..m |-> walk[k]]
      OBVIOUS
    <3> HIDE DEF walk
    <3>5. walk = [k \in 0..m |-> IF k = 0 THEN <<>> ELSE Append(walk[prev[k]], k)]
      BY <3>3, <3>4
    <3> QED
      BY <3>5
  <2> QED
    BY <2>1, <2>2
<1> HIDE DEF S
<1>2. \A m \in 0..n : (\A j \in 0..n : j < m => j \in S) => m \in S
  BY <1>1
<1>3. \A m \in 0..n : m \in S
  BY <1>2, UpTo
<1>4. n \in S
  BY <1>3
<1> QED
  BY <1>4 DEF S

LEMMA ChainIs ==
    ASSUME NEW n \in Nat, Len(steps) = n, \A k \in 1..n : steps[k].prev \in 0..(k - 1)
    PROVE  /\ Chain(0) = <<>>
           /\ \A k \in 1..n : Chain(k) = Append(Chain(steps[k].prev), k)
<1> DEFINE Walk(w) == w = [k \in 0..n |-> IF k = 0 THEN <<>> ELSE Append(w[steps[k].prev], k)]
           walk == CHOOSE w : Walk(w)
           prev == [k \in 1..n |-> steps[k].prev]
<1>1. \E w : Walk(w)
  <2>1. \A k \in 1..n : prev[k] \in 0..(k - 1)
    OBVIOUS
  <2> HIDE DEF prev
  <2>2. PICK w : w = [k \in 0..n |-> IF k = 0 THEN <<>> ELSE Append(w[prev[k]], k)]
    BY <2>1, WalkExists
  <2>3. \A k \in 0..n : k = 0 \/ prev[k] = steps[k].prev
    BY DEF prev
  <2>4. [k \in 0..n |-> IF k = 0 THEN <<>> ELSE Append(w[prev[k]], k)]
          = [k \in 0..n |-> IF k = 0 THEN <<>> ELSE Append(w[steps[k].prev], k)]
    BY <2>3
  <2> QED
    BY <2>2, <2>4
<1>2. Walk(walk)
  BY <1>1
<1>3. \A h : Chain(h) = walk[h]
  BY DEF Chain
<1> HIDE DEF walk
<1>4. walk[0] = <<>>
  BY <1>2
<1>5. ASSUME NEW k \in 1..n PROVE walk[k] = Append(walk[steps[k].prev], k)
  <2>1. k \in 0..n /\ k # 0
    OBVIOUS
  <2>2. walk[k] = IF k = 0 THEN <<>> ELSE Append(walk[steps[k].prev], k)
    BY <1>2, <2>1
  <2> QED
    BY <2>1, <2>2
<1> QED
  BY <1>3, <1>4, <1>5

(* Of the steps of a chain each comes once, and each has what its own head  *)
(* and the place before each of them has.                                   *)
LEMMA ChainMembers ==
    ASSUME NEW n \in Nat, Len(steps) = n, NEW Members,
           \A k \in 1..n : steps[k].prev \in 0..(k - 1),
           \A k \in 1..n : steps[k].prev \in {0} \cup Members,
           NEW head \in 0..n, head \in {0} \cup Members
    PROVE  /\ Chain(head) \in Seq(Nat) /\ IsInjective(Chain(head))
           /\ \A i \in DOMAIN Chain(head) : Chain(head)[i] \in Members \cap (1..n)
<1> DEFINE Fine(h) ==
             /\ Chain(h) \in Seq(Nat) /\ IsInjective(Chain(h))
             /\ \A i \in DOMAIN Chain(h) : Chain(h)[i] \in Members \cap (1..h)
           S == {h \in 0..n : h \in {0} \cup Members => Fine(h)}
<1>1. ASSUME NEW h \in 0..n, \A j \in 0..n : j < h => j \in S, h \in {0} \cup Members
      PROVE  Fine(h)
  <2>1. CASE h = 0
    <3>1. Chain(h) = <<>> /\ <<>> \in Seq(Nat) /\ DOMAIN Chain(h) = {}
      BY <2>1, ChainIs
    <3> QED
      BY <3>1 DEF IsInjective
  <2>2. CASE h # 0
    <3> DEFINE p == steps[h].prev
    <3>1. h \in 1..n /\ h \in Members /\ h \in Nat
      BY <1>1, <2>2
    <3>2. p \in 0..(h - 1) /\ p \in {0} \cup Members /\ Chain(h) = Append(Chain(p), h)
      BY <3>1, ChainIs
    <3>3. p \in 0..n /\ p < h
      BY <3>1, <3>2
    <3>4. Fine(p)
      BY <1>1, <3>2, <3>3
    <3> DEFINE c == Chain(p)
    <3> HIDE DEF p
    <3>5. c \in Seq(Nat) /\ IsInjective(c) /\ \A i \in DOMAIN c : c[i] \in Members \cap (1..p)
      BY <3>4
    <3>6. \A i \in DOMAIN c : c[i] \in Members \cap (1..h) /\ c[i] # h
      BY <3>1, <3>2, <3>5
    <3>7. Chain(h) = Append(c, h)
      BY <3>2
    <3> HIDE DEF c
    <3>8. /\ Append(c, h) \in Seq(Nat) /\ DOMAIN c = 1..Len(c) /\ Len(c) \in Nat
          /\ DOMAIN Append(c, h) = 1..(Len(c) + 1)
          /\ \A i \in 1..Len(c) : Append(c, h)[i] = c[i]
          /\ Append(c, h)[Len(c) + 1] = h
      BY <3>1, <3>5, AppendProperties
    <3>9. \A i \in DOMAIN Append(c, h) : i \in DOMAIN c \/ i = Len(c) + 1
      BY <3>8
    <3>10. h \in Members \cap (1..h)
      BY <3>1
    <3>11. IsInjective(Append(c, h))
      BY <3>5, <3>6, <3>8, <3>9 DEF IsInjective
    <3>12. \A i \in DOMAIN Append(c, h) : Append(c, h)[i] \in Members \cap (1..h)
      BY <3>6, <3>8, <3>9, <3>10
    <3> QED
      BY <3>7, <3>8, <3>11, <3>12
  <2> QED
    BY <2>1, <2>2
<1> HIDE DEF Fine
<1>2. \A h \in 0..n : (\A j \in 0..n : j < h => j \in S) => h \in S
  BY <1>1
<1> HIDE DEF S
<1>3. head \in S
  BY <1>2, UpTo
<1>4. Fine(head)
  BY <1>3 DEF S
<1>5. Members \cap (1..head) \subseteq Members \cap (1..n)
  OBVIOUS
<1> QED
  BY <1>4, <1>5 DEF Fine

-----------------------------------------------------------------------------
(* FlattenSeq puts the sequences together one after the other. *)
LEMMA FlattenIs ==
    ASSUME NEW S, NEW seqs \in Seq(Seq(S)), seqs # <<>>
    PROVE  \E f : /\ f = [i \in 1..Len(seqs) |-> IF i = 1 THEN seqs[i] ELSE f[i - 1] \o seqs[i]]
                  /\ FlattenSeq(seqs) = f[Len(seqs)]
<1> DEFINE n == Len(seqs)
           Flat(m, f) == f = [i \in 1..m |-> IF i = 1 THEN seqs[i] ELSE f[i - 1] \o seqs[i]]
           T == {m \in 0..n : \E f : Flat(m, f)}
<1>1. n \in Nat /\ n # 0
  OBVIOUS
<1> HIDE DEF n
<1>2. ASSUME NEW m \in 0..n, \A j \in 0..n : j < m => j \in T
      PROVE  \E f : Flat(m, f)
  <2>1. CASE m = 0
    <3> DEFINE f == [i \in 1..0 |-> seqs[i]]
    <3>1. f = [i \in 1..0 |-> IF i = 1 THEN seqs[i] ELSE f[i - 1] \o seqs[i]]
      OBVIOUS
    <3> HIDE DEF f
    <3> QED
      BY <2>1, <3>1
  <2>2. CASE m # 0
    <3>1. m - 1 \in 0..n /\ m - 1 < m
      BY <1>1, <2>2
    <3>2. PICK g : Flat(m - 1, g)
      BY <1>2, <3>1
    <3> DEFINE f == [i \in 1..m |-> IF i = m THEN (IF i = 1 THEN seqs[i] ELSE g[i - 1] \o seqs[i]) ELSE g[i]]
    <3>3. ASSUME NEW i \in 1..m
          PROVE  f[i] = IF i = 1 THEN seqs[i] ELSE f[i - 1] \o seqs[i]
      <4>1. i # 1 => i - 1 \in 1..m /\ i - 1 # m /\ f[i - 1] = g[i - 1]
        BY <1>1
      <4>2. i # m => i \in 1..(m - 1) /\ f[i] = g[i]
        BY <1>1
      <4>3. i # m => g[i] = IF i = 1 THEN seqs[i] ELSE g[i - 1] \o seqs[i]
        BY <3>2, <4>2
      <4>4. i = m => f[i] = IF i = 1 THEN seqs[i] ELSE g[i - 1] \o seqs[i]
        OBVIOUS
      <4> HIDE DEF f
      <4> QED
        BY <4>1, <4>2, <4>3, <4>4
    <3>4. f = [i \in 1..m |-> f[i]]
      OBVIOUS
    <3> HIDE DEF f
    <3>5. Flat(m, f)
      BY <3>3, <3>4
    <3> QED
      BY <3>5
  <2> QED
    BY <2>1, <2>2
<1> DEFINE flat == CHOOSE f : Flat(n, f)
<1>3. Flat(n, flat)
  <2> HIDE DEF Flat
  <2>1. \A m \in 0..n : (\A j \in 0..n : j < m => j \in T) => m \in T
    BY <1>2
  <2> HIDE DEF T
  <2>2. n \in T
    <3>1. \A m \in 0..n : m \in T
      BY <1>1, <2>1, UpTo
    <3>2. n \in 0..n
      BY <1>1
    <3> QED
      BY <3>1, <3>2
  <2> QED
    BY <2>2 DEF T
<1>4. FlattenSeq(seqs) = flat[n]
  BY <1>1 DEF FlattenSeq, n
<1> HIDE DEF flat
<1> QED
  BY <1>3, <1>4 DEF n

(* A sequence of one-element sequences gives back the elements. *)
LEMMA FlattenSingles ==
    ASSUME NEW S, NEW list \in Seq(S)
    PROVE  FlattenSeq([i \in DOMAIN list |-> <<list[i]>>]) = list
<1> DEFINE seqs == [i \in DOMAIN list |-> <<list[i]>>]
           n == Len(list)
<1>1. n \in Nat /\ DOMAIN list = 1..n /\ \A i \in 1..n : list[i] \in S
  OBVIOUS
<1>2. Len(seqs) = n /\ seqs \in Seq(Seq(S))
  <2>1. \A i \in 1..n : <<list[i]>> \in Seq(S)
    BY <1>1
  <2> QED
    BY <1>1, <2>1
<1>3. CASE n = 0
  <2>1. seqs = <<>> /\ list = <<>>
    BY <1>1, <1>2, <1>3
  <2> QED
    BY <1>2, <1>3, <2>1 DEF FlattenSeq
<1>4. CASE n # 0
  <2>1. seqs # <<>>
    BY <1>2, <1>4
  <2>2. PICK f : /\ f = [i \in 1..n |-> IF i = 1 THEN seqs[i] ELSE f[i - 1] \o seqs[i]]
                 /\ FlattenSeq(seqs) = f[n]
    BY <1>2, <2>1, FlattenIs
  <2> DEFINE Fine(k) == f[k] \in Seq(S) /\ Len(f[k]) = k /\ \A j \in 1..k : f[k][j] = list[j]
             U == {k \in 0..n : k = 0 \/ Fine(k)}
  <2>3. ASSUME NEW k \in 0..n, \A j \in 0..n : j < k => j \in U PROVE k \in U
    <3>1. CASE k = 0
      BY <3>1
    <3>2. CASE k = 1
      <4>1. f[k] = <<list[k]>> /\ list[k] \in S
        BY <1>1, <2>2, <3>2
      <4>2. Fine(k)
        BY <3>2, <4>1
      <4> QED
        BY <4>2
    <3>3. CASE k \notin {0, 1}
      <4>1. k - 1 \in 0..n /\ k - 1 < k /\ k - 1 # 0 /\ k \in 1..n
        BY <1>1, <3>3
      <4>2. Fine(k - 1)
        BY <2>3, <4>1
      <4>3. f[k] = f[k - 1] \o <<list[k]>> /\ list[k] \in S
        BY <1>1, <2>2, <3>3, <4>1
      <4> DEFINE g == f[k - 1]
      <4>4. g \in Seq(S) /\ Len(g) = k - 1 /\ \A j \in 1..(k - 1) : g[j] = list[j]
        BY <4>2
      <4>5. f[k] = g \o <<list[k]>>
        BY <4>3
      <4> HIDE DEF g
      <4>6. /\ g \o <<list[k]>> \in Seq(S) /\ Len(g \o <<list[k]>>) = k
            /\ \A j \in 1..(k - 1) : (g \o <<list[k]>>)[j] = g[j]
            /\ (g \o <<list[k]>>)[k] = list[k]
        BY <4>1, <4>3, <4>4, ConcatProperties
      <4>7. Fine(k)
        BY <4>1, <4>4, <4>5, <4>6
      <4> QED
        BY <4>7
    <3> QED
      BY <3>1, <3>2, <3>3
  <2> HIDE DEF U, Fine
  <2>4. \A k \in 0..n : (\A j \in 0..n : j < k => j \in U) => k \in U
    BY <2>3
  <2>5. n \in U
    BY <1>1, <2>4, UpTo
  <2>6. Fine(n)
    BY <1>4, <2>5 DEF U
  <2>7. f[n] = list
    BY <1>1, <2>6, SeqEqual DEF Fine
  <2> QED
    BY <2>2, <2>7
<1> QED
  BY <1>3, <1>4

(* Sequences that repeat nothing and share nothing repeat nothing together. *)
LEMMA FlattenInjective ==
    ASSUME NEW S, NEW seqs \in Seq(Seq(S)),
           \A i \in DOMAIN seqs : IsInjective(seqs[i]),
           \A i, j \in DOMAIN seqs : i # j =>
               \A a \in DOMAIN seqs[i], b \in DOMAIN seqs[j] : seqs[i][a] # seqs[j][b]
    PROVE  IsInjective(FlattenSeq(seqs))
<1> DEFINE n == Len(seqs)
<1>1. n \in Nat /\ DOMAIN seqs = 1..n /\ \A i \in 1..n : seqs[i] \in Seq(S)
  OBVIOUS
<1>2. CASE n = 0
  <2>1. seqs = <<>>
    BY <1>2
  <2> QED
    BY <1>2, <2>1 DEF FlattenSeq, IsInjective
<1>3. CASE n # 0
  <2>1. seqs # <<>>
    BY <1>3
  <2>2. PICK f : /\ f = [i \in 1..n |-> IF i = 1 THEN seqs[i] ELSE f[i - 1] \o seqs[i]]
                 /\ FlattenSeq(seqs) = f[n]
    BY <2>1, FlattenIs
  <2> HIDE DEF n
  <2> DEFINE Within(k) == \A a \in DOMAIN f[k] : \E i \in 1..k : \E b \in DOMAIN seqs[i] : f[k][a] = seqs[i][b]
             Fine(k) == f[k] \in Seq(S) /\ IsInjective(f[k]) /\ Within(k)
             U == {k \in 0..n : k = 0 \/ Fine(k)}
  <2>3. ASSUME NEW k \in 0..n, \A j \in 0..n : j < k => j \in U PROVE k \in U
    <3>1. CASE k = 0
      BY <3>1
    <3>2. CASE k = 1
      <4>1. f[k] = seqs[k] /\ k \in 1..n /\ k \in 1..k
        BY <1>1, <2>2, <3>2
      <4>2. f[k] \in Seq(S) /\ IsInjective(f[k])
        BY <1>1, <4>1
      <4>3. Within(k)
        BY <4>1
      <4> QED
        BY <4>2, <4>3
    <3>3. CASE k \notin {0, 1}
      <4>1. k - 1 \in 0..n /\ k - 1 < k /\ k - 1 # 0 /\ k \in 1..n /\ k \in 1..k /\ 1..(k - 1) \subseteq 1..n
        BY <1>1, <3>3
      <4>2. Fine(k - 1)
        BY <2>3, <4>1
      <4> DEFINE g == f[k - 1]
                 h == seqs[k]
      <4>3. f[k] = g \o h /\ h \in Seq(S) /\ IsInjective(h)
        BY <1>1, <2>2, <3>3, <4>1
      <4>4. g \in Seq(S) /\ IsInjective(g)
        BY <4>2
      <4>5. \A a \in DOMAIN g : \E i \in 1..(k - 1) : \E b \in DOMAIN seqs[i] : g[a] = seqs[i][b]
        BY <4>2
      <4>6. \A a \in DOMAIN g, b \in DOMAIN h : g[a] # h[b]
        <5> SUFFICES ASSUME NEW a \in DOMAIN g, NEW b \in DOMAIN h PROVE g[a] # h[b]
          OBVIOUS
        <5>1. PICK i \in 1..(k - 1) : \E c \in DOMAIN seqs[i] : g[a] = seqs[i][c]
          BY <4>5
        <5>2. i \in DOMAIN seqs /\ k \in DOMAIN seqs /\ i # k
          BY <1>1, <4>1
        <5> QED
          BY <5>1, <5>2
      <4>12. h = seqs[k]
        OBVIOUS
      <4> HIDE DEF g, h
      <4>7. /\ g \o h \in Seq(S) /\ Len(g \o h) = Len(g) + Len(h)
            /\ Len(g) \in Nat /\ Len(h) \in Nat /\ DOMAIN g = 1..Len(g) /\ DOMAIN h = 1..Len(h)
            /\ DOMAIN (g \o h) = 1..(Len(g) + Len(h))
            /\ \A a \in DOMAIN (g \o h) : (g \o h)[a] = IF a <= Len(g) THEN g[a] ELSE h[a - Len(g)]
        BY <4>3, <4>4, ConcatProperties
      <4>8. \A a \in DOMAIN (g \o h) : IF a <= Len(g) THEN a \in DOMAIN g ELSE a - Len(g) \in DOMAIN h
        BY <4>7
      <4>9. IsInjective(g \o h)
        <5> SUFFICES ASSUME NEW a \in DOMAIN (g \o h), NEW b \in DOMAIN (g \o h), (g \o h)[a] = (g \o h)[b]
                     PROVE  a = b
          BY DEF IsInjective
        <5>1. a \in Nat /\ b \in Nat
          BY <4>7
        <5>2. CASE a <= Len(g) /\ b <= Len(g)
          BY <4>4, <4>7, <4>8, <5>2 DEF IsInjective
        <5>3. CASE ~(a <= Len(g)) /\ ~(b <= Len(g))
          <6>1. a - Len(g) = b - Len(g)
            BY <4>3, <4>7, <4>8, <5>3 DEF IsInjective
          <6> QED
            BY <4>7, <5>1, <6>1
        <5>4. CASE a <= Len(g) /\ ~(b <= Len(g))
          BY <4>6, <4>7, <4>8, <5>4
        <5>5. CASE ~(a <= Len(g)) /\ b <= Len(g)
          BY <4>6, <4>7, <4>8, <5>5
        <5> QED
          BY <5>2, <5>3, <5>4, <5>5
      <4>10. ASSUME NEW a \in DOMAIN (g \o h)
             PROVE  \E i \in 1..k : \E b \in DOMAIN seqs[i] : (g \o h)[a] = seqs[i][b]
        <5>1. CASE a <= Len(g)
          <6>1. PICK i \in 1..(k - 1) : \E b \in DOMAIN seqs[i] : g[a] = seqs[i][b]
            BY <4>5, <4>8, <5>1
          <6>2. i \in 1..k /\ (g \o h)[a] = g[a]
            BY <4>7, <5>1
          <6> QED
            BY <6>1, <6>2
        <5>2. CASE ~(a <= Len(g))
          BY <4>1, <4>7, <4>8, <4>12, <5>2
        <5> QED
          BY <5>1, <5>2
      <4>11. Fine(k)
        BY <4>3, <4>7, <4>9, <4>10
      <4> QED
        BY <4>11
    <3> QED
      BY <3>1, <3>2, <3>3
  <2> HIDE DEF U, Fine
  <2>4. \A k \in 0..n : (\A j \in 0..n : j < k => j \in U) => k \in U
    BY <2>3
  <2>5. n \in U
    <3>1. \A k \in 0..n : k \in U
      BY <1>1, <2>4, UpTo
    <3>2. n \in 0..n
      BY <1>1
    <3> QED
      BY <3>1, <3>2
  <2>6. Fine(n)
    BY <1>3, <2>5 DEF U
  <2> QED
    BY <2>2, <2>6 DEF Fine
<1> QED
  BY <1>2, <1>3

-----------------------------------------------------------------------------
Before(visits, t) == Max({0} \cup {v \in visits : v < t})

LEMMA BeforeIs ==
    ASSUME NEW n \in Nat, NEW visits \in SUBSET (1..n), NEW t \in 1..(n + 1)
    PROVE  /\ Before(visits, t) \in {0} \cup visits /\ Before(visits, t) \in Nat /\ Before(visits, t) < t
           /\ \A v \in visits : v < t => v <= Before(visits, t)
<1> DEFINE S == {0} \cup {v \in visits : v < t}
<1>1. S \subseteq 0..n /\ S # {} /\ \A v \in S : v < t
  <2>1. 0 \in S
    OBVIOUS
  <2>2. ASSUME NEW v \in S PROVE v \in 0..n /\ v < t
    OBVIOUS
  <2> QED
    BY <2>1, <2>2
<1>2. Max(S) \in S /\ Max(S) \in 0..n /\ \A k \in S : k <= Max(S)
  BY <1>1, GreatestOne
<1> QED
  BY <1>1, <1>2 DEF Before

(* Of the turns of a role exactly one has a step of another role between    *)
(* itself and the visit before, and none a visit.                           *)
LEMMA OneTurnTells ==
    ASSUME NEW n \in Nat, NEW visits \in SUBSET (1..n), NEW i \in (1..n) \ visits
    PROVE  \E t \in visits \cup {n + 1} :
              /\ t > i
              /\ \A u \in visits \cup {n + 1} : u > i => t <= u
              /\ \A u \in visits \cup {n + 1} : Before(visits, u) < i /\ i < u <=> u = t
<1> DEFINE turns == visits \cup {n + 1}
           later == {u \in turns : u > i}
           t == Min(later)
<1>1. later \subseteq Nat /\ later # {} /\ turns \subseteq 1..(n + 1)
  <2>1. n + 1 \in later
    OBVIOUS
  <2>2. turns \subseteq 1..(n + 1) /\ later \subseteq turns
    OBVIOUS
  <2>3. 1..(n + 1) \subseteq Nat
    OBVIOUS
  <2> HIDE DEF later, turns
  <2> QED
    BY <2>1, <2>2, <2>3
<1>2. t \in later /\ t \in Nat /\ \A u \in later : t <= u
  BY <1>1, LeastOne
<1> HIDE DEF t
<1>3. t \in turns /\ t > i /\ \A u \in turns : u > i => t <= u
  BY <1>2
<1>4. ASSUME NEW u \in turns PROVE Before(visits, u) < i /\ i < u <=> u = t
  <2>1. /\ Before(visits, u) \in {0} \cup visits /\ Before(visits, u) \in Nat /\ Before(visits, u) < u
        /\ \A v \in visits : v < u => v <= Before(visits, u)
    BY <1>1, BeforeIs
  <2>2. u \in Nat /\ i \in Nat /\ i > 0
    BY <1>1
  <2>3. CASE u = t
    <3>1. ~(Before(visits, u) > i)
      BY <1>2, <1>3, <2>1, <2>2, <2>3
    <3>2. Before(visits, u) # i
      BY <2>1, <2>2
    <3> QED
      BY <1>2, <1>3, <2>1, <2>2, <2>3, <3>1, <3>2
  <2>4. CASE u # t /\ u > i
    <3>1. t < u /\ u <= n + 1
      BY <1>1, <1>2, <1>3, <2>2, <2>4
    <3>2. t \in visits
      BY <1>2, <1>3, <3>1
    <3>3. t <= Before(visits, u)
      BY <2>1, <3>1, <3>2
    <3> QED
      BY <1>2, <1>3, <2>1, <2>2, <2>4, <3>3
  <2> QED
    BY <1>3, <2>2, <2>3, <2>4
<1> QED
  BY <1>3, <1>4

-----------------------------------------------------------------------------
LEMMA MessagesTellOnce ==
    ASSUME NEW n \in Nat, NEW roles, roles = [i \in 1..n |-> roles[i]], Len(roles) = n, NEW role,
           NEW i \in 1..n
    PROVE  Cardinality({m \in DOMAIN Messages(roles, role) : i \in Messages(roles, role)[m]}) = 1
<1> DEFINE visits == Visits(roles, role)
           turns == visits \cup {n + 1}
           telling == {m \in DOMAIN Messages(roles, role) : i \in Messages(roles, role)[m]}
<1>1. visits \in SUBSET (1..n) /\ turns = TurnsOf(roles, role)
  BY DEF Visits, TurnsOf
<1> HIDE DEF visits
<1>6. turns \subseteq 1..(n + 1)
  BY <1>1
<1>2. DOMAIN Messages(roles, role) = ({"user"} \X turns) \cup ({"assistant"} \X visits)
  BY <1>1 DEF Messages, visits
<1>3. ASSUME NEW u \in turns
      PROVE  /\ <<"user", u>> \in DOMAIN Messages(roles, role)
             /\ i \in Messages(roles, role)[<<"user", u>>] <=> Before(visits, u) < i /\ i < u
  <2>1. Messages(roles, role)[<<"user", u>>] = (Before(visits, u) + 1)..(u - 1)
    BY <1>1 DEF Messages, Summary, Before, visits
  <2>2. u \in 1..(n + 1)
    BY <1>6
  <2>3. Before(visits, u) \in Nat /\ u \in Nat
    BY <1>1, <2>2, BeforeIs
  <2> QED
    BY <1>2, <2>1, <2>3
<1>4. ASSUME NEW v \in visits
      PROVE  /\ <<"assistant", v>> \in DOMAIN Messages(roles, role)
             /\ i \in Messages(roles, role)[<<"assistant", v>>] <=> v = i
  BY <1>1, <1>2 DEF Messages, visits
<1>5. \E m : telling = {m}
  <2>1. CASE i \in visits
    <3>1. ASSUME NEW u \in turns PROVE ~(Before(visits, u) < i /\ i < u)
      <4>1. u \in 1..(n + 1)
        BY <1>6
      <4>2. /\ Before(visits, u) \in Nat
            /\ \A v \in visits : v < u => v <= Before(visits, u)
        BY <1>1, <4>1, BeforeIs
      <4>3. i < u => i <= Before(visits, u)
        BY <2>1, <4>2
      <4>4. i \in Nat
        OBVIOUS
      <4> QED
        BY <4>2, <4>3, <4>4
    <3>2. telling = {<<"assistant", i>>}
      BY <1>2, <1>3, <1>4, <2>1, <3>1
    <3> QED
      BY <3>2
  <2>2. CASE i \notin visits
    <3>1. PICK t \in turns : \A u \in turns : Before(visits, u) < i /\ i < u <=> u = t
      BY <1>1, <2>2, OneTurnTells
    <3>2. telling = {<<"user", t>>}
      BY <1>2, <1>3, <1>4, <2>2, <3>1
    <3> QED
      BY <3>2
  <2> QED
    BY <2>1, <2>2
<1> QED
  BY <1>5, FS_Singleton

-----------------------------------------------------------------------------
PromptOf(roles, role, room, t) == AssembleBrokerPrompt(SubSeq(roles, 1, t - 1), role, room)

(* The steps since the visit before, under their own numbers. *)
SinceBefore(visits, t) == {[step |-> i, number |-> i] : i \in (Before(visits, t) + 1)..(t - 1)}

(* The newest steps that there is room for. *)
TellsNewest(prompt, room, t) ==
    /\ \A s \in prompt.steps :
        /\ s.step \in 1..(t - 1) /\ s.step + room >= t
        /\ s.number < t /\ (room >= t - 1 => s.number = s.step)
    /\ \A i \in 1..(t - 1) : i + room >= t => \E s \in prompt.steps : s.step = i

(* What a turn's prompt is put together from. *)
LEMMA EarlierRoles ==
    ASSUME NEW S, NEW roles \in Seq(S), NEW role, NEW t \in TurnsOf(roles, role)
    PROVE  LET before == SubSeq(roles, 1, t - 1) IN
           /\ Len(before) = t - 1 /\ t \in 1..(Len(roles) + 1)
           /\ Visits(before, role) = {v \in Visits(roles, role) : v < t}
           /\ FindLastRoleIndex(before, role) = Before(Visits(roles, role), t)
<1> DEFINE before == SubSeq(roles, 1, t - 1)
<1>1. Len(roles) \in Nat /\ DOMAIN roles = 1..Len(roles)
  OBVIOUS
<1>2. Visits(roles, role) \subseteq 1..Len(roles)
  BY <1>1 DEF Visits
<1>3. t \in 1..(Len(roles) + 1)
  BY <1>1, <1>2 DEF TurnsOf
<1>4. before \in Seq(S) /\ Len(before) = t - 1 /\ \A i \in 1..(t - 1) : before[i] = roles[i]
  BY <1>1, <1>3, SubSeqProperties
<1>5. DOMAIN before = 1..(t - 1)
  BY <1>4
<1> HIDE DEF before
<1>6. Visits(before, role) = {v \in Visits(roles, role) : v < t}
  BY <1>1, <1>3, <1>4, <1>5 DEF Visits
<1> QED
  BY <1>3, <1>4, <1>6 DEF FindLastRoleIndex, Before, before

LEMMA IntervalEnds ==
    ASSUME NEW a \in Nat, NEW b \in Nat, a <= b
    PROVE  Max(a..b) = b /\ Min(a..b) = a
<1>1. a..b \subseteq 0..b /\ b \in a..b /\ a \in a..b /\ a..b \subseteq Nat
  OBVIOUS
<1>2. \A k \in a..b : a <= k /\ k <= b
  OBVIOUS
<1> QED
  BY <1>1, <1>2, GreatestIs, LeastIs

(* After the first turn everything since the visit before is told, under    *)
(* its own number.                                                          *)
LEMMA LaterPrompt ==
    ASSUME NEW S, NEW roles \in Seq(S), NEW role, NEW room \in Nat, NEW t \in TurnsOf(roles, role),
           t # Min(TurnsOf(roles, role))
    PROVE  /\ PromptOf(roles, role, room, t).progress.thisStep = t
           /\ PromptOf(roles, role, room, t).steps = SinceBefore(Visits(roles, role), t)
<1> DEFINE before == SubSeq(roles, 1, t - 1)
           prompt == PromptOf(roles, role, room, t)
           visits == Visits(roles, role)
           last == Before(visits, t)
           since == (last + 1)..(t - 1)
           n == Len(roles)
<1>1. n \in Nat /\ visits \in SUBSET (1..n) /\ TurnsOf(roles, role) = visits \cup {n + 1}
  BY DEF Visits, TurnsOf
<1>2. /\ Len(before) = t - 1 /\ t \in 1..(n + 1)
      /\ Visits(before, role) = {v \in visits : v < t}
      /\ FindLastRoleIndex(before, role) = last
  BY EarlierRoles
<1>3. last \in Nat /\ last < t
  BY <1>1, <1>2, BeforeIs
<1> HIDE DEF before, visits, last
<1>4. Visits(before, role) # {}
  <2> DEFINE turns == TurnsOf(roles, role)
             first == Min(turns)
  <2>1. turns \subseteq 1..(n + 1) /\ 1..(n + 1) \subseteq Nat
    <3>1. \A u \in turns : u \in 1..(n + 1)
      <4> HIDE DEF n
      <4>1. \A v \in visits : v \in 1..n
        BY <1>1
      <4>2. \A v \in 1..n : v \in 1..(n + 1)
        BY <1>1
      <4>3. n + 1 \in 1..(n + 1)
        BY <1>1
      <4> QED
        BY <1>1, <4>1, <4>2, <4>3
    <3> QED
      BY <1>1, <3>1
  <2>2. first \in turns /\ first <= t
    BY <2>1, LeastOne
  <2>3. first \in visits
    BY <1>1, <1>2, <2>1, <2>2
  <2> QED
    BY <1>2, <2>1, <2>2, <2>3
<1>5. prompt.progress.thisStep = t
  BY <1>2 DEF PromptOf, AssembleBrokerPrompt, BuildThreadProgress, before
<1>6. prompt.steps = BuildContinuationPrompt(before, role, t - 1)
  BY <1>2, <1>4 DEF PromptOf, AssembleBrokerPrompt, before
<1>7. SelectStepsWithinQuota(since, t - 1) = since
  <2>1. CASE since = {}
    BY <2>1 DEF SelectStepsWithinQuota
  <2>2. CASE since # {}
    <3>1. last + 1 <= t - 1 /\ t - 1 \in Nat /\ last + 1 \in Nat
      BY <1>2, <1>3, <2>2
    <3>2. Max(since) = t - 1
      BY <3>1, IntervalEnds
    <3>3. Max({1, t - 1}) = t - 1
      <4>1. {1, t - 1} \subseteq 0..(t - 1) /\ t - 1 \in {1, t - 1} /\ \A k \in {1, t - 1} : k <= t - 1
        BY <3>1, <1>3
      <4> QED
        BY <3>1, <4>1, GreatestIs
    <3>4. \A i \in since : i + (t - 1) > t - 1
      BY <1>3, <3>1
    <3> QED
      BY <3>2, <3>3, <3>4 DEF SelectStepsWithinQuota
  <2> QED
    BY <2>1, <2>2
<1>8. BuildContinuationPrompt(before, role, t - 1)
        = {[step |-> i, number |-> last + 1 + (i - Min(since))] : i \in since}
  BY <1>2, <1>7 DEF BuildContinuationPrompt
<1>9. ASSUME NEW i \in since PROVE last + 1 + (i - Min(since)) = i
  <2>1. last + 1 <= t - 1 /\ t - 1 \in Nat /\ last + 1 \in Nat /\ i \in Nat
    BY <1>2, <1>3
  <2>2. Min(since) = last + 1
    BY <2>1, IntervalEnds
  <2> QED
    BY <2>1, <2>2
<1> HIDE DEF since, prompt
<1>10. prompt.steps = {[step |-> i, number |-> i] : i \in since}
  BY <1>6, <1>8, <1>9
<1> QED
  BY <1>5, <1>10 DEF prompt, since, last, visits, SinceBefore

(* At the first turn the newest steps are told that there is room for. *)
LEMMA FirstPrompt ==
    ASSUME NEW S, NEW roles \in Seq(S), NEW role, NEW room \in Nat \ {0}
    PROVE  LET t == Min(TurnsOf(roles, role)) IN
           /\ t \in TurnsOf(roles, role) /\ Before(Visits(roles, role), t) = 0
           /\ PromptOf(roles, role, room, t).progress.thisStep = t
           /\ TellsNewest(PromptOf(roles, role, room, t), room, t)
<1> DEFINE turns == TurnsOf(roles, role)
           t == Min(turns)
           before == SubSeq(roles, 1, t - 1)
           prompt == PromptOf(roles, role, room, t)
           visits == Visits(roles, role)
           since == 1..(t - 1)
           selected == {i \in since : i + room > t - 1}
           n == Len(roles)
<1>1. n \in Nat /\ visits \in SUBSET (1..n) /\ turns = visits \cup {n + 1}
  BY DEF Visits, TurnsOf
<1>2. turns \subseteq 1..(n + 1) /\ 1..(n + 1) \subseteq Nat /\ n + 1 \in turns
  BY <1>1
<1>3. t \in turns /\ \A u \in turns : t <= u
  BY <1>2, LeastOne
<1>4. t \in Nat /\ t > 0
  BY <1>2, <1>3
<1> HIDE DEF t
<1>5. /\ Len(before) = t - 1
      /\ Visits(before, role) = {v \in visits : v < t}
      /\ FindLastRoleIndex(before, role) = Before(visits, t)
  BY <1>3, EarlierRoles
<1>6. {v \in visits : v < t} = {}
  <2>1. ASSUME NEW v \in visits PROVE ~(v < t)
    BY <1>1, <1>2, <1>3, <1>4
  <2> QED
    BY <2>1
<1>7. Before(visits, t) = 0
  <2>1. {0} \cup {v \in visits : v < t} = {0} /\ {0} \subseteq 0..0
    BY <1>6
  <2>2. Max({0}) = 0
    <3>1. 0 \in Nat /\ {0} \subseteq 0..0 /\ 0 \in {0} /\ \A k \in {0} : k <= 0
      OBVIOUS
    <3> QED
      BY ONLY <3>1, GreatestIs
  <2> QED
    BY <2>1, <2>2 DEF Before
<1> HIDE DEF before, visits, turns
<1>8. prompt.progress.thisStep = t
  BY <1>4, <1>5 DEF PromptOf, AssembleBrokerPrompt, BuildThreadProgress, before
<1>9. prompt.steps = BuildContinuationPrompt(before, role, room)
  BY <1>5, <1>6 DEF PromptOf, AssembleBrokerPrompt, before
<1>10. SelectStepsWithinQuota(since, room) = selected
  <2>1. CASE since = {}
    BY <2>1 DEF SelectStepsWithinQuota
  <2>2. CASE since # {}
    <3>1. 1 <= t - 1 /\ t - 1 \in Nat
      BY <1>4, <2>2
    <3>2. Max(since) = t - 1
      BY <3>1, IntervalEnds
    <3>3. Max({1, room}) = room
      <4>1. {1, room} \subseteq 0..room /\ room \in {1, room} /\ \A k \in {1, room} : k <= room
        OBVIOUS
      <4> QED
        BY <4>1, GreatestIs
    <3> QED
      BY <3>2, <3>3 DEF SelectStepsWithinQuota
  <2> QED
    BY <2>1, <2>2
<1>11. prompt.steps = {[step |-> i, number |-> 0 + 1 + (i - Min(selected))] : i \in selected}
  <2>1. (0 + 1)..Len(before) = since /\ FindLastRoleIndex(before, role) = 0
    BY <1>4, <1>5, <1>7
  <2> HIDE DEF since, selected
  <2> QED
    BY <1>9, <1>10, <2>1 DEF BuildContinuationPrompt
<1>12. ASSUME NEW i \in selected
       PROVE  /\ i \in Nat /\ i \in 1..(t - 1) /\ i + room >= t /\ 0 + 1 + (i - Min(selected)) < t
              /\ room >= t - 1 => 0 + 1 + (i - Min(selected)) = i
  <2>1. selected \subseteq Nat /\ i \in Nat /\ i \in 1..(t - 1) /\ i + room >= t
    BY <1>4
  <2>2. Min(selected) \in selected /\ Min(selected) \in Nat
    BY <2>1, LeastOne
  <2>3. Min(selected) >= 1
    BY <2>2
  <2>4. ASSUME room >= t - 1 PROVE Min(selected) = 1
    <3>1. 1 \in selected /\ \A k \in selected : 1 <= k
      BY <1>4, <2>1, <2>4
    <3> QED
      BY <2>1, <3>1, LeastIs
  <2> QED
    BY <1>4, <2>1, <2>2, <2>3, <2>4
<1>13. \A i \in 1..(t - 1) : i + room >= t => i \in selected
  BY <1>4
<1> HIDE DEF selected, prompt
<1>14. /\ \A s \in prompt.steps :
            /\ s.step \in 1..(t - 1) /\ s.step + room >= t
            /\ s.number < t /\ (room >= t - 1 => s.number = s.step)
       /\ \A i \in 1..(t - 1) : i + room >= t => \E s \in prompt.steps : s.step = i
  <2>1. ASSUME NEW s \in prompt.steps
        PROVE  /\ s.step \in 1..(t - 1) /\ s.step + room >= t
               /\ s.number < t /\ (room >= t - 1 => s.number = s.step)
    <3>1. PICK i \in selected : s = [step |-> i, number |-> 0 + 1 + (i - Min(selected))]
      BY <1>11, <2>1
    <3>2. s.step = i /\ s.number = 0 + 1 + (i - Min(selected))
      BY <3>1
    <3> QED
      BY <1>12, <3>2
  <2>2. ASSUME NEW i \in 1..(t - 1), i + room >= t PROVE \E s \in prompt.steps : s.step = i
    <3>1. [step |-> i, number |-> 0 + 1 + (i - Min(selected))] \in prompt.steps
      BY <1>11, <1>13, <2>2
    <3> QED
      BY <3>1
  <2> QED
    BY <2>1, <2>2
<1> QED
  BY <1>3, <1>7, <1>8, <1>14 DEF prompt, t, turns, visits, TellsNewest

(* The prompts of a role's turns tell of every step of the others once,     *)
(* but for those that the first has no room for.                            *)
LEMMA PromptsTellOnce ==
    ASSUME NEW S, NEW roles \in Seq(S), NEW role, NEW room \in 1..(Len(roles) + 1),
           NEW i \in 1..Len(roles)
    PROVE  LET turns == TurnsOf(roles, role)
               first == Min(turns)
               prompt(t) == PromptOf(roles, role, room, t)
               telling == {t \in turns : \E s \in prompt(t).steps : s.step = i}
               leftOut == roles[i] = role \/ i + room < first
           IN  /\ Cardinality(telling) = (IF leftOut THEN 0 ELSE 1)
               /\ \A t \in telling : \A s \in prompt(t).steps :
                    /\ s.number < prompt(t).progress.thisStep
                    /\ (t # first \/ room >= t - 1) => s.number = s.step
<1> DEFINE turns == TurnsOf(roles, role)
           first == Min(turns)
           prompt(t) == PromptOf(roles, role, room, t)
           telling == {t \in turns : \E s \in prompt(t).steps : s.step = i}
           leftOut == roles[i] = role \/ i + room < first
           visits == Visits(roles, role)
           n == Len(roles)
<1>1. n \in Nat /\ visits \in SUBSET (1..n) /\ turns = visits \cup {n + 1} /\ i \in Nat /\ room \in Nat \ {0}
  BY DEF Visits, TurnsOf
<1>2. roles[i] = role <=> i \in visits
  BY DEF Visits
<1>3. \A t \in turns : t \in 1..(n + 1) /\ t \in Nat
  BY EarlierRoles
<1>4. /\ first \in turns /\ Before(visits, first) = 0
      /\ prompt(first).progress.thisStep = first
      /\ \A s \in prompt(first).steps :
            /\ s.step \in 1..(first - 1) /\ s.step + room >= first
            /\ s.number < first /\ (room >= first - 1 => s.number = s.step)
      /\ \A j \in 1..(first - 1) : j + room >= first => \E s \in prompt(first).steps : s.step = j
  <2>1. room \in Nat \ {0}
    BY <1>1
  <2>2. /\ first \in turns /\ Before(visits, first) = 0
        /\ prompt(first).progress.thisStep = first
        /\ TellsNewest(prompt(first), room, first)
    BY <2>1, FirstPrompt
  <2> QED
    BY <2>2 DEF TellsNewest
<1>5. \A t \in turns : first <= t
  <2>1. turns \subseteq Nat /\ turns # {}
    BY <1>1, <1>3
  <2> QED
    BY <2>1, LeastOne
<1>6. ASSUME NEW t \in turns, t # first
      PROVE  /\ prompt(t).progress.thisStep = t
             /\ prompt(t).steps = {[step |-> j, number |-> j] : j \in (Before(visits, t) + 1)..(t - 1)}
  <2>1. room \in Nat
    BY <1>1
  <2>2. prompt(t).progress.thisStep = t /\ prompt(t).steps = SinceBefore(visits, t)
    BY <1>6, <2>1, LaterPrompt
  <2> QED
    BY <2>2 DEF SinceBefore
<1>7. ASSUME NEW t \in turns
      PROVE  Before(visits, t) \in Nat /\ (i \in visits => ~(Before(visits, t) < i /\ i < t))
  <2>1. /\ Before(visits, t) \in Nat
        /\ \A v \in visits : v < t => v <= Before(visits, t)
    BY <1>1, <1>3, BeforeIs
  <2>2. i \in visits /\ i < t => i <= Before(visits, t)
    BY <2>1
  <2> QED
    BY <1>1, <2>1, <2>2
<1> HIDE DEF turns, first, visits, prompt, n
<1>8. ASSUME NEW t \in turns, t # first
      PROVE  (\E s \in prompt(t).steps : s.step = i) <=> Before(visits, t) < i /\ i < t
  <2>1. i \in (Before(visits, t) + 1)..(t - 1) <=> Before(visits, t) < i /\ i < t
    BY <1>1, <1>3, <1>7
  <2>2. (\E s \in prompt(t).steps : s.step = i) <=> i \in (Before(visits, t) + 1)..(t - 1)
    <3>1. prompt(t).steps = {[step |-> j, number |-> j] : j \in (Before(visits, t) + 1)..(t - 1)}
      BY <1>6, <1>8
    <3>2. ASSUME NEW s \in prompt(t).steps, s.step = i PROVE i \in (Before(visits, t) + 1)..(t - 1)
      <4>1. PICK j \in (Before(visits, t) + 1)..(t - 1) : s = [step |-> j, number |-> j]
        BY <3>1, <3>2
      <4> QED
        BY <3>2, <4>1
    <3>3. ASSUME i \in (Before(visits, t) + 1)..(t - 1) PROVE \E s \in prompt(t).steps : s.step = i
      <4>1. [step |-> i, number |-> i] \in prompt(t).steps
        BY <3>1, <3>3
      <4> QED
        BY <4>1
    <3> QED
      BY <3>2, <3>3
  <2> QED
    BY <2>1, <2>2
<1>9. (\E s \in prompt(first).steps : s.step = i)
        <=> Before(visits, first) < i /\ i < first /\ i + room >= first
  BY <1>1, <1>3, <1>4
<1>10. ASSUME leftOut PROVE Cardinality(telling) = 0
  <2>1. ASSUME NEW t \in turns, \E s \in prompt(t).steps : s.step = i PROVE FALSE
    <3>1. Before(visits, t) < i /\ i < t /\ (t = first => i + room >= first)
      BY <1>8, <1>9, <2>1
    <3>2. i \notin visits
      BY <1>7, <3>1
    <3>3. i + room < first
      BY <1>2, <1>10, <3>2
    <3>4. t # first /\ first < t /\ first \in Nat /\ t <= n + 1
      BY <1>1, <1>3, <1>4, <1>5, <3>1, <3>3
    <3>5. first \in visits
      BY <1>1, <1>3, <1>4, <3>4
    <3>6. first <= Before(visits, t)
      BY <1>1, <1>3, <3>4, <3>5, BeforeIs
    <3>7. Before(visits, t) \in Nat
      BY <1>7
    <3> QED
      BY <1>1, <3>1, <3>3, <3>4, <3>6, <3>7
  <2>2. telling = {}
    BY <2>1
  <2> QED
    BY <2>2, FS_EmptySet
<1>11. ASSUME ~leftOut PROVE Cardinality(telling) = 1
  <2>1. i \notin visits /\ ~(i + room < first)
    BY <1>2, <1>11
  <2>2. i \in (1..n) \ visits
    BY <2>1 DEF n
  <2>3. PICK t \in visits \cup {n + 1} :
            \A u \in visits \cup {n + 1} : Before(visits, u) < i /\ i < u <=> u = t
    BY <1>1, <2>2, OneTurnTells
  <2>4. t \in turns /\ \A u \in turns : Before(visits, u) < i /\ i < u <=> u = t
    BY <1>1, <2>3
  <2>5. i + room >= first
    BY <1>1, <1>3, <1>4, <2>1
  <2>6. \A u \in turns : (\E s \in prompt(u).steps : s.step = i) <=> u = t
    BY <1>8, <1>9, <2>4, <2>5
  <2>7. telling = {t}
    BY <2>4, <2>6
  <2> QED
    BY <2>7, FS_Singleton
<1>12. ASSUME NEW t \in telling, NEW s \in prompt(t).steps
       PROVE  /\ s.number < prompt(t).progress.thisStep
              /\ (t # first \/ room >= t - 1) => s.number = s.step
  <2>1. CASE t = first
    BY <1>4, <2>1
  <2>2. CASE t # first
    <3>1. t \in turns
      OBVIOUS
    <3>2. PICK j \in (Before(visits, t) + 1)..(t - 1) : s = [step |-> j, number |-> j]
      BY <1>6, <2>2, <3>1
    <3>3. s.step = j /\ s.number = j /\ j < t
      BY <1>3, <1>7, <3>1, <3>2
    <3> QED
      BY <1>6, <2>2, <3>1, <3>3
  <2> QED
    BY <2>1, <2>2
<1> HIDE DEF telling, leftOut
<1>13. /\ Cardinality(telling) = (IF leftOut THEN 0 ELSE 1)
       /\ \A t \in telling : \A s \in prompt(t).steps :
            /\ s.number < prompt(t).progress.thisStep
            /\ (t # first \/ room >= t - 1) => s.number = s.step
  BY <1>10, <1>11, <1>12
<1> QED
  BY <1>13 DEF telling, leftOut, prompt, turns, first

-----------------------------------------------------------------------------
(* A head: what was there before, or a good step that was reported. *)
Good(h) == h = 0 \/ (h \in reported /\ steps[h].ok)

Linked ==
    /\ \A n \in DOMAIN steps : steps[n].prev \in 0..(n - 1) /\ Good(steps[n].prev)
    /\ agent # Asleep => Good(agent.head)
    /\ report # 0 => report \in reported
    /\ \A e \in {threads[TheThread], writing, written} : e # Absent => Good(e.head)

AreFailures(list, role) ==
    /\ IsInjective(list)
    /\ \A i \in DOMAIN list :
        list[i] \in DOMAIN steps /\ ~steps[list[i]].ok /\ steps[list[i]].role = role

Failures ==
    /\ \A r \in Roles : AreFailures(failed[r], r)
    /\ \A n \in DOMAIN steps :
        AreFailures(steps[n].previous, steps[n].role) /\ (steps[n].ok \/ steps[n].previous = <<>>)

(* The good steps that were reported, or are about to be. *)
Settled ==
    {n \in DOMAIN steps : steps[n].ok /\
        (n \in reported \/ (agent # Asleep /\ agent.pc = "report" /\ n = agent.step))}

Disjoint(list, other) == \A i \in DOMAIN list, j \in DOMAIN other : list[i] # other[j]

Apart ==
    /\ \A n \in Settled : \A r \in Roles : Disjoint(steps[n].previous, failed[r])
    /\ \A n, m \in Settled : n # m => Disjoint(steps[n].previous, steps[m].previous)

(* A step that is being stored. *)
Fresh ==
    /\ agent # Asleep /\ agent.pc \in {"append", "clear", "report"} => agent.step \notin reported
    /\ agent # Asleep /\ agent.pc = "append" =>
        /\ ~steps[agent.step].ok
        /\ \A r \in Roles : ~Tell(failed[r], agent.step)
        /\ \A n \in DOMAIN steps : ~Tell(steps[n].previous, agent.step)

LineageInv == Linked /\ Failures /\ Apart /\ Fresh

-----------------------------------------------------------------------------
LEMMA LineageRests ==
    ASSUME LineageInv, UNCHANGED <<failed, steps, reported>>,
           \/ agent' = Asleep
           \/ agent' = agent
           \/ agent'.pc \in {"loop", "extract"} /\ Good(agent'.head),
           report' \in {0, report},
           \A e \in {threads'[TheThread], writing', written'} : e # Absent => Good(e.head)
    PROVE  LineageInv'
<1>1. \A h : Good(h)' <=> Good(h)
  BY DEF Good
<1>2. Linked'
  BY <1>1 DEF LineageInv, Linked, Good
<1>3. Failures'
  BY DEF LineageInv, Failures, AreFailures
<1>4. Settled' \subseteq Settled
  BY DEF Settled
<1>5. Apart'
  BY <1>4 DEF LineageInv, Apart
<1>6. Fresh'
  BY DEF LineageInv, Fresh
<1> QED
  BY <1>2, <1>3, <1>5, <1>6 DEF LineageInv

(* The steps of a loop keep the head that the program was started with. *)
LEMMA RequestKeepsHead ==
    ASSUME NEW a \in Program
    PROVE  Request(a) \in Program /\ Request(a).head = a.head
<1> DEFINE warned == IF Warning(a) \/ a.warned > 0 THEN a.warned + 1 ELSE 0
           asked == a.asked + 1
<1>1. Request(a) = [a EXCEPT !.asked = asked, !.warned = warned]
  BY DEF Request
<1> HIDE DEF warned, asked
<1> QED
  BY <1>1, RequestCounts DEF Program

LEMMA LoopKeepsHead ==
    ASSUME AgentTyped, Running, Tools \/ Nudge \/ HandIn \/ CutOff \/ Correct
    PROVE  agent # Asleep /\ agent'.head = agent.head /\ agent'.pc \in {"loop", "extract"}
<1>1. agent \in Program /\ agent # Asleep
  BY AwakeIsTyped DEF Tools, Nudge, HandIn, CutOff, Correct
<1> DEFINE r == Request(agent)
<1>2. r \in Program /\ r.head = agent.head /\ r.pc = agent.pc
  BY <1>1, RequestKeepsHead, RequestCounts
<1> HIDE DEF r
<1>3. CASE Tools
  <2>1. PICK text \in Texts : agent' = [r EXCEPT !.turn = r.turn + 1, !.last = Heard(agent, text)]
    BY <1>3 DEF Tools, r
  <2>2. agent.pc = "loop"
    BY <1>3 DEF Tools
  <2> QED
    BY <1>1, <1>2, <2>1, <2>2 DEF Program
<1>4. CASE Nudge
  <2>1. PICK text \in Texts : agent' = [r EXCEPT
                    !.turn = IF NudgeIsFree(agent) THEN r.turn ELSE r.turn + 1,
                    !.nudges = r.nudges + 1, !.last = Heard(agent, text)]
    BY <1>4 DEF Nudge, r
  <2>2. agent.pc = "loop"
    BY <1>4 DEF Nudge
  <2> QED
    BY <1>1, <1>2, <2>1, <2>2 DEF Program
<1>5. CASE HandIn
  <2>1. PICK text \in Texts : agent' = [r EXCEPT !.pc = "extract", !.last = Heard(agent, text),
                                           !.text = Stripped(Heard(agent, text))]
    BY <1>5 DEF HandIn, r
  <2> QED
    BY <1>1, <1>2, <2>1 DEF Program
<1>6. CASE CutOff
  <2>1. agent' = [agent EXCEPT !.pc = "extract", !.text = Stripped(agent.last)]
    BY <1>6 DEF CutOff
  <2> QED
    BY <1>1, <2>1 DEF Program
<1>7. CASE Correct
  <2> DEFINE b == Looping(agent, ContinueTurns, TRUE)
  <2>1. agent' = [b EXCEPT !.retries = b.retries + 1]
    BY <1>7 DEF Correct
  <2>2. b = [agent EXCEPT !.pc = "loop", !.turn = 0, !.budget = ContinueTurns, !.noTools = TRUE,
              !.nudges = 0, !.asked = 0, !.warned = 0]
    BY DEF Looping
  <2>3. b.head = agent.head /\ b.pc = "loop" /\ DOMAIN b = DOMAIN agent
    BY <1>1, <2>2 DEF Program
  <2>4. "head" \in DOMAIN agent /\ "pc" \in DOMAIN agent
    BY <1>1 DEF Program
  <2> HIDE DEF b
  <2> QED
    BY <1>1, <2>1, <2>3, <2>4
<1> QED
  BY <1>1, <1>3, <1>4, <1>5, <1>6, <1>7

LEMMA LoopKeepsLineage ==
    ASSUME AgentInv, LineageInv, Tools \/ Nudge \/ HandIn \/ CutOff \/ Correct,
           UNCHANGED <<openVars, report, writing, ghosts>>
    PROVE  LineageInv'
<1>1. agent # Asleep /\ agent'.head = agent.head /\ agent'.pc \in {"loop", "extract"}
  BY LoopKeepsHead DEF AgentInv
<1>2. UNCHANGED <<failed, steps>>
  BY DEF Tools, Nudge, HandIn, CutOff, Correct
<1> QED
  BY <1>1, <1>2, LineageRests DEF LineageInv, Linked, openVars, ghosts

-----------------------------------------------------------------------------
(* A step that is stored follows its head and is in no list. *)
LEMMA StoringKeepsLineage ==
    ASSUME AgentInv, LineageInv, agent # Asleep,
           NEW step \in Step, steps' = Append(steps, step), step.prev = agent.head,
           AreFailures(step.previous, step.role), step.ok \/ step.previous = <<>>,
           agent'.head = agent.head,
           UNCHANGED <<failed, openVars, report, writing, ghosts>>
    PROVE  /\ Linked' /\ Failures' /\ Len(steps') \notin reported
           /\ \A r \in Roles : ~Tell(failed[r], Len(steps'))
           /\ \A k \in DOMAIN steps' : ~Tell(steps'[k].previous, Len(steps'))
<1> DEFINE n == Len(steps')
<1>1. /\ n \in DOMAIN steps' /\ n \in Nat /\ steps'[n] = step /\ n \notin DOMAIN steps
      /\ \A k \in DOMAIN steps : k \in DOMAIN steps' /\ steps'[k] = steps[k]
      /\ \A k \in DOMAIN steps' : k \in DOMAIN steps \/ k = n
      /\ \A k \in DOMAIN steps : k \in 0..(n - 1)
  <2>1. steps \in Seq(Step) /\ DOMAIN steps = 1..Len(steps) /\ Len(steps) \in Nat
    BY DEF AgentInv, StepsTyped
  <2>2. n = Len(steps) + 1
    BY <2>1, AppendProperties
  <2> QED
    BY <2>1, <2>2, StepIsAppended DEF AgentInv
<1> HIDE DEF n
<1>2. reported' = reported /\ reported \subseteq DOMAIN steps
  BY DEF AgentInv, Attempts, ghosts
<1>3. ASSUME NEW h, Good(h) PROVE Good(h)' /\ h \in 0..(n - 1)
  BY <1>1, <1>2, <1>3 DEF Good
<1>4. Linked'
  <2>1. ASSUME NEW k \in DOMAIN steps'
        PROVE  steps'[k].prev \in 0..(k - 1) /\ Good(steps[k].prev)'
    <3>1. CASE k \in DOMAIN steps
      BY <1>1, <1>3, <3>1 DEF LineageInv, Linked, Good
    <3>2. CASE k = n
      BY <1>1, <1>3, <3>2 DEF LineageInv, Linked, Good
    <3> QED
      BY <1>1, <3>1, <3>2
  <2>2. UNCHANGED <<threads, writing, written, report>>
    BY DEF openVars, ghosts
  <2>3. Good(agent.head)'
    BY <1>3 DEF LineageInv, Linked, Good
  <2>4. \A e \in {threads[TheThread], writing, written} : e # Absent => Good(e.head)
    BY DEF LineageInv, Linked
  <2>5. \A e \in {threads[TheThread], writing, written}' : e # Absent => Good(e.head)'
    BY <1>3, <2>2, <2>4 DEF Good
  <2> QED
    BY <1>2, <2>1, <2>2, <2>3, <2>5 DEF LineageInv, Linked
<1>5. ASSUME NEW list, NEW role, AreFailures(list, role) PROVE AreFailures(list, role)' /\ ~Tell(list, n)
  BY <1>1, <1>5 DEF AreFailures, Tell
<1>6. Failures'
  <2>1. ASSUME NEW k \in DOMAIN steps'
        PROVE  AreFailures(steps[k].previous, steps[k].role)' /\ (steps'[k].ok \/ steps'[k].previous = <<>>)
    <3>1. CASE k \in DOMAIN steps
      BY <1>1, <1>5, <3>1 DEF LineageInv, Failures, AreFailures
    <3>2. CASE k = n
      BY <1>1, <1>5, <3>2 DEF AreFailures
    <3> QED
      BY <1>1, <3>1, <3>2
  <2>2. \A r \in Roles : AreFailures(failed[r], r)'
    BY <1>5 DEF LineageInv, Failures, AreFailures
  <2> QED
    BY <2>1, <2>2 DEF Failures
<1>7. \A r \in Roles : ~Tell(failed[r], n)
  BY <1>5 DEF LineageInv, Failures
<1>8. \A k \in DOMAIN steps' : ~Tell(steps'[k].previous, n)
  <2>1. ASSUME NEW k \in DOMAIN steps' PROVE ~Tell(steps'[k].previous, n)
    <3>1. CASE k \in DOMAIN steps
      BY <1>1, <1>5, <3>1 DEF LineageInv, Failures
    <3>2. CASE k = n
      BY <1>1, <1>5, <3>2
    <3> QED
      BY <1>1, <3>1, <3>2
  <2> QED
    BY <2>1
<1> QED
  BY <1>1, <1>2, <1>4, <1>6, <1>7, <1>8 DEF n

LEMMA StoreFailureKeepsLineage ==
    ASSUME AgentInv, LineageInv, StoreFailure, UNCHANGED <<openVars, report, writing, ghosts>>
    PROVE  LineageInv'
<1>1. agent \in Program /\ agent # Asleep /\ agent.pc = "extract"
  BY AwakeIsTyped DEF AgentInv, StoreFailure
<1> DEFINE step == [role |-> agent.role, prev |-> agent.head, ok |-> FALSE,
                    previous |-> <<>>, own |-> FALSE /\ agent.text.own]
           n == Len(steps')
<1>2. step \in Step /\ ~step.ok /\ step.prev = agent.head /\ step.previous = <<>>
  <2>1. <<>> \in Seq(Nat)
    OBVIOUS
  <2>2. (FALSE /\ agent.text.own) \in BOOLEAN
    OBVIOUS
  <2> QED
    BY <1>1, <2>1, <2>2 DEF Step, Program
<1>3. steps' = Append(steps, step) /\ failed' = failed
  BY DEF StoreFailure, Stored
<1> HIDE DEF step
<1>4. AreFailures(step.previous, step.role)
  BY <1>2 DEF AreFailures, IsInjective
<1>5. agent' = [agent EXCEPT !.pc = "append", !.step = n]
  BY DEF StoreFailure
<1>6. agent'.pc = "append" /\ agent'.step = n /\ agent'.head = agent.head
  BY <1>1, <1>5 DEF Program
<1>7. /\ Linked' /\ Failures' /\ n \notin reported
      /\ \A r \in Roles : ~Tell(failed[r], n)
      /\ \A k \in DOMAIN steps' : ~Tell(steps'[k].previous, n)
  BY <1>1, <1>2, <1>3, <1>4, <1>6, StoringKeepsLineage
<1>8. /\ steps'[n] = step
      /\ \A k \in DOMAIN steps : k \in DOMAIN steps' /\ steps'[k] = steps[k]
      /\ \A k \in DOMAIN steps' : k \in DOMAIN steps \/ k = n
  BY <1>2, <1>3, StepIsAppended DEF AgentInv
<1>9. reported' = reported
  BY DEF ghosts
<1> HIDE DEF n
<1>10. Settled' \subseteq Settled
  BY <1>2, <1>6, <1>8, <1>9 DEF Settled
<1>11. \A k \in Settled : steps'[k] = steps[k]
  BY <1>8 DEF Settled
<1>12. Apart'
  <2>1. \A k \in Settled' : \A r \in Roles : Disjoint(steps'[k].previous, failed'[r])
    BY <1>3, <1>10, <1>11 DEF LineageInv, Apart
  <2>2. \A k, m \in Settled' : k # m => Disjoint(steps'[k].previous, steps'[m].previous)
    BY <1>10, <1>11 DEF LineageInv, Apart
  <2> QED
    BY <2>1, <2>2 DEF Apart, Disjoint
<1>13. Fresh'
  BY <1>2, <1>3, <1>6, <1>7, <1>8, <1>9 DEF Fresh, Tell
<1> QED
  BY <1>7, <1>12, <1>13 DEF LineageInv

LEMMA StoreSuccessKeepsLineage ==
    ASSUME AgentInv, LineageInv, StoreSuccess, UNCHANGED <<openVars, report, writing, ghosts>>
    PROVE  LineageInv'
<1>1. agent \in Program /\ agent # Asleep /\ agent.pc = "extract"
  BY AwakeIsTyped DEF AgentInv, StoreSuccess
<1> DEFINE list == failed[agent.role]
           own == TRUE /\ agent.text.own
           step == [role |-> agent.role, prev |-> agent.head, ok |-> TRUE,
                    previous |-> list, own |-> own]
           n == Len(steps')
           pc == IF list = <<>> THEN "report" ELSE "clear"
<1>2. list \in Seq(Nat) /\ agent.role \in Roles /\ agent.head \in Nat /\ own \in BOOLEAN
  BY <1>1 DEF Program, AgentInv, StepsTyped
<1>3. AreFailures(list, agent.role)
  BY <1>2 DEF LineageInv, Failures
<1>4. steps' = Append(steps, step) /\ failed' = failed /\ agent' = [agent EXCEPT !.step = n, !.pc = pc]
  BY DEF StoreSuccess, Stored
<1> HIDE DEF list, own
<1>5. step \in Step /\ step.ok /\ step.prev = agent.head /\ step.role = agent.role /\ step.previous = list
  BY <1>2 DEF Step
<1> HIDE DEF step
<1>6. pc \in {"report", "clear"} /\ (pc = "report" => list = <<>>)
  OBVIOUS
<1> HIDE DEF pc
<1>7. agent'.pc = pc /\ agent'.step = n /\ agent'.head = agent.head
  BY <1>1, <1>4 DEF Program
<1>8. Linked' /\ Failures' /\ n \notin reported
  BY <1>1, <1>3, <1>4, <1>5, <1>7, StoringKeepsLineage
<1>9. /\ steps'[n] = step
      /\ \A k \in DOMAIN steps : k \in DOMAIN steps' /\ steps'[k] = steps[k]
      /\ \A k \in DOMAIN steps' : k \in DOMAIN steps \/ k = n
  BY <1>4, <1>5, StepIsAppended DEF AgentInv
<1>10. reported' = reported
  BY DEF ghosts
<1> HIDE DEF n
<1>11. \A k \in Settled' : k \in Settled \/ (k = n /\ steps'[n].previous = <<>>)
  <2>1. ASSUME NEW k \in Settled' PROVE k \in Settled \/ (k = n /\ steps'[n].previous = <<>>)
    <3>1. CASE k = n
      BY <1>5, <1>6, <1>7, <1>8, <1>9, <1>10, <2>1, <3>1 DEF Settled
    <3>2. CASE k # n
      BY <1>7, <1>9, <1>10, <2>1, <3>2 DEF Settled
    <3> QED
      BY <3>1, <3>2
  <2> QED
    BY <2>1
<1>12. \A k \in Settled : steps'[k] = steps[k]
  BY <1>9 DEF Settled
<1>13. \A l : Disjoint(<<>>, l) /\ Disjoint(l, <<>>)
  BY DEF Disjoint
<1>14. Apart'
  <2>1. \A k \in Settled' : \A r \in Roles : Disjoint(steps'[k].previous, failed'[r])
    BY <1>4, <1>11, <1>12, <1>13 DEF LineageInv, Apart
  <2>2. \A k, m \in Settled' : k # m => Disjoint(steps'[k].previous, steps'[m].previous)
    BY <1>11, <1>12, <1>13 DEF LineageInv, Apart
  <2> QED
    BY <2>1, <2>2 DEF Apart, Disjoint
<1>15. Fresh'
  BY <1>6, <1>7, <1>8, <1>10 DEF Fresh
<1> QED
  BY <1>8, <1>14, <1>15 DEF LineageInv

LEMMA AppendFailureKeepsLineage ==
    ASSUME AgentInv, LineageInv, AppendFailure, UNCHANGED <<openVars, report, writing, ghosts>>
    PROVE  LineageInv'
<1>1. /\ agent \in Program /\ agent # Asleep /\ agent.pc = "append"
      /\ agent'.pc = "report" /\ agent'.step = agent.step /\ agent'.role = agent.role
  BY MovesOn DEF AgentInv, AppendFailure
<1>2. agent' = [agent EXCEPT !.pc = "report"]
  BY DEF AppendFailure
<1>3. agent'.head = agent.head
  BY <1>1, <1>2 DEF Program
<1> PICK role, n : role = agent.role /\ n = agent.step
  OBVIOUS
<1>4. /\ role \in Roles /\ n \in Nat /\ n \in DOMAIN steps /\ steps[n].role = role
      /\ n \notin reported /\ ~steps[n].ok
      /\ \A r \in Roles : ~Tell(failed[r], n)
      /\ \A k \in DOMAIN steps : ~Tell(steps[k].previous, n)
  BY <1>1 DEF AgentInv, Reporting, Program, LineageInv, Fresh
<1>5. failed' = [failed EXCEPT ![role] = Append(failed[role], n)] /\ steps' = steps /\ reported' = reported
  BY DEF AppendFailure, ghosts
<1>6. failed \in [Roles -> Seq(Nat)] /\ failed[role] \in Seq(Nat)
  BY <1>4 DEF AgentInv, StepsTyped
<1>7. /\ DOMAIN failed'[role] = 1..(Len(failed[role]) + 1)
      /\ failed'[role][Len(failed[role]) + 1] = n
      /\ \A i \in 1..Len(failed[role]) : failed'[role][i] = failed[role][i]
      /\ DOMAIN failed[role] = 1..Len(failed[role]) /\ Len(failed[role]) \in Nat
  BY <1>4, <1>5, <1>6, AppendProperties
<1>8. \A r \in Roles \ {role} : failed'[r] = failed[r]
  BY <1>5, <1>6
<1>9. \A i \in DOMAIN failed'[role] : i \in DOMAIN failed[role] \/ i = Len(failed[role]) + 1
  BY <1>7
<1>10. AreFailures(failed[role], role)'
  <2>1. AreFailures(failed[role], role)
    BY <1>4 DEF LineageInv, Failures
  <2>2. \A i \in DOMAIN failed[role] : failed[role][i] # n
    BY <1>4 DEF Tell
  <2>3. IsInjective(failed'[role])
    BY <1>7, <1>9, <2>1, <2>2 DEF AreFailures, IsInjective
  <2> QED
    BY <1>4, <1>5, <1>7, <1>9, <2>1, <2>3 DEF AreFailures
<1>11. Failures'
  BY <1>5, <1>8, <1>10 DEF LineageInv, Failures, AreFailures
<1>12. Linked'
  <2>1. \A h : Good(h)' <=> Good(h)
    BY <1>5 DEF Good
  <2> QED
    BY <1>1, <1>3, <1>5, <2>1 DEF LineageInv, Linked, openVars, ghosts
<1>13. Settled' \subseteq Settled
  BY <1>1, <1>4, <1>5 DEF Settled
<1>14. Apart'
  <2>1. ASSUME NEW k \in Settled', NEW r \in Roles
        PROVE  Disjoint(steps[k].previous, failed'[r])
    <3>1. k \in Settled /\ Disjoint(steps[k].previous, failed[r]) /\ k \in DOMAIN steps
      BY <1>13, <2>1 DEF LineageInv, Apart, Settled
    <3>2. CASE r = role
      <4>1. \A i \in DOMAIN steps[k].previous : steps[k].previous[i] # n
        BY <1>4, <3>1 DEF Tell
      <4> QED
        BY <1>7, <1>9, <3>1, <3>2, <4>1 DEF Disjoint
    <3>3. CASE r # role
      BY <1>8, <3>1, <3>3
    <3> QED
      BY <3>2, <3>3
  <2>2. \A k, m \in Settled' : k # m => Disjoint(steps[k].previous, steps[m].previous)
    BY <1>13 DEF LineageInv, Apart
  <2> QED
    BY <1>5, <2>1, <2>2 DEF Apart, Disjoint
<1>15. Fresh'
  BY <1>1, <1>4, <1>5 DEF Fresh
<1> QED
  BY <1>11, <1>12, <1>14, <1>15 DEF LineageInv

(* The list of a role is in the step, and nowhere else any more. *)
LEMMA ClearFailuresKeepsLineage ==
    ASSUME AgentInv, LineageInv, ClearFailures, UNCHANGED <<openVars, report, writing, ghosts>>
    PROVE  LineageInv'
<1>1. /\ agent \in Program /\ agent # Asleep /\ agent.pc = "clear"
      /\ agent'.pc = "report" /\ agent'.step = agent.step /\ agent'.role = agent.role
  BY MovesOn DEF AgentInv, ClearFailures
<1>2. agent' = [agent EXCEPT !.pc = "report"]
  BY DEF ClearFailures
<1>3. agent'.head = agent.head
  BY <1>1, <1>2 DEF Program
<1> PICK role, n : role = agent.role /\ n = agent.step
  OBVIOUS
<1>4. /\ role \in Roles /\ n \in DOMAIN steps /\ n \notin reported /\ steps[n].ok
      /\ steps[n].previous = failed[role]
  BY <1>1 DEF AgentInv, Reporting, Program, LineageInv, Fresh
<1>5. failed' = [failed EXCEPT ![role] = <<>>] /\ steps' = steps /\ reported' = reported
  BY DEF ClearFailures, ghosts
<1>6. \A k \in Settled' : k \in Settled \/ k = n
  BY <1>1, <1>5 DEF Settled
<1>7. failed \in [Roles -> Seq(Nat)]
  BY DEF AgentInv, StepsTyped
<1>8. failed'[role] = <<>> /\ \A r \in Roles \ {role} : failed'[r] = failed[r]
  BY <1>4, <1>5, <1>7
<1>9. Failures'
  <2>1. AreFailures(<<>>, role)'
    BY DEF AreFailures, IsInjective
  <2> QED
    BY <1>5, <1>8, <2>1 DEF LineageInv, Failures, AreFailures
<1>10. Linked'
  <2>1. \A h : Good(h)' <=> Good(h)
    BY <1>5 DEF Good
  <2> QED
    BY <1>1, <1>3, <1>5, <2>1 DEF LineageInv, Linked, openVars, ghosts
<1>11. \A l : Disjoint(<<>>, l) /\ Disjoint(l, <<>>)
  BY DEF Disjoint
<1>12. \A r \in Roles \ {role} : Disjoint(failed[role], failed[r])
  <2>1. ASSUME NEW r \in Roles \ {role} PROVE Disjoint(failed[role], failed[r])
    <3>1. AreFailures(failed[r], r) /\ AreFailures(failed[role], role)
      BY <1>4 DEF LineageInv, Failures
    <3> QED
      BY <2>1, <3>1 DEF AreFailures, Disjoint
  <2> QED
    BY <2>1
<1>13. \A k \in Settled : Disjoint(steps[k].previous, failed[role]) /\ Disjoint(failed[role], steps[k].previous)
  BY <1>4 DEF LineageInv, Apart, Disjoint
<1>14. Apart'
  <2>1. \A k \in Settled' : \A r \in Roles : Disjoint(steps[k].previous, failed'[r])
    <3>1. ASSUME NEW k \in Settled', NEW r \in Roles
          PROVE  Disjoint(steps[k].previous, failed'[r])
      <4>1. CASE r = role
        BY <1>8, <1>11, <4>1
      <4>2. CASE r # role /\ k \in Settled
        BY <1>8, <4>2 DEF LineageInv, Apart
      <4>3. CASE r # role /\ k = n
        BY <1>4, <1>8, <1>12, <4>3
      <4> QED
        BY <1>6, <4>1, <4>2, <4>3
    <3> QED
      BY <3>1
  <2>2. \A k, m \in Settled' : k # m => Disjoint(steps[k].previous, steps[m].previous)
    <3>1. ASSUME NEW k \in Settled', NEW m \in Settled', k # m
          PROVE  Disjoint(steps[k].previous, steps[m].previous)
      <4>1. CASE k \in Settled /\ m \in Settled
        BY <3>1, <4>1 DEF LineageInv, Apart
      <4>2. CASE k = n /\ m \in Settled
        BY <1>4, <1>13, <4>2
      <4>3. CASE k \in Settled /\ m = n
        BY <1>4, <1>13, <4>3
      <4> QED
        BY <1>6, <3>1, <4>1, <4>2, <4>3
    <3> QED
      BY <3>1
  <2> QED
    BY <1>5, <2>1, <2>2 DEF Apart, Disjoint
<1>15. Fresh'
  BY <1>1, <1>4, <1>5 DEF Fresh
<1> QED
  BY <1>9, <1>10, <1>14, <1>15 DEF LineageInv

LEMMA ReportKeepsLineage ==
    ASSUME AgentInv, LineageInv, Report
    PROVE  LineageInv'
<1>1. agent # Asleep /\ agent.pc = "report"
  BY AwakeIsTyped DEF AgentInv, Report
<1>2. /\ agent' = Asleep /\ report' = agent.step /\ reported' = reported \cup {agent.step}
      /\ UNCHANGED <<failed, steps, threads, writing, written>>
  BY DEF Report, openVars
<1>3. \A h : Good(h) => Good(h)'
  BY <1>2 DEF Good
<1>4. Linked'
  BY <1>2, <1>3 DEF LineageInv, Linked
<1>5. Failures'
  BY <1>2 DEF LineageInv, Failures, AreFailures
<1>6. Settled' \subseteq Settled
  BY <1>1, <1>2 DEF Settled
<1>7. Apart'
  BY <1>2, <1>6 DEF LineageInv, Apart
<1>8. Fresh'
  BY <1>2 DEF Fresh
<1> QED
  BY <1>4, <1>5, <1>7, <1>8 DEF LineageInv

LEMMA ClearOfKeepsLineage ==
    ASSUME Worked, AgentInv, LineageInv, NEW role \in Roles, ClearOf(role)
    PROVE  LineageInv'
<1>1. /\ agent = Asleep /\ agent' = Asleep /\ failed' = [failed EXCEPT ![role] = <<>>]
      /\ UNCHANGED <<steps, threads, report, writing, written, reported>>
  BY DEF Worked, ClearOf, openVars
<1>2. failed \in [Roles -> Seq(Nat)]
  BY DEF AgentInv, StepsTyped
<1>3. failed'[role] = <<>> /\ \A r \in Roles \ {role} : failed'[r] = failed[r]
  BY <1>1, <1>2
<1>4. Linked'
  <2>1. \A h : Good(h)' <=> Good(h)
    BY <1>1 DEF Good
  <2> QED
    BY <1>1, <2>1 DEF LineageInv, Linked
<1>5. Failures'
  <2>1. AreFailures(<<>>, role)'
    BY DEF AreFailures, IsInjective
  <2> QED
    BY <1>1, <1>3, <2>1 DEF LineageInv, Failures, AreFailures
<1>6. Settled' = Settled
  BY <1>1 DEF Settled
<1>7. Apart'
  <2>1. \A l : Disjoint(l, <<>>)
    BY DEF Disjoint
  <2>2. \A k \in Settled : \A r \in Roles : Disjoint(steps[k].previous, failed'[r])
    BY <1>3, <2>1 DEF LineageInv, Apart
  <2> QED
    BY <1>1, <1>6, <2>2 DEF LineageInv, Apart, Disjoint
<1>8. Fresh'
  BY <1>1 DEF Fresh
<1> QED
  BY <1>4, <1>5, <1>7, <1>8 DEF LineageInv

-----------------------------------------------------------------------------
(* Opening the store gives no thread a head. *)
LEMMA OpeningKeepsLineage ==
    ASSUME HomeAssumption, HomeInv, LineageInv, Opening
    PROVE  LineageInv'
<1>1. UNCHANGED <<failed, steps, agent, report, writing, written, reported>> /\ OpenStep
  BY DEF Opening, agentVars, ghosts
<1>2. threads \in [Ids -> Entries \cup {Absent}] /\ TheThread \in Ids
  BY DEF HomeInv, OpeningTyped, HomeAssumption
<1>3. threads'[TheThread] \in {threads[TheThread], Absent, EntryOf(opening.at, Current)}
  <2>1. CASE Unset
    <3>1. threads' = [threads EXCEPT ![Current.id] = Absent]
      BY <2>1 DEF Unset
    <3> QED
      BY <1>2, <3>1
  <2>2. CASE Set
    <3>1. threads' = [threads EXCEPT ![Current.id] = EntryOf(opening.at, Current)]
      BY <2>2 DEF Set
    <3> QED
      BY <1>2, <3>1
  <2>3. CASE Open \/ PassOver \/ Register \/ Forget \/ Leave
    BY <2>3 DEF Open, PassOver, Register, Forget, Leave
  <2> QED
    BY <1>1, <2>1, <2>2, <2>3 DEF OpenStep
<1>4. \A s, r : EntryOf(s, r).head = 0
  BY DEF EntryOf
<1>5. ASSUME NEW e \in {threads[TheThread], writing, written}', e # Absent
      PROVE  Good(e.head)
  <2>1. e \in {threads[TheThread], writing, written} \/ e = EntryOf(opening.at, Current)
    BY <1>1, <1>3, <1>5
  <2> QED
    BY <1>4, <1>5, <2>1 DEF LineageInv, Linked, Good
<1> QED
  BY <1>1, <1>5, LineageRests

LEMMA ExecKeepsLineage ==
    ASSUME LoopAssumption, HomeAssumption, HomeInv, LineageInv, NEW role \in Roles, Exec(role)
    PROVE  LineageInv'
<1>1. threads[TheThread] # Absent /\ threads[TheThread].head \in Nat
  BY DEF Exec, HomeInv, OpeningTyped, HomeAssumption, Entries
<1>2. agent'.pc = "loop"
  BY <1>1, BeginIsFit DEF Exec
<1>3. agent'.head = threads[TheThread].head
  BY DEF Exec, Begin, Looping
<1>4. Good(agent'.head)
  BY <1>1, <1>3 DEF LineageInv, Linked
<1> QED
  BY <1>2, <1>4, LineageRests DEF Exec, Begin, openVars, ghosts, LineageInv, Linked

LEMMA TakeKeepsLineage ==
    ASSUME HomeAssumption, HomeInv, LineageInv, Take
    PROVE  LineageInv'
<1>1. UNCHANGED <<failed, steps, agent, written, reported>> /\ report' = 0 /\ report # 0
  BY DEF Take, agentVars, ghosts
<1>2. threads \in [Ids -> Entries \cup {Absent}] /\ TheThread \in Ids
  BY DEF HomeInv, OpeningTyped, HomeAssumption
<1>3. ASSUME NEW e \in {threads[TheThread], writing, written}', e # Absent
      PROVE  Good(e.head)
  <2>1. CASE steps[report].ok
    <3>1. threads' = [threads EXCEPT ![TheThread] = Absent] /\ writing' = [head |-> report, status |-> "idle"]
      BY <2>1 DEF Take
    <3>2. e = written \/ e.head = report
      BY <1>1, <1>2, <1>3, <3>1
    <3> QED
      BY <1>1, <1>3, <2>1, <3>2 DEF LineageInv, Linked, Good
  <2>2. CASE ~steps[report].ok
    <3>1. UNCHANGED <<threads, writing>>
      BY <2>2 DEF Take
    <3> QED
      BY <1>1, <1>3, <3>1 DEF LineageInv, Linked
  <2> QED
    BY <2>1, <2>2
<1> QED
  BY <1>1, <1>3, LineageRests

LEMMA ArchiveKeepsLineage ==
    ASSUME HomeAssumption, HomeInv, LineageInv, NEW status \in {"end", "cancelled"}, Archive(status)
    PROVE  LineageInv'
<1>1. UNCHANGED <<failed, steps, agent, report, written, reported>>
  BY DEF Archive, agentVars, ghosts
<1>2. /\ threads \in [Ids -> Entries \cup {Absent}] /\ TheThread \in Ids
      /\ threads[TheThread] \in Entries /\ threads[TheThread] # Absent
  BY DEF HomeInv, OpeningTyped, HomeAssumption, Archive
<1>3. /\ threads' = [threads EXCEPT ![TheThread] = Absent]
      /\ writing' = [threads[TheThread] EXCEPT !.status = status]
  BY DEF Archive
<1>4. writing'.head = threads[TheThread].head
  BY <1>2, <1>3 DEF Entries
<1>5. ASSUME NEW e \in {threads[TheThread], writing, written}', e # Absent
      PROVE  Good(e.head)
  BY <1>1, <1>2, <1>3, <1>4, <1>5 DEF LineageInv, Linked
<1> QED
  BY <1>1, <1>5, LineageRests

LEMMA WriteKeepsLineage ==
    ASSUME HomeAssumption, HomeInv, LineageInv, Write
    PROVE  LineageInv'
<1>1. UNCHANGED <<failed, steps, agent, report, reported>>
  BY DEF Write, agentVars
<1>2. threads \in [Ids -> Entries \cup {Absent}] /\ TheThread \in Ids
  BY DEF HomeInv, OpeningTyped, HomeAssumption
<1>3. /\ threads' = [threads EXCEPT ![TheThread] = writing]
      /\ written' = writing /\ writing' = Absent
  BY DEF Write
<1>4. ASSUME NEW e \in {threads[TheThread], writing, written}', e # Absent
      PROVE  Good(e.head)
  BY <1>2, <1>3, <1>4 DEF LineageInv, Linked
<1> QED
  BY <1>1, <1>4, LineageRests

FullInv == Inv /\ LineageInv

LEMMA FullInvHolds == Spec => []FullInv
<1> USE LoopAssumption, HomeAssumption
<1>1. Init => LineageInv
  <2> SUFFICES ASSUME Init PROVE LineageInv
    OBVIOUS
  <2>1. /\ TheThread \in Ids /\ threads = [id \in Ids |-> Absent] /\ report = 0 /\ writing = Absent
        /\ written = Absent /\ reported = {} /\ agent = Asleep /\ steps = <<>>
        /\ failed = [r \in Roles |-> <<>>]
    BY DEF Init, OpenInit, AgentInit
  <2>2. DOMAIN steps = {}
    BY <2>1
  <2>3. Linked /\ Fresh
    BY <2>1, <2>2 DEF Linked, Fresh
  <2>4. Failures
    <3>1. \A r : AreFailures(<<>>, r)
      BY DEF AreFailures, IsInjective
    <3> QED
      BY <2>1, <2>2, <3>1 DEF Failures
  <2>5. Apart
    BY <2>2 DEF Apart, Settled
  <2> QED
    BY <2>3, <2>4, <2>5 DEF LineageInv
<1>2. Inv /\ Inv' /\ LineageInv /\ [Next]_vars => LineageInv'
  <2> SUFFICES ASSUME Inv, LineageInv, [Next]_vars PROVE LineageInv'
    OBVIOUS
  <2>0. HomeInv /\ AgentInv /\ Worked
    BY DEF Inv, HomeInv
  <2>1. CASE Opening
    BY <2>0, <2>1, OpeningKeepsLineage
  <2>2. CASE Working
    <3>1. AgentStep /\ UNCHANGED <<openVars, report, writing, ghosts>>
      BY <2>2 DEF Working
    <3> QED
      BY <2>0, <3>1, LoopKeepsLineage, StoreFailureKeepsLineage, AppendFailureKeepsLineage,
         StoreSuccessKeepsLineage, ClearFailuresKeepsLineage DEF AgentStep
  <2>3. CASE Report
    BY <2>0, <2>3, ReportKeepsLineage
  <2>4. CASE Take
    BY <2>0, <2>4, TakeKeepsLineage
  <2>5. CASE Write
    BY <2>0, <2>5, WriteKeepsLineage
  <2>6. CASE Archived \/ AgentDies \/ UNCHANGED vars
    <3>1. /\ UNCHANGED <<failed, steps, threads, report, writing, written, reported>>
          /\ agent' = Asleep \/ agent' = agent
      BY <2>6 DEF Archived, AgentDies, Die, vars, agentVars, openVars, ghosts
    <3> QED
      BY <3>1, LineageRests DEF LineageInv, Linked
  <2>7. CASE Exit
    <3>1. /\ UNCHANGED <<failed, steps, threads, written, reported>>
          /\ agent' = Asleep /\ report' = 0 /\ writing' = Absent
      BY <2>7 DEF Exit, Close
    <3> QED
      BY <3>1, LineageRests DEF LineageInv, Linked
  <2>8. ASSUME NEW role \in Roles, Exec(role) PROVE LineageInv'
    BY <2>0, <2>8, ExecKeepsLineage
  <2>9. ASSUME NEW role \in Roles, ClearOf(role) PROVE LineageInv'
    BY <2>0, <2>9, ClearOfKeepsLineage
  <2>10. ASSUME NEW status \in {"end", "cancelled"}, Archive(status) PROVE LineageInv'
    BY <2>0, <2>10, ArchiveKeepsLineage
  <2> QED
    BY <2>1, <2>2, <2>3, <2>4, <2>5, <2>6, <2>7, <2>8, <2>9, <2>10 DEF Next
<1> QED
  BY <1>1, <1>2, InvHolds, PTL DEF Spec, FullInv

-----------------------------------------------------------------------------
(* The thread that the agent works for, from its head. *)
LEMMA AgentChain ==
    ASSUME FullInv, NEW head, Good(head)
    PROVE  /\ Chain(head) \in Seq(Nat) /\ IsInjective(Chain(head))
           /\ \A i \in DOMAIN Chain(head) :
                Chain(head)[i] \in DOMAIN steps /\ Good(Chain(head)[i]) /\ Chain(head)[i] # 0
<1> DEFINE n == Len(steps)
           Members == {k \in reported : steps[k].ok}
<1>1. n \in Nat /\ DOMAIN steps = 1..n
  BY DEF FullInv, Inv, AgentInv, StepsTyped
<1>2. Members \subseteq 1..n
  BY <1>1 DEF FullInv, Inv, AgentInv, Attempts
<1>3. /\ \A k \in 1..n : steps[k].prev \in 0..(k - 1)
      /\ \A k \in 1..n : steps[k].prev \in {0} \cup Members
  BY <1>1 DEF FullInv, LineageInv, Linked, Good
<1>4. head \in 0..n /\ head \in {0} \cup Members
  BY <1>1, <1>2 DEF Good
<1>5. \A k \in Members : Good(k)
  BY DEF Good
<1> HIDE DEF n, Members
<1>6. n = Len(steps)
  BY DEF n
<1>7. /\ Chain(head) \in Seq(Nat) /\ IsInjective(Chain(head))
      /\ \A i \in DOMAIN Chain(head) : Chain(head)[i] \in Members \cap (1..n)
  BY <1>1, <1>3, <1>4, <1>6, ChainMembers
<1> QED
  BY <1>1, <1>5, <1>7

(* What ToldOnce says of a step. *)
TellsOnce(roles, role, i) ==
    LET messages == Messages(roles, role)
        turns == TurnsOf(roles, role)
        first == Min(turns)
    IN  /\ Cardinality({m \in DOMAIN messages : i \in messages[m]}) = 1
        /\ \A room \in 1..(Len(roles) + 1) :
            LET prompt(t) == AssembleBrokerPrompt(SubSeq(roles, 1, t - 1), role, room)
                telling == {t \in turns : \E s \in prompt(t).steps : s.step = i}
                leftOut == roles[i] = role \/ i + room < first
            IN  /\ Cardinality(telling) = (IF leftOut THEN 0 ELSE 1)
                /\ \A t \in telling : \A s \in prompt(t).steps :
                    /\ s.number < prompt(t).progress.thisStep
                    /\ (t # first \/ room >= t - 1) => s.number = s.step

LEMMA MessagesAndPrompts ==
    ASSUME NEW S, NEW roles \in Seq(S), NEW role, NEW i \in 1..Len(roles)
    PROVE  TellsOnce(roles, role, i)
<1>1. roles = [k \in 1..Len(roles) |-> roles[k]] /\ Len(roles) \in Nat
  OBVIOUS
<1>2. Cardinality({m \in DOMAIN Messages(roles, role) : i \in Messages(roles, role)[m]}) = 1
  BY <1>1, MessagesTellOnce
<1> QED
  BY <1>2, PromptsTellOnce DEF TellsOnce, PromptOf

-----------------------------------------------------------------------------
(* A failed attempt has no failed attempts: the usage of a step is its own  *)
(* run and those that it tells of.                                          *)
LEMMA UsageOfStep ==
    ASSUME FullInv, NEW n \in DOMAIN steps
    PROVE  StepUsage(n) = <<n>> \o steps[n].previous
<1> DEFINE Usage(f) == f = [k \in DOMAIN steps |->
                <<k>> \o FlattenSeq([i \in DOMAIN steps[k].previous |-> f[steps[k].previous[i]]])]
           runs == CHOOSE f : Usage(f)
           known == [k \in DOMAIN steps |-> <<k>> \o steps[k].previous]
<1>1. \A k \in DOMAIN steps :
        /\ steps[k].previous \in Seq(Nat) /\ k \in Nat
        /\ \A i \in DOMAIN steps[k].previous :
            steps[k].previous[i] \in DOMAIN steps /\ steps[steps[k].previous[i]].previous = <<>>
  <2>1. \A k \in DOMAIN steps : steps[k] \in Step /\ k \in Nat
    BY DEF FullInv, Inv, AgentInv, StepsTyped
  <2> QED
    BY <2>1 DEF Step, FullInv, LineageInv, Failures, AreFailures
<1>2. FlattenSeq(<<>>) = <<>>
  BY DEF FlattenSeq
<1>3. ASSUME NEW f, NEW k \in DOMAIN steps,
             \A i \in DOMAIN steps[k].previous : f[steps[k].previous[i]] = <<steps[k].previous[i]>>
      PROVE  FlattenSeq([i \in DOMAIN steps[k].previous |-> f[steps[k].previous[i]]]) = steps[k].previous
  <2> DEFINE list == steps[k].previous
  <2>1. list \in Seq(Nat)
    BY <1>1
  <2>2. \A i \in DOMAIN list : f[list[i]] = <<list[i]>>
    BY <1>3
  <2> HIDE DEF list
  <2>3. [i \in DOMAIN list |-> f[list[i]]] = [i \in DOMAIN list |-> <<list[i]>>]
    BY <2>2
  <2>4. FlattenSeq([i \in DOMAIN list |-> f[list[i]]]) = list
    BY <2>1, <2>3, FlattenSingles
  <2> QED
    BY <2>4 DEF list
<1>4. \A k \in DOMAIN steps : <<k>> \o <<>> = <<k>>
  BY <1>1
<1>5. Usage(known)
  <2>1. ASSUME NEW k \in DOMAIN steps, NEW i \in DOMAIN steps[k].previous
        PROVE  known[steps[k].previous[i]] = <<steps[k].previous[i]>>
    BY <1>1, <1>4
  <2> HIDE DEF known
  <2>2. \A k \in DOMAIN steps :
          FlattenSeq([i \in DOMAIN steps[k].previous |-> known[steps[k].previous[i]]]) = steps[k].previous
    BY <1>3, <2>1
  <2> USE DEF known
  <2> QED
    BY <2>2, Zenon
<1>6. Usage(runs)
  BY <1>5
<1> HIDE DEF runs, known
<1>7. \A k \in DOMAIN steps :
        runs[k] = <<k>> \o FlattenSeq([i \in DOMAIN steps[k].previous |-> runs[steps[k].previous[i]]])
  BY <1>6
<1>8. ASSUME NEW k \in DOMAIN steps, steps[k].previous = <<>> PROVE runs[k] = <<k>>
  <2>1. [i \in DOMAIN steps[k].previous |-> runs[steps[k].previous[i]]] = <<>>
    BY <1>8
  <2> QED
    BY <1>2, <1>4, <1>7, <2>1
<1>9. \A i \in DOMAIN steps[n].previous : runs[steps[n].previous[i]] = <<steps[n].previous[i]>>
  BY <1>1, <1>8
<1>10. runs[n] = <<n>> \o steps[n].previous
  BY <1>3, <1>7, <1>9
<1>11. StepUsage(n) = runs[n]
  BY DEF StepUsage, runs
<1> QED
  BY <1>10, <1>11

(* The usage of a step that was reported counts nothing twice, and those of *)
(* two such steps nothing in common.                                        *)
LEMMA UsageIsApart ==
    ASSUME FullInv, NEW n \in Settled
    PROVE  /\ StepUsage(n) \in Seq(Nat) /\ IsInjective(StepUsage(n))
           /\ \A m \in Settled : m # n => Disjoint(StepUsage(n), StepUsage(m))
<1>1. ASSUME NEW k \in Settled
      PROVE  /\ k \in DOMAIN steps /\ k \in Nat /\ steps[k].ok /\ steps[k].previous \in Seq(Nat)
             /\ StepUsage(k) = <<k>> \o steps[k].previous
             /\ \A i \in DOMAIN steps[k].previous : ~steps[steps[k].previous[i]].ok
             /\ IsInjective(steps[k].previous)
  <2>1. k \in DOMAIN steps /\ steps[k].ok /\ steps \in Seq(Step)
    BY DEF Settled, FullInv, Inv, AgentInv, StepsTyped
  <2>2. steps[k] \in Step /\ k \in Nat
    BY <2>1
  <2> QED
    BY <2>1, <2>2, UsageOfStep DEF Step, FullInv, LineageInv, Failures, AreFailures
<1>2. ASSUME NEW k \in Nat, NEW list \in Seq(Nat)
      PROVE  /\ <<k>> \o list \in Seq(Nat) /\ Len(list) \in Nat
             /\ DOMAIN (<<k>> \o list) = 1..(Len(list) + 1)
             /\ (<<k>> \o list)[1] = k
             /\ \A i \in 2..(Len(list) + 1) : (<<k>> \o list)[i] = list[i - 1] /\ i - 1 \in DOMAIN list
  OBVIOUS
<1>3. ASSUME NEW k \in Settled, NEW i \in DOMAIN StepUsage(k)
      PROVE  \/ i = 1 /\ StepUsage(k)[i] = k
             \/ i - 1 \in DOMAIN steps[k].previous /\ StepUsage(k)[i] = steps[k].previous[i - 1] /\ i \in Nat
  <2>1. /\ k \in Nat /\ steps[k].previous \in Seq(Nat) /\ StepUsage(k) = <<k>> \o steps[k].previous
    BY <1>1
  <2>2. i = 1 \/ i \in 2..(Len(steps[k].previous) + 1)
    BY <1>2, <1>3, <2>1
  <2> QED
    BY <1>2, <2>1, <2>2
<1>4. IsInjective(StepUsage(n))
  <2> SUFFICES ASSUME NEW i \in DOMAIN StepUsage(n), NEW j \in DOMAIN StepUsage(n),
                      StepUsage(n)[i] = StepUsage(n)[j]
               PROVE  i = j
    BY DEF IsInjective
  <2> DEFINE usage == StepUsage(n)
             list == steps[n].previous
  <2>1. (i = 1 /\ usage[i] = n) \/ (i - 1 \in DOMAIN list /\ usage[i] = list[i - 1] /\ i \in Nat)
    BY <1>3
  <2>2. (j = 1 /\ usage[j] = n) \/ (j - 1 \in DOMAIN list /\ usage[j] = list[j - 1] /\ j \in Nat)
    BY <1>3
  <2>3. /\ steps[n].ok /\ \A k \in DOMAIN list : ~steps[list[k]].ok
        /\ \A k, l \in DOMAIN list : list[k] = list[l] => k = l
    BY <1>1 DEF IsInjective
  <2>4. usage[i] = usage[j]
    OBVIOUS
  <2> HIDE DEF usage, list
  <2> QED
    BY <2>1, <2>2, <2>3, <2>4
<1>5. ASSUME NEW m \in Settled, m # n PROVE Disjoint(StepUsage(n), StepUsage(m))
  <2> SUFFICES ASSUME NEW i \in DOMAIN StepUsage(n), NEW j \in DOMAIN StepUsage(m)
               PROVE  StepUsage(n)[i] # StepUsage(m)[j]
    BY DEF Disjoint
  <2> DEFINE list == steps[n].previous
             other == steps[m].previous
  <2>1. StepUsage(n)[i] = n \/ \E k \in DOMAIN list : StepUsage(n)[i] = list[k]
    BY <1>3
  <2>2. StepUsage(m)[j] = m \/ \E k \in DOMAIN other : StepUsage(m)[j] = other[k]
    BY <1>3
  <2>3. /\ steps[n].ok /\ steps[m].ok
        /\ \A k \in DOMAIN list : ~steps[list[k]].ok
        /\ \A k \in DOMAIN other : ~steps[other[k]].ok
    BY <1>1
  <2>4. \A k \in DOMAIN list, l \in DOMAIN other : list[k] # other[l]
    BY <1>5 DEF FullInv, LineageInv, Apart, Disjoint
  <2> HIDE DEF list, other
  <2> QED
    BY <1>5, <2>1, <2>2, <2>3, <2>4
<1>6. StepUsage(n) \in Seq(Nat)
  <2>1. n \in Nat /\ steps[n].previous \in Seq(Nat) /\ StepUsage(n) = <<n>> \o steps[n].previous
    BY <1>1
  <2>2. <<n>> \o steps[n].previous \in Seq(Nat)
    BY <1>2, <2>1
  <2> QED
    BY <2>1, <2>2
<1> QED
  BY <1>4, <1>5, <1>6

-----------------------------------------------------------------------------
(* createUwfStore carries every thread over once: a thread that an older    *)
(* version knew has its entry or a record still to be read, wherever the    *)
(* migrations are killed; and in an open store it is as the last record     *)
(* told, or as a command wrote it since.                                    *)
THEOREM ThreadsAreCarriedOver == Spec => []CarriedOverOnce
<1>1. Inv => CarriedOverOnce
  <2> SUFFICES ASSUME Inv, NEW id \in Ids
      PROVE  /\ (\E s \in 2..LastSource : Named(legacy[s], id)) /\ threads[id] = Absent =>
                InGap(id) \/ \E s \in 2..LastSource : Named(sources[s], id)
             /\ Opened => AsTold(id)
    BY DEF CarriedOverOnce
  <2>1. Opened => AsTold(id)
    BY HomeAssumption, OpenedIsDone DEF Inv
  <2>2. ASSUME NEW s \in 2..LastSource, Named(legacy[s], id), threads[id] = Absent,
               ~InGap(id), \A u \in Sources : ~Named(sources[u], id)
        PROVE  FALSE
    <3>1. ~Named(opening.todo, id) \/ opening.at < 2
      <4>1. CASE opening.at \in Sources /\ opening.todo # <<>>
        <5>1. sources[opening.at] \in Seq(Records) /\ opening.todo \in Seq(Records)
          BY <4>1, FourSources DEF Inv, HomeInv, Todo, OpeningTyped
        <5>2. Ending(opening.todo, sources[opening.at])
          BY <4>1, <5>1, WholeIsEnding DEF Inv, HomeInv, Todo
        <5>3. ~Named(sources[opening.at], id)
          BY <2>2, <4>1
        <5> QED
          BY <5>1, <5>2, <5>3, HomeAssumption, NamedInEnding
      <4>2. CASE opening.todo = <<>>
        BY <4>2, NothingIsNamed
      <4>3. opening.at \in 0..5 /\ (Opened => opening.todo = <<>>)
        BY FourSources DEF Inv, HomeInv, OpeningTyped, Todo
      <4> QED
        BY <4>1, <4>2, <4>3, FourSources DEF Opened
    <3>2. AsTold(id)
      BY <2>2, <3>1 DEF Inv, HomeInv, Carried, Remaining
    <3>3. written = Absent \/ written \in Entries
      BY DEF Inv, HomeInv, OpeningTyped
    <3>4. Tells(legacy, id, Absent)
      BY <2>2, <3>2, <3>3 DEF AsTold
    <3>5. PICK u \in Sources, r \in Records : Absent = EntryOf(u, r)
      <4>1. PICK u \in 2..LastSource : legacy[u] # Absent /\
              \E i \in DOMAIN legacy[u] : Absent = EntryOf(u, legacy[u][i])
        BY <2>2, <3>4 DEF Tells
      <4>2. legacy[u] \in Seq(Records)
        BY <4>1, FourSources, HomeAssumption DEF Inv, HomeInv, OpeningTyped
      <4> QED
        BY <4>1, <4>2 DEF Sources
    <3> QED
      BY <3>5, EntryIsTyped, HomeAssumption
  <2> QED
    BY <2>1, <2>2 DEF Sources
<1> QED
  BY <1>1, InvHolds, PTL

(* runBuiltinLoop: for any budgets the number of requests is bounded, and   *)
(* the deadline warning comes early enough.                                 *)
THEOREM BudgetsAreKept == Spec => []BudgetKept
<1>1. Inv => BudgetKept
  <2> SUFFICES ASSUME Inv, agent # Asleep
      PROVE  /\ agent.asked <= agent.budget + MaxNudges
             /\ agent.pc = "loop" /\ agent.turn = agent.budget => agent.warned >= DeadlineTurns
    BY DEF BudgetKept
  <2>1. agent \in Program /\ Budget(agent) /\ Asked(agent)
    BY DEF Inv, AgentInv, AgentTyped, Running, Fit
  <2>2. {agent.asked, agent.turn, agent.budget, agent.nudges, agent.warned, MaxNudges} \subseteq Nat
    BY <2>1, LoopAssumption DEF Program
  <2>3. DeadlineTurns \in Nat /\ ContinueTurns \in Nat \ {0}
    BY LoopAssumption
  <2>4. agent.asked <= agent.budget + MaxNudges
    BY <2>1, <2>2 DEF Budget, Asked
  <2>5. ASSUME agent.pc = "loop", agent.turn = agent.budget
        PROVE  agent.warned >= DeadlineTurns
    <3>1. ~agent.noTools
      BY <2>1, <2>3, <2>5 DEF Budget
    <3> QED
      BY <2>1, <2>2, <2>3, <2>5, <3>1 DEF Asked
  <2> QED
    BY <2>4, <2>5
<1> QED
  BY <1>1, InvHolds, PTL

(* extractFinalText and tryExtractOutput: a step holds what the agent said  *)
(* in its own run, however often it fell silent, was corrected or cut off.  *)
THEOREM WordsAreOwn == Spec => []OwnWords
<1>1. Inv => OwnWords
  BY DEF Inv, AgentInv
<1> QED
  BY <1>1, InvHolds, PTL

(* buildBuiltinMessages and assembleBrokerPrompt: for any thread, any role  *)
(* and any room, an agent is told of every step exactly once.               *)
THEOREM EveryStepIsTold == Spec => []ToldOnce
<1>1. FullInv => ToldOnce
  <2> SUFFICES ASSUME FullInv, agent # Asleep PROVE ToldOnce
    BY DEF ToldOnce
  <2> DEFINE chain == Chain(agent.head)
             roles == [i \in DOMAIN chain |-> steps[chain[i]].role]
  <2>1. Good(agent.head)
    BY DEF FullInv, LineageInv, Linked
  <2>2. chain \in Seq(Nat) /\ \A i \in DOMAIN chain : chain[i] \in DOMAIN steps
    BY <2>1, AgentChain
  <2> HIDE DEF chain
  <2>3. Len(chain) \in Nat /\ DOMAIN chain = 1..Len(chain)
    BY <2>2
  <2>4. \A i \in DOMAIN chain : steps[chain[i]].role \in Roles
    <3>1. \A k \in DOMAIN steps : steps[k].role \in Roles
      <4>1. \A k \in DOMAIN steps : steps[k] \in Step
        BY DEF FullInv, Inv, AgentInv, StepsTyped
      <4> QED
        BY <4>1 DEF Step
    <3> QED
      BY <2>2, <3>1
  <2>5. roles \in Seq(Roles) /\ Len(roles) = Len(chain) /\ DOMAIN roles = 1..Len(chain)
    BY <2>3, <2>4
  <2> HIDE DEF roles
  <2>6. roles = [i \in 1..Len(chain) |-> roles[i]]
    BY <2>5
  <2>7. ASSUME NEW i \in DOMAIN chain
        PROVE  TellsOnce(roles, agent.role, i)
    BY <2>3, <2>5, <2>7, MessagesAndPrompts
  <2> HIDE DEF roles
  <2>8. \A i \in DOMAIN chain : TellsOnce(roles, agent.role, i)
    BY <2>7
  <2> USE DEF chain, roles
  <2> QED
    BY <2>8 DEF ToldOnce, TellsOnce
<1> QED
  BY <1>1, FullInvHolds, PTL

(* persistStep, clearFailedAttempts and aggregateThreadUsage: wherever the  *)
(* agent or a command is killed, a failed attempt that was reported can be  *)
(* found, and the usage of the thread counts no run twice.                  *)
THEOREM LineageIsWhole == Spec => []LineageWhole
<1>1. FullInv => LineageWhole
  <2> SUFFICES ASSUME FullInv PROVE LineageWhole
    OBVIOUS
  <2>1. AttemptsTold
    BY DEF FullInv, Inv, AgentInv, Attempts
  <2>2. ASSUME written # Absent PROVE IsInjective(ThreadUsage(written.head))
    <3> DEFINE chain == Chain(written.head)
               usages == [i \in DOMAIN chain |-> StepUsage(chain[i])]
    <3>1. Good(written.head)
      BY <2>2 DEF FullInv, LineageInv, Linked
    <3>2. /\ chain \in Seq(Nat) /\ \A i, j \in DOMAIN chain : chain[i] = chain[j] => i = j
          /\ \A i \in DOMAIN chain : chain[i] \in Settled
      BY <3>1, AgentChain DEF Settled, Good, IsInjective
    <3> HIDE DEF chain
    <3>3. /\ Len(chain) \in Nat /\ DOMAIN chain = 1..Len(chain)
          /\ \A i \in DOMAIN chain : StepUsage(chain[i]) \in Seq(Nat) /\ IsInjective(StepUsage(chain[i]))
          /\ \A i, j \in DOMAIN chain : i # j => Disjoint(StepUsage(chain[i]), StepUsage(chain[j]))
      BY <3>2, UsageIsApart
    <3>4. /\ usages \in Seq(Seq(Nat)) /\ DOMAIN usages = DOMAIN chain
          /\ \A i \in DOMAIN chain : usages[i] = StepUsage(chain[i])
      BY <3>3
    <3> HIDE DEF usages
    <3>5. /\ \A i \in DOMAIN usages : IsInjective(usages[i])
          /\ \A i, j \in DOMAIN usages : i # j =>
                \A a \in DOMAIN usages[i], b \in DOMAIN usages[j] : usages[i][a] # usages[j][b]
      BY <3>3, <3>4 DEF Disjoint
    <3>6. IsInjective(FlattenSeq(usages))
      BY <3>4, <3>5, FlattenInjective
    <3> QED
      BY <3>6 DEF ThreadUsage, usages, chain
  <2> QED
    BY <2>1, <2>2 DEF LineageWhole
<1> QED
  BY <1>1, FullInvHolds, PTL
=============================================================================
