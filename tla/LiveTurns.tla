------------------------------ MODULE LiveTurns ------------------------------
(***************************************************************************)
(* The reader's side of a running step: `uwf step turns' in                *)
(* packages/cli/src/commands/step.ts, next to the processes of BrokerStep. *)
(*                                                                         *)
(* With --live a follower polls the thread's active step and turn chain,   *)
(* each variable read on its own, prints the turns past its counter and    *)
(* goes until isThreadRunning finds no marker.  Without it the turns of    *)
(* the whole chain are grouped by the step that owns them.                 *)
(*                                                                         *)
(* A thread without a turn chain falls back to what earlier versions wrote:*)
(* the turns in the detail of each step, which broker steps do not have,   *)
(* and variables keyed by role, which nothing writes any more and which    *)
(* are empty here.  Of an agent's turn a broker step keeps the text alone, *)
(* so that nothing is left to show of one that is Wordless.                *)
(***************************************************************************)
EXTENDS BrokerStep, SequencesExt

VARIABLES
    fpc,          \* where the follower is
    usePhase3,    \* decided on the first poll: "unset", "yes", "no"
    printedCount, \* how many turns it has printed
    lastActive,   \* lastActiveStepStart
    followRole,   \* the role whose older turns it would print
    readHead,     \* the turn chain it has just read
    printed,      \* history: the turns it printed
    seen          \* history: the steps it saw active

follower == <<fpc, usePhase3, printedCount, lastActive, followRole, readHead, printed, seen>>
liveVars == <<vars, follower>>

FollowerInit ==
    /\ fpc = "idle" /\ usePhase3 = "unset" /\ printedCount = 0 /\ lastActive = 0
    /\ followRole = "agent" /\ readHead = <<>> /\ printed = <<>> /\ seen = {}

(* A step that an earlier version ran has no step-start, and three turns in  *)
(* its detail, one of them without text and calls.                          *)
OldStep == 0
OldTurns == [i \in 1..3 |-> [owner |-> OldStep, nth |-> i]]
Silent == OldTurns[2]

(* The members of a set in the order that the pairs of R make of them, and  *)
(* what a sequence has at some of its places.                               *)
Sorted(S, R) ==
    [k \in 1..Cardinality(S) |-> CHOOSE x \in S : Cardinality({y \in S : <<y, x>> \in R}) = k]

At(seq, places) ==
    LET place == Sorted(places, {ij \in places \X places : ij[1] <= ij[2]})
    IN  [k \in DOMAIN place |-> seq[place[k]]]

(* loadTurnData, parseSingleTurn: a turn without text and calls is dropped. *)
LoadTurnData(turns) ==
    At(turns, {i \in DOMAIN turns : turns[i] \notin Wordless \cup {Silent}})

(* readStepDetailTurns *)
DetailTurns(n) == IF nodes[n].start = OldStep THEN OldTurns ELSE <<>>

(* readRoleDetailTurnsFromChain: of the newest step of a role. *)
RoleDetailTurns(role) ==
    LET own == SelectSeq(Ordered(head), LAMBDA n : nodes[n].role = role)
    IN  IF own = <<>> THEN <<>> ELSE DetailTurns(Last(own))

(* turnsOfStep: the turns of a chain that a step owns, oldest first. *)
TurnsOfStep(chain, s) == At(chain, {i \in DOMAIN chain : chain[i].owner = s})

(* flush: what lies past the counter, when the list has grown past it. *)
Flush(turns) ==
    IF Len(turns) <= printedCount
    THEN UNCHANGED <<printed, printedCount>>
    ELSE /\ printed' = printed \o LoadTurnData(SubSeq(turns, printedCount + 1, Len(turns)))
         /\ printedCount' = Len(turns)

-----------------------------------------------------------------------------
(* resolveLiveFollowRole, without --role. *)
HeadRole == IF head = 0 THEN "agent" ELSE nodes[head].role

(* `uwf step turns --live' is started, at most once. *)
Follow ==
    /\ fpc = "idle"
    /\ followRole' \in Role \cup {HeadRole}
    /\ fpc' = "decide"
    /\ UNCHANGED <<usePhase3, printedCount, lastActive, readHead, printed, seen, vars>>

(* hasPhase3TurnChain, asked on the first poll only. *)
Decide ==
    /\ fpc = "decide"
    /\ usePhase3' = IF usePhase3 # "unset" THEN usePhase3
                    ELSE IF turnHead # <<>> \/ activeStep # 0 THEN "yes" ELSE "no"
    /\ fpc' = IF usePhase3' = "yes" THEN "active" ELSE "check"
    /\ UNCHANGED <<printedCount, lastActive, followRole, readHead, printed, seen, vars>>

(* getActiveTurnsForLive remembers the step it sees ... *)
SeeActive ==
    /\ fpc = "active"
    /\ lastActive' = IF activeStep # 0 THEN activeStep ELSE lastActive
    /\ seen' = IF activeStep # 0 THEN seen \cup {activeStep} ELSE seen
    /\ fpc' = "head"
    /\ UNCHANGED <<usePhase3, printedCount, followRole, readHead, printed, vars>>

(* ... and getInFlightTurns reads the chain, then the step once more. *)
SeeHead ==
    /\ fpc = "head"
    /\ readHead' = turnHead
    /\ fpc' = "print"
    /\ UNCHANGED <<usePhase3, printedCount, lastActive, followRole, printed, seen, vars>>

ShowTail ==
    /\ fpc = "print"
    /\ IF activeStep = 0 THEN UNCHANGED <<printed, printedCount>>
       ELSE Flush(TurnsOfStep(readHead, activeStep))
    /\ seen' = IF activeStep # 0 THEN seen \cup {activeStep} ELSE seen
    /\ readHead' = <<>>
    /\ fpc' = "check"
    /\ UNCHANGED <<usePhase3, lastActive, followRole, vars>>

\* Mutant: goes on while a step is active.
CheckRunningOrActive ==
    /\ fpc = "check"
    /\ fpc' = IF marker = NoProc /\ activeStep = 0 THEN "final" ELSE "decide"
    /\ UNCHANGED <<usePhase3, printedCount, lastActive, followRole, readHead, printed, seen, vars>>

(* isRunning: the marker of a live process, else the last flush. *)
CheckRunning ==
    /\ fpc = "check"
    /\ fpc' = IF marker = NoProc THEN "final" ELSE "decide"
    /\ UNCHANGED <<usePhase3, printedCount, lastActive, followRole, readHead, printed, seen, vars>>

\* Mutant: returns without a last look at the chain.
FinishUnflushed ==
    /\ fpc = "final"
    /\ fpc' = "done"
    /\ UNCHANGED <<usePhase3, printedCount, printed, lastActive, followRole, readHead, seen, vars>>

(* getFinalTurnsForLive *)
FinalTurns ==
    IF usePhase3 = "no" THEN RoleDetailTurns(followRole)
    ELSE IF turnHead = <<>> \/ lastActive = 0 THEN <<>>
    ELSE TurnsOfStep(turnHead, lastActive)

Finish ==
    /\ fpc = "final"
    /\ Flush(FinalTurns)
    /\ fpc' = "done"
    /\ UNCHANGED <<usePhase3, lastActive, followRole, readHead, seen, vars>>

Poll == Decide \/ SeeActive \/ SeeHead \/ ShowTail \/ CheckRunning \/ Finish

Resting ==
    /\ activeStep = 0 /\ head = 1 /\ marker = NoProc
    /\ pc = [p \in Proc |-> "idle"] /\ loc = [p \in Proc |-> Blank]
    /\ restarts = 0 /\ kills = 0 /\ mixed = {}

FirstNode(s, kind, n) ==
    nodes = <<[start |-> s, prev |-> 0, role |-> Blank.role, kind |-> kind,
               turnCount |-> n, agent |-> Blank.route]>>

(* The thread has one step behind it, of one turn or timed out before its   *)
(* first, and its session is still known: a state that BrokerStep reaches   *)
(* with a single exec.                                                      *)
OneStepDone(n) ==
    /\ Resting /\ FirstNode(1, IF n = 0 THEN "suspend" ELSE "ok", n)
    /\ rows = [x \in Role |-> IF x = Blank.role THEN [gateway |-> Blank.route, sid |-> 1]
                              ELSE NoRow]
    /\ turnHead = [i \in 1..n |-> [owner |-> 1, nth |-> i]]
    /\ starts = <<[role |-> Blank.role, stepIndex |-> 0]>>
    /\ sessions = <<Blank.route>> /\ live = {1}
    /\ heard = [s \in SessionIds |-> IF s = 1 THEN {1} ELSE {}]

(* Or the step is one of an earlier version. *)
OldStepDone ==
    /\ Resting /\ FirstNode(OldStep, "ok", 3)
    /\ rows = [r \in Role |-> NoRow]
    /\ turnHead = <<>> /\ starts = <<>> /\ sessions = <<>> /\ live = {}
    /\ heard = [s \in SessionIds |-> {}]

LiveInit == (OldStepDone \/ \E n \in 0..1 : OneStepDone(n)) /\ FollowerInit

-----------------------------------------------------------------------------
(* walkStepStartChain: the owners are met from the newest turn back, each   *)
(* where its newest turn is, and sorted by step index; the sort is stable.  *)
Owners == {turnHead[i].owner : i \in DOMAIN turnHead}
NewestTurn(s) == Max({i \in DOMAIN turnHead : turnHead[i].owner = s})

\* Mutant: the owners in the order they were met.
WalkStepStartChainUnsorted ==
    Sorted(Owners, {st \in Owners \X Owners : NewestTurn(st[1]) >= NewestTurn(st[2])})

Before(s, t) ==
    \/ starts[s].stepIndex < starts[t].stepIndex
    \/ starts[s].stepIndex = starts[t].stepIndex /\ NewestTurn(s) >= NewestTurn(t)

WalkStepStartChain == Sorted(Owners, {st \in Owners \X Owners : Before(st[1], st[2])})

(* buildTurnsPanoramaLegacy: a group for each step of the chain. *)
PanoramaLegacy(h) ==
    LET chain == Ordered(h)
    IN  [k \in DOMAIN chain |-> [role |-> nodes[chain[k]].role, running |-> FALSE,
                                 turns |-> LoadTurnData(DetailTurns(chain[k])), stepStart |-> 0]]

(* buildTurnsPanorama: a group for each step that owns a turn. *)
Panorama ==
    LET Group(s) == [role |-> starts[s].role, running |-> activeStep = s,
                     turns |-> LoadTurnData(TurnsOfStep(turnHead, s)), stepStart |-> s]
        walk == WalkStepStartChain
    IN  IF turnHead = <<>> THEN PanoramaLegacy(head)
        ELSE [k \in 1..Len(walk) |-> Group(walk[k])]

-----------------------------------------------------------------------------
(* The panorama keeps the order of the thread: of two steps on the chain of *)
(* the head, the earlier one's turns come first, also when attempts that    *)
(* were killed, failed or replaced by a poke lie between them.              *)
PanoramaFollowsChain ==
    LET chain == ToSet(Ordered(head))
        walk == WalkStepStartChain
    IN  \A i, j \in chain :
            i < j => \A a, b \in 1..Len(walk) :
                        (walk[a] = nodes[i].start /\ walk[b] = nodes[j].start) => a < b

(* A step is shown as in flight only while it has no node, and then the     *)
(* turns that its process counted are shown, in the order they came, but    *)
(* for those of calls alone, which are counted and never shown.             *)
RunningGroupIsWhole ==
    LET groups == Panorama
    IN  \A k \in 1..Len(groups) :
            groups[k].running =>
                /\ \A i \in 1..Len(nodes) : nodes[i].start # groups[k].stepStart
                /\ \A p \in Proc :
                    (InStep(p) /\ loc[p].start = groups[k].stepStart /\ loc[p].start \notin mixed)
                        => groups[k].turns =
                            LoadTurnData([n \in 1..loc[p].turns |->
                                             [owner |-> loc[p].start, nth |-> n]])

(* A follower that saw one step only has, when it returns, printed exactly  *)
(* those of that step's turns that have a text, in order, none twice: its   *)
(* counter goes by all turns, also past the wordless ones it never prints.  *)
FollowerPrintsStep ==
    [][ (fpc = "final" /\ fpc' = "done" /\ seen = {lastActive} /\ lastActive \notin mixed)
            => printed' = LoadTurnData(TurnsOfStep(turnHead, lastActive)) ]_liveVars
=============================================================================
