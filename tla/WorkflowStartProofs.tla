------------------------ MODULE WorkflowStartProofs ------------------------
(***************************************************************************)
(* Whatever the layouts, the documents and the settings are: a thread of   *)
(* an accepted workflow gets stuck only where its schema let the agent     *)
(* leave out $status, where all of a prompt's variables came out empty, or *)
(* on a template that no check tried out; each of its roles is reached     *)
(* from $START; but for links, `thread start' and `workflow show' find     *)
(* local files in the same place; a command that writes config.yaml        *)
(* changes what it was asked to; and, at the end, what `uwf-eval' records  *)
(* and lists.                                                              *)
(*                                                                         *)
(* The argument: a workflow gets into the registry, or into a thread, only *)
(* when it was accepted.  The checks then say of each node what the        *)
(* moderator asks of it: the edges of a role are the statuses its schema   *)
(* allows, those of $START are there, and every target is a role or $END,  *)
(* so that a thread is always at a node of the graph.  The rounds of the   *)
(* reachability check stay, by induction, inside any set that is closed    *)
(* under edges.  The nearest directory with any workflow is, for a name it *)
(* has, the nearest with that name.  Of the settings, a path that is       *)
(* accepted is no beginning of another path that is read.                  *)
(*                                                                         *)
(* WorkflowStart and EvalRun share no variable and no name: each is proved *)
(* about by itself.                                                        *)
(***************************************************************************)
EXTENDS WorkflowStart, EvalRun, FiniteSetTheorems, WellFoundedInduction, SequenceTheorems, TLAPS

ThreadStates == {"none", "route", "agent", "stuck", "ended"}

ThreadTyped ==
    /\ thread = [at |-> thread.at, output |-> thread.output,
                 state |-> thread.state, why |-> thread.why]
    /\ thread.state \in ThreadStates
    /\ thread.state = "none" => thread = NoThread

LayoutTyped == layout \in Layouts /\ IsFiniteSet(DOMAIN doc.roles)

\* Nothing is kept that was not accepted.
Kept ==
    /\ \A name \in registry : Accepted(doc, name)
    /\ thread.state # "none" => Parses(doc) /\ Valid(doc)

\* A thread is at a node, with an output that the node may have.
AtANode ==
    /\ thread.state = "agent" => thread.at \in DOMAIN doc.roles
    /\ thread.state = "route" =>
        \/ thread.at = "$START" /\ thread.output.status \in {"new", "resume"}
        \/ thread.at \in DOMAIN doc.roles /\ thread.output \in OutputsOf(doc.roles[thread.at])

WalkInv == ThreadTyped /\ LayoutTyped /\ Kept /\ AtANode /\ AcceptedRuns

-----------------------------------------------------------------------------
(* What the semantic checks give the moderator: at $START and at a role,   *)
(* every output but one without a status has an edge, and the edge leads   *)
(* to a role or to the end.                                                *)
LEMMA StartHasEdges ==
    ASSUME NEW d, Valid(d), NEW status \in {"new", "resume"}
    PROVE  /\ "$START" \in Nodes(d) /\ status \in DOMAIN d.graph["$START"]
           /\ status # NoConst
<1>1. status # NoConst
  BY DEF NoConst
<1> QED
  BY <1>1 DEF Valid, StructureHolds

LEMMA RoleHasEdges ==
    ASSUME NEW d, Valid(d), NEW role \in DOMAIN d.roles,
           NEW output \in OutputsOf(d.roles[role])
    PROVE  /\ role \in Nodes(d)
           /\ output.status # NoConst => output.status \in DOMAIN d.graph[role]
           /\ output.status = NoConst => \E v \in Elements(d.roles[role].variants) : ~v.required
           /\ output.status # NoConst => d.graph[role][output.status].prompt # "never"
<1>1. role \in Nodes(d) /\ role \notin Reserved
  BY DEF Valid, ReferencesHold
<1>2. StatusesMatch(d, role)
  BY <1>1 DEF Valid, RolesHold
<1>3. PICK v \in Elements(d.roles[role].variants) :
            output.status \in {v.status} \cup (IF v.required THEN {} ELSE {NoConst})
  BY DEF OutputsOf
<1>4. v.status # NoConst
  BY <1>2 DEF StatusesMatch
<1>5. v.status \in DOMAIN d.graph[role]
  BY <1>2, <1>4 DEF StatusesMatch, Statuses
<1>6. v.status \in Statuses(d.roles[role])
  BY <1>4 DEF Statuses
<1>7. d.graph[role][v.status].prompt # "never"
  BY <1>1, <1>5, <1>6 DEF Valid, RolesHold, PromptsResolve
<1> QED
  BY <1>1, <1>3, <1>4, <1>5, <1>7

LEMMA EdgesLeadOn ==
    ASSUME NEW d, Valid(d), NEW node \in Nodes(d), NEW status \in DOMAIN d.graph[node]
    PROVE  d.graph[node][status].role \in {"$END"} \cup DOMAIN d.roles
<1>1. <<node, status>> \in Edges(d)
  BY DEF Edges
<1>2. TargetOf(d, <<node, status>>) = d.graph[node][status]
  BY DEF TargetOf
<1> QED
  BY <1>1, <1>2 DEF Valid, StructureHolds

(* Why a thread at a node may get no target. *)
Excuse(why, at, output) ==
    LET target == TargetOf(doc, <<at, output.status>>) IN
    \/ why = "no status" /\ \E v \in Elements(doc.roles[at].variants) : ~v.required
    \/ why = "empty prompt" /\ ~target.text
    \/ why = "prompt" /\ (at = "$START" \/ target.prompt = "mostly")
    \/ why = "location"

LEMMA StuckExcused ==
    AcceptedRuns <=> (thread.state = "stuck" => Excuse(thread.why, thread.at, thread.output))
BY DEF AcceptedRuns, Excuse

(* The answer of the moderator for a thread at a node. *)
LEMMA Routed ==
    ASSUME ThreadTyped, Kept, AtANode, thread.state = "route",
           NEW target, target = Evaluate(doc, thread.at, thread.output)
    PROVE  /\ target.why = "" => target.role \in {"$END"} \cup DOMAIN doc.roles
           /\ target.why # "" => Excuse(target.why, thread.at, thread.output)
<1> DEFINE status == thread.output.status
           Edge == thread.at \in Nodes(doc) /\ status \in DOMAIN doc.graph[thread.at]
<1>1. Valid(doc)
  BY DEF Kept
<1>2. status # NoConst => Edge
  BY <1>1, StartHasEdges, RoleHasEdges DEF AtANode
<1>3. status = NoConst => \E v \in Elements(doc.roles[thread.at].variants) : ~v.required
  BY <1>1, StartHasEdges, RoleHasEdges DEF AtANode
<1>4. CASE status = NoConst
  BY <1>3, <1>4 DEF Evaluate, Excuse
<1>5. CASE status # NoConst
  <2>1. Edge
    BY <1>2, <1>5
  <2>2. doc.graph[thread.at][status].role \in {"$END"} \cup DOMAIN doc.roles
    BY <1>1, <2>1, EdgesLeadOn
  <2>3. TargetOf(doc, <<thread.at, status>>) = doc.graph[thread.at][status]
    BY DEF TargetOf
  <2>4. thread.at = "$START" \/ doc.graph[thread.at][status].prompt # "never"
    BY <1>1, <1>5, RoleHasEdges DEF AtANode
  <2> DEFINE edge == doc.graph[thread.at][status]
             out == thread.output
             Vague == ~edge.text /\ edge.uses \cap out.filled = {}
  <2>5. CASE Fails(edge.prompt, out)
    <3>1. target.why = "prompt"
      BY <1>5, <2>1, <2>5 DEF Evaluate
    <3>2. thread.at = "$START" \/ edge.prompt = "mostly"
      BY <2>4, <2>5 DEF Fails
    <3> QED
      BY <2>3, <3>1, <3>2 DEF Excuse
  <2>6. CASE ~Fails(edge.prompt, out) /\ Vague
    <3>1. target.why = "empty prompt"
      BY <1>5, <2>1, <2>6 DEF Evaluate
    <3> QED
      BY <2>3, <2>6, <3>1 DEF Excuse
  <2>7. CASE ~Fails(edge.prompt, out) /\ ~Vague /\ Fails(edge.location, out)
    <3>1. target.why = "location"
      BY <1>5, <2>1, <2>7 DEF Evaluate
    <3> QED
      BY <3>1 DEF Excuse
  <2>8. CASE ~Fails(edge.prompt, out) /\ ~Vague /\ ~Fails(edge.location, out)
    <3>1. target.why = "" /\ target.role = edge.role
      BY <1>5, <2>1, <2>8 DEF Evaluate
    <3> QED
      BY <2>2, <3>1
  <2> QED
    BY <2>5, <2>6, <2>7, <2>8
<1> QED
  BY <1>4, <1>5

-----------------------------------------------------------------------------
(* A name that comes from the registry stands for a workflow that was      *)
(* accepted, and so does one that comes from a file.                       *)
LEMMA StartedAccepted ==
    ASSUME Kept, NEW name, Startable(name)
    PROVE  Accepted(doc, name)
<1>1. PICK place \in StartedPlaces(Seen, registry, name) : Loads(place, name)
  BY DEF Startable
<1>2. place.origin = "global" => name \in registry
  BY DEF StartedPlaces, Local, InPaths, Registered, Nowhere
<1> QED
  BY <1>1, <1>2 DEF Loads, Kept

-----------------------------------------------------------------------------
LEMMA WalkStart == Init => WalkInv
<1> SUFFICES ASSUME Init PROVE WalkInv
  OBVIOUS
<1>1. layout \in Layouts /\ IsFiniteSet(DOMAIN doc.roles)
  BY CasesAssumption DEF Init
<1>2. thread = [at |-> "$START", output |-> [status |-> "new", filled |-> {}, odd |-> FALSE],
                state |-> "none", why |-> ""]
  BY DEF Init, NoThread, Opening
<1>3. thread.state = "none" /\ ThreadTyped
  <2>1. thread = NoThread
    BY DEF Init
  <2>2. /\ thread.state = "none"
        /\ thread = [at |-> thread.at, output |-> thread.output,
                     state |-> thread.state, why |-> thread.why]
    BY <1>2
  <2> QED
    BY <2>1, <2>2 DEF ThreadTyped, ThreadStates
<1>4. Kept
  BY <1>3 DEF Init, Kept
<1> QED
  BY <1>1, <1>3, <1>4 DEF WalkInv, LayoutTyped, AtANode, AcceptedRuns

LEMMA WalkStep == WalkInv /\ [Next]_vars => WalkInv'
<1> SUFFICES ASSUME WalkInv, [Next]_vars PROVE WalkInv'
  OBVIOUS
<1> USE DEF WalkInv
\* Steps that leave the thread alone.
<1>1. ASSUME UNCHANGED <<layout, doc, thread>>, \A name \in registry' \ registry : Accepted(doc, name)
      PROVE WalkInv'
  BY <1>1 DEF ThreadTyped, LayoutTyped, Kept, AtANode, AcceptedRuns
<1>2. CASE \E f \in layout.files \cup layout.paths : Add(f)
  BY <1>1, <1>2 DEF Add
<1>3. CASE \E s \in Settings : Set(s.path, s.value)
  BY <1>1, <1>3 DEF Set, Edit
<1>4. CASE \E s \in Setups : Setup(s.found, s.answer)
  BY <1>1, <1>4 DEF Setup, Edit
<1>5. CASE CutShort
  BY <1>1, <1>5 DEF CutShort, Edit
\* Steps of the thread.
<1>6. ASSUME NEW at, NEW output, NEW state \in ThreadStates \ {"none"}, NEW why,
             thread' = [at |-> at, output |-> output, state |-> state, why |-> why],
             UNCHANGED <<layout, doc, registry>>, Parses(doc), Valid(doc)
      PROVE  ThreadTyped' /\ LayoutTyped' /\ Kept'
  BY <1>6 DEF ThreadTyped, LayoutTyped, Kept
<1>7. ASSUME NEW status \in {"new", "resume"}, thread' = Opening(status), Parses(doc), Valid(doc),
             UNCHANGED <<layout, doc, registry>>
      PROVE  WalkInv'
  <2>1. thread' = [at |-> "$START", output |-> [status |-> status, filled |-> {}, odd |-> FALSE],
                   state |-> "route", why |-> ""]
    BY <1>7 DEF Opening
  <2>2. ThreadTyped' /\ LayoutTyped' /\ Kept'
    BY <1>6, <1>7, <2>1 DEF ThreadStates
  <2>3. thread'.state = "route" /\ thread'.at = "$START"
    BY <2>1
  <2>4. thread'.output = [status |-> status, filled |-> {}, odd |-> FALSE]
    BY <2>1
  <2>5. thread'.output.status = status
    BY <2>4
  <2> QED
    BY <2>2, <2>3, <2>5 DEF AtANode, AcceptedRuns
<1>8. CASE \E name \in WorkflowNames : Start(name)
  <2>1. Parses(doc) /\ Valid(doc)
    BY <1>8, StartedAccepted DEF Start, Accepted
  <2> QED
    BY <1>7, <1>8, <2>1 DEF Start
<1>9. CASE Reopen
  BY <1>7, <1>9 DEF Reopen, Kept
<1>10. CASE \E override \in Overrides : Route(override)
  <2> DEFINE target == Evaluate(doc, thread.at, thread.output)
  <2>1. thread.state = "route" /\ UNCHANGED <<layout, doc, registry>>
    BY <1>10 DEF Route
  <2>2. Parses(doc) /\ Valid(doc)
    BY <2>1 DEF Kept
  <2>3. /\ target.why = "" => target.role \in {"$END"} \cup DOMAIN doc.roles
        /\ target.why # "" => Excuse(target.why, thread.at, thread.output)
    BY <2>1, Routed
  <2>4. \/ /\ target.why # ""
           /\ thread' = [thread EXCEPT !.state = "stuck", !.why = target.why]
        \/ thread' = [thread EXCEPT !.state = "ended"]
        \/ /\ target.why = "" /\ target.role # "$END"
           /\ thread' = [thread EXCEPT !.state = "agent", !.at = target.role]
    BY <1>10 DEF Route
  <2> HIDE DEF target
  <2>5. CASE target.why # "" /\ thread' = [thread EXCEPT !.state = "stuck", !.why = target.why]
    <3>1. thread' = [at |-> thread.at, output |-> thread.output, state |-> "stuck", why |-> target.why]
      BY <2>5 DEF ThreadTyped
    <3>2. ThreadTyped' /\ LayoutTyped' /\ Kept'
      BY <1>6, <2>1, <2>2, <3>1 DEF ThreadStates
    <3>3. doc' = doc
      BY <2>1
    <3>4. AcceptedRuns'
      BY <2>3, <2>5, <3>1, <3>3 DEF AcceptedRuns, Excuse
    <3> QED
      BY <3>1, <3>2, <3>4 DEF AtANode
  <2>6. CASE thread' = [thread EXCEPT !.state = "ended"]
    <3>1. thread' = [at |-> thread.at, output |-> thread.output, state |-> "ended", why |-> thread.why]
      BY <2>6 DEF ThreadTyped
    <3>2. ThreadTyped' /\ LayoutTyped' /\ Kept'
      BY <1>6, <2>1, <2>2, <3>1 DEF ThreadStates
    <3> QED
      BY <3>1, <3>2 DEF AtANode, AcceptedRuns
  <2>7. CASE /\ target.why = "" /\ target.role # "$END"
             /\ thread' = [thread EXCEPT !.state = "agent", !.at = target.role]
    <3>1. thread' = [at |-> target.role, output |-> thread.output, state |-> "agent", why |-> thread.why]
      BY <2>7 DEF ThreadTyped
    <3>2. ThreadTyped' /\ LayoutTyped' /\ Kept'
      BY <1>6, <2>1, <2>2, <3>1 DEF ThreadStates
    <3> QED
      BY <2>1, <2>3, <2>7, <3>1, <3>2 DEF AtANode, AcceptedRuns
  <2> QED
    BY <2>4, <2>5, <2>6, <2>7
<1>11. CASE Reply
  <2>1. PICK output \in OutputsOf(doc.roles[thread.at]) :
            thread' = [thread EXCEPT !.state = "route", !.output = output]
    BY <1>11 DEF Reply
  <2>2. thread.state = "agent" /\ UNCHANGED <<layout, doc, registry>>
    BY <1>11 DEF Reply
  <2>3. thread' = [at |-> thread.at, output |-> output, state |-> "route", why |-> thread.why]
    BY <2>1 DEF ThreadTyped
  <2>4. ThreadTyped' /\ LayoutTyped' /\ Kept'
    BY <1>6, <2>2, <2>3 DEF ThreadStates, Kept
  <2> QED
    BY <2>2, <2>3, <2>4 DEF AtANode, AcceptedRuns
<1>12. CASE UNCHANGED vars
  BY <1>1, <1>12 DEF vars
<1> QED
  BY <1>2, <1>3, <1>4, <1>5, <1>8, <1>9, <1>10, <1>11, <1>12 DEF Next

(* A thread of an accepted workflow gets stuck only where the schema let the *)
(* agent leave out $status, on a prompt that is nothing but variables, or   *)
(* on a template that fails: a location, a prompt of $START, or a prompt    *)
(* that renders with the mock data and not with every value                 *)
(* (validateWorkflow against evaluate).                                     *)
THEOREM AcceptedWorkflowsRun == Spec => []AcceptedRuns
<1>1. WalkInv => AcceptedRuns
  BY DEF WalkInv
<1> QED
  BY <1>1, WalkStart, WalkStep, PTL DEF Spec

-----------------------------------------------------------------------------
(* There is a least number in a set of numbers, and a nearest file.        *)
LEMMA LeastNumber ==
    ASSUME NEW S \in SUBSET Nat, S # {}
    PROVE  \E m \in S : \A n \in S : m <= n
<1> DEFINE R == OpToRel(<, Nat)
<1>1. PICK m \in S : \A k \in S : <<k, m>> \notin R
  <2>1. IsWellFoundedOn(R, Nat)
    BY NatLessThanWellFounded
  <2> HIDE DEF R
  <2> QED
    BY <2>1, WFMin
<1>2. \A k \in S : ~(k < m)
  BY <1>1 DEF OpToRel
<1> QED
  BY <1>2

LEMMA LeastDir ==
    ASSUME NEW files, files # {}, \A f \in files : f.dir \in Nat
    PROVE  \E g \in files : \A h \in files : g.dir <= h.dir
<1> DEFINE dirs == {f.dir : f \in files}
<1>1. dirs \in SUBSET Nat /\ dirs # {}
  OBVIOUS
<1>2. PICK m \in dirs : \A n \in dirs : m <= n
  <2> HIDE DEF dirs
  <2> QED
    BY <1>1, LeastNumber
<1> QED
  BY <1>2

-----------------------------------------------------------------------------
(* The lookup for show and the lookup for start.                           *)
LEMMA SomeFlattest == \A files : files # {} => Flattest(files) # {}
<1> SUFFICES ASSUME NEW files, files # {} PROVE Flattest(files) # {}
  OBVIOUS
<1>1. CASE \E f \in files : f.form = "yaml"
  BY <1>1 DEF Flattest, Flatter
<1>2. CASE (\A f \in files : f.form # "yaml") /\ (\E f \in files : f.form # "index")
  BY <1>2 DEF Flattest, Flatter
<1>3. CASE \A f \in files : f.form = "index"
  BY <1>3 DEF Flattest, Flatter
<1> QED
  BY <1>1, <1>2, <1>3

LEMMA FlattestAmong == \A files : Flattest(files) \subseteq files
BY DEF Flattest

ProjectFiles == [dir : 1..Depth, area : Areas, name : WorkflowNames, form : Forms,
                 link : BOOLEAN, sound : BOOLEAN]

Stocked(l) == {d \in 1..Depth : \E f \in Scanned(l.files) : f.dir = d}
Reach(l) == {d \in 1..Depth : WithinReach(l, d)}

(* What each lookup says of a file that it finds locally. *)
LEMMA ShownLocally ==
    ASSUME NEW l, NEW name, NEW f \in Named(Discovered(l), name)
    PROVE  /\ f \in Scanned(l.files) /\ f.name = name
           /\ f.dir \in Reach(l) /\ \A e \in Stocked(l) : f.dir <= e
           /\ f.area = "legacy" =>
               \A g \in Scanned(l.files) : g.dir = f.dir /\ g.name = name => g.area = "legacy"
<1>1. f.name = name
  BY DEF Named
<1>2. PICK d \in Stocked(l) :
          f \in MergedEntries(l, d) /\ WithinReach(l, d) /\ \A e \in Stocked(l) : d <= e
  BY DEF Named, Discovered, Stocked
<1>3. /\ f \in Scanned(l.files) /\ f.dir = d
      /\ f.area = "legacy" =>
          \A g \in Named({h \in Scanned(l.files) : h.dir = d}, f.name) : g.area = "legacy"
  BY <1>2 DEF MergedEntries
<1>4. d \in 1..Depth
  BY <1>2 DEF Stocked
<1> QED
  BY <1>1, <1>2, <1>3, <1>4 DEF Reach, Named

LEMMA FoundThere ==
    ASSUME NEW l, NEW name, NEW d, NEW g \in FoundInDir(l, d, name)
    PROVE  g \in l.files /\ g.dir = d /\ g.name = name
BY FlattestAmong DEF FoundInDir, Named

LEMMA FoundUp ==
    ASSUME NEW l, NEW name
    PROVE  FoundInParents(l, name) = Nearest(UNION {FoundInDir(l, d, name) : d \in Reach(l)})
BY DEF FoundInParents, Reach

(* The nearest directory that has any workflow is, for a name it has, the  *)
(* nearest one that has the name; only a link may be nearer.               *)
LEMMA LocalAgree ==
    ASSUME NEW l, l.files \in SUBSET ProjectFiles,
           NEW name, NEW shown \in Named(Discovered(l), name)
    PROVE  /\ FoundInParents(l, name) # {}
           /\ \A g \in FoundInParents(l, name) :
                g.link \/ (g.dir = shown.dir /\ g.area = shown.area)
<1> USE DepthAssumption
<1> DEFINE all == UNION {FoundInDir(l, d, name) : d \in Reach(l)}
           dir == shown.dir
<1>1. /\ shown \in Scanned(l.files) /\ shown.name = name /\ dir \in Reach(l)
      /\ \A e \in Stocked(l) : dir <= e
      /\ shown.area = "legacy" =>
          \A g \in Scanned(l.files) : g.dir = dir /\ g.name = name => g.area = "legacy"
  BY ShownLocally
<1>2. \A d, g : g \in FoundInDir(l, d, name) => g \in l.files /\ g.dir = d /\ g.name = name
  BY FoundThere
<1>3. FoundInDir(l, dir, name) # {}
  <2> DEFINE here == {f \in Named(l.files, name) : f.dir = dir}
             primary == {f \in here : f.area = "primary"}
  <2>1. here # {}
    BY <1>1 DEF Named, Scanned
  <2>2. FoundInDir(l, dir, name) = Flattest(IF primary # {} THEN primary ELSE here)
    BY DEF FoundInDir
  <2> HIDE DEF here, primary
  <2> QED
    BY <2>1, <2>2, SomeFlattest
<1>4. \A g \in all : g.dir \in 1..Depth
  BY <1>2 DEF Reach
<1>5. \A h \in FoundInDir(l, dir, name) : h \in all /\ h.dir = dir
  BY <1>1, <1>2
<1>6. FoundInParents(l, name) = Nearest(all)
  BY FoundUp
<1>7. dir \in 1..Depth
  BY <1>1 DEF Reach
<1> HIDE DEF all
<1>8. FoundInParents(l, name) # {}
  <2>1. all # {}
    BY <1>3, <1>5
  <2>2. PICK g \in all : \A h \in all : g.dir <= h.dir
    BY <1>4, <2>1, LeastDir
  <2> QED
    BY <1>6, <2>2 DEF Nearest
<1>9. ASSUME NEW g \in FoundInParents(l, name), ~g.link
      PROVE  g.dir = dir /\ g.area = shown.area
  <2>1. g \in all /\ \A h \in all : g.dir <= h.dir
    BY <1>6 DEF Nearest
  <2>2. PICK d \in Reach(l) : g \in FoundInDir(l, d, name)
    BY <2>1 DEF all
  <2>3. g \in l.files /\ g.name = name /\ g.dir = d
    BY <1>2, <2>2
  <2>4. g \in Scanned(l.files) /\ g.dir \in Stocked(l)
    BY <1>9, <2>2, <2>3 DEF Scanned, Stocked, Reach
  <2>5. g.dir = dir
    BY <1>1, <1>3, <1>4, <1>5, <1>7, <2>1, <2>4
  <2>6. g.area \in {"primary", "legacy"} /\ shown.area \in {"primary", "legacy"}
    BY <1>1, <2>3 DEF ProjectFiles, Areas, Scanned
  <2>7. CASE shown.area = "legacy"
    BY <1>1, <2>3, <2>4, <2>5, <2>7
  <2>8. CASE shown.area = "primary"
    <3> DEFINE here == {f \in Named(l.files, name) : f.dir = dir}
               primary == {f \in here : f.area = "primary"}
    <3>1. shown \in primary
      BY <1>1, <2>8 DEF Named, Scanned
    <3>2. FoundInDir(l, dir, name) = Flattest(primary)
      BY <3>1 DEF FoundInDir
    <3>3. g \in primary
      BY <2>2, <2>3, <2>5, <3>2, FlattestAmong
    <3> QED
      BY <2>8, <3>3
  <2> QED
    BY <2>5, <2>6, <2>7, <2>8
<1> QED
  BY <1>8, <1>9

(* A file that start finds and show does not lies behind nearer workflows, *)
(* or is a link.                                                           *)
LEMMA Hidden ==
    ASSUME NEW l, l.files \in SUBSET ProjectFiles, NEW name,
           Named(Discovered(l), name) = {}, NEW g \in FoundInParents(l, name), ~g.link
    PROVE  \E f \in Discovered(l) : f.dir < g.dir
<1> USE DepthAssumption
<1>1. PICK d \in Reach(l) : g \in FoundInDir(l, d, name)
  BY FoundUp DEF Nearest
<1>2. g \in l.files /\ g.dir = d /\ g.name = name
  BY <1>1, FoundThere
<1>3. d \in 1..Depth /\ WithinReach(l, d)
  BY DEF Reach
<1>4. g \in Scanned(l.files) /\ d \in Stocked(l)
  BY <1>2, <1>3 DEF Scanned, Stocked
<1>5. PICK e \in Stocked(l) : \A c \in Stocked(l) : e <= c
  <2>1. Stocked(l) \in SUBSET Nat /\ Stocked(l) # {}
    BY <1>4 DEF Stocked
  <2> QED
    BY <2>1, LeastNumber
<1>6. e \in 1..Depth /\ e <= d
  BY <1>4, <1>5 DEF Stocked
<1>7. WithinReach(l, e)
  BY <1>3, <1>6 DEF WithinReach
<1>8. MergedEntries(l, e) \subseteq Discovered(l)
  BY <1>5, <1>7 DEF Discovered, Stocked
<1>9. ASSUME NEW f \in Scanned(l.files), f.dir = e
      PROVE  \E h \in MergedEntries(l, e) : h.name = f.name
  <2> DEFINE here == {h \in Scanned(l.files) : h.dir = e}
  <2>1. MergedEntries(l, e) =
          {h \in here : h.area = "legacy" => \A k \in Named(here, h.name) : k.area = "legacy"}
    BY DEF MergedEntries
  <2>2. f \in here
    BY <1>9
  <2> HIDE DEF here
  <2>3. CASE \A k \in Named(here, f.name) : k.area = "legacy"
    BY <2>1, <2>2, <2>3
  <2>4. CASE \E k \in Named(here, f.name) : k.area # "legacy"
    BY <2>1, <2>4 DEF Named
  <2> QED
    BY <2>3, <2>4
<1>10. PICK f \in Scanned(l.files) : f.dir = e
  BY <1>5 DEF Stocked
<1>11. PICK h \in MergedEntries(l, e) : h.name = f.name
  BY <1>9, <1>10
<1>12. h.dir = e /\ h \in Discovered(l)
  BY <1>8, <1>11 DEF MergedEntries
<1>13. e # d
  <2> SUFFICES ASSUME e = d PROVE FALSE
    OBVIOUS
  <2>1. PICK k \in MergedEntries(l, e) : k.name = name
    BY <1>2, <1>4, <1>9
  <2> QED
    BY <1>8, <2>1 DEF Named
<1> QED
  BY <1>2, <1>3, <1>6, <1>12, <1>13

LEMMA PathsAgree ==
    ASSUME NEW l, \A f \in l.paths : f.dir \in Nat,
           NEW name, NEW shown \in Named(DiscoveredPaths(l), name)
    PROVE  /\ FoundInPaths(l, name) # {}
           /\ \A g \in FoundInPaths(l, name) : g.link \/ g.dir = shown.dir
<1> DEFINE named == Named(l.paths, name)
<1>1. /\ shown \in Scanned(l.paths) /\ shown.name = name
      /\ \A g \in Scanned(l.paths) : g.name = name => shown.dir <= g.dir
  BY DEF Named, DiscoveredPaths
<1>2. shown \in named /\ \A g \in named : g.dir \in Nat
  BY <1>1 DEF Named, Scanned
<1>3. Nearest(named) # {}
  <2> HIDE DEF named
  <2>1. PICK g \in named : \A h \in named : g.dir <= h.dir
    BY <1>2, LeastDir
  <2> QED
    BY <2>1 DEF Nearest
<1>4. ASSUME NEW g \in Nearest(named), ~g.link PROVE g.dir = shown.dir
  <2>1. g \in named /\ g.dir <= shown.dir
    BY <1>2 DEF Nearest
  <2>2. shown.dir <= g.dir
    BY <1>1, <1>4, <2>1 DEF Named, Scanned
  <2> QED
    BY <1>2, <2>1, <2>2
<1>5. FoundInPaths(l, name) = Flattest(Nearest(named))
  BY DEF FoundInPaths
<1> HIDE DEF named
<1> QED
  BY <1>3, <1>4, <1>5, SomeFlattest, FlattestAmong

(* What the settings leave of the layout. *)
LEMMA SeenTyped ==
    ASSUME LayoutTyped
    PROVE  /\ Seen.files \in SUBSET ProjectFiles
           /\ \A f \in Seen.paths : f.dir \in Nat
<1> DEFINE dirs == PathDirsOf(config)
           places(f) == {[f EXCEPT !.dir = i] : i \in {j \in DOMAIN dirs : dirs[j] = f.dir}}
           paths == UNION {places(f) : f \in layout.paths}
<1>1. DOMAIN dirs \subseteq Nat
  <2>1. <<>> \in Seq(Nat)
    OBVIOUS
  <2>2. dirs \in Seq(Nat)
    BY <2>1, ConfigAssumption DEF PathDirsOf
  <2> HIDE DEF dirs
  <2> QED
    BY <2>2
<1>2. Seen = [layout EXCEPT !.paths = paths]
  BY DEF Seen
<1>3. layout = [files |-> layout.files, repos |-> layout.repos, paths |-> layout.paths]
      /\ layout.files \in SUBSET ProjectFiles
      /\ layout.paths \in SUBSET [dir : 1..PathDirs, name : WorkflowNames, form : Forms,
                                 link : BOOLEAN, sound : BOOLEAN]
  BY DEF LayoutTyped, Layouts, ProjectFiles
<1> HIDE DEF dirs
<1>4. ASSUME NEW f \in layout.paths, NEW g \in places(f) PROVE g.dir \in Nat
  <2>1. PICK i \in DOMAIN dirs : g = [f EXCEPT !.dir = i]
    OBVIOUS
  <2>2. f = [dir |-> f.dir, name |-> f.name, form |-> f.form, link |-> f.link, sound |-> f.sound]
    BY <1>3
  <2>3. g.dir = i
    BY <2>1, <2>2
  <2> QED
    BY <1>1, <2>3
<1> HIDE DEF places
<1>5. \A f \in paths : f.dir \in Nat
  BY <1>4
<1> HIDE DEF paths
<1> QED
  BY <1>2, <1>3, <1>5

(* The places that show and start find for one name. *)
LEMMA ShowAndStart ==
    ASSUME WalkInv
    PROVE  ShownIsStarted
<1> DEFINE l == Seen
<1>1. /\ l.files \in SUBSET ProjectFiles
      /\ \A f \in l.paths : f.dir \in Nat
  BY SeenTyped DEF WalkInv
<1> HIDE DEF l
<1> SUFFICES ASSUME NEW name \in WorkflowNames,
                    NEW shown \in ShownPlaces(l, registry, name),
                    NEW started \in StartedPlaces(l, registry, name)
             PROVE  /\ shown.origin = "local" =>
                        /\ started.origin = "local"
                        /\ \/ started.file.link
                           \/ /\ started.file.dir = shown.file.dir
                              /\ started.file.area = shown.file.area
                    /\ shown.origin = "paths" =>
                        \/ started.origin = "local"
                        \/ /\ started.origin = "paths"
                           /\ started.file.link \/ started.file.dir = shown.file.dir
                    /\ (started.origin = "local" /\ shown.origin # "local") =>
                        \/ started.file.link
                        \/ \E g \in Discovered(l) : g.dir < started.file.dir
  BY DEF ShownIsStarted, l
<1> DEFINE locals == Named(Discovered(l), name)
           elsewhere == Named(DiscoveredPaths(l), name)
           up == FoundInParents(l, name)
           listed == FoundInPaths(l, name)
           Behind(g) == \E f \in Discovered(l) : f.dir < g.dir
<1>2. \A f \in locals : up # {} /\ \A g \in up : g.link \/ (g.dir = f.dir /\ g.area = f.area)
  BY <1>1, LocalAgree
<1>3. \A f \in elsewhere : listed # {} /\ \A g \in listed : g.link \/ g.dir = f.dir
  BY <1>1, PathsAgree
<1>4. ShownPlaces(l, registry, name) =
        IF locals # {} THEN {Local(f) : f \in locals}
        ELSE IF elsewhere # {} THEN {InPaths(f) : f \in elsewhere}
        ELSE {IF name \in registry THEN Registered ELSE Nowhere}
  BY DEF ShownPlaces
<1>5. StartedPlaces(l, registry, name) =
        IF up # {} THEN {Local(f) : f \in up}
        ELSE IF listed # {} THEN {InPaths(f) : f \in listed}
        ELSE {IF name \in registry THEN Registered ELSE Nowhere}
  BY DEF StartedPlaces
<1>6. locals = {} => \A g \in up : g.link \/ Behind(g)
  BY <1>1, Hidden
<1> HIDE DEF locals, elsewhere, up, listed
<1>7. shown.origin = "local" =>
        /\ started.origin = "local"
        /\ \/ started.file.link
           \/ started.file.dir = shown.file.dir /\ started.file.area = shown.file.area
  <2> SUFFICES ASSUME shown.origin = "local"
               PROVE  /\ started.origin = "local"
                      /\ \/ started.file.link
                         \/ /\ started.file.dir = shown.file.dir
                            /\ started.file.area = shown.file.area
    OBVIOUS
  <2>1. PICK f \in locals : shown = Local(f)
    BY <1>4 DEF InPaths, Registered, Nowhere
  <2>2. PICK g \in up : started = Local(g)
    BY <1>2, <1>5, <2>1
  <2> QED
    BY <1>2, <2>1, <2>2 DEF Local
<1>8. shown.origin = "paths" =>
        \/ started.origin = "local"
        \/ /\ started.origin = "paths"
           /\ started.file.link \/ started.file.dir = shown.file.dir
  <2> SUFFICES ASSUME shown.origin = "paths", started.origin # "local"
               PROVE  /\ started.origin = "paths"
                      /\ started.file.link \/ started.file.dir = shown.file.dir
    OBVIOUS
  <2>1. PICK f \in elsewhere : shown = InPaths(f)
    BY <1>4 DEF Local, Registered, Nowhere
  <2>2. up = {}
    BY <1>5 DEF Local
  <2>3. PICK g \in listed : started = InPaths(g)
    BY <1>3, <1>5, <2>1, <2>2
  <2> QED
    BY <1>3, <2>1, <2>3 DEF InPaths
<1>9. (started.origin = "local" /\ shown.origin # "local") =>
        started.file.link \/ Behind(started.file)
  <2> SUFFICES ASSUME started.origin = "local", shown.origin # "local"
               PROVE  started.file.link \/ Behind(started.file)
    OBVIOUS
  <2>1. PICK g \in up : started = Local(g)
    BY <1>5 DEF InPaths, Registered, Nowhere
  <2>2. locals = {}
    BY <1>4 DEF Local
  <2>3. started.file = g
    BY <2>1 DEF Local
  <2> QED
    BY <1>6, <2>2, <2>3
<1> QED
  BY <1>7, <1>8, <1>9

(* A local file that `workflow show' prints is, but for its form, the one    *)
(* that runs, and so is one of workflowPaths that no local file comes       *)
(* before; a local file that runs and is not printed lies behind nearer     *)
(* workflows; all of this but for links                                     *)
(* (resolveWorkflowCasRefForShow, resolveWorkflowCasRef).                   *)
THEOREM ShowAndStartAgree == Spec => []ShownIsStarted
BY WalkStart, WalkStep, ShowAndStart, PTL DEF Spec

-----------------------------------------------------------------------------
(* Induction on natural numbers: there is no least number outside the set. *)
LEMMA FromZeroOn ==
    ASSUME NEW S, 0 \in S, \A n \in Nat : n \in S => n + 1 \in S
    PROVE  Nat \subseteq S
<1> DEFINE R == OpToRel(<, Nat)
           Out == Nat \ S
<1> SUFFICES ASSUME Out # {} PROVE FALSE
  OBVIOUS
<1>1. PICK m \in Out : \A k \in Out : <<k, m>> \notin R
  <2>1. IsWellFoundedOn(R, Nat)
    BY NatLessThanWellFounded
  <2>2. Out \subseteq Nat
    OBVIOUS
  <2> HIDE DEF R, Out
  <2> QED
    BY <2>1, <2>2, WFMin
<1>2. \A k \in Out : ~(k < m)
  BY <1>1 DEF OpToRel
<1>3. m # 0 /\ m - 1 \in Nat /\ m - 1 < m
  OBVIOUS
<1>4. m - 1 \in S
  BY <1>2, <1>3
<1>5. (m - 1) + 1 = m
  BY <1>3
<1> QED
  BY <1>3, <1>4, <1>5

(* Primitive recursion: a first value and a step make a function on Nat.   *)
LEMMA RecursionOnNat ==
    ASSUME NEW U, NEW a \in U, NEW F \in [U -> U]
    PROVE  \E f \in [Nat -> U] : f[0] = a /\ \A n \in Nat : f[n + 1] = F[f[n]]
<1> DEFINE Follows(n, g) == g[0] = a /\ \A m \in Nat : m + 1 \in 0..n => g[m + 1] = F[g[m]]
           Upto(n) == {g \in [0..n -> U] : Follows(n, g)}
<1>1. \A n \in Nat : Upto(n) # {}
  <2> DEFINE S == {n \in Nat : Upto(n) # {}}
  <2>1. 0 \in S
    <3>1. [i \in 0..0 |-> a] \in Upto(0)
      OBVIOUS
    <3> QED
      BY <3>1
  <2>2. ASSUME NEW n \in Nat, n \in S PROVE n + 1 \in S
    <3>1. PICK g \in [0..n -> U] : Follows(n, g)
      BY <2>2
    <3> DEFINE h == [i \in 0..(n + 1) |-> IF i = n + 1 THEN F[g[n]] ELSE g[i]]
    <3>2. g[n] \in U /\ F[g[n]] \in U
      BY <3>1
    <3>3. h \in [0..(n + 1) -> U]
      BY <3>1, <3>2
    <3>4. \A m \in 0..n : h[m] = g[m]
      OBVIOUS
    <3>5. h[n + 1] = F[h[n]] /\ h[0] = a
      BY <3>1, <3>4
    <3>6. ASSUME NEW m \in Nat, m + 1 \in 0..(n + 1) PROVE h[m + 1] = F[h[m]]
      <4>1. CASE m = n
        BY <3>5, <4>1
      <4>2. CASE m # n
        <5>1. m \in 0..n /\ m + 1 \in 0..n
          BY <3>6, <4>2
        <5> QED
          BY <3>1, <3>4, <5>1
      <4> QED
        BY <4>1, <4>2
    <3>7. Follows(n + 1, h)
      BY <3>5, <3>6
    <3> HIDE DEF h, Follows
    <3> QED
      BY <3>3, <3>7
  <2> HIDE DEF S
  <2>3. Nat \subseteq S
    BY <2>1, <2>2, FromZeroOn
  <2> QED
    BY <2>3 DEF S
<1>2. ASSUME NEW n \in Nat, NEW g \in Upto(n), NEW h \in Upto(n + 1)
      PROVE  g[n] = h[n]
  <2> DEFINE S == {k \in Nat : k \in 0..n => g[k] = h[k]}
  <2>1. 0 \in S
    OBVIOUS
  <2>2. ASSUME NEW k \in Nat, k \in S PROVE k + 1 \in S
    <3>1. CASE k + 1 \in 0..n
      <4>1. k \in 0..n /\ k + 1 \in 0..(n + 1)
        BY <3>1
      <4>2. g[k] = h[k]
        BY <2>2, <4>1
      <4>3. g[k + 1] = F[g[k]] /\ h[k + 1] = F[h[k]]
        BY <3>1, <4>1
      <4> QED
        BY <4>2, <4>3
    <3> QED
      BY <3>1
  <2> HIDE DEF S
  <2>3. Nat \subseteq S
    BY <2>1, <2>2, FromZeroOn
  <2> QED
    BY <2>3 DEF S
<1> DEFINE pick(n) == CHOOSE g \in Upto(n) : TRUE
           f == [n \in Nat |-> pick(n)[n]]
<1>3. \A n \in Nat : pick(n) \in Upto(n)
  BY <1>1
<1>4. \A n \in Nat : pick(n) \in [0..n -> U] /\ Follows(n, pick(n))
  BY <1>3
<1> HIDE DEF pick, Upto
<1>5. f \in [Nat -> U]
  BY <1>4
<1>6. f[0] = a
  BY <1>4
<1>7. ASSUME NEW n \in Nat PROVE f[n + 1] = F[f[n]]
  <2>1. pick(n)[n] = pick(n + 1)[n]
    BY <1>2, <1>3
  <2>2. pick(n + 1)[n + 1] = F[pick(n + 1)[n]]
    BY <1>4
  <2> QED
    BY <2>1, <2>2
<1> HIDE DEF f
<1> QED
  BY <1>5, <1>6, <1>7

(* The rounds of collectReachableRoles: each adds what the roles found so  *)
(* far lead to.                                                            *)
LEMMA Rounds ==
    ASSUME NEW d, IsFiniteSet(DOMAIN d.roles)
    PROVE  \E round \in [Nat -> SUBSET UNION {Targeted(d, n) : n \in Nodes(d)}] :
            /\ round[0] = Targeted(d, "$START")
            /\ \A n \in Nat : round[n + 1] = round[n] \cup UNION {Targeted(d, r) : r \in round[n]}
            /\ Found(d) \in {round[n] : n \in Nat}
<1> DEFINE U == SUBSET UNION {Targeted(d, n) : n \in Nodes(d)}
           first == Targeted(d, "$START")
           more(R) == R \cup UNION {Targeted(d, r) : r \in R}
           step == [R \in U |-> more(R)]
<1>1. \A n : Targeted(d, n) \in U
  BY DEF Targeted
<1>2. step \in [U -> U] /\ first \in U
  <2>1. \A R \in U : more(R) \in U
    BY <1>1
  <2> HIDE DEF U, more
  <2> QED
    BY <1>1, <2>1
<1>3. PICK f \in [Nat -> U] : f[0] = first /\ \A n \in Nat : f[n + 1] = step[f[n]]
  <2> HIDE DEF U, first, step
  <2> QED
    BY <1>2, RecursionOnNat
<1>4. \A n \in Nat : f[n + 1] = more(f[n])
  BY <1>3
<1> DEFINE Solves(g) == g = [n \in Nat |-> IF n = 0 THEN Targeted(d, "$START")
                                ELSE g[n - 1] \cup UNION {Targeted(d, r) : r \in g[n - 1]}]
           round == CHOOSE g : Solves(g)
<1>5. Solves(f)
  <2>1. \A n \in Nat : f[n] = IF n = 0 THEN Targeted(d, "$START")
                              ELSE f[n - 1] \cup UNION {Targeted(d, r) : r \in f[n - 1]}
    <3> SUFFICES ASSUME NEW n \in Nat, n # 0
                 PROVE  f[n] = more(f[n - 1])
      BY <1>3
    <3>1. n - 1 \in Nat /\ (n - 1) + 1 = n
      OBVIOUS
    <3> HIDE DEF more
    <3> QED
      BY <1>4, <3>1
  <2> HIDE DEF U
  <2> QED
    BY <1>3, <2>1
<1>6. Solves(round)
  <2> HIDE DEF Solves
  <2> QED
    BY <1>5
<1>7. Found(d) = round[Cardinality(DOMAIN d.roles)]
  BY Zenon DEF Found
<1>8. Cardinality(DOMAIN d.roles) \in Nat
  BY FS_CardinalityType
<1> HIDE DEF round
<1>9. round[0] = first /\ \A n \in Nat : round[n + 1] = more(round[n])
  BY <1>6
<1>10. round \in [Nat -> U]
  <2> DEFINE S == {n \in Nat : round[n] \in U}
  <2>1. 0 \in S
    BY <1>2, <1>9
  <2>2. ASSUME NEW n \in Nat, n \in S PROVE n + 1 \in S
    <3>1. more(round[n]) \in U
      BY <1>1, <2>2
    <3> QED
      BY <1>9, <3>1
  <2> HIDE DEF S, U
  <2>3. Nat \subseteq S
    BY <2>1, <2>2, FromZeroOn
  <2> QED
    BY <1>6, <2>3 DEF S
<1> HIDE DEF U, Solves
<1> QED
  BY <1>7, <1>8, <1>9, <1>10 DEF U

(* A set that holds the first roles and is closed under edges holds what    *)
(* the rounds find, which the check wants to be every role.                *)
LEMMA ReachedAll ==
    ASSUME NEW d, Valid(d), IsFiniteSet(DOMAIN d.roles),
           NEW reached \in SUBSET DOMAIN d.roles,
           \A e \in Edges(d) :
             (e[1] \in {"$START"} \cup reached) => TargetOf(d, e).role \in {"$END"} \cup reached
    PROVE  reached = DOMAIN d.roles
<1>1. ASSUME NEW node \in {"$START"} \cup reached PROVE Targeted(d, node) \subseteq reached
  <2> SUFFICES ASSUME NEW role \in Targeted(d, node) PROVE role \in reached
    OBVIOUS
  <2>1. node \in Nodes(d) /\ role # "$END"
    BY DEF Targeted
  <2>2. PICK s \in DOMAIN d.graph[node] : role = d.graph[node][s].role
    BY <2>1 DEF Targeted
  <2>3. <<node, s>> \in Edges(d) /\ TargetOf(d, <<node, s>>) = d.graph[node][s]
    BY <2>1 DEF Edges, TargetOf
  <2>4. <<node, s>>[1] = node
    OBVIOUS
  <2>5. TargetOf(d, <<node, s>>).role \in {"$END"} \cup reached
    BY <2>3, <2>4
  <2> QED
    BY <2>1, <2>2, <2>3, <2>5
<1>2. PICK round \in [Nat -> SUBSET UNION {Targeted(d, n) : n \in Nodes(d)}] :
        /\ round[0] = Targeted(d, "$START")
        /\ \A n \in Nat : round[n + 1] = round[n] \cup UNION {Targeted(d, r) : r \in round[n]}
        /\ Found(d) \in {round[n] : n \in Nat}
  BY Rounds
<1>3. \A n \in Nat : round[n] \subseteq reached
  <2> DEFINE S == {n \in Nat : round[n] \subseteq reached}
  <2>1. 0 \in S
    BY <1>1, <1>2
  <2>2. ASSUME NEW n \in Nat, n \in S PROVE n + 1 \in S
    BY <1>1, <1>2, <2>2
  <2> HIDE DEF S
  <2>3. Nat \subseteq S
    BY <2>1, <2>2, FromZeroOn
  <2> QED
    BY <2>3 DEF S
<1>4. Found(d) \subseteq reached
  BY <1>2, <1>3
<1> QED
  BY <1>4 DEF Valid, ReferencesHold, StructureHolds

LEMMA WalkReaches ==
    ASSUME WalkInv
    PROVE  RolesAreReached
<1> SUFFICES ASSUME thread # NoThread, NEW reached \in SUBSET DOMAIN doc.roles,
                    \A e \in Edges(doc) :
                      (e[1] \in {"$START"} \cup reached) =>
                         TargetOf(doc, e).role \in {"$END"} \cup reached
             PROVE  reached = DOMAIN doc.roles
  BY DEF RolesAreReached
<1>1. Valid(doc) /\ IsFiniteSet(DOMAIN doc.roles)
  BY DEF WalkInv, Kept, LayoutTyped, ThreadTyped
<1> QED
  BY <1>1, ReachedAll

(* Every role of a workflow that runs is reached from $START along edges     *)
(* (collectReachableRoles, whose rounds are as many as there are roles).    *)
THEOREM RunningRolesReached == Spec => []RolesAreReached
BY WalkStart, WalkStep, WalkReaches, PTL DEF Spec

-----------------------------------------------------------------------------
(* The file of settings: what is written below one path leaves the others. *)
\* The words of a key, with those of the program by name.
Words == STRING \cup {"defaultAgent", "agents", "agentOverrides", "workflowPaths", "concurrency",
                      "maxRunning", "host", "gateway", "command", "args", "builtin"}
Keys == Seq(Words)

LEMMA PrefixAgrees ==
    ASSUME NEW p \in Keys, NEW q \in Keys, IsPrefix(p, q)
    PROVE  /\ Len(p) <= Len(q) /\ \A i \in 1..Len(p) : p[i] = q[i]
           /\ Len(p) >= Len(q) => p = q
<1>1. Len(p) \in Nat /\ Len(q) \in Nat /\ Len(p) <= Len(q)
      /\ SubSeq(p, 1, Len(p)) = SubSeq(q, 1, Len(p))
  BY DEF IsPrefix, Keys
<1>2. ASSUME NEW i \in 1..Len(p) PROVE p[i] = q[i]
  <2>1. SubSeq(p, 1, Len(p))[i] = p[i] /\ SubSeq(q, 1, Len(p))[i] = q[i]
    BY <1>1 DEF Keys
  <2> QED
    BY <1>1, <2>1
<1>3. ASSUME Len(p) >= Len(q) PROVE p = q
  <2>1. Len(p) = Len(q)
    BY <1>1, <1>3
  <2> QED
    BY <1>2, <2>1 DEF Keys
<1> QED
  BY <1>1, <1>2, <1>3

LEMMA KeysAreSequences ==
    \A p \in Keys : Len(p) \in Nat /\ \A i \in 1..Len(p) : p[i] \in Words
BY DEF Keys

LEMMA PrefixOfItself == \A p : p \in Keys => IsPrefix(p, p)
BY DEF IsPrefix, Keys

LEMMA KeysAreKeys ==
    /\ Default \in Keys /\ <<"workflowPaths">> \in Keys /\ <<"concurrency", "maxRunning">> \in Keys
    /\ \A a, f \in Words : AgentKey(a, f) \in Keys
    /\ \A r \in Words : OverrideKey(r) \in Keys
<1>1. \A a, b, c \in Words : <<a>> \in Keys /\ <<a, b>> \in Keys /\ <<a, b, c>> \in Keys
  BY DEF Keys
<1>2. {"defaultAgent", "workflowPaths", "concurrency", "maxRunning", "agents", "agentOverrides",
       WorkflowName} \subseteq Words
  BY ConfigAssumption DEF Words
<1> QED
  BY <1>1, <1>2 DEF Default, AgentKey, OverrideKey

LEMMA AgentKeyIs ==
    \A a, f : /\ AgentKey(a, f)[1] = "agents" /\ AgentKey(a, f)[2] = a /\ AgentKey(a, f)[3] = f
              /\ Len(AgentKey(a, f)) = 3 /\ Len(AgentKey(a, f)) > 1
BY DEF AgentKey

(* A key that is accepted says what it is about in its first word. *)
LEMMA KeyIsAbout ==
    ASSUME NEW path \in Keys, ValidKey(path)
    PROVE  /\ Len(path) >= 1
           /\ \/ path = Default
              \/ path = <<"workflowPaths">>
              \/ path[1] = "agents" /\ Len(path) >= 3
              \/ path[1] = "agentOverrides" /\ Len(path) >= 3
              \/ path[1] = "concurrency" /\ Len(path) >= 2
BY DEF ValidKey, Keys, Default

(* setNestedValue leaves alone what is not below the path. *)
LEMMA SetLeaves ==
    ASSUME NEW tree, NEW path \in Keys, NEW value, NEW q \in Keys, ~IsPrefix(path, q)
    PROVE  /\ q \in DOMAIN SetNested(tree, path, value) <=> q \in DOMAIN tree
           /\ q \in DOMAIN tree => SetNested(tree, path, value)[q] = tree[q]
<1>1. q # path
  BY PrefixOfItself
<1> QED
  BY <1>1 DEF SetNested

LEMMA SetSets ==
    ASSUME NEW tree, NEW path, NEW value
    PROVE  path \in DOMAIN SetNested(tree, path, value) /\ SetNested(tree, path, value)[path] = value
BY DEF SetNested

(* The agent of a role is read at these keys, and nowhere else.            *)
LEMMA SameRoute ==
    ASSUME NEW c, NEW d, NEW role, Usable(c), Usable(d),
           AliasOf(d.tree, role) = AliasOf(c.tree, role),
           NEW a, a = AliasOf(c.tree, role),
           a \in Aliases(d.tree) <=> a \in Aliases(c.tree),
           a \in Aliases(c.tree) =>
               /\ d.tree[AgentKey(a, "host")] = c.tree[AgentKey(a, "host")]
               /\ d.tree[AgentKey(a, "gateway")] = c.tree[AgentKey(a, "gateway")]
    PROVE  RouteOf(d, role) = RouteOf(c, role)
BY DEF RouteOf

LEMMA AliasesAre ==
    ASSUME NEW tree, NEW a
    PROVE  a \in Aliases(tree) <=> \E q \in DOMAIN tree : Len(q) > 1 /\ q[1] = "agents" /\ q[2] = a
BY DEF Aliases

(* A file c became d when a value was set at a path: what that means for a *)
(* role.                                                                   *)
AsAsked(c, d, path, value, role) ==
    /\ path # <<"concurrency", "maxRunning">> => LimitOf(d) = LimitOf(c)
    /\ path = <<"concurrency", "maxRunning">> => LimitOf(d) = Limits[value]
    /\ path # <<"workflowPaths">> => PathDirsOf(d) = PathDirsOf(c)
    /\ path = <<"workflowPaths">> => PathDirsOf(d) = ListedDirs[value]
    /\ (Usable(c) /\ Usable(d)) =>
         \/ RouteOf(d, role) = RouteOf(c, role)
         \/ path \in {Default, OverrideKey(role)}
         \/ path[1] = "agents" /\ path[2] = AliasOf(c.tree, role)
         \/ path[1] = "agents" /\ RouteOf(c, role) = {}

LEMMA SetHolds ==
    ASSUME NEW c, DOMAIN c.tree \subseteq Keys, NEW path \in Keys, NEW value,
           ValidKey(path), ValidValue(path, value),
           NEW d, d = File(SetNested(c.tree, path, value)), NEW role \in Words
    PROVE  AsAsked(c, d, path, value, role)
<1> DEFINE limit == <<"concurrency", "maxRunning">>
           dirs == <<"workflowPaths">>
           Same(q) == /\ q \in DOMAIN d.tree <=> q \in DOMAIN c.tree
                      /\ q \in DOMAIN c.tree => d.tree[q] = c.tree[q]
<1>1. d.tree = SetNested(c.tree, path, value)
  BY DEF File
<1>2. \A q \in Keys : ~IsPrefix(path, q) => Same(q)
  BY <1>1, SetLeaves
<1>3. path \in DOMAIN d.tree /\ d.tree[path] = value
  BY <1>1, SetSets
<1>4. DOMAIN d.tree \subseteq Keys
  BY <1>1 DEF SetNested
<1> HIDE DEF Same
<1>5. Len(path) \in Nat /\ Len(path) >= 1
  BY KeyIsAbout DEF Keys
<1>6. \A q \in Keys : path[1] # q[1] => Same(q)
  BY <1>2, <1>5, PrefixAgrees
<1>7. \A q \in Keys : (Len(path) >= Len(q) /\ path # q) => Same(q)
  BY <1>2, PrefixAgrees
<1>8. limit \in Keys /\ limit[1] = "concurrency" /\ Len(limit) = 2
      /\ dirs \in Keys /\ dirs[1] = "workflowPaths" /\ Len(dirs) = 1
  BY KeysAreKeys
<1>9. Default \in Keys /\ Default[1] = "defaultAgent" /\ Len(Default) = 1
  BY KeysAreKeys DEF Default
<1>10. OverrideKey(role) \in Keys /\ OverrideKey(role)[1] = "agentOverrides" /\ Len(OverrideKey(role)) = 3
  BY KeysAreKeys DEF OverrideKey
<1>11. path # limit => LimitOf(d) = LimitOf(c)
  <2>1. path # limit => Same(limit)
    BY <1>6, <1>7, <1>8, <1>9, KeyIsAbout
  <2> QED
    BY <2>1 DEF LimitOf, Same
<1>12. path = limit => LimitOf(d) = Limits[value]
  <2> SUFFICES ASSUME path = limit PROVE LimitOf(d) = Limits[value]
    OBVIOUS
  <2>1. Last(path) = "maxRunning"
    BY DEF Last
  <2>2. value \in DOMAIN Limits /\ Limits[value] > 0
    BY <2>1 DEF ValidValue
  <2> QED
    BY <1>3, <2>2 DEF LimitOf
<1>13. path # dirs => PathDirsOf(d) = PathDirsOf(c)
  <2>1. path # dirs => Same(dirs)
    BY <1>5, <1>7, <1>8
  <2> QED
    BY <2>1 DEF PathDirsOf, Same
<1>14. path = dirs => PathDirsOf(d) = ListedDirs[value]
  <2> SUFFICES ASSUME path = dirs PROVE PathDirsOf(d) = ListedDirs[value]
    OBVIOUS
  <2>1. value \in DOMAIN ListedDirs
    BY <1>8 DEF ValidValue
  <2> QED
    BY <1>3, <2>1 DEF PathDirsOf
<1>15. ASSUME Usable(c), Usable(d), path \notin {Default, OverrideKey(role)},
              ~(path[1] = "agents" /\ path[2] = AliasOf(c.tree, role)),
              ~(path[1] = "agents" /\ RouteOf(c, role) = {})
       PROVE  RouteOf(d, role) = RouteOf(c, role)
  <2> DEFINE a == AliasOf(c.tree, role)
  <2>1. Same(Default)
    BY <1>5, <1>7, <1>9, <1>15
  <2>2. Same(OverrideKey(role))
    BY <1>6, <1>7, <1>9, <1>10, <1>8, <1>15, KeyIsAbout
  <2>3. AliasOf(d.tree, role) = a
    BY <2>1, <2>2, <1>15 DEF AliasOf, Same, Usable
  <2>4. path[1] = "agents" => path[2] # a /\ a \in Aliases(c.tree)
    BY <1>15 DEF RouteOf
  <2> HIDE DEF a
  <2>5. \A q \in Keys : (Len(q) > 1 /\ q[1] = "agents" /\ q[2] = a) => Same(q)
    <3> SUFFICES ASSUME NEW q \in Keys, Len(q) > 1, q[1] = "agents", q[2] = a PROVE Same(q)
      OBVIOUS
    <3>1. CASE path[1] # "agents"
      BY <1>6, <3>1
    <3>2. CASE path[1] = "agents"
      <4>1. Len(path) >= 3
        BY <1>8, <1>9, <3>2, KeyIsAbout
      <4>2. path[2] # q[2] /\ 2 \in 1..Len(path)
        BY <1>5, <2>4, <3>2, <4>1
      <4> QED
        BY <1>2, <4>2, PrefixAgrees
    <3> QED
      BY <3>1, <3>2
  <2>6. a \in Aliases(d.tree) <=> a \in Aliases(c.tree)
    BY <1>4, <2>5, AliasesAre DEF Same
  <2>7. ASSUME a \in Aliases(c.tree), NEW field \in {"host", "gateway"}
        PROVE  d.tree[AgentKey(a, field)] = c.tree[AgentKey(a, field)]
    <3> DEFINE q == AgentKey(a, field)
    <3>1. q \in DOMAIN c.tree
      BY <1>15, <2>7 DEF Usable, Complete
    <3>2. Len(q) > 1 /\ q[1] = "agents" /\ q[2] = a
      BY DEF AgentKey
    <3> HIDE DEF q
    <3>3. Same(q)
      BY <2>5, <3>1, <3>2
    <3>4. d.tree[q] = c.tree[q]
      BY <3>1, <3>3 DEF Same
    <3> QED
      BY <3>4 DEF q
  <2>8. a \in Aliases(c.tree) =>
            /\ d.tree[AgentKey(a, "host")] = c.tree[AgentKey(a, "host")]
            /\ d.tree[AgentKey(a, "gateway")] = c.tree[AgentKey(a, "gateway")]
    BY <2>7
  <2>9. a = AliasOf(c.tree, role)
    BY DEF a
  <2> QED
    BY <1>15, <2>3, <2>6, <2>8, <2>9, SameRoute
<1> QED
  BY <1>11, <1>12, <1>13, <1>14, <1>15 DEF AsAsked

(* The keys that mergeConfig keeps, and those it seeds a new agent with.    *)
StaysIn(tree, p) ==
    p \in DOMAIN tree /\ ((p[1] = "agents" /\ Len(p) > 1) \/ p[1] = "agentOverrides")

SeededIn(tree, name, p) ==
    name \notin Aliases(tree) /\ p \in {AgentKey(name, "host"), AgentKey(name, "gateway")}

LEMMA DefaultIs == Default[1] = "defaultAgent" /\ Len(Default) = 1
BY DEF Default

LEMMA StaysOrSeeded ==
    ASSUME NEW tree, NEW name, NEW p
    PROVE  /\ StaysIn(tree, p) => p # Default
           /\ SeededIn(tree, name, p) => ~StaysIn(tree, p) /\ p # Default
<1>1. StaysIn(tree, p) => p # Default
  BY DefaultIs DEF StaysIn
<1>2. ASSUME SeededIn(tree, name, p) PROVE ~StaysIn(tree, p) /\ p # Default
  <2>1. p[1] = "agents" /\ p[2] = name /\ Len(p) = 3 /\ Len(p) > 1
    BY <1>2, AgentKeyIs DEF SeededIn
  <2>2. p # Default
    BY <2>1, DefaultIs
  <2>3. p \notin DOMAIN tree
    BY <1>2, <2>1, AliasesAre DEF SeededIn
  <2> QED
    BY <2>2, <2>3 DEF StaysIn
<1> QED
  BY <1>1, <1>2

LEMMA Merged ==
    ASSUME NEW tree, NEW name, NEW p
    PROVE  /\ p \in DOMAIN Merge(tree, name) <=>
                StaysIn(tree, p) \/ SeededIn(tree, name, p) \/ p = Default
           /\ p = Default => Merge(tree, name)[p] = name
           /\ StaysIn(tree, p) => Merge(tree, name)[p] = tree[p]
           /\ SeededIn(tree, name, p) =>
                Merge(tree, name)[p] = IF p = AgentKey(name, "host") THEN DefaultHost ELSE name
<1> DEFINE host == AgentKey(name, "host")
           gateway == AgentKey(name, "gateway")
           kept == {q \in DOMAIN tree : (q[1] = "agents" /\ Len(q) > 1) \/ q[1] = "agentOverrides"}
           seeded == IF name \in Aliases(tree) THEN {} ELSE {host, gateway}
           value(q) == CASE q \in kept -> tree[q]
                         [] q \in seeded /\ q = host -> DefaultHost
                         [] q \in seeded /\ q = gateway -> name
                         [] q = Default -> name
<1>1. Merge(tree, name) = [q \in kept \cup seeded \cup {Default} |-> value(q)]
  BY DEF Merge
<1>2. p \in kept <=> StaysIn(tree, p)
  BY DEF StaysIn
<1>3. p \in seeded <=> SeededIn(tree, name, p)
  BY DEF SeededIn
<1>4. host # gateway
  BY AgentKeyIs
<1>5. p \in seeded => p \in {host, gateway}
  OBVIOUS
<1>6. p \in kept => p # Default
  BY <1>2, StaysOrSeeded
<1>7. p \in seeded => p \notin kept /\ p # Default
  BY <1>2, <1>3, StaysOrSeeded
<1> HIDE DEF kept, seeded, host, gateway
<1>8. p \in kept => value(p) = tree[p]
  BY <1>6, <1>7
<1>9. p \in seeded => value(p) = IF p = host THEN DefaultHost ELSE name
  BY <1>4, <1>5, <1>7
<1>10. p = Default => value(p) = name
  BY <1>6, <1>7
<1> HIDE DEF value
<1>11. p \in kept \cup seeded \cup {Default} => Merge(tree, name)[p] = value(p)
  BY <1>1
<1>12. p \in DOMAIN Merge(tree, name) <=> p \in kept \cup seeded \cup {Default}
  BY <1>1
<1> QED
  BY <1>2, <1>3, <1>8, <1>9, <1>10, <1>11, <1>12 DEF host

LEMMA AliasesMerged ==
    ASSUME NEW tree, NEW name, NEW t, t = Merge(tree, name)
    PROVE  \A alias : alias \in Aliases(t) <=> alias \in Aliases(tree) \/ alias = name
<1>1. \A p : p \in DOMAIN t <=> StaysIn(tree, p) \/ SeededIn(tree, name, p) \/ p = Default
  BY Merged
<1>2. ASSUME NEW alias, alias \in Aliases(t) PROVE alias \in Aliases(tree) \/ alias = name
  <2>1. PICK p \in DOMAIN t : Len(p) > 1 /\ p[1] = "agents" /\ p[2] = alias
    BY <1>2, AliasesAre
  <2>2. CASE StaysIn(tree, p)
    BY <2>1, <2>2, AliasesAre DEF StaysIn
  <2>3. CASE SeededIn(tree, name, p)
    BY <2>1, <2>3, AgentKeyIs DEF SeededIn
  <2>4. p # Default
    BY <2>1, DefaultIs
  <2> QED
    BY <1>1, <2>1, <2>2, <2>3, <2>4
<1>3. ASSUME NEW alias, alias \in Aliases(tree) PROVE alias \in Aliases(t)
  <2>1. PICK p \in DOMAIN tree : Len(p) > 1 /\ p[1] = "agents" /\ p[2] = alias
    BY <1>3, AliasesAre
  <2>2. p \in DOMAIN t
    BY <1>1, <2>1 DEF StaysIn
  <2> QED
    BY <2>1, <2>2, AliasesAre
<1>4. ASSUME name \notin Aliases(tree) PROVE name \in Aliases(t)
  <2> DEFINE p == AgentKey(name, "host")
  <2>1. SeededIn(tree, name, p)
    BY <1>4 DEF SeededIn
  <2>2. Len(p) > 1 /\ p[1] = "agents" /\ p[2] = name
    BY AgentKeyIs
  <2> HIDE DEF p
  <2> QED
    BY <1>1, <2>1, <2>2, AliasesAre
<1> QED
  BY <1>2, <1>3, <1>4

Filled(word) == word # ""

LEMMA CompleteMerged ==
    ASSUME NEW tree, DOMAIN tree \subseteq Keys, NEW name \in Words, Filled(name),
           \A alias \in Aliases(tree) : Complete(tree, alias),
           NEW t, t = Merge(tree, name), NEW alias \in Aliases(t)
    PROVE  Complete(t, alias)
<1>1. ASSUME NEW p
      PROVE  /\ p \in DOMAIN t <=> StaysIn(tree, p) \/ SeededIn(tree, name, p) \/ p = Default
             /\ StaysIn(tree, p) => t[p] = tree[p]
             /\ SeededIn(tree, name, p) => t[p] = IF p = AgentKey(name, "host") THEN DefaultHost ELSE name
  BY Merged
<1>2. alias \in Aliases(tree) \/ (alias = name /\ name \notin Aliases(tree))
  BY AliasesMerged
<1>3. alias \in Words
  <2>1. CASE alias \in Aliases(tree)
    <3>1. PICK p \in DOMAIN tree : Len(p) > 1 /\ p[1] = "agents" /\ p[2] = alias
      BY <2>1, AliasesAre
    <3>2. Len(p) \in Nat /\ \A i \in 1..Len(p) : p[i] \in Words
      BY KeysAreSequences
    <3>3. 2 \in 1..Len(p)
      BY <3>1, <3>2
    <3> QED
      BY <3>1, <3>2, <3>3
  <2> QED
    BY <1>2, <2>1
<1>4. ASSUME NEW p, SeededIn(tree, name, p) PROVE p[3] \in {"host", "gateway"}
  <2>1. p = AgentKey(name, "host") \/ p = AgentKey(name, "gateway")
    BY <1>4 DEF SeededIn
  <2> QED
    BY <2>1, AgentKeyIs
<1>5. ASSUME NEW field \in {"command", "args"}, NEW p \in DOMAIN t, IsPrefix(AgentKey(alias, field), p)
      PROVE  FALSE
  <2> DEFINE k == AgentKey(alias, field)
  <2>1. k[1] = "agents" /\ k[2] = alias /\ k[3] = field /\ Len(k) = 3
    BY AgentKeyIs
  <2>2. k \in Keys
    BY <1>3, KeysAreKeys DEF Words
  <2>3. p \in Keys
    <3>1. "host" \in Words /\ "gateway" \in Words
      BY DEF Words
    <3>2. \A q : SeededIn(tree, name, q) => q \in Keys
      BY <3>1, KeysAreKeys DEF SeededIn
    <3>3. \A q : StaysIn(tree, q) => q \in Keys
      BY DEF StaysIn
    <3> QED
      BY <1>1, <3>2, <3>3, KeysAreKeys
  <2>4. Len(k) <= Len(p) /\ \A i \in 1..Len(k) : k[i] = p[i]
    <3>1. IsPrefix(k, p)
      BY <1>5
    <3> HIDE DEF k
    <3> QED
      BY <2>2, <2>3, <3>1, PrefixAgrees
  <2> HIDE DEF k
  <2>5. p[1] = "agents" /\ p[2] = alias /\ p[3] = field /\ Len(p) >= 3
    <3>1. 1 \in 1..Len(k) /\ 2 \in 1..Len(k) /\ 3 \in 1..Len(k)
      BY <2>1
    <3>2. Len(p) \in Nat
      BY <2>3, KeysAreSequences
    <3>3. Len(p) >= 3
      BY <2>1, <2>4, <3>2
    <3> QED
      BY <2>1, <2>4, <3>1, <3>3
  <2>6. StaysIn(tree, p)
    <3>1. ~SeededIn(tree, name, p)
      BY <1>4, <2>5
    <3>2. p # Default
      BY <2>5, DefaultIs
    <3> QED
      BY <1>1, <3>1, <3>2
  <2>7. p \in DOMAIN tree /\ Len(p) > 1
    <3>1. Len(p) \in Nat
      BY <2>3, KeysAreSequences
    <3>2. Len(p) > 1
      BY <2>5, <3>1
    <3> QED
      BY <2>6, <3>2 DEF StaysIn
  <2>8. alias \in Aliases(tree)
    BY <2>5, <2>7, AliasesAre
  <2>9. Complete(tree, alias)
    BY <2>8
  <2> QED
    BY <1>5, <2>7, <2>9 DEF Complete
<1>6. ASSUME NEW field \in {"host", "gateway"}
      PROVE  AgentKey(alias, field) \in DOMAIN t /\ t[AgentKey(alias, field)] # ""
  <2> DEFINE k == AgentKey(alias, field)
  <2>1. k[1] = "agents" /\ Len(k) > 1
    BY AgentKeyIs
  <2>2. CASE alias \in Aliases(tree)
    <3>1. k \in DOMAIN tree /\ tree[k] # ""
      BY <2>2 DEF Complete
    <3> HIDE DEF k
    <3>2. StaysIn(tree, k)
      BY <2>1, <3>1 DEF StaysIn
    <3> QED
      BY <1>1, <3>1, <3>2 DEF k
  <2>3. CASE alias = name /\ name \notin Aliases(tree)
    <3>1. SeededIn(tree, name, k)
      BY <2>3 DEF SeededIn
    <3>2. DefaultHost # ""
      BY DEF DefaultHost
    <3> HIDE DEF k
    <3> QED
      BY <1>1, <2>3, <3>1, <3>2 DEF k, Filled
  <2> QED
    BY <1>2, <2>2, <2>3
<1> QED
  BY <1>5, <1>6 DEF Complete

(* mergeConfig keeps a usable file usable, with the agents that the roles   *)
(* have of their own.                                                      *)
LEMMA SetupHolds ==
    ASSUME NEW c, DOMAIN c.tree \subseteq Keys, Usable(c), NEW name \in Words, Filled(name),
           NEW d, d = File(Merge(c.tree, name))
    PROVE  /\ Usable(d)
           /\ \A role : OverrideKey(role) \in DOMAIN c.tree =>
                RouteOf(d, role) = RouteOf(c, role) \/ RouteOf(c, role) = {}
<1>1. PICK tree : tree = c.tree
  OBVIOUS
<1>2. PICK t : t = Merge(tree, name)
  OBVIOUS
<1>3. d.kind = "tree" /\ d.tree = t
  BY <1>1, <1>2 DEF File
<1>4. /\ \A alias \in Aliases(tree) : Complete(tree, alias)
      /\ DOMAIN tree \subseteq Keys
  BY <1>1 DEF Usable
<1>5. ASSUME NEW p
      PROVE  /\ p = Default => p \in DOMAIN t /\ t[p] = name
             /\ StaysIn(tree, p) => p \in DOMAIN t /\ t[p] = tree[p]
  BY <1>2, Merged
<1>6. \A alias : alias \in Aliases(t) <=> alias \in Aliases(tree) \/ alias = name
  BY <1>2, AliasesMerged
<1>7. \A alias \in Aliases(t) : Complete(t, alias)
  BY <1>2, <1>4, CompleteMerged
<1>8. Usable(d)
  BY <1>3, <1>5, <1>6, <1>7 DEF Usable
<1>9. ASSUME NEW role, OverrideKey(role) \in DOMAIN tree, RouteOf(c, role) # {}
      PROVE  RouteOf(d, role) = RouteOf(c, role)
  <2>1. PICK a : a = AliasOf(c.tree, role)
    OBVIOUS
  <2>2. a = tree[OverrideKey(role)]
    BY <1>1, <1>9, <2>1 DEF AliasOf
  <2>3. StaysIn(tree, OverrideKey(role))
    <3>1. OverrideKey(role)[1] = "agentOverrides"
      BY DEF OverrideKey
    <3> QED
      BY <1>9, <3>1 DEF StaysIn
  <2>4. AliasOf(d.tree, role) = a
    BY <1>3, <1>5, <2>2, <2>3 DEF AliasOf
  <2>5. a \in Aliases(tree)
    BY <1>1, <1>9, <2>1 DEF RouteOf
  <2>6. ASSUME NEW field \in {"host", "gateway"}
        PROVE  t[AgentKey(a, field)] = tree[AgentKey(a, field)]
    <3> DEFINE k == AgentKey(a, field)
    <3>1. k \in DOMAIN tree
      BY <1>4, <2>5 DEF Complete
    <3>2. k[1] = "agents" /\ Len(k) > 1
      BY AgentKeyIs
    <3> HIDE DEF k
    <3>3. StaysIn(tree, k)
      BY <3>1, <3>2 DEF StaysIn
    <3>4. t[k] = tree[k]
      BY <1>5, <3>3
    <3> QED
      BY <3>4 DEF k
  <2>7. a \in Aliases(d.tree) <=> a \in Aliases(c.tree)
    BY <1>1, <1>3, <1>6, <2>5
  <2>8. d.tree[AgentKey(a, "host")] = c.tree[AgentKey(a, "host")]
        /\ d.tree[AgentKey(a, "gateway")] = c.tree[AgentKey(a, "gateway")]
    BY <1>1, <1>3, <2>6
  <2> QED
    BY <1>8, <2>1, <2>4, <2>7, <2>8, SameRoute
<1> QED
  BY <1>1, <1>8, <1>9

-----------------------------------------------------------------------------
(* Every key of the file is a sequence of words.                           *)
KeysTyped == DOMAIN config.tree \subseteq Keys /\ DOMAIN doc.roles \subseteq Words

LEMMA WiderSequences == \A S, T : S \subseteq T => Seq(S) \subseteq Seq(T)
OBVIOUS

LEMMA WordsOfKeys == Seq(STRING) \subseteq Keys /\ STRING \subseteq Words
<1>1. STRING \subseteq Words
  BY DEF Words
<1> QED
  BY <1>1, WiderSequences DEF Keys

LEMMA SelectedIsWord ==
    ASSUME NEW found \in Keys, NEW answer \in Words
    PROVE  Selected(found, answer) \in Words
<1>1. "builtin" \in Words
  BY DEF Words
<1>2. \A i \in DOMAIN found : found[i] \in Words
  BY DEF Keys
<1>3. Len(found) = 1 => 1 \in DOMAIN found
  BY DEF Keys
<1>4. \A i \in DOMAIN found : answer = ToString(i) =>
        (CHOOSE j \in DOMAIN found : answer = ToString(j)) \in DOMAIN found
  BY Zenon
<1> QED
  BY <1>1, <1>2, <1>3, <1>4 DEF Selected

LEMMA KeysStart == Init => KeysTyped
BY CasesAssumption, WordsOfKeys DEF Init, KeysTyped

LEMMA KeysStep == KeysTyped /\ [Next]_vars => KeysTyped'
<1> SUFFICES ASSUME KeysTyped, [Next]_vars PROVE KeysTyped'
  OBVIOUS
<1>1. CASE UNCHANGED <<doc, config>>
  BY <1>1 DEF KeysTyped
<1>2. ASSUME NEW s \in Settings, Set(s.path, s.value) PROVE KeysTyped'
  <2>1. s.path \in Keys
    BY CommandsAssumption, WordsOfKeys
  <2>2. config' = ConfigSet(config, s.path, s.value) /\ UNCHANGED doc
    BY <1>2 DEF Set, Edit
  <2>3. DOMAIN config'.tree \subseteq DOMAIN config.tree \cup {s.path}
    BY <2>2 DEF ConfigSet, File, SetNested
  <2> QED
    BY <2>1, <2>2, <2>3 DEF KeysTyped
<1>3. ASSUME NEW s \in Setups, Setup(s.found, s.answer) PROVE KeysTyped'
  <2>1. PICK name : name = Selected(s.found, s.answer)
    OBVIOUS
  <2>2. name \in Words
    BY <2>1, CommandsAssumption, WordsOfKeys, SelectedIsWord
  <2>3. config' = File(Merge(config.tree, name)) /\ UNCHANGED doc
    BY <1>3, <2>1 DEF Setup, Edit, SetupFile
  <2>4. config'.tree = Merge(config.tree, name)
    BY <2>3 DEF File
  <2>5. \A p : p \in DOMAIN config'.tree =>
          p \in DOMAIN config.tree \/ p \in {AgentKey(name, "host"), AgentKey(name, "gateway"), Default}
    BY <2>4, Merged DEF StaysIn, SeededIn
  <2>6. "host" \in Words /\ "gateway" \in Words
    BY DEF Words
  <2> QED
    BY <2>2, <2>3, <2>5, <2>6, KeysAreKeys DEF KeysTyped
<1>4. CASE CutShort
  <2>1. DOMAIN Blank.tree = {}
    BY DEF Blank, NoTree
  <2> QED
    BY <1>4, <2>1 DEF CutShort, Edit, KeysTyped
<1>5. CASE \/ \E f \in layout.files \cup layout.paths : Add(f)
           \/ \E name \in WorkflowNames : Start(name)
           \/ \E override \in Overrides : Route(override)
           \/ Reply \/ Reopen
  BY <1>1, <1>5 DEF Add, Start, Route, Reply, Reopen
<1>6. CASE UNCHANGED vars
  BY <1>1, <1>6 DEF vars
<1> QED
  BY <1>2, <1>3, <1>4, <1>5, <1>6 DEF Next

(* What `config set' and `setup' do to a file of such keys. *)
LEMMA SetHeld ==
    ASSUME KeysTyped, config' # config, UNCHANGED doc, NEW s \in Settings, Set(s.path, s.value)
    PROVE  SetAsAsked(s.path, s.value)
<1>1. config' = ConfigSet(config, s.path, s.value)
  BY DEF Set, Edit
<1>2. /\ config' = File(SetNested(config.tree, s.path, s.value))
      /\ ValidKey(s.path) /\ ValidValue(s.path, s.value)
  BY <1>1 DEF ConfigSet
<1>3. s.path \in Keys
  BY CommandsAssumption, WordsOfKeys
<1>4. DOMAIN config.tree \subseteq Keys /\ Roles \subseteq Words
  BY DEF KeysTyped, Roles
<1>5. "agents" \in Words
  BY DEF Words
<1>6. ASSUME NEW role \in Words
      PROVE  AsAsked(config, config', s.path, s.value, role)
  BY <1>2, <1>3, <1>4, SetHolds
<1> QED
  BY <1>4, <1>5, <1>6 DEF AsAsked, SetAsAsked, Unmoved

LEMMA SetupHeld ==
    ASSUME KeysTyped, NEW s \in Setups, Setup(s.found, s.answer),
           Filled(Selected(s.found, s.answer)), Usable(config)
    PROVE  OwnAgentsKept
<1>1. config' = File(Merge(config.tree, Selected(s.found, s.answer)))
  BY DEF Setup, Edit, SetupFile
<1>2. Selected(s.found, s.answer) \in Words
  BY CommandsAssumption, WordsOfKeys, SelectedIsWord
<1> QED
  BY <1>1, <1>2, SetupHolds DEF KeysTyped, Unmoved, OwnAgentsKept

LEMMA SettingsStep ==
    KeysTyped /\ [Next]_vars =>
        [ config' # config =>
            /\ \A s \in Settings : Set(s.path, s.value) => SetAsAsked(s.path, s.value)
            /\ \A s \in Setups :
                (Setup(s.found, s.answer) /\ Selected(s.found, s.answer) # "" /\ Usable(config)) =>
                    OwnAgentsKept
        ]_vars
<1>1. \A s \in Settings : Set(s.path, s.value) => UNCHANGED doc
  BY DEF Set, Edit
<1> QED
  BY <1>1, SetHeld, SetupHeld DEF Filled

(* A setting that is set changes what it is about and nothing else that is  *)
(* read, and a setup keeps what the roles have of their own                *)
(* (cmdConfigSet, cmdSetup).                                               *)
THEOREM SettingsStay == Spec => SettingsHold
BY KeysStart, KeysStep, SettingsStep, PTL DEF Spec, SettingsHold
-----------------------------------------------------------------------------
(* The evaluation runner.  Each process under way works on a thread and a   *)
(* record of its own, so that the verdicts it gathers are those of one      *)
(* thread, and what it has indexed stays as it is.  The records an          *)
(* evaluation found indexed when it began were so before its own: whatever  *)
(* a variable points at was indexed by one that did not begin after every   *)
(* other of its task.                                                       *)
EvalLabels == {"idle", "prepare", "start", "exec", "judge", "index", "finally", "done", "killed"}

Answer == [name : STRING, score : Int, weight : Int, thread : Nat]

EvalTyped ==
    /\ pc \in [Proc -> EvalLabels]
    /\ job = [p \in Proc |-> job[p]] /\ told = [p \in Proc |-> told[p]]
    /\ latest = [n \in Names |-> latest[n]]
    /\ runs \in Seq({runs[r] : r \in 1..Len(runs)})
    /\ threads \in Seq(Nat) /\ clock \in Nat

\* The answers of a record or a job are those of the judges of a manifest.
AnswersOf(m, k, judges, t) ==
    \A i \in 1..k : /\ judges[i].name = m.judges[i].name
                    /\ judges[i].weight = m.judges[i].weight
                    /\ judges[i].thread = t

Listed(r, m) == r \in Indexed /\ runs[r].task = m.name

JobShape(j) ==
    j = [dir |-> j.dir, left |-> j.left, keep |-> j.keep, work |-> j.work, thread |-> j.thread,
         judges |-> j.judges, run |-> j.run, results |-> j.results, failed |-> j.failed,
         before |-> j.before]

OwnThread(p) ==
    job[p].thread \in 1..Len(threads) /\ \A r \in 1..Len(runs) : runs[r].thread # job[p].thread
OwnRecord(p) ==
    /\ job[p].run \in 1..Len(runs) /\ ~runs[job[p].run].indexed
    /\ runs[job[p].run].task = job[p].dir.name

JudgedSoFar(j) ==
    /\ j.judges \in Seq(Answer) /\ Len(j.judges) <= Len(j.dir.judges)
    /\ AnswersOf(j.dir, Len(j.judges), j.judges, j.thread)

JobInv(p) ==
    /\ JobShape(job[p])
    /\ pc[p] \in EvalLabels \ {"idle", "done", "killed"} => job[p].dir \in Manifests
    /\ pc[p] \in {"start", "exec", "judge"} =>
          ParseTaskManifest(job[p].dir) /\ job[p].before \subseteq Indexed
    /\ pc[p] \in {"start", "exec"} => job[p].judges = <<>>
    /\ pc[p] = "judge" => JudgedSoFar(job[p])
    /\ pc[p] \in {"exec", "judge"} => OwnThread(p)
    /\ pc[p] = "index" => OwnRecord(p)
    /\ job[p].results \in Seq(Nat)
    /\ \A i \in 1..Len(job[p].results) : Listed(job[p].results[i], job[p].dir)
    /\ pc[p] = "idle" => told[p] = <<>>
    /\ \A i \in DOMAIN told[p] : Listed(told[p][i], job[p].dir)

JobsApart ==
    \A p, q \in Proc : p # q =>
        /\ pc[p] \in {"exec", "judge"} /\ pc[q] \in {"exec", "judge"} => job[p].thread # job[q].thread
        /\ pc[p] = "index" /\ pc[q] = "index" => job[p].run # job[q].run

\* The scores of informational judges taken away.
Silenced(judges) ==
    [i \in DOMAIN judges |-> [judges[i] EXCEPT !.score = IF judges[i].weight = 0 THEN 0 ELSE @]]

RecordShape(rec) ==
    rec = [task |-> rec.task, thread |-> rec.thread, judges |-> rec.judges,
           overall |-> rec.overall, timestamp |-> rec.timestamp,
           before |-> rec.before, indexed |-> rec.indexed]

Whole(r) ==
    /\ RecordShape(runs[r])
    /\ runs[r].timestamp \in Nat
    /\ runs[r].thread \in 1..Len(threads)
    /\ runs[r].before \subseteq Indexed
    /\ \E m \in Manifests :
          /\ ParseTaskManifest(m) /\ m.name = runs[r].task /\ Len(m.judges) = Len(runs[r].judges)
          /\ AnswersOf(m, Len(runs[r].judges), runs[r].judges, runs[r].thread)
    /\ runs[r].overall = ComputeOverall(Silenced(runs[r].judges))
    /\ \A s \in 1..Len(runs) : s # r => runs[s].thread # runs[r].thread

LatestIs(n) ==
    /\ latest[n] # 0 => latest[n] \in Indexed /\ runs[latest[n]].task = n
    /\ \A r \in Indexed : runs[r].task = n => latest[n] # 0 /\ latest[n] \notin runs[r].before

EvalInv ==
    /\ EvalTyped /\ JobsApart
    /\ \A p \in Proc : JobInv(p)
    /\ \A r \in 1..Len(runs) : Whole(r)
    /\ \A n \in Names : LatestIs(n)

EvalStep(p) ==
    \/ \E m \in Manifests, count \in 0..2, keep \in BOOLEAN : Run(p, m, count, keep)
    \/ Prepare(p) \/ ThreadStart(p) \/ ThreadExec(p) \/ Judge(p) \/ Record(p)
    \/ Index(p) \/ Finally(p) \/ Kill(p)

\* What a step of a process does to what the others look at.
SameRecord(r) ==
    /\ runs'[r].task = runs[r].task /\ runs'[r].thread = runs[r].thread
    /\ runs'[r].judges = runs[r].judges /\ runs'[r].overall = runs[r].overall
    /\ runs'[r].timestamp = runs[r].timestamp /\ runs'[r].before = runs[r].before

Grows(p) ==
    /\ \A q \in Proc \ {p} : pc'[q] = pc[q] /\ job'[q] = job[q] /\ told'[q] = told[q]
    /\ Len(threads) \in Nat /\ Len(threads') \in Nat /\ Len(threads) <= Len(threads')
    /\ Len(runs) \in Nat /\ Len(runs') \in Nat /\ Len(runs) <= Len(runs')
    /\ \A r \in 1..Len(runs) :
          /\ SameRecord(r) /\ RecordShape(runs'[r]) /\ (runs[r].indexed => runs'[r].indexed)
          /\ runs'[r].indexed => runs[r].indexed \/ (pc[p] = "index" /\ r = job[p].run)
    /\ \A r \in 1..Len(runs') :
          \/ r \in 1..Len(runs)
          \/ pc[p] = "judge" /\ runs'[r].thread = job[p].thread /\ ~runs'[r].indexed

LEMMA RunsUntouched ==
    ASSUME EvalInv, NEW p \in Proc, UNCHANGED runs,
           \A q \in Proc \ {p} : pc'[q] = pc[q] /\ job'[q] = job[q] /\ told'[q] = told[q],
           Len(threads') \in Nat, Len(threads) <= Len(threads')
    PROVE  Grows(p)
<1>1. Len(threads) \in Nat /\ Len(runs) \in Nat
  BY DEF EvalInv, EvalTyped
<1>2. \A r : SameRecord(r)
  BY DEF SameRecord
<1>3. \A r \in 1..Len(runs) : RecordShape(runs[r])
  BY DEF EvalInv, Whole
<1> QED
  BY <1>1, <1>2, <1>3 DEF Grows

LEMMA Grown == ASSUME EvalInv, NEW p \in Proc, EvalStep(p) PROVE Grows(p) /\ EvalTyped'
<1> USE DEF EvalLabels
<1>0. EvalTyped /\ p \in Proc /\ JobInv(p)
  BY DEF EvalInv
<1>1. ASSUME UNCHANGED <<runs, threads, latest, clock>>,
             pc' \in [Proc -> EvalLabels],
             job' = [q \in Proc |-> job'[q]], told' = [q \in Proc |-> told'[q]],
             \A q \in Proc \ {p} : pc'[q] = pc[q] /\ job'[q] = job[q] /\ told'[q] = told[q]
      PROVE  Grows(p) /\ EvalTyped'
  <2>1. Len(threads') \in Nat /\ Len(threads) <= Len(threads')
    BY <1>0, <1>1 DEF EvalTyped
  <2>2. Grows(p)
    BY <1>1, <2>1, RunsUntouched
  <2> QED
    BY <1>0, <1>1, <2>2 DEF EvalTyped
<1>2. ASSUME NEW m, NEW count, NEW keep, Run(p, m, count, keep) PROVE Grows(p) /\ EvalTyped'
  BY <1>0, <1>1, <1>2 DEF Run, Goto, EvalTyped
<1>3. CASE Prepare(p)
  BY <1>0, <1>1, <1>3 DEF Prepare, Abort, Goto, EvalTyped
<1>4. CASE ThreadStart(p)
  <2>1. /\ pc' \in [Proc -> EvalLabels] /\ job' = [q \in Proc |-> job'[q]] /\ UNCHANGED told
        /\ \A q \in Proc \ {p} : pc'[q] = pc[q] /\ job'[q] = job[q]
        /\ UNCHANGED <<runs, latest, clock>>
    BY <1>0, <1>4 DEF ThreadStart, Throw, Goto, EvalTyped
  <2>2. threads' \in Seq(Nat) /\ Len(threads') \in Nat /\ Len(threads) <= Len(threads')
    <3>1. CASE UNCHANGED threads
      BY <1>0, <3>1 DEF EvalTyped
    <3>2. CASE threads' = Append(threads, 0)
      BY <1>0, <3>2 DEF EvalTyped
    <3> QED
      BY <1>4, <3>1, <3>2 DEF ThreadStart
  <2>3. Grows(p)
    BY <2>1, <2>2, RunsUntouched
  <2> QED
    BY <1>0, <2>1, <2>2, <2>3 DEF EvalTyped
<1>5. CASE ThreadExec(p)
  <2>1. /\ pc' \in [Proc -> EvalLabels] /\ job' = [q \in Proc |-> job'[q]] /\ UNCHANGED told
        /\ \A q \in Proc \ {p} : pc'[q] = pc[q] /\ job'[q] = job[q]
        /\ UNCHANGED <<runs, latest, clock>>
    BY <1>0, <1>5 DEF ThreadExec, Throw, Goto, EvalTyped
  <2>2. threads' \in Seq(Nat) /\ Len(threads') \in Nat /\ Len(threads) <= Len(threads')
    <3>1. PICK n \in 0..job[p].dir.maxSteps : threads' = [threads EXCEPT ![job[p].thread] = n]
      BY <1>5 DEF ThreadExec
    <3>2. n \in Nat
      BY <3>1
    <3>0. threads \in Seq(Nat)
      BY <1>0 DEF EvalTyped
    <3>3. PICK l \in Nat : l = Len(threads) /\ threads \in [1..l -> Nat]
      BY <3>0
    <3>4. threads' \in [1..l -> Nat]
      BY <3>1, <3>2, <3>3
    <3>5. threads' \in Seq(Nat) /\ Len(threads') = l
      BY <3>3, <3>4
    <3> QED
      BY <3>3, <3>5
  <2>3. Grows(p)
    BY <2>1, <2>2, RunsUntouched
  <2> QED
    BY <1>0, <2>1, <2>2, <2>3 DEF EvalTyped
<1>6. CASE Judge(p)
  <2>1. Throw(p) \/ \E s : Verdict(p, s)
    BY <1>6 DEF Judge, RunTaskJudge, RunBuiltinJudge
  <2> QED
    BY <1>0, <1>1, <1>6, <2>1 DEF Judge, Throw, Verdict, Goto, EvalTyped
<1>7. CASE Record(p)
  <2>1. /\ pc' \in [Proc -> EvalLabels] /\ job' = [q \in Proc |-> job'[q]] /\ UNCHANGED told
        /\ \A q \in Proc \ {p} : pc'[q] = pc[q] /\ job'[q] = job[q]
        /\ UNCHANGED <<threads, latest>> /\ pc[p] = "judge" /\ clock' \in Nat
    <3>1. /\ pc' = [pc EXCEPT ![p] = "index"] /\ \E k : job' = [job EXCEPT ![p].run = k]
          /\ UNCHANGED <<threads, latest, told>> /\ pc[p] = "judge" /\ clock' \in {clock, clock + 1}
      BY <1>7 DEF Record, Goto
    <3>2. clock' \in Nat
      BY <1>0, <3>1 DEF EvalTyped
    <3> QED
      BY <1>0, <3>1, <3>2 DEF EvalTyped
  <2>2. PICK new : runs' = Append(runs, new) /\ new.thread = job[p].thread /\ ~new.indexed
    BY <1>7 DEF Record
  <2>3. PICK S : S = {runs[r] : r \in 1..Len(runs)} \cup {new}
    OBVIOUS
  <2>4. runs \in Seq(S) /\ new \in S
    <3>1. runs \in [1..Len(runs) -> S] /\ Len(runs) \in Nat
      BY <1>0, <2>3 DEF EvalTyped
    <3> QED
      BY <2>3, <3>1
  <2>5. /\ runs' \in Seq(S) /\ Len(runs') = Len(runs) + 1 /\ Len(runs) \in Nat
        /\ \A r \in 1..Len(runs) : runs'[r] = runs[r]
        /\ runs'[Len(runs) + 1] = new
    BY <2>2, <2>4
  <2>6. runs' \in Seq({runs'[r] : r \in 1..Len(runs')})
    <3>1. runs' = [r \in 1..Len(runs') |-> runs'[r]] /\ Len(runs') \in Nat
      BY <2>5
    <3> QED
      BY <3>1
  <2>7. \A r \in 1..Len(runs) : SameRecord(r) /\ RecordShape(runs'[r])
    BY <2>5 DEF SameRecord, EvalInv, Whole
  <2>8. \A r \in 1..Len(runs') : r \in 1..Len(runs) \/ r = Len(runs) + 1
    BY <2>5
  <2>9. Grows(p)
    <3>1. Len(threads) \in Nat /\ Len(threads') \in Nat /\ Len(threads) <= Len(threads')
      BY <1>0, <2>1 DEF EvalTyped
    <3> QED
      BY <2>1, <2>2, <2>5, <2>7, <2>8, <3>1 DEF Grows
  <2> QED
    BY <1>0, <2>1, <2>6, <2>9 DEF EvalTyped
<1>8. CASE Index(p)
  <2>1. /\ pc' \in [Proc -> EvalLabels] /\ job' = [q \in Proc |-> job'[q]] /\ UNCHANGED told
        /\ \A q \in Proc \ {p} : pc'[q] = pc[q] /\ job'[q] = job[q]
        /\ UNCHANGED <<threads, clock>> /\ latest' = [n \in Names |-> latest'[n]]
    BY <1>0, <1>8 DEF Index, SetEvalLatest, Goto, EvalTyped
  <2>2. pc[p] = "index" /\ runs' = [runs EXCEPT ![job[p].run].indexed = TRUE]
    BY <1>8 DEF Index
  <2>3. PICK n \in Nat : n = Len(runs) /\ runs = [r \in 1..n |-> runs[r]]
    <3>1. runs \in Seq({runs[r] : r \in 1..Len(runs)})
      BY <1>0 DEF EvalTyped
    <3> QED
      BY <3>1
  <2>4. /\ Len(runs') = n /\ runs' = [r \in 1..n |-> runs'[r]]
        /\ \A r \in 1..n : runs'[r] = IF r = job[p].run THEN [runs[r] EXCEPT !.indexed = TRUE] ELSE runs[r]
    <3>1. PICK k, old : k = job[p].run /\ old = runs
      OBVIOUS
    <3>2. DOMAIN old = 1..n
      BY <2>3, <3>1
    <3>3. runs' = [old EXCEPT ![k] = [old[k] EXCEPT !.indexed = TRUE]]
      BY <2>2, <3>1
    <3>4. runs' = [r \in 1..n |-> IF r = k THEN [old[r] EXCEPT !.indexed = TRUE] ELSE old[r]]
      BY <3>2, <3>3
    <3>5. Len(runs') = n
      BY <2>3, <3>4
    <3> QED
      BY <3>1, <3>4, <3>5
  <2>5. runs' \in Seq({runs'[r] : r \in 1..Len(runs')})
    BY <2>4
  <2>6. \A r \in 1..Len(runs) :
           /\ SameRecord(r) /\ RecordShape(runs'[r]) /\ (runs[r].indexed => runs'[r].indexed)
           /\ runs'[r].indexed => runs[r].indexed \/ (pc[p] = "index" /\ r = job[p].run)
    <3> SUFFICES ASSUME NEW r \in 1..Len(runs)
                 PROVE  /\ SameRecord(r) /\ RecordShape(runs'[r]) /\ (runs[r].indexed => runs'[r].indexed)
                        /\ runs'[r].indexed => runs[r].indexed \/ (pc[p] = "index" /\ r = job[p].run)
      OBVIOUS
    <3>1. PICK was : was = runs[r] /\ Whole(r)
      BY DEF EvalInv
    <3>2. was = [task |-> was.task, thread |-> was.thread, judges |-> was.judges,
                 overall |-> was.overall, timestamp |-> was.timestamp,
                 before |-> was.before, indexed |-> was.indexed]
      BY <3>1 DEF Whole, RecordShape
    <3>3. runs'[r] = was \/ (runs'[r] = [was EXCEPT !.indexed = TRUE] /\ r = job[p].run)
      BY <2>3, <2>4, <3>1
    <3>4. CASE runs'[r] = was
      BY <3>1, <3>4 DEF SameRecord, Whole
    <3>5. CASE runs'[r] = [was EXCEPT !.indexed = TRUE] /\ r = job[p].run
      <4>1. runs'[r] = [task |-> was.task, thread |-> was.thread, judges |-> was.judges,
                        overall |-> was.overall, timestamp |-> was.timestamp,
                        before |-> was.before, indexed |-> TRUE]
        BY <3>2, <3>5
      <4>2. RecordShape(runs'[r]) /\ runs'[r].indexed
        BY <4>1 DEF RecordShape
      <4>3. SameRecord(r)
        BY <3>1, <4>1 DEF SameRecord
      <4> QED
        BY <2>2, <3>5, <4>2, <4>3
    <3> QED
      BY <3>3, <3>4, <3>5
  <2>7. Grows(p)
    <3>1. Len(threads) \in Nat /\ Len(threads') \in Nat /\ Len(threads) <= Len(threads')
      BY <1>0, <2>1 DEF EvalTyped
    <3>2. Len(runs) \in Nat /\ Len(runs') \in Nat /\ Len(runs) <= Len(runs') /\ Len(runs') = Len(runs)
      BY <2>3, <2>4
    <3> QED
      BY <2>1, <2>6, <3>1, <3>2 DEF Grows
  <2> QED
    BY <1>0, <2>1, <2>5, <2>7 DEF EvalTyped
<1>9. CASE Finally(p)
  BY <1>0, <1>1, <1>9 DEF Finally, Goto, EvalTyped
<1>10. CASE Kill(p)
  BY <1>0, <1>1, <1>10 DEF Kill, Goto, EvalTyped
<1> QED
  BY <1>2, <1>3, <1>4, <1>5, <1>6, <1>7, <1>8, <1>9, <1>10 DEF EvalStep

LEMMA ListedStays ==
    ASSUME NEW p \in Proc, Grows(p)
    PROVE  Indexed \subseteq Indexed' /\ \A r, m : Listed(r, m) => Listed(r, m)'
<1>1. \A r \in Indexed : r \in Indexed' /\ runs'[r].task = runs[r].task
  <2>1. \A r \in 1..Len(runs) : r \in 1..Len(runs') /\ runs'[r].task = runs[r].task
    BY DEF Grows, SameRecord
  <2> QED
    BY <2>1 DEF Grows, Indexed
<1> QED
  BY <1>1 DEF Listed

\* Nothing changes for the other processes.
LEMMA OthersStay ==
    ASSUME EvalInv, NEW p \in Proc, Grows(p), NEW q \in Proc, q # p
    PROVE  JobInv(q)'
<1>1. pc'[q] = pc[q] /\ job'[q] = job[q] /\ told'[q] = told[q] /\ JobInv(q)
  BY DEF Grows, EvalInv
<1>2. Indexed \subseteq Indexed' /\ \A r, m : Listed(r, m) => Listed(r, m)'
  BY ListedStays
<1>3. ASSUME pc[q] \in {"exec", "judge"} PROVE OwnThread(q)'
  <2>1. job[q].thread \in 1..Len(threads) /\ \A r \in 1..Len(runs) : runs[r].thread # job[q].thread
    BY <1>1, <1>3 DEF JobInv, OwnThread
  <2>2. job[q].thread \in 1..Len(threads')
    BY <2>1 DEF Grows
  <2>3. pc[p] = "judge" => job[p].thread # job[q].thread
    BY <1>3 DEF EvalInv, JobsApart
  <2>4. ASSUME NEW r \in 1..Len(runs') PROVE runs'[r].thread # job[q].thread
    <3>1. r \in 1..Len(runs) \/ (pc[p] = "judge" /\ runs'[r].thread = job[p].thread)
      BY DEF Grows
    <3>2. r \in 1..Len(runs) => runs'[r].thread = runs[r].thread
      BY DEF Grows, SameRecord
    <3> QED
      BY <2>1, <2>3, <3>1, <3>2
  <2> QED
    BY <1>1, <2>2, <2>4 DEF OwnThread
<1>4. ASSUME pc[q] = "index" PROVE OwnRecord(q)'
  <2>1. PICK k : k = job[q].run /\ k \in 1..Len(runs) /\ ~runs[k].indexed /\ runs[k].task = job[q].dir.name
    BY <1>1, <1>4 DEF JobInv, OwnRecord
  <2>2. k \in 1..Len(runs') /\ runs'[k].task = runs[k].task
    BY <2>1 DEF Grows, SameRecord
  <2>3. pc[p] = "index" => k # job[p].run
    BY <1>4, <2>1 DEF EvalInv, JobsApart
  <2>4. ~runs'[k].indexed
    BY <2>1, <2>3 DEF Grows
  <2> QED
    BY <1>1, <2>1, <2>2, <2>4 DEF OwnRecord
<1>5. job[q].before \subseteq Indexed => job'[q].before \subseteq Indexed'
  BY <1>1, <1>2
<1>6. JudgedSoFar(job[q]) => JudgedSoFar(job[q])'
  BY <1>1 DEF JudgedSoFar, AnswersOf
<1>7. /\ \A i \in 1..Len(job'[q].results) : Listed(job[q].results[i], job[q].dir)'
      /\ \A i \in DOMAIN told'[q] : Listed(told[q][i], job[q].dir)'
  <2>1. PICK results, dir, said : results = job[q].results /\ dir = job[q].dir /\ said = told[q]
    OBVIOUS
  <2>2. /\ \A i \in 1..Len(results) : Listed(results[i], dir)'
        /\ \A i \in DOMAIN said : Listed(said[i], dir)'
    BY <1>1, <1>2, <2>1 DEF JobInv
  <2>3. job'[q].results = results /\ job'[q].dir = dir /\ told'[q] = said
    BY <1>1, <2>1
  <2> QED
    BY <2>2, <2>3
<1> QED
  BY <1>1, <1>3, <1>4, <1>5, <1>6, <1>7 DEF JobInv, JobShape

\* Nor do two processes come to work on one thread or one record.
LEMMA ApartStays == ASSUME EvalInv, NEW p \in Proc, EvalStep(p), Grows(p) PROVE JobsApart'
<1>0. EvalTyped /\ JobsApart /\ JobInv(p) /\ Len(threads) \in Nat /\ Len(runs) \in Nat
  BY DEF EvalInv, EvalTyped
<1>1. ASSUME pc'[p] \in {"exec", "judge"}, NEW q \in Proc, q # p, pc[q] \in {"exec", "judge"}
      PROVE  job'[p].thread # job[q].thread
  <2>1. job[q].thread \in 1..Len(threads)
    BY <1>1 DEF EvalInv, JobInv, OwnThread
  <2>2. CASE ThreadStart(p)
    <3>0. pc' # [pc EXCEPT ![p] = "finally"]
      BY <1>0, <1>1 DEF EvalTyped
    <3>1. job'[p].thread = Len(threads') /\ threads' = Append(threads, 0)
      <4>1. /\ threads' = Append(threads, 0)
            /\ job' = [job EXCEPT ![p] = [job[p] EXCEPT !.thread = Len(threads')]]
        BY <2>2, <3>0 DEF ThreadStart, Throw, Goto
      <4>2. PICK was : was = job[p] /\ JobShape(was)
        BY <1>0 DEF JobInv
      <4>3. [was EXCEPT !.thread = Len(threads')].thread = Len(threads')
        BY <4>2 DEF JobShape
      <4> QED
        BY <1>0, <4>1, <4>2, <4>3 DEF EvalTyped
    <3>2. Len(threads') = Len(threads) + 1
      BY <1>0, <3>1 DEF EvalTyped
    <3> QED
      BY <1>0, <2>1, <3>1, <3>2
  <2>3. CASE pc[p] \in {"exec", "judge"} /\ job'[p].thread = job[p].thread
    BY <1>0, <1>1, <2>3 DEF JobsApart
  <2>4. CASE ThreadExec(p) \/ Judge(p)
    <3>1. pc[p] \in {"exec", "judge"}
      BY <2>4 DEF ThreadExec, Judge
    <3>2. job'[p].thread = job[p].thread
      <4>1. \/ UNCHANGED job \/ job' = [job EXCEPT ![p].failed = TRUE]
            \/ \E x : job' = [job EXCEPT ![p].judges = x]
        BY <2>4 DEF ThreadExec, Judge, RunTaskJudge, RunBuiltinJudge, Throw, Verdict
      <4> QED
        BY <1>0, <4>1 DEF EvalTyped, JobInv, JobShape
    <3> QED
      BY <2>3, <3>1, <3>2
  <2>5. ThreadStart(p) \/ ThreadExec(p) \/ Judge(p)
    BY <1>0, <1>1 DEF EvalStep, Run, Prepare, Abort, Record, Index, Finally, Kill, Goto, EvalTyped
  <2> QED
    BY <2>2, <2>4, <2>5
<1>2. ASSUME pc'[p] = "index", NEW q \in Proc, q # p, pc[q] = "index"
      PROVE  job'[p].run # job[q].run
  <2>1. job[q].run \in 1..Len(runs)
    BY <1>2 DEF EvalInv, JobInv, OwnRecord
  <2>2. Record(p)
    BY <1>0, <1>2 DEF EvalStep, Run, Prepare, Abort, ThreadStart, ThreadExec, Judge, RunTaskJudge,
                      RunBuiltinJudge, Throw, Verdict, Index, Finally, Kill, Goto, EvalTyped
  <2>3. job'[p].run = Len(runs') /\ \E new : runs' = Append(runs, new)
    <3>1. /\ \E new : runs' = Append(runs, new)
          /\ job' = [job EXCEPT ![p] = [job[p] EXCEPT !.run = Len(runs')]]
      BY <2>2 DEF Record
    <3>2. PICK was : was = job[p] /\ JobShape(was)
      BY <1>0 DEF JobInv
    <3>3. [was EXCEPT !.run = Len(runs')].run = Len(runs')
      BY <3>2 DEF JobShape
    <3> QED
      BY <1>0, <3>1, <3>2, <3>3 DEF EvalTyped
  <2>4. Len(runs') = Len(runs) + 1
    BY <1>0, <2>3 DEF EvalTyped
  <2> QED
    BY <1>0, <2>1, <2>3, <2>4
<1>3. \A q \in Proc : q # p => pc'[q] = pc[q] /\ job'[q] = job[q]
  BY DEF Grows
<1> QED
  BY <1>0, <1>1, <1>2, <1>3 DEF JobsApart

\* What an informational judge says does not count.
LEMMA Informational ==
    ASSUME NEW judges \in Seq(Answer)
    PROVE  ComputeOverall(Silenced(judges)) = ComputeOverall(judges)
<1>1. PICK n \in Nat : n = Len(judges) /\ DOMAIN judges = 1..n
  OBVIOUS
<1>2. PICK silenced : silenced = Silenced(judges)
  OBVIOUS
<1>3. /\ DOMAIN silenced = 1..n
      /\ \A i \in 1..n : /\ silenced[i].weight = judges[i].weight
                         /\ silenced[i].score * judges[i].weight = judges[i].score * judges[i].weight
  <2>1. DOMAIN silenced = 1..n
    BY <1>1, <1>2 DEF Silenced
  <2>2. ASSUME NEW i \in 1..n
        PROVE  /\ silenced[i].weight = judges[i].weight
               /\ silenced[i].score * judges[i].weight = judges[i].score * judges[i].weight
    <3>1. PICK a \in Answer : a = judges[i]
      BY <1>1
    <3>2. silenced[i] = [a EXCEPT !.score = IF a.weight = 0 THEN 0 ELSE @]
      BY <1>1, <1>2, <3>1 DEF Silenced
    <3>3. silenced[i].weight = a.weight /\ silenced[i].score = IF a.weight = 0 THEN 0 ELSE a.score
      BY <3>2 DEF Answer
    <3>4. PICK w \in Int, s \in Int : w = a.weight /\ s = a.score
      BY DEF Answer
    <3>5. (IF w = 0 THEN 0 ELSE s) * w = s * w
      OBVIOUS
    <3> QED
      BY <3>1, <3>3, <3>4, <3>5
  <2> QED
    BY <2>1, <2>2
<1>4. [i \in DOMAIN silenced |-> silenced[i].weight] = [i \in DOMAIN judges |-> judges[i].weight]
  BY <1>1, <1>3
<1>5. [i \in DOMAIN silenced |-> silenced[i].score * silenced[i].weight]
        = [i \in DOMAIN judges |-> judges[i].score * judges[i].weight]
  BY <1>1, <1>3
<1> QED
  BY <1>2, <1>4, <1>5 DEF ComputeOverall

LEMMA RecordsStay ==
    ASSUME EvalInv, NEW p \in Proc, EvalStep(p), Grows(p), EvalTyped', NEW r \in 1..Len(runs')
    PROVE  Whole(r)'
<1>0. EvalTyped /\ JobInv(p) /\ Len(runs) \in Nat /\ Len(threads) \in Nat
  BY DEF EvalInv, EvalTyped
<1>1. Indexed \subseteq Indexed'
  BY ListedStays
<1>2. CASE r \in 1..Len(runs)
  <2>1. Whole(r) /\ SameRecord(r) /\ RecordShape(runs'[r])
    BY <1>2 DEF EvalInv, Grows
  <2>2. runs'[r].thread \in 1..Len(threads')
    BY <2>1 DEF Whole, SameRecord, Grows
  <2>3. runs'[r].before \subseteq Indexed'
    BY <1>1, <2>1 DEF Whole, SameRecord
  <2>4. ASSUME NEW s \in 1..Len(runs'), s # r PROVE runs'[s].thread # runs'[r].thread
    <3>1. CASE s \in 1..Len(runs)
      BY <2>1, <2>4, <3>1 DEF Whole, SameRecord, Grows
    <3>2. CASE pc[p] = "judge" /\ runs'[s].thread = job[p].thread
      BY <1>0, <1>2, <2>1, <3>2 DEF JobInv, OwnThread, SameRecord
    <3> QED
      BY <3>1, <3>2 DEF Grows
  <2>5. /\ runs'[r].timestamp \in Nat
        /\ runs'[r].overall = ComputeOverall(Silenced(runs'[r].judges))
        /\ \E m \in Manifests :
              /\ ParseTaskManifest(m) /\ m.name = runs'[r].task
              /\ Len(m.judges) = Len(runs'[r].judges)
              /\ AnswersOf(m, Len(runs'[r].judges), runs'[r].judges, runs'[r].thread)
    <3>1. PICK was, now : was = runs[r] /\ now = runs'[r]
      OBVIOUS
    <3>2. /\ was.timestamp \in Nat /\ was.overall = ComputeOverall(Silenced(was.judges))
          /\ \E m \in Manifests :
                /\ ParseTaskManifest(m) /\ m.name = was.task /\ Len(m.judges) = Len(was.judges)
                /\ AnswersOf(m, Len(was.judges), was.judges, was.thread)
      BY <2>1, <3>1 DEF Whole
    <3>3. /\ now.timestamp = was.timestamp /\ now.overall = was.overall /\ now.task = was.task
          /\ now.judges = was.judges /\ now.thread = was.thread
      BY <2>1, <3>1 DEF SameRecord
    <3> QED
      BY <3>1, <3>2, <3>3
  <2> QED
    BY <2>1, <2>2, <2>3, <2>4, <2>5 DEF Whole
<1>3. CASE r \notin 1..Len(runs)
  <2>1. pc[p] = "judge" /\ Len(runs) # Len(runs')
    BY <1>0, <1>3 DEF Grows
  <2>2. Record(p)
    BY <1>0, <2>1 DEF EvalStep, Run, Prepare, ThreadStart, ThreadExec, Judge, Index, Finally, Kill
  <2>3. PICK j : j = job[p]
    OBVIOUS
  <2>4. PICK new : /\ runs' = Append(runs, new)
                   /\ new = [task |-> j.dir.name, thread |-> j.thread, judges |-> j.judges,
                             overall |-> ComputeOverall(j.judges), timestamp |-> clock',
                             before |-> j.before, indexed |-> FALSE]
    BY <2>2, <2>3 DEF Record
  <2>5. /\ r = Len(runs) + 1 /\ runs'[r] = new /\ Len(runs') = Len(runs) + 1
        /\ \A s \in 1..Len(runs) : runs'[s] = runs[s]
    <3>1. PICK S : S = {runs[i] : i \in 1..Len(runs)} \cup {new}
      OBVIOUS
    <3>2. runs \in [1..Len(runs) -> S]
      BY <1>0, <3>1 DEF EvalTyped
    <3>3. runs \in Seq(S) /\ new \in S
      BY <1>0, <3>1, <3>2
    <3>4. /\ Len(runs') = Len(runs) + 1 /\ runs'[Len(runs) + 1] = new
          /\ \A s \in 1..Len(runs) : runs'[s] = runs[s]
      BY <2>4, <3>3
    <3> QED
      BY <1>0, <1>3, <3>4
  <2>6. /\ j.dir \in Manifests /\ ParseTaskManifest(j.dir) /\ j.before \subseteq Indexed
        /\ JudgedSoFar(j) /\ OwnThread(p) /\ Len(j.judges) = Len(j.dir.judges)
    BY <1>0, <2>1, <2>2, <2>3 DEF JobInv, Record, EvalLabels
  <2>7. new.overall = ComputeOverall(Silenced(new.judges))
    <3>1. ComputeOverall(Silenced(j.judges)) = ComputeOverall(j.judges)
      BY <2>6, Informational DEF JudgedSoFar
    <3> QED
      BY <2>4, <3>1
  <2>8. RecordShape(new) /\ new.timestamp \in Nat /\ new.before \subseteq Indexed'
    BY <1>1, <2>4, <2>6 DEF RecordShape, EvalTyped
  <2>9. new.thread \in 1..Len(threads')
    BY <2>3, <2>4, <2>6 DEF OwnThread, Grows
  <2>10. \E m \in Manifests :
            /\ ParseTaskManifest(m) /\ m.name = new.task /\ Len(m.judges) = Len(new.judges)
            /\ AnswersOf(m, Len(new.judges), new.judges, new.thread)
    BY <2>4, <2>6 DEF JudgedSoFar
  <2>11. ASSUME NEW s \in 1..Len(runs'), s # r PROVE runs'[s].thread # new.thread
    <3>1. s \in 1..Len(runs)
      BY <1>0, <2>5, <2>11
    <3> QED
      BY <2>3, <2>4, <2>5, <2>6, <3>1 DEF OwnThread
  <2> QED
    BY <2>5, <2>7, <2>8, <2>9, <2>10, <2>11 DEF Whole
<1> QED
  BY <1>2, <1>3

LEMMA LatestStays ==
    ASSUME EvalInv, NEW p \in Proc, EvalStep(p), Grows(p), NEW n \in Names
    PROVE  LatestIs(n)'
<1>0. EvalTyped /\ JobInv(p) /\ Len(runs) \in Nat /\ LatestIs(n)
  BY DEF EvalInv, EvalTyped
<1>1. \A r \in Indexed : /\ r \in Indexed' /\ r \in 1..Len(runs) /\ runs'[r].task = runs[r].task
                         /\ runs'[r].before = runs[r].before
  BY ListedStays DEF Indexed, Grows, SameRecord
<1>2. \A r \in Indexed' : r \in Indexed \/ (pc[p] = "index" /\ r = job[p].run)
  BY DEF Indexed, Grows
<1>3. CASE Index(p)
  <2>1. PICK k, m : k = job[p].run /\ m = job[p].dir.name
    OBVIOUS
  <2>2. /\ k \in 1..Len(runs) /\ ~runs[k].indexed /\ runs[k].task = m /\ m \in Names
        /\ latest' = [latest EXCEPT ![m] = k] /\ pc[p] = "index"
        /\ runs' = [runs EXCEPT ![k].indexed = TRUE]
    <3>1. pc[p] = "index" /\ job[p].dir \in Manifests /\ OwnRecord(p)
      BY <1>0, <1>3 DEF Index, JobInv, EvalLabels
    <3> QED
      BY <1>3, <2>1, <3>1 DEF Index, OwnRecord, Names, SetEvalLatest
  <2>3. k \in Indexed' /\ k \notin Indexed /\ k # 0 /\ runs'[k].task = m
    <3>1. k \in 1..Len(runs') /\ runs'[k].task = m
      BY <2>2 DEF Grows, SameRecord
    <3>2. PICK was : was = runs[k] /\ RecordShape(was)
      BY <2>2 DEF EvalInv, Whole
    <3>3. runs'[k] = [was EXCEPT !.indexed = TRUE]
      <4>1. PICK old : old = runs /\ DOMAIN old = 1..Len(runs)
        BY <1>0 DEF EvalTyped
      <4>2. runs' = [old EXCEPT ![k] = [old[k] EXCEPT !.indexed = TRUE]]
        BY <2>2, <4>1
      <4> QED
        BY <2>2, <3>2, <4>1, <4>2
    <3>4. runs'[k].indexed
      BY <3>2, <3>3 DEF RecordShape
    <3> QED
      BY <2>2, <3>1, <3>4 DEF Indexed
  <2>4. latest'[n] = IF n = m THEN k ELSE latest[n]
    BY <1>0, <2>2 DEF EvalTyped
  <2>5. \A r \in Indexed' : r = k \/ r \in Indexed
    BY <1>2, <2>1
  <2>6. CASE n = m
    <3>1. ASSUME NEW r \in Indexed' PROVE k \notin runs'[r].before
      <4>1. r \in 1..Len(runs) /\ runs'[r].before = runs[r].before
        BY <1>1, <2>2, <2>5 DEF Grows, SameRecord
      <4>2. runs[r].before \subseteq Indexed
        BY <4>1 DEF EvalInv, Whole
      <4> QED
        BY <2>3, <4>1, <4>2
    <3> QED
      BY <2>3, <2>4, <2>6, <3>1 DEF LatestIs
  <2>7. CASE n # m
    BY <1>0, <1>1, <2>3, <2>4, <2>5, <2>7 DEF LatestIs
  <2> QED
    BY <2>6, <2>7
<1>4. CASE ~Index(p)
  <2>1. UNCHANGED latest /\ (UNCHANGED runs \/ pc[p] = "judge")
    BY <1>4 DEF EvalStep, Run, Prepare, ThreadStart, ThreadExec, Judge, Record, Finally, Kill
  <2>2. Indexed' = Indexed
    <3>1. CASE UNCHANGED runs
      BY <3>1 DEF Indexed
    <3>2. CASE pc[p] = "judge"
      BY <1>1, <1>2, <3>2
    <3> QED
      BY <2>1, <3>1, <3>2
  <2> QED
    BY <1>0, <1>1, <2>1, <2>2 DEF LatestIs
<1> QED
  BY <1>3, <1>4

LEMMA SaidStays ==
    ASSUME EvalInv, NEW p \in Proc, Grows(p), job'[p].dir = job[p].dir
    PROVE  /\ job'[p].results = job[p].results =>
                 /\ job'[p].results \in Seq(Nat)
                 /\ \A i \in 1..Len(job'[p].results) : Listed(job[p].results[i], job[p].dir)'
           /\ told'[p] = told[p] => \A i \in DOMAIN told'[p] : Listed(told[p][i], job[p].dir)'
<1>1. PICK results, dir, said : results = job[p].results /\ dir = job[p].dir /\ said = told[p]
  OBVIOUS
<1>2. /\ results \in Seq(Nat)
      /\ \A i \in 1..Len(results) : Listed(results[i], dir)
      /\ \A i \in DOMAIN said : Listed(said[i], dir)
  BY <1>1 DEF EvalInv, JobInv
<1>3. \A r, m : Listed(r, m) => Listed(r, m)'
  BY ListedStays
<1>4. ASSUME job'[p].results = job[p].results
      PROVE  /\ job'[p].results \in Seq(Nat)
             /\ \A i \in 1..Len(job'[p].results) : Listed(job[p].results[i], job[p].dir)'
  <2>1. job'[p].results = results /\ job'[p].dir = dir
    BY <1>1, <1>4
  <2>2. \A i \in 1..Len(results) : Listed(results[i], dir)'
    BY <1>2, <1>3
  <2> QED
    BY <1>2, <2>1, <2>2
<1>5. ASSUME told'[p] = told[p]
      PROVE  \A i \in DOMAIN told'[p] : Listed(told[p][i], job[p].dir)'
  <2>1. told'[p] = said /\ job'[p].dir = dir
    BY <1>1, <1>5
  <2>2. \A i \in DOMAIN said : Listed(said[i], dir)'
    BY <1>2, <1>3
  <2> QED
    BY <2>1, <2>2
<1> QED
  BY <1>4, <1>5

\* What a judge of the task answers, and the one that is next.
LEMMA NextAnswer ==
    ASSUME EvalInv, NEW p \in Proc, pc[p] = "judge", Len(job[p].judges) < Len(job[p].dir.judges),
           NEW score \in Int, job' = [job EXCEPT ![p].judges =
                Append(@, [name |-> Turn(p).name, score |-> score, weight |-> Turn(p).weight,
                           thread |-> job[p].thread])]
    PROVE  /\ JobShape(job'[p]) /\ JudgedSoFar(job'[p])
           /\ job'[p].dir = job[p].dir /\ job'[p].results = job[p].results
           /\ job'[p].before = job[p].before /\ job'[p].thread = job[p].thread
<1>0. EvalTyped /\ JobInv(p)
  BY DEF EvalInv
<1>1. PICK was : was = job[p] /\ JobShape(was) /\ JudgedSoFar(was) /\ was.dir \in Manifests
  BY <1>0 DEF JobInv, EvalLabels
<1>2. PICK k \in Nat : k = Len(was.judges)
  BY <1>1 DEF JudgedSoFar
<1>3. PICK asked : asked = was.dir.judges /\ k < Len(asked) /\ Len(asked) \in Nat
                   /\ asked \in Seq([name : STRING, weight : Int, builtin : BOOLEAN, entry : BOOLEAN])
  BY <1>1, <1>2, EvalAssumption
<1>4. PICK turn \in [name : STRING, weight : Int, builtin : BOOLEAN, entry : BOOLEAN] :
         turn = asked[k + 1] /\ turn = Turn(p)
  <2>1. k + 1 \in 1..Len(asked)
    BY <1>3
  <2>2. asked[k + 1] \in [name : STRING, weight : Int, builtin : BOOLEAN, entry : BOOLEAN]
    <3>1. PICK S : S = [name : STRING, weight : Int, builtin : BOOLEAN, entry : BOOLEAN]
      OBVIOUS
    <3>2. asked \in Seq(S)
      BY <1>3, <3>1
    <3>3. asked[k + 1] \in S
      BY <2>1, <3>2
    <3> QED
      BY <3>1, <3>3
  <2>3. asked[k + 1] = Turn(p)
    BY <1>1, <1>2, <1>3 DEF Turn
  <2> QED
    BY <2>2, <2>3
<1>5. PICK answer : answer = [name |-> turn.name, score |-> score, weight |-> turn.weight,
                              thread |-> was.thread]
  OBVIOUS
<1>6. was.thread \in Nat
  BY <1>0, <1>1 DEF JobInv, OwnThread
<1>7. answer \in Answer
  BY <1>4, <1>5, <1>6 DEF Answer
<1>8. job'[p] = [was EXCEPT !.judges = Append(was.judges, answer)]
  BY <1>0, <1>1, <1>4, <1>5 DEF EvalTyped
<1>9. PICK judges, now : judges = Append(was.judges, answer) /\ now = job'[p]
  OBVIOUS
<1>10. /\ JobShape(now) /\ now.judges = judges /\ now.dir = was.dir /\ now.results = was.results
       /\ now.before = was.before /\ now.thread = was.thread
  <2>1. now = [dir |-> was.dir, left |-> was.left, keep |-> was.keep, work |-> was.work,
               thread |-> was.thread, judges |-> judges, run |-> was.run, results |-> was.results,
               failed |-> was.failed, before |-> was.before]
    <3>1. was = [dir |-> was.dir, left |-> was.left, keep |-> was.keep, work |-> was.work,
                 thread |-> was.thread, judges |-> was.judges, run |-> was.run,
                 results |-> was.results, failed |-> was.failed, before |-> was.before]
      BY <1>1 DEF JobShape
    <3>2. now = [was EXCEPT !.judges = judges]
      BY <1>8, <1>9
    <3> QED
      BY <3>1, <3>2
  <2> QED
    BY <2>1 DEF JobShape
<1>11. /\ judges \in Seq(Answer) /\ Len(judges) = k + 1 /\ judges[k + 1] = answer
       /\ \A i \in 1..k : judges[i] = was.judges[i]
  BY <1>1, <1>2, <1>7, <1>9 DEF JudgedSoFar
<1>12. AnswersOf(was.dir, k + 1, judges, was.thread)
  <2>1. AnswersOf(was.dir, k, was.judges, was.thread)
    BY <1>1, <1>2 DEF JudgedSoFar
  <2>2. ASSUME NEW i \in 1..(k + 1)
        PROVE  /\ judges[i].name = asked[i].name /\ judges[i].weight = asked[i].weight
               /\ judges[i].thread = was.thread
    <3>1. CASE i \in 1..k
      BY <1>3, <1>11, <2>1, <3>1 DEF AnswersOf
    <3>2. CASE i = k + 1
      <4>1. judges[i] = answer /\ asked[i] = turn
        BY <1>4, <1>11, <3>2
      <4>2. answer.name = turn.name /\ answer.weight = turn.weight /\ answer.thread = was.thread
        BY <1>5
      <4> QED
        BY <4>1, <4>2
    <3>3. i \in 1..k \/ i = k + 1
      OBVIOUS
    <3> QED
      BY <3>1, <3>2, <3>3
  <2> QED
    BY <1>3, <2>2 DEF AnswersOf
<1>13. JudgedSoFar(now)
  BY <1>3, <1>10, <1>11, <1>12 DEF JudgedSoFar
<1> QED
  BY <1>1, <1>9, <1>10, <1>13

LEMMA OwnStays ==
    ASSUME EvalInv, NEW p \in Proc, EvalStep(p), Grows(p)
    PROVE  JobInv(p)'
<1>0. EvalTyped /\ JobInv(p) /\ Len(runs) \in Nat /\ Len(threads) \in Nat
  BY DEF EvalInv, EvalTyped
<1>1. PICK was : was = job[p] /\ JobShape(was)
  BY <1>0 DEF JobInv
<1>2. Indexed \subseteq Indexed'
  BY ListedStays
\* An exception, or the end of the process.
<1>3. ASSUME pc'[p] \in {"done", "finally", "killed"}, UNCHANGED told,
             UNCHANGED job \/ job' = [job EXCEPT ![p].failed = TRUE],
             pc'[p] = "finally" => was.dir \in Manifests
      PROVE  JobInv(p)'
  <2>1. PICK now : now = job'[p] /\ (now = was \/ now = [was EXCEPT !.failed = TRUE])
    BY <1>0, <1>1, <1>3 DEF EvalTyped
  <2>2. JobShape(now) /\ now.dir = was.dir /\ now.results = was.results
    BY <1>1, <2>1 DEF JobShape
  <2>3. /\ job'[p].results \in Seq(Nat)
        /\ \A i \in 1..Len(job'[p].results) : Listed(job[p].results[i], job[p].dir)'
        /\ \A i \in DOMAIN told'[p] : Listed(told[p][i], job[p].dir)'
    BY <1>1, <1>3, <2>1, <2>2, SaidStays
  <2> QED
    BY <1>3, <2>1, <2>2, <2>3 DEF JobInv
<1>4. ASSUME NEW m \in Manifests, NEW count, NEW keep, Run(p, m, count, keep) PROVE JobInv(p)'
  <2>1. CASE count < 1
    BY <1>0, <1>3, <1>4, <2>1 DEF Run, Goto, EvalTyped
  <2>2. CASE ~(count < 1)
    <3>1. pc'[p] = "prepare" /\ UNCHANGED told /\ told[p] = <<>>
      BY <1>0, <1>4, <2>2 DEF Run, Goto, JobInv, EvalTyped
    <3>2. job'[p] = [dir |-> m, left |-> count, keep |-> keep, work |-> 0, thread |-> 0,
                     judges |-> <<>>, run |-> 0, results |-> <<>>, failed |-> FALSE, before |-> {}]
      BY <1>0, <1>4, <2>2 DEF Run, NoJob, EvalTyped
    <3>3. JobShape(job'[p]) /\ job'[p].dir = m /\ job'[p].results = <<>>
      BY <3>2 DEF JobShape
    <3>4. <<>> \in Seq(Nat) /\ Len(<<>>) = 0 /\ 1..0 = {} /\ DOMAIN <<>> = {}
      OBVIOUS
    <3>5. /\ job'[p].results \in Seq(Nat)
          /\ \A i \in 1..Len(job'[p].results) : Listed(job[p].results[i], job[p].dir)'
      BY <3>3, <3>4
    <3>6. \A i \in DOMAIN told'[p] : Listed(told[p][i], job[p].dir)'
      BY <3>1, <3>4
    <3> QED
      BY <3>1, <3>3, <3>5, <3>6 DEF JobInv
  <2> QED
    BY <2>1, <2>2
<1>5. CASE Prepare(p)
  <2>1. CASE Abort(p)
    BY <1>0, <1>3, <1>5, <2>1 DEF Prepare, Abort, Goto, EvalTyped
  <2>2. CASE ~Abort(p)
    <3>1. /\ pc[p] = "prepare" /\ ParseTaskManifest(job[p].dir) /\ UNCHANGED told
          /\ pc' = [pc EXCEPT ![p] = "start"] /\ UNCHANGED runs
          /\ job' = [job EXCEPT ![p].work = FreshDir, ![p].judges = <<>>,
                                ![p].thread = 0, ![p].run = 0, ![p].before = Indexed]
      BY <1>5, <2>2 DEF Prepare, Goto
    <3>2. job'[p] = [dir |-> was.dir, left |-> was.left, keep |-> was.keep, work |-> FreshDir,
                     thread |-> 0, judges |-> <<>>, run |-> 0, results |-> was.results,
                     failed |-> was.failed, before |-> Indexed]
      BY <1>0, <1>1, <3>1 DEF JobShape, EvalTyped
    <3>3. /\ JobShape(job'[p]) /\ job'[p].dir = job[p].dir /\ job'[p].results = job[p].results
          /\ job'[p].judges = <<>> /\ job'[p].before = Indexed
      BY <1>1, <3>2 DEF JobShape
    <3>4. pc'[p] = "start" /\ job[p].dir \in Manifests
      BY <1>0, <3>1 DEF EvalTyped, JobInv, EvalLabels
    <3>5. /\ job'[p].results \in Seq(Nat)
          /\ \A i \in 1..Len(job'[p].results) : Listed(job[p].results[i], job[p].dir)'
          /\ \A i \in DOMAIN told'[p] : Listed(told[p][i], job[p].dir)'
      BY <3>1, <3>3, SaidStays
    <3> QED
      BY <1>2, <3>1, <3>3, <3>4, <3>5 DEF JobInv
  <2> QED
    BY <2>1, <2>2
<1>6. ASSUME Throw(p), UNCHANGED told, pc[p] \in {"start", "exec", "judge"} PROVE JobInv(p)'
  <2>1. was.dir \in Manifests
    BY <1>0, <1>1, <1>6 DEF JobInv, EvalLabels
  <2> QED
    BY <1>0, <1>3, <1>6, <2>1 DEF Throw, Goto, EvalTyped
<1>7. CASE ThreadStart(p)
  <2>1. CASE Throw(p)
    BY <1>6, <1>7, <2>1 DEF ThreadStart
  <2>2. CASE ~Throw(p)
    <3>1. /\ pc[p] = "start" /\ UNCHANGED told /\ UNCHANGED runs /\ threads' = Append(threads, 0)
          /\ pc' = [pc EXCEPT ![p] = "exec"] /\ job' = [job EXCEPT ![p].thread = Len(threads')]
      BY <1>7, <2>2 DEF ThreadStart, Goto
    <3>2. job'[p] = [dir |-> was.dir, left |-> was.left, keep |-> was.keep, work |-> was.work,
                     thread |-> Len(threads'), judges |-> was.judges, run |-> was.run,
                     results |-> was.results, failed |-> was.failed, before |-> was.before]
      BY <1>0, <1>1, <3>1 DEF JobShape, EvalTyped
    <3>3. /\ JobShape(job'[p]) /\ job'[p].dir = job[p].dir /\ job'[p].results = job[p].results
          /\ job'[p].judges = job[p].judges /\ job'[p].before = job[p].before
          /\ job'[p].thread = Len(threads')
      BY <1>1, <3>2 DEF JobShape
    <3>4. /\ pc'[p] = "exec" /\ job[p].dir \in Manifests /\ ParseTaskManifest(job[p].dir)
          /\ job[p].before \subseteq Indexed /\ job[p].judges = <<>>
      BY <1>0, <3>1 DEF EvalTyped, JobInv, EvalLabels
    <3>5. OwnThread(p)'
      <4>1. Len(threads') = Len(threads) + 1
        BY <1>0, <3>1 DEF EvalTyped
      <4>2. \A r \in 1..Len(runs) : runs[r].thread \in 1..Len(threads)
        BY DEF EvalInv, Whole
      <4>3. \A r \in 1..Len(runs) : runs[r].thread # Len(threads')
        BY <1>0, <4>1, <4>2
      <4> QED
        BY <1>0, <3>1, <3>3, <4>1, <4>3 DEF OwnThread
    <3>6. /\ job'[p].results \in Seq(Nat)
          /\ \A i \in 1..Len(job'[p].results) : Listed(job[p].results[i], job[p].dir)'
          /\ \A i \in DOMAIN told'[p] : Listed(told[p][i], job[p].dir)'
      BY <3>1, <3>3, SaidStays
    <3> QED
      BY <1>2, <3>3, <3>4, <3>5, <3>6 DEF JobInv
  <2> QED
    BY <2>1, <2>2
<1>8. CASE ThreadExec(p)
  <2>1. CASE Throw(p)
    BY <1>6, <1>8, <2>1 DEF ThreadExec
  <2>2. CASE ~Throw(p)
    <3>1. /\ pc[p] = "exec" /\ UNCHANGED <<told, runs, job>> /\ pc' = [pc EXCEPT ![p] = "judge"]
      BY <1>8, <2>2 DEF ThreadExec, Goto
    <3>2. /\ pc'[p] = "judge" /\ job[p].dir \in Manifests /\ ParseTaskManifest(job[p].dir)
          /\ job[p].before \subseteq Indexed /\ job[p].judges = <<>> /\ OwnThread(p)
      BY <1>0, <3>1 DEF EvalTyped, JobInv, EvalLabels
    <3>3. OwnThread(p)'
      BY <3>1, <3>2 DEF OwnThread, Grows
    <3>4. JudgedSoFar(was)
      <4>1. Len(was.dir.judges) \in Nat
        BY <1>1, <3>2, EvalAssumption
      <4>2. <<>> \in Seq(Answer) /\ Len(<<>>) = 0
        OBVIOUS
      <4>3. \A m, t : AnswersOf(m, 0, <<>>, t)
        BY DEF AnswersOf
      <4>4. was.judges = <<>>
        BY <1>1, <3>2
      <4> QED
        BY <4>1, <4>2, <4>3, <4>4 DEF JudgedSoFar
    <3>5. /\ job'[p].results \in Seq(Nat)
          /\ \A i \in 1..Len(job'[p].results) : Listed(job[p].results[i], job[p].dir)'
          /\ \A i \in DOMAIN told'[p] : Listed(told[p][i], job[p].dir)'
      BY <3>1, SaidStays
    <3>6. job'[p] = was
      BY <1>1, <3>1
    <3> QED
      BY <1>1, <1>2, <3>1, <3>2, <3>3, <3>4, <3>5, <3>6 DEF JobInv
  <2> QED
    BY <2>1, <2>2
<1>9. CASE Judge(p)
  <2>1. CASE Throw(p)
    BY <1>6, <1>9, <2>1 DEF Judge
  <2>2. CASE ~Throw(p)
    <3>1. /\ pc[p] = "judge" /\ UNCHANGED <<told, runs, threads, pc>>
          /\ Len(job[p].judges) < Len(job[p].dir.judges)
          /\ \E score \in Int : Verdict(p, score)
      <4>1. /\ pc[p] = "judge" /\ UNCHANGED <<told, runs, threads>>
            /\ Len(job[p].judges) < Len(job[p].dir.judges)
        BY <1>9 DEF Judge
      <4>2. PICK score : Verdict(p, score) /\ (score \in Scores \/ score = BuiltinScore(Turn(p).name, threads[job[p].thread]))
        BY <1>9, <2>2 DEF Judge, RunTaskJudge, RunBuiltinJudge
      <4>3. score \in Int
        <5>1. PICK n \in Nat : n = threads[job[p].thread]
          BY <1>0, <4>1 DEF EvalTyped, JobInv, OwnThread
        <5>2. \A name : BuiltinScore(name, n) \in Int
          <6>1. CASE n = 0
            BY <6>1 DEF BuiltinScore
          <6>2. CASE n # 0
            <7>1. (100 * 0) \div n \in Int
              BY <6>2
            <7> QED
              BY <6>2, <7>1 DEF BuiltinScore, StepsValid
          <6> QED
            BY <6>1, <6>2
        <5>3. Scores \subseteq Int
          BY EvalAssumption
        <5>4. score \in Scores \/ score = BuiltinScore(Turn(p).name, n)
          BY <4>2, <5>1
        <5> QED
          BY <5>2, <5>3, <5>4
      <4> QED
        BY <4>1, <4>2, <4>3 DEF Verdict
    <3>2. PICK score \in Int : job' = [job EXCEPT ![p].judges =
                Append(@, [name |-> Turn(p).name, score |-> score, weight |-> Turn(p).weight,
                           thread |-> job[p].thread])]
      BY <3>1 DEF Verdict
    <3>3. /\ JobShape(job'[p]) /\ JudgedSoFar(job'[p])
          /\ job'[p].dir = job[p].dir /\ job'[p].results = job[p].results
          /\ job'[p].before = job[p].before /\ job'[p].thread = job[p].thread
      BY <3>1, <3>2, NextAnswer
    <3>4. /\ pc'[p] = "judge" /\ job[p].dir \in Manifests /\ ParseTaskManifest(job[p].dir)
          /\ job[p].before \subseteq Indexed /\ OwnThread(p)
      BY <1>0, <3>1 DEF JobInv, EvalLabels
    <3>5. OwnThread(p)'
      BY <3>1, <3>3, <3>4 DEF OwnThread
    <3>6. /\ job'[p].results \in Seq(Nat)
          /\ \A i \in 1..Len(job'[p].results) : Listed(job[p].results[i], job[p].dir)'
          /\ \A i \in DOMAIN told'[p] : Listed(told[p][i], job[p].dir)'
      BY <3>1, <3>3, SaidStays
    <3> QED
      BY <1>2, <3>3, <3>4, <3>5, <3>6 DEF JobInv
  <2> QED
    BY <2>1, <2>2
<1>10. CASE Record(p)
  <2>1. PICK new : /\ pc[p] = "judge" /\ UNCHANGED told /\ runs' = Append(runs, new)
                   /\ new.task = was.dir.name /\ ~new.indexed
                   /\ job' = [job EXCEPT ![p].run = Len(runs')]
                   /\ pc' = [pc EXCEPT ![p] = "index"]
    BY <1>1, <1>10 DEF Record, Goto
  <2>2. job'[p] = [dir |-> was.dir, left |-> was.left, keep |-> was.keep, work |-> was.work,
                   thread |-> was.thread, judges |-> was.judges, run |-> Len(runs'),
                   results |-> was.results, failed |-> was.failed, before |-> was.before]
    BY <1>0, <1>1, <2>1 DEF JobShape, EvalTyped
  <2>3. /\ JobShape(job'[p]) /\ job'[p].dir = job[p].dir /\ job'[p].results = job[p].results
        /\ job'[p].run = Len(runs')
    BY <1>1, <2>2 DEF JobShape
  <2>4. Len(runs') = Len(runs) + 1 /\ runs'[Len(runs) + 1] = new
    <3>1. PICK S : S = {runs[i] : i \in 1..Len(runs)} \cup {new}
      OBVIOUS
    <3>2. runs \in [1..Len(runs) -> S]
      BY <1>0, <3>1 DEF EvalTyped
    <3>3. runs \in Seq(S) /\ new \in S
      BY <1>0, <3>1, <3>2
    <3> QED
      BY <2>1, <3>3
  <2>5. OwnRecord(p)'
    BY <1>0, <1>1, <2>1, <2>3, <2>4 DEF OwnRecord
  <2>6. pc'[p] = "index" /\ job[p].dir \in Manifests
    BY <1>0, <2>1 DEF EvalTyped, JobInv, EvalLabels
  <2>7. /\ job'[p].results \in Seq(Nat)
        /\ \A i \in 1..Len(job'[p].results) : Listed(job[p].results[i], job[p].dir)'
        /\ \A i \in DOMAIN told'[p] : Listed(told[p][i], job[p].dir)'
    BY <2>1, <2>3, SaidStays
  <2> QED
    BY <2>3, <2>5, <2>6, <2>7 DEF JobInv
<1>11. CASE Index(p)
  <2>1. PICK k : /\ k = was.run /\ pc[p] = "index" /\ UNCHANGED told
                 /\ job' = [job EXCEPT ![p].results = Append(@, k)]
                 /\ pc' = [pc EXCEPT ![p] = "finally"]
                 /\ runs' = [runs EXCEPT ![k].indexed = TRUE]
    BY <1>1, <1>11 DEF Index, Goto
  <2>2. job'[p] = [dir |-> was.dir, left |-> was.left, keep |-> was.keep, work |-> was.work,
                   thread |-> was.thread, judges |-> was.judges, run |-> was.run,
                   results |-> Append(was.results, k), failed |-> was.failed, before |-> was.before]
    BY <1>0, <1>1, <2>1 DEF JobShape, EvalTyped
  <2>3. /\ JobShape(job'[p]) /\ job'[p].dir = job[p].dir /\ job'[p].results = Append(was.results, k)
    BY <1>1, <2>2 DEF JobShape
  <2>4. /\ k \in 1..Len(runs) /\ runs[k].task = was.dir.name /\ job[p].dir \in Manifests
        /\ pc'[p] = "finally"
    BY <1>0, <1>1, <2>1 DEF EvalTyped, JobInv, OwnRecord, EvalLabels
  <2>5. Listed(k, was.dir)'
    <3>1. k \in 1..Len(runs') /\ runs'[k].task = was.dir.name
      BY <2>4 DEF Grows, SameRecord
    <3>2. PICK rec : rec = runs[k] /\ RecordShape(rec)
      BY <2>4 DEF EvalInv, Whole
    <3>3. PICK old : old = runs /\ DOMAIN old = 1..Len(runs)
      BY <1>0 DEF EvalTyped
    <3>4. runs' = [old EXCEPT ![k] = [old[k] EXCEPT !.indexed = TRUE]]
      BY <2>1, <3>3
    <3>5. runs'[k] = [rec EXCEPT !.indexed = TRUE]
      BY <2>4, <3>2, <3>3, <3>4
    <3>6. runs'[k].indexed
      BY <3>2, <3>5 DEF RecordShape
    <3> QED
      BY <3>1, <3>6 DEF Listed, Indexed
  <2>6. PICK l \in Nat : /\ l = Len(was.results) /\ was.results \in Seq(Nat)
                         /\ \A i \in 1..l : Listed(was.results[i], was.dir)
    BY <1>0, <1>1 DEF JobInv
  <2>7. /\ Append(was.results, k) \in Seq(Nat) /\ Len(Append(was.results, k)) = l + 1
        /\ \A i \in 1..l : Append(was.results, k)[i] = was.results[i]
        /\ Append(was.results, k)[l + 1] = k
    BY <2>4, <2>6
  <2>8. \A i \in 1..(l + 1) : Listed(Append(was.results, k)[i], was.dir)'
    <3>1. \A i \in 1..(l + 1) : i \in 1..l \/ i = l + 1
      OBVIOUS
    <3>2. \A r, m : Listed(r, m) => Listed(r, m)'
      BY ListedStays
    <3> QED
      BY <2>5, <2>6, <2>7, <3>1, <3>2
  <2>9. /\ job'[p].results \in Seq(Nat)
        /\ \A i \in 1..Len(job'[p].results) : Listed(job[p].results[i], job[p].dir)'
    BY <1>1, <2>3, <2>7, <2>8
  <2>10. \A i \in DOMAIN told'[p] : Listed(told[p][i], job[p].dir)'
    BY <2>1, <2>3, SaidStays
  <2> QED
    BY <2>3, <2>4, <2>9, <2>10 DEF JobInv
<1>12. CASE Finally(p)
  <2>1. /\ pc[p] = "finally" /\ job' = [job EXCEPT ![p].left = @ - 1] /\ UNCHANGED runs
        /\ \/ UNCHANGED told /\ pc' = [pc EXCEPT ![p] = "prepare"]
           \/ /\ pc' = [pc EXCEPT ![p] = "done"]
              /\ told' = [told EXCEPT ![p] = IF was.failed THEN @ ELSE was.results]
    BY <1>1, <1>12 DEF Finally, Goto
  <2>2. job'[p] = [dir |-> was.dir, left |-> was.left - 1, keep |-> was.keep, work |-> was.work,
                   thread |-> was.thread, judges |-> was.judges, run |-> was.run,
                   results |-> was.results, failed |-> was.failed, before |-> was.before]
    BY <1>0, <1>1, <2>1 DEF JobShape, EvalTyped
  <2>3. JobShape(job'[p]) /\ job'[p].dir = job[p].dir /\ job'[p].results = job[p].results
    BY <1>1, <2>2 DEF JobShape
  <2>4. pc'[p] \in {"prepare", "done"} /\ job[p].dir \in Manifests
    BY <1>0, <2>1 DEF EvalTyped, JobInv, EvalLabels
  <2>5. /\ job'[p].results \in Seq(Nat)
        /\ \A i \in 1..Len(job'[p].results) : Listed(job[p].results[i], job[p].dir)'
    BY <2>3, SaidStays
  <2>6. \A i \in DOMAIN told'[p] : Listed(told[p][i], job[p].dir)'
    <3>1. told'[p] = told[p] \/ told'[p] = job'[p].results
      BY <1>0, <1>1, <2>1, <2>3 DEF EvalTyped
    <3>2. CASE told'[p] = told[p]
      BY <2>3, <3>2, SaidStays
    <3>3. CASE told'[p] = job'[p].results
      <4>1. DOMAIN told'[p] = 1..Len(job'[p].results)
        BY <2>5, <3>3
      <4> QED
        BY <2>5, <3>3, <4>1
    <3> QED
      BY <3>1, <3>2, <3>3
  <2> QED
    BY <2>3, <2>4, <2>5, <2>6 DEF JobInv
<1>13. CASE Kill(p)
  BY <1>0, <1>3, <1>13 DEF Kill, Goto, EvalTyped
<1> QED
  BY <1>4, <1>5, <1>7, <1>8, <1>9, <1>10, <1>11, <1>12, <1>13 DEF EvalStep

LEMMA EvalBegins == EvalInit => EvalInv
<1> SUFFICES ASSUME EvalInit PROVE EvalInv
  OBVIOUS
<1>1. /\ pc = [p \in Proc |-> "idle"] /\ job = [p \in Proc |-> NoJob] /\ told = [p \in Proc |-> <<>>]
      /\ threads = <<>> /\ runs = <<>> /\ latest = [n \in Names |-> 0] /\ clock = 0
  BY DEF EvalInit
<1>2. \A S : <<>> \in Seq(S) /\ Len(<<>>) = 0 /\ 1..0 = {} /\ DOMAIN <<>> = {}
  OBVIOUS
<1>3. EvalTyped
  <2>1. /\ job = [p \in Proc |-> job[p]] /\ told = [p \in Proc |-> told[p]]
        /\ latest = [n \in Names |-> latest[n]] /\ pc \in [Proc -> EvalLabels]
    BY <1>1 DEF EvalLabels
  <2>2. runs \in Seq({runs[r] : r \in 1..Len(runs)}) /\ threads \in Seq(Nat) /\ clock \in Nat
    BY <1>1, <1>2
  <2> QED
    BY <2>1, <2>2 DEF EvalTyped
<1>4. ASSUME NEW p \in Proc PROVE JobInv(p)
  <2>1. pc[p] = "idle" /\ job[p] = NoJob /\ told[p] = <<>>
    BY <1>1
  <2>2. JobShape(job[p]) /\ job[p].results = <<>>
    BY <2>1 DEF JobShape, NoJob
  <2>3. job[p].results \in Seq(Nat) /\ \A i \in 1..Len(job[p].results) : Listed(job[p].results[i], job[p].dir)
    BY <1>2, <2>2
  <2>4. \A i \in DOMAIN told[p] : Listed(told[p][i], job[p].dir)
    BY <1>2, <2>1
  <2> QED
    BY <2>1, <2>2, <2>3, <2>4 DEF JobInv
<1>5. JobsApart
  BY <1>1 DEF JobsApart
<1>6. Len(runs) = 0 /\ Indexed = {}
  BY <1>1, <1>2 DEF Indexed
<1>7. \A n \in Names : LatestIs(n)
  BY <1>1, <1>6 DEF LatestIs
<1> QED
  BY <1>2, <1>3, <1>4, <1>5, <1>6, <1>7 DEF EvalInv

LEMMA EvalGoesOn == EvalInv /\ [EvalNext]_evalVars => EvalInv'
<1>1. ASSUME EvalInv, UNCHANGED evalVars PROVE EvalInv'
  <2>1. UNCHANGED <<pc, job, threads, runs, latest, clock, told>>
    BY <1>1 DEF evalVars
  <2>2. UNCHANGED Indexed
    BY <2>1 DEF Indexed
  <2>3. EvalTyped'
    BY <1>1, <2>1 DEF EvalInv, EvalTyped
  <2>4. JobsApart'
    BY <1>1, <2>1 DEF EvalInv, JobsApart
  <2>5. \A p \in Proc : JobInv(p)'
    <3>1. \A p \in Proc : UNCHANGED <<pc[p], job[p], told[p], OwnThread(p), OwnRecord(p)>>
      BY <2>1 DEF OwnThread, OwnRecord
    <3>2. \A r, m : UNCHANGED Listed(r, m)
      BY <2>1, <2>2 DEF Listed
    <3> QED
      BY <1>1, <2>1, <2>2, <3>1, <3>2 DEF EvalInv, JobInv
  <2>6. \A r \in 1..Len(runs) : UNCHANGED Whole(r)
    BY <2>1, <2>2 DEF Whole
  <2>7. \A n \in Names : UNCHANGED LatestIs(n)
    BY <2>1, <2>2 DEF LatestIs
  <2> QED
    BY <1>1, <2>1, <2>3, <2>4, <2>5, <2>6, <2>7 DEF EvalInv
<1>2. ASSUME EvalInv, NEW p \in Proc, EvalStep(p) PROVE EvalInv'
  <2>1. Grows(p) /\ EvalTyped'
    BY <1>2, Grown
  <2>2. JobsApart'
    BY <1>2, <2>1, ApartStays
  <2>3. \A q \in Proc : JobInv(q)'
    BY <1>2, <2>1, OwnStays, OthersStay
  <2>4. \A r \in 1..Len(runs') : Whole(r)'
    BY <1>2, <2>1, RecordsStay
  <2>5. \A n \in Names : LatestIs(n)'
    BY <1>2, <2>1, LatestStays
  <2> QED
    BY <2>1, <2>2, <2>3, <2>4, <2>5 DEF EvalInv
<1>3. EvalNext => \E p \in Proc : EvalStep(p)
  BY DEF EvalNext, EvalStep
<1> QED
  BY <1>1, <1>2, <1>3

LEMMA RecordsWhole == EvalInv => RecordsAreWhole
<1> SUFFICES ASSUME EvalInv PROVE RecordsAreWhole
  OBVIOUS
<1>1. ASSUME NEW r \in 1..Len(runs)
      PROVE  \E m \in Manifests :
                /\ ParseTaskManifest(m) /\ m.name = runs[r].task /\ Len(m.judges) = Len(runs[r].judges)
                /\ \A i \in DOMAIN m.judges :
                      /\ runs[r].judges[i].name = m.judges[i].name
                      /\ runs[r].judges[i].weight = m.judges[i].weight
                      /\ runs[r].judges[i].thread = runs[r].thread
  <2>1. PICK m \in Manifests :
           /\ ParseTaskManifest(m) /\ m.name = runs[r].task /\ Len(m.judges) = Len(runs[r].judges)
           /\ AnswersOf(m, Len(runs[r].judges), runs[r].judges, runs[r].thread)
    BY DEF EvalInv, Whole
  <2>2. DOMAIN m.judges = 1..Len(runs[r].judges)
    BY <2>1, EvalAssumption
  <2> QED
    BY <2>1, <2>2 DEF AnswersOf
<1>2. \A r \in 1..Len(runs) :
         /\ runs[r].overall = ComputeOverall(Silenced(runs[r].judges))
         /\ \A s \in 1..Len(runs) : (s # r) => runs[s].thread # runs[r].thread
  BY DEF EvalInv, Whole
<1>3. \A p \in Proc : \A i \in DOMAIN told[p] :
         told[p][i] \in Indexed /\ runs[told[p][i]].task = job[p].dir.name
  BY DEF EvalInv, JobInv, Listed
<1> QED
  BY <1>1, <1>2, <1>3 DEF RecordsAreWhole, Silenced

(* Whatever the tasks are, however many evaluations run at once and wherever *)
(* they fail or are killed: a record has the verdicts of all judges of its  *)
(* task, in order and on its own thread, informational judges do not move   *)
(* its score, and a command prints what it recorded.                        *)
THEOREM EvaluationsAreWhole == EvalSpec => []RecordsAreWhole
<1>1. EvalInit => EvalInv
  BY EvalBegins
<1>2. EvalInv /\ [EvalNext]_evalVars => EvalInv'
  BY EvalGoesOn
<1>3. EvalInv => RecordsAreWhole
  BY RecordsWhole
<1> QED
  BY <1>1, <1>2, <1>3, PTL DEF EvalSpec

-----------------------------------------------------------------------------
(* The list of the evaluations: each entry has a place, and each place one. *)
PlaceIn(S, r) == 1 + Cardinality({s \in S : Newer(s, r)})

LEMMA EntriesPlaced ==
    ASSUME NEW S \in SUBSET (1..Len(runs)), Len(runs) \in Nat,
           \A r \in 1..Len(runs) : runs[r].timestamp \in Nat
    PROVE  /\ Cardinality(S) \in Nat
           /\ \A r \in S : PlaceIn(S, r) \in 1..Cardinality(S)
           /\ \A q, r \in S : Newer(q, r) => PlaceIn(S, q) < PlaceIn(S, r)
           /\ \A k \in 1..Cardinality(S) : \E r \in S : PlaceIn(S, r) = k
<1> DEFINE Before(r) == {s \in S : Newer(s, r)}
           n == Cardinality(S)
           T == 1..n
           place == [r \in S |-> PlaceIn(S, r)]
<1>1. IsFiniteSet(S) /\ n \in Nat
  <2>1. IsFiniteSet(1..Len(runs))
    BY FS_Interval
  <2>2. IsFiniteSet(S)
    BY <2>1, FS_Subset
  <2> QED
    BY <2>2, FS_CardinalityType
<1>2. /\ \A q, r, s \in S : Newer(q, r) /\ Newer(r, s) => Newer(q, s)
      /\ \A r \in S : ~Newer(r, r)
      /\ \A q, r \in S : q # r => Newer(q, r) \/ Newer(r, q)
  <2>1. \A r \in S : r \in Int /\ runs[r].timestamp \in Int
    OBVIOUS
  <2> QED
    BY <2>1 DEF Newer
<1>3. ASSUME NEW r \in S
      PROVE  /\ IsFiniteSet(Before(r)) /\ Cardinality(Before(r)) \in Nat
             /\ Cardinality(Before(r)) < n /\ PlaceIn(S, r) = 1 + Cardinality(Before(r))
  <2>1. Before(r) \in SUBSET S /\ r \notin Before(r) /\ PlaceIn(S, r) = 1 + Cardinality(Before(r))
    BY <1>2 DEF PlaceIn
  <2> HIDE DEF Before
  <2>2. /\ IsFiniteSet(Before(r)) /\ Cardinality(Before(r)) <= n
        /\ Cardinality(Before(r)) = n => Before(r) = S
    BY <1>1, <2>1, FS_Subset
  <2>3. Cardinality(Before(r)) \in Nat
    BY <2>2, FS_CardinalityType
  <2> QED
    BY <1>1, <2>1, <2>2, <2>3
<1>4. \A r \in S : PlaceIn(S, r) \in T
  <2> HIDE DEF Before
  <2> SUFFICES ASSUME NEW r \in S PROVE PlaceIn(S, r) \in T
    OBVIOUS
  <2>1. PICK c \in Nat : c = Cardinality(Before(r)) /\ c < n /\ PlaceIn(S, r) = 1 + c
    BY <1>3
  <2> QED
    BY <1>1, <2>1
<1>5. ASSUME NEW q \in S, NEW r \in S, Newer(q, r) PROVE PlaceIn(S, q) < PlaceIn(S, r)
  <2>1. Before(q) \in SUBSET Before(r) /\ q \in Before(r) /\ q \notin Before(q)
    BY <1>2, <1>5
  <2> HIDE DEF Before
  <2>2. /\ Cardinality(Before(q)) <= Cardinality(Before(r))
        /\ Cardinality(Before(q)) = Cardinality(Before(r)) => Before(q) = Before(r)
    BY <1>3, <2>1, FS_Subset
  <2>3. PICK c \in Nat, d \in Nat : c = Cardinality(Before(q)) /\ d = Cardinality(Before(r))
    BY <1>3
  <2>4. c < d
    BY <2>1, <2>2, <2>3
  <2>5. PlaceIn(S, q) = 1 + c /\ PlaceIn(S, r) = 1 + d
    BY <1>3, <2>3
  <2> QED
    BY <2>4, <2>5
<1>6. \A q, r \in S : PlaceIn(S, q) = PlaceIn(S, r) => q = r
  <2> HIDE DEF Before, T
  <2> SUFFICES ASSUME NEW q \in S, NEW r \in S, PlaceIn(S, q) = PlaceIn(S, r), q # r PROVE FALSE
    OBVIOUS
  <2>1. Newer(q, r) \/ Newer(r, q)
    BY <1>2
  <2>2. PICK k \in Nat : k = PlaceIn(S, q) /\ k = PlaceIn(S, r)
    BY <1>4 DEF T
  <2>3. k < k
    BY <1>5, <2>1, <2>2
  <2> QED
    BY <2>3
<1>7. IsFiniteSet(T) /\ Cardinality(T) = n
  <2>1. PICK c \in Nat : c = n
    BY <1>1
  <2>2. IsFiniteSet(1..c) /\ Cardinality(1..c) = IF 1 > c THEN 0 ELSE c - 1 + 1
    BY FS_Interval
  <2>3. IsFiniteSet(1..c) /\ Cardinality(1..c) = c
    BY <2>2
  <2> QED
    BY <2>1, <2>3
<1>8. place \in Injection(S, T)
  <2>1. place \in [S -> T] /\ \A q, r \in S : place[q] = place[r] => q = r
    BY <1>4, <1>6
  <2> HIDE DEF place, T
  <2> QED
    BY <2>1 DEF Injection, IsInjective
<1>9. place \in Surjection(S, T)
  <2> HIDE DEF place, T
  <2> QED
    BY <1>1, <1>7, <1>8, FS_Injection
<1>10. ASSUME NEW k \in T PROVE \E r \in S : PlaceIn(S, r) = k
  <2>1. PICK r \in S : place[r] = k
    <3> HIDE DEF place, T
    <3> QED
      BY <1>9 DEF Surjection
  <2> QED
    BY <2>1
<1> QED
  BY <1>1, <1>4, <1>5, <1>10

\* Of the entries S the first k, by their places.
EntryAt(S, j) == CHOOSE r \in S : PlaceIn(S, r) = j
FirstOf(S, k) == [j \in 1..k |-> EntryAt(S, j)]

LEMMA SelectedAre ==
    ASSUME NEW entries, NEW tasks, NEW limit
    PROVE  \E S, k :
              /\ S = {r \in entries : runs[r].task \in tasks}
              /\ k = IF limit < Cardinality(S) THEN limit ELSE Cardinality(S)
              /\ SelectEntries(entries, tasks, limit) = FirstOf(S, k)
<1>1. PICK S : S = {r \in entries : runs[r].task \in tasks}
  OBVIOUS
<1>2. PICK k : k = IF limit < Cardinality(S) THEN limit ELSE Cardinality(S)
  OBVIOUS
<1>3. SelectEntries(entries, tasks, limit) = FirstOf(S, k)
  BY <1>1, <1>2 DEF SelectEntries, FirstOf, EntryAt, PlaceIn
<1> QED
  BY <1>1, <1>2, <1>3

LEMMA FirstOfIs ==
    ASSUME NEW S, NEW k \in Nat
    PROVE  /\ DOMAIN FirstOf(S, k) = 1..k /\ Len(FirstOf(S, k)) = k
           /\ \A j \in 1..k : FirstOf(S, k)[j] = EntryAt(S, j)
  BY DEF FirstOf

LEMMA ListCurrent == EvalInv => ListIsCurrent
<1> SUFFICES ASSUME EvalInv, NEW n \in Names, NEW limit \in 1..2
             PROVE  LET one == SelectEntries(ReadEvalEntries, {n}, limit)
                        all == SelectEntries(ReadEvalEntries, Names, limit)
                    IN  /\ one = (IF latest[n] = 0 THEN <<>> ELSE <<latest[n]>>)
                        /\ \A r \in Indexed : (runs[r].task = n /\ one # <<>>) => one[1] \notin runs[r].before
                        /\ (\E r \in Indexed : runs[r].task = n) => one # <<>>
                        /\ \A r \in ReadEvalEntries \ Range(all) :
                              Len(all) = limit
                              /\ \A i \in 1..Len(all) : runs[all[i]].timestamp >= runs[r].timestamp
  BY DEF ListIsCurrent
<1> DEFINE E == ReadEvalEntries
<1>1. limit \in Nat /\ limit # 0 /\ LatestIs(n)
  BY DEF EvalInv
<1>2. /\ \A m \in Names : latest[m] # 0 => latest[m] \in Indexed /\ runs[latest[m]].task = m
      /\ E = {latest[m] : m \in {x \in Names : latest[x] # 0}}
  BY DEF EvalInv, LatestIs, ReadEvalEntries
<1> HIDE DEF E
<1>3. E \in SUBSET (1..Len(runs)) /\ Len(runs) \in Nat /\ \A r \in E : runs[r].task \in Names
  BY <1>2 DEF Indexed, EvalInv, EvalTyped
<1>4. \A r \in 1..Len(runs) : runs[r].timestamp \in Nat
  BY DEF EvalInv, Whole
<1>5. PICK one, all : one = SelectEntries(E, {n}, limit) /\ all = SelectEntries(E, Names, limit)
  OBVIOUS
<1>6. one = IF latest[n] = 0 THEN <<>> ELSE <<latest[n]>>
  <2>1. PICK S, k : /\ S = {r \in E : runs[r].task \in {n}}
                    /\ k = IF limit < Cardinality(S) THEN limit ELSE Cardinality(S)
                    /\ one = FirstOf(S, k)
    BY <1>5, SelectedAre
  <2>2. CASE latest[n] = 0
    <3>1. S = {}
      BY <1>2, <2>1, <2>2
    <3>2. Cardinality(S) = 0
      BY <3>1, FS_EmptySet
    <3>3. k = 0
      BY <1>1, <2>1, <3>2
    <3>4. one = <<>>
      <4>1. one = FirstOf(S, 0)
        BY <2>1, <3>3
      <4>2. one = [j \in 1..0 |-> EntryAt(S, j)]
        BY <4>1 DEF FirstOf
      <4> QED
        BY <4>2
    <3> QED
      BY <2>2, <3>4
  <2>3. CASE latest[n] # 0
    <3>1. PICK l : l = latest[n] /\ S = {l}
      BY <1>2, <2>1, <2>3
    <3>2. Cardinality(S) = 1
      BY <3>1, FS_Singleton
    <3>3. k = 1
      BY <1>1, <2>1, <3>2
    <3>4. EntryAt(S, 1) = l
      <4>1. S \in SUBSET (1..Len(runs))
        BY <1>3, <2>1
      <4>2. 1 \in 1..Cardinality(S)
        BY <3>2
      <4>3. \E r \in S : PlaceIn(S, r) = 1
        BY <1>3, <1>4, <4>1, <4>2, EntriesPlaced
      <4> QED
        BY <3>1, <4>3 DEF EntryAt
    <3>5. one = <<l>>
      <4>0. one = FirstOf(S, 1)
        BY <2>1, <3>3
      <4>1. one = [j \in 1..1 |-> EntryAt(S, j)] /\ one[1] = l
        BY <3>4, <4>0 DEF FirstOf
      <4> QED
        BY <4>1
    <3> QED
      BY <2>3, <3>1, <3>5
  <2> QED
    BY <2>2, <2>3
<1>7. ASSUME NEW r \in Indexed, runs[r].task = n
      PROVE  one # <<>> /\ one[1] \notin runs[r].before
  <2>1. latest[n] # 0 /\ latest[n] \notin runs[r].before
    BY <1>1, <1>7 DEF LatestIs
  <2>2. one = <<latest[n]>>
    BY <1>6, <2>1
  <2> QED
    BY <2>1, <2>2
<1>8. ASSUME NEW r \in E \ Range(all)
      PROVE  Len(all) = limit /\ \A i \in 1..Len(all) : runs[all[i]].timestamp >= runs[r].timestamp
  <2>1. PICK S, k : /\ S = {x \in E : runs[x].task \in Names}
                    /\ k = IF limit < Cardinality(S) THEN limit ELSE Cardinality(S)
                    /\ all = FirstOf(S, k)
    BY <1>5, SelectedAre
  <2>2. S = E
    BY <1>3, <2>1
  <2>3. /\ Cardinality(S) \in Nat
        /\ \A x \in S : PlaceIn(S, x) \in 1..Cardinality(S)
        /\ \A x, y \in S : Newer(x, y) => PlaceIn(S, x) < PlaceIn(S, y)
        /\ \A j \in 1..Cardinality(S) : \E x \in S : PlaceIn(S, x) = j
    BY <1>3, <1>4, <2>2, EntriesPlaced
  <2>0. k \in Nat /\ k <= Cardinality(S) /\ (k < Cardinality(S) => k = limit)
    BY <1>1, <2>1, <2>3
  <2>14. /\ DOMAIN all = 1..k /\ Len(all) = k
         /\ \A j \in 1..k : all[j] = EntryAt(S, j)
    <3>1. /\ DOMAIN FirstOf(S, k) = 1..k /\ Len(FirstOf(S, k)) = k
          /\ \A j \in 1..k : FirstOf(S, k)[j] = EntryAt(S, j)
      BY <2>0, FirstOfIs
    <3> QED
      BY <2>1, <3>1
  <2>4. \A j \in 1..k : all[j] \in S /\ PlaceIn(S, all[j]) = j
    <3> SUFFICES ASSUME NEW j \in 1..k PROVE all[j] \in S /\ PlaceIn(S, all[j]) = j
      OBVIOUS
    <3>1. j \in 1..Cardinality(S)
      BY <2>0, <2>3
    <3>2. \E x \in S : PlaceIn(S, x) = j
      BY <2>3, <3>1
    <3>3. all[j] = EntryAt(S, j)
      BY <2>14
    <3> QED
      BY <3>2, <3>3 DEF EntryAt
  <2>5. \A x, y \in S : x # y => Newer(x, y) \/ Newer(y, x)
    <3>1. \A x \in S : x \in Int /\ runs[x].timestamp \in Int
      BY <1>3, <1>4, <2>2
    <3> QED
      BY <3>1 DEF Newer
  <2>6. \A j \in 1..k : all[j] # r
    BY <2>14 DEF Range
  <2>7. PICK c \in Nat : c = PlaceIn(S, r) /\ c \in 1..Cardinality(S) /\ r \in S
    BY <2>2, <2>3
  <2>8. ASSUME NEW x \in S, x # r, PlaceIn(S, x) = c PROVE FALSE
    <3>1. c < c
      BY <2>3, <2>5, <2>7, <2>8
    <3> QED
      BY <3>1
  <2>9. k < c
    <3>1. CASE c \in 1..k
      BY <2>4, <2>6, <2>8, <3>1
    <3>2. c \in 1..k \/ k < c
      BY <2>0, <2>7
    <3> QED
      BY <3>1, <3>2
  <2>10. k = limit
    BY <2>0, <2>3, <2>7, <2>9
  <2>11. ASSUME NEW i \in 1..k PROVE runs[all[i]].timestamp >= runs[r].timestamp
    <3>1. PICK x \in S : x = all[i] /\ PlaceIn(S, x) = i /\ x # r
      BY <2>4, <2>6
    <3>2. ~(c < i)
      BY <2>0, <2>7, <2>9
    <3>3. ~Newer(r, x)
      BY <2>3, <2>7, <3>1, <3>2
    <3>4. Newer(x, r)
      BY <2>5, <2>7, <3>1, <3>3
    <3>5. runs[x].timestamp \in Nat /\ runs[r].timestamp \in Nat
      BY <1>3, <1>4, <2>2, <2>7
    <3> QED
      BY <3>1, <3>4, <3>5 DEF Newer
  <2> QED
    BY <2>10, <2>11, <2>14
<1>9. /\ one = (IF latest[n] = 0 THEN <<>> ELSE <<latest[n]>>)
      /\ \A r \in Indexed : (runs[r].task = n /\ one # <<>>) => one[1] \notin runs[r].before
      /\ (\E r \in Indexed : runs[r].task = n) => one # <<>>
      /\ \A r \in E \ Range(all) :
            Len(all) = limit /\ \A i \in 1..Len(all) : runs[all[i]].timestamp >= runs[r].timestamp
  BY <1>6, <1>7, <1>8
<1> QED
  BY <1>5, <1>9 DEF E

(* However many evaluations of a task run at once, and wherever they are     *)
(* killed: the list shows the newest of the entries it is asked for, and an *)
(* entry is never out of date by a whole evaluation.                        *)
THEOREM EvaluationsAreListed == EvalSpec => []ListIsCurrent
<1>1. EvalInit => EvalInv
  BY EvalBegins
<1>2. EvalInv /\ [EvalNext]_evalVars => EvalInv'
  BY EvalGoesOn
<1>3. EvalInv => ListIsCurrent
  BY ListCurrent
<1> QED
  BY <1>1, <1>2, <1>3, PTL DEF EvalSpec
=============================================================================
