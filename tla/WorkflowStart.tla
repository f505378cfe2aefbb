--------------------------- MODULE WorkflowStart ---------------------------
(***************************************************************************)
(* From a workflow file to a running thread: a name is looked up           *)
(* (WorkflowLookup) in the directories that config.yaml lists among        *)
(* others (UwfConfig), the document found is checked (WorkflowGraph), and  *)
(* the thread walks its graph, one output of an agent after the other,     *)
(* each role's agent being the one the file routes it to.                  *)
(* The document is the content of every file of the layout that is sound;  *)
(* the others hold nothing that is accepted.  No step changes a file, and a *)
(* thread and the registry keep a workflow by its hash.                    *)
(***************************************************************************)
EXTENDS WorkflowGraph, WorkflowLookup, UwfConfig

CONSTANTS
    Cases,      \* bound: the situations to look at: [layout, doc, config, edits]
    Bundled,    \* the names of the workflows that come with the program
    Settings,   \* bound: what is set with `config set': [path, value]
    Setups,     \* bound: what `setup' finds and is told: [found, answer]
    Overrides   \* bound: the values of --agent, "" for none

ASSUME CasesAssumption ==
    \A case \in Cases :
        /\ case.layout \in Layouts
        /\ IsFiniteSet(DOMAIN case.doc.roles) /\ DOMAIN case.doc.roles \subseteq STRING
        /\ DOMAIN case.config.tree \subseteq Seq(STRING)

ASSUME CommandsAssumption ==
    /\ \A s \in Settings : s.path \in Seq(STRING)
    /\ \A s \in Setups : s.found \in Seq(STRING) /\ s.answer \in STRING

VARIABLES
    layout, doc,
    registry,  \* the names registered by `workflow add'
    thread,    \* [at, output, state, why]
    config,    \* the file
    edits      \* bound: commands left that change it

vars == <<layout, doc, registry, thread, config, edits>>

(* No role ran yet: the output is the one the engine makes up. *)
Opening(status) == [at |-> "$START",
                    output |-> [status |-> status, filled |-> {}, odd |-> FALSE],
                    state |-> "route", why |-> ""]
NoThread == [Opening("new") EXCEPT !.state = "none"]

Init ==
    /\ \E case \in Cases :
        /\ layout = case.layout /\ doc = case.doc
        /\ config = case.config /\ edits = case.edits
    /\ registry = {}
    /\ thread = NoThread

(* The layout as the lookup sees it: the directories in workflowPaths, in    *)
(* the order of the list.                                                   *)
Seen ==
    LET dirs == PathDirsOf(config) IN
    [layout EXCEPT !.paths =
        UNION {{[f EXCEPT !.dir = i] : i \in {j \in DOMAIN dirs : dirs[j] = f.dir}} : f \in @}]

(* cmdWorkflowAdd, cmdWorkflowValidate, materializeLocalWorkflow: the shape, *)
(* then the name, then the meaning.                                         *)
Accepted(d, name) == Parses(d) /\ d.name = name /\ Valid(d)

(* cmdWorkflowAdd of a file. *)
Add(f) ==
    /\ f.sound /\ Accepted(doc, f.name)
    /\ registry' = registry \cup {f.name}
    /\ UNCHANGED <<layout, doc, thread, config, edits>>

(* A file is checked again each time, the registry is not. *)
Loads(place, name) ==
    \/ place.origin = "global"
    \/ place.origin \in {"local", "paths"} /\ place.file.sound /\ Accepted(doc, name)

(* cmdThreadStart *)
Startable(name) == \E place \in StartedPlaces(Seen, registry, name) : Loads(place, name)

Start(name) ==
    /\ thread = NoThread
    /\ Startable(name)
    /\ thread' = Opening("new")
    /\ UNCHANGED <<layout, doc, registry, config, edits>>

(* The moderator, whose failure is met again by the next exec, and then the  *)
(* agent of the role; without one the thread stays where it is, too.        *)
Route(override) ==
    /\ thread.state = "route"
    /\ LET target == Evaluate(doc, thread.at, thread.output) IN
       \/ /\ target.why # ""
          /\ thread' = [thread EXCEPT !.state = "stuck", !.why = target.why]
       \/ /\ target.why = "" /\ target.role = "$END"
          /\ thread' = [thread EXCEPT !.state = "ended"]
       \/ /\ target.why = "" /\ target.role # "$END"
          /\ RouteWith(config, target.role, override) # {}
          /\ thread' = [thread EXCEPT !.state = "agent", !.at = target.role]
    /\ UNCHANGED <<layout, doc, registry, config, edits>>

(* The agent hands in what its schema allows.  A suspension, which any role  *)
(* may hand in, leaves the thread at its role and is left out here.         *)
Reply ==
    /\ thread.state = "agent"
    /\ \E output \in OutputsOf(doc.roles[thread.at]) :
        thread' = [thread EXCEPT !.state = "route", !.output = output]
    /\ UNCHANGED <<layout, doc, registry, config, edits>>

(* cmdThreadResume of a thread that has ended. *)
Reopen ==
    /\ thread.state = "ended"
    /\ thread' = Opening("resume")
    /\ UNCHANGED <<layout, doc, registry, config, edits>>

-----------------------------------------------------------------------------
Edit(file) ==
    /\ edits > 0
    /\ config' = file
    /\ edits' = edits - 1
    /\ UNCHANGED <<layout, doc, thread>>

Set(path, value) == Edit(ConfigSet(config, path, value)) /\ UNCHANGED registry

(* cmdSetup registers the workflows that come with the program, as far as    *)
(* they are accepted.                                                       *)
Setup(found, answer) ==
    /\ Edit(SetupFile(config, Selected(found, answer)))
    /\ registry' = registry \cup {name \in Bundled : Accepted(doc, name)}

(* Either command is killed after the file was opened for writing: what it   *)
(* held is gone.                                                            *)
CutShort == Edit(Blank) /\ UNCHANGED registry

Next ==
    \/ \E f \in layout.files \cup layout.paths : Add(f)
    \/ \E name \in WorkflowNames : Start(name)
    \/ \E override \in Overrides : Route(override)
    \/ Reply \/ Reopen
    \/ \E s \in Settings : Set(s.path, s.value)
    \/ \E s \in Setups : Setup(s.found, s.answer)
    \/ CutShort

Spec == Init /\ [][Next]_vars

-----------------------------------------------------------------------------
(* A workflow that was accepted has an answer for whatever its agents may    *)
(* hand in: a thread gets stuck only where the schema let an agent leave    *)
(* out $status, on a prompt of variables that all came out empty, or on a   *)
(* template that no check tried out with this value: a location, a prompt   *)
(* of $START, or a prompt whose rendering depends on the values.            *)
AcceptedRuns ==
    thread.state = "stuck" =>
        LET target == TargetOf(doc, <<thread.at, thread.output.status>>) IN
        \/ /\ thread.why = "no status"
           /\ \E v \in Elements(doc.roles[thread.at].variants) : ~v.required
        \/ thread.why = "empty prompt" /\ ~target.text
        \/ thread.why = "prompt" /\ (thread.at = "$START" \/ target.prompt = "mostly")
        \/ thread.why = "location"

(* Every role of an accepted workflow is reached from $START along edges:   *)
(* it is in every set that holds the first roles and is closed under edges. *)
RolesAreReached ==
    thread # NoThread =>
        \A reached \in SUBSET DOMAIN doc.roles :
            (\A e \in Edges(doc) :
                (e[1] \in {"$START"} \cup reached) =>
                    TargetOf(doc, e).role \in {"$END"} \cup reached)
            => reached = DOMAIN doc.roles

(* What `workflow show' and `thread start' make of one name: a local file    *)
(* shown is, but for its form, the one that runs, and so is one of          *)
(* workflowPaths unless a local file runs; a local file that runs and is    *)
(* not shown lies farther up than the nearest workflows.  The exception are *)
(* links, which `workflow show' never finds.                                *)
ShownIsStarted ==
    \A name \in WorkflowNames :
        \A shown \in ShownPlaces(Seen, registry, name),
           started \in StartedPlaces(Seen, registry, name) :
            /\ shown.origin = "local" =>
                /\ started.origin = "local"
                /\ \/ started.file.link
                   \/ /\ started.file.dir = shown.file.dir
                      /\ started.file.area = shown.file.area
            /\ shown.origin = "paths" =>
                \/ started.origin = "local"
                \/ /\ started.origin = "paths"
                   /\ started.file.link \/ started.file.dir = shown.file.dir
            /\ (started.origin = "local" /\ shown.origin # "local") =>
                \/ started.file.link
                \/ \E g \in Discovered(Seen) : g.dir < started.file.dir

Roles == DOMAIN doc.roles
Unmoved(role) == RouteOf(config', role) = RouteOf(config, role)

(* What a `config set' that was accepted may change of what is in force.    *)
SetAsAsked(path, value) ==
    /\ path # <<"concurrency", "maxRunning">> => LimitOf(config') = LimitOf(config)
    /\ path = <<"concurrency", "maxRunning">> => LimitOf(config') = Limits[value]
    /\ path # <<"workflowPaths">> => PathDirsOf(config') = PathDirsOf(config)
    /\ path = <<"workflowPaths">> => PathDirsOf(config') = ListedDirs[value]
    /\ \A role \in Roles :
        (Usable(config) /\ Usable(config')) =>
            \/ Unmoved(role)
            \/ path \in {Default, OverrideKey(role)}
            \/ path[1] = "agents" /\ path[2] = AliasOf(config.tree, role)
            \/ path[1] = "agents" /\ RouteOf(config, role) = {}

(* What a setup that was given a name keeps of a file that exec accepts.    *)
OwnAgentsKept ==
    /\ Usable(config')
    /\ \A role \in Roles :
        OverrideKey(role) \in DOMAIN config.tree => Unmoved(role) \/ RouteOf(config, role) = {}

(* A command that changes the file changes what it was asked to change: the  *)
(* limit, the directories and the agent of every role that a `config set'   *)
(* is not about stay in force, the limit and the directories it is about    *)
(* come into force when the file takes them; and a setup that was given a   *)
(* name keeps a file that exec accepts acceptable, with every role that has *)
(* an agent of its own on that agent.                                       *)
SettingsHold ==
    [][ config' # config =>
        /\ \A s \in Settings : Set(s.path, s.value) => SetAsAsked(s.path, s.value)
        /\ \A s \in Setups :
            (Setup(s.found, s.answer) /\ Selected(s.found, s.answer) # "" /\ Usable(config)) =>
                OwnAgentsKept
      ]_vars
=============================================================================
