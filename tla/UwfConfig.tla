------------------------------ MODULE UwfConfig ------------------------------
(***************************************************************************)
(* config.yaml of the home directory: what `uwf config set' and `uwf       *)
(* setup' write (packages/cli/src/commands/config.ts and setup.ts) and     *)
(* what the commands that run threads make of it.                          *)
(*                                                                         *)
(* The file is [kind, tree]: "absent", "broken" (not YAML) or "tree", a    *)
(* function from the dotted paths that have a scalar (or list) to it.  A   *)
(* blank file is the empty tree; an inner node of the tree is a path that  *)
(* some path of the domain goes on from.  Values are strings; what a       *)
(* string means as a number or as a list is told by constants.             *)
(***************************************************************************)
EXTENDS Naturals, SequencesExt

CONSTANTS
    ListedDirs,  \* list values: string -> sequence of directories
    Limits,      \* numeric values: string -> number
    WorkflowName \* the name under agentOverrides

ASSUME ConfigAssumption ==
    /\ \A v \in DOMAIN ListedDirs : ListedDirs[v] \in Seq(Nat)
    /\ WorkflowName \in STRING

DefaultMaxRunning == 2
DefaultHost == "http://127.0.0.1:7900"

NoTree == [p \in {} |-> ""]
Missing == [kind |-> "absent", tree |-> NoTree]
Blank == [kind |-> "tree", tree |-> NoTree]
File(tree) == [kind |-> "tree", tree |-> tree]

Default == <<"defaultAgent">>
AgentKey(alias, field) == <<"agents", alias, field>>
OverrideKey(role) == <<"agentOverrides", WorkflowName, role>>

-----------------------------------------------------------------------------
(* validateConfigKey: the depth of every key, the fields of two of them. *)
ValidKey(path) ==
    \/ path \in {Default, <<"workflowPaths">>}
    \/ Len(path) >= 3 /\ path[1] = "agents" /\ Last(path) \in {"host", "gateway"}
    \/ Len(path) >= 3 /\ path[1] = "agentOverrides"
    \/ Len(path) >= 2 /\ path[1] = "concurrency" /\ (Len(path) > 2 => Last(path) = "maxRunning")

ValidValue(path, value) ==
    /\ path[1] = "workflowPaths" => value \in DOMAIN ListedDirs
    /\ Last(path) = "maxRunning" => value \in DOMAIN Limits /\ Limits[value] > 0

(* validateParentPath and setNestedValue: no way leads through a scalar, and *)
(* what was below the path is lost.                                         *)
Reaches(tree, path) == \A p \in DOMAIN tree : ~IsStrictPrefix(p, path)

SetNested(tree, path, value) ==
    [p \in {q \in DOMAIN tree : ~IsPrefix(path, q)} \cup {path} |->
        IF p = path THEN value ELSE tree[p]]

(* cmdConfigSet: the file, or what a refusal leaves. *)
ConfigSet(file, path, value) ==
    IF file.kind # "broken" /\ ValidKey(path) /\ ValidValue(path, value) /\ Reaches(file.tree, path)
    THEN File(SetNested(file.tree, path, value))
    ELSE file

-----------------------------------------------------------------------------
(* normalizeAgents *)
Aliases(tree) == {p[2] : p \in {q \in DOMAIN tree : Len(q) > 1 /\ q[1] = "agents"}}

Complete(tree, alias) ==
    /\ \A field \in {"command", "args"} : ~\E p \in DOMAIN tree : IsPrefix(AgentKey(alias, field), p)
    /\ \A field \in {"host", "gateway"} :
        AgentKey(alias, field) \in DOMAIN tree /\ tree[AgentKey(alias, field)] # ""

(* normalizeWorkflowConfig: one incomplete agent spoils it for every role. *)
Usable(file) ==
    /\ file.kind = "tree"
    /\ Default \in DOMAIN file.tree
    /\ file.tree[Default] \in Aliases(file.tree)
    /\ \A alias \in Aliases(file.tree) : Complete(file.tree, alias)

AliasOf(tree, role) ==
    IF OverrideKey(role) \in DOMAIN tree THEN tree[OverrideKey(role)] ELSE tree[Default]

(* resolveAgentRoute without --agent: the agent of a role, or nothing. *)
RouteOf(file, role) ==
    LET alias == AliasOf(file.tree, role) IN
    IF Usable(file) /\ alias \in Aliases(file.tree)
    THEN {[host |-> file.tree[AgentKey(alias, "host")],
           gateway |-> file.tree[AgentKey(alias, "gateway")]]}
    ELSE {}

(* With --agent: an alias of the file, or a host and a gateway. *)
RouteWith(file, role, override) ==
    IF override = "" THEN RouteOf(file, role)
    ELSE IF ~Usable(file) THEN {}
    ELSE IF override \in Aliases(file.tree)
    THEN {[host |-> file.tree[AgentKey(override, "host")],
           gateway |-> file.tree[AgentKey(override, "gateway")]]}
    ELSE IF override = "inline" THEN {[host |-> "h", gateway |-> "g"]}
    ELSE {}

(* loadWorkflowPaths: whatever is wrong with the file, no directory. *)
PathDirsOf(file) ==
    LET key == <<"workflowPaths">> IN
    IF key \in DOMAIN file.tree /\ file.tree[key] \in DOMAIN ListedDirs
    THEN ListedDirs[file.tree[key]] ELSE <<>>

(* resolveMaxRunning: whatever is wrong with it, the default. *)
LimitOf(file) ==
    LET key == <<"concurrency", "maxRunning">> IN
    IF key \in DOMAIN file.tree /\ file.tree[key] \in DOMAIN Limits /\ Limits[file.tree[key]] > 0
    THEN Limits[file.tree[key]] ELSE DefaultMaxRunning

-----------------------------------------------------------------------------
\* Mutant: the chosen agent is seeded anew although it is known.
MergeSeeding(tree, name) ==
    LET kept == {p \in DOMAIN tree : (p[1] = "agents" /\ Len(p) > 1) \/ p[1] = "agentOverrides"}
        seeded == {AgentKey(name, "host"), AgentKey(name, "gateway")}
    IN  [p \in kept \cup seeded \cup {Default} |->
            CASE p = AgentKey(name, "host") -> DefaultHost
              [] p = Default \/ p = AgentKey(name, "gateway") -> name
              [] OTHER -> tree[p]]

(* mergeConfig: the agents and the overrides are kept, the chosen agent is   *)
(* seeded if it is new, and nothing else gets into the new file.            *)
Merge(tree, name) ==
    LET host == AgentKey(name, "host")
        gateway == AgentKey(name, "gateway")
        kept == {p \in DOMAIN tree : (p[1] = "agents" /\ Len(p) > 1) \/ p[1] = "agentOverrides"}
        seeded == IF name \in Aliases(tree) THEN {} ELSE {host, gateway}
    IN  [p \in kept \cup seeded \cup {Default} |->
            CASE p \in kept -> tree[p]
              [] p \in seeded /\ p = host -> DefaultHost
              [] p \in seeded /\ p = gateway -> name
              [] p = Default -> name]

(* _promptAgentSelection: from the agents found in PATH and the answer,      *)
(* which is the number of one of them, a name, or nothing.                  *)
Selected(found, answer) ==
    CASE found = <<>> -> IF answer = "" THEN "builtin" ELSE answer
      [] Len(found) = 1 -> found[1]
      [] Len(found) > 1 /\ \E i \in DOMAIN found : answer = ToString(i) ->
            found[CHOOSE i \in DOMAIN found : answer = ToString(i)]
      [] OTHER -> answer

(* cmdSetup: what cannot be read counts as nothing. *)
SetupFile(file, name) == File(Merge(file.tree, name))

=============================================================================
