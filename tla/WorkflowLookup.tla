--------------------------- MODULE WorkflowLookup ---------------------------
(***************************************************************************)
(* Where a workflow name leads: the files below the working directory and  *)
(* its parents, the directories of workflowPaths, and the registry.        *)
(* `workflow list' and `workflow show' collect what there is (store.ts,    *)
(* commands/workflow.ts), `thread start' looks for one name                *)
(* (commands/thread.ts).                                                   *)
(*                                                                         *)
(* A layout is                                                             *)
(*   [files, repos, paths]                                                 *)
(* with files in directories 1..Depth, 1 the working directory and Depth   *)
(* the root, each [dir, area, name, form, link, sound]; the directories    *)
(* with a .git; and the files of the workflowPaths, each [dir, name, form, *)
(* link, sound].  <name>/index.yaml or .yml is the form "index".  A link   *)
(* is no regular file, or no folder, of its directory, like a symbolic     *)
(* link to one: a scan of the directory leaves it out, but a look for its  *)
(* name finds it.  A file that is not sound holds no acceptable workflow.  *)
(***************************************************************************)
EXTENDS Naturals, FiniteSets

CONSTANTS
    WorkflowNames,  \* the names in question
    Depth,          \* bound: directories from the working directory to the root
    PathDirs        \* bound: directories in workflowPaths

ASSUME DepthAssumption == Depth \in Nat

Areas == {"primary", "legacy"}   \* .workflows/ and .workflow/
Forms == {"yaml", "yml", "index"}
Layouts == [files : SUBSET [dir : 1..Depth, area : Areas, name : WorkflowNames, form : Forms,
                            link : BOOLEAN, sound : BOOLEAN],
            repos : SUBSET (1..Depth),
            paths : SUBSET [dir : 1..PathDirs, name : WorkflowNames, form : Forms,
                            link : BOOLEAN, sound : BOOLEAN]]

Nowhere == [origin |-> "nowhere"]
Local(f) == [origin |-> "local", file |-> f]
InPaths(f) == [origin |-> "paths", file |-> f]
Registered == [origin |-> "global"]

Named(files, name) == {f \in files : f.name = name}
Nearest(files) == {f \in files : \A g \in files : f.dir <= g.dir}

-----------------------------------------------------------------------------
(* scanWorkflowDir: what it sees of the files. *)
Scanned(files) == {f \in files : ~f.link}

(* scanWorkflowDir twice and mergeWorkflowEntries: a name in .workflows      *)
(* hides the same name in .workflow.                                        *)
MergedEntries(layout, dir) ==
    LET here == {f \in Scanned(layout.files) : f.dir = dir}
    IN  {f \in here : f.area = "legacy" => \A g \in Named(here, f.name) : g.area = "legacy"}

(* The way up ends at the first .git and at the root. *)
WithinReach(layout, dir) == \A d \in 1..(dir - 1) : d \notin layout.repos

(* discoverProjectWorkflows: all of the nearest directory that has any. *)
Discovered(layout) ==
    LET stocked == {d \in 1..Depth : \E f \in Scanned(layout.files) : f.dir = d}
        found == {d \in stocked : WithinReach(layout, d) /\ \A e \in stocked : d <= e}
    IN  UNION {MergedEntries(layout, d) : d \in found}

(* discoverWorkflowPathsEntries: a directory hides the names of later ones. *)
DiscoveredPaths(layout) ==
    LET scanned == Scanned(layout.paths)
    IN  {f \in scanned : \A g \in Named(scanned, f.name) : f.dir <= g.dir}

(* cmdWorkflowList: the origin of every name. *)
ListedOrigin(layout, registry, name) ==
    IF Named(Discovered(layout), name) # {} THEN "local"
    ELSE IF Named(DiscoveredPaths(layout), name) # {} THEN "paths"
    ELSE IF name \in registry THEN "global"
    ELSE "nowhere"

(* resolveWorkflowCasRefForShow: the first entry of the name, where entries  *)
(* come in the order in which the directory is read.                        *)
ShownPlaces(layout, registry, name) ==
    IF Named(Discovered(layout), name) # {}
    THEN {Local(f) : f \in Named(Discovered(layout), name)}
    ELSE IF Named(DiscoveredPaths(layout), name) # {}
    THEN {InPaths(f) : f \in Named(DiscoveredPaths(layout), name)}
    ELSE {IF name \in registry THEN Registered ELSE Nowhere}

-----------------------------------------------------------------------------
Flatter(f, g) == f.form # g.form /\ (f.form = "yaml" \/ g.form = "index")
Flattest(files) == {f \in files : \A g \in files : ~Flatter(g, f)}

\* Mutant: the legacy directory is looked into first.
FoundLegacyFirst(layout, dir, name) ==
    LET here == {f \in Named(layout.files, name) : f.dir = dir}
        legacy == {f \in here : f.area = "legacy"}
    IN  Flattest(IF legacy # {} THEN legacy ELSE here)

(* findWorkflowInDir: .workflows before .workflow, in each a file before a   *)
(* folder.                                                                  *)
FoundInDir(layout, dir, name) ==
    LET here == {f \in Named(layout.files, name) : f.dir = dir}
        primary == {f \in here : f.area = "primary"}
    IN  Flattest(IF primary # {} THEN primary ELSE here)

(* findWorkflowInParents: the nearest directory that has the name. *)
FoundInParents(layout, name) ==
    LET reach == {d \in 1..Depth : WithinReach(layout, d)}
        all == UNION {FoundInDir(layout, d, name) : d \in reach}
    IN  Nearest(all)

(* findWorkflowInPaths *)
FoundInPaths(layout, name) == Flattest(Nearest(Named(layout.paths, name)))

(* resolveWorkflowCasRef: what `thread start' runs. *)
StartedPlaces(layout, registry, name) ==
    IF FoundInParents(layout, name) # {} THEN {Local(f) : f \in FoundInParents(layout, name)}
    ELSE IF FoundInPaths(layout, name) # {} THEN {InPaths(f) : f \in FoundInPaths(layout, name)}
    ELSE {IF name \in registry THEN Registered ELSE Nowhere}
=============================================================================
