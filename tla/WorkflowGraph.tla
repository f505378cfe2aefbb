--------------------------- MODULE WorkflowGraph ---------------------------
(***************************************************************************)
(* A workflow document and what the program asks of it: its shape          *)
(* (validate.ts), its meaning (validate-semantic.ts), and the next target  *)
(* after an output (moderator/evaluate.ts).                                *)
(*                                                                         *)
(* A document is                                                           *)
(*   [name, shape, roles, graph]                                           *)
(* with shape FALSE when some field has a wrong type, roles a function     *)
(* from role names to frontmatter schemas, and graph a function from nodes *)
(* to functions from statuses to targets                                   *)
(*   [role, uses, text, prompt, location]                                  *)
(* where uses are the variables of the prompt and text tells whether it    *)
(* has anything else; prompt and location tell whether those templates     *)
(* render, "always", "never", or "mostly": with the mock data, but not     *)
(* with every value (a filter may fail on one).  A location that is null   *)
(* always does.  A schema is                                               *)
(*   [form, variants]                                                      *)
(* with form "oneOf" or "flat" (one variant), and a variant is             *)
(*   [status, props, required]                                             *)
(* with the constant of its $status or NoConst, its other properties, and  *)
(* whether it requires a $status to be there.                              *)
(***************************************************************************)
EXTENDS Naturals, Sequences, FiniteSets

NoConst == "(no constant)"
Reserved == {"$START", "$END", "$SUSPEND"}

Renderings == {"always", "mostly", "never"}

Elements(s) == {s[i] : i \in 1..Len(s)}
Nodes(d) == DOMAIN d.graph
Edges(d) == UNION {{<<n, s>> : s \in DOMAIN d.graph[n]} : n \in Nodes(d)}
TargetOf(d, e) == d.graph[e[1]][e[2]]

(* parseWorkflowPayload: no field of a wrong type, no status `_', and no     *)
(* blank prompt.                                                           *)
Parses(d) ==
    /\ d.shape
    /\ \A e \in Edges(d) :
        /\ e[2] # "_"
        /\ TargetOf(d, e).text \/ TargetOf(d, e).uses # {}

-----------------------------------------------------------------------------
(* checkRoleReferences *)
ReferencesHold(d) ==
    /\ DOMAIN d.roles \cap Reserved = {}
    /\ Nodes(d) \ Reserved = DOMAIN d.roles

Targeted(d, node) ==
    IF node \in Nodes(d) THEN {d.graph[node][s].role : s \in DOMAIN d.graph[node]} \ {"$END"} ELSE {}

\* Mutant: the target of any edge counts as reached.
FoundAnywhere(d) == UNION {Targeted(d, node) : node \in Nodes(d)}

(* collectReachableRoles: the roles found within n rounds.  Only $END is    *)
(* not followed, so a name that is no role may be among them.               *)
Found(d) ==
    LET round[n \in Nat] == IF n = 0 THEN Targeted(d, "$START")
                            ELSE round[n - 1] \cup UNION {Targeted(d, r) : r \in round[n - 1]}
    IN  round[Cardinality(DOMAIN d.roles)]

(* checkGraphStructure, checkEdgeTargets and checkReachability *)
StructureHolds(d) ==
    /\ "$START" \in Nodes(d) /\ {"new", "resume"} \subseteq DOMAIN d.graph["$START"]
    /\ Nodes(d) \cap {"$END", "$SUSPEND"} = {}
    /\ \A e \in Edges(d) : TargetOf(d, e).role \in ({"$END"} \cup DOMAIN d.roles) \ {"$SUSPEND"}
    /\ DOMAIN d.roles \ Reserved \subseteq Found(d)

-----------------------------------------------------------------------------
(* generateMockData: what a prompt may use when it is tried out. *)
Offered(variant) == variant.props \cup {"$status", "_body"}

(* The variant whose status an edge has: the first of them. *)
VariantFor(schema, status) ==
    LET fitting == {i \in DOMAIN schema.variants : schema.variants[i].status = status}
    IN  schema.variants[CHOOSE i \in fitting : \A j \in fitting : i <= j]

Statuses(schema) == {v.status : v \in Elements(schema.variants)} \ {NoConst}

\* Mutant: a status of the schema without an edge is not reported.
StatusesMayLackEdges(d, r) ==
    /\ \A v \in Elements(d.roles[r].variants) : v.status # NoConst
    /\ DOMAIN d.graph[r] \subseteq Statuses(d.roles[r])

(* checkOneOfDiscriminant, or the demand for a constant of a flat schema,   *)
(* and checkStatusEdges.                                                    *)
StatusesMatch(d, r) ==
    /\ \A v \in Elements(d.roles[r].variants) : v.status # NoConst
    /\ DOMAIN d.graph[r] = Statuses(d.roles[r])

(* validateMultiExitTemplates and validateFlatTemplates: the prompts of the  *)
(* edges of a role are tried out.  No location is, and no prompt of $START. *)
PromptsResolve(d, r) ==
    \A s \in DOMAIN d.graph[r] \cap Statuses(d.roles[r]) :
        /\ d.graph[r][s].uses \subseteq Offered(VariantFor(d.roles[r], s))
        /\ d.graph[r][s].prompt # "never"

(* checkRoleConsistency: _body belongs to the engine, and the edges of a    *)
(* role are those its schema allows.                                        *)
RolesHold(d) ==
    \A r \in (DOMAIN d.roles \cap Nodes(d)) \ Reserved :
        /\ \A v \in Elements(d.roles[r].variants) : "_body" \notin v.props
        /\ StatusesMatch(d, r)
        /\ PromptsResolve(d, r)

(* validateWorkflow finds no error. *)
Valid(d) == ReferencesHold(d) /\ StructureHolds(d) /\ RolesHold(d)

-----------------------------------------------------------------------------
(* evaluate: the role to run next, or why there is none.  An output is      *)
(*   [status, filled, odd]                                                  *)
(* with the variables that have a value, others rendering as nothing, and  *)
(* whether a value, or the lack of one, makes a template fail.              *)
Fails(rendering, output) == rendering = "never" \/ (rendering = "mostly" /\ output.odd)

Evaluate(d, node, output) ==
    LET ok(role) == [role |-> role, why |-> ""]
        no(why) == [role |-> "", why |-> why]
    IN  IF output.status = NoConst THEN no("no status")
        ELSE IF node \notin Nodes(d) THEN no("no transitions")
        ELSE IF output.status \notin DOMAIN d.graph[node] THEN no("no transition")
        ELSE LET target == d.graph[node][output.status] IN
             IF Fails(target.prompt, output) THEN no("prompt")
             ELSE IF ~target.text /\ target.uses \cap output.filled = {} THEN no("empty prompt")
             ELSE IF Fails(target.location, output) THEN no("location")
             ELSE ok(target.role)

(* What an agent may hand in for a role: an object of some variant of its   *)
(* schema.  The properties may be missing or empty, and so may $status      *)
(* where the schema does not require it.  _body is the text below.          *)
OutputsOf(schema) ==
    UNION {[status : {v.status} \cup (IF v.required THEN {} ELSE {NoConst}),
            filled : SUBSET (v.props \cup {"_body"}), odd : BOOLEAN] :
            v \in Elements(schema.variants)}
=============================================================================
