-------------------------- MODULE MCWorkflowStart --------------------------
EXTENDS WorkflowStart, TLC

Plain(status) == [status |-> status, props |-> {}, required |-> TRUE]
WithX == [Plain("ok") EXCEPT !.props = {"x"}]
Flat(variant) == [form |-> "flat", variants |-> <<variant>>]
Schemas ==
    {Flat(v) : v \in {Plain("ok"), WithX, [WithX EXCEPT !.required = FALSE], Plain(NoConst),
                      [Plain("ok") EXCEPT !.props = {"_body"}]}}
    \cup {[form |-> "oneOf", variants |-> <<WithX, Plain(s)>>] : s \in {"ok", "fail", NoConst}}

Target(r, uses, text) ==
    [role |-> r, uses |-> uses, text |-> text, prompt |-> "always", location |-> "always"]
Bare(roles) == {Target(r, {}, TRUE) : r \in roles}
Targets(roles) == {Target(r, u, t) : r \in roles, u \in {{}, {"x"}}, t \in BOOLEAN}

Document(schema, start, first, second) ==
    [name |-> "a", shape |-> TRUE,
     roles |-> "r1" :> schema @@ "r2" :> Flat(Plain("ok")),
     graph |-> "$START" :> start @@ "r1" :> first @@ "r2" :> [ok |-> second]]

(* Graphs of two roles: the first has any schema, the second one exit. *)
Documents ==
    {Document(schema, start, first, second) :
        schema \in Schemas,
        start \in [{"new", "resume"} -> Bare({"r1", "r2", "$END"})] \cup [{"new"} -> Bare({"r1"})],
        first \in [{"ok"} -> Targets({"r1", "r2", "$END", "$SUSPEND"})]
                  \cup {[ok |-> o, fail |-> f] :
                            o \in Targets({"r2", "$END"}),
                            f \in Bare({"r1", "$END", "nobody"}) \cup {Target("r2", {"x"}, TRUE)}},
        second \in Bare({"r1", "r2", "$END"})}

Good == Document(Flat(Plain("ok")), [x \in {"new", "resume"} |-> Target("r1", {}, TRUE)],
                 [ok |-> Target("r2", {}, TRUE)], Target("$END", {}, TRUE))

(* ... and what its templates may do: those of $START, and the prompt and   *)
(* the location of the first role's edge.                                   *)
Renders(t, p, l) == [t EXCEPT !.prompt = p, !.location = l]
Templates ==
    {Document(Flat(WithX),
              [x \in {"new", "resume"} |-> Renders(Target("r1", {}, TRUE), p[1], l[1])],
              [ok |-> Renders(Target("r2", {"x"}, TRUE), p[2], l[2])],
              Target("$END", {}, TRUE)) :
        p \in [1..2 -> Renderings], l \in [1..2 -> Renderings]}

Usual == [link |-> FALSE, sound |-> TRUE]
Kinds == [link : BOOLEAN, sound : BOOLEAN]
Spots == [dir : 1..Depth, area : Areas, name : WorkflowNames, form : Forms]
PathSpots == [dir : 1..PathDirs, name : WorkflowNames, form : {"yaml"}]

Alone == [files |-> {[dir |-> 1, area |-> "primary", name |-> "a", form |-> "yaml"] @@ Usual},
          repos |-> {}, paths |-> {}]
UpToTwo(S) == {{}} \cup {{x, y} : x, y \in S}
UpToOne(S) == {{}} \cup {{x} : x \in S}
FewFiles ==
    {[files |-> {s @@ Usual : s \in f}, repos |-> r, paths |-> {s @@ Usual : s \in p}] :
        f \in UpToTwo({s \in Spots : s.form # "yml"}), r \in UpToOne(1..Depth), p \in UpToOne(PathSpots)}

(* ... with one file of the name that is a link or not sound beside another. *)
OddFiles ==
    {[files |-> {x @@ k, y @@ Usual}, repos |-> {}, paths |-> {s @@ Usual : s \in p}] :
        x \in {s \in Spots : s.name = "a"}, y \in {s \in Spots : s.name = "a"},
        k \in Kinds \ {Usual}, p \in {{}, {s \in PathSpots : s.dir = 1 /\ s.name = "a"}}}

Tree(hermes, more) ==
    File(hermes @@ more @@ <<"agents", "builtin", "host">> :> "h1"
         @@ <<"agents", "builtin", "gateway">> :> "builtin" @@ Default :> "builtin")
Paths(dirs) == <<"workflowPaths">> :> dirs
Hermes == AgentKey("hermes", "host") :> "h1" @@ AgentKey("hermes", "gateway") :> "hermes"
Owned == OverrideKey("r1") :> "hermes"
Ready == Tree(NoTree, Paths("[1,2]"))

Files ==
    {Missing, [Missing EXCEPT !.kind = "broken"], Ready,
     Tree(Hermes, Owned @@ Paths("[2,1]") @@ <<"concurrency", "maxRunning">> :> "1"),
     Tree(AgentKey("hermes", "command") :> "uwf-hermes", Owned),
     Tree(AgentKey("hermes", "host") :> "h1", <<"workflowPaths">> :> "1")}

MCSettings ==
    {[path |-> p, value |-> v] :
        p \in {AgentKey("hermes", "host"), AgentKey("hermes", "gateway"), OverrideKey("r1"), Default},
        v \in {"hermes", "h2"}}
    \cup {[path |-> <<"workflowPaths">>, value |-> v] : v \in {"[1,2]", "[2,1]", "1"}}
    \cup {[path |-> <<"concurrency", "maxRunning">>, value |-> v] : v \in {"0", "1", "many"}}
    \cup {[path |-> p, value |-> "h2"] :
            p \in {<<"providers">>, <<"agents", "hermes">>, AgentKey("hermes", "model"),
                   Append(AgentKey("hermes", "host"), "host"), Append(OverrideKey("r1"), "x"),
                   Append(Default, "x"), <<"agents", "hermes", "b", "host">>}}
MCSetups ==
    [found : {<<>>, <<"builtin", "hermes">>}, answer : {"", "2"}]
    \cup {[found |-> <<"hermes">>, answer |-> ""]}

MCListedDirs == "[1,2]" :> <<1, 2>> @@ "[2,1]" :> <<2, 1>>
MCLimits == "0" :> 0 @@ "1" :> 1

TwoPaths == [Alone EXCEPT !.files = {},
                !.paths = {s @@ Usual : s \in [dir : {1, 2}, name : {"a"}, form : Forms]}]
LinkInPaths ==
    [Alone EXCEPT !.files = {},
        !.paths = {[dir |-> 1, name |-> "a", form |-> "yaml"] @@ [Usual EXCEPT !.link = TRUE],
                   [dir |-> 2, name |-> "a", form |-> "yaml"] @@ Usual}]

Situation(l, d, c, n) == [layout |-> l, doc |-> d, config |-> c, edits |-> n]

(* Many documents in one file, one document in many layouts, and many files  *)
(* of settings.                                                             *)
MCCases ==
    {Situation(Alone, d, Ready, 0) :
        d \in Documents \cup {[Good EXCEPT !.name = "b"], [Good EXCEPT !.shape = FALSE],
                              [Good EXCEPT !.roles = @ @@ "$SUSPEND" :> Flat(WithX)]}
             \cup Templates}
    \cup {Situation(l, Good, Ready, 0) :
            l \in FewFiles \cup {o \in OddFiles : Cardinality(o.files) = 2} \cup {LinkInPaths}}
    \cup {Situation(TwoPaths, Good, file, IF file = Missing THEN 3 ELSE 2) : file \in Files}
=============================================================================
