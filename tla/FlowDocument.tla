---------------------------- MODULE FlowDocument ----------------------------
(***************************************************************************)
(* The graph drawn in the dashboard's editor, what the editor asks of it   *)
(* before it is saved (trans/validate.ts), and its way to a workflow file  *)
(* and back (trans/trans-out.ts, server/workflow.ts, trans/trans-in.ts).   *)
(*                                                                         *)
(* A drawing is [names, edges]: the names of its role nodes by node id,    *)
(* and the sequence of its edges                                           *)
(*   [from, to, n, kind, status]                                           *)
(* between node ids, "start" and "end", where n tells parallel edges       *)
(* apart.  A file is [first, graph]: the role its list of roles begins     *)
(* with, and the target of every role and status.  The texts of a role and *)
(* the places of its node carry no control and are left out.               *)
(***************************************************************************)
EXTENDS Naturals, Sequences, FiniteSets, SequencesExt

CONSTANTS NodeIds,    \* bound: the ids a session hands out, in order
          Indices     \* the names that are whole numbers, in increasing order

ASSUME NodeIdsAssumption ==
    /\ NodeIds \in Seq(STRING)
    /\ \A i, j \in DOMAIN NodeIds : NodeIds[i] \notin {"start", "end"} /\ (NodeIds[i] = NodeIds[j] => i = j)

ASSUME IndicesAssumption == Indices \in Seq(STRING)

NoRole == "(no role)"

Plain(from, to, n) == [from |-> from, to |-> to, n |-> n, kind |-> "plain", status |-> "_"]
Labelled(e, status) == [e EXCEPT !.kind = "status", !.status = status]

\* The edges out of a node and into it, by their places.
From(d, node) == {i \in DOMAIN d.edges : d.edges[i].from = node}
Into(d, node) == {i \in DOMAIN d.edges : d.edges[i].to = node}

\* Of a sequence what is at the places I, in its order.
Picked(s, I) == [k \in 1..Cardinality(I) |->
                   s[CHOOSE i \in I : Cardinality({j \in I : j <= i}) = k]]

-----------------------------------------------------------------------------
(* bfs, run once along the edges and once against them: what is in every   *)
(* set that holds the node and is closed under the arcs.  It does not ask  *)
(* whether the ids it walks through still belong to a node.                *)
Reached(arcs, node) ==
    LET ids == {node} \cup {a[2] : a \in arcs}
        Around(S) == node \in S /\ \A a \in arcs : a[1] \in S => a[2] \in S
    IN  {x \in ids : \A S \in SUBSET ids : Around(S) => x \in S}

FromStart(d) == Reached({<<e.from, e.to>> : e \in ToSet(d.edges)}, "start")
ToEnd(d) == Reached({<<e.to, e.from>> : e \in ToSet(d.edges)}, "end")

(* validate *)
Valid(d) ==
    /\ Cardinality(From(d, "start")) = 1
    /\ Into(d, "end") # {} /\ From(d, "end") = {}
    /\ \A r \in DOMAIN d.names :
        /\ Into(d, r) # {} /\ From(d, r) # {}
        /\ Cardinality(From(d, r)) > 1 =>
              \A i \in From(d, r) : d.edges[i].kind = "status" /\ d.edges[i].status # ""
        /\ r \in FromStart(d) /\ r \in ToEnd(d)
    /\ Cardinality(DOMAIN d.names) >= 2

-----------------------------------------------------------------------------
(* traverse: the roles in the order of a depth-first walk from the target  *)
(* of start, each node once; an id without a role node ends its branch.    *)
SetOut(d) ==
    LET first == From(d, "start")
    IN  [todo |-> IF first = {} THEN <<>> ELSE <<d.edges[Min(first)].to>>, done |-> <<>>]

Visit(d, w) ==
    LET node == Head(w.todo)
        out == Picked(d.edges, From(d, node))
    IN  IF w.todo = <<>> THEN w
        ELSE IF node \in DOMAIN d.names \ ToSet(w.done)
        THEN [todo |-> [i \in DOMAIN out |-> out[i].to] \o Tail(w.todo),
              done |-> Append(w.done, node)]
        ELSE [w EXCEPT !.todo = Tail(@)]

Steps(d) ==
    LET walk[k \in Nat] == IF k = 0 THEN SetOut(d) ELSE Visit(d, walk[k - 1])
    IN  walk[Len(d.edges) + 1].done

(* What a transition names as its target: a node that is gone is named by   *)
(* its id.                                                                 *)
TargetName(d, node) == IF node = "end" THEN "END"
                       ELSE IF node \in DOMAIN d.names THEN d.names[node] ELSE node

\* Mutant: a role with one way out writes the default status for it.
StatusOfMany(d, e) == IF Cardinality(From(d, e.from)) = 1 THEN "_" ELSE e.status

(* transOut: the status of an edge; a plain one has the default. *)
StatusOf(d, e) == e.status

(* Names of roles and statuses become keys of objects.  Of the keys of an   *)
(* object the numbers are listed first; one name is no key at all.         *)
Lost == {"__proto__"}
FileStart == "$START"
FileEnd == "$END"
ListedFirst(keys, key) ==
    LET early == {i \in DOMAIN Indices : Indices[i] \in keys}
    IN  IF early = {} THEN key ELSE Indices[Min(early)]

InFile(target) == IF target = "END" THEN FileEnd ELSE target
FromFile(target) == IF target = FileEnd THEN "END" ELSE target

(* stepsToPayload: of two roles of one name, or two edges of one status,   *)
(* the file keeps the later one; $START gets its transition last.          *)
Filed(d) ==
    LET steps == Steps(d)
        kept == {k \in DOMAIN steps : d.names[steps[k]] \notin Lost}
        names == {d.names[steps[k]] : k \in kept}
        out(name) == From(d, steps[Max({k \in kept : d.names[steps[k]] = name})])
        to(name, s) == d.edges[Max({i \in out(name) : StatusOf(d, d.edges[i]) = s})].to
        moves(name) == [s \in {StatusOf(d, d.edges[i]) : i \in out(name)} \ Lost |->
                          InFile(TargetName(d, to(name, s)))]
    IN  [first |-> IF kept = {} THEN NoRole ELSE ListedFirst(names, d.names[steps[Min(kept)]]),
         graph |-> [name \in names |->
                      IF name = FileStart THEN [s \in {"_"} |-> d.names[steps[1]]] ELSE moves(name)]]

(* payloadToSteps: what $START says is not read. *)
PayloadToSteps(f) ==
    [first |-> f.first,
     graph |-> [r \in DOMAIN f.graph |->
                  [s \in DOMAIN f.graph[r] |-> FromFile(f.graph[r][s])]]]

(* transIn: the listed roles get new nodes, start leads to the first of    *)
(* them, a target that is no role is dropped, and an edge is labelled when *)
(* its status is not the default or its role has several.                  *)
TransIn(f) ==
    LET roles == DOMAIN f.graph
        order == <<f.first>> \o SetToSeq(roles \ {f.first})
        ids == [r \in roles |-> NodeIds[CHOOSE i \in DOMAIN order : order[i] = r]]
        known(r) == {s \in DOMAIN f.graph[r] : f.graph[r][s] \in roles \cup {"END"}}
        place(r, s) == IF f.graph[r][s] \in roles THEN ids[f.graph[r][s]] ELSE "end"
        edge(r, s) == LET plain == Plain(ids[r], place(r, s), s)
                      IN  IF s # "_" \/ Cardinality(DOMAIN f.graph[r]) > 1 THEN Labelled(plain, s) ELSE plain
    IN  IF roles = {} THEN [names |-> <<>>, edges |-> <<>>]
        ELSE [names |-> [i \in {ids[r] : r \in roles} |-> CHOOSE r \in roles : ids[r] = i],
              edges |-> <<Plain("start", ids[f.first], "_")>>
                        \o SetToSeq(UNION {{edge(r, s) : s \in known(r)} : r \in roles})]

Loaded(f) == TransIn(PayloadToSteps(f))

-----------------------------------------------------------------------------
(* A drawing a file can hold: one node to a name, one edge to a status, no *)
(* edge left without a node, no name that the file uses for something else *)
(* or cannot list, and no role with a number for a name that the file would *)
(* list before the first one.                                              *)
Fileable(d) ==
    LET names == {d.names[a] : a \in DOMAIN d.names} IN
    /\ \A a, b \in DOMAIN d.names : d.names[a] = d.names[b] => a = b
    /\ names \cap ({"END", FileEnd, FileStart} \cup Lost) = {}
    /\ \A i, j \in DOMAIN d.edges :
        d.edges[i].from = d.edges[j].from /\ d.edges[i].status = d.edges[j].status => i = j
    /\ \A e \in ToSet(d.edges) :
        /\ {e.from, e.to} \subseteq DOMAIN d.names \cup {"start", "end"}
        /\ e.status \notin Lost
        /\ e.from = "start" => ListedFirst(names, TargetName(d, e.to)) = TargetName(d, e.to)

(* What a drawing says of the workflow. *)
Shown(d) ==
    [roles |-> {d.names[r] : r \in DOMAIN d.names},
     first |-> {TargetName(d, e.to) : e \in {x \in ToSet(d.edges) : x.from = "start"}},
     moves |-> {<<d.names[e.from], e.status, TargetName(d, e.to)>> :
                  e \in {x \in ToSet(d.edges) : x.from \in DOMAIN d.names}}]
=============================================================================
