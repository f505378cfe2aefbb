--------------------------- MODULE WorkflowEditor ---------------------------
(***************************************************************************)
(* The editor of the dashboard: its two stores, the transactions that      *)
(* group their changes into steps of undo and redo (editor/context.tsx),   *)
(* and the handlers that open and close them (editor/model).  Most         *)
(* handlers change a store at once and leave the end of their transaction  *)
(* to the next animation frame; a drag brackets whatever happens between   *)
(* its start and its stop.                                                 *)
(*                                                                         *)
(* A store is [rev, is]: rev stands for the identity of the object the     *)
(* store holds, which is what endTransaction compares, and `is' for its    *)
(* contents.                                                               *)
(***************************************************************************)
EXTENDS FlowDocument, Functions

CONSTANTS Names,                       \* names a user gives to roles
          Statuses,                    \* statuses a user gives to edges
          Files,                       \* the files that may be opened
          MaxRevisions,                \* bound: objects the stores hold in a session
          MaxFrames                    \* bound: callbacks waiting for a frame

ASSUME FilesAssumption ==
    \A f \in Files :
        /\ IsFiniteSet(DOMAIN f.graph) /\ Cardinality(DOMAIN f.graph) <= Len(NodeIds)
        /\ \A r \in DOMAIN f.graph : IsFiniteSet(DOMAIN f.graph[r])
        /\ DOMAIN f.graph # {} => f.first \in DOMAIN f.graph

DefaultName == "new role"
Nothing == "nothing"
Closed == [node |-> Nothing, side |-> Nothing]

VARIABLES
    store, ustack, rstack, transaction, backup,   \* Model
    frames,        \* callbacks waiting for an animation frame
    made, born,    \* objects and node ids handed out so far
    dragging, adding, editing,                    \* what the user is in the middle of
    file,          \* the workflow file
    opened, latest,  \* history: the drawing opened, the one after the last transaction
    mixed          \* history: an undo or redo ran while a transaction was open

history == <<ustack, rstack, latest>>
views == <<dragging, adding, editing>>
vars == <<store, history, transaction, backup, frames, made, born, views, file, opened, mixed>>

Drawing(st) == [names |-> st.nodes.is, edges |-> st.edges.is]
doc == Drawing(store)

Init ==
    /\ file \in Files
    /\ LET d == Loaded(file)
       IN  /\ store = [nodes |-> [rev |-> 0, is |-> d.names], edges |-> [rev |-> 0, is |-> d.edges]]
           /\ born = Cardinality(DOMAIN d.names)
    /\ opened = Shown(doc) /\ latest = Shown(doc)
    /\ ustack = <<>> /\ rstack = <<>> /\ transaction = 0 /\ backup = <<>>
    /\ frames = 0 /\ made = 0 /\ mixed = FALSE
    /\ dragging = FALSE /\ adding = Closed /\ editing = Nothing

-----------------------------------------------------------------------------
(* Model: transactions and the two stacks.                                 *)

SetNodes(st, names) == [st EXCEPT !.nodes = [rev |-> made + 1, is |-> names]]
SetEdges(st, edges) == [st EXCEPT !.edges = [rev |-> made + 1, is |-> edges]]

\* Mutant: a transaction inside another takes a new backup.
StartAnew ==
    /\ backup' = store
    /\ transaction' = transaction + 1

StartTransaction ==
    /\ backup' = IF transaction = 0 THEN store ELSE backup
    /\ transaction' = transaction + 1

(* The stores that hold another object than before the transaction make    *)
(* one step to undo, and what had been undone is forgotten.                *)
Push(before, now) ==
    LET changed == {s \in DOMAIN now : now[s].rev # before[s].rev}
    IN  IF changed = {} THEN UNCHANGED history
        ELSE /\ ustack' = Append(ustack, Restrict(before, changed))
             /\ rstack' = <<>>
             /\ latest' = Shown(Drawing(now))

EndTransaction ==
    /\ transaction' = IF transaction = 0 THEN 0 ELSE transaction - 1
    /\ IF transaction = 1 THEN Push(backup, store) /\ backup' = <<>> ELSE UNCHANGED <<history, backup>>
    /\ UNCHANGED store

(* A handler that leaves the end of its transaction to a frame. *)
Framed(now) ==
    /\ made < MaxRevisions /\ made' = made + 1
    /\ StartTransaction /\ store' = now
    /\ frames < MaxFrames /\ frames' = frames + 1
    /\ UNCHANGED <<history, file, opened, mixed>>

(* A handler that ends its transaction itself. *)
Closing(now) ==
    /\ made < MaxRevisions /\ made' = made + 1
    /\ store' = now
    /\ IF transaction = 0 THEN Push(store, now) ELSE UNCHANGED history
    /\ UNCHANGED <<transaction, backup, frames, file, opened, mixed>>

Frame ==
    /\ frames > 0 /\ frames' = frames - 1
    /\ EndTransaction
    /\ UNCHANGED <<made, born, views, file, opened, mixed>>

(* undo and redo ask nothing about an open transaction.  Bound: one of them *)
(* runs in the middle of one in a session.                                 *)
MayTravel == transaction > 0 => ~mixed

Restored(step, st) == [s \in DOMAIN st |-> IF s \in DOMAIN step THEN step[s] ELSE st[s]]

Undo ==
    /\ ustack # <<>> /\ MayTravel
    /\ store' = Restored(Last(ustack), store)
    /\ rstack' = Append(rstack, Restrict(store, DOMAIN Last(ustack)))
    /\ ustack' = Front(ustack)
    /\ mixed' = (mixed \/ transaction > 0)
    /\ UNCHANGED <<latest, transaction, backup, frames, made, born, views, file, opened>>

Redo ==
    /\ rstack # <<>> /\ MayTravel
    /\ store' = Restored(Last(rstack), store)
    /\ ustack' = Append(ustack, Restrict(store, DOMAIN Last(rstack)))
    /\ rstack' = Front(rstack)
    /\ mixed' = (mixed \/ transaction > 0)
    /\ UNCHANGED <<latest, transaction, backup, frames, made, born, views, file, opened>>

-----------------------------------------------------------------------------
(* The handlers.  A dialog covers the drawing while it is open, and keys   *)
(* typed into it still reach undo and redo.                                *)

Free == adding = Closed /\ editing = Nothing
FreeHand == Free /\ ~dragging

(* onNodesChange, onEdgesChange for what is selected, measured or moved:   *)
(* another object, the same graph, no transaction.                         *)
Touch(s) ==
    /\ Free /\ made < MaxRevisions /\ made' = made + 1
    /\ store' = [store EXCEPT ![s].rev = made + 1]
    /\ UNCHANGED <<history, transaction, backup, frames, born, views, file, opened, mixed>>

DragStart ==
    /\ FreeHand /\ dragging' = TRUE
    /\ StartTransaction
    /\ UNCHANGED <<store, history, frames, made, born, adding, editing, file, opened, mixed>>

DragStop ==
    /\ dragging /\ dragging' = FALSE
    /\ EndTransaction
    /\ UNCHANGED <<frames, made, born, adding, editing, file, opened, mixed>>

\* The names with one for the node id.
Named(id, name) == [x \in {id} \cup DOMAIN doc.names |-> IF x = id THEN name ELSE doc.names[x]]

(* The toolbar's button for a new role. *)
AddRole ==
    /\ FreeHand /\ born < Len(NodeIds) /\ born' = born + 1
    /\ Framed(SetNodes(store, Named(NodeIds[born + 1], DefaultName)))
    /\ UNCHANGED views

(* onConnect: no edge to itself, none between two nodes that have one; a   *)
(* second edge out of a node is labelled, and so is the first.             *)
Connect(s, t) ==
    /\ FreeHand /\ s # t
    /\ \A e \in ToSet(doc.edges) : ~(e.from = s /\ e.to = t)
    /\ LET edge == Plain(s, t, "drawn")
           promoted == [i \in DOMAIN doc.edges |->
                          IF doc.edges[i].from = s /\ doc.edges[i].kind # "status"
                          THEN Labelled(doc.edges[i], "_") ELSE doc.edges[i]]
       IN  Framed(SetEdges(store, IF From(doc, s) = {} THEN Append(doc.edges, edge)
                                  ELSE Append(promoted, Labelled(edge, ""))))
    /\ UNCHANGED <<born, views>>

(* onConnectEnd on the bare canvas opens a dialog for a role at the other   *)
(* end; its commit uses the node the dialog was opened with.               *)
StartAdding(node, side) ==
    /\ FreeHand /\ born < Len(NodeIds)
    /\ adding' = [node |-> node, side |-> side]
    /\ UNCHANGED <<store, history, transaction, backup, frames, made, born, dragging, editing, file, opened, mixed>>

CommitAdding(name) ==
    /\ adding # Closed /\ adding' = Closed
    /\ born' = born + 1
    /\ LET edge == IF adding.side = "source" THEN Plain(adding.node, NodeIds[born + 1], "added")
                                              ELSE Plain(NodeIds[born + 1], adding.node, "added")
       IN  Framed(SetEdges(SetNodes(store, Named(NodeIds[born + 1], name)), Append(doc.edges, edge)))
    /\ UNCHANGED <<dragging, editing>>

StartEditing(r) ==
    /\ FreeHand /\ editing' = r
    /\ UNCHANGED <<store, history, transaction, backup, frames, made, born, dragging, adding, file, opened, mixed>>

(* A node that is gone by now leaves the nodes as they are. *)
CommitEditing(name) ==
    /\ editing # Nothing /\ editing' = Nothing
    /\ Framed(IF editing \in DOMAIN doc.names
              THEN SetNodes(store, [doc.names EXCEPT ![editing] = name]) ELSE store)
    /\ UNCHANGED <<born, dragging, adding>>

(* cancel, and the escape key *)
Escape ==
    /\ ~Free /\ adding' = Closed /\ editing' = Nothing
    /\ UNCHANGED <<store, history, transaction, backup, frames, made, born, dragging, file, opened, mixed>>

(* The label of an edge: a transaction is opened for it, and another one by *)
(* onEdgesChange, to which the library hands the replaced edge within the  *)
(* same event; each is left to a frame.                                    *)
Relabel(i, status) ==
    /\ FreeHand /\ doc.edges[i].kind = "status"
    /\ made < MaxRevisions /\ made' = made + 1
    /\ frames + 1 < MaxFrames /\ frames' = frames + 2
    /\ backup' = IF transaction = 0 THEN store ELSE backup
    /\ transaction' = transaction + 2
    /\ store' = SetEdges(store, [doc.edges EXCEPT ![i].status = status])
    /\ UNCHANGED <<history, born, views, file, opened, mixed>>

(* The delete key, from onBeforeDelete to onDelete: the edges go first,    *)
(* then the nodes, and the last labelled edge left to a source whose       *)
(* labelled edges were deleted loses its label.  Start and end are kept    *)
(* by onBeforeDelete.                                                      *)
DeleteSelected(roles, picked) ==
    /\ Free
    /\ LET gone(e) == e.from \in roles \/ e.to \in roles \/ e \in picked
           left == Picked(doc.edges, {i \in DOMAIN doc.edges : ~gone(doc.edges[i])})
           asked == {e.from : e \in {x \in ToSet(doc.edges) : gone(x) /\ x.kind = "status"}}
           alone(e) == Cardinality({j \in DOMAIN left : left[j].from = e.from /\ left[j].kind = "status"}) = 1
           lone == [i \in DOMAIN left |->
                      IF left[i].from \in asked /\ left[i].kind = "status" /\ alone(left[i])
                      THEN Plain(left[i].from, left[i].to, left[i].n) ELSE left[i]]
           shorter == IF Len(left) = Len(doc.edges) THEN store ELSE SetEdges(store, lone)
       IN  Closing(IF roles = {} THEN shorter
                   ELSE SetNodes(shorter, Restrict(doc.names, DOMAIN doc.names \ roles)))
    /\ UNCHANGED <<born, views>>

(* The button at a node deletes the node alone. *)
DeleteNode(r) ==
    /\ FreeHand
    /\ Framed(SetNodes(store, Restrict(doc.names, DOMAIN doc.names \ {r})))
    /\ UNCHANGED <<born, views>>

(* autoLayoutLR *)
AutoLayout ==
    /\ FreeHand
    /\ Closing(SetNodes(store, doc.names))
    /\ UNCHANGED <<born, views>>

(* saveData and saveWorkflow: a drawing that is not valid is not sent. *)
Save ==
    /\ FreeHand /\ Valid(doc)
    /\ file' = Filed(doc)
    /\ UNCHANGED <<store, history, transaction, backup, frames, made, born, views, opened, mixed>>

-----------------------------------------------------------------------------
Next ==
    \/ Frame \/ Undo \/ Redo \/ DragStart \/ DragStop
    \/ AddRole \/ Escape \/ AutoLayout \/ Save
    \/ \E s \in {"nodes", "edges"} : Touch(s)
    \/ \E s \in DOMAIN doc.names \cup {"start"}, t \in DOMAIN doc.names \cup {"end"} : Connect(s, t)
    \/ \E node \in DOMAIN doc.names \cup {"start"} : StartAdding(node, "source")
    \/ \E node \in DOMAIN doc.names \cup {"end"} : StartAdding(node, "target")
    \/ \E name \in Names : CommitAdding(name) \/ CommitEditing(name)
    \/ \E r \in DOMAIN doc.names : StartEditing(r) \/ DeleteNode(r) \/ DeleteSelected({r}, {})
    \/ \E e \in ToSet(doc.edges) : DeleteSelected({}, {e})
    \/ \E i \in DOMAIN doc.edges, s \in Statuses : Relabel(i, s)

Spec == Init /\ [][Next]_vars

-----------------------------------------------------------------------------
(* The stores after every step of a stack has been taken: each holds what   *)
(* the step at the bottom that has it says.                                *)
Unwound(st, stack) ==
    [s \in DOMAIN st |->
       LET steps == {i \in DOMAIN stack : s \in DOMAIN stack[i]}
       IN  IF steps = {} THEN st[s] ELSE stack[Min(steps)][s]]

Along(stack) == Shown(Drawing(Unwound(store, stack)))

(* HistoryIsWhole: with no transaction open, undoing everything leads back  *)
(* to the workflow that was opened, and redoing everything to the one the  *)
(* last transaction left, however transactions were nested, merged and     *)
(* ended by frames - as long as no undo or redo came in the middle of one. *)
HistoryIsWhole == transaction = 0 /\ ~mixed => Along(ustack) = opened /\ Along(rstack) = latest

(* SavedIsShown: a workflow that is saved and opened again shows the roles, *)
(* the first role and the transitions it showed when it was saved, if a    *)
(* file can hold them.                                                     *)
SavedIsShown == [][file' # file /\ Fileable(doc) => Shown(Loaded(file')) = Shown(doc)]_vars
=============================================================================
