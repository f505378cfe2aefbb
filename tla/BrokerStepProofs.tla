-------------------------- MODULE BrokerStepProofs --------------------------
(***************************************************************************)
(* What BrokerStep promises for any number of processes, roles, agents and *)
(* sessions: the active-step variable never names a finished step, a       *)
(* conversation that the server remembers is the one in the session store, *)
(* a correction stays in its conversation, and the turn chain keeps the    *)
(* turns of a step that nobody overlapped.                                 *)
(*                                                                         *)
(* And what LiveTurns promises of the readers beside it, for the behaviour *)
(* of ThreadReading, in which they run: the panorama has the order of the  *)
(* thread, its running group is whole, a follower prints the turns of a    *)
(* step once, and, where one process runs the thread, the pages of a pager *)
(* are whole.                                                              *)
(***************************************************************************)
EXTENDS ThreadReading, SequenceTheorems, FiniteSetTheorems, WellFoundedInduction,
        TLAPS

Labels == {"idle", "between", "mark", "turnhead", "get", "create", "upsert", "post",
           "stream", "clear", "node", "commit", "leave"}
Turn == [owner : Nat, nth : Nat]
Node == [start : Nat, prev : Nat, role : Role, kind : {"none", "ok", "suspend", "error"},
         turnCount : Nat, agent : Gateway]
Row == [gateway : Gateway, sid : Nat]
Local == [cmd : {"none", "exec", "resume", "poke"}, route : Gateway, role : Role,
          prev : Nat, start : Nat, chain : Seq(Turn), turns : Nat, now : Nat, retry : Nat,
          gateway : Gateway, sid : Nat, cached : BOOLEAN,
          kind : {"none", "ok", "suspend", "error"}]

LocalsTyped == pc \in [Proc -> Labels] /\ loc \in [Proc -> Local]

\* The index in a step start is the concern of Indexed.
StartsTyped ==
    /\ starts \in Seq({starts[i] : i \in 1..Len(starts)})
    /\ \A i \in 1..Len(starts) : starts[i].role \in Role
    /\ activeStep \in 0..Len(starts)

NodesTyped == nodes \in Seq(Node) /\ head \in 0..Len(nodes) /\ turnHead \in Seq(Turn)

SessionsTyped ==
    /\ sessions \in Seq(Gateway) /\ Len(sessions) <= MaxSessions
    /\ live \subseteq 1..Len(sessions)
    /\ rows \in [Role -> {NoRow} \cup Row]
    /\ \A r \in Role : rows[r] # NoRow => rows[r].sid \in 1..Len(sessions)
    /\ heard \in [SessionIds -> SUBSET (1..Len(starts))]

TypeOK == LocalsTyped /\ StartsTyped /\ NodesTyped /\ SessionsTyped

\* A process in a step has begun it, for the role it works for.
StepBegun ==
    \A p \in Proc :
        InStep(p) => /\ loc[p].start \in 1..Len(starts)
                     /\ starts[loc[p].start].role = loc[p].role

\* What is committed has a node; a poke finds a head.
StepEnds ==
    \A p \in Proc :
        /\ pc[p] \in {"node", "commit"} => loc[p].start # activeStep
        /\ pc[p] = "commit" => \E i \in 1..Len(nodes) : nodes[i].start = loc[p].start
        /\ loc[p].cmd = "poke" => head # 0

\* A node's step has begun, unless an earlier version ran it, and is not active.
NodesBegun == \A i \in 1..Len(nodes) : nodes[i].start \in 0..Len(starts)
ActiveUnwritten == activeStep # 0 => InFlightUnfinished

\* A process that has created a session, or sends to one, knows where it is.
SessionsKnown ==
    \A p \in Proc :
        /\ pc[p] \in {"upsert", "post"} => loc[p].sid \in 1..Len(sessions)
        /\ pc[p] = "upsert" => sessions[loc[p].sid] = loc[p].gateway

StepInv ==
    /\ TypeOK /\ StepBegun /\ StepEnds /\ NodesBegun /\ SessionsKnown
    /\ ActiveUnwritten

\* A thread that no earlier version has worked on.
NodesStarted == \A i \in 1..Len(nodes) : nodes[i].start # 0

-----------------------------------------------------------------------------
(* The start of a process that begins a step, and its reset, are typed. *)
LEMMA BlankTyped == Blank \in Local
<1>1. (CHOOSE g \in Gateway : TRUE) \in Gateway /\ (CHOOSE r \in Role : TRUE) \in Role
  BY BoundsAssumption
<1> QED
  BY <1>1 DEF Blank, Local

LEMMA BetweenTyped ==
    ASSUME NEW l \in Local
    PROVE  Between(l) \in Local /\ Between(l).cmd = l.cmd
BY BlankTyped DEF Between, Local

LEMMA AnsweredTyped ==
    ASSUME NEW l \in Local, NEW kind \in {"none", "ok", "suspend", "error"}
    PROVE  /\ Answered(l, kind) \in Local
           /\ Answered(l, kind).cmd = l.cmd
           /\ Answered(l, kind).start = l.start
           /\ Answered(l, kind).role = l.role
           /\ Answered(l, kind).prev = l.prev
<1>1. <<>> \in Seq(Turn)
  OBVIOUS
<1> QED
  BY <1>1 DEF Answered, Local

(* What the actions of a step write into the locals is typed. *)
LEMMA LocalWrites ==
    ASSUME NEW l \in Local
    PROVE  /\ \A n \in Nat : [l EXCEPT !.start = n, !.retry = 0, !.turns = 0, !.kind = "none"] \in Local
           /\ \A r \in Role, n \in Nat : [l EXCEPT !.role = r, !.prev = n] \in Local
           /\ \A c \in Seq(Turn) : /\ [l EXCEPT !.chain = c] \in Local
                                   /\ [l EXCEPT !.chain = c, !.turns = @ + 1, !.now = @ + 1] \in Local
           /\ \A b \in BOOLEAN, g \in Gateway : [l EXCEPT !.cached = b, !.gateway = g] \in Local
           /\ \A b \in BOOLEAN, n \in Nat : [l EXCEPT !.sid = n, !.cached = b] \in Local
           /\ \A b \in BOOLEAN, g \in Gateway, n \in Nat :
                 [l EXCEPT !.cached = b, !.gateway = g, !.sid = n] \in Local
           /\ [l EXCEPT !.now = 0] \in Local
           /\ [l EXCEPT !.retry = @ + 1] \in Local
<1>1. \A n, m \in Nat, c \in Seq(Turn) : [l EXCEPT !.chain = c, !.turns = n, !.now = m] \in Local
  BY DEF Local
<1>2. \A n \in Nat : [l EXCEPT !.retry = n] \in Local
  BY DEF Local
<1>3. l.turns + 1 \in Nat /\ l.now + 1 \in Nat /\ l.retry + 1 \in Nat
  BY DEF Local
<1>4. /\ \A c \in Seq(Turn) : [l EXCEPT !.chain = c, !.turns = @ + 1, !.now = @ + 1] \in Local
      /\ [l EXCEPT !.retry = @ + 1] \in Local
  BY <1>1, <1>2, <1>3
<1>5. /\ \A n \in Nat : [l EXCEPT !.start = n, !.retry = 0, !.turns = 0, !.kind = "none"] \in Local
      /\ \A r \in Role, n \in Nat : [l EXCEPT !.role = r, !.prev = n] \in Local
      /\ \A c \in Seq(Turn) : [l EXCEPT !.chain = c] \in Local
  BY DEF Local
<1>6. /\ \A b \in BOOLEAN, g \in Gateway : [l EXCEPT !.cached = b, !.gateway = g] \in Local
      /\ \A b \in BOOLEAN, n \in Nat : [l EXCEPT !.sid = n, !.cached = b] \in Local
      /\ \A b \in BOOLEAN, g \in Gateway, n \in Nat :
            [l EXCEPT !.cached = b, !.gateway = g, !.sid = n] \in Local
      /\ [l EXCEPT !.now = 0] \in Local
  BY DEF Local
<1> QED
  BY <1>4, <1>5, <1>6

(* A step start is added without a change to those before it. *)
LEMMA StartsGrow ==
    ASSUME NEW s, s \in Seq({s[i] : i \in 1..Len(s)}), NEW e
    PROVE  LET t == Append(s, e)
           IN  /\ t \in Seq({t[i] : i \in 1..Len(t)})
               /\ Len(t) = Len(s) + 1
               /\ t[Len(s) + 1] = e
               /\ \A i \in 1..Len(s) : t[i] = s[i]
<1> DEFINE S == {s[i] : i \in 1..Len(s)} \cup {e}
           t == Append(s, e)
<1>1. s \in Seq(S) /\ e \in S
  OBVIOUS
<1> HIDE DEF S
<1>2. t \in Seq(S) /\ Len(t) = Len(s) + 1 /\ t[Len(s) + 1] = e /\ \A i \in 1..Len(s) : t[i] = s[i]
  BY <1>1
<1> DEFINE U == {t[i] : i \in 1..Len(t)}
<1>3. t \in [1..Len(t) -> S] /\ Len(t) \in Nat
  <2> HIDE DEF t
  <2> QED
    BY <1>2, LenProperties
<1>4. \A i \in 1..Len(t) : t[i] \in U
  OBVIOUS
<1>5. t \in Seq(U)
  <2> HIDE DEF t, U
  <2>1. t \in [1..Len(t) -> U]
    BY <1>3, <1>4
  <2> QED
    BY <2>1, <1>3, SeqDef
<1> QED
  BY <1>2, <1>5

-----------------------------------------------------------------------------
(* Control and local state keep their types. *)
LEMMA LocalsStep == TypeOK /\ StepEnds /\ [Next]_vars => LocalsTyped'
<1> SUFFICES ASSUME TypeOK, StepEnds, [Next]_vars PROVE LocalsTyped'
  OBVIOUS
<1> USE DEF TypeOK, LocalsTyped, Labels
\* A step of p sets its label, and its locals to a record of their type.
<1>1. ASSUME NEW p \in Proc, NEW l \in Labels, Goto(p, l) PROVE pc' \in [Proc -> Labels]
  BY <1>1 DEF Goto
<1>2. ASSUME NEW p \in Proc, NEW l \in Local, loc' = [loc EXCEPT ![p] = l]
      PROVE loc' \in [Proc -> Local]
  BY <1>2
<1>3. ASSUME NEW p \in Proc, NEW cmd \in Commands, NEW g \in Gateway, Launch(p, cmd, g)
      PROVE LocalsTyped'
  <2>1. [Blank EXCEPT !.cmd = cmd, !.route = g] \in Local
    BY BlankTyped, BoundsAssumption DEF Local
  <2> QED
    BY <1>1, <1>2, <1>3, <2>1 DEF Launch
<1>4. ASSUME NEW p \in Proc, NEW r \in Role, ReadHead(p, r) PROVE LocalsTyped'
  <2>1. PICK v : v = (IF loc[p].cmd = "poke" THEN nodes[head].prev ELSE head)
    OBVIOUS
  <2>2. loc' = [loc EXCEPT ![p] = [loc[p] EXCEPT !.role = r, !.prev = v]]
    BY <1>4, <2>1 DEF ReadHead
  <2>3. v \in Nat
    <3>1. head \in Nat
      BY DEF NodesTyped
    <3>2. loc[p].cmd = "poke" => nodes[head] \in Node
      BY DEF NodesTyped, StepEnds
    <3>3. \A n \in Node : n.prev \in Nat
      BY DEF Node
    <3> QED
      BY <2>1, <3>1, <3>2, <3>3
  <2>4. [loc[p] EXCEPT !.role = r, !.prev = v] \in Local
    BY <2>3, LocalWrites
  <2> QED
    BY <1>1, <1>2, <1>4, <2>2, <2>4 DEF ReadHead
<1>5. ASSUME NEW p \in Proc, MarkActive(p) PROVE LocalsTyped'
  <2>1. Len(starts) + 1 \in Nat
    BY DEF StartsTyped
  <2>2. PICK n \in Nat : n = Len(starts) + 1
    BY <2>1
  <2>3. loc' = [loc EXCEPT ![p] = [loc[p] EXCEPT !.start = n, !.retry = 0, !.turns = 0, !.kind = "none"]]
    BY <1>5, <2>2 DEF MarkActive
  <2> QED
    BY <1>1, <1>2, <1>5, <2>3, LocalWrites DEF MarkActive
<1>6. ASSUME NEW p \in Proc, ReadTurnHead(p) PROVE LocalsTyped'
  <2>1. loc' = [loc EXCEPT ![p] = [loc[p] EXCEPT !.chain = turnHead]]
    BY <1>6 DEF ReadTurnHead
  <2> QED
    BY <1>1, <1>2, <1>6, <2>1, LocalWrites DEF ReadTurnHead, NodesTyped
<1>7. ASSUME NEW p \in Proc, GetSession(p) PROVE LocalsTyped'
  <2>1. CASE rows[loc[p].role] = NoRow
    <3>1. loc' = [loc EXCEPT ![p] = [loc[p] EXCEPT !.cached = FALSE, !.gateway = loc[p].route]]
      BY <1>7, <2>1 DEF GetSession
    <3>2. loc[p].route \in Gateway
      BY DEF Local
    <3> QED
      BY <1>1, <1>2, <1>7, <2>1, <3>1, <3>2, LocalWrites DEF GetSession
  <2>2. CASE rows[loc[p].role] # NoRow
    <3>1. PICK row \in Row : row = rows[loc[p].role]
      BY <2>2 DEF SessionsTyped, Local
    <3>2. loc' = [loc EXCEPT ![p] = [loc[p] EXCEPT !.cached = TRUE, !.gateway = row.gateway, !.sid = row.sid]]
      BY <1>7, <2>2, <3>1 DEF GetSession
    <3>3. row.gateway \in Gateway /\ row.sid \in Nat
      BY DEF Row
    <3>4. Goto(p, "post")
      BY <1>7, <2>2 DEF GetSession
    <3> QED
      BY <1>1, <1>2, <3>2, <3>3, <3>4, LocalWrites
  <2> QED
    BY <2>1, <2>2
<1>8. ASSUME NEW p \in Proc, CreateSession(p) PROVE LocalsTyped'
  <2>1. PICK n \in Nat : n = Len(sessions')
    BY <1>8 DEF CreateSession, SessionsTyped, Local
  <2>2. loc' = [loc EXCEPT ![p] = [loc[p] EXCEPT !.sid = n, !.cached = FALSE]]
    BY <1>8, <2>1 DEF CreateSession
  <2> QED
    BY <1>1, <1>2, <1>8, <2>2, LocalWrites DEF CreateSession
<1>9. ASSUME NEW p \in Proc, UpsertSession(p) \/ Fallback(p) \/ ClearActive(p) \/ WriteNode(p)
      PROVE LocalsTyped'
  BY <1>1, <1>9 DEF UpsertSession, Fallback, ClearActive, WriteNode
<1>10. ASSUME NEW p \in Proc, Accepted(p) PROVE LocalsTyped'
  <2>1. loc' = [loc EXCEPT ![p] = [loc[p] EXCEPT !.now = 0]]
    BY <1>10 DEF Accepted
  <2> QED
    BY <1>1, <1>2, <1>10, <2>1, LocalWrites DEF Accepted
<1>11. ASSUME NEW p \in Proc, OnTurn(p) PROVE LocalsTyped'
  <2>1. [owner |-> loc[p].start, nth |-> loc[p].turns + 1] \in Turn
    BY DEF Local, Turn
  <2>2. PICK c : c = Append(loc[p].chain, [owner |-> loc[p].start, nth |-> loc[p].turns + 1])
    OBVIOUS
  <2>3. c \in Seq(Turn)
    BY <2>1, <2>2 DEF Local
  <2>4. loc' = [loc EXCEPT ![p] = [loc[p] EXCEPT !.chain = c, !.turns = @ + 1, !.now = @ + 1]]
    BY <1>11, <2>2 DEF OnTurn
  <2>5. [loc[p] EXCEPT !.chain = c, !.turns = @ + 1, !.now = @ + 1] \in Local
    BY <2>3, LocalWrites
  <2> QED
    BY <1>2, <1>11, <2>4, <2>5 DEF OnTurn
<1>12. ASSUME NEW p \in Proc, NEW k \in {"ok", "suspend", "bad"}, Completed(p, k)
       PROVE LocalsTyped'
  <2>1. CASE k = "bad" /\ loc[p].retry < MaxRetries
    <3>1. loc' = [loc EXCEPT ![p] = [loc[p] EXCEPT !.retry = @ + 1]]
      BY <1>12, <2>1 DEF Completed
    <3> QED
      BY <1>1, <1>2, <1>12, <2>1, <3>1, LocalWrites DEF Completed
  <2>2. CASE ~(k = "bad" /\ loc[p].retry < MaxRetries)
    BY <1>1, <1>2, <1>12, <2>2, AnsweredTyped DEF Completed
  <2> QED
    BY <2>1, <2>2
<1>13. ASSUME NEW p \in Proc, Suspended(p) PROVE LocalsTyped'
  BY <1>1, <1>2, <1>13, AnsweredTyped DEF Suspended
<1>14. ASSUME NEW p \in Proc, Commit(p) PROVE LocalsTyped'
  BY <1>1, <1>2, <1>14, BetweenTyped DEF Commit
<1>15. ASSUME NEW p \in Proc, Throw(p) PROVE LocalsTyped'
  BY <1>1, <1>2, <1>15, BetweenTyped DEF Throw
<1>16. ASSUME NEW p \in Proc, Leave(p) \/ Kill(p) PROVE LocalsTyped'
  BY <1>1, <1>2, <1>16, BlankTyped DEF Leave, Kill
<1>17. CASE Restart \/ UNCHANGED vars
  BY <1>17 DEF Restart, vars
<1> QED
  BY <1>3, <1>4, <1>5, <1>6, <1>7, <1>8, <1>9, <1>10, <1>11, <1>12, <1>13, <1>14, <1>15,
     <1>16, <1>17 DEF Next, Step, Send, ExecuteStep

(* The records of a thread and its sessions keep their types. *)
LEMMA StoredStep == StepInv /\ [Next]_vars => StartsTyped' /\ NodesTyped' /\ SessionsTyped'
<1> SUFFICES ASSUME StepInv, [Next]_vars
             PROVE  StartsTyped' /\ NodesTyped' /\ SessionsTyped'
  OBVIOUS
<1> USE DEF StepInv, TypeOK, stored, server, history, faults
<1> DEFINE Kept == StartsTyped' /\ NodesTyped' /\ SessionsTyped'
<1>1. UNCHANGED <<starts, activeStep>> => StartsTyped'
  BY DEF StartsTyped
<1>2. UNCHANGED <<nodes, head, turnHead>> => NodesTyped'
  BY DEF NodesTyped
<1>3. UNCHANGED <<starts, sessions, live, rows, heard>> => SessionsTyped'
  BY DEF SessionsTyped
<1>4. ASSUME NEW p \in Proc, MarkActive(p) PROVE Kept
  <2>1. /\ starts' \in Seq({starts'[i] : i \in 1..Len(starts')})
        /\ Len(starts') = Len(starts) + 1 /\ Len(starts) \in Nat
        /\ starts'[Len(starts) + 1].role = loc[p].role
        /\ \A i \in 1..Len(starts) : starts'[i] = starts[i]
    <3> DEFINE e == [role |-> loc[p].role, stepIndex |-> StepIndex(loc[p].prev)]
    <3>1. starts' = Append(starts, e) /\ e.role = loc[p].role
      BY <1>4 DEF MarkActive
    <3> HIDE DEF e
    <3> QED
      BY <3>1, StartsGrow DEF StartsTyped
  <2>2. loc[p].role \in Role
    BY DEF LocalsTyped, Local
  <2>3. StartsTyped'
    <3>1. activeStep' = Len(starts) + 1
      BY <1>4 DEF MarkActive
    <3>2. \A i \in 1..Len(starts') : starts'[i].role \in Role
      BY <2>1, <2>2 DEF StartsTyped
    <3> QED
      BY <2>1, <3>1, <3>2 DEF StartsTyped
  <2>4. SessionsTyped'
    BY <1>4, <2>1 DEF MarkActive, SessionsTyped
  <2> QED
    BY <1>2, <1>4, <2>3, <2>4 DEF MarkActive
<1>5. ASSUME NEW p \in Proc, CreateSession(p) PROVE Kept
  <2>1. loc[p].gateway \in Gateway
    BY DEF LocalsTyped, Local
  <2>2. /\ sessions' \in Seq(Gateway) /\ Len(sessions') = Len(sessions) + 1
        /\ Len(sessions) \in Nat /\ Len(sessions') <= MaxSessions
    BY <1>5, <2>1, BoundsAssumption DEF CreateSession, SessionsTyped
  <2>3. SessionsTyped'
    <3>1. live' \subseteq 1..Len(sessions')
      BY <1>5, <2>2 DEF CreateSession, SessionsTyped
    <3>2. \A r \in Role : rows[r] # NoRow => rows[r].sid \in 1..Len(sessions')
      BY <2>2 DEF SessionsTyped
    <3>3. UNCHANGED <<rows, heard, starts>>
      BY <1>5 DEF CreateSession
    <3> QED
      BY <2>2, <3>1, <3>2, <3>3 DEF SessionsTyped
  <2> QED
    BY <1>1, <1>2, <1>5, <2>3 DEF CreateSession
<1>6. ASSUME NEW p \in Proc, UpsertSession(p) PROVE Kept
  <2>1. loc[p].role \in Role /\ [gateway |-> loc[p].gateway, sid |-> loc[p].sid] \in Row
    BY DEF LocalsTyped, Local, Row
  <2>2. loc[p].sid \in 1..Len(sessions)
    BY <1>6 DEF UpsertSession, SessionsKnown
  <2>3. SessionsTyped'
    <3>1. PICK row \in Row : row = [gateway |-> loc[p].gateway, sid |-> loc[p].sid]
      BY <2>1
    <3>2. rows' = [rows EXCEPT ![loc[p].role] = row] /\ row.sid \in 1..Len(sessions)
      BY <1>6, <2>2, <3>1 DEF UpsertSession
    <3>3. UNCHANGED <<sessions, live, heard, starts>>
      BY <1>6 DEF UpsertSession
    <3> QED
      BY <2>1, <3>2, <3>3 DEF SessionsTyped
  <2> QED
    BY <1>1, <1>2, <1>6, <2>3 DEF UpsertSession
<1>7. ASSUME NEW p \in Proc, Accepted(p) PROVE Kept
  <2>1. loc[p].start \in 1..Len(starts)
    BY <1>7 DEF Accepted, StepBegun, InStep
  <2>2. SessionsTyped'
    <3>1. PICK v : heard' = [heard EXCEPT ![loc[p].sid] = v]
                   /\ (v = heard[loc[p].sid] \cup {loc[p].start} \/ v = heard[loc[p].sid])
      BY <1>7 DEF Accepted
    <3>2. heard' \in [SessionIds -> SUBSET (1..Len(starts))]
      BY <2>1, <3>1 DEF SessionsTyped
    <3>3. UNCHANGED <<rows, sessions, live, starts>>
      BY <1>7 DEF Accepted
    <3> QED
      BY <3>2, <3>3 DEF SessionsTyped
  <2> QED
    BY <1>1, <1>2, <1>7, <2>2 DEF Accepted
<1>8. ASSUME NEW p \in Proc, OnTurn(p) PROVE Kept
  <2>1. /\ [owner |-> loc[p].start, nth |-> loc[p].turns + 1] \in Turn
        /\ loc[p].chain \in Seq(Turn)
    BY DEF LocalsTyped, Local, Turn
  <2>2. turnHead' \in Seq(Turn)
    BY <1>8, <2>1 DEF OnTurn
  <2> QED
    BY <1>1, <1>3, <1>8, <2>2 DEF OnTurn, NodesTyped
<1>9. ASSUME NEW p \in Proc, ClearActive(p) PROVE Kept
  BY <1>2, <1>3, <1>9 DEF ClearActive, StartsTyped
<1>10. ASSUME NEW p \in Proc, WriteNode(p) PROVE Kept
  <2>1. [start |-> loc[p].start, prev |-> loc[p].prev, role |-> loc[p].role,
         kind |-> loc[p].kind, turnCount |-> loc[p].turns, agent |-> loc[p].route] \in Node
    BY DEF LocalsTyped, Local, Node
  <2>2. nodes' \in Seq(Node) /\ Len(nodes') = Len(nodes) + 1 /\ Len(nodes) \in Nat
    BY <1>10, <2>1 DEF WriteNode, NodesTyped
  <2>3. NodesTyped'
    BY <1>10, <2>2 DEF WriteNode, NodesTyped
  <2> QED
    BY <1>1, <1>3, <1>10, <2>3 DEF WriteNode
<1>11. ASSUME NEW p \in Proc, Commit(p) PROVE Kept
  <2>1. PICK i \in 1..Len(nodes) : nodes[i].start = loc[p].start
    BY <1>11 DEF Commit, StepEnds
  <2>2. head' \in 0..Len(nodes)
    BY <1>11, <2>1 DEF Commit, NodesTyped
  <2> QED
    BY <1>1, <1>3, <1>11, <2>2 DEF Commit, NodesTyped
<1>12. ASSUME NEW p \in Proc, NEW cmd \in Commands, NEW g \in Gateway, Launch(p, cmd, g)
       PROVE Kept
  BY <1>1, <1>2, <1>3, <1>12 DEF Launch
<1>13. ASSUME NEW p \in Proc, NEW r \in Role, ReadHead(p, r) PROVE Kept
  BY <1>1, <1>2, <1>3, <1>13 DEF ReadHead, stored
<1>14. ASSUME NEW p \in Proc,
              \/ ReadTurnHead(p) \/ GetSession(p) \/ Fallback(p) \/ Suspended(p) \/ Throw(p)
              \/ \E k \in {"ok", "suspend", "bad"} : Completed(p, k)
       PROVE Kept
  BY <1>1, <1>2, <1>3, <1>14
     DEF ReadTurnHead, GetSession, Fallback, Suspended, Throw, Completed, stored
<1>15. ASSUME NEW p \in Proc, Leave(p) \/ Kill(p) PROVE Kept
  BY <1>1, <1>2, <1>3, <1>15 DEF Leave, Kill
<1>16. CASE Restart
  BY <1>1, <1>2, <1>16 DEF Restart, SessionsTyped
<1>17. CASE UNCHANGED vars
  BY <1>1, <1>2, <1>3, <1>17 DEF vars, stored
<1> QED
  BY <1>4, <1>5, <1>6, <1>7, <1>8, <1>9, <1>10, <1>11, <1>12, <1>13, <1>14, <1>15, <1>16,
     <1>17 DEF Next, Step, Send, ExecuteStep

(* A process that goes on in its step keeps its start, place, role and      *)
(* command; one that leaves it is in no step; the others keep all they have. *)
Others(p) == \A q \in Proc \ {p} : pc'[q] = pc[q] /\ loc'[q] = loc[q]

Continues(p) ==
    /\ Others(p)
    /\ loc'[p].start = loc[p].start /\ loc'[p].role = loc[p].role
    /\ loc'[p].cmd = loc[p].cmd /\ loc'[p].prev = loc[p].prev

Ceases(p) ==
    /\ Others(p)
    /\ pc'[p] \in {"idle", "between", "leave"}
    /\ loc'[p].cmd \in {"none", loc[p].cmd}

LEMMA ContinueStep ==
    ASSUME LocalsTyped, NEW p \in Proc, Send(p) \/ ReadTurnHead(p) \/ Suspended(p)
           \/ ClearActive(p) \/ WriteNode(p)
           \/ \E k \in {"ok", "suspend", "bad"} : Completed(p, k)
    PROVE  Continues(p)
<1> USE DEF LocalsTyped, Continues, Others, Goto
<1>1. CASE GetSession(p)
  BY <1>1 DEF GetSession, Local
<1>2. CASE CreateSession(p) \/ Accepted(p) \/ ReadTurnHead(p)
  BY <1>2 DEF CreateSession, Accepted, ReadTurnHead, Local
<1>3. CASE UpsertSession(p) \/ Fallback(p) \/ ClearActive(p) \/ WriteNode(p)
  BY <1>3 DEF UpsertSession, Fallback, ClearActive, WriteNode
<1>4. CASE OnTurn(p)
  BY <1>4 DEF OnTurn, Local
<1>5. CASE Suspended(p)
  BY <1>5, AnsweredTyped DEF Suspended
<1>6. ASSUME NEW k \in {"ok", "suspend", "bad"}, Completed(p, k) PROVE Continues(p)
  <2>1. CASE k = "bad" /\ loc[p].retry < MaxRetries
    BY <1>6, <2>1 DEF Completed, Local
  <2>2. CASE ~(k = "bad" /\ loc[p].retry < MaxRetries)
    BY <1>6, <2>2, AnsweredTyped DEF Completed
  <2> QED
    BY <2>1, <2>2
<1> QED
  BY <1>1, <1>2, <1>3, <1>4, <1>5, <1>6 DEF Send

LEMMA CeaseStep ==
    ASSUME LocalsTyped, NEW p \in Proc, Commit(p) \/ Leave(p) \/ Throw(p) \/ Kill(p)
    PROVE  Ceases(p)
<1> USE DEF LocalsTyped, Ceases, Others, Goto
<1>1. Blank.cmd = "none"
  BY DEF Blank
<1>2. CASE Commit(p) \/ Throw(p)
  BY <1>2, BetweenTyped DEF Commit, Throw
<1>3. CASE Leave(p) \/ Kill(p)
  BY <1>1, <1>3 DEF Leave, Kill
<1> QED
  BY <1>2, <1>3

(* Where the steps that begin one leave a process. *)
LEMMA BeginStep ==
    ASSUME TypeOK, NEW p \in Proc
    PROVE  /\ \A cmd \in Commands, g \in Gateway :
                 Launch(p, cmd, g) => Others(p) /\ pc'[p] = "between" /\ loc'[p].cmd = cmd
           /\ \A r \in Role :
                 ReadHead(p, r) => Others(p) /\ pc'[p] = "mark" /\ loc'[p].cmd = loc[p].cmd
           /\ MarkActive(p) => /\ Others(p) /\ pc'[p] = "turnhead"
                               /\ loc'[p].start = Len(starts) + 1
                               /\ loc'[p].role = loc[p].role /\ loc'[p].cmd = loc[p].cmd
<1> USE DEF TypeOK, LocalsTyped, Others, Goto
<1>1. ASSUME NEW cmd \in Commands, NEW g \in Gateway, Launch(p, cmd, g)
      PROVE Others(p) /\ pc'[p] = "between" /\ loc'[p].cmd = cmd
  BY <1>1, BlankTyped DEF Launch, Local
<1>2. ASSUME NEW r \in Role, ReadHead(p, r)
      PROVE Others(p) /\ pc'[p] = "mark" /\ loc'[p].cmd = loc[p].cmd
  BY <1>2 DEF ReadHead, Local
<1>3. ASSUME MarkActive(p)
      PROVE  /\ Others(p) /\ pc'[p] = "turnhead" /\ loc'[p].start = Len(starts) + 1
             /\ loc'[p].role = loc[p].role /\ loc'[p].cmd = loc[p].cmd
  BY <1>3 DEF MarkActive, Local
<1> QED
  BY <1>1, <1>2, <1>3

(* A step start is written once and not changed. *)
LEMMA MarkedStart ==
    ASSUME TypeOK, NEW p \in Proc, MarkActive(p)
    PROVE  /\ Len(starts') = Len(starts) + 1 /\ Len(starts) \in Nat
           /\ starts'[Len(starts) + 1].role = loc[p].role
           /\ \A i \in 1..Len(starts) : starts'[i] = starts[i]
           /\ activeStep' = Len(starts) + 1
<1> DEFINE e == [role |-> loc[p].role, stepIndex |-> StepIndex(loc[p].prev)]
<1>1. starts' = Append(starts, e) /\ e.role = loc[p].role /\ activeStep' = Len(starts) + 1
  BY DEF MarkActive
<1> HIDE DEF e
<1> QED
  BY <1>1, StartsGrow DEF TypeOK, StartsTyped

Going(p) ==
    \/ Send(p) \/ ReadTurnHead(p) \/ Suspended(p) \/ ClearActive(p) \/ WriteNode(p)
    \/ \E k \in {"ok", "suspend", "bad"} : Completed(p, k)

Ceasing(p) == Commit(p) \/ Leave(p) \/ Throw(p) \/ Kill(p)

(* The kinds of step the lemmas below tell apart. *)
LEMMA StepKinds ==
    [Next]_vars =>
        \/ UNCHANGED vars \/ Restart
        \/ \E p \in Proc :
            \/ \E cmd \in Commands, g \in Gateway : Launch(p, cmd, g)
            \/ \E r \in Role : ReadHead(p, r)
            \/ MarkActive(p) \/ Going(p) \/ Ceasing(p)
BY DEF Next, Step, ExecuteStep, Going, Ceasing

LEMMA StepBegunStep == StepInv /\ [Next]_vars => StepBegun'
<1> SUFFICES ASSUME StepInv, [Next]_vars PROVE StepBegun'
  OBVIOUS
<1> USE DEF StepInv, StepBegun, InStep
<1>1. ASSUME NEW p \in Proc, NEW cmd \in Commands, NEW g \in Gateway, Launch(p, cmd, g)
      PROVE StepBegun'
  <2>1. Others(p) /\ pc'[p] = "between" /\ loc'[p].cmd = cmd
    BY <1>1, BeginStep
  <2>2. UNCHANGED <<starts, activeStep, nodes, head>> /\ (cmd = "poke" => head # 0)
    BY <1>1 DEF Launch
  <2> QED
    BY <2>1, <2>2 DEF Others
<1>2. ASSUME NEW p \in Proc, NEW r \in Role, ReadHead(p, r) PROVE StepBegun'
  BY <1>2, BeginStep DEF ReadHead, Others, stored
<1>3. ASSUME NEW p \in Proc, MarkActive(p) PROVE StepBegun'
  BY <1>3, BeginStep, MarkedStart DEF Others
<1>4. ASSUME NEW p \in Proc, Going(p) PROVE StepBegun'
  <2>1. Continues(p)
    BY <1>4, ContinueStep DEF Going, TypeOK
  <2>2. InStep(p) /\ UNCHANGED starts
    BY <1>4 DEF Going, Send, GetSession, CreateSession, UpsertSession, Accepted, Fallback,
                OnTurn, ReadTurnHead, Suspended, ClearActive, WriteNode, Completed, stored
  <2> QED
    BY <2>1, <2>2 DEF Continues, Others
<1>5. ASSUME NEW p \in Proc, Ceasing(p) PROVE StepBegun'
  <2>1. Ceases(p)
    BY <1>5, CeaseStep DEF Ceasing, TypeOK
  <2>2. UNCHANGED starts
    BY <1>5 DEF Ceasing, Commit, Leave, Throw, Kill, stored
  <2> QED
    BY <2>1, <2>2 DEF Ceases, Others
<1>6. CASE Restart \/ UNCHANGED vars
  BY <1>6 DEF Restart, vars, stored
<1> QED
  BY <1>1, <1>2, <1>3, <1>4, <1>5, <1>6, StepKinds

(* A step that is about to write its node is no longer the active one. *)
LEMMA StepEndsStep == StepInv /\ [Next]_vars => StepEnds'
<1> SUFFICES ASSUME StepInv, [Next]_vars PROVE StepEnds'
  OBVIOUS
<1> USE DEF StepInv
<1>1. ASSUME NEW p \in Proc, NEW cmd \in Commands, NEW g \in Gateway, Launch(p, cmd, g)
      PROVE StepEnds'
  <2>1. Others(p) /\ pc'[p] = "between" /\ loc'[p].cmd = cmd
    BY <1>1, BeginStep
  <2>2. UNCHANGED <<starts, activeStep, nodes, head>> /\ (cmd = "poke" => head # 0)
    BY <1>1 DEF Launch
  <2> QED
    BY <2>1, <2>2 DEF Others, StepEnds
<1>2. ASSUME NEW p \in Proc, NEW r \in Role, ReadHead(p, r) PROVE StepEnds'
  <2>1. Others(p) /\ pc'[p] = "mark" /\ loc'[p].cmd = loc[p].cmd
    BY <1>2, BeginStep
  <2>2. UNCHANGED <<activeStep, nodes, head>>
    BY <1>2 DEF ReadHead, stored
  <2> QED
    BY <2>1, <2>2 DEF Others, StepEnds
<1>3. ASSUME NEW p \in Proc, MarkActive(p) PROVE StepEnds'
  <2>1. UNCHANGED <<nodes, head>> /\ pc[p] = "mark"
    BY <1>3 DEF MarkActive
  <2>2. \A q \in Proc \ {p} : pc[q] \in {"node", "commit"} => loc[q].start # activeStep'
    BY <1>3, MarkedStart DEF StepBegun, InStep
  <2> QED
    BY <1>3, <2>1, <2>2, BeginStep DEF Others, StepEnds
<1>4. ASSUME NEW p \in Proc, Going(p) PROVE StepEnds'
  <2>1. Continues(p)
    BY <1>4, ContinueStep DEF Going, TypeOK
  <2>2. UNCHANGED head
    BY <1>4 DEF Going, Send, GetSession, CreateSession, UpsertSession, Accepted, Fallback,
                OnTurn, ReadTurnHead, Suspended, ClearActive, WriteNode, Completed, stored
  <2>3. CASE ClearActive(p)
    <3>1. activeStep' = 0 /\ UNCHANGED nodes /\ pc'[p] = "node"
      BY <2>3 DEF ClearActive, Goto, TypeOK, LocalsTyped
    <3>2. \A q \in Proc : pc'[q] \in {"node", "commit"} => loc'[q].start # 0
      BY <2>1, <2>3, <3>1 DEF Continues, Others, StepBegun, InStep, ClearActive
    <3> QED
      BY <2>1, <2>2, <3>1, <3>2 DEF Continues, Others, StepEnds
  <2>4. CASE WriteNode(p)
    <3>1. /\ Len(nodes') = Len(nodes) + 1 /\ Len(nodes) \in Nat
          /\ nodes'[Len(nodes) + 1].start = loc[p].start
          /\ \A i \in 1..Len(nodes) : nodes'[i] = nodes[i]
      <4>1. PICK n \in Node : nodes' = Append(nodes, n) /\ n.start = loc[p].start
        BY <2>4 DEF WriteNode, TypeOK, LocalsTyped, Local, Node
      <4> QED
        BY <4>1 DEF TypeOK, NodesTyped
    <3>2. UNCHANGED activeStep /\ pc[p] = "node"
      BY <2>4 DEF WriteNode
    <3> QED
      BY <2>1, <2>2, <3>1, <3>2 DEF Continues, Others, StepEnds
  <2>5. CASE ~ClearActive(p) /\ ~WriteNode(p)
    <3>1. UNCHANGED <<activeStep, nodes>> /\ pc'[p] \notin {"node", "commit"}
      BY <1>4, <2>5 DEF Going, Send, GetSession, CreateSession, UpsertSession, Accepted,
                Fallback, OnTurn, ReadTurnHead, Suspended, Completed, stored, Goto,
                TypeOK, LocalsTyped
    <3> QED
      BY <2>1, <2>2, <3>1 DEF Continues, Others, StepEnds
  <2> QED
    BY <2>3, <2>4, <2>5
<1>5. ASSUME NEW p \in Proc, Ceasing(p) PROVE StepEnds'
  <2>1. Ceases(p)
    BY <1>5, CeaseStep DEF Ceasing, TypeOK
  <2>2. UNCHANGED <<activeStep, nodes>>
    BY <1>5 DEF Ceasing, Commit, Leave, Throw, Kill, stored
  <2>3. head # 0 => head' # 0
    <3>1. CASE Commit(p)
      <4>1. PICK i \in 1..Len(nodes) : nodes[i].start = loc[p].start
        BY <3>1 DEF Commit, StepEnds
      <4> QED
        BY <3>1, <4>1 DEF Commit
    <3>2. CASE ~Commit(p)
      BY <1>5, <3>2 DEF Ceasing, Leave, Throw, Kill, stored
    <3> QED
      BY <3>1, <3>2
  <2> QED
    BY <2>1, <2>2, <2>3 DEF Ceases, Others, StepEnds
<1>6. CASE Restart \/ UNCHANGED vars
  BY <1>6 DEF Restart, vars, stored, StepEnds
<1> QED
  BY <1>1, <1>2, <1>3, <1>4, <1>5, <1>6, StepKinds

(* A node is written for a step that has begun and is not the active one. *)
LEMMA NodesStep ==
    StepInv /\ [Next]_vars =>
        NodesBegun' /\ ActiveUnwritten' /\ (NodesStarted => NodesStarted')
<1> DEFINE Kept == NodesBegun' /\ ActiveUnwritten' /\ (NodesStarted => NodesStarted')
<1> SUFFICES ASSUME StepInv, [Next]_vars PROVE Kept
  OBVIOUS
<1> USE DEF StepInv, NodesBegun, ActiveUnwritten, InFlightUnfinished, NodesStarted
<1>1. CASE UNCHANGED <<nodes, starts, activeStep>>
  BY <1>1
<1>2. ASSUME NEW p \in Proc, MarkActive(p) PROVE Kept
  <2>1. UNCHANGED nodes
    BY <1>2 DEF MarkActive
  <2>2. /\ Len(starts') = Len(starts) + 1 /\ Len(starts) \in Nat
        /\ activeStep' = Len(starts) + 1
    BY <1>2, MarkedStart
  <2> QED
    BY <2>1, <2>2
<1>3. ASSUME NEW p \in Proc, ClearActive(p) PROVE Kept
  BY <1>3 DEF ClearActive, TypeOK, StartsTyped
<1>4. ASSUME NEW p \in Proc, WriteNode(p) PROVE Kept
  <2>1. PICK n \in Node : nodes' = Append(nodes, n) /\ n.start = loc[p].start
    <3> DEFINE n == [start |-> loc[p].start, prev |-> loc[p].prev, role |-> loc[p].role,
                     kind |-> loc[p].kind, turnCount |-> loc[p].turns, agent |-> loc[p].route]
    <3>1. n \in Node
      BY DEF TypeOK, LocalsTyped, Local, Node
    <3>2. nodes' = Append(nodes, n)
      BY <1>4 DEF WriteNode
    <3> QED
      BY <3>1, <3>2
  <2>2. /\ Len(nodes') = Len(nodes) + 1 /\ Len(nodes) \in Nat
        /\ nodes'[Len(nodes) + 1].start = loc[p].start
        /\ \A i \in 1..Len(nodes) : nodes'[i] = nodes[i]
    BY <2>1 DEF TypeOK, NodesTyped
  <2>3. UNCHANGED <<starts, activeStep>> /\ loc[p].start \in 1..Len(starts)
        /\ loc[p].start # activeStep
    BY <1>4 DEF WriteNode, StepBegun, InStep, StepEnds
  <2> QED
    BY <2>2, <2>3
<1>5. ASSUME NEW p \in Proc, Going(p), ~ClearActive(p), ~WriteNode(p)
      PROVE UNCHANGED <<nodes, starts, activeStep>>
  BY <1>5 DEF Going, Send, GetSession, CreateSession, UpsertSession, Accepted, Fallback,
              OnTurn, ReadTurnHead, Suspended, Completed, stored
<1>6. ASSUME NEW p \in Proc, Ceasing(p) PROVE UNCHANGED <<nodes, starts, activeStep>>
  BY <1>6 DEF Ceasing, Commit, Leave, Throw, Kill, stored
<1>7. ASSUME NEW p \in Proc,
             \/ \E cmd \in Commands, g \in Gateway : Launch(p, cmd, g)
             \/ \E r \in Role : ReadHead(p, r)
      PROVE UNCHANGED <<nodes, starts, activeStep>>
  BY <1>7 DEF Launch, ReadHead, stored
<1>8. Restart \/ UNCHANGED vars => UNCHANGED <<nodes, starts, activeStep>>
  BY DEF Restart, vars, stored
<1> QED
  BY <1>1, <1>2, <1>3, <1>4, <1>5, <1>6, <1>7, <1>8, StepKinds

(* A session is stored, and sent to, after it was made. *)
LEMMA SessionsKnownStep == StepInv /\ [Next]_vars => SessionsKnown'
<1> SUFFICES ASSUME StepInv, [Next]_vars PROVE SessionsKnown'
  OBVIOUS
<1> USE DEF StepInv, SessionsKnown
<1>1. ASSUME NEW p \in Proc, Others(p), pc'[p] \notin {"upsert", "post"}, UNCHANGED sessions
      PROVE SessionsKnown'
  BY <1>1 DEF Others
<1>2. ASSUME NEW p \in Proc, NEW cmd \in Commands, NEW g \in Gateway, Launch(p, cmd, g)
      PROVE SessionsKnown'
  <2>1. Others(p) /\ pc'[p] = "between"
    BY <1>2, BeginStep
  <2> QED
    BY <1>1, <1>2, <2>1 DEF Launch, server
<1>3. ASSUME NEW p \in Proc, NEW r \in Role, ReadHead(p, r) PROVE SessionsKnown'
  <2>1. Others(p) /\ pc'[p] = "mark"
    BY <1>3, BeginStep
  <2> QED
    BY <1>1, <1>3, <2>1 DEF ReadHead, server
<1>4. ASSUME NEW p \in Proc, MarkActive(p) PROVE SessionsKnown'
  BY <1>1, <1>4, BeginStep DEF MarkActive, server
<1>5. ASSUME NEW p \in Proc, Going(p) PROVE SessionsKnown'
  <2>1. Continues(p)
    BY <1>5, ContinueStep DEF Going, TypeOK
  <2>2. CASE GetSession(p)
    <3>1. UNCHANGED sessions /\ pc'[p] \in {"create", "post"}
      BY <2>2 DEF GetSession, Goto, server, TypeOK, LocalsTyped
    <3>2. pc'[p] = "post" => loc'[p].sid \in 1..Len(sessions)
      BY <2>2 DEF GetSession, Goto, TypeOK, LocalsTyped, Local, SessionsTyped
    <3> QED
      BY <2>1, <3>1, <3>2 DEF Continues, Others
  <2>3. CASE CreateSession(p)
    <3>1. loc[p].gateway \in Gateway
      BY DEF TypeOK, LocalsTyped, Local
    <3>2. /\ Len(sessions') = Len(sessions) + 1 /\ Len(sessions) \in Nat
          /\ sessions'[Len(sessions) + 1] = loc[p].gateway
          /\ \A i \in 1..Len(sessions) : sessions'[i] = sessions[i]
      BY <2>3, <3>1 DEF CreateSession, TypeOK, SessionsTyped
    <3>3. loc'[p].sid = Len(sessions) + 1 /\ loc'[p].gateway = loc[p].gateway
      BY <2>3, <3>2 DEF CreateSession, TypeOK, LocalsTyped, Local
    <3> QED
      BY <2>1, <3>2, <3>3 DEF Continues, Others
  <2>4. CASE UpsertSession(p)
    BY <2>4 DEF UpsertSession, Goto, server, TypeOK, LocalsTyped
  <2>5. CASE ~GetSession(p) /\ ~CreateSession(p) /\ ~UpsertSession(p)
    <3>1. UNCHANGED sessions /\ pc'[p] \notin {"upsert", "post"}
      BY <1>5, <2>5 DEF Going, Send, Accepted, Fallback, OnTurn, ReadTurnHead, Suspended,
                ClearActive, WriteNode, Completed, Goto, server, TypeOK, LocalsTyped
    <3> QED
      BY <1>1, <2>1, <3>1 DEF Continues
  <2> QED
    BY <2>2, <2>3, <2>4, <2>5
<1>6. ASSUME NEW p \in Proc, Ceasing(p) PROVE SessionsKnown'
  <2>1. Ceases(p)
    BY <1>6, CeaseStep DEF Ceasing, TypeOK
  <2>2. UNCHANGED sessions
    BY <1>6 DEF Ceasing, Commit, Leave, Throw, Kill, server
  <2> QED
    BY <1>1, <2>1, <2>2 DEF Ceases
<1>7. CASE Restart \/ UNCHANGED vars
  BY <1>7 DEF Restart, vars, server
<1> QED
  BY <1>2, <1>3, <1>4, <1>5, <1>6, <1>7, StepKinds

-----------------------------------------------------------------------------
LEMMA StepInvInit == Init => StepInv
<1> SUFFICES ASSUME Init PROVE StepInv
  OBVIOUS
<1> USE DEF Init
<1>1. LocalsTyped
  BY BlankTyped DEF LocalsTyped, Labels
<1>2. Len(starts) = 0 /\ Len(nodes) = 0 /\ Len(sessions) = 0
  OBVIOUS
<1>3. StartsTyped
  <2>1. starts \in Seq({starts[i] : i \in 1..Len(starts)})
    BY EmptySeq
  <2> QED
    BY <1>2, <2>1 DEF StartsTyped
<1>4. NodesTyped
  <2>1. nodes \in Seq(Node) /\ turnHead \in Seq(Turn)
    BY EmptySeq
  <2> QED
    BY <1>2, <2>1 DEF NodesTyped
<1>5. SessionsTyped
  <2>1. sessions \in Seq(Gateway) /\ 0 <= MaxSessions
    BY EmptySeq, BoundsAssumption
  <2> QED
    BY <1>2, <2>1 DEF SessionsTyped
<1>6. StepBegun /\ StepEnds /\ SessionsKnown
  BY BlankTyped DEF StepBegun, InStep, StepEnds, SessionsKnown, Blank
<1>7. NodesBegun /\ ActiveUnwritten
  BY <1>2 DEF NodesBegun, ActiveUnwritten, InFlightUnfinished
<1> QED
  BY <1>1, <1>3, <1>4, <1>5, <1>6, <1>7 DEF StepInv, TypeOK

(* Types, and how a step begins and ends, for every number of processes. *)
THEOREM StepsAreInOrder == Spec => []StepInv
<1>1. StepInv /\ [Next]_vars => StepInv'
  BY LocalsStep, StoredStep, StepBegunStep, StepEndsStep, NodesStep, SessionsKnownStep
     DEF StepInv, TypeOK
<1> QED
  BY <1>1, StepInvInit, PTL DEF Spec

(* A reader that finds the active-step variable may say that the step is in *)
(* flight: no node of it exists.                                            *)
THEOREM ActiveIsUnfinished == Spec => []InFlightUnfinished
<1>1. Init => NodesStarted
  BY DEF Init, NodesStarted
<1>2. StepInv /\ NodesStarted /\ [Next]_vars => NodesStarted'
  BY NodesStep
<1>3. StepInv /\ NodesStarted => InFlightUnfinished
  BY DEF StepInv, NodesStarted, ActiveUnwritten, InFlightUnfinished
<1> QED
  BY <1>1, <1>2, <1>3, StepsAreInOrder, PTL DEF Spec

-----------------------------------------------------------------------------
(* The session store: while steps follow each other, a row is older than    *)
(* the first prompt sent to its session, and no other session the server    *)
(* remembers has heard a step of its role.                                  *)
Alone == mixed = {} => \A p, q \in Proc : InStep(p) /\ InStep(q) => p = q

GatewayKept == \A r \in Role : rows[r] # NoRow => rows[r].gateway = sessions[rows[r].sid]

HeardByStored ==
    mixed = {} =>
        \A s \in live, i \in 1..Len(starts) :
            i \in heard[s] => /\ rows[starts[i].role] # NoRow
                              /\ rows[starts[i].role].sid = s

NewUnheard == \A s \in SessionIds : s > Len(sessions) => heard[s] = {}

PostsToStored ==
    mixed = {} =>
        \A p \in Proc :
            pc[p] = "post" => /\ rows[loc[p].role] # NoRow
                              /\ rows[loc[p].role].sid = loc[p].sid

CreatesUnheard ==
    mixed = {} =>
        \A p \in Proc :
            pc[p] \in {"create", "upsert"} =>
                \A s \in live, i \in 1..Len(starts) :
                    starts[i].role = loc[p].role => i \notin heard[s]

SendInv ==
    /\ StepInv /\ Alone /\ GatewayKept /\ HeardByStored
    /\ NewUnheard /\ PostsToStored /\ CreatesUnheard

LEMMA AloneStep == SendInv /\ [Next]_vars => Alone'
<1> SUFFICES ASSUME SendInv, [Next]_vars PROVE Alone'
  OBVIOUS
<1> USE DEF SendInv, StepInv, Alone, InStep
<1>1. ASSUME NEW p \in Proc, Others(p), UNCHANGED mixed,
             pc'[p] \in {"idle", "between", "mark", "leave"} \/ InStep(p)
      PROVE Alone'
  BY <1>1 DEF Others
<1>2. ASSUME NEW p \in Proc, NEW cmd \in Commands, NEW g \in Gateway, Launch(p, cmd, g)
      PROVE Alone'
  <2>1. Others(p) /\ pc'[p] = "between"
    BY <1>2, BeginStep
  <2> QED
    BY <1>1, <1>2, <2>1 DEF Launch, history
<1>3. ASSUME NEW p \in Proc, NEW r \in Role, ReadHead(p, r) PROVE Alone'
  <2>1. Others(p) /\ pc'[p] = "mark"
    BY <1>3, BeginStep
  <2> QED
    BY <1>1, <1>3, <2>1 DEF ReadHead, history
<1>4. ASSUME NEW p \in Proc, MarkActive(p) PROVE Alone'
  <2>1. Others(p)
    BY <1>4, BeginStep
  <2>2. CASE {q \in Proc \ {p} : InStep(q)} = {}
    BY <1>4, <2>1, <2>2 DEF Others
  <2>3. CASE {q \in Proc \ {p} : InStep(q)} # {}
    <3>1. Len(starts) + 1 \in mixed'
      BY <1>4, <2>3 DEF MarkActive
    <3> QED
      BY <3>1
  <2> QED
    BY <2>2, <2>3
<1>5. ASSUME NEW p \in Proc, Going(p) PROVE Alone'
  <2>1. Continues(p)
    BY <1>5, ContinueStep DEF Going, TypeOK
  <2>2. InStep(p) /\ UNCHANGED mixed
    BY <1>5 DEF Going, Send, GetSession, CreateSession, UpsertSession, Accepted, Fallback,
                OnTurn, ReadTurnHead, Suspended, ClearActive, WriteNode, Completed, history
  <2> QED
    BY <1>1, <2>1, <2>2 DEF Continues
<1>6. ASSUME NEW p \in Proc, Ceasing(p) PROVE Alone'
  <2>1. Ceases(p)
    BY <1>6, CeaseStep DEF Ceasing, TypeOK
  <2>2. UNCHANGED mixed
    BY <1>6 DEF Ceasing, Commit, Leave, Throw, Kill, history
  <2> QED
    BY <1>1, <2>1, <2>2 DEF Ceases
<1>7. CASE Restart \/ UNCHANGED vars
  BY <1>7 DEF Restart, vars, history
<1> QED
  BY <1>2, <1>3, <1>4, <1>5, <1>6, <1>7, StepKinds

(* A step that leaves the store, the sessions and what they heard alone. *)
Stores == <<rows, starts, sessions, live, heard, mixed>>

StoreFits ==
    GatewayKept /\ HeardByStored /\ NewUnheard /\ PostsToStored /\ CreatesUnheard

LEMMA StoreKept ==
    ASSUME SendInv, NEW p \in Proc, Others(p), UNCHANGED Stores,
           pc'[p] \notin {"post", "create", "upsert"}
    PROVE  StoreFits'
BY DEF SendInv, Others, Stores, StoreFits, GatewayKept, HeardByStored, NewUnheard,
       PostsToStored, CreatesUnheard

(* The steps around broker.send, one by one. *)
LEMMA LiveKnown ==
    ASSUME TypeOK
    PROVE  \A s \in live : s \in SessionIds /\ heard[s] \subseteq 1..Len(starts)
<1>1. Len(sessions) \in Nat /\ Len(sessions) <= MaxSessions /\ MaxSessions \in Nat
  BY BoundsAssumption DEF TypeOK, SessionsTyped
<1>2. live \subseteq SessionIds
  BY <1>1 DEF TypeOK, SessionsTyped, SessionIds
<1> QED
  BY <1>2 DEF TypeOK, SessionsTyped

LEMMA MarkFits == ASSUME SendInv, NEW p \in Proc, MarkActive(p) PROVE StoreFits'
<1> USE DEF SendInv, StepInv, TypeOK
<1>1. /\ Others(p) /\ pc'[p] = "turnhead" /\ loc'[p].role = loc[p].role
      /\ UNCHANGED <<rows, sessions, live, heard>>
      /\ mixed \subseteq mixed'
  BY BeginStep DEF MarkActive, server
<1>2. /\ Len(starts') = Len(starts) + 1 /\ Len(starts) \in Nat
      /\ \A i \in 1..Len(starts) : starts'[i] = starts[i]
  BY MarkedStart
<1>3. \A s \in live : s \in SessionIds /\ heard[s] \subseteq 1..Len(starts)
  BY LiveKnown
<1>4. GatewayKept' /\ NewUnheard'
  BY <1>1 DEF GatewayKept, NewUnheard
<1>5. ASSUME mixed' = {}
      PROVE  \A s \in live, i \in 1..Len(starts') :
                 i \in heard[s] => /\ rows[starts'[i].role] # NoRow
                                   /\ rows[starts'[i].role].sid = s
  <2> TAKE s \in live, i \in 1..Len(starts')
  <2> HAVE i \in heard[s]
  <2>1. i \in 1..Len(starts) /\ starts'[i] = starts[i]
    BY <1>2, <1>3
  <2> QED
    BY <1>1, <1>5, <2>1 DEF HeardByStored
<1>6. HeardByStored' /\ PostsToStored'
  BY <1>1, <1>5 DEF HeardByStored, PostsToStored, Others
<1>7. CreatesUnheard'
  BY <1>1, <1>2, <1>3 DEF CreatesUnheard, Others
<1> QED
  BY <1>4, <1>6, <1>7 DEF StoreFits

LEMMA GetFits == ASSUME SendInv, NEW p \in Proc, GetSession(p) PROVE StoreFits'
<1> USE DEF SendInv, StepInv, TypeOK
<1>1. Continues(p) /\ UNCHANGED Stores
  BY ContinueStep DEF Send, GetSession, Stores, stored, server, history
<1>2. CASE rows[loc[p].role] = NoRow
  <2>1. pc'[p] = "create"
    BY <1>2 DEF GetSession, Goto, LocalsTyped
  <2>2. mixed = {} => \A s \in live, i \in 1..Len(starts) :
                          starts[i].role = loc[p].role => i \notin heard[s]
    BY <1>2 DEF HeardByStored
  <2> QED
    BY <1>1, <2>1, <2>2 DEF Continues, Others, Stores, StoreFits, GatewayKept, HeardByStored,
       NewUnheard, PostsToStored, CreatesUnheard
<1>3. CASE rows[loc[p].role] # NoRow
  <2>1. pc'[p] = "post" /\ loc'[p].sid = rows[loc[p].role].sid
    BY <1>3 DEF GetSession, Goto, LocalsTyped, Local
  <2> QED
    BY <1>1, <1>3, <2>1 DEF Continues, Others, Stores, StoreFits, GatewayKept, HeardByStored,
       NewUnheard, PostsToStored, CreatesUnheard
<1> QED
  BY <1>2, <1>3

LEMMA CreateFits == ASSUME SendInv, NEW p \in Proc, CreateSession(p) PROVE StoreFits'
<1> USE DEF SendInv, StepInv, TypeOK
<1>1. /\ Continues(p) /\ pc[p] = "create" /\ pc'[p] = "upsert"
      /\ UNCHANGED <<rows, starts, heard, mixed>>
  BY ContinueStep DEF Send, CreateSession, Goto, LocalsTyped, stored, history
<1>2. loc[p].gateway \in Gateway
  BY DEF LocalsTyped, Local
<1>3. /\ Len(sessions') = Len(sessions) + 1 /\ Len(sessions) \in Nat
      /\ \A i \in 1..Len(sessions) : sessions'[i] = sessions[i]
      /\ live' = live \cup {Len(sessions) + 1}
      /\ Len(sessions) + 1 \in SessionIds
  BY <1>2, BoundsAssumption DEF CreateSession, SessionsTyped, SessionIds
<1>4. heard[Len(sessions) + 1] = {}
  BY <1>3 DEF NewUnheard
<1>5. GatewayKept' /\ NewUnheard'
  BY <1>1, <1>3 DEF GatewayKept, NewUnheard, SessionsTyped, SessionIds
<1>6. HeardByStored'
  BY <1>1, <1>3, <1>4 DEF HeardByStored
<1>7. PostsToStored'
  BY <1>1 DEF PostsToStored, Continues, Others
<1>8. CreatesUnheard'
  BY <1>1, <1>3, <1>4 DEF CreatesUnheard, Continues, Others
<1> QED
  BY <1>5, <1>6, <1>7, <1>8 DEF StoreFits

LEMMA UpsertFits == ASSUME SendInv, NEW p \in Proc, UpsertSession(p) PROVE StoreFits'
<1> USE DEF SendInv, StepInv, TypeOK
<1>1. /\ Continues(p) /\ pc[p] = "upsert" /\ pc'[p] = "post"
      /\ UNCHANGED <<starts, sessions, live, heard, mixed>>
      /\ loc'[p] = loc[p]
  BY ContinueStep DEF Send, UpsertSession, Goto, LocalsTyped, server, history
<1>2. PICK row \in Row : row.sid = loc[p].sid /\ row.gateway = loc[p].gateway
                         /\ rows' = [rows EXCEPT ![loc[p].role] = row]
  <2>1. [gateway |-> loc[p].gateway, sid |-> loc[p].sid] \in Row
    BY DEF LocalsTyped, Local, Row
  <2> QED
    BY <2>1 DEF UpsertSession
<1>3. row # NoRow /\ loc[p].role \in Role
  BY NoRowAssumption DEF Row, LocalsTyped, Local
<1>4. /\ rows'[loc[p].role] = row
      /\ \A r \in Role \ {loc[p].role} : rows'[r] = rows[r]
  BY <1>2, <1>3 DEF SessionsTyped
<1>5. GatewayKept'
  BY <1>1, <1>2, <1>4 DEF GatewayKept, SessionsKnown
<1>6. HeardByStored'
  <2> SUFFICES ASSUME mixed = {}, NEW s \in live, NEW i \in 1..Len(starts), i \in heard[s]
               PROVE  rows'[starts[i].role] # NoRow /\ rows'[starts[i].role].sid = s
    BY <1>1 DEF HeardByStored
  <2>1. starts[i].role # loc[p].role
    BY <1>1 DEF CreatesUnheard
  <2>2. starts[i].role \in Role
    BY DEF StartsTyped
  <2> QED
    BY <1>4, <2>1, <2>2 DEF HeardByStored
<1>7. PostsToStored'
  <2> SUFFICES ASSUME mixed = {}, NEW q \in Proc, pc'[q] = "post"
               PROVE  rows'[loc'[q].role] # NoRow /\ rows'[loc'[q].role].sid = loc'[q].sid
    BY <1>1 DEF PostsToStored
  <2>1. CASE q = p
    BY <1>1, <1>2, <1>3, <1>4, <2>1
  <2>2. CASE q # p
    BY <1>1, <2>2 DEF Alone, InStep, Continues, Others
  <2> QED
    BY <2>1, <2>2
<1>8. CreatesUnheard' /\ NewUnheard'
  BY <1>1 DEF CreatesUnheard, NewUnheard, Continues, Others
<1> QED
  BY <1>5, <1>6, <1>7, <1>8 DEF StoreFits

LEMMA AcceptFits == ASSUME SendInv, NEW p \in Proc, Accepted(p) PROVE StoreFits'
<1> USE DEF SendInv, StepInv, TypeOK
<1>1. /\ Continues(p) /\ pc[p] = "post" /\ pc'[p] = "stream" /\ loc[p].sid \in live
      /\ UNCHANGED <<rows, starts, sessions, live, mixed>>
  BY ContinueStep DEF Send, Accepted, Goto, LocalsTyped, stored, server
<1>2. PICK v : heard' = [heard EXCEPT ![loc[p].sid] = v]
               /\ (v = heard[loc[p].sid] \cup {loc[p].start} \/ v = heard[loc[p].sid])
  BY DEF Accepted
<1>3. \A s \in SessionIds : \A i \in heard'[s] \ heard[s] : s = loc[p].sid /\ i = loc[p].start
  BY <1>2 DEF SessionsTyped
<1>4. live \subseteq SessionIds
  BY LiveKnown
<1>5. starts[loc[p].start].role = loc[p].role
  BY <1>1 DEF StepBegun, InStep
<1>6. GatewayKept' /\ PostsToStored'
  BY <1>1 DEF GatewayKept, PostsToStored, Continues, Others
<1>7. NewUnheard'
  BY <1>1, <1>3 DEF NewUnheard, SessionsTyped
<1>8. HeardByStored'
  BY <1>1, <1>3, <1>4, <1>5 DEF HeardByStored, PostsToStored
<1>9. CreatesUnheard'
  BY <1>1 DEF CreatesUnheard, Continues, Others, Alone, InStep
<1> QED
  BY <1>6, <1>7, <1>8, <1>9 DEF StoreFits

LEMMA FallbackFits == ASSUME SendInv, NEW p \in Proc, Fallback(p) PROVE StoreFits'
<1> USE DEF SendInv, StepInv, TypeOK
<1>1. /\ Continues(p) /\ pc[p] = "post" /\ pc'[p] = "create" /\ loc[p].sid \notin live
      /\ UNCHANGED Stores
  BY ContinueStep DEF Send, Fallback, Goto, LocalsTyped, Stores, stored, server, history
<1>2. mixed = {} => \A s \in live, i \in 1..Len(starts) :
                        starts[i].role = loc[p].role => i \notin heard[s]
  BY <1>1 DEF HeardByStored, PostsToStored
<1> QED
  BY <1>1, <1>2 DEF Continues, Others, Stores, StoreFits, GatewayKept, HeardByStored,
     NewUnheard, PostsToStored, CreatesUnheard

LEMMA StoreFitsStep == SendInv /\ [Next]_vars => StoreFits'
<1> SUFFICES ASSUME SendInv, [Next]_vars PROVE StoreFits'
  OBVIOUS
<1>1. TypeOK /\ LocalsTyped
  BY DEF SendInv, StepInv, TypeOK
<1>2. ASSUME NEW p \in Proc, NEW cmd \in Commands, NEW g \in Gateway, Launch(p, cmd, g)
      PROVE StoreFits'
  <2>1. Others(p) /\ pc'[p] = "between"
    BY <1>1, <1>2, BeginStep
  <2>2. UNCHANGED Stores
    BY <1>2 DEF Launch, Stores, server, history
  <2> QED
    BY <2>1, <2>2, StoreKept
<1>3. ASSUME NEW p \in Proc, NEW r \in Role, ReadHead(p, r) PROVE StoreFits'
  <2>1. Others(p) /\ pc'[p] = "mark"
    BY <1>1, <1>3, BeginStep
  <2>2. UNCHANGED Stores
    BY <1>3 DEF ReadHead, Stores, stored, server, history
  <2> QED
    BY <2>1, <2>2, StoreKept
<1>4. ASSUME NEW p \in Proc, Going(p) PROVE StoreFits'
  <2>1. CASE GetSession(p) \/ CreateSession(p) \/ UpsertSession(p) \/ Accepted(p) \/ Fallback(p)
    BY <2>1, GetFits, CreateFits, UpsertFits, AcceptFits, FallbackFits
  <2>2. CASE \/ OnTurn(p) \/ ReadTurnHead(p) \/ Suspended(p) \/ ClearActive(p) \/ WriteNode(p)
             \/ \E k \in {"ok", "suspend", "bad"} : Completed(p, k)
    <3>1. Others(p)
      BY <1>1, <1>4, ContinueStep DEF Going, Continues
    <3>2. UNCHANGED Stores /\ pc'[p] \notin {"post", "create", "upsert"}
      BY <1>1, <2>2 DEF OnTurn, ReadTurnHead, Suspended, ClearActive, WriteNode, Completed,
         Goto, LocalsTyped, Stores, stored, server, history
    <3> QED
      BY <3>1, <3>2, StoreKept
  <2> QED
    BY <1>4, <2>1, <2>2 DEF Going, Send
<1>5. ASSUME NEW p \in Proc, Ceasing(p) PROVE StoreFits'
  <2>1. Others(p) /\ pc'[p] \notin {"post", "create", "upsert"}
    BY <1>1, <1>5, CeaseStep DEF Ceasing, Ceases
  <2>2. UNCHANGED Stores
    BY <1>5 DEF Ceasing, Commit, Leave, Throw, Kill, Stores, stored, server, history
  <2> QED
    BY <2>1, <2>2, StoreKept
<1>6. CASE Restart
  BY <1>6 DEF Restart, stored, history, SendInv, StoreFits, GatewayKept, HeardByStored,
     NewUnheard, PostsToStored, CreatesUnheard
<1>7. CASE UNCHANGED vars
  BY <1>7 DEF vars, stored, server, history, SendInv, StoreFits, GatewayKept, HeardByStored,
     NewUnheard, PostsToStored, CreatesUnheard
<1> QED
  BY <1>2, <1>3, <1>4, <1>5, <1>6, <1>7, MarkFits, StepKinds

(* Write before stream: a conversation that the server remembers is the one *)
(* the store knows, unless two processes were in a step at once.            *)
THEOREM RememberedIsStored == Spec => []StoreKnowsSession
<1>1. Init => SendInv
  <2> SUFFICES ASSUME Init PROVE SendInv
    OBVIOUS
  <2>1. StepInv
    BY StepInvInit
  <2>2. Alone /\ GatewayKept /\ PostsToStored /\ CreatesUnheard
    BY DEF Init, Alone, InStep, GatewayKept, PostsToStored, CreatesUnheard
  <2>3. HeardByStored /\ NewUnheard
    BY DEF Init, HeardByStored, NewUnheard
  <2> QED
    BY <2>1, <2>2, <2>3 DEF SendInv
<1>2. StepInv /\ [Next]_vars => StepInv'
  BY LocalsStep, StoredStep, StepBegunStep, StepEndsStep, NodesStep, SessionsKnownStep
     DEF StepInv, TypeOK
<1>3. SendInv /\ [Next]_vars => SendInv'
  BY <1>2, AloneStep, StoreFitsStep DEF SendInv, StoreFits
<1>4. SendInv => StoreKnowsSession
  BY DEF SendInv, GatewayKept, HeardByStored, StoreKnowsSession
<1> QED
  BY <1>1, <1>3, <1>4, PTL DEF Spec
-----------------------------------------------------------------------------
(* Corrections: while no other process runs a step beside it, a step finds  *)
(* in the store the one session that the server may remember it by.         *)
Solo == \A p, q \in Proc : InStep(p) /\ InStep(q) /\ p # q => loc[p].start \in mixed

HeardIn(s) == {x \in live : s \in heard[x]}

Talk(p) ==
    LET known == HeardIn(loc[p].start)
        row == rows[loc[p].role]
    IN  InStep(p) /\ loc[p].start \notin mixed =>
        /\ pc[p] \in {"turnhead", "get"} => \A x \in known : row # NoRow /\ row.sid = x
        /\ pc[p] \in {"create", "upsert"} => known = {}
        /\ pc[p] \in {"post", "stream"} =>
                row # NoRow /\ row.sid = loc[p].sid /\ known \subseteq {loc[p].sid}

TalkInv == StepInv /\ NewUnheard /\ Solo /\ \A p \in Proc : Talk(p)

(* What the commands around a step leave alone. *)
Outside(p) ==
    \/ \E cmd \in Commands, g \in Gateway : Launch(p, cmd, g)
    \/ \E r \in Role : ReadHead(p, r)

LEMMA OutsideKeeps ==
    ASSUME NEW p \in Proc, Outside(p)
    PROVE  UNCHANGED <<rows, turnHead, starts, nodes, sessions, live, heard, mixed>>
<1>1. ASSUME NEW cmd \in Commands, NEW g \in Gateway, Launch(p, cmd, g)
      PROVE  UNCHANGED <<rows, turnHead, starts, nodes, sessions, live, heard, mixed>>
  BY <1>1 DEF Launch, server, history
<1>2. ASSUME NEW r \in Role, ReadHead(p, r)
      PROVE  UNCHANGED <<rows, turnHead, starts, nodes, sessions, live, heard, mixed>>
  BY <1>2 DEF ReadHead, stored, server, history
<1> QED
  BY <1>1, <1>2 DEF Outside

LEMMA GoingKeeps ==
    ASSUME NEW p \in Proc, Going(p)
    PROVE  UNCHANGED <<starts, mixed>>
<1>1. CASE Send(p)
  BY <1>1 DEF Send, GetSession, CreateSession, UpsertSession, Accepted, Fallback, OnTurn, stored,
              history
<1>2. CASE ~Send(p)
  BY <1>2 DEF Going, ReadTurnHead, Suspended, ClearActive, WriteNode, Completed, stored, history
<1> QED
  BY <1>1, <1>2

LEMMA CeasingKeeps ==
    ASSUME NEW p \in Proc, Ceasing(p)
    PROVE  UNCHANGED <<rows, turnHead, starts, nodes, sessions, live, heard, mixed>>
BY DEF Ceasing, Commit, Leave, Throw, Kill, stored, server, history

(* What a step of one process leaves to the others. *)
LEMMA MixedGrows == [Next]_vars => mixed \subseteq mixed'
<1>1. ASSUME NEW p \in Proc, MarkActive(p) PROVE mixed \subseteq mixed'
  BY <1>1 DEF MarkActive
<1>2. ASSUME NEW p \in Proc, Going(p) \/ Ceasing(p) PROVE UNCHANGED mixed
  BY <1>2, GoingKeeps, CeasingKeeps
<1>3. ASSUME NEW p \in Proc, Outside(p) PROVE UNCHANGED mixed
  BY <1>3, OutsideKeeps
<1>4. Restart \/ UNCHANGED vars => UNCHANGED mixed
  BY DEF Restart, vars, history
<1> QED
  BY <1>1, <1>2, <1>3, <1>4, StepKinds DEF Outside

LEMMA GoingInStep ==
    ASSUME LocalsTyped, NEW p \in Proc, Going(p)
    PROVE  Continues(p) /\ InStep(p)
<1>1. Continues(p)
  BY ContinueStep DEF Going
<1> QED
  BY <1>1 DEF Going, Send, GetSession, CreateSession, UpsertSession, Accepted, Fallback,
         OnTurn, ReadTurnHead, Suspended, ClearActive, WriteNode, Completed, InStep

LEMMA SoloStep == TypeOK /\ Solo /\ [Next]_vars => Solo'
<1> SUFFICES ASSUME TypeOK, Solo, [Next]_vars PROVE Solo'
  OBVIOUS
<1>0. mixed \subseteq mixed' /\ LocalsTyped
  BY MixedGrows DEF TypeOK
<1> USE DEF Solo, InStep
<1>1. ASSUME NEW p \in Proc, Others(p), pc'[p] \in {"idle", "between", "mark", "leave"}
      PROVE Solo'
  BY <1>0, <1>1 DEF Others
<1>2. ASSUME NEW p \in Proc, MarkActive(p) PROVE Solo'
  <2>1. Others(p) /\ loc'[p].start = Len(starts) + 1
    BY <1>2, BeginStep
  <2>2. \A q \in Proc \ {p} :
            InStep(q) => Len(starts) + 1 \in mixed' /\ loc[q].start \in mixed'
    BY <1>2 DEF MarkActive
  <2> QED
    BY <2>1, <2>2 DEF Others
<1>3. ASSUME NEW p \in Proc, Going(p) PROVE Solo'
  BY <1>0, <1>3, GoingInStep DEF Continues, Others
<1>4. ASSUME NEW p \in Proc, Ceasing(p) PROVE Solo'
  BY <1>0, <1>1, <1>4, CeaseStep DEF Ceasing, Ceases
<1>5. ASSUME NEW p \in Proc, Outside(p) PROVE Solo'
  BY <1>1, <1>5, BeginStep DEF Outside
<1>6. CASE Restart \/ UNCHANGED vars
  BY <1>6 DEF Restart, vars, history
<1> QED
  BY <1>2, <1>3, <1>4, <1>5, <1>6, StepKinds DEF Outside

LEMMA TalkOfOthers ==
    ASSUME TalkInv, NEW p \in Proc, Others(p), mixed \subseteq mixed',
           InStep(p) \/ UNCHANGED <<rows, live, heard>>, NEW q \in Proc \ {p}
    PROVE  Talk(q)'
<1> SUFFICES ASSUME InStep(q)', loc'[q].start \notin mixed' PROVE Talk(q)'
  BY DEF Talk
<1>1. InStep(q) /\ loc[q].start \notin mixed /\ pc'[q] = pc[q] /\ loc'[q] = loc[q]
  BY DEF Others, InStep
<1>2. UNCHANGED <<rows, live, heard>>
  BY <1>1 DEF TalkInv, Solo
<1> QED
  BY <1>1, <1>2 DEF TalkInv, Talk, HeardIn

LEMMA TalkGoes ==
    ASSUME TalkInv, NEW p \in Proc, Going(p)
    PROVE  Talk(p)'
<1> USE DEF TalkInv, StepInv, TypeOK
<1>1. /\ Continues(p) /\ InStep(p) /\ LocalsTyped /\ UNCHANGED <<mixed, starts>>
  BY GoingInStep, GoingKeeps
<1> DEFINE s == loc[p].start
           r == loc[p].role
<1>2. loc'[p].start = s /\ loc'[p].role = r /\ r \in Role
  BY <1>1 DEF Continues, LocalsTyped, Local
<1> SUFFICES ASSUME s \notin mixed PROVE Talk(p)'
  BY <1>1, <1>2 DEF Talk
<1>3. CASE GetSession(p)
  <2>1. UNCHANGED <<rows, live, heard>> /\ \A x \in HeardIn(s) : rows[r] # NoRow /\ rows[r].sid = x
    BY <1>1, <1>3 DEF GetSession, Talk, stored, server, history
  <2>2. \/ pc'[p] = "create" /\ rows[r] = NoRow
        \/ pc'[p] = "post" /\ rows[r] # NoRow /\ loc'[p].sid = rows[r].sid
    BY <1>3 DEF GetSession, Goto, LocalsTyped, Local
  <2> QED
    BY <1>2, <2>1, <2>2 DEF Talk, HeardIn
<1>4. CASE CreateSession(p)
  <2>1. pc[p] = "create" /\ pc'[p] = "upsert" /\ UNCHANGED heard /\ HeardIn(s) = {}
    BY <1>1, <1>4 DEF CreateSession, Talk, Goto, LocalsTyped, history
  <2>2. loc[p].gateway \in Gateway
    BY DEF LocalsTyped, Local
  <2>3. live' = live \cup {Len(sessions) + 1} /\ heard[Len(sessions) + 1] = {}
    <3>1. /\ Len(sessions') = Len(sessions) + 1 /\ Len(sessions) \in Nat
          /\ Len(sessions) + 1 \in SessionIds
      BY <1>4, <2>2, BoundsAssumption DEF CreateSession, SessionsTyped, SessionIds
    <3> QED
      BY <1>4, <3>1 DEF CreateSession, NewUnheard
  <2> QED
    BY <1>2, <2>1, <2>3 DEF Talk, HeardIn
<1>5. CASE UpsertSession(p)
  <2>1. /\ pc[p] = "upsert" /\ pc'[p] = "post" /\ UNCHANGED <<live, heard>> /\ HeardIn(s) = {}
        /\ loc'[p] = loc[p]
    BY <1>1, <1>5 DEF UpsertSession, Talk, Goto, LocalsTyped, server, history
  <2>2. PICK row \in Row : row.sid = loc[p].sid /\ rows' = [rows EXCEPT ![r] = row]
    <3>1. [gateway |-> loc[p].gateway, sid |-> loc[p].sid] \in Row
      BY DEF LocalsTyped, Local, Row
    <3> QED
      BY <1>5, <3>1 DEF UpsertSession
  <2>3. rows'[r] = row /\ row # NoRow
    BY <1>2, <2>2, NoRowAssumption DEF Row, SessionsTyped
  <2> QED
    BY <2>1, <2>2, <2>3 DEF Talk, HeardIn
<1>6. CASE Accepted(p)
  <2>1. /\ pc[p] = "post" /\ pc'[p] = "stream" /\ UNCHANGED <<rows, live>>
        /\ loc'[p].sid = loc[p].sid
        /\ rows[r] # NoRow /\ rows[r].sid = loc[p].sid /\ HeardIn(s) \subseteq {loc[p].sid}
    <3>1. /\ pc[p] = "post" /\ pc'[p] = "stream" /\ UNCHANGED <<rows, live>>
          /\ loc' = [loc EXCEPT ![p] = [loc[p] EXCEPT !.now = 0]]
      BY <1>6 DEF Accepted, Goto, LocalsTyped, stored, server
    <3>2. loc'[p].sid = loc[p].sid
      BY <3>1 DEF LocalsTyped, Local
    <3> QED
      BY <1>1, <3>1, <3>2 DEF Talk
  <2>2. PICK v : heard' = [heard EXCEPT ![loc[p].sid] = v]
    BY <1>6 DEF Accepted
  <2>3. \A x \in live : x \in SessionIds
    BY LiveKnown
  <2>4. HeardIn(s)' \subseteq {loc[p].sid}
    <3>1. \A x \in live : x # loc[p].sid => heard'[x] = heard[x]
      BY <2>2, <2>3 DEF SessionsTyped
    <3> QED
      BY <1>2, <2>1, <3>1 DEF HeardIn
  <2> QED
    BY <1>2, <2>1, <2>4 DEF Talk, HeardIn
<1>7. CASE Fallback(p)
  <2>1. /\ pc'[p] = "create" /\ loc[p].sid \notin live /\ UNCHANGED <<rows, live, heard>>
        /\ HeardIn(s) \subseteq {loc[p].sid}
    BY <1>1, <1>7 DEF Fallback, Talk, Goto, LocalsTyped, stored, server, history
  <2> QED
    BY <1>2, <2>1 DEF Talk, HeardIn
<1>8. CASE \/ OnTurn(p) \/ ReadTurnHead(p) \/ Suspended(p) \/ ClearActive(p) \/ WriteNode(p)
           \/ \E k \in {"ok", "suspend", "bad"} : Completed(p, k)
  <2>1. UNCHANGED <<rows, live, heard>>
    BY <1>8 DEF OnTurn, ReadTurnHead, Suspended, ClearActive, WriteNode, Completed, stored,
       server, history
  <2>2. \/ pc[p] = "stream" /\ pc'[p] = "stream" /\ loc'[p].sid = loc[p].sid
        \/ pc[p] \in {"turnhead", "stream"} /\ pc'[p] = "get"
        \/ pc'[p] \in {"clear", "node", "commit"}
    BY <1>8 DEF OnTurn, ReadTurnHead, Suspended, ClearActive, WriteNode, Completed, Goto,
       LocalsTyped, Local
  <2> QED
    BY <1>1, <1>2, <2>1, <2>2 DEF Talk, HeardIn
<1> QED
  BY <1>3, <1>4, <1>5, <1>6, <1>7, <1>8 DEF Going, Send

(* A session hears something when a prompt is accepted, and is made before. *)
LEMMA UnheardStep == StepInv /\ NewUnheard /\ [Next]_vars => NewUnheard'
<1> SUFFICES ASSUME StepInv, NewUnheard, [Next]_vars PROVE NewUnheard'
  OBVIOUS
<1> USE DEF StepInv, TypeOK
<1>1. CASE UNCHANGED <<heard, sessions>>
  BY <1>1 DEF NewUnheard
<1>2. ASSUME NEW p \in Proc, CreateSession(p) PROVE NewUnheard'
  <2>1. loc[p].gateway \in Gateway
    BY DEF LocalsTyped, Local
  <2>2. Len(sessions') = Len(sessions) + 1 /\ Len(sessions) \in Nat /\ UNCHANGED heard
    BY <1>2, <2>1 DEF CreateSession, SessionsTyped, history
  <2> QED
    BY <2>2 DEF NewUnheard, SessionIds
<1>3. ASSUME NEW p \in Proc, Accepted(p) PROVE NewUnheard'
  <2>1. PICK v : heard' = [heard EXCEPT ![loc[p].sid] = v]
    BY <1>3 DEF Accepted
  <2>2. loc[p].sid \in live /\ UNCHANGED sessions
    BY <1>3 DEF Accepted, server
  <2> QED
    BY <2>1, <2>2 DEF NewUnheard, SessionsTyped
<1>4. ASSUME NEW p \in Proc, Going(p), ~CreateSession(p), ~Accepted(p)
      PROVE UNCHANGED <<heard, sessions>>
  BY <1>4 DEF Going, Send, GetSession, UpsertSession, Fallback, OnTurn, ReadTurnHead, Suspended,
              ClearActive, WriteNode, Completed, server, history
<1>5. ASSUME NEW p \in Proc, Ceasing(p) \/ Outside(p) \/ MarkActive(p)
      PROVE UNCHANGED <<heard, sessions>>
  <2>1. MarkActive(p) => UNCHANGED <<heard, sessions>>
    BY DEF MarkActive, server
  <2> QED
    BY <1>5, <2>1, CeasingKeeps, OutsideKeeps
<1>6. Restart \/ UNCHANGED vars => UNCHANGED <<heard, sessions>>
  BY DEF Restart, vars, server, history
<1> QED
  BY <1>1, <1>2, <1>3, <1>4, <1>5, <1>6, StepKinds DEF Outside

LEMMA TalkStep == TalkInv /\ [Next]_vars => \A p \in Proc : Talk(p)'
<1> SUFFICES ASSUME TalkInv, [Next]_vars PROVE \A p \in Proc : Talk(p)'
  OBVIOUS
<1>0. mixed \subseteq mixed' /\ TypeOK /\ LocalsTyped
  BY MixedGrows DEF TalkInv, StepInv, TypeOK
<1>1. ASSUME NEW p \in Proc, Others(p), UNCHANGED <<rows, live, heard>>,
             pc'[p] \in {"idle", "between", "mark", "leave"}
      PROVE \A q \in Proc : Talk(q)'
  <2>1. Talk(p)'
    BY <1>1 DEF Talk, InStep
  <2> QED
    BY <1>0, <1>1, <2>1, TalkOfOthers
<1>2. ASSUME NEW p \in Proc, Going(p) PROVE \A q \in Proc : Talk(q)'
  BY <1>0, <1>2, GoingInStep, TalkGoes, TalkOfOthers DEF Continues
<1>3. ASSUME NEW p \in Proc, MarkActive(p) PROVE \A q \in Proc : Talk(q)'
  <2>1. /\ Others(p) /\ pc'[p] = "turnhead" /\ loc'[p].start = Len(starts) + 1
        /\ UNCHANGED <<rows, live, heard>> /\ Len(starts) \in Nat
    <3>1. UNCHANGED <<rows, live, heard>>
      BY <1>3 DEF MarkActive, server
    <3> QED
      BY <1>0, <1>3, <3>1, BeginStep, MarkedStart
  <2>2. \A x \in live : heard[x] \subseteq 1..Len(starts)
    BY <1>0, LiveKnown
  <2>3. Talk(p)'
    BY <2>1, <2>2 DEF Talk, HeardIn
  <2> QED
    BY <1>0, <2>1, <2>3, TalkOfOthers
<1>4. ASSUME NEW p \in Proc, Ceasing(p) PROVE \A q \in Proc : Talk(q)'
  <2>1. Others(p) /\ pc'[p] \in {"idle", "between", "leave"}
    BY <1>0, <1>4, CeaseStep DEF Ceasing, Ceases
  <2> QED
    BY <1>1, <1>4, <2>1, CeasingKeeps
<1>5. ASSUME NEW p \in Proc, Outside(p) PROVE \A q \in Proc : Talk(q)'
  <2>1. Others(p) /\ pc'[p] \in {"between", "mark"}
    BY <1>0, <1>5, BeginStep DEF Outside
  <2> QED
    BY <1>1, <1>5, <2>1, OutsideKeeps
<1>6. CASE Restart
  <2>1. live' = {} /\ UNCHANGED <<rows, heard, mixed, pc, loc>>
    BY <1>6 DEF Restart, stored, history
  <2> QED
    BY <2>1 DEF TalkInv, Talk, HeardIn, InStep
<1>7. CASE UNCHANGED vars
  BY <1>7 DEF vars, stored, server, history, TalkInv, Talk, HeardIn, InStep
<1> QED
  BY <1>2, <1>3, <1>4, <1>5, <1>6, <1>7, StepKinds DEF Outside

(* A correction goes to the session that heard the step's first prompt,     *)
(* unless the server has lost that session or another process ran a step    *)
(* meanwhile.                                                               *)
THEOREM CorrectionsStay == Spec => []CorrectionInContext
<1>1. Init => TalkInv
  <2> SUFFICES ASSUME Init PROVE TalkInv
    OBVIOUS
  <2>1. NewUnheard /\ Solo /\ \A p \in Proc : Talk(p)
    BY DEF Init, NewUnheard, Solo, Talk, InStep
  <2> QED
    BY <2>1, StepInvInit DEF TalkInv
<1>2. StepInv /\ [Next]_vars => StepInv'
  BY LocalsStep, StoredStep, StepBegunStep, StepEndsStep, NodesStep, SessionsKnownStep
     DEF StepInv, TypeOK
<1>3. TalkInv /\ [Next]_vars => TalkInv'
  BY <1>2, UnheardStep, SoloStep, TalkStep DEF TalkInv, StepInv
<1>4. TalkInv => CorrectionInContext
  BY DEF TalkInv, Talk, HeardIn, InStep, CorrectionInContext
<1> QED
  BY <1>1, <1>3, <1>4, PTL DEF Spec
-----------------------------------------------------------------------------
(* Turn counts: a step that no other overlaps finds the thread's chain as   *)
(* it left it, and a later step goes on from a chain that holds its turns.  *)
LEMMA CountsAreNumbers ==
    ASSUME NEW chain \in Seq(Turn), NEW s
    PROVE  /\ IsFiniteSet({j \in 1..Len(chain) : chain[j].owner = s})
           /\ TurnCount(chain, s) \in Nat
<1>1. IsFiniteSet(1..Len(chain))
  BY FS_Interval
<1>2. IsFiniteSet({j \in 1..Len(chain) : chain[j].owner = s})
  BY <1>1, FS_Subset
<1> QED
  BY <1>2, FS_CardinalityType DEF TurnCount

LEMMA CountOne ==
    ASSUME NEW chain \in Seq(Turn), NEW t \in Turn, NEW s
    PROVE  TurnCount(Append(chain, t), s) = TurnCount(chain, s) + (IF t.owner = s THEN 1 ELSE 0)
<1> DEFINE longer == Append(chain, t)
           n == Len(chain)
           old == {j \in 1..n : chain[j].owner = s}
           new == {j \in 1..Len(longer) : longer[j].owner = s}
<1>1. /\ n \in Nat /\ Len(longer) = n + 1 /\ longer[n + 1] = t
      /\ \A j \in 1..n : longer[j] = chain[j]
  BY AppendProperties
<1>2. IsFiniteSet(old) /\ Cardinality(old) \in Nat
  BY CountsAreNumbers DEF TurnCount
<1>3. CASE t.owner = s
  <2>1. new = old \cup {n + 1} /\ n + 1 \notin old
    <3> HIDE DEF longer
    <3> QED
      BY <1>1, <1>3
  <2>2. Cardinality(new) = Cardinality(old) + 1
    <3> HIDE DEF new, old
    <3> QED
      BY <1>2, <2>1, FS_AddElement
  <2> QED
    BY <1>3, <2>2 DEF TurnCount
<1>4. CASE t.owner # s
  <2>1. new = old
    <3> HIDE DEF longer
    <3> QED
      BY <1>1, <1>4
  <2>2. TurnCount(longer, s) = TurnCount(chain, s)
    BY <2>1 DEF TurnCount
  <2>3. TurnCount(chain, s) \in Nat
    BY CountsAreNumbers
  <2> QED
    BY <1>4, <2>2, <2>3
<1> QED
  BY <1>3, <1>4

LEMMA CountNone ==
    ASSUME NEW chain \in Seq(Turn), NEW s, \A j \in 1..Len(chain) : chain[j].owner # s
    PROVE  TurnCount(chain, s) = 0
BY FS_EmptySet DEF TurnCount

Chaining == {"get", "create", "upsert", "post", "stream"}

\* No two processes work on one step.
Apart == \A p, q \in Proc : InStep(p) /\ InStep(q) /\ p # q => loc[p].start # loc[q].start

\* A turn belongs to a step that has begun.
OwnersBegun ==
    /\ \A j \in 1..Len(turnHead) : turnHead[j].owner \in 1..Len(starts)
    /\ \A p \in Proc : \A j \in 1..Len(loc[p].chain) : loc[p].chain[j].owner \in 1..Len(starts)

\* A step under way has no node.
Unwritten ==
    \A p \in Proc :
        InStep(p) /\ pc[p] # "commit" => \A i \in 1..Len(nodes) : nodes[i].start # loc[p].start

\* What a process appends to holds the turns of the steps that nobody overlapped.
Agrees(p) ==
    pc[p] \in Chaining =>
        \A s \in (1..Len(starts)) \ mixed : TurnCount(loc[p].chain, s) = TurnCount(turnHead, s)

Counts(p) ==
    InStep(p) /\ loc[p].start \notin mixed => TurnCount(turnHead, loc[p].start) = loc[p].turns

TallyInv ==
    /\ StepInv /\ Solo /\ Apart /\ OwnersBegun /\ Unwritten
    /\ \A p \in Proc : Agrees(p) /\ Counts(p)

CountInv == TallyInv /\ NodesStarted /\ DetailCountsTurns
LEMMA ApartStep == StepInv /\ Apart /\ [Next]_vars => Apart'
<1> SUFFICES ASSUME StepInv, Apart, [Next]_vars PROVE Apart'
  OBVIOUS
<1>0. TypeOK /\ LocalsTyped /\ StepBegun
  BY DEF StepInv, TypeOK
<1> USE DEF Apart, InStep
<1>1. ASSUME NEW p \in Proc, Others(p), pc'[p] \in {"idle", "between", "mark", "leave"}
      PROVE Apart'
  BY <1>1 DEF Others
<1>2. ASSUME NEW p \in Proc, MarkActive(p) PROVE Apart'
  <2>1. Others(p) /\ loc'[p].start = Len(starts) + 1 /\ Len(starts) \in Nat
    BY <1>0, <1>2, BeginStep, MarkedStart
  <2>2. \A q \in Proc : InStep(q) => loc[q].start # Len(starts) + 1
    BY <1>0, <2>1 DEF StepBegun
  <2> QED
    BY <2>1, <2>2 DEF Others
<1>3. ASSUME NEW p \in Proc, Going(p) PROVE Apart'
  BY <1>0, <1>3, GoingInStep DEF Continues, Others
<1>4. ASSUME NEW p \in Proc, Ceasing(p) PROVE Apart'
  BY <1>0, <1>1, <1>4, CeaseStep DEF Ceasing, Ceases
<1>5. ASSUME NEW p \in Proc, Outside(p) PROVE Apart'
  BY <1>0, <1>1, <1>5, BeginStep DEF Outside
<1>6. CASE Restart \/ UNCHANGED vars
  BY <1>6 DEF Restart, vars
<1> QED
  BY <1>2, <1>3, <1>4, <1>5, <1>6, StepKinds DEF Outside

(* What a step does to the chain, the count and the step of its process. *)
Quiet(p) == Going(p) /\ ~OnTurn(p) /\ ~ReadTurnHead(p)

LEMMA QuietStep ==
    ASSUME LocalsTyped, NEW p \in Proc, Quiet(p)
    PROVE  /\ UNCHANGED turnHead
           /\ loc'[p].turns = loc[p].turns
           /\ \/ pc[p] \in Chaining /\ pc'[p] \in Chaining /\ loc'[p].chain = loc[p].chain
              \/ pc'[p] \notin Chaining /\ loc'[p].chain \in {loc[p].chain, <<>>}
<1> USE DEF LocalsTyped, Goto, Chaining
<1>1. CASE GetSession(p) \/ CreateSession(p) \/ Accepted(p)
  BY <1>1 DEF GetSession, CreateSession, Accepted, Local, stored
<1>2. CASE UpsertSession(p) \/ Fallback(p) \/ ClearActive(p) \/ WriteNode(p)
  BY <1>2 DEF UpsertSession, Fallback, ClearActive, WriteNode, stored
<1>3. \A l \in Local, kind \in {"ok", "suspend", "error"} :
        Answered(l, kind).chain = <<>> /\ Answered(l, kind).turns = l.turns
  BY DEF Answered, Local
<1>4. CASE Suspended(p)
  BY <1>3, <1>4 DEF Suspended, stored
<1>5. ASSUME NEW k \in {"ok", "suspend", "bad"}, Completed(p, k)
      PROVE  /\ UNCHANGED turnHead
             /\ loc'[p].turns = loc[p].turns
             /\ \/ pc[p] \in Chaining /\ pc'[p] \in Chaining /\ loc'[p].chain = loc[p].chain
                \/ pc'[p] \notin Chaining /\ loc'[p].chain \in {loc[p].chain, <<>>}
  <2>1. CASE k = "bad" /\ loc[p].retry < MaxRetries
    BY <1>5, <2>1 DEF Completed, Local, stored
  <2>2. CASE ~(k = "bad" /\ loc[p].retry < MaxRetries)
    BY <1>3, <1>5, <2>2 DEF Completed, stored
  <2> QED
    BY <2>1, <2>2
<1> QED
  BY <1>1, <1>2, <1>4, <1>5 DEF Quiet, Going, Send

LEMMA AwayStep ==
    ASSUME TypeOK, NEW p \in Proc, Outside(p) \/ Ceasing(p)
    PROVE  Others(p) /\ pc'[p] \in {"idle", "between", "mark", "leave"}
           /\ loc'[p].chain \in {loc[p].chain, <<>>}
<1> USE DEF TypeOK, LocalsTyped
<1>1. Blank \in Local /\ Blank.chain = <<>>
  BY BlankTyped DEF Blank
<1>2. \A l \in Local : Between(l).chain = <<>>
  BY <1>1 DEF Between, Local
<1>3. ASSUME NEW cmd \in Commands, NEW g \in Gateway, Launch(p, cmd, g)
      PROVE loc'[p].chain = <<>>
  BY <1>1, <1>3 DEF Launch, Local
<1>4. ASSUME NEW r \in Role, ReadHead(p, r) PROVE loc'[p].chain = loc[p].chain
  BY <1>4 DEF ReadHead, Local
<1>5. Ceasing(p) => loc'[p].chain = <<>>
  BY <1>1, <1>2 DEF Ceasing, Commit, Throw, Leave, Kill
<1>6. Outside(p) => Others(p) /\ pc'[p] \in {"between", "mark"}
  BY BeginStep DEF Outside
<1>7. Ceasing(p) => Others(p) /\ pc'[p] \in {"idle", "between", "leave"}
  BY CeaseStep DEF Ceasing, Ceases
<1> QED
  BY <1>3, <1>4, <1>5, <1>6, <1>7 DEF Outside

LEMMA TurnAdded ==
    ASSUME TypeOK, NEW p \in Proc, OnTurn(p)
    PROVE  \E t \in Turn :
              /\ t.owner = loc[p].start /\ t.nth = loc[p].turns + 1
              /\ turnHead' = Append(loc[p].chain, t) /\ loc'[p].chain = turnHead'
              /\ loc'[p].turns = loc[p].turns + 1 /\ loc[p].turns \in Nat
              /\ loc[p].chain \in Seq(Turn) /\ pc[p] = "stream" /\ pc'[p] = "stream"
              /\ UNCHANGED <<starts, nodes, mixed>>
<1> DEFINE t == [owner |-> loc[p].start, nth |-> loc[p].turns + 1]
<1> USE DEF TypeOK, LocalsTyped
<1>1. t \in Turn /\ t.owner = loc[p].start /\ t.nth = loc[p].turns + 1
      /\ loc[p].turns \in Nat /\ loc[p].chain \in Seq(Turn)
  BY DEF Local, Turn
<1>2. PICK c : c = Append(loc[p].chain, t)
  OBVIOUS
<1>3. turnHead' = c /\ loc' = [loc EXCEPT ![p] = [loc[p] EXCEPT !.chain = c, !.turns = @ + 1, !.now = @ + 1]]
  BY <1>2 DEF OnTurn
<1>4. loc'[p].chain = c /\ loc'[p].turns = loc[p].turns + 1
  BY <1>3 DEF Local
<1>5. pc[p] = "stream" /\ pc'[p] = "stream" /\ UNCHANGED <<starts, nodes, mixed>>
  BY DEF OnTurn, history
<1> QED
  BY <1>1, <1>2, <1>3, <1>4, <1>5
LEMMA OwnersStep == StepInv /\ OwnersBegun /\ [Next]_vars => OwnersBegun'
<1> SUFFICES ASSUME StepInv, OwnersBegun, [Next]_vars PROVE OwnersBegun'
  OBVIOUS
<1>0. TypeOK /\ LocalsTyped /\ StepBegun /\ Len(starts) \in Nat
  BY DEF StepInv, TypeOK, StartsTyped
\* Chains only change to what they were, to nothing, or to the thread's.
<1>1. ASSUME NEW p \in Proc, Others(p), UNCHANGED turnHead,
             loc'[p].chain \in {loc[p].chain, <<>>, turnHead},
             1..Len(starts) \subseteq 1..Len(starts')
      PROVE OwnersBegun'
  BY <1>1 DEF Others, OwnersBegun
<1>2. ASSUME NEW p \in Proc, MarkActive(p) PROVE OwnersBegun'
  <2>1. Others(p) /\ Len(starts') = Len(starts) + 1
    BY <1>0, <1>2, BeginStep, MarkedStart
  <2>2. UNCHANGED turnHead /\ loc'[p].chain = loc[p].chain
    BY <1>0, <1>2 DEF MarkActive, LocalsTyped, Local
  <2> QED
    BY <1>0, <1>1, <2>1, <2>2
<1>3. ASSUME NEW p \in Proc, Quiet(p) PROVE OwnersBegun'
  BY <1>0, <1>1, <1>3, QuietStep, GoingInStep, GoingKeeps DEF Quiet, Continues
<1>4. ASSUME NEW p \in Proc, ReadTurnHead(p) PROVE OwnersBegun'
  <2>1. UNCHANGED <<turnHead, starts>> /\ loc'[p].chain = turnHead
    BY <1>0, <1>4 DEF ReadTurnHead, LocalsTyped, Local, stored
  <2> QED
    BY <1>0, <1>1, <1>4, <2>1, GoingInStep DEF Going, Continues
<1>5. ASSUME NEW p \in Proc, OnTurn(p) PROVE OwnersBegun'
  <2>1. PICK t \in Turn :
              /\ t.owner = loc[p].start
              /\ turnHead' = Append(loc[p].chain, t) /\ loc'[p].chain = turnHead'
              /\ loc[p].chain \in Seq(Turn) /\ pc[p] = "stream" /\ UNCHANGED starts
    BY <1>0, <1>5, TurnAdded
  <2>2. t.owner \in 1..Len(starts)
    BY <1>0, <2>1 DEF StepBegun, InStep
  <2>3. \A j \in 1..Len(turnHead') : turnHead'[j].owner \in 1..Len(starts)
    <3>1. /\ Len(turnHead') = Len(loc[p].chain) + 1 /\ Len(loc[p].chain) \in Nat
          /\ turnHead'[Len(loc[p].chain) + 1] = t
          /\ \A j \in 1..Len(loc[p].chain) : turnHead'[j] = loc[p].chain[j]
      BY <2>1
    <3>2. \A j \in 1..Len(loc[p].chain) : loc[p].chain[j].owner \in 1..Len(starts)
      BY DEF OwnersBegun
    <3> QED
      BY <2>2, <3>1, <3>2
  <2>4. Others(p)
    BY <1>0, <1>5, GoingInStep DEF Going, Send, Continues
  <2> QED
    BY <2>1, <2>3, <2>4 DEF OwnersBegun, Others
<1>6. ASSUME NEW p \in Proc, Outside(p) \/ Ceasing(p) PROVE OwnersBegun'
  <2>1. UNCHANGED <<turnHead, starts>>
    BY <1>6, OutsideKeeps, CeasingKeeps
  <2> QED
    BY <1>0, <1>1, <1>6, <2>1, AwayStep
<1>7. CASE Restart \/ UNCHANGED vars
  BY <1>7 DEF Restart, vars, stored, OwnersBegun
<1> QED
  BY <1>2, <1>3, <1>4, <1>5, <1>6, <1>7, StepKinds DEF Outside, Quiet

(* The node of a step is written when the step is over. *)
LEMMA NodeWritten ==
    ASSUME TypeOK, NEW p \in Proc, WriteNode(p)
    PROVE  /\ Len(nodes') = Len(nodes) + 1 /\ Len(nodes) \in Nat
           /\ nodes'[Len(nodes) + 1].start = loc[p].start
           /\ nodes'[Len(nodes) + 1].turnCount = loc[p].turns
           /\ nodes'[Len(nodes) + 1].prev = loc[p].prev
           /\ \A i \in 1..Len(nodes) : nodes'[i] = nodes[i]
           /\ pc[p] = "node" /\ pc'[p] = "commit"
<1> DEFINE n == [start |-> loc[p].start, prev |-> loc[p].prev, role |-> loc[p].role,
                 kind |-> loc[p].kind, turnCount |-> loc[p].turns, agent |-> loc[p].route]
<1>1. n \in Node /\ n.start = loc[p].start /\ n.turnCount = loc[p].turns /\ n.prev = loc[p].prev
  BY DEF TypeOK, LocalsTyped, Local, Node
<1>2. nodes' = Append(nodes, n) /\ pc[p] = "node" /\ pc'[p] = "commit"
  BY DEF WriteNode, Goto, TypeOK, LocalsTyped
<1> HIDE DEF n
<1> QED
  BY <1>1, <1>2 DEF TypeOK, NodesTyped

LEMMA NodesKept ==
    ASSUME NEW p \in Proc,
           MarkActive(p) \/ (Going(p) /\ ~WriteNode(p)) \/ Ceasing(p) \/ Outside(p)
    PROVE  UNCHANGED nodes
<1>1. MarkActive(p) => UNCHANGED nodes
  BY DEF MarkActive
<1>2. Send(p) => UNCHANGED nodes
  BY DEF Send, GetSession, CreateSession, UpsertSession, Accepted, Fallback, OnTurn, stored
<1>3. Going(p) /\ ~WriteNode(p) /\ ~Send(p) => UNCHANGED nodes
  BY DEF Going, ReadTurnHead, Suspended, ClearActive, Completed, stored
<1> QED
  BY <1>1, <1>2, <1>3, CeasingKeeps, OutsideKeeps

LEMMA UnwrittenStep == StepInv /\ Apart /\ Unwritten /\ [Next]_vars => Unwritten'
<1> SUFFICES ASSUME StepInv, Apart, Unwritten, [Next]_vars PROVE Unwritten'
  OBVIOUS
<1>0. TypeOK /\ LocalsTyped /\ NodesBegun
  BY DEF StepInv, TypeOK
<1> USE DEF Unwritten, InStep
<1>1. ASSUME NEW p \in Proc, MarkActive(p) PROVE Unwritten'
  <2>1. Others(p) /\ loc'[p].start = Len(starts) + 1 /\ Len(starts) \in Nat
    BY <1>0, <1>1, BeginStep, MarkedStart
  <2>2. \A i \in 1..Len(nodes) : nodes[i].start # Len(starts) + 1
    BY <1>0, <2>1 DEF NodesBegun
  <2> QED
    BY <1>1, <2>1, <2>2, NodesKept DEF Others
<1>2. ASSUME NEW p \in Proc, WriteNode(p) PROVE Unwritten'
  <2>1. Others(p)
    BY <1>0, <1>2, GoingInStep DEF Going, Continues
  <2>2. \A q \in Proc \ {p} : InStep(q) => loc[q].start # loc[p].start
    BY <1>2 DEF Apart, WriteNode
  <2>3. /\ Len(nodes') = Len(nodes) + 1 /\ Len(nodes) \in Nat
        /\ nodes'[Len(nodes) + 1].start = loc[p].start /\ pc'[p] = "commit"
        /\ \A i \in 1..Len(nodes) : nodes'[i] = nodes[i]
    BY <1>0, <1>2, NodeWritten
  <2> SUFFICES ASSUME NEW q \in Proc \ {p}, InStep(q), pc[q] # "commit", NEW i \in 1..Len(nodes')
               PROVE  nodes'[i].start # loc[q].start
    BY <2>1, <2>3 DEF Others
  <2> QED
    BY <2>2, <2>3
<1>3. ASSUME NEW p \in Proc, Going(p), ~WriteNode(p) PROVE Unwritten'
  <2>1. UNCHANGED nodes /\ Continues(p) /\ InStep(p)
    BY <1>0, <1>3, NodesKept, GoingInStep
  <2>2. pc[p] # "commit"
    BY <1>3 DEF Going, Send, GetSession, CreateSession, UpsertSession, Accepted, Fallback, OnTurn,
       ReadTurnHead, Suspended, ClearActive, Completed
  <2> QED
    BY <2>1, <2>2 DEF Continues, Others
<1>4. ASSUME NEW p \in Proc, Ceasing(p) \/ Outside(p) PROVE Unwritten'
  BY <1>0, <1>4, NodesKept, AwayStep DEF Others
<1>5. CASE Restart \/ UNCHANGED vars
  BY <1>5 DEF Restart, vars, stored
<1> QED
  BY <1>1, <1>2, <1>3, <1>4, <1>5, StepKinds DEF Outside

(* A step that adds no turn. *)
LEMMA CountsKept ==
    ASSUME TallyInv, NEW p \in Proc, Others(p), UNCHANGED <<turnHead, starts, mixed>>,
           \/ pc'[p] \notin Chaining
           \/ loc'[p].chain = turnHead
           \/ pc[p] \in Chaining /\ loc'[p].chain = loc[p].chain,
           \/ ~InStep(p)'
           \/ InStep(p) /\ loc'[p].start = loc[p].start /\ loc'[p].turns = loc[p].turns
    PROVE  \A q \in Proc : Agrees(q)' /\ Counts(q)'
<1>1. ASSUME NEW q \in Proc \ {p} PROVE Agrees(q)' /\ Counts(q)'
  BY <1>1 DEF TallyInv, Agrees, Counts, Others, InStep
<1>2. Agrees(p)'
  BY DEF TallyInv, Agrees
<1>3. Counts(p)'
  BY DEF TallyInv, Counts
<1> QED
  BY <1>1, <1>2, <1>3

LEMMA CountsOnTurn ==
    ASSUME TallyInv, NEW p \in Proc, OnTurn(p)
    PROVE  /\ \A q \in Proc : Agrees(q)' /\ Counts(q)'
           /\ NodesStarted /\ DetailCountsTurns => DetailCountsTurns'
<1>1. TypeOK /\ StepBegun /\ LocalsTyped
  BY DEF TallyInv, StepInv, TypeOK
<1>2. PICK t \in Turn :
              /\ t.owner = loc[p].start
              /\ turnHead' = Append(loc[p].chain, t) /\ loc'[p].chain = turnHead'
              /\ loc'[p].turns = loc[p].turns + 1 /\ loc[p].turns \in Nat
              /\ loc[p].chain \in Seq(Turn) /\ pc[p] = "stream" /\ pc'[p] = "stream"
              /\ UNCHANGED <<starts, nodes, mixed>>
  BY <1>1, TurnAdded
<1>3. Continues(p) /\ InStep(p) /\ loc[p].start \in 1..Len(starts)
  BY <1>1, GoingInStep DEF Going, Send, StepBegun
<1>4. /\ \A s : TurnCount(loc[p].chain, s) \in Nat
      /\ \A s : TurnCount(turnHead', s) = TurnCount(loc[p].chain, s) + (IF t.owner = s THEN 1 ELSE 0)
  <2> DEFINE c == loc[p].chain
  <2>1. c \in Seq(Turn) /\ turnHead' = Append(c, t)
    BY <1>2
  <2> HIDE DEF c
  <2>2. ASSUME NEW s
        PROVE  /\ TurnCount(c, s) \in Nat
               /\ TurnCount(turnHead', s) = TurnCount(c, s) + (IF t.owner = s THEN 1 ELSE 0)
    BY <2>1, CountOne, CountsAreNumbers
  <2> QED
    BY <2>2 DEF c
\* The steps that nobody overlapped keep their turns, but for this one.
<1>5. \A s \in (1..Len(starts)) \ mixed :
        /\ s # loc[p].start => TurnCount(turnHead', s) = TurnCount(turnHead, s)
        /\ s = loc[p].start => TurnCount(turnHead', s) = TurnCount(turnHead, s) + 1
  BY <1>2, <1>4 DEF TallyInv, Agrees, Chaining
<1>6. ASSUME NEW q \in Proc \ {p} PROVE Agrees(q)' /\ Counts(q)'
  <2>1. pc'[q] = pc[q] /\ loc'[q] = loc[q] /\ (InStep(q)' <=> InStep(q))
    BY <1>3, <1>6 DEF Continues, Others, InStep
  <2>2. InStep(q) => loc[p].start \in mixed /\ loc[q].start \in mixed
    BY <1>3, <1>6 DEF TallyInv, Solo
  <2>3. pc[q] \in Chaining => InStep(q)
    BY DEF Chaining, InStep
  <2>4. ASSUME pc[q] \in Chaining, NEW s \in (1..Len(starts)) \ mixed
        PROVE  TurnCount(loc[q].chain, s) = TurnCount(turnHead', s)
    <3>1. TurnCount(loc[q].chain, s) = TurnCount(turnHead, s)
      BY <1>6, <2>4 DEF TallyInv, Agrees
    <3>2. s # loc[p].start
      BY <2>2, <2>3, <2>4
    <3> QED
      BY <1>5, <3>1, <3>2
  <2> QED
    BY <1>2, <2>1, <2>2, <2>4 DEF Agrees, Counts
<1>7. Agrees(p)'
  BY <1>2 DEF Agrees
<1>8. Counts(p)'
  BY <1>2, <1>3, <1>5 DEF Counts, TallyInv, Continues
<1>9. ASSUME NodesStarted, DetailCountsTurns PROVE DetailCountsTurns'
  <2> SUFFICES ASSUME NEW i \in 1..Len(nodes), nodes[i].start \notin mixed
               PROVE  nodes[i].turnCount = TurnCount(turnHead', nodes[i].start)
    BY <1>2 DEF DetailCountsTurns
  <2>1. nodes[i].start # loc[p].start
    BY <1>2, <1>3 DEF TallyInv, Unwritten
  <2>2. nodes[i].start \in 1..Len(starts)
    BY <1>9 DEF TallyInv, StepInv, NodesBegun, NodesStarted
  <2> QED
    BY <1>5, <1>9, <2>1, <2>2 DEF DetailCountsTurns
<1> QED
  BY <1>6, <1>7, <1>8, <1>9
LEMMA CountsStep ==
    TallyInv /\ [Next]_vars =>
        /\ \A p \in Proc : Agrees(p)' /\ Counts(p)'
        /\ NodesStarted /\ DetailCountsTurns => DetailCountsTurns'
<1> DEFINE Kept == /\ \A p \in Proc : Agrees(p)' /\ Counts(p)'
                   /\ NodesStarted /\ DetailCountsTurns => DetailCountsTurns'
<1> SUFFICES ASSUME TallyInv, [Next]_vars PROVE Kept
  OBVIOUS
<1>0. TypeOK /\ LocalsTyped /\ StepBegun
  BY DEF TallyInv, StepInv, TypeOK
<1>1. UNCHANGED <<nodes, turnHead>> /\ mixed \subseteq mixed'
        => (DetailCountsTurns => DetailCountsTurns')
  BY DEF DetailCountsTurns
<1>2. ASSUME NEW p \in Proc, MarkActive(p) PROVE Kept
  <2>1. /\ Others(p) /\ pc'[p] = "turnhead" /\ loc'[p].start = Len(starts) + 1
        /\ Len(starts') = Len(starts) + 1 /\ Len(starts) \in Nat
    BY <1>0, <1>2, BeginStep, MarkedStart
  <2>2. loc'[p].turns = 0 /\ UNCHANGED <<turnHead, nodes>> /\ mixed \subseteq mixed'
    BY <1>0, <1>2 DEF MarkActive, LocalsTyped, Local
  <2>3. \A q \in Proc \ {p} :
            InStep(q) => Len(starts) + 1 \in mixed' /\ loc[q].start \in mixed'
    BY <1>2 DEF MarkActive
  <2>4. TurnCount(turnHead, Len(starts) + 1) = 0
    <3>1. \A j \in 1..Len(turnHead) : turnHead[j].owner # Len(starts) + 1
      BY <2>1 DEF TallyInv, OwnersBegun
    <3> QED
      BY <1>0, <3>1, CountNone DEF TypeOK, NodesTyped
  <2>5. ASSUME NEW q \in Proc \ {p} PROVE Agrees(q)' /\ Counts(q)'
    <3>1. pc'[q] = pc[q] /\ loc'[q] = loc[q] /\ (InStep(q)' <=> InStep(q))
      BY <2>1, <2>5 DEF Others, InStep
    <3>2. pc[q] \in Chaining => InStep(q)
      BY DEF Chaining, InStep
    <3>3. ASSUME pc[q] \in Chaining, NEW s \in (1..Len(starts')) \ mixed'
          PROVE  s \in (1..Len(starts)) \ mixed
      BY <2>1, <2>2, <2>3, <2>5, <3>2, <3>3
    <3> QED
      BY <2>2, <2>3, <2>5, <3>1, <3>3 DEF Agrees, Counts, TallyInv
  <2>6. Agrees(p)' /\ Counts(p)'
    BY <2>1, <2>2, <2>4 DEF Agrees, Counts, Chaining
  <2> QED
    BY <1>1, <2>2, <2>5, <2>6
<1>3. ASSUME NEW p \in Proc, Quiet(p) PROVE Kept
  <2>1. /\ Continues(p) /\ InStep(p) /\ UNCHANGED <<turnHead, starts, mixed>>
        /\ loc'[p].turns = loc[p].turns
        /\ \/ pc'[p] \notin Chaining
           \/ pc[p] \in Chaining /\ loc'[p].chain = loc[p].chain
    BY <1>0, <1>3, GoingInStep, GoingKeeps, QuietStep DEF Quiet
  <2>2. \A q \in Proc : Agrees(q)' /\ Counts(q)'
    BY <2>1, CountsKept DEF Continues
  <2>3. CASE ~WriteNode(p)
    BY <1>1, <1>3, <2>1, <2>2, <2>3, NodesKept DEF Quiet
  <2>4. CASE WriteNode(p)
    <3>1. /\ Len(nodes') = Len(nodes) + 1 /\ Len(nodes) \in Nat
          /\ nodes'[Len(nodes) + 1].start = loc[p].start
          /\ nodes'[Len(nodes) + 1].turnCount = loc[p].turns
          /\ \A i \in 1..Len(nodes) : nodes'[i] = nodes[i]
      BY <1>0, <2>4, NodeWritten
    <3>2. loc[p].start \notin mixed => TurnCount(turnHead, loc[p].start) = loc[p].turns
      BY <2>1 DEF TallyInv, Counts
    <3>3. DetailCountsTurns => \A i \in 1..Len(nodes') :
            nodes'[i].start \notin mixed => nodes'[i].turnCount = TurnCount(turnHead, nodes'[i].start)
      BY <1>0, <3>1, <3>2 DEF DetailCountsTurns
    <3> QED
      BY <2>1, <2>2, <3>3 DEF DetailCountsTurns
  <2> QED
    BY <2>3, <2>4
<1>4. ASSUME NEW p \in Proc, ReadTurnHead(p) PROVE Kept
  <2>1. /\ Continues(p) /\ InStep(p) /\ UNCHANGED <<turnHead, starts, mixed, nodes>>
        /\ loc'[p].turns = loc[p].turns /\ loc'[p].chain = turnHead
    BY <1>0, <1>4, GoingInStep DEF Going, ReadTurnHead, LocalsTyped, Local, stored, history
  <2> QED
    BY <1>1, <2>1, CountsKept DEF Continues
<1>5. ASSUME NEW p \in Proc, OnTurn(p) PROVE Kept
  BY <1>5, CountsOnTurn
<1>6. ASSUME NEW p \in Proc, Outside(p) \/ Ceasing(p) PROVE Kept
  <2>1. UNCHANGED <<turnHead, starts, nodes, mixed>>
    BY <1>6, OutsideKeeps, CeasingKeeps, NodesKept
  <2>2. Others(p) /\ pc'[p] \notin Chaining /\ ~InStep(p)'
    BY <1>0, <1>6, AwayStep DEF Chaining, InStep
  <2> QED
    BY <1>1, <2>1, <2>2, CountsKept
<1>7. CASE Restart \/ UNCHANGED vars
  <2>1. UNCHANGED <<turnHead, starts, nodes, mixed, pc, loc>>
    BY <1>7 DEF Restart, vars, stored, history
  <2> QED
    BY <1>1, <2>1 DEF TallyInv, Agrees, Counts, InStep
<1> QED
  BY <1>2, <1>3, <1>4, <1>5, <1>6, <1>7, StepKinds DEF Outside, Quiet

LEMMA TallyStep == TallyInv /\ [Next]_vars => TallyInv'
<1>1. StepInv /\ [Next]_vars => StepInv'
  BY LocalsStep, StoredStep, StepBegunStep, StepEndsStep, NodesStep, SessionsKnownStep
     DEF StepInv, TypeOK
<1> QED
  BY <1>1, SoloStep, ApartStep, OwnersStep, UnwrittenStep, CountsStep DEF TallyInv, StepInv

(* The turn count in a step's detail is the number of turns that the chain  *)
(* holds for it for ever after, unless another process ran a step beside    *)
(* it: later steps append to what they find, whoever is killed on the way.  *)
THEOREM DetailsCount == Spec => []DetailCountsTurns
<1>1. Init => CountInv
  <2> SUFFICES ASSUME Init PROVE CountInv
    OBVIOUS
  <2>1. Solo /\ Apart /\ Unwritten /\ NodesStarted /\ DetailCountsTurns
    BY DEF Init, Solo, Apart, Unwritten, NodesStarted, DetailCountsTurns, InStep
  <2>2. \A p \in Proc : Agrees(p) /\ Counts(p)
    BY DEF Init, Agrees, Counts, InStep, Chaining
  <2>3. OwnersBegun
    <3>1. Len(turnHead) = 0 /\ \A p \in Proc : loc[p].chain = <<>>
      BY DEF Init, Blank
    <3> QED
      BY <3>1 DEF OwnersBegun
  <2> QED
    BY <2>1, <2>2, <2>3, StepInvInit DEF CountInv, TallyInv
<1>3. CountInv /\ [Next]_vars => CountInv'
  BY NodesStep, TallyStep, CountsStep DEF CountInv, TallyInv
<1>4. CountInv => DetailCountsTurns
  BY DEF CountInv
<1> QED
  BY <1>1, <1>3, <1>4, PTL DEF Spec
-----------------------------------------------------------------------------
(* Every set of natural numbers has a least one. *)
LEMMA LeastOne ==
    ASSUME NEW S, S \subseteq Nat, S # {}
    PROVE  Min(S) \in S /\ Min(S) \in Nat /\ \A n \in S : Min(S) <= n
<1> DEFINE R == OpToRel(<, Nat)
<1>1. PICK m \in S : \A k \in S : <<k, m>> \notin R
  <2>1. IsWellFoundedOn(R, Nat)
    BY NatLessThanWellFounded
  <2> HIDE DEF R
  <2> QED
    BY <2>1, WFMin
<1>2. \A k \in S : ~(k < m)
  BY <1>1 DEF OpToRel
<1>3. ASSUME NEW k \in S PROVE m <= k
  <2>1. k \in Nat /\ m \in Nat
    BY <1>1
  <2> QED
    BY <1>2, <2>1
<1> HIDE DEF R
<1> QED
  BY <1>1, <1>3 DEF Min

(* A set of natural numbers with a bound has a greatest one. *)
LEMMA GreatestOne ==
    ASSUME NEW n \in Nat, NEW S, S \subseteq 0..n, S # {}
    PROVE  Max(S) \in S /\ Max(S) \in 0..n /\ \A k \in S : k <= Max(S)
<1> DEFINE T == {n - k : k \in S}
<1>1. T \subseteq Nat /\ T # {}
  <2>1. PICK k \in S : TRUE
    OBVIOUS
  <2>2. n - k \in T
    BY <2>1
  <2>3. \A j \in S : n - j \in Nat
    OBVIOUS
  <2> QED
    BY <2>2, <2>3
<1>2. Min(T) \in T /\ \A x \in T : Min(T) <= x
  BY <1>1, LeastOne
<1>3. PICK m \in S : Min(T) = n - m
  BY <1>2
<1>4. ASSUME NEW k \in S PROVE k <= m
  <2>1. n - m <= n - k
    BY <1>2, <1>3
  <2>2. k \in 0..n /\ m \in 0..n
    BY <1>3
  <2> QED
    BY <2>1, <2>2
<1>5. \A k \in S : m >= k
  BY <1>3, <1>4
<1> HIDE DEF T
<1> QED
  BY <1>3, <1>5 DEF Max
(* A set that holds a number whenever it holds all the smaller ones. *)
LEMMA UpTo ==
    ASSUME NEW n \in Nat, NEW S,
           \A k \in 0..n : (\A j \in 0..n : j < k => j \in S) => k \in S
    PROVE  \A k \in 0..n : k \in S
<1> SUFFICES ASSUME (0..n) \ S # {} PROVE FALSE
  OBVIOUS
<1> DEFINE T == (0..n) \ S
<1>1. T \subseteq Nat /\ T # {}
  OBVIOUS
<1>2. Min(T) \in T /\ Min(T) \in Nat /\ \A j \in T : Min(T) <= j
  BY <1>1, LeastOne
<1>3. ASSUME NEW j \in 0..n, j < Min(T) PROVE j \in S
  BY <1>2, <1>3
<1> QED
  BY <1>2, <1>3

(* A walk back over numbered things, each of which comes after the one it   *)
(* names.                                                                   *)
LEMMA WalkExists ==
    ASSUME NEW n \in Nat, NEW prev, \A k \in 1..n : prev[k] \in 0..(k - 1)
    PROVE  \E walk : walk = [k \in 0..n |-> IF k = 0 THEN <<>> ELSE Append(walk[prev[k]], k)]
<1> DEFINE Walks(m) == \E walk : walk = [k \in 0..m |-> IF k = 0 THEN <<>> ELSE Append(walk[prev[k]], k)]
           S == {m \in 0..n : Walks(m)}
<1>1. ASSUME NEW m \in 0..n, \A j \in 0..n : j < m => j \in S
      PROVE  m \in S
  <2>1. CASE m = 0
    <3> DEFINE walk == [k \in 0..0 |-> <<>>]
    <3>1. walk = [k \in 0..0 |-> IF k = 0 THEN <<>> ELSE Append(walk[prev[k]], k)]
      OBVIOUS
    <3> HIDE DEF walk
    <3> QED
      BY <2>1, <3>1
  <2>2. CASE m # 0
    <3>1. m - 1 \in 0..n /\ m - 1 < m /\ m \in 1..n
      BY <2>2
    <3>2. PICK w : w = [k \in 0..(m - 1) |-> IF k = 0 THEN <<>> ELSE Append(w[prev[k]], k)]
      BY <1>1, <3>1
    <3> DEFINE walk == [k \in 0..m |-> IF k = m THEN Append(w[prev[m]], m) ELSE w[k]]
    <3>3. ASSUME NEW k \in 0..m
          PROVE  walk[k] = IF k = 0 THEN <<>> ELSE Append(walk[prev[k]], k)
      <4>1. CASE k = m
        <5>1. prev[m] \in 0..(m - 1)
          BY <3>1
        <5>2. prev[m] \in 0..m /\ prev[m] # m
          BY <3>1, <5>1
        <5> QED
          BY <2>2, <4>1, <5>2
      <4>2. CASE k # m /\ k # 0
        <5>1. k \in 0..(m - 1) /\ k \in 1..n
          BY <3>1, <4>2
        <5>2. prev[k] \in 0..(k - 1)
          BY <5>1
        <5>3. prev[k] \in 0..m /\ prev[k] # m
          BY <5>1, <5>2
        <5>4. w[k] = Append(w[prev[k]], k)
          BY <3>2, <4>2, <5>1
        <5> QED
          BY <4>2, <5>3, <5>4
      <4>3. CASE k # m /\ k = 0
        <5>1. k \in 0..(m - 1)
          BY <3>1, <4>3
        <5> QED
          BY <3>2, <4>3, <5>1
      <4> QED
        BY <4>1, <4>2, <4>3
    <3>4. walk = [k \in 0..m |-> walk[k]]
      OBVIOUS
    <3> HIDE DEF walk
    <3>5. walk = [k \in 0..m |-> IF k = 0 THEN <<>> ELSE Append(walk[prev[k]], k)]
      BY <3>3, <3>4
    <3> QED
      BY <3>5
  <2> QED
    BY <2>1, <2>2
<1> HIDE DEF S
<1>2. \A m \in 0..n : (\A j \in 0..n : j < m => j \in S) => m \in S
  BY <1>1
<1>3. \A m \in 0..n : m \in S
  BY <1>2, UpTo
<1>4. n \in S
  BY <1>3
<1> QED
  BY <1>4 DEF S

(* The walk that Ordered takes, over any nodes. *)
WalkOf(N) ==
    LET walk[n \in 0..Len(N)] == IF n = 0 THEN <<>> ELSE Append(walk[N[n].prev], n)
    IN  walk

Descending(N) == \A k \in 1..Len(N) : N[k].prev \in 0..(k - 1)

LEMMA WalkIs ==
    ASSUME NEW N, Len(N) \in Nat, Descending(N)
    PROVE  /\ WalkOf(N)[0] = <<>>
           /\ \A k \in 1..Len(N) : WalkOf(N)[k] = Append(WalkOf(N)[N[k].prev], k)
<1> DEFINE n == Len(N)
           Walk(w) == w = [k \in 0..n |-> IF k = 0 THEN <<>> ELSE Append(w[N[k].prev], k)]
           walk == CHOOSE w : Walk(w)
           prev == [k \in 1..n |-> N[k].prev]
<1>1. \E w : Walk(w)
  <2>1. \A k \in 1..n : prev[k] \in 0..(k - 1)
    BY DEF Descending
  <2>2. \A k \in 0..n : k = 0 \/ prev[k] = N[k].prev
    OBVIOUS
  <2>3. n \in Nat
    OBVIOUS
  <2> HIDE DEF prev, n
  <2>4. PICK w : w = [k \in 0..n |-> IF k = 0 THEN <<>> ELSE Append(w[prev[k]], k)]
    BY <2>1, <2>3, WalkExists
  <2>5. [k \in 0..n |-> IF k = 0 THEN <<>> ELSE Append(w[prev[k]], k)]
          = [k \in 0..n |-> IF k = 0 THEN <<>> ELSE Append(w[N[k].prev], k)]
    BY <2>2
  <2> QED
    BY <2>4, <2>5
<1>2. Walk(walk)
  BY <1>1
<1>3. WalkOf(N) = walk
  BY DEF WalkOf
<1> HIDE DEF walk
<1>4. walk[0] = <<>>
  BY <1>2
<1>5. ASSUME NEW k \in 1..n PROVE walk[k] = Append(walk[N[k].prev], k)
  <2>1. k \in 0..n /\ k # 0
    OBVIOUS
  <2>2. walk[k] = IF k = 0 THEN <<>> ELSE Append(walk[N[k].prev], k)
    BY <1>2, <2>1
  <2> QED
    BY <2>1, <2>2
<1> QED
  BY <1>3, <1>4, <1>5

(* A node more does not change the walks from those before it. *)
LEMMA WalkKept ==
    ASSUME NEW N, NEW M, Len(N) \in Nat, Len(M) \in Nat, Len(N) <= Len(M),
           Descending(N), Descending(M), \A k \in 1..Len(N) : M[k] = N[k]
    PROVE  \A h \in 0..Len(N) : WalkOf(M)[h] = WalkOf(N)[h]
<1> DEFINE S == {h \in 0..Len(N) : WalkOf(M)[h] = WalkOf(N)[h]}
<1>1. ASSUME NEW h \in 0..Len(N), \A j \in 0..Len(N) : j < h => j \in S
      PROVE  h \in S
  <2>1. CASE h = 0
    BY <2>1, WalkIs
  <2>2. CASE h # 0
    <3>1. h \in 1..Len(N) /\ h \in 1..Len(M)
      BY <2>2
    <3>2. N[h].prev \in 0..(h - 1) /\ M[h] = N[h]
      BY <3>1 DEF Descending
    <3>3. N[h].prev \in 0..Len(N) /\ N[h].prev < h
      BY <3>1, <3>2
    <3>4. WalkOf(M)[N[h].prev] = WalkOf(N)[N[h].prev]
      BY <1>1, <3>3
    <3>5. /\ WalkOf(N)[h] = Append(WalkOf(N)[N[h].prev], h)
          /\ WalkOf(M)[h] = Append(WalkOf(M)[M[h].prev], h)
      BY <3>1, WalkIs
    <3> QED
      BY <3>2, <3>4, <3>5
  <2> QED
    BY <2>1, <2>2
<1> HIDE DEF S
<1>2. \A h \in 0..Len(N) : (\A j \in 0..Len(N) : j < h => j \in S) => h \in S
  BY <1>1
<1>3. \A h \in 0..Len(N) : h \in S
  BY <1>2, UpTo
<1> QED
  BY <1>3 DEF S

(* A walk holds numbered things up to its own, later ones with longer walks. *)
LEMMA WalkMembers ==
    ASSUME NEW N, Len(N) \in Nat, Descending(N)
    PROVE  \A h \in 0..Len(N) :
              LET W == WalkOf(N)
              IN  /\ W[h] \in Seq(1..h)
                  /\ \A i \in ToSet(W[h]) : i \in 1..h /\ Len(W[i]) <= Len(W[h])
                  /\ \A i, j \in ToSet(W[h]) : i < j => Len(W[i]) < Len(W[j])
<1> DEFINE W == WalkOf(N)
           Fine(h) == /\ W[h] \in Seq(1..h)
                      /\ \A i \in ToSet(W[h]) : i \in 1..h /\ Len(W[i]) <= Len(W[h])
                      /\ \A i, j \in ToSet(W[h]) : i < j => Len(W[i]) < Len(W[j])
           S == {h \in 0..Len(N) : Fine(h)}
<1>1. ASSUME NEW h \in 0..Len(N), \A j \in 0..Len(N) : j < h => j \in S
      PROVE  Fine(h)
  <2>1. CASE h = 0
    <3>1. W[h] = <<>> /\ <<>> \in Seq(1..h)
      BY <2>1, WalkIs
    <3>2. ToSet(W[h]) = {}
      BY <3>1 DEF ToSet
    <3> QED
      BY <3>1, <3>2
  <2>2. CASE h # 0
    <3> DEFINE p == N[h].prev
               c == W[p]
    <3>1. h \in 1..Len(N) /\ h \in Nat
      BY <2>2
    <3>2. p \in 0..(h - 1) /\ W[h] = Append(c, h)
      BY <3>1, WalkIs DEF Descending
    <3>3. p \in 0..Len(N) /\ p < h /\ p \in Nat
      BY <3>1, <3>2
    <3>4. Fine(p)
      BY <1>1, <3>3
    <3>5. c \in Seq(1..p)
      BY <3>4
    <3>6. c \in Seq(1..h)
      <4>1. (1..p) \subseteq (1..h)
        BY <3>1, <3>3
      <4> DEFINE A == 1..p
                 B == 1..h
      <4>2. c \in Seq(A) /\ A \subseteq B
        BY <3>5, <4>1
      <4> HIDE DEF c, A, B
      <4>3. c \in Seq(B)
        BY <4>2
      <4> QED
        BY <4>3 DEF B
    <3> HIDE DEF c, p, W
    <3>7. /\ W[h] \in Seq(1..h) /\ Len(W[h]) = Len(c) + 1 /\ Len(c) \in Nat
          /\ ToSet(W[h]) = ToSet(c) \cup {h}
      <4>1. /\ Append(c, h) \in Seq(1..h) /\ Len(Append(c, h)) = Len(c) + 1 /\ Len(c) \in Nat
            /\ DOMAIN c = 1..Len(c) /\ DOMAIN Append(c, h) = 1..(Len(c) + 1)
            /\ \A i \in 1..Len(c) : Append(c, h)[i] = c[i]
            /\ Append(c, h)[Len(c) + 1] = h
        BY <3>1, <3>6, AppendProperties
      <4>2. ToSet(Append(c, h)) = ToSet(c) \cup {h}
        <5>1. \A i \in DOMAIN Append(c, h) : i \in DOMAIN c \/ i = Len(c) + 1
          BY <4>1
        <5>2. \A i \in DOMAIN c : i \in DOMAIN Append(c, h)
          BY <4>1
        <5>3. Len(c) + 1 \in DOMAIN Append(c, h)
          BY <4>1
        <5>4. \A i \in DOMAIN c : Append(c, h)[i] = c[i]
          BY <4>1
        <5> QED
          BY <4>1, <5>1, <5>2, <5>3, <5>4 DEF ToSet
      <4> QED
        BY <3>2, <4>1, <4>2
    <3>8. ToSet(W[p]) = ToSet(c) /\ Len(W[p]) = Len(c)
      BY DEF c
    <3>9. \A i \in ToSet(c) : i \in 1..p /\ Len(W[i]) <= Len(c)
      BY <3>4, <3>8
    <3>10. \A i, j \in ToSet(c) : i < j => Len(W[i]) < Len(W[j])
      BY <3>4, <3>8
    <3>11. \A i \in ToSet(c) : i < h /\ Len(W[i]) < Len(W[h]) /\ Len(W[i]) \in Nat
      <4>1. ASSUME NEW i \in ToSet(c) PROVE i < h /\ Len(W[i]) \in Nat
        <5>1. i \in 1..p
          BY <3>9
        <5>2. i \in 0..Len(N) /\ i < h
          BY <3>1, <3>3, <5>1
        <5>3. W[i] \in Seq(1..i)
          BY <1>1, <5>2
        <5> QED
          BY <5>2, <5>3
      <4> QED
        BY <3>7, <3>9, <4>1
    <3>12. \A i \in ToSet(W[h]) : i \in 1..h /\ Len(W[i]) <= Len(W[h])
      <4>1. \A i \in ToSet(c) : i \in 1..h
        BY <3>1, <3>3, <3>9
      <4> QED
        BY <3>1, <3>7, <3>11, <4>1
    <3>13. \A i, j \in ToSet(W[h]) : i < j => Len(W[i]) < Len(W[j])
      <4>1. \A i \in ToSet(c) : i \in Nat
        BY <3>3, <3>9
      <4> SUFFICES ASSUME NEW i \in ToSet(c) \cup {h}, NEW j \in ToSet(c) \cup {h}, i < j
                   PROVE  Len(W[i]) < Len(W[j])
        BY <3>7
      <4>2. CASE j = h
        <5>1. i # h
          BY <3>1, <4>2
        <5> QED
          BY <3>11, <4>2, <5>1
      <4>3. CASE j # h
        <5>1. j \in ToSet(c) /\ j < h
          BY <3>11, <4>3
        <5>2. i # h
          BY <3>1, <4>1, <5>1
        <5> QED
          BY <3>10, <5>1, <5>2
      <4> QED
        BY <4>2, <4>3
    <3> QED
      BY <3>7, <3>12, <3>13
  <2> QED
    BY <2>1, <2>2
<1> HIDE DEF Fine
<1>2. \A h \in 0..Len(N) : (\A j \in 0..Len(N) : j < h => j \in S) => h \in S
  BY <1>1
<1> HIDE DEF S
<1>3. \A h \in 0..Len(N) : h \in S
  BY <1>2, UpTo
<1> QED
  BY <1>3 DEF S, Fine

-----------------------------------------------------------------------------
(* What Sorted returns: each member at the place of its rank. *)
Orders(R, S) ==
    /\ \A x \in S : <<x, x>> \in R
    /\ \A x, y \in S : <<x, y>> \in R \/ <<y, x>> \in R
    /\ \A x, y \in S : <<x, y>> \in R /\ <<y, x>> \in R => x = y
    /\ \A x, y, z \in S : <<x, y>> \in R /\ <<y, z>> \in R => <<x, z>> \in R

Rank(S, R, x) == Cardinality({y \in S : <<y, x>> \in R})

LEMMA RankIs ==
    ASSUME NEW S, IsFiniteSet(S), NEW R, Orders(R, S)
    PROVE  /\ \A x \in S : Rank(S, R, x) \in 1..Cardinality(S)
           /\ \A x, y \in S : <<x, y>> \in R /\ x # y => Rank(S, R, x) < Rank(S, R, y)
<1> DEFINE Below(x) == {y \in S : <<y, x>> \in R}
<1>1. Cardinality(S) \in Nat
  BY FS_CardinalityType
<1>2. ASSUME NEW x \in S
      PROVE  /\ IsFiniteSet(Below(x)) /\ Cardinality(Below(x)) \in Nat
             /\ Cardinality(Below(x)) <= Cardinality(S) /\ Cardinality(Below(x)) # 0
  <2>1. Below(x) \in SUBSET S /\ x \in Below(x)
    BY DEF Orders
  <2> HIDE DEF Below
  <2>2. IsFiniteSet(Below(x)) /\ Cardinality(Below(x)) <= Cardinality(S)
    BY <2>1, FS_Subset
  <2> QED
    BY <2>1, <2>2, FS_EmptySet, FS_CardinalityType
<1>3. ASSUME NEW x \in S, NEW y \in S, <<x, y>> \in R, x # y
      PROVE  Cardinality(Below(x)) < Cardinality(Below(y))
  <2>1. Below(x) \in SUBSET Below(y) /\ y \in Below(y) /\ y \notin Below(x)
    BY <1>3 DEF Orders
  <2>2. IsFiniteSet(Below(y)) /\ Cardinality(Below(x)) \in Nat /\ Cardinality(Below(y)) \in Nat
    BY <1>2
  <2> HIDE DEF Below
  <2>3. /\ Cardinality(Below(x)) <= Cardinality(Below(y))
        /\ Cardinality(Below(x)) = Cardinality(Below(y)) => Below(x) = Below(y)
    BY <2>1, <2>2, FS_Subset
  <2> QED
    BY <2>1, <2>2, <2>3
<1> QED
  BY <1>1, <1>2, <1>3 DEF Rank

LEMMA SortedIs ==
    ASSUME NEW S, IsFiniteSet(S), NEW R, Orders(R, S)
    PROVE  /\ Cardinality(S) \in Nat /\ DOMAIN Sorted(S, R) = 1..Cardinality(S)
           /\ \A k \in 1..Cardinality(S) :
                 Sorted(S, R)[k] \in S /\ Rank(S, R, Sorted(S, R)[k]) = k
           /\ \A x \in S : Rank(S, R, x) \in 1..Cardinality(S) /\ Sorted(S, R)[Rank(S, R, x)] = x
<1> DEFINE n == Cardinality(S)
           T == 1..n
           rank == [x \in S |-> Rank(S, R, x)]
<1>1. n \in Nat
  BY FS_CardinalityType
<1>2. /\ \A x \in S : Rank(S, R, x) \in T
      /\ \A x, y \in S : <<x, y>> \in R /\ x # y => Rank(S, R, x) < Rank(S, R, y)
  BY RankIs
<1>3. ASSUME NEW x \in S, NEW y \in S, Rank(S, R, x) = Rank(S, R, y) PROVE x = y
  <2>1. <<x, y>> \in R \/ <<y, x>> \in R
    BY DEF Orders
  <2>2. Rank(S, R, x) \in Nat /\ Rank(S, R, y) \in Nat
    BY <1>2
  <2> QED
    BY <1>2, <1>3, <2>1, <2>2
<1>4. IsFiniteSet(T) /\ Cardinality(T) = n
  <2>1. /\ IsFiniteSet(1..n)
        /\ Cardinality(1..n) = IF 1 > n THEN 0 ELSE n - 1 + 1
    BY <1>1, FS_Interval
  <2> QED
    BY <1>1, <2>1
<1>5. rank \in Injection(S, T)
  <2>1. rank \in [S -> T] /\ \A x, y \in S : rank[x] = rank[y] => x = y
    BY <1>2, <1>3
  <2> HIDE DEF rank, T
  <2> QED
    BY <2>1 DEF Injection, IsInjective
<1>6. rank \in Surjection(S, T)
  <2> HIDE DEF rank, T
  <2> QED
    BY <1>4, <1>5, FS_Injection
<1>7. ASSUME NEW k \in T PROVE \E x \in S : Rank(S, R, x) = k
  <2>1. PICK x \in S : rank[x] = k
    <3> HIDE DEF rank, T
    <3> QED
      BY <1>6, <1>7 DEF Surjection
  <2> QED
    BY <2>1
<1>8. ASSUME NEW k \in T PROVE Sorted(S, R)[k] \in S /\ Rank(S, R, Sorted(S, R)[k]) = k
  <2>1. Sorted(S, R)[k] = CHOOSE x \in S : Rank(S, R, x) = k
    BY DEF Sorted, Rank
  <2> QED
    BY <1>7, <2>1
<1>9. \A x \in S : Sorted(S, R)[Rank(S, R, x)] = x
  BY <1>2, <1>3, <1>8
<1>10. DOMAIN Sorted(S, R) = T
  BY DEF Sorted
<1> QED
  BY <1>1, <1>2, <1>8, <1>9, <1>10

(* Of two members, the one that the order puts first comes first. *)
LEMMA SortedOrder ==
    ASSUME NEW S, IsFiniteSet(S), NEW R, Orders(R, S),
           NEW a \in 1..Cardinality(S), NEW b \in 1..Cardinality(S),
           <<Sorted(S, R)[a], Sorted(S, R)[b]>> \in R, Sorted(S, R)[a] # Sorted(S, R)[b]
    PROVE  a < b
<1> DEFINE x == Sorted(S, R)[a]
           y == Sorted(S, R)[b]
<1>1. x \in S /\ y \in S /\ Rank(S, R, x) = a /\ Rank(S, R, y) = b
  BY SortedIs
<1> HIDE DEF x, y
<1>2. <<x, y>> \in R /\ x # y
  BY DEF x, y
<1> QED
  BY <1>1, <1>2, RankIs

-----------------------------------------------------------------------------
(* What a sequence has at some of its places. *)
Upwards(places) == {ij \in places \X places : ij[1] <= ij[2]}

LEMMA UpwardsOrders ==
    ASSUME NEW n \in Nat, NEW places \in SUBSET (1..n)
    PROVE  IsFiniteSet(places) /\ Orders(Upwards(places), places)
<1>1. IsFiniteSet(places)
  <2>1. IsFiniteSet(1..n)
    BY FS_Interval
  <2> QED
    BY <2>1, FS_Subset
<1>2. \A i \in places : i \in Int
  OBVIOUS
<1>3. \A i, j \in places : <<i, j>> \in Upwards(places) <=> i <= j
  BY DEF Upwards
<1> QED
  BY <1>1, <1>2, <1>3 DEF Orders

LEMMA AtDomain ==
    ASSUME NEW n \in Nat, NEW seq, NEW places \in SUBSET (1..n)
    PROVE  /\ Cardinality(places) \in Nat
           /\ DOMAIN At(seq, places) = 1..Cardinality(places)
           /\ At(seq, places) = [k \in 1..Cardinality(places) |-> At(seq, places)[k]]
<1> DEFINE place == Sorted(places, Upwards(places))
<1>1. Cardinality(places) \in Nat /\ DOMAIN place = 1..Cardinality(places)
  BY UpwardsOrders, SortedIs
<1>2. At(seq, places) = [k \in DOMAIN place |-> seq[place[k]]]
  BY DEF At, Upwards
<1> HIDE DEF place
<1>3. At(seq, places) = [k \in 1..Cardinality(places) |-> seq[place[k]]]
  BY <1>1, <1>2
<1>4. At(seq, places) = [k \in 1..Cardinality(places) |-> At(seq, places)[k]]
  BY <1>3
<1> QED
  BY <1>1, <1>3, <1>4

Lower(places, i) == {j \in places : j <= i}

PlaceOf(places, k) == Sorted(places, Upwards(places))[k]

LEMMA AtRank ==
    ASSUME NEW n \in Nat, NEW seq \in Seq(Turn), NEW places \in SUBSET (1..n),
           NEW k \in 1..Cardinality(places)
    PROVE  /\ PlaceOf(places, k) \in places
           /\ At(seq, places)[k] = seq[PlaceOf(places, k)]
           /\ Cardinality(Lower(places, PlaceOf(places, k))) = k
<1> DEFINE place == Sorted(places, Upwards(places))
<1>1. DOMAIN place = 1..Cardinality(places) /\ place[k] \in places
      /\ Rank(places, Upwards(places), place[k]) = k
  BY UpwardsOrders, SortedIs
<1>2. At(seq, places) = [x \in DOMAIN place |-> seq[place[x]]]
  BY DEF At, Upwards
<1> HIDE DEF place
<1>3. At(seq, places)[k] = seq[place[k]]
  BY <1>1, <1>2
<1>4. {j \in places : <<j, place[k]>> \in Upwards(places)} = Lower(places, place[k])
  BY <1>1 DEF Upwards, Lower
<1>5. place[k] = PlaceOf(places, k)
  BY DEF place, PlaceOf
<1> QED
  BY <1>1, <1>3, <1>4, <1>5 DEF Rank

-----------------------------------------------------------------------------
(* The reader's view: of two steps on the thread's chain the later one has  *)
(* the higher index, and the panorama puts the steps in order of it.        *)
IndexIn(N, h) == Len(WalkOf(N)[h])

Descends == Descending(nodes)

PrevKnown == \A p \in Proc : loc[p].prev \in 0..Len(nodes)

Indexed ==
    /\ \A i \in 1..Len(starts) : starts[i].stepIndex \in Nat
    /\ \A p \in Proc : InStep(p) => starts[loc[p].start].stepIndex = IndexIn(nodes, loc[p].prev)
    /\ \A i \in 1..Len(nodes) :
          nodes[i].start # 0 => starts[nodes[i].start].stepIndex = IndexIn(nodes, nodes[i].prev)

PlaceInv == Descends /\ PrevKnown /\ Indexed

LEMMA StepIndexIs == \A h : StepIndex(h) = IndexIn(nodes, h) /\ Ordered(h) = WalkOf(nodes)[h]
BY DEF StepIndex, Ordered, IndexIn, WalkOf

LEMMA StepIndexNumber ==
    ASSUME NodesTyped, Descends
    PROVE  /\ \A h \in 0..Len(nodes) : IndexIn(nodes, h) \in Nat
           /\ \A i \in 1..Len(nodes) :
                 nodes[i].prev \in 0..(i - 1) /\ IndexIn(nodes, i) = IndexIn(nodes, nodes[i].prev) + 1
<1>1. Len(nodes) \in Nat
  BY DEF NodesTyped
<1>2. ASSUME NEW h \in 0..Len(nodes) PROVE WalkOf(nodes)[h] \in Seq(1..h)
  BY <1>1, WalkMembers DEF Descends
<1>3. \A h \in 0..Len(nodes) : IndexIn(nodes, h) \in Nat
  BY <1>2 DEF IndexIn
<1>4. ASSUME NEW i \in 1..Len(nodes)
      PROVE  nodes[i].prev \in 0..(i - 1) /\ IndexIn(nodes, i) = IndexIn(nodes, nodes[i].prev) + 1
  <2>1. nodes[i].prev \in 0..(i - 1)
    BY DEF Descends, Descending
  <2>2. PICK v : v = nodes[i].prev
    OBVIOUS
  <2>3. v \in 0..Len(nodes) /\ i \in 1..Len(nodes)
    BY <1>1, <2>1, <2>2
  <2>4. PICK w : w = WalkOf(nodes)[v]
    OBVIOUS
  <2>5. w \in Seq(1..v)
    BY <1>2, <2>3, <2>4
  <2>6. WalkOf(nodes)[i] = Append(w, i)
    BY <1>1, <2>2, <2>4, WalkIs DEF Descends
  <2>7. Len(Append(w, i)) = Len(w) + 1
    BY <2>5
  <2> QED
    BY <2>1, <2>2, <2>4, <2>6, <2>7 DEF IndexIn
<1> QED
  BY <1>3, <1>4

(* The owners of the turns stand in one order. *)
LEMMA OwnersInOrder ==
    ASSUME NodesTyped, StartsTyped, OwnersBegun, Indexed
    PROVE  /\ IsFiniteSet(Owners) /\ Owners \subseteq 1..Len(starts)
           /\ Orders({st \in Owners \X Owners : Before(st[1], st[2])}, Owners)
<1> DEFINE R == {st \in Owners \X Owners : Before(st[1], st[2])}
<1>1. /\ DOMAIN turnHead = 1..Len(turnHead) /\ Len(turnHead) \in Nat
      /\ Len(starts) \in Nat
  BY DEF NodesTyped, StartsTyped
<1>2. Owners \subseteq 1..Len(starts)
  BY <1>1 DEF Owners, OwnersBegun
<1>3. IsFiniteSet(Owners)
  <2>1. IsFiniteSet(1..Len(starts))
    BY <1>1, FS_Interval
  <2> QED
    BY <1>2, <2>1, FS_Subset
<1>4. ASSUME NEW s \in Owners
      PROVE  NewestTurn(s) \in Nat /\ turnHead[NewestTurn(s)].owner = s
  <2> DEFINE own == {i \in DOMAIN turnHead : turnHead[i].owner = s}
  <2>1. own # {} /\ own \subseteq 0..Len(turnHead)
    BY <1>1 DEF Owners
  <2>2. \A i \in own : turnHead[i].owner = s
    OBVIOUS
  <2>3. NewestTurn(s) = Max(own)
    BY DEF NewestTurn
  <2> HIDE DEF own
  <2>4. Max(own) \in own /\ Max(own) \in 0..Len(turnHead)
    BY <1>1, <2>1, GreatestOne
  <2> QED
    BY <1>1, <2>2, <2>3, <2>4
<1>5. \A s \in Owners : starts[s].stepIndex \in Nat
  BY <1>2 DEF Indexed
<1>6. \A s, t \in Owners : <<s, t>> \in R <=> Before(s, t)
  OBVIOUS
<1>7. ASSUME NEW s \in Owners, NEW t \in Owners, NewestTurn(s) = NewestTurn(t) PROVE s = t
  BY <1>4, <1>7
<1>8. /\ \A s \in Owners : Before(s, s)
      /\ \A s, t \in Owners : Before(s, t) \/ Before(t, s)
      /\ \A s, t, u \in Owners : Before(s, t) /\ Before(t, u) => Before(s, u)
  BY <1>4, <1>5 DEF Before
<1>9. \A s, t \in Owners : Before(s, t) /\ Before(t, s) => s = t
  <2> SUFFICES ASSUME NEW s \in Owners, NEW t \in Owners, Before(s, t), Before(t, s)
               PROVE  NewestTurn(s) = NewestTurn(t)
    BY <1>7
  <2>1. /\ starts[s].stepIndex \in Nat /\ starts[t].stepIndex \in Nat
        /\ NewestTurn(s) \in Nat /\ NewestTurn(t) \in Nat
    BY <1>4, <1>5
  <2> QED
    BY <2>1 DEF Before
<1> HIDE DEF R
<1>10. Orders(R, Owners)
  BY <1>6, <1>8, <1>9 DEF Orders
<1> QED
  BY <1>2, <1>3, <1>10 DEF R

LEMMA PanoramaInOrder ==
    NodesTyped /\ StartsTyped /\ OwnersBegun /\ PlaceInv => PanoramaFollowsChain
<1> SUFFICES ASSUME NodesTyped, StartsTyped, OwnersBegun, PlaceInv,
                    NEW i \in ToSet(Ordered(head)), NEW j \in ToSet(Ordered(head)), i < j,
                    NEW a \in 1..Len(WalkStepStartChain), NEW b \in 1..Len(WalkStepStartChain),
                    WalkStepStartChain[a] = nodes[i].start, WalkStepStartChain[b] = nodes[j].start
             PROVE  a < b
  BY DEF PanoramaFollowsChain
<1> USE DEF PlaceInv
<1> DEFINE R == {st \in Owners \X Owners : Before(st[1], st[2])}
           s == nodes[i].start
           t == nodes[j].start
           W == WalkOf(nodes)
<1>1. Len(nodes) \in Nat /\ head \in 0..Len(nodes) /\ Len(starts) \in Nat
  BY DEF NodesTyped, StartsTyped
<1>2. i \in 1..Len(nodes) /\ j \in 1..Len(nodes) /\ IndexIn(nodes, i) < IndexIn(nodes, j)
  <2>1. ToSet(Ordered(head)) = ToSet(W[head])
    BY StepIndexIs
  <2>2. /\ \A x \in ToSet(W[head]) : x \in 1..head
        /\ \A x, y \in ToSet(W[head]) : x < y => Len(W[x]) < Len(W[y])
    BY <1>1, WalkMembers DEF Descends
  <2>3. i \in 1..head /\ j \in 1..head /\ Len(W[i]) < Len(W[j])
    BY <2>1, <2>2
  <2> QED
    BY <1>1, <2>3 DEF IndexIn
<1>3. IsFiniteSet(Owners) /\ Owners \subseteq 1..Len(starts) /\ Orders(R, Owners)
  BY OwnersInOrder
<1>4. /\ Cardinality(Owners) \in Nat /\ DOMAIN WalkStepStartChain = 1..Cardinality(Owners)
      /\ \A k \in 1..Cardinality(Owners) : WalkStepStartChain[k] \in Owners
      /\ WalkStepStartChain = Sorted(Owners, R)
  <2>1. WalkStepStartChain = Sorted(Owners, R)
    BY DEF WalkStepStartChain
  <2> HIDE DEF R
  <2> QED
    BY <1>3, <2>1, SortedIs
<1>5. Len(WalkStepStartChain) = Cardinality(Owners)
  BY <1>4
<1>6. a \in 1..Cardinality(Owners) /\ b \in 1..Cardinality(Owners) /\ s \in Owners /\ t \in Owners
  BY <1>4, <1>5
<1>7. starts[s].stepIndex < starts[t].stepIndex
  <2>1. s # 0 /\ t # 0
    BY <1>3, <1>6
  <2>2. /\ starts[s].stepIndex = IndexIn(nodes, nodes[i].prev)
        /\ starts[t].stepIndex = IndexIn(nodes, nodes[j].prev)
    BY <1>2, <2>1 DEF Indexed
  <2>3. /\ nodes[i].prev \in 0..Len(nodes) /\ IndexIn(nodes, i) = IndexIn(nodes, nodes[i].prev) + 1
        /\ nodes[j].prev \in 0..Len(nodes) /\ IndexIn(nodes, j) = IndexIn(nodes, nodes[j].prev) + 1
    <3>1. /\ nodes[i].prev \in 0..(i - 1) /\ IndexIn(nodes, i) = IndexIn(nodes, nodes[i].prev) + 1
          /\ nodes[j].prev \in 0..(j - 1) /\ IndexIn(nodes, j) = IndexIn(nodes, nodes[j].prev) + 1
      BY <1>2, StepIndexNumber
    <3> QED
      BY <1>1, <1>2, <3>1
  <2>4. IndexIn(nodes, nodes[i].prev) \in Nat /\ IndexIn(nodes, nodes[j].prev) \in Nat
    BY <2>3, StepIndexNumber
  <2> QED
    BY <1>2, <2>2, <2>3, <2>4
<1>8. <<s, t>> \in R /\ s # t
  <2>1. starts[s].stepIndex \in Nat
    BY <1>3, <1>6 DEF Indexed
  <2>2. Before(s, t)
    BY <1>7 DEF Before
  <2> QED
    BY <1>6, <1>7, <2>1, <2>2
<1> HIDE DEF R, s, t
<1>9. <<Sorted(Owners, R)[a], Sorted(Owners, R)[b]>> \in R /\ Sorted(Owners, R)[a] # Sorted(Owners, R)[b]
  BY <1>4, <1>8 DEF s, t
<1> QED
  BY <1>3, <1>6, <1>9, SortedOrder

-----------------------------------------------------------------------------
(* Where a step stands is read with the head and kept to its node. *)
LEMMA PrevAway ==
    ASSUME LocalsTyped, NEW p \in Proc
    PROVE  /\ Ceasing(p) => loc'[p].prev = 0
           /\ \A cmd \in Commands, g \in Gateway : Launch(p, cmd, g) => loc'[p].prev = 0
           /\ \A r \in Role : ReadHead(p, r) =>
                 loc'[p].prev = (IF loc[p].cmd = "poke" THEN nodes[head].prev ELSE head)
           /\ MarkActive(p) => loc'[p].prev = loc[p].prev
<1> USE DEF LocalsTyped
<1>1. Blank \in Local /\ Blank.prev = 0
  BY BlankTyped DEF Blank
<1>2. \A l \in Local : Between(l).prev = 0
  BY <1>1 DEF Between, Local
<1>3. Ceasing(p) => loc'[p].prev = 0
  BY <1>1, <1>2 DEF Ceasing, Commit, Throw, Leave, Kill
<1>4. ASSUME NEW cmd \in Commands, NEW g \in Gateway, Launch(p, cmd, g) PROVE loc'[p].prev = 0
  BY <1>1, <1>4 DEF Launch, Local
<1>5. ASSUME NEW r \in Role, ReadHead(p, r)
      PROVE  loc'[p].prev = (IF loc[p].cmd = "poke" THEN nodes[head].prev ELSE head)
  BY <1>5 DEF ReadHead, Local
<1>6. MarkActive(p) => loc'[p].prev = loc[p].prev
  BY DEF MarkActive, Local
<1> QED
  BY <1>3, <1>4, <1>5, <1>6

LEMMA PlaceStep == StepInv /\ PlaceInv /\ [Next]_vars => PlaceInv'
<1> SUFFICES ASSUME StepInv, PlaceInv, [Next]_vars PROVE PlaceInv'
  OBVIOUS
<1>0. /\ TypeOK /\ LocalsTyped /\ NodesTyped /\ StepBegun /\ NodesBegun
      /\ Len(nodes) \in Nat /\ head \in 0..Len(nodes) /\ Len(starts) \in Nat
  BY DEF StepInv, TypeOK, NodesTyped, StartsTyped
<1> USE DEF PlaceInv
<1>1. UNCHANGED nodes => Descends' /\ \A h : IndexIn(nodes', h) = IndexIn(nodes, h)
  BY DEF Descends, Descending
\* A process that is in no step only reads where it would stand.
<1>2. ASSUME NEW p \in Proc, Others(p), UNCHANGED <<nodes, starts>>,
             ~InStep(p)', loc'[p].prev \in 0..Len(nodes)
      PROVE  PlaceInv'
  <2>1. PrevKnown'
    BY <1>2 DEF PrevKnown, Others
  <2>2. \A i \in 1..Len(nodes) : nodes'[i] = nodes[i]
    BY <1>2
  <2>3. Indexed'
    <3>1. \A q \in Proc : InStep(q)' => InStep(q) /\ loc'[q] = loc[q]
      BY <1>2 DEF Others, InStep
    <3>2. \A q \in Proc : IndexIn(nodes', loc'[q].prev) = IndexIn(nodes, loc'[q].prev)
      BY <1>1, <1>2
    <3> QED
      BY <1>1, <1>2, <3>1, <3>2 DEF Indexed
  <2> QED
    BY <1>1, <1>2, <2>1, <2>3
<1>3. ASSUME NEW p \in Proc, NEW cmd \in Commands, NEW g \in Gateway, Launch(p, cmd, g)
      PROVE PlaceInv'
  <2>1. Others(p) /\ ~InStep(p)' /\ UNCHANGED <<nodes, starts>> /\ loc'[p].prev = 0
    BY <1>0, <1>3, BeginStep, OutsideKeeps, PrevAway DEF Outside, InStep
  <2> QED
    BY <1>0, <1>2, <2>1
<1>4. ASSUME NEW p \in Proc, NEW r \in Role, ReadHead(p, r) PROVE PlaceInv'
  <2>1. /\ Others(p) /\ ~InStep(p)' /\ UNCHANGED <<nodes, starts>>
        /\ loc'[p].prev = (IF loc[p].cmd = "poke" THEN nodes[head].prev ELSE head)
    BY <1>0, <1>4, BeginStep, OutsideKeeps, PrevAway DEF Outside, InStep
  <2>2. loc[p].cmd = "poke" => nodes[head].prev \in 0..(head - 1)
    BY <1>0 DEF StepInv, StepEnds, Descends, Descending
  <2>3. loc'[p].prev \in 0..Len(nodes)
    BY <1>0, <2>1, <2>2
  <2> QED
    BY <1>2, <2>1, <2>3
<1>5. ASSUME NEW p \in Proc, MarkActive(p) PROVE PlaceInv'
  <2>1. /\ Others(p) /\ loc'[p].start = Len(starts) + 1 /\ loc'[p].prev = loc[p].prev
        /\ Len(starts') = Len(starts) + 1 /\ UNCHANGED nodes
        /\ \A i \in 1..Len(starts) : starts'[i] = starts[i]
    BY <1>0, <1>5, BeginStep, MarkedStart, PrevAway, NodesKept
  <2>2. starts'[Len(starts) + 1].stepIndex = IndexIn(nodes, loc[p].prev)
    <3> DEFINE e == [role |-> loc[p].role, stepIndex |-> StepIndex(loc[p].prev)]
    <3>1. starts' = Append(starts, e) /\ e.stepIndex = IndexIn(nodes, loc[p].prev)
      BY <1>5, StepIndexIs DEF MarkActive
    <3> HIDE DEF e
    <3> QED
      BY <1>0, <3>1, StartsGrow DEF TypeOK, StartsTyped
  <2>3. IndexIn(nodes, loc[p].prev) \in Nat
    BY <1>0, StepIndexNumber DEF PrevKnown
  <2>4. PrevKnown'
    BY <2>1 DEF PrevKnown, Others
  <2>5. \A i \in 1..Len(starts') : starts'[i].stepIndex \in Nat
    BY <1>0, <2>1, <2>2, <2>3 DEF Indexed
  <2>6. ASSUME NEW q \in Proc, InStep(q)'
        PROVE  starts'[loc'[q].start].stepIndex = IndexIn(nodes, loc[q].prev)
    <3>1. CASE q = p
      BY <2>1, <2>2, <3>1
    <3>2. CASE q # p
      <4>1. InStep(q) /\ loc'[q] = loc[q]
        BY <2>1, <2>6, <3>2 DEF Others, InStep
      <4> QED
        BY <1>0, <2>1, <4>1 DEF StepBegun, Indexed
    <3> QED
      BY <3>1, <3>2
  <2>7. \A q \in Proc : loc'[q].prev = loc[q].prev /\ IndexIn(nodes', loc'[q].prev) = IndexIn(nodes, loc[q].prev)
    BY <1>1, <2>1 DEF Others
  <2>8. ASSUME NEW i \in 1..Len(nodes), nodes[i].start # 0
        PROVE  starts'[nodes[i].start].stepIndex = IndexIn(nodes, nodes[i].prev)
    <3>1. nodes[i].start \in 1..Len(starts)
      BY <1>0, <2>8 DEF NodesBegun
    <3> QED
      BY <2>1, <2>8, <3>1 DEF Indexed
  <2>9. \A i \in 1..Len(nodes) : IndexIn(nodes', nodes[i].prev) = IndexIn(nodes, nodes[i].prev)
    BY <1>1, <2>1
  <2>10. Indexed'
    BY <2>1, <2>5, <2>6, <2>7, <2>8, <2>9 DEF Indexed
  <2> QED
    BY <1>1, <2>1, <2>4, <2>10
<1>6. ASSUME NEW p \in Proc, Going(p), ~WriteNode(p) PROVE PlaceInv'
  <2>1. UNCHANGED <<nodes, starts>> /\ Continues(p) /\ InStep(p)
    BY <1>0, <1>6, NodesKept, GoingInStep, GoingKeeps
  <2>2. \A q \in Proc : loc'[q].prev = loc[q].prev /\ loc'[q].start = loc[q].start
                        /\ (InStep(q)' => InStep(q))
    BY <2>1 DEF Continues, Others, InStep
  <2>3. PrevKnown'
    BY <2>1, <2>2 DEF PrevKnown
  <2>4. \A q \in Proc : IndexIn(nodes', loc'[q].prev) = IndexIn(nodes, loc[q].prev)
    BY <1>1, <2>1, <2>2
  <2>5. \A i \in 1..Len(nodes) : IndexIn(nodes', nodes[i].prev) = IndexIn(nodes, nodes[i].prev)
    BY <1>1, <2>1
  <2>6. Indexed'
    BY <2>1, <2>2, <2>4, <2>5 DEF Indexed
  <2> QED
    BY <1>1, <2>1, <2>3, <2>6
<1>7. ASSUME NEW p \in Proc, WriteNode(p) PROVE PlaceInv'
  <2>1. /\ Len(nodes') = Len(nodes) + 1
        /\ nodes'[Len(nodes) + 1].start = loc[p].start
        /\ nodes'[Len(nodes) + 1].prev = loc[p].prev
        /\ \A i \in 1..Len(nodes) : nodes'[i] = nodes[i]
        /\ UNCHANGED starts /\ Continues(p) /\ InStep(p)
    BY <1>0, <1>7, NodeWritten, GoingInStep, GoingKeeps DEF Going
  <2>2. \A q \in Proc : loc'[q].prev = loc[q].prev /\ loc'[q].start = loc[q].start
                        /\ (InStep(q)' => InStep(q))
    BY <2>1 DEF Continues, Others, InStep
  <2>3. Descends'
    <3> SUFFICES ASSUME NEW k \in 1..Len(nodes') PROVE nodes'[k].prev \in 0..(k - 1)
      BY DEF Descends, Descending
    <3>1. CASE k = Len(nodes) + 1
      BY <1>0, <2>1, <3>1 DEF PrevKnown
    <3>2. CASE k # Len(nodes) + 1
      <4>1. k \in 1..Len(nodes)
        BY <1>0, <2>1, <3>2
      <4> QED
        BY <2>1, <4>1 DEF Descends, Descending
    <3> QED
      BY <3>1, <3>2
  <2>4. \A h \in 0..Len(nodes) : IndexIn(nodes', h) = IndexIn(nodes, h)
    <3>1. Descending(nodes') /\ Descending(nodes)
      BY <2>3 DEF Descends
    <3>2. Len(nodes) \in Nat /\ Len(nodes') \in Nat /\ Len(nodes) <= Len(nodes')
      BY <1>0, <2>1
    <3>3. \A h \in 0..Len(nodes) : WalkOf(nodes')[h] = WalkOf(nodes)[h]
      BY <2>1, <3>1, <3>2, WalkKept
    <3> QED
      BY <3>3 DEF IndexIn
  <2>5. PrevKnown'
    BY <1>0, <2>1, <2>2 DEF PrevKnown
  <2>6. \A q \in Proc : loc[q].prev \in 0..Len(nodes) /\ IndexIn(nodes', loc'[q].prev) = IndexIn(nodes, loc[q].prev)
    BY <2>2, <2>4 DEF PrevKnown
  <2>7. ASSUME NEW i \in 1..Len(nodes'), nodes'[i].start # 0
        PROVE  starts[nodes'[i].start].stepIndex = IndexIn(nodes', nodes'[i].prev)
    <3>1. CASE i = Len(nodes) + 1
      <4>1. nodes'[i].start = loc[p].start /\ nodes'[i].prev = loc[p].prev
        BY <2>1, <3>1
      <4> QED
        BY <2>1, <2>2, <2>6, <4>1 DEF Indexed
    <3>2. CASE i # Len(nodes) + 1
      <4>1. i \in 1..Len(nodes) /\ nodes'[i] = nodes[i]
        BY <1>0, <2>1, <3>2
      <4>2. nodes[i].prev \in 0..Len(nodes)
        <5>1. nodes[i].prev \in 0..(i - 1)
          BY <4>1 DEF Descends, Descending
        <5> QED
          BY <1>0, <4>1, <5>1
      <4> QED
        BY <2>4, <2>7, <4>1, <4>2 DEF Indexed
    <3> QED
      BY <3>1, <3>2
  <2>8. Indexed'
    BY <2>1, <2>2, <2>6, <2>7 DEF Indexed
  <2> QED
    BY <2>3, <2>5, <2>8
<1>8. ASSUME NEW p \in Proc, Ceasing(p) PROVE PlaceInv'
  <2>1. Others(p) /\ ~InStep(p)' /\ UNCHANGED <<nodes, starts>> /\ loc'[p].prev = 0
    BY <1>0, <1>8, AwayStep, CeasingKeeps, PrevAway DEF InStep
  <2> QED
    BY <1>0, <1>2, <2>1
<1>9. CASE Restart \/ UNCHANGED vars
  <2>1. UNCHANGED <<nodes, starts, pc, loc>>
    BY <1>9 DEF Restart, vars, stored
  <2>2. \A i \in 1..Len(nodes) : IndexIn(nodes', nodes[i].prev) = IndexIn(nodes, nodes[i].prev)
    BY <1>1, <2>1
  <2>3. \A q \in Proc : IndexIn(nodes', loc[q].prev) = IndexIn(nodes, loc[q].prev)
    BY <1>1, <2>1
  <2>4. Indexed' /\ PrevKnown'
    BY <2>1, <2>2, <2>3 DEF Indexed, PrevKnown, InStep
  <2> QED
    BY <1>1, <2>1, <2>4
<1> QED
  BY <1>3, <1>4, <1>5, <1>6, <1>7, <1>8, <1>9, StepKinds

-----------------------------------------------------------------------------
(* The turns of a step that a reader shows are all that it owns. *)
LEMMA ShownTurns ==
    ASSUME NEW chain \in Seq(Turn), NEW s \in Nat \ {0}
    PROVE  /\ TurnsOfStep(chain, s) \in Seq(Turn)
           /\ Len(TurnsOfStep(chain, s)) = TurnCount(chain, s)
           /\ \A k \in 1..Len(TurnsOfStep(chain, s)) : TurnsOfStep(chain, s)[k].owner = s
<1> DEFINE places == {i \in 1..Len(chain) : chain[i].owner = s}
           turns == At(chain, places)
<1>1. DOMAIN chain = 1..Len(chain) /\ Len(chain) \in Nat /\ places \in SUBSET (1..Len(chain))
  OBVIOUS
<1>2. TurnsOfStep(chain, s) = turns /\ TurnCount(chain, s) = Cardinality(places)
  BY <1>1 DEF TurnsOfStep, TurnCount
<1>3. \A i \in places : chain[i] \in Turn /\ chain[i].owner = s
  OBVIOUS
<1> HIDE DEF places
<1>4. /\ Cardinality(places) \in Nat /\ DOMAIN turns = 1..Cardinality(places)
      /\ \A k \in 1..Cardinality(places) : turns[k] \in Turn /\ turns[k].owner = s
      /\ \E f : turns = [k \in 1..Cardinality(places) |-> f[k]]
  <2>0. PICK m \in Nat : places \in SUBSET (1..m)
    BY <1>1
  <2> HIDE DEF turns
  <2>1. /\ Cardinality(places) \in Nat
        /\ DOMAIN At(chain, places) = 1..Cardinality(places)
        /\ At(chain, places) = [k \in 1..Cardinality(places) |-> At(chain, places)[k]]
    <3>1. Cardinality(places) \in Nat
      BY <2>0, AtDomain
    <3>2. DOMAIN At(chain, places) = 1..Cardinality(places)
      BY <2>0, AtDomain
    <3>3. At(chain, places) = [k \in 1..Cardinality(places) |-> At(chain, places)[k]]
      BY <2>0, AtDomain
    <3> QED
      BY <3>1, <3>2, <3>3
  <2>2. ASSUME NEW k \in 1..Cardinality(places)
        PROVE  \E i \in places : At(chain, places)[k] = chain[i]
    <3>1. PlaceOf(places, k) \in places
      BY <2>0, AtRank
    <3>2. \A q \in Seq(Turn) : At(q, places)[k] = q[PlaceOf(places, k)]
      BY <2>0, AtRank
    <3> QED
      BY <3>1, <3>2
  <2>3. /\ Cardinality(places) \in Nat /\ DOMAIN turns = 1..Cardinality(places)
        /\ turns = [k \in 1..Cardinality(places) |-> turns[k]]
    BY <2>1 DEF turns
  <2>4. \A k \in 1..Cardinality(places) : \E i \in places : turns[k] = chain[i]
    BY <2>2 DEF turns
  <2> QED
    BY <1>3, <2>3, <2>4
<1> HIDE DEF turns
<1>5. turns \in Seq(Turn) /\ Len(turns) = Cardinality(places)
  <2>1. turns \in [1..Cardinality(places) -> Turn]
    BY <1>4
  <2> QED
    BY <1>4, <2>1
<1> QED
  BY <1>2, <1>4, <1>5

(* The first elements of a sequence. *)
LEMMA FrontOf ==
    ASSUME NEW S, NEW seq \in Seq(S), NEW n \in 0..Len(seq)
    PROVE  /\ SubSeq(seq, 1, n) \in Seq(S) /\ Len(SubSeq(seq, 1, n)) = n
           /\ \A i \in 1..n : SubSeq(seq, 1, n)[i] = seq[i]
<1>1. n \in Int /\ 1 \in Int /\ \A i \in 1..n : seq[i] \in S
  OBVIOUS
<1> QED
  BY <1>1, SubSeqProperties

(* Of the turns of a list, those that are shown. *)
Shown(turns) == {i \in 1..Len(turns) : turns[i] \notin Wordless \cup {Silent}}

LEMMA AtPlace ==
    ASSUME NEW n \in Nat, NEW places \in SUBSET (1..n), NEW i \in places
    PROVE  /\ Cardinality(Lower(places, i)) \in 1..Cardinality(places)
           /\ PlaceOf(places, Cardinality(Lower(places, i))) = i
<1> DEFINE R == Upwards(places)
<1>1. IsFiniteSet(places) /\ Orders(R, places)
  BY UpwardsOrders
<1>2. {j \in places : <<j, i>> \in R} = Lower(places, i)
  BY DEF Upwards, Lower
<1>3. Rank(places, R, i) = Cardinality(Lower(places, i))
  BY <1>2 DEF Rank
<1> HIDE DEF R
<1>4. Rank(places, R, i) \in 1..Cardinality(places) /\ Sorted(places, R)[Rank(places, R, i)] = i
  BY <1>1, SortedIs
<1> QED
  BY <1>3, <1>4 DEF PlaceOf, R

LEMMA LoadIs ==
    ASSUME NEW turns \in Seq(Turn)
    PROVE  /\ Shown(turns) \in SUBSET (1..Len(turns)) /\ Len(turns) \in Nat
           /\ LoadTurnData(turns) = At(turns, Shown(turns))
           /\ LoadTurnData(turns) \in Seq(Turn)
           /\ Len(LoadTurnData(turns)) = Cardinality(Shown(turns))
           /\ \A k \in 1..Len(LoadTurnData(turns)) :
                 \E i \in 1..Len(turns) : LoadTurnData(turns)[k] = turns[i]
<1> DEFINE places == Shown(turns)
           shown == At(turns, places)
<1>1. DOMAIN turns = 1..Len(turns) /\ Len(turns) \in Nat /\ places \in SUBSET (1..Len(turns))
  BY DEF Shown
<1>2. LoadTurnData(turns) = shown
  BY <1>1 DEF LoadTurnData, Shown
<1>3. PICK n \in Nat : n = Len(turns)
  BY <1>1
<1> HIDE DEF places
<1>4. PICK c \in Nat : c = Cardinality(places)
  BY <1>1, <1>3, AtDomain
<1>5. shown = [k \in 1..c |-> shown[k]]
  BY <1>1, <1>3, <1>4, AtDomain
<1>6. ASSUME NEW k \in 1..c PROVE \E i \in 1..n : shown[k] = turns[i]
  <2>1. PlaceOf(places, k) \in places
    BY <1>1, <1>3, <1>4, AtRank
  <2>2. \A q \in Seq(Turn) : At(q, places)[k] = q[PlaceOf(places, k)]
    BY <1>1, <1>3, <1>4, AtRank
  <2> QED
    BY <1>1, <1>3, <2>1, <2>2
<1> HIDE DEF shown
<1>7. shown \in [1..c -> Turn]
  BY <1>3, <1>5, <1>6
<1>8. shown \in Seq(Turn) /\ Len(shown) = c
  BY <1>7
<1> QED
  BY <1>1, <1>2, <1>3, <1>4, <1>6, <1>8 DEF places, shown

LEMMA LoadNone == LoadTurnData(<<>>) = <<>>
<1>1. <<>> \in Seq(Turn) /\ Len(<<>>) = 0
  BY EmptySeq
<1>2. PICK none \in Seq(Turn) : none = <<>> /\ Len(none) = 0
  BY <1>1
<1>3. Shown(none) = {}
  BY <1>2 DEF Shown
<1>4. LoadTurnData(none) \in Seq(Turn) /\ Len(LoadTurnData(none)) = 0
  BY <1>3, LoadIs, FS_EmptySet
<1> QED
  BY <1>2, <1>4, EmptySeq

(* A turn more is shown behind the others, or not at all. *)
LEMMA LoadAppend ==
    ASSUME NEW turns \in Seq(Turn), NEW t \in Turn
    PROVE  LoadTurnData(Append(turns, t)) =
              IF t \in Wordless \cup {Silent} THEN LoadTurnData(turns)
              ELSE Append(LoadTurnData(turns), t)
<1> DEFINE longer == Append(turns, t)
<1>1. PICK n \in Nat, m \in Nat : n = Len(turns) /\ m = n + 1
  OBVIOUS
<1>2. /\ longer \in Seq(Turn) /\ Len(longer) = m /\ longer[m] = t
      /\ \A i \in 1..n : longer[i] = turns[i]
  BY <1>1, AppendProperties
<1> HIDE DEF longer
<1>3. PICK P \in SUBSET (1..n) : P = Shown(turns)
  BY <1>1 DEF Shown
<1>4. PICK Q \in SUBSET (1..m) : Q = Shown(longer)
  BY <1>2 DEF Shown
<1>5. \A i \in 1..n : i \in Q <=> i \in P
  BY <1>1, <1>2, <1>3, <1>4 DEF Shown
<1>6. m \in Q <=> t \notin Wordless \cup {Silent}
  BY <1>1, <1>2, <1>4 DEF Shown
<1>7. PICK old \in Seq(Turn) : old = LoadTurnData(turns) /\ old = At(turns, P) /\ Len(old) = Cardinality(P)
  BY <1>3, LoadIs
<1>8. PICK new \in Seq(Turn) :
          new = LoadTurnData(longer) /\ new = At(longer, Q) /\ Len(new) = Cardinality(Q)
  BY <1>2, <1>4, LoadIs
<1>9. PICK c \in Nat : c = Cardinality(P) /\ Len(old) = c
  BY <1>7
<1>10. (\A i \in P : i \in 1..n) /\ (\A i \in Q : i \in 1..m)
  BY <1>3, <1>4
<1>a. ASSUME NEW i \in P PROVE i \in Q
  BY <1>5, <1>10
<1>b. ASSUME NEW i \in Q PROVE IF i = m THEN i \notin P ELSE i \in P /\ i \in 1..n
  <2>1. i \in 1..m /\ (i \in P => i \in 1..n)
    BY <1>10
  <2>2. CASE i = m
    BY <1>1, <2>1, <2>2
  <2>3. CASE i # m
    <3>1. i \in 1..n
      BY <1>1, <2>1, <2>3
    <3> QED
      BY <1>5, <2>3, <3>1
  <2> QED
    BY <2>2, <2>3
<1>11. ASSUME NEW k \in 1..c, k \in 1..Cardinality(Q) PROVE new[k] = old[k]
  <2> DEFINE i == PlaceOf(P, k)
  <2>1. k \in 1..Cardinality(P)
    BY <1>9
  <2>2. i \in P /\ At(turns, P)[k] = turns[i] /\ Cardinality(Lower(P, i)) = k
    BY <1>1, <1>3, <2>1, AtRank
  <2> HIDE DEF i
  <2>3. i \in Q /\ i \in 1..n /\ Lower(Q, i) = Lower(P, i)
    <3>1. i \in Q /\ i \in 1..n
      BY <1>5, <1>10, <2>2
    <3>2. ASSUME NEW j \in Q, j <= i PROVE j \in P
      <4>1. j # m
        BY <1>1, <3>1, <3>2
      <4> QED
        BY <1>b, <4>1
    <3> QED
      BY <1>a, <3>1, <3>2 DEF Lower
  <2>4. PlaceOf(Q, k) = i
    <3>1. PlaceOf(Q, Cardinality(Lower(Q, i))) = i
      BY <1>1, <1>4, <2>3, AtPlace
    <3> QED
      BY <2>2, <2>3, <3>1
  <2>5. \A q \in Seq(Turn) : At(q, Q)[k] = q[PlaceOf(Q, k)]
    BY <1>1, <1>4, <1>11, AtRank
  <2> QED
    BY <1>2, <1>7, <1>8, <2>2, <2>3, <2>4, <2>5
<1>12. CASE m \notin Q
  <2>1. Q = P
    BY <1>a, <1>b, <1>12
  <2>2. Len(new) = c /\ \A k \in 1..c : new[k] = old[k]
    BY <1>8, <1>9, <1>11, <2>1
  <2>3. new = old
    BY <1>9, <2>2, SeqEqual
  <2> QED
    BY <1>6, <1>7, <1>8, <1>12, <2>3 DEF longer
<1>13. CASE m \in Q
  <2>1. Q = P \cup {m} /\ m \notin P
    BY <1>a, <1>b, <1>13
  <2>2. Cardinality(Q) = c + 1
    <3>1. IsFiniteSet(P)
      BY <1>1, <1>3, UpwardsOrders
    <3> QED
      BY <1>9, <2>1, <3>1, FS_AddElement
  <2>3. Lower(Q, m) = Q
    <3>1. \A j : j \in Q => j <= m
      BY <1>1, <1>10
    <3> QED
      BY <3>1 DEF Lower
  <2>4. new[c + 1] = t
    <3>1. PICK k \in 1..Cardinality(Q) : k = c + 1
      BY <1>9, <2>2
    <3>2. PlaceOf(Q, k) = m
      <4>1. PlaceOf(Q, Cardinality(Lower(Q, m))) = m
        BY <1>1, <1>4, <1>13, AtPlace
      <4> QED
        BY <2>2, <2>3, <3>1, <4>1
    <3>3. \A q \in Seq(Turn) : At(q, Q)[k] = q[PlaceOf(Q, k)]
      BY <1>1, <1>4, <3>1, AtRank
    <3> QED
      BY <1>2, <1>8, <3>1, <3>2, <3>3
  <2>5. PICK more : more = Append(old, t)
    OBVIOUS
  <2>6. /\ more \in Seq(Turn) /\ Len(more) = c + 1 /\ more[c + 1] = t
        /\ \A k \in 1..c : more[k] = old[k]
    BY <1>9, <2>5, AppendProperties
  <2>7. Len(new) = c + 1 /\ \A k \in 1..(c + 1) : new[k] = more[k]
    <3>1. \A k \in 1..(c + 1) : k \in 1..c \/ k = c + 1
      OBVIOUS
    <3>2. \A k \in 1..c : new[k] = old[k]
      BY <1>11, <2>2
    <3> QED
      BY <1>8, <2>2, <2>4, <2>6, <3>1, <3>2
  <2>8. new = more
    BY <2>6, <2>7, SeqEqual
  <2> QED
    BY <1>6, <1>7, <1>8, <1>13, <2>5, <2>8 DEF longer
<1> QED
  BY <1>12, <1>13

(* So a list may be shown in two parts. *)
LEMMA LoadConcat ==
    ASSUME NEW front \in Seq(Turn), NEW back \in Seq(Turn)
    PROVE  LoadTurnData(front \o back) = LoadTurnData(front) \o LoadTurnData(back)
<1> DEFINE upto(k) == SubSeq(back, 1, k)
           T == {k \in 0..Len(back) :
                    LoadTurnData(front \o upto(k)) = LoadTurnData(front) \o LoadTurnData(upto(k))}
<1>1. PICK n \in Nat : n = Len(back)
  OBVIOUS
<1>2. \A k \in 0..n : upto(k) \in Seq(Turn) /\ Len(upto(k)) = k /\ \A i \in 1..k : upto(k)[i] = back[i]
  BY <1>1, FrontOf
<1>3. LoadTurnData(front) \in Seq(Turn)
  BY LoadIs
<1> HIDE DEF upto
<1>4. ASSUME NEW k \in 0..n, \A j \in 0..n : j < k => j \in T PROVE k \in T
  <2>1. CASE k = 0
    <3>1. upto(0) = <<>>
      BY <1>2, <2>1, EmptySeq
    <3>2. front \o <<>> = front /\ LoadTurnData(front) \o <<>> = LoadTurnData(front)
      BY <1>3, ConcatEmptySeq
    <3> QED
      BY <1>1, <2>1, <3>1, <3>2, LoadNone
  <2>2. CASE k # 0
    <3>1. k - 1 \in 0..n /\ k - 1 < k /\ k - 1 \in T
      BY <1>4, <2>2
    <3>2. PICK part \in Seq(Turn) : part = upto(k - 1)
      BY <1>2, <3>1
    <3>3. PICK t \in Turn : t = back[k]
      BY <1>1, <2>2
    <3>4. upto(k) = Append(part, t)
      <4>1. Append(part, t) \in Seq(Turn) /\ Len(Append(part, t)) = k
            /\ \A i \in 1..k : Append(part, t)[i] = back[i]
        BY <1>2, <2>2, <3>1, <3>2, <3>3, AppendProperties
      <4>2. PICK more \in Seq(Turn) : more = Append(part, t) /\ Len(more) = k
                                      /\ \A i \in 1..k : more[i] = back[i]
        BY <4>1
      <4>3. PICK some \in Seq(Turn) : some = upto(k) /\ Len(some) = k
                                      /\ \A i \in 1..k : some[i] = back[i]
        BY <1>2
      <4>4. some = more
        BY <4>2, <4>3, SeqEqual
      <4> QED
        BY <4>2, <4>3, <4>4
    <3>5. PICK sum \in Seq(Turn) : sum = front \o part
      BY <3>2, ConcatProperties
    <3>6. front \o upto(k) = Append(sum, t)
      BY <3>2, <3>3, <3>4, <3>5
    <3>7. PICK a \in Seq(Turn) : a = LoadTurnData(front)
      BY <1>3
    <3>8. PICK b \in Seq(Turn) : b = LoadTurnData(part)
      BY <3>2, LoadIs
    <3>9. LoadTurnData(sum) = a \o b
      BY <3>1, <3>2, <3>5, <3>7, <3>8
    <3>10. a \o Append(b, t) = Append(a \o b, t)
      BY <3>3, <3>7, <3>8
    <3>11. LoadTurnData(Append(sum, t)) = IF t \in Wordless \cup {Silent} THEN a \o b
                                         ELSE Append(a \o b, t)
      BY <3>3, <3>5, <3>9, LoadAppend
    <3>12. LoadTurnData(Append(part, t)) = IF t \in Wordless \cup {Silent} THEN b ELSE Append(b, t)
      BY <3>2, <3>3, <3>8, LoadAppend
    <3>13. LoadTurnData(front \o upto(k)) = a \o LoadTurnData(upto(k))
      BY <3>4, <3>6, <3>10, <3>11, <3>12
    <3> QED
      BY <1>1, <3>7, <3>13
  <2> QED
    BY <2>1, <2>2
<1> HIDE DEF T
<1>5. \A k \in 0..n : k \in T
  <2>1. \A k \in 0..n : (\A j \in 0..n : j < k => j \in T) => k \in T
    BY <1>4
  <2> QED
    BY <2>1, UpTo
<1>6. n \in T
  BY <1>5
<1>7. upto(n) = back
  BY <1>1, SubSeqFull DEF upto
<1> QED
  BY <1>6, <1>7 DEF T

-----------------------------------------------------------------------------
(* The threads that a reader finds at first have what a step leaves behind. *)
LEMMA LiveInitInv == LiveInit => TallyInv /\ PlaceInv
<1> SUFFICES ASSUME Resting,
                    \/ OldStepDone
                    \/ \E n \in 0..1 : OneStepDone(n)
             PROVE  TallyInv /\ PlaceInv
  BY DEF LiveInit, OldStepDone, OneStepDone
<1>1. /\ Blank \in Local /\ Blank.role \in Role /\ Blank.route \in Gateway
      /\ Blank.start = 0 /\ Blank.prev = 0 /\ Blank.chain = <<>> /\ Blank.cmd = "none"
  BY BlankTyped DEF Local, Blank
<1>2. /\ activeStep = 0 /\ head = 1 /\ mixed = {}
      /\ \A p \in Proc : pc[p] = "idle" /\ loc[p] = Blank
      /\ LocalsTyped
  BY <1>1 DEF Resting, LocalsTyped, Labels
<1>3. 1 \in SessionIds /\ MaxSessions \in Nat /\ MaxSessions >= 1
  BY BoundsAssumption DEF SessionIds
<1>4. \A s \in {OldStep, 1}, kind \in {"ok", "suspend"}, m \in Nat :
        FirstNode(s, kind, m) =>
            nodes \in Seq(Node) /\ Len(nodes) = 1 /\ nodes[1].start = s /\ nodes[1].prev = 0
  <2> SUFFICES ASSUME NEW s \in {OldStep, 1}, NEW kind \in {"ok", "suspend"}, NEW m \in Nat,
                      FirstNode(s, kind, m)
               PROVE  /\ nodes \in Seq(Node) /\ Len(nodes) = 1
                      /\ nodes[1].start = s /\ nodes[1].prev = 0
    OBVIOUS
  <2> DEFINE node == [start |-> s, prev |-> 0, role |-> Blank.role, kind |-> kind,
                      turnCount |-> m, agent |-> Blank.route]
  <2>1. node \in Node /\ node.start = s /\ node.prev = 0 /\ nodes = <<node>>
    BY <1>1 DEF Node, FirstNode, OldStep
  <2> HIDE DEF node
  <2> QED
    BY <2>1
<1> DEFINE Known == /\ TypeOK /\ OwnersBegun /\ Len(nodes) = 1 /\ nodes[1].prev = 0
                    /\ nodes[1].start \in 0..Len(starts)
                    /\ \A i \in 1..Len(starts) : i = 1 /\ starts[i].stepIndex = 0
<1>5. ASSUME OldStepDone PROVE Known
  <2>1. /\ nodes \in Seq(Node) /\ Len(nodes) = 1 /\ nodes[1].start = 0 /\ nodes[1].prev = 0
    BY <1>4, <1>5 DEF OldStepDone, OldStep
  <2>2. /\ turnHead = <<>> /\ starts = <<>> /\ sessions = <<>> /\ live = {}
        /\ rows = [r \in Role |-> NoRow] /\ heard = [s \in SessionIds |-> {}]
        /\ Len(starts) = 0 /\ Len(sessions) = 0 /\ Len(turnHead) = 0
    BY <1>5 DEF OldStepDone
  <2>3. StartsTyped
    <3>1. starts \in Seq({starts[i] : i \in 1..Len(starts)})
      BY <2>2, EmptySeq
    <3> QED
      BY <1>2, <2>2, <3>1 DEF StartsTyped
  <2>4. NodesTyped
    BY <1>2, <2>1, <2>2, EmptySeq DEF NodesTyped
  <2>5. SessionsTyped
    <3>1. sessions \in Seq(Gateway) /\ Len(sessions) <= MaxSessions
      BY <1>3, <2>2, EmptySeq
    <3> QED
      BY <2>2, <3>1 DEF SessionsTyped
  <2>6. OwnersBegun
    BY <1>1, <1>2, <2>2 DEF OwnersBegun
  <2>7. Known
    BY <1>2, <2>1, <2>2, <2>3, <2>4, <2>5, <2>6 DEF TypeOK
  <2> QED
    BY <2>7
<1>6. ASSUME NEW n \in 0..1, OneStepDone(n) PROVE Known
  <2>1. /\ nodes \in Seq(Node) /\ Len(nodes) = 1 /\ nodes[1].start = 1 /\ nodes[1].prev = 0
    <3>1. PICK kind \in {"ok", "suspend"} : FirstNode(1, kind, n)
      BY <1>6 DEF OneStepDone
    <3> QED
      BY <1>4, <3>1
  <2> DEFINE e == [role |-> Blank.role, stepIndex |-> 0]
             row == [gateway |-> Blank.route, sid |-> 1]
             t == [owner |-> 1, nth |-> 1]
  <2>2. e.role \in Role /\ e.stepIndex = 0 /\ row \in Row /\ row.sid = 1 /\ t \in Turn /\ t.owner = 1
    BY <1>1 DEF Row, Turn
  <2>3. /\ starts = <<e>> /\ sessions = <<Blank.route>> /\ live = {1}
        /\ rows = [x \in Role |-> IF x = Blank.role THEN row ELSE NoRow]
        /\ heard = [s \in SessionIds |-> IF s = 1 THEN {1} ELSE {}]
    BY <1>6 DEF OneStepDone
  <2>4. turnHead \in Seq(Turn) /\ \A j \in 1..Len(turnHead) : turnHead[j].owner = 1
    <3>1. turnHead = [i \in 1..n |-> [owner |-> 1, nth |-> i]]
      BY <1>6 DEF OneStepDone
    <3>2. \A i \in 1..n : [owner |-> 1, nth |-> i] \in Turn
      BY DEF Turn
    <3>3. turnHead \in [1..n -> Turn] /\ n \in Nat
      BY <3>1, <3>2
    <3>4. turnHead \in Seq(Turn) /\ Len(turnHead) = n
      BY <3>3
    <3> QED
      BY <3>1, <3>4
  <2> HIDE DEF e, row, t
  <2>5. Len(starts) = 1 /\ starts[1] = e /\ Len(sessions) = 1 /\ sessions \in Seq(Gateway)
    BY <1>1, <2>3
  <2>6. StartsTyped
    <3>1. starts \in Seq({starts[i] : i \in 1..Len(starts)})
      <4>1. {starts[i] : i \in 1..Len(starts)} = {e}
        BY <2>5
      <4>2. starts \in Seq({e})
        BY <2>3
      <4> QED
        BY <4>1, <4>2
    <3> QED
      BY <1>2, <2>2, <2>5, <3>1 DEF StartsTyped
  <2>7. NodesTyped
    BY <1>2, <2>1, <2>4 DEF NodesTyped
  <2>8. SessionsTyped
    <3>1. rows \in [Role -> {NoRow} \cup Row]
          /\ \A r \in Role : rows[r] # NoRow => rows[r].sid \in 1..Len(sessions)
      BY <2>2, <2>3, <2>5
    <3>2. heard \in [SessionIds -> SUBSET (1..Len(starts))]
      BY <2>3, <2>5
    <3> QED
      BY <1>3, <2>3, <2>5, <3>1, <3>2 DEF SessionsTyped
  <2>9. OwnersBegun
    BY <1>1, <1>2, <2>4, <2>5 DEF OwnersBegun
  <2> QED
    BY <1>2, <2>1, <2>2, <2>5, <2>6, <2>7, <2>8, <2>9 DEF TypeOK
<1>7. Known
  <2> HIDE DEF Known
  <2> QED
    BY <1>5, <1>6
<1> HIDE DEF Known
<1>8. /\ TypeOK /\ OwnersBegun /\ Len(nodes) = 1 /\ nodes[1].prev = 0 /\ Len(starts) \in Nat
      /\ nodes[1].start \in 0..Len(starts)
      /\ \A i \in 1..Len(starts) : i = 1 /\ starts[i].stepIndex = 0
  BY <1>7 DEF Known, TypeOK, StartsTyped
<1>9. StepInv
  <2>1. StepBegun /\ StepEnds /\ SessionsKnown
    BY <1>1, <1>2 DEF StepBegun, InStep, StepEnds, SessionsKnown
  <2>2. NodesBegun /\ ActiveUnwritten
    BY <1>2, <1>8 DEF NodesBegun, ActiveUnwritten
  <2> QED
    BY <1>8, <2>1, <2>2 DEF StepInv
<1>10. TallyInv
  <2>1. Solo /\ Apart /\ Unwritten /\ \A p \in Proc : Agrees(p) /\ Counts(p)
    BY <1>2 DEF Solo, Apart, Unwritten, Agrees, Counts, InStep, Chaining
  <2> QED
    BY <1>8, <1>9, <2>1 DEF TallyInv
<1>11. PlaceInv
  <2>1. Descends /\ PrevKnown
    BY <1>1, <1>2, <1>8 DEF Descends, Descending, PrevKnown
  <2>2. IndexIn(nodes, 0) = 0
    <3>1. WalkOf(nodes)[0] = <<>>
      BY <1>8, <2>1, WalkIs DEF Descends
    <3> QED
      BY <3>1 DEF IndexIn
  <2>3. Indexed
    BY <1>2, <1>8, <2>2 DEF Indexed, InStep
  <2> QED
    BY <2>1, <2>3 DEF PlaceInv
<1> QED
  BY <1>10, <1>11

(* What a reader does leaves the thread as it is. *)
LEMMA ReadersOnlyRead == [ReadNext]_readVars => [Next]_vars
<1> SUFFICES ASSUME [ReadNext]_readVars PROVE [Next]_vars
  OBVIOUS
<1>1. Watch => UNCHANGED vars
  BY DEF Watch, liveVars
<1>2. UNCHANGED readVars => UNCHANGED vars
  BY DEF readVars, liveVars
<1>3. Follow \/ Poll => UNCHANGED vars
  BY DEF Follow, Poll, Decide, SeeActive, SeeHead, ShowTail, CheckRunning, Finish
<1>4. ASSUME NEW quota \in Quotas, FirstPage(quota) PROVE Watch
  BY <1>4 DEF FirstPage
<1>5. ASSUME NEW n, NEW quota \in Quotas, ReadStep(n, quota) PROVE Watch
  BY <1>5 DEF ReadStep
<1>6. ASSUME NEW n, Fork(n) PROVE Watch
  BY <1>6 DEF Fork
<1>7. NextPage \/ StepNotFound \/ PageOfTurns => Watch
  BY DEF NextPage, StepNotFound, PageOfTurns
<1> QED
  BY <1>1, <1>2, <1>3, <1>4, <1>5, <1>6, <1>7 DEF ReadNext

(* The turn counts and the places of the steps, also while the thread is    *)
(* read.                                                                    *)
LEMMA ReadInv == ReadSpec => [](TallyInv /\ PlaceInv)
<1>1. ReadInit => TallyInv /\ PlaceInv
  BY LiveInitInv DEF ReadInit
<1>2. TallyInv /\ PlaceInv /\ [ReadNext]_readVars => (TallyInv /\ PlaceInv)'
  BY ReadersOnlyRead, TallyStep, PlaceStep DEF TallyInv
<1> QED
  BY <1>1, <1>2, PTL DEF ReadSpec

(* The panorama keeps the order of the thread's chain, for every number of  *)
(* processes and steps: a step's index is the length of the chain it was    *)
(* begun on, so of two steps on one chain the later one has the higher.     *)
THEOREM PanoramaIsInOrder == ReadSpec => []PanoramaFollowsChain
<1>1. TallyInv /\ PlaceInv => PanoramaFollowsChain
  BY PanoramaInOrder DEF TallyInv, StepInv, TypeOK
<1> QED
  BY <1>1, ReadInv, PTL

-----------------------------------------------------------------------------
(* The turns of a step carry their numbers one after the other. *)
TurnsUpTo(s, n) == [k \in 1..n |-> [owner |-> s, nth |-> k]]

Tidy(chain, s) ==
    \A j \in 1..Len(chain) :
        chain[j].owner = s => chain[j].nth = Cardinality({i \in 1..j : chain[i].owner = s})

TidyInv ==
    \A s \in (1..Len(starts)) \ mixed :
        /\ Tidy(turnHead, s)
        /\ \A p \in Proc : pc[p] \in Chaining => Tidy(loc[p].chain, s)

(* What the follower has read and, until its last look, printed. *)
ReadOnce ==
    /\ readHead \in Seq(Turn) /\ seen \subseteq 1..Len(starts)
    /\ \A j \in 1..Len(readHead) : readHead[j].owner \in 1..Len(starts)
    /\ \A s \in (1..Len(starts)) \ mixed :
          Tidy(readHead, s) /\ TurnCount(readHead, s) <= TurnCount(turnHead, s)

PrintedOnce ==
    fpc # "done" =>
        /\ printedCount \in Nat /\ lastActive \in seen \cup {0}
        /\ seen = {} => printed = <<>> /\ printedCount = 0
        /\ usePhase3 # "yes" => seen = {} /\ fpc \notin {"active", "head", "print"}
        /\ \A s \in (1..Len(starts)) \ mixed :
              seen = {s} => printed = LoadTurnData(TurnsUpTo(s, printedCount))
                            /\ printedCount <= TurnCount(turnHead, s)

FollowInv == ReadOnce /\ PrintedOnce

LEMMA TidyAppend ==
    ASSUME NEW chain \in Seq(Turn), NEW t \in Turn, NEW s, Tidy(chain, s),
           t.owner = s => t.nth = TurnCount(chain, s) + 1
    PROVE  Tidy(Append(chain, t), s)
<1> DEFINE longer == Append(chain, t)
           n == Len(chain)
<1>1. /\ n \in Nat /\ Len(longer) = n + 1 /\ longer[n + 1] = t
      /\ \A j \in 1..n : longer[j] = chain[j]
  BY AppendProperties
<1>2. TurnCount(longer, s) = TurnCount(chain, s) + (IF t.owner = s THEN 1 ELSE 0)
  BY CountOne
<1> HIDE DEF longer
<1>3. ASSUME NEW j \in 1..n, longer[j].owner = s
      PROVE  longer[j].nth = Cardinality({i \in 1..j : longer[i].owner = s})
  <2>1. {i \in 1..j : longer[i].owner = s} = {i \in 1..j : chain[i].owner = s}
    BY <1>1
  <2> QED
    BY <1>1, <1>3, <2>1 DEF Tidy
<1>4. ASSUME t.owner = s
      PROVE  t.nth = Cardinality({i \in 1..(n + 1) : longer[i].owner = s})
  <2>1. Cardinality({i \in 1..(n + 1) : longer[i].owner = s}) = TurnCount(longer, s)
    BY <1>1 DEF TurnCount
  <2> QED
    BY <1>2, <1>4, <2>1
<1>5. Tidy(longer, s)
  <2> SUFFICES ASSUME NEW j \in 1..Len(longer), longer[j].owner = s
               PROVE  longer[j].nth = Cardinality({i \in 1..j : longer[i].owner = s})
    BY DEF Tidy
  <2>1. CASE j \in 1..n
    BY <1>3, <2>1
  <2>2. CASE j = n + 1
    BY <1>1, <1>4, <2>2
  <2> QED
    BY <1>1, <2>1, <2>2
<1> QED
  BY <1>5 DEF longer

LEMMA TidyNone ==
    ASSUME NEW chain, NEW s, \A j \in 1..Len(chain) : chain[j].owner # s
    PROVE  Tidy(chain, s)
BY DEF Tidy

LEMMA EmptyChain == \A s : Tidy(<<>>, s) /\ TurnCount(<<>>, s) = 0
<1>1. <<>> \in Seq(Turn) /\ Len(<<>>) = 0
  BY EmptySeq
<1>2. PICK c \in Seq(Turn) : c = <<>>
  BY <1>1
<1>3. \A s : \A j \in 1..Len(c) : c[j].owner # s
  BY <1>1, <1>2
<1>4. ASSUME NEW s PROVE Tidy(c, s) /\ TurnCount(c, s) = 0
  BY <1>3, TidyNone, CountNone
<1> QED
  BY <1>2, <1>4

LEMMA TidyTurns ==
    ASSUME NEW chain \in Seq(Turn), NEW s \in Nat \ {0}, Tidy(chain, s)
    PROVE  TurnsOfStep(chain, s) = TurnsUpTo(s, TurnCount(chain, s))
<1> DEFINE places == {i \in 1..Len(chain) : chain[i].owner = s}
           turns == At(chain, places)
<1>1. DOMAIN chain = 1..Len(chain) /\ Len(chain) \in Nat /\ places \in SUBSET (1..Len(chain))
  OBVIOUS
<1>2. TurnsOfStep(chain, s) = turns /\ TurnCount(chain, s) = Cardinality(places)
  BY <1>1 DEF TurnsOfStep, TurnCount
<1>3. \A i \in places : chain[i] \in Turn /\ chain[i].owner = s
  OBVIOUS
<1>4. ASSUME NEW i \in places PROVE chain[i].nth = Cardinality(Lower(places, i))
  <2>1. Lower(places, i) = {j \in 1..i : chain[j].owner = s}
    BY <1>1 DEF Lower
  <2> QED
    BY <1>1, <2>1 DEF Tidy
<1> HIDE DEF places
<1>5. PICK m \in Nat : places \in SUBSET (1..m)
  BY <1>1
<1>6. turns = [k \in 1..Cardinality(places) |-> turns[k]]
  BY <1>5, AtDomain
<1>7. ASSUME NEW k \in 1..Cardinality(places) PROVE turns[k] = [owner |-> s, nth |-> k]
  <2>1. PICK i \in places : turns[k] = chain[i] /\ Cardinality(Lower(places, i)) = k
    <3>1. PlaceOf(places, k) \in places
      BY <1>5, AtRank
    <3>2. turns[k] = chain[PlaceOf(places, k)]
      <4>1. \A q \in Seq(Turn) : At(q, places)[k] = q[PlaceOf(places, k)]
        BY <1>5, AtRank
      <4> QED
        BY <4>1
    <3>3. Cardinality(Lower(places, PlaceOf(places, k))) = k
      BY <1>5, AtRank
    <3> QED
      BY <3>1, <3>2, <3>3
  <2>2. chain[i] \in Turn /\ chain[i].owner = s /\ chain[i].nth = k
    BY <1>3, <1>4, <2>1
  <2> QED
    BY <2>1, <2>2 DEF Turn
<1> HIDE DEF turns
<1>8. turns = [k \in 1..Cardinality(places) |-> [owner |-> s, nth |-> k]]
  BY <1>6, <1>7
<1> QED
  BY <1>2, <1>8 DEF TurnsUpTo

(* A step of the thread keeps the numbers, and the turns of a step that     *)
(* nobody overlapped grow no fewer.                                         *)
LEMMA TidyStep ==
    TallyInv /\ TidyInv /\ [Next]_vars =>
        /\ TidyInv'
        /\ Len(starts) \in Nat /\ Len(starts') \in Nat /\ Len(starts) <= Len(starts')
        /\ \A s \in (1..Len(starts)) \ mixed : TurnCount(turnHead, s) <= TurnCount(turnHead', s)
<1> DEFINE Kept == /\ TidyInv'
                   /\ Len(starts) \in Nat /\ Len(starts') \in Nat /\ Len(starts) <= Len(starts')
                   /\ \A s \in (1..Len(starts)) \ mixed :
                         TurnCount(turnHead, s) <= TurnCount(turnHead', s)
<1> SUFFICES ASSUME TallyInv, TidyInv, [Next]_vars PROVE Kept
  OBVIOUS
<1>0. /\ TypeOK /\ LocalsTyped /\ StepBegun /\ Len(starts) \in Nat /\ OwnersBegun
      /\ turnHead \in Seq(Turn)
  BY DEF TallyInv, StepInv, TypeOK, StartsTyped, NodesTyped
<1>a. \A s : TurnCount(turnHead, s) \in Nat
  BY <1>0, CountsAreNumbers
\* A step that adds no turn.
<1>1. ASSUME NEW p \in Proc, Others(p), UNCHANGED <<turnHead, starts, mixed>>,
             \/ pc'[p] \notin Chaining
             \/ loc'[p].chain = turnHead
             \/ pc[p] \in Chaining /\ loc'[p].chain = loc[p].chain
      PROVE  Kept
  <2>1. \A q \in Proc \ {p} : pc'[q] = pc[q] /\ loc'[q] = loc[q]
    BY <1>1 DEF Others
  <2>2. TidyInv'
    BY <1>1, <2>1 DEF TidyInv
  <2> QED
    BY <1>0, <1>1, <1>a, <2>2
<1>2. ASSUME NEW p \in Proc, MarkActive(p) PROVE Kept
  <2>1. /\ Others(p) /\ pc'[p] = "turnhead" /\ Len(starts') = Len(starts) + 1
        /\ UNCHANGED turnHead /\ mixed \subseteq mixed'
    BY <1>0, <1>2, BeginStep, MarkedStart DEF MarkActive
  <2>2. \A j \in 1..Len(turnHead) : turnHead[j].owner # Len(starts) + 1
    BY <1>0 DEF OwnersBegun
  <2>3. \A q \in Proc : \A j \in 1..Len(loc[q].chain) : loc[q].chain[j].owner # Len(starts) + 1
    BY <1>0 DEF OwnersBegun
  <2>4. \A s \in (1..Len(starts')) \ mixed' :
            s \in (1..Len(starts)) \ mixed \/ s = Len(starts) + 1
    BY <1>0, <2>1
  <2>5. Tidy(turnHead, Len(starts) + 1)
        /\ \A q \in Proc : Tidy(loc[q].chain, Len(starts) + 1)
    BY <2>2, <2>3, TidyNone
  <2>6. \A q \in Proc : pc'[q] \in Chaining => pc[q] \in Chaining /\ loc'[q] = loc[q]
    BY <2>1 DEF Others, Chaining
  <2>7. TidyInv'
    BY <2>1, <2>4, <2>5, <2>6 DEF TidyInv
  <2> QED
    BY <1>0, <1>a, <2>1, <2>7
<1>3. ASSUME NEW p \in Proc, Quiet(p) PROVE Kept
  <2>1. Others(p) /\ UNCHANGED <<turnHead, starts, mixed>>
    BY <1>0, <1>3, GoingInStep, GoingKeeps, QuietStep DEF Quiet, Continues
  <2> QED
    BY <1>0, <1>1, <1>3, <2>1, QuietStep
<1>4. ASSUME NEW p \in Proc, ReadTurnHead(p) PROVE Kept
  <2>1. Others(p) /\ UNCHANGED <<turnHead, starts, mixed>> /\ loc'[p].chain = turnHead
    BY <1>0, <1>4, GoingInStep
       DEF Going, Continues, ReadTurnHead, LocalsTyped, Local, stored, history
  <2> QED
    BY <1>1, <2>1
<1>5. ASSUME NEW p \in Proc, OnTurn(p) PROVE Kept
  <2>1. PICK t \in Turn :
              /\ t.owner = loc[p].start /\ t.nth = loc[p].turns + 1
              /\ turnHead' = Append(loc[p].chain, t) /\ loc'[p].chain = turnHead'
              /\ loc[p].turns \in Nat
              /\ loc[p].chain \in Seq(Turn) /\ pc[p] = "stream" /\ pc'[p] = "stream"
              /\ UNCHANGED <<starts, mixed>>
    BY <1>0, <1>5, TurnAdded
  <2>2. Others(p) /\ InStep(p) /\ pc[p] \in Chaining
    BY <1>0, <1>5, <2>1, GoingInStep DEF Going, Send, Continues, Chaining
  <2>3. PICK c \in Seq(Turn) : c = loc[p].chain
    BY <2>1
  <2>4. turnHead' = Append(c, t)
    BY <2>1, <2>3
  <2>5. ASSUME NEW s \in (1..Len(starts)) \ mixed
        PROVE  /\ Tidy(turnHead', s)
               /\ TurnCount(turnHead, s) <= TurnCount(turnHead', s)
    <3>1. Tidy(c, s) /\ TurnCount(c, s) = TurnCount(turnHead, s)
      BY <2>2, <2>3 DEF TallyInv, TidyInv, Agrees
    <3>2. t.owner = s => t.nth = TurnCount(c, s) + 1
      BY <2>1, <2>2, <3>1 DEF TallyInv, Counts
    <3>3. Tidy(Append(c, t), s)
      BY <3>1, <3>2, TidyAppend
    <3>4. TurnCount(Append(c, t), s) = TurnCount(c, s) + (IF t.owner = s THEN 1 ELSE 0)
      BY CountOne
    <3> QED
      BY <1>a, <2>4, <3>1, <3>3, <3>4
  <2>6. \A q \in Proc : pc'[q] \in Chaining =>
            loc'[q].chain = turnHead' \/ (pc[q] \in Chaining /\ loc'[q] = loc[q])
    BY <2>1, <2>2 DEF Others
  <2>7. TidyInv'
    BY <2>1, <2>5, <2>6 DEF TidyInv
  <2> QED
    BY <1>0, <2>1, <2>5, <2>7
<1>6. ASSUME NEW p \in Proc, Outside(p) \/ Ceasing(p) PROVE Kept
  <2>1. UNCHANGED <<turnHead, starts, mixed>>
    BY <1>6, OutsideKeeps, CeasingKeeps
  <2>2. Others(p) /\ pc'[p] \notin Chaining
    BY <1>0, <1>6, AwayStep DEF Chaining
  <2> QED
    BY <1>1, <2>1, <2>2
<1>7. CASE Restart \/ UNCHANGED vars
  <2>1. UNCHANGED <<turnHead, starts, mixed, pc, loc>>
    BY <1>7 DEF Restart, vars, stored, history
  <2>2. TidyInv'
    BY <2>1 DEF TidyInv
  <2> QED
    BY <1>0, <1>a, <2>1, <2>2
<1> QED
  BY <1>2, <1>3, <1>4, <1>5, <1>6, <1>7, StepKinds DEF Outside, Quiet

-----------------------------------------------------------------------------
(* The thread goes on while the follower waits. *)
LEMMA FollowWaits ==
    TallyInv /\ TidyInv /\ FollowInv /\ [Next]_vars /\ UNCHANGED follower => FollowInv'
<1> SUFFICES ASSUME TallyInv, TidyInv, FollowInv, [Next]_vars, UNCHANGED follower
             PROVE  FollowInv'
  OBVIOUS
<1>1. /\ Len(starts) \in Nat /\ Len(starts') \in Nat /\ Len(starts) <= Len(starts')
      /\ \A s \in (1..Len(starts)) \ mixed : TurnCount(turnHead, s) <= TurnCount(turnHead', s)
      /\ mixed \subseteq mixed'
  BY TidyStep, MixedGrows
<1>2. turnHead \in Seq(Turn) /\ turnHead' \in Seq(Turn)
  BY TallyStep DEF TallyInv, StepInv, TypeOK, NodesTyped
<1>3. \A s : TurnCount(turnHead, s) \in Nat /\ TurnCount(turnHead', s) \in Nat
  <2>1. \A c \in Seq(Turn) : \A s : TurnCount(c, s) \in Nat
    BY CountsAreNumbers
  <2> QED
    BY <1>2, <2>1
<1>4. UNCHANGED <<fpc, usePhase3, printedCount, lastActive, readHead, printed, seen>>
  BY DEF follower
<1>5. readHead \in Seq(Turn) /\ \A s : TurnCount(readHead, s) \in Nat
  BY CountsAreNumbers DEF FollowInv, ReadOnce
<1>6. ASSUME NEW s \in (1..Len(starts')) \ mixed'
      PROVE  Tidy(readHead, s) /\ TurnCount(readHead, s) <= TurnCount(turnHead', s)
  <2>1. CASE s \in 1..Len(starts)
    BY <1>1, <1>3, <1>5, <1>6, <2>1 DEF FollowInv, ReadOnce
  <2>2. CASE s \notin 1..Len(starts)
    <3>1. \A j \in 1..Len(readHead) : readHead[j].owner # s
      BY <2>2 DEF FollowInv, ReadOnce
    <3> QED
      BY <1>3, <1>5, <3>1, TidyNone, CountNone
  <2> QED
    BY <2>1, <2>2
<1>7. ReadOnce'
  BY <1>1, <1>4, <1>5, <1>6 DEF FollowInv, ReadOnce
<1>8. ASSUME fpc # "done", NEW s \in (1..Len(starts')) \ mixed', seen = {s}
      PROVE  printed = LoadTurnData(TurnsUpTo(s, printedCount)) /\ printedCount <= TurnCount(turnHead', s)
  <2>1. s \in (1..Len(starts)) \ mixed
    BY <1>1, <1>8 DEF FollowInv, ReadOnce
  <2> QED
    BY <1>1, <1>3, <1>8, <2>1 DEF FollowInv, PrintedOnce
<1>9. PrintedOnce'
  BY <1>4, <1>8 DEF FollowInv, PrintedOnce
<1> QED
  BY <1>7, <1>9 DEF FollowInv

(* The first turns of a step. *)
LEMMA FirstTurns ==
    ASSUME NEW s \in Nat \ {0}, NEW n \in Nat
    PROVE  /\ TurnsUpTo(s, n) \in Seq(Turn) /\ Len(TurnsUpTo(s, n)) = n
           /\ \A k \in 1..n : TurnsUpTo(s, n)[k] = [owner |-> s, nth |-> k]
<1> DEFINE turns == TurnsUpTo(s, n)
<1>1. turns \in [1..n -> Turn] /\ \A k \in 1..n : turns[k] = [owner |-> s, nth |-> k]
  BY DEF TurnsUpTo, Turn
<1> HIDE DEF turns
<1>2. turns \in Seq(Turn) /\ Len(turns) = n
  BY <1>1
<1> QED
  BY <1>1, <1>2 DEF turns

LEMMA NothingYet == \A s : LoadTurnData(TurnsUpTo(s, 0)) = <<>>
<1>1. \A s : TurnsUpTo(s, 0) = <<>>
  BY DEF TurnsUpTo
<1> QED
  BY <1>1, LoadNone

(* What lies past the counter is printed next. *)
LEMMA FlushContinues ==
    ASSUME NEW s \in Nat \ {0}, NEW n \in Nat, NEW m \in Nat,
           printedCount = n, printed = LoadTurnData(TurnsUpTo(s, n)), Flush(TurnsUpTo(s, m))
    PROVE  /\ printedCount' = IF m <= n THEN n ELSE m
           /\ printed' = LoadTurnData(TurnsUpTo(s, IF m <= n THEN n ELSE m))
<1>1. PICK front \in Seq(Turn) :
         /\ front = TurnsUpTo(s, n) /\ Len(front) = n
         /\ \A k \in 1..n : front[k] = [owner |-> s, nth |-> k]
  BY FirstTurns
<1>2. PICK turns \in Seq(Turn) :
         /\ turns = TurnsUpTo(s, m) /\ Len(turns) = m
         /\ \A k \in 1..m : turns[k] = [owner |-> s, nth |-> k]
  BY FirstTurns
<1>3. CASE m <= n
  <2>1. UNCHANGED <<printed, printedCount>>
    BY <1>2, <1>3 DEF Flush
  <2> QED
    BY <1>3, <2>1
<1>4. CASE m > n
  <2> DEFINE tail == SubSeq(turns, n + 1, m)
  <2>1. printedCount' = m /\ printed' = LoadTurnData(front) \o LoadTurnData(tail)
    <3>1. Flush(turns)
      BY <1>2
    <3>2. ~(Len(turns) <= printedCount)
      BY <1>2, <1>4
    <3>3. /\ printed' = printed \o LoadTurnData(SubSeq(turns, printedCount + 1, Len(turns)))
          /\ printedCount' = Len(turns)
      BY <3>1, <3>2, Zenon DEF Flush
    <3> QED
      BY <1>1, <1>2, <3>3
  <2>2. /\ tail \in Seq(Turn) /\ Len(tail) = m - n
        /\ \A k \in 1..(m - n) : tail[k] = turns[n + k]
    BY <1>2, <1>4
  <2> HIDE DEF tail
  <2>3. PICK out : out = front \o tail
    OBVIOUS
  <2>4. out \in Seq(Turn) /\ Len(out) = m
    <3>1. out \in Seq(Turn) /\ Len(out) = Len(front) + Len(tail)
      BY <2>2, <2>3, ConcatProperties
    <3> QED
      BY <1>1, <1>4, <2>2, <3>1
  <2>5. ASSUME NEW k \in 1..m PROVE out[k] = turns[k]
    <3>1. CASE k <= n
      BY <1>1, <1>2, <2>2, <2>3, <3>1
    <3>2. CASE k > n
      <4>1. out[k] = tail[k - n] /\ k - n \in 1..(m - n)
        BY <1>1, <1>4, <2>2, <2>3, <3>2
      <4>2. tail[k - n] = turns[n + (k - n)] /\ n + (k - n) = k
        BY <2>2, <4>1
      <4> QED
        BY <4>1, <4>2
    <3> QED
      BY <3>1, <3>2
  <2>6. out = turns
    BY <1>2, <2>4, <2>5, SeqEqual
  <2>7. LoadTurnData(out) = LoadTurnData(front) \o LoadTurnData(tail)
    BY <2>2, <2>3, LoadConcat
  <2> QED
    BY <1>2, <1>4, <2>1, <2>6, <2>7
<1> QED
  BY <1>3, <1>4

(* What the follower's own steps do. *)
LEMMA PollStep ==
    TallyInv /\ TidyInv /\ FollowInv /\ (Follow \/ Poll) =>
        /\ FollowInv'
        /\ (fpc = "final" /\ fpc' = "done" /\ seen = {lastActive} /\ lastActive \notin mixed)
               => printed' = LoadTurnData(TurnsOfStep(turnHead, lastActive))
<1> DEFINE Kept ==
        /\ FollowInv'
        /\ (fpc = "final" /\ fpc' = "done" /\ seen = {lastActive} /\ lastActive \notin mixed)
               => printed' = LoadTurnData(TurnsOfStep(turnHead, lastActive))
<1> SUFFICES ASSUME TallyInv, TidyInv, FollowInv, Follow \/ Poll PROVE Kept
  OBVIOUS
<1>0. /\ turnHead \in Seq(Turn) /\ Len(starts) \in Nat /\ activeStep \in 0..Len(starts)
      /\ \A j \in 1..Len(turnHead) : turnHead[j].owner \in 1..Len(starts)
  BY DEF TallyInv, StepInv, TypeOK, NodesTyped, StartsTyped, OwnersBegun
<1>1. UNCHANGED vars
  BY DEF Follow, Poll, Decide, SeeActive, SeeHead, ShowTail, CheckRunning, Finish
<1>2. UNCHANGED <<turnHead, starts, mixed, activeStep>>
  BY <1>1 DEF vars, stored, history
<1>3. ASSUME NEW s PROVE TurnCount(turnHead, s) \in Nat /\ TurnCount(readHead, s) \in Nat
  BY <1>0, CountsAreNumbers DEF FollowInv, ReadOnce
<1>4. CASE Follow \/ Decide \/ CheckRunning
  <2>1. /\ UNCHANGED <<printedCount, lastActive, readHead, printed, seen>>
        /\ fpc \in {"idle", "decide", "check"} /\ fpc' \notin {"head", "print", "done"}
        /\ usePhase3 = "yes" => usePhase3' = "yes"
        /\ fpc' = "active" => usePhase3' = "yes"
    BY <1>4 DEF Follow, Decide, CheckRunning
  <2>2. ReadOnce'
    BY <1>2, <2>1 DEF FollowInv, ReadOnce
  <2>3. PrintedOnce'
    BY <1>2, <2>1 DEF FollowInv, PrintedOnce
  <2> QED
    BY <2>1, <2>2, <2>3 DEF FollowInv
<1>5. CASE SeeActive
  <2>1. /\ fpc = "active" /\ fpc' = "head"
        /\ UNCHANGED <<usePhase3, printedCount, readHead, printed>>
        /\ lastActive' = IF activeStep # 0 THEN activeStep ELSE lastActive
        /\ seen' = IF activeStep # 0 THEN seen \cup {activeStep} ELSE seen
    BY <1>5 DEF SeeActive
  <2>2. ReadOnce'
    BY <1>0, <1>2, <2>1 DEF FollowInv, ReadOnce
  <2>3. ASSUME NEW s \in (1..Len(starts)) \ mixed, seen' = {s}
        PROVE  printed = LoadTurnData(TurnsUpTo(s, printedCount)) /\ printedCount <= TurnCount(turnHead, s)
    <3>1. CASE seen = {s}
      BY <2>1, <2>3, <3>1 DEF FollowInv, PrintedOnce
    <3>2. CASE seen = {}
      <4>1. printed = <<>> /\ printedCount = 0
        BY <2>1, <3>2 DEF FollowInv, PrintedOnce
      <4> QED
        BY <1>3, <4>1, NothingYet
    <3> QED
      BY <2>1, <2>3, <3>1, <3>2
  <2>4. PrintedOnce'
    BY <1>2, <2>1, <2>3 DEF FollowInv, PrintedOnce
  <2> QED
    BY <2>1, <2>2, <2>4 DEF FollowInv
<1>6. CASE SeeHead
  <2>1. /\ fpc = "head" /\ fpc' = "print" /\ readHead' = turnHead
        /\ UNCHANGED <<usePhase3, printedCount, lastActive, printed, seen>>
    BY <1>6 DEF SeeHead
  <2>2. ReadOnce'
    BY <1>0, <1>2, <1>3, <2>1 DEF FollowInv, ReadOnce, TidyInv
  <2>3. PrintedOnce'
    BY <1>2, <2>1 DEF FollowInv, PrintedOnce
  <2> QED
    BY <2>1, <2>2, <2>3 DEF FollowInv
<1>7. CASE ShowTail
  <2>1. /\ fpc = "print" /\ fpc' = "check" /\ readHead' = <<>>
        /\ UNCHANGED <<usePhase3, lastActive>>
        /\ seen' = IF activeStep # 0 THEN seen \cup {activeStep} ELSE seen
        /\ IF activeStep = 0 THEN UNCHANGED <<printed, printedCount>>
           ELSE Flush(TurnsOfStep(readHead, activeStep))
    BY <1>7 DEF ShowTail
  <2>2. /\ readHead \in Seq(Turn) /\ printedCount \in Nat /\ lastActive \in seen \cup {0}
        /\ usePhase3 = "yes" /\ seen \subseteq 1..Len(starts)
        /\ seen = {} => printed = <<>> /\ printedCount = 0
    BY <2>1 DEF FollowInv, ReadOnce, PrintedOnce
  <2>3. ReadOnce'
    <3>1. readHead' \in Seq(Turn) /\ Len(readHead') = 0
      BY <2>1
    <3>2. \A s : Tidy(readHead', s) /\ TurnCount(readHead', s) = 0
      BY <2>1, EmptyChain
    <3> QED
      BY <1>0, <1>2, <1>3, <2>1, <2>2, <3>1, <3>2 DEF ReadOnce
  <2>4. CASE activeStep = 0
    BY <1>2, <2>1, <2>3, <2>4 DEF FollowInv, PrintedOnce
  <2>5. CASE activeStep # 0
    <3>1. activeStep \in Nat \ {0} /\ activeStep \in 1..Len(starts)
      BY <1>0, <2>5
    <3>2. Len(TurnsOfStep(readHead, activeStep)) \in Nat
      BY <1>3, <2>2, <3>1, ShownTurns
    <3>3. printedCount' \in Nat
      BY <2>1, <2>2, <2>5, <3>2 DEF Flush
    <3>4. ASSUME NEW s \in (1..Len(starts)) \ mixed, seen' = {s}
          PROVE  printed' = LoadTurnData(TurnsUpTo(s, printedCount')) /\ printedCount' <= TurnCount(turnHead, s)
      <4>1. s = activeStep /\ (seen = {} \/ seen = {s})
        BY <2>1, <2>5, <3>4
      <4>2. printed = LoadTurnData(TurnsUpTo(s, printedCount)) /\ printedCount <= TurnCount(turnHead, s)
        <5>1. CASE seen = {s}
          BY <2>1, <5>1 DEF FollowInv, PrintedOnce
        <5>2. CASE seen = {}
          BY <1>3, <2>2, <5>2, NothingYet
        <5> QED
          BY <4>1, <5>1, <5>2
      <4>3. /\ Tidy(readHead, s) /\ TurnCount(readHead, s) <= TurnCount(turnHead, s)
            /\ TurnCount(readHead, s) \in Nat
        BY <1>3 DEF FollowInv, ReadOnce
      <4>4. TurnsOfStep(readHead, s) = TurnsUpTo(s, TurnCount(readHead, s))
        BY <2>2, <3>1, <4>1, <4>3, TidyTurns
      <4>5. PICK m \in Nat : m = TurnCount(readHead, s)
        BY <4>3
      <4>6. PICK n \in Nat : n = printedCount
        BY <2>2
      <4>7. Flush(TurnsUpTo(s, m))
        BY <2>1, <2>5, <4>1, <4>4, <4>5
      <4>8. /\ printedCount' = IF m <= n THEN n ELSE m
            /\ printed' = LoadTurnData(TurnsUpTo(s, IF m <= n THEN n ELSE m))
        <5>1. s \in Nat \ {0} /\ printedCount = n /\ printed = LoadTurnData(TurnsUpTo(s, n))
          BY <3>1, <4>1, <4>2, <4>6
        <5> QED
          BY <4>7, <5>1, FlushContinues
      <4> QED
        BY <4>2, <4>3, <4>5, <4>6, <4>8
    <3>5. PrintedOnce'
      BY <1>2, <2>1, <2>2, <2>5, <3>3, <3>4 DEF PrintedOnce
    <3> QED
      BY <2>1, <2>3, <3>5 DEF FollowInv
  <2> QED
    BY <2>4, <2>5
<1>8. CASE Finish
  <2>1. /\ fpc = "final" /\ fpc' = "done" /\ Flush(FinalTurns)
        /\ UNCHANGED <<usePhase3, lastActive, readHead, seen>>
    BY <1>8 DEF Finish
  <2>2. FollowInv'
    BY <1>2, <2>1 DEF FollowInv, ReadOnce, PrintedOnce
  <2>3. ASSUME seen = {lastActive}, lastActive \notin mixed
        PROVE  printed' = LoadTurnData(TurnsOfStep(turnHead, lastActive))
    <3>1. /\ lastActive \in (1..Len(starts)) \ mixed /\ lastActive \in Nat \ {0}
          /\ usePhase3 = "yes" /\ printedCount \in Nat
          /\ printed = LoadTurnData(TurnsUpTo(lastActive, printedCount))
          /\ printedCount <= TurnCount(turnHead, lastActive)
      BY <1>0, <2>1, <2>3 DEF FollowInv, ReadOnce, PrintedOnce
    <3>2. TurnsOfStep(turnHead, lastActive) = TurnsUpTo(lastActive, TurnCount(turnHead, lastActive))
      BY <1>0, <3>1, TidyTurns DEF TidyInv
    <3>3. PICK m \in Nat : m = TurnCount(turnHead, lastActive)
      BY <1>3
    <3>4. Flush(TurnsUpTo(lastActive, m))
      <4>1. CASE turnHead = <<>>
        <5>1. m = 0 /\ TurnsUpTo(lastActive, 0) = <<>>
          BY <3>3, <4>1, EmptyChain DEF TurnsUpTo
        <5> QED
          BY <2>1, <3>1, <4>1, <5>1 DEF FinalTurns
      <4>2. CASE turnHead # <<>>
        BY <2>1, <3>1, <3>2, <3>3, <4>2 DEF FinalTurns
      <4> QED
        BY <4>1, <4>2
    <3>5. PICK n \in Nat : n = printedCount
      BY <3>1
    <3>6. printed' = LoadTurnData(TurnsUpTo(lastActive, IF m <= n THEN n ELSE m))
      <4>1. printedCount = n /\ printed = LoadTurnData(TurnsUpTo(lastActive, n))
        BY <3>1, <3>5
      <4> QED
        BY <3>1, <3>4, <4>1, FlushContinues
    <3>7. (IF m <= n THEN n ELSE m) = m
      BY <3>1, <3>3, <3>5
    <3> QED
      BY <3>2, <3>3, <3>6, <3>7
  <2> QED
    BY <2>2, <2>3
<1> QED
  BY <1>4, <1>5, <1>6, <1>7, <1>8 DEF Poll

LEMMA FollowBegins == LiveInit => TidyInv /\ FollowInv
<1> SUFFICES ASSUME LiveInit PROVE TidyInv /\ FollowInv
  OBVIOUS
<1>1. /\ fpc = "idle" /\ usePhase3 = "unset" /\ printedCount = 0 /\ lastActive = 0
      /\ readHead = <<>> /\ printed = <<>> /\ seen = {}
  BY DEF LiveInit, FollowerInit
<1>2. turnHead \in Seq(Turn)
  BY LiveInitInv DEF TallyInv, StepInv, TypeOK, NodesTyped
<1>3. \A p \in Proc : pc[p] \notin Chaining
  BY DEF LiveInit, OldStepDone, OneStepDone, Resting, Chaining
<1>4. ASSUME NEW s PROVE Tidy(turnHead, s)
  <2>1. CASE OldStepDone
    <3>1. Len(turnHead) = 0
      BY <2>1 DEF OldStepDone
    <3> QED
      BY <3>1, TidyNone
  <2>2. ASSUME NEW n \in 0..1, OneStepDone(n) PROVE Tidy(turnHead, s)
    <3>1. turnHead = [i \in 1..n |-> [owner |-> 1, nth |-> i]]
      BY <2>2 DEF OneStepDone
    <3>2. Len(turnHead) = n
      BY <1>2, <3>1
    <3>3. CASE s = 1 /\ n = 1
      <4>1. {i \in 1..1 : turnHead[i].owner = s} = {1}
        BY <3>1, <3>3
      <4>2. Cardinality({1}) = 1
        BY FS_Singleton
      <4> QED
        BY <3>1, <3>2, <3>3, <4>1, <4>2 DEF Tidy
    <3>4. CASE s # 1 \/ n = 0
      BY <3>1, <3>2, <3>4, TidyNone
    <3> QED
      BY <3>3, <3>4
  <2> QED
    BY <2>1, <2>2 DEF LiveInit
<1>5. TidyInv
  BY <1>3, <1>4 DEF TidyInv
<1>6. ReadOnce
  <2>1. readHead \in Seq(Turn) /\ Len(readHead) = 0
    BY <1>1
  <2>2. \A s : Tidy(readHead, s) /\ TurnCount(readHead, s) = 0
    BY <1>1, EmptyChain
  <2>3. \A s : TurnCount(turnHead, s) \in Nat
    BY <1>2, CountsAreNumbers
  <2> QED
    BY <1>1, <2>1, <2>2, <2>3 DEF ReadOnce
<1>7. PrintedOnce
  BY <1>1 DEF PrintedOnce
<1> QED
  BY <1>5, <1>6, <1>7 DEF FollowInv

LEMMA RunningIsWhole == TallyInv /\ PlaceInv /\ TidyInv => RunningGroupIsWhole
<1> SUFFICES ASSUME TallyInv, PlaceInv, TidyInv, NEW k \in 1..Len(Panorama), Panorama[k].running
             PROVE  /\ \A i \in 1..Len(nodes) : nodes[i].start # Panorama[k].stepStart
                    /\ \A p \in Proc :
                          (InStep(p) /\ loc[p].start = Panorama[k].stepStart /\ loc[p].start \notin mixed)
                             => Panorama[k].turns = LoadTurnData(TurnsUpTo(loc[p].start, loc[p].turns))
  BY DEF RunningGroupIsWhole, TurnsUpTo
<1>0. NodesTyped /\ StartsTyped /\ OwnersBegun /\ Indexed /\ Descends
  BY DEF TallyInv, StepInv, TypeOK, PlaceInv
<1>1. turnHead # <<>>
  <2> SUFFICES ASSUME turnHead = <<>> PROVE FALSE
    OBVIOUS
  <2>1. Panorama = PanoramaLegacy(head)
    BY DEF Panorama
  <2>2. Ordered(head) \in Seq(1..head)
    <3>1. Len(nodes) \in Nat /\ head \in 0..Len(nodes)
      BY <1>0 DEF NodesTyped
    <3>2. WalkOf(nodes)[head] \in Seq(1..head)
      BY <1>0, <3>1, WalkMembers DEF Descends
    <3> QED
      BY <3>2, StepIndexIs
  <2>3. /\ DOMAIN Panorama = 1..Len(Ordered(head)) /\ Len(Ordered(head)) \in Nat
        /\ \A x \in DOMAIN Panorama : Panorama[x].running = FALSE
    BY <2>1, <2>2 DEF PanoramaLegacy
  <2>4. k \in DOMAIN Panorama
    BY <2>3
  <2> QED
    BY <2>3, <2>4
<1> DEFINE n == Cardinality(Owners)
           s == WalkStepStartChain[k]
<1>2. n \in Nat /\ DOMAIN WalkStepStartChain = 1..n /\ \A x \in 1..n : WalkStepStartChain[x] \in Owners
  <2> DEFINE R == {st \in Owners \X Owners : Before(st[1], st[2])}
  <2>1. IsFiniteSet(Owners) /\ Orders(R, Owners)
    BY <1>0, OwnersInOrder
  <2>2. WalkStepStartChain = Sorted(Owners, R)
    BY DEF WalkStepStartChain
  <2> HIDE DEF R
  <2> QED
    BY <2>1, <2>2, SortedIs
<1>3. Len(WalkStepStartChain) = n
  BY <1>2
<1>4. /\ DOMAIN Panorama = 1..n
      /\ \A x \in 1..n :
            Panorama[x] = [role |-> starts[WalkStepStartChain[x]].role,
                           running |-> activeStep = WalkStepStartChain[x],
                           turns |-> LoadTurnData(TurnsOfStep(turnHead, WalkStepStartChain[x])),
                           stepStart |-> WalkStepStartChain[x]]
  BY <1>1, <1>3 DEF Panorama
<1>5. k \in 1..n
  <2>1. Len(Panorama) = n
    BY <1>2, <1>4
  <2> QED
    BY <2>1
<1>6. s \in 1..Len(starts) /\ Len(starts) \in Nat
  BY <1>0, <1>2, <1>5, OwnersInOrder DEF StartsTyped
<1>7. /\ Panorama[k].stepStart = s /\ activeStep = s
      /\ Panorama[k].turns = LoadTurnData(TurnsOfStep(turnHead, s))
  <2>1. Panorama[k] = [role |-> starts[s].role, running |-> activeStep = s,
                       turns |-> LoadTurnData(TurnsOfStep(turnHead, s)), stepStart |-> s]
    BY <1>4, <1>5
  <2>2. Panorama[k].running
    OBVIOUS
  <2> HIDE DEF s
  <2>3. PICK now \in BOOLEAN : now = (activeStep = s)
    OBVIOUS
  <2>5. Panorama[k] = [role |-> starts[s].role, running |-> now,
                       turns |-> LoadTurnData(TurnsOfStep(turnHead, s)), stepStart |-> s]
    BY <2>1, <2>3, Zenon
  <2>6. Panorama[k].running = now
    BY <2>5
  <2>4. /\ Panorama[k].stepStart = s
        /\ Panorama[k].turns = LoadTurnData(TurnsOfStep(turnHead, s))
    BY <2>1
  <2> QED
    BY <2>2, <2>3, <2>4, <2>6, Zenon
<1> HIDE DEF s, n
<1>8. \A i \in 1..Len(nodes) : nodes[i].start # s
  BY <1>6, <1>7 DEF TallyInv, StepInv, ActiveUnwritten, InFlightUnfinished
<1>9. ASSUME NEW p \in Proc, InStep(p), loc[p].start = s, loc[p].start \notin mixed
      PROVE  TurnsOfStep(turnHead, s) = TurnsUpTo(s, loc[p].turns)
  <2>1. turnHead \in Seq(Turn) /\ s \in Nat \ {0} /\ Tidy(turnHead, s)
    BY <1>0, <1>6, <1>9 DEF NodesTyped, TidyInv
  <2>2. TurnCount(turnHead, s) = loc[p].turns
    BY <1>9 DEF TallyInv, Counts
  <2> QED
    BY <2>1, <2>2, TidyTurns
<1> QED
  BY <1>7, <1>8, <1>9

(* The turns are numbered one after the other, also while the thread is     *)
(* read.                                                                    *)
LEMMA ReadTidy == ReadSpec => [](TallyInv /\ PlaceInv /\ TidyInv)
<1>1. ReadInit => TallyInv /\ PlaceInv /\ TidyInv
  BY LiveInitInv, FollowBegins DEF ReadInit
<1>2. TallyInv /\ PlaceInv /\ TidyInv /\ [ReadNext]_readVars => (TallyInv /\ PlaceInv /\ TidyInv)'
  BY ReadersOnlyRead, TallyStep, PlaceStep, TidyStep DEF TallyInv
<1> QED
  BY <1>1, <1>2, PTL DEF ReadSpec

(* A group of the panorama that is marked as running is of a step without a *)
(* node.  It has the turns that the step's process has counted, in order,   *)
(* but for the wordless ones, unless another process ran a step beside it.  *)
THEOREM RunningGroupsAreWhole == ReadSpec => []RunningGroupIsWhole
BY RunningIsWhole, ReadTidy, PTL

(* A follower that saw one step only, which nobody overlapped, has printed  *)
(* those turns of that step that have a text when it returns, in order and  *)
(* none twice, however its polls fall between the steps of the runner.      *)
THEOREM FollowerIsExact == ReadSpec => FollowerPrintsStep
<1> DEFINE Inv == TallyInv /\ TidyInv /\ FollowInv
           Exact == (fpc = "final" /\ fpc' = "done" /\ seen = {lastActive} /\ lastActive \notin mixed)
                        => printed' = LoadTurnData(TurnsOfStep(turnHead, lastActive))
<1>1. ReadInit => Inv
  BY LiveInitInv, FollowBegins DEF ReadInit
<1>2. Inv /\ [ReadNext]_readVars => Inv' /\ [Exact]_liveVars
  <2> SUFFICES ASSUME Inv, [ReadNext]_readVars PROVE Inv' /\ [Exact]_liveVars
    OBVIOUS
  <2>1. TallyInv' /\ TidyInv'
    BY ReadersOnlyRead, TallyStep, TidyStep
  <2>2. CASE Follow \/ Poll
    BY <2>1, <2>2, PollStep
  <2>3. CASE UNCHANGED follower
    <3>1. FollowInv'
      BY <2>3, ReadersOnlyRead, FollowWaits
    <3>2. Exact
      BY <2>3 DEF follower
    <3> QED
      BY <2>1, <3>1, <3>2
  <2>4. (Follow \/ Poll) \/ UNCHANGED follower
    <3>1. Watch \/ UNCHANGED readVars => UNCHANGED follower
      BY DEF Watch, readVars, liveVars
    <3>2. ASSUME NEW quota \in Quotas, FirstPage(quota) PROVE Watch
      BY <3>2 DEF FirstPage
    <3>3. ASSUME NEW n, NEW quota \in Quotas, ReadStep(n, quota) PROVE Watch
      BY <3>3 DEF ReadStep
    <3>4. ASSUME NEW n, Fork(n) PROVE Watch
      BY <3>4 DEF Fork
    <3>5. NextPage \/ StepNotFound \/ PageOfTurns => Watch
      BY DEF NextPage, StepNotFound, PageOfTurns
    <3> QED
      BY <3>1, <3>2, <3>3, <3>4, <3>5 DEF ReadNext
  <2> QED
    BY <2>2, <2>3, <2>4
<1> HIDE DEF Inv
<1> QED
  BY <1>1, <1>2, PTL DEF ReadSpec, FollowerPrintsStep

-----------------------------------------------------------------------------
(* One process runs the thread, and what a pager has been shown then.       *)
OneRunner == \A p, q \in Proc : p = q

OldIsFirst == \A i \in 1..Len(nodes) : nodes[i].start = OldStep => i = 1

\* Where the node of a step will hang, from the reading of the head on.
Places(p) ==
    /\ pc[p] \notin {"idle", "between", "leave"} =>
          IF loc[p].cmd = "poke" THEN head # 0 /\ loc[p].prev = nodes[head].prev
          ELSE loc[p].prev = head
    /\ pc[p] = "commit" =>
          \A i \in 1..Len(nodes) : nodes[i].start = loc[p].start => nodes[i].prev = loc[p].prev

Writes(p) ==
    /\ InStep(p) => loc[p].start = Len(starts)
    /\ pc[p] \in Chaining => loc[p].chain = turnHead

TurnsSorted ==
    \A j, k \in 1..Len(turnHead) : j <= k => turnHead[j].owner <= turnHead[k].owner

SoleInv == OldIsFirst /\ TurnsSorted /\ \A p \in Proc : Places(p) /\ Writes(p)

OnChain(h, k) == k = 0 \/ k \in ToSet(Ordered(h))

StepsPaged ==
    LET ordered == Ordered(pager.top)
        n == Len(pager.shown)
    IN  pager.pc \in {"steps", "done", "failed"} =>
          /\ n <= Len(ordered)
          /\ pager.shown = [i \in 1..n |-> [number |-> Len(ordered) - n + i,
                                            step |-> ordered[Len(ordered) - n + i]]]
          /\ pager.pc = "done" => n = Len(ordered)
          /\ pager.pc = "failed" => pager.before = pager.top /\ ~pager.fork
          /\ pager.pc = "steps" =>
                /\ 0 < n /\ n < Len(ordered)
                /\ pager.before = ordered[Len(ordered) - n + 1]
                /\ ~pager.fork => head # 0 /\ OnChain(nodes[head].prev, nodes[pager.top].prev)

OldOn(h) == \E i \in ToSet(Ordered(h)) : nodes[i].start = OldStep
OldPart(h) == IF OldOn(h) THEN LoadTurnData(OldTurns) ELSE <<>>

ShownOf(turns) == LET n == Len(pager.shown) IN n <= Len(turns) /\ pager.shown = SubSeq(turns, 1, n)

TurnsPaged ==
    pager.pc \in {"idle", "forked", "turns"} =>
        /\ pager.pc = "idle" => ~pager.fork
        /\ pager.pc \in {"idle", "forked"} => pager.offset = 0 /\ pager.shown = <<>>
        /\ pager.fork => ShownOf(OldPart(pager.top))
        /\ pager.fork \/ ~Repeated => pager.offset = Len(pager.shown)
        /\ ~pager.fork /\ ~Repeated =>
              \/ pager.shown \in Seq(Turn) /\ Replaced
              \/ turnHead = <<>> /\ OldOn(head) /\ ShownOf(LoadTurnData(OldTurns))
              \/ ShownOf(LoadTurnData(turnHead))

StepPaged ==
    pager.pc = "step" =>
        /\ pager.top # 0 /\ pager.quota \in Nat
        /\ pager.shown = SelectTurnsForQuota(LoadTurnData(DetailTurns(pager.top)), pager.quota)

PagerInv ==
    /\ pager = [pc |-> pager.pc, fork |-> pager.fork, quota |-> pager.quota, before |-> pager.before,
                shown |-> pager.shown, top |-> pager.top, offset |-> pager.offset]
    /\ pager.top \in 0..Len(nodes)
    /\ pager.pc \in {"idle", "forked", "steps", "done", "failed", "turns", "step"}
    /\ StepPaged /\ StepsPaged /\ TurnsPaged
-----------------------------------------------------------------------------
(* Only a commit moves the head, to the node of the step or not at all. *)
LEMMA HeadStays ==
    ASSUME NEW p \in Proc, MarkActive(p) \/ Going(p) \/ (Ceasing(p) /\ ~Commit(p)) \/ Outside(p)
    PROVE  UNCHANGED head
<1>1. MarkActive(p) => UNCHANGED head
  BY DEF MarkActive
<1>2. Send(p) => UNCHANGED head
  BY DEF Send, GetSession, CreateSession, UpsertSession, Accepted, Fallback, OnTurn, stored
<1>3. Going(p) /\ ~Send(p) => UNCHANGED head
  BY DEF Going, ReadTurnHead, Suspended, ClearActive, WriteNode, Completed, stored
<1>4. Ceasing(p) /\ ~Commit(p) => UNCHANGED head
  BY DEF Ceasing, Leave, Throw, Kill, stored
<1>5. Outside(p) => UNCHANGED head
  BY DEF Outside, Launch, ReadHead, stored
<1> QED
  BY <1>1, <1>2, <1>3, <1>4, <1>5

LEMMA CommitMoves ==
    ASSUME StepInv, NEW p \in Proc, Places(p), Commit(p)
    PROVE  /\ UNCHANGED <<nodes, starts, turnHead>>
           /\ \/ UNCHANGED head
              \/ /\ head' \in 1..Len(nodes) /\ nodes[head'].start = loc[p].start
                 /\ loc[p].start # 0
                 /\ \/ nodes[head'].prev = head
                    \/ head # 0 /\ nodes[head'].prev = nodes[head].prev
<1> DEFINE mine == {i \in 1..Len(nodes) : nodes[i].start = loc[p].start}
<1>1. pc[p] = "commit" /\ UNCHANGED <<nodes, starts, turnHead>>
  BY DEF Commit
<1>2. head' = head \/ head' = CHOOSE i \in mine : TRUE
  BY DEF Commit
<1>3. \E i \in mine : TRUE
  BY <1>1 DEF StepInv, StepEnds
<1>4. (CHOOSE i \in mine : TRUE) \in mine
  BY <1>3
<1>5. loc[p].start # 0
  BY <1>1 DEF StepInv, StepBegun, InStep
<1>6. ASSUME NEW i \in mine
      PROVE  nodes[i].prev = head \/ (head # 0 /\ nodes[i].prev = nodes[head].prev)
  <2>1. nodes[i].prev = loc[p].prev
    BY <1>1 DEF Places
  <2> QED
    BY <1>1, <2>1 DEF Places
<1> QED
  BY <1>1, <1>2, <1>4, <1>5, <1>6

(* One process after the other leaves the turns in the order of the steps.  *)
LEMMA SoleStep ==
    ASSUME OneRunner, TallyInv, PlaceInv, SoleInv, [Next]_vars
    PROVE  SoleInv'
<1>0. /\ StepInv /\ TypeOK /\ LocalsTyped /\ NodesTyped /\ OwnersBegun /\ Unwritten
      /\ Len(nodes) \in Nat /\ head \in 0..Len(nodes) /\ Len(starts) \in Nat
      /\ turnHead \in Seq(Turn)
  BY DEF TallyInv, StepInv, TypeOK, NodesTyped, StartsTyped
<1>1. ASSUME NEW p \in Proc, UNCHANGED <<nodes, turnHead>>, Places(p)', Writes(p)'
      PROVE  SoleInv'
  <2>1. \A q \in Proc : q = p
    BY DEF OneRunner
  <2>2. OldIsFirst' /\ TurnsSorted'
    BY <1>1 DEF SoleInv, OldIsFirst, TurnsSorted
  <2> QED
    BY <1>1, <2>1, <2>2 DEF SoleInv
<1>2. ASSUME NEW p \in Proc, Outside(p) PROVE SoleInv'
  <2>1. UNCHANGED <<nodes, turnHead, starts, head>>
    BY <1>2, OutsideKeeps, HeadStays
  <2>2. /\ pc'[p] \in {"between", "mark"}
        /\ pc'[p] = "mark" => /\ loc'[p].cmd = loc[p].cmd
                              /\ loc'[p].prev = (IF loc[p].cmd = "poke" THEN nodes[head].prev ELSE head)
    BY <1>0, <1>2, BeginStep, PrevAway DEF Outside
  <2>3. loc[p].cmd = "poke" => head # 0
    BY <1>0 DEF StepInv, StepEnds
  <2>4. Places(p)'
    BY <2>1, <2>2, <2>3 DEF Places
  <2>5. Writes(p)'
    BY <2>2 DEF Writes, InStep, Chaining
  <2> QED
    BY <1>1, <2>1, <2>4, <2>5
<1>3. ASSUME NEW p \in Proc, MarkActive(p) PROVE SoleInv'
  <2>1. /\ UNCHANGED <<nodes, turnHead, head>> /\ pc[p] = "mark" /\ pc'[p] = "turnhead"
        /\ loc'[p].start = Len(starts) + 1 /\ Len(starts') = Len(starts) + 1
        /\ loc'[p].cmd = loc[p].cmd /\ loc'[p].prev = loc[p].prev
    BY <1>0, <1>3, BeginStep, MarkedStart, PrevAway, HeadStays DEF MarkActive
  <2>2. Places(p)'
    BY <2>1 DEF SoleInv, Places
  <2>3. Writes(p)'
    BY <2>1 DEF Writes, Chaining
  <2> QED
    BY <1>1, <2>1, <2>2, <2>3
<1>4. ASSUME NEW p \in Proc, Going(p)
      PROVE  /\ UNCHANGED <<starts, head>> /\ InStep(p)
             /\ loc'[p].start = loc[p].start /\ loc'[p].cmd = loc[p].cmd /\ loc'[p].prev = loc[p].prev
             /\ loc[p].start = Len(starts) /\ loc[p].start # 0
  BY <1>0, <1>4, GoingInStep, GoingKeeps, HeadStays DEF Continues, SoleInv, Writes, StepInv, StepBegun
<1>5. ASSUME NEW p \in Proc, Going(p), ~WriteNode(p)
      PROVE  UNCHANGED nodes /\ Places(p)'
  <2>1. UNCHANGED nodes /\ pc'[p] # "commit"
    <3>1. Send(p) => pc'[p] # "commit"
      BY <1>0 DEF Send, GetSession, CreateSession, UpsertSession, Accepted, Fallback, OnTurn,
         Goto, LocalsTyped
    <3>2. ~Send(p) => pc'[p] # "commit"
      BY <1>0, <1>5 DEF Going, ReadTurnHead, Suspended, ClearActive, Completed, Goto, LocalsTyped
    <3> QED
      BY <1>5, <3>1, <3>2, NodesKept
  <2>2. pc[p] \notin {"idle", "between", "leave"}
    BY <1>4, <1>5 DEF InStep
  <2> QED
    BY <1>4, <1>5, <2>1, <2>2 DEF SoleInv, Places
<1>6. ASSUME NEW p \in Proc, Quiet(p), ~WriteNode(p) PROVE SoleInv'
  <2>1. Going(p)
    BY <1>6 DEF Quiet
  <2>2. /\ UNCHANGED turnHead
        /\ \/ pc[p] \in Chaining /\ pc'[p] \in Chaining /\ loc'[p].chain = loc[p].chain
           \/ pc'[p] \notin Chaining
    BY <1>0, <1>6, QuietStep
  <2>3. Writes(p)'
    BY <1>4, <2>1, <2>2 DEF SoleInv, Writes
  <2> QED
    BY <1>1, <1>5, <1>6, <2>1, <2>2, <2>3
<1>7. ASSUME NEW p \in Proc, ReadTurnHead(p) PROVE SoleInv'
  <2>1. UNCHANGED turnHead /\ loc'[p].chain = turnHead /\ ~WriteNode(p)
    BY <1>0, <1>7 DEF ReadTurnHead, LocalsTyped, Local, stored, WriteNode
  <2>2. Writes(p)'
    BY <1>4, <1>7, <2>1 DEF Writes, Going
  <2> QED
    BY <1>1, <1>5, <1>7, <2>1, <2>2 DEF Going
<1>8. ASSUME NEW p \in Proc, OnTurn(p) PROVE SoleInv'
  <2>0. Going(p)
    BY <1>8 DEF Going, Send
  <2>1. PICK t \in Turn :
              /\ t.owner = loc[p].start /\ turnHead' = Append(loc[p].chain, t)
              /\ loc'[p].chain = turnHead' /\ pc[p] = "stream" /\ UNCHANGED nodes
    BY <1>0, <1>8, TurnAdded
  <2>2. turnHead' = Append(turnHead, t) /\ t.owner = Len(starts)
    BY <1>4, <2>0, <2>1 DEF SoleInv, Writes, Chaining
  <2>3. TurnsSorted'
    <3> DEFINE n == Len(turnHead)
    <3>1. /\ n \in Nat /\ Len(turnHead') = n + 1 /\ turnHead'[n + 1] = t
          /\ \A j \in 1..n : turnHead'[j] = turnHead[j]
      BY <1>0, <2>2
    <3>2. \A j \in 1..n : turnHead[j].owner \in 1..Len(starts)
      BY <1>0 DEF OwnersBegun
    <3>3. \A j, k \in 1..n : j <= k => turnHead[j].owner <= turnHead[k].owner
      BY DEF SoleInv, TurnsSorted
    <3> HIDE DEF n
    <3>4. ASSUME NEW j \in 1..(n + 1), NEW k \in 1..(n + 1), j <= k
          PROVE  turnHead'[j].owner <= turnHead'[k].owner
      <4>1. CASE k \in 1..n
        BY <3>1, <3>3, <3>4, <4>1
      <4>2. CASE k = n + 1 /\ j \in 1..n
        BY <1>0, <2>2, <3>1, <3>2, <4>2
      <4>3. CASE k = n + 1 /\ j = n + 1
        BY <1>0, <2>2, <3>1, <4>3
      <4> QED
        BY <3>1, <4>1, <4>2, <4>3
    <3> QED
      BY <3>1, <3>4 DEF TurnsSorted
  <2>4. Places(p)' /\ Writes(p)'
    <3>1. ~WriteNode(p)
      BY <2>1 DEF WriteNode
    <3> QED
      BY <1>4, <1>5, <2>0, <2>1, <3>1 DEF Writes
  <2>5. \A q \in Proc : q = p
    BY DEF OneRunner
  <2> QED
    BY <2>1, <2>3, <2>4, <2>5 DEF SoleInv, OldIsFirst
<1>9. ASSUME NEW p \in Proc, WriteNode(p) PROVE SoleInv'
  <2>0. Going(p) /\ UNCHANGED turnHead
    BY <1>9 DEF Going, WriteNode
  <2>1. /\ Len(nodes') = Len(nodes) + 1
        /\ nodes'[Len(nodes) + 1].start = loc[p].start
        /\ nodes'[Len(nodes) + 1].prev = loc[p].prev
        /\ \A i \in 1..Len(nodes) : nodes'[i] = nodes[i]
        /\ pc[p] = "node" /\ pc'[p] = "commit"
    BY <1>0, <1>9, NodeWritten
  <2>2. \A i \in 1..Len(nodes) : nodes[i].start # loc[p].start
    BY <1>0, <2>1 DEF Unwritten, InStep
  <2>3. OldIsFirst'
    BY <1>0, <1>4, <2>0, <2>1 DEF SoleInv, OldIsFirst, OldStep
  <2>4. Places(p)'
    <3>1. ASSUME NEW i \in 1..Len(nodes'), nodes'[i].start = loc[p].start
          PROVE  nodes'[i].prev = loc[p].prev
      <4>1. i = Len(nodes) + 1
        BY <1>0, <2>1, <2>2, <3>1
      <4> QED
        BY <2>1, <4>1
    <3>2. head # 0 => nodes'[head] = nodes[head]
      BY <1>0, <2>1
    <3> QED
      BY <1>4, <2>0, <2>1, <3>1, <3>2 DEF SoleInv, Places
  <2>5. Writes(p)' /\ TurnsSorted'
    BY <1>4, <2>0, <2>1 DEF SoleInv, Writes, Chaining, TurnsSorted
  <2>6. \A q \in Proc : q = p
    BY DEF OneRunner
  <2> QED
    BY <2>3, <2>4, <2>5, <2>6 DEF SoleInv
<1>10. ASSUME NEW p \in Proc, Ceasing(p) PROVE SoleInv'
  <2>1. UNCHANGED <<nodes, turnHead>> /\ pc'[p] \in {"idle", "between", "leave"}
    BY <1>0, <1>10, CeasingKeeps, CeaseStep DEF Ceasing, Ceases
  <2> QED
    BY <1>1, <2>1 DEF Places, Writes, InStep, Chaining
<1>11. CASE Restart \/ UNCHANGED vars
  <2>1. UNCHANGED <<nodes, turnHead, starts, head, pc, loc>>
    BY <1>11 DEF Restart, vars, stored
  <2> QED
    BY <2>1 DEF SoleInv, OldIsFirst, TurnsSorted, Places, Writes, InStep
<1> QED
  BY <1>2, <1>3, <1>6, <1>7, <1>8, <1>9, <1>10, <1>11, StepKinds DEF Outside, Quiet

LEMMA SoleBegins == LiveInit => SoleInv
<1> SUFFICES ASSUME LiveInit PROVE SoleInv
  OBVIOUS
<1>1. \A p \in Proc : pc[p] = "idle"
  BY DEF LiveInit, OldStepDone, OneStepDone, Resting
<1>2. Len(nodes) = 1
  BY DEF LiveInit, OldStepDone, OneStepDone, FirstNode
<1>3. TurnsSorted
  <2>1. CASE OldStepDone
    BY <2>1 DEF OldStepDone, TurnsSorted
  <2>2. ASSUME NEW n \in 0..1, OneStepDone(n) PROVE TurnsSorted
    <3>1. turnHead = [i \in 1..n |-> [owner |-> 1, nth |-> i]]
      BY <2>2 DEF OneStepDone
    <3>2. Len(turnHead) = n
      BY <3>1
    <3> QED
      BY <3>1, <3>2 DEF TurnsSorted
  <2> QED
    BY <2>1, <2>2 DEF LiveInit
<1> QED
  BY <1>1, <1>2, <1>3 DEF SoleInv, OldIsFirst, Places, Writes, InStep, Chaining
-----------------------------------------------------------------------------
(* Parts of sequences. *)
LEMMA FrontOfFront ==
    ASSUME NEW S, NEW seq \in Seq(S), NEW n \in 0..Len(seq), NEW m \in 0..n
    PROVE  SubSeq(SubSeq(seq, 1, n), 1, m) = SubSeq(seq, 1, m)
<1>1. /\ SubSeq(seq, 1, n) \in Seq(S) /\ Len(SubSeq(seq, 1, n)) = n
      /\ \A i \in 1..n : SubSeq(seq, 1, n)[i] = seq[i]
  BY FrontOf
<1> DEFINE f == SubSeq(seq, 1, n)
<1>2. m \in 0..Len(f) /\ m \in 0..Len(seq) /\ f \in Seq(S)
  BY <1>1
<1> HIDE DEF f
<1>3. /\ SubSeq(f, 1, m) \in Seq(S) /\ Len(SubSeq(f, 1, m)) = m
      /\ \A i \in 1..m : SubSeq(f, 1, m)[i] = f[i]
  BY <1>2, FrontOf
<1>4. /\ SubSeq(seq, 1, m) \in Seq(S) /\ Len(SubSeq(seq, 1, m)) = m
      /\ \A i \in 1..m : SubSeq(seq, 1, m)[i] = seq[i]
  BY <1>2, FrontOf
<1>5. \A i \in 1..m : SubSeq(f, 1, m)[i] = SubSeq(seq, 1, m)[i]
  BY <1>1, <1>3, <1>4 DEF f
<1>6. SubSeq(f, 1, m) = SubSeq(seq, 1, m)
  BY <1>3, <1>4, <1>5, SeqEqual
<1> QED
  BY <1>6 DEF f

LEMMA FrontOfAppend ==
    ASSUME NEW S, NEW seq \in Seq(S), NEW e \in S, NEW n \in 0..Len(seq)
    PROVE  SubSeq(Append(seq, e), 1, n) = SubSeq(seq, 1, n)
<1> DEFINE longer == Append(seq, e)
<1>1. longer \in Seq(S) /\ Len(longer) = Len(seq) + 1 /\ \A i \in 1..Len(seq) : longer[i] = seq[i]
  OBVIOUS
<1>2. n \in 0..Len(longer)
  BY <1>1
<1> HIDE DEF longer
<1>3. /\ SubSeq(longer, 1, n) \in Seq(S) /\ Len(SubSeq(longer, 1, n)) = n
      /\ \A i \in 1..n : SubSeq(longer, 1, n)[i] = longer[i]
  BY <1>1, <1>2, FrontOf
<1>4. /\ SubSeq(seq, 1, n) \in Seq(S) /\ Len(SubSeq(seq, 1, n)) = n
      /\ \A i \in 1..n : SubSeq(seq, 1, n)[i] = seq[i]
  BY FrontOf
<1>5. SubSeq(longer, 1, n) = SubSeq(seq, 1, n)
  BY <1>1, <1>3, <1>4, SeqEqual
<1> QED
  BY <1>5 DEF longer

(* Of a walk back, each member stands at the end of its own walk. *)
LEMMA WalkFront ==
    ASSUME NEW N, Len(N) \in Nat, Descending(N)
    PROVE  \A h \in 0..Len(N) :
              LET W == WalkOf(N)
              IN  \A i \in 1..Len(W[h]) : W[h][i] \in 1..h /\ W[W[h][i]] = SubSeq(W[h], 1, i)
<1> DEFINE W == WalkOf(N)
           Fine(h) == \A i \in 1..Len(W[h]) : W[h][i] \in 1..h /\ W[W[h][i]] = SubSeq(W[h], 1, i)
           S == {h \in 0..Len(N) : Fine(h)}
<1>1. ASSUME NEW h \in 0..Len(N), \A j \in 0..Len(N) : j < h => j \in S
      PROVE  Fine(h)
  <2>1. CASE h = 0
    <3>1. W[h] = <<>>
      BY <2>1, WalkIs
    <3> QED
      BY <3>1
  <2>2. CASE h # 0
    <3>1. PICK v : v = N[h].prev
      OBVIOUS
    <3>2. h \in 1..Len(N) /\ v \in 0..(h - 1) /\ v \in 0..Len(N)
      BY <2>2, <3>1 DEF Descending
    <3>3. v \in S
      BY <1>1, <3>2
    <3>4. PICK w : w = W[v]
      OBVIOUS
    <3>5. W[h] = Append(w, h)
      BY <3>1, <3>2, <3>4, WalkIs
    <3>6. w \in Seq(1..v)
      BY <3>2, <3>4, WalkMembers
    <3>7. w \in Seq(Nat) /\ h \in Nat /\ Len(w) \in Nat
      <4>1. 1..v \subseteq Nat
        BY <3>2
      <4>2. w \in Seq(Nat)
        BY <3>6, <4>1, SeqMonotonic
      <4> QED
        BY <3>2, <4>2
    <3>8. \A i \in 1..Len(w) : w[i] \in 1..v /\ W[w[i]] = SubSeq(w, 1, i)
      BY <3>3, <3>4 DEF S
    <3> HIDE DEF W, S
    <3>9. /\ Len(Append(w, h)) = Len(w) + 1 /\ Append(w, h)[Len(w) + 1] = h
          /\ \A i \in 1..Len(w) : Append(w, h)[i] = w[i]
          /\ Append(w, h) \in Seq(Nat)
      BY <3>7
    <3> SUFFICES ASSUME NEW i \in 1..(Len(w) + 1)
                 PROVE  Append(w, h)[i] \in 1..h /\ W[Append(w, h)[i]] = SubSeq(Append(w, h), 1, i)
      BY <3>5, <3>9
    <3>10. CASE i = Len(w) + 1
      <4>1. SubSeq(Append(w, h), 1, i) = Append(w, h)
        BY <3>9, <3>10, SubSeqFull
      <4>2. Append(w, h)[i] = h
        BY <3>9, <3>10
      <4>3. W[Append(w, h)[i]] = SubSeq(Append(w, h), 1, i)
        BY <3>5, <4>1, <4>2
      <4> QED
        BY <3>2, <4>2, <4>3
    <3>11. CASE i # Len(w) + 1
      <4>1. i \in 1..Len(w) /\ i \in 0..Len(w)
        BY <3>7, <3>11
      <4>2. SubSeq(Append(w, h), 1, i) = SubSeq(w, 1, i)
        BY <3>7, <4>1, FrontOfAppend
      <4>3. Append(w, h)[i] = w[i] /\ w[i] \in 1..h
        BY <3>2, <3>8, <3>9, <4>1
      <4> QED
        BY <3>8, <4>1, <4>2, <4>3
    <3> QED
      BY <3>10, <3>11
  <2> QED
    BY <2>1, <2>2
<1> HIDE DEF Fine
<1>2. \A h \in 0..Len(N) : (\A j \in 0..Len(N) : j < h => j \in S) => h \in S
  BY <1>1 DEF S
<1> HIDE DEF S
<1>3. \A h \in 0..Len(N) : h \in S
  BY <1>2, UpTo
<1> QED
  BY <1>3 DEF S, Fine

(* FlattenSeq puts the sequences together one after the other. *)
LEMMA FlattenIs ==
    ASSUME NEW seqs, NEW n \in Nat \ {0}, Len(seqs) = n
    PROVE  \E f : /\ f = [i \in 1..n |-> IF i = 1 THEN seqs[i] ELSE f[i - 1] \o seqs[i]]
                  /\ FlattenSeq(seqs) = f[n]
<1> DEFINE Flatten(m, f) == f = [i \in 1..m |-> IF i = 1 THEN seqs[i] ELSE f[i - 1] \o seqs[i]]
           T == {m \in 0..n : \E f : Flatten(m, f)}
<1>2. ASSUME NEW m \in 0..n, \A j \in 0..n : j < m => j \in T
      PROVE  \E f : Flatten(m, f)
  <2>1. CASE m = 0
    <3> DEFINE f == [i \in 1..0 |-> seqs[i]]
    <3>1. f = [i \in 1..0 |-> IF i = 1 THEN seqs[i] ELSE f[i - 1] \o seqs[i]]
      OBVIOUS
    <3> HIDE DEF f
    <3> QED
      BY <2>1, <3>1
  <2>2. CASE m # 0
    <3>1. m - 1 \in 0..n /\ m - 1 < m
      BY <2>2
    <3>2. PICK g : Flatten(m - 1, g)
      BY <1>2, <3>1
    <3> DEFINE f == [i \in 1..m |-> IF i = m THEN (IF i = 1 THEN seqs[i] ELSE g[i - 1] \o seqs[i]) ELSE g[i]]
    <3>3. ASSUME NEW i \in 1..m
          PROVE  f[i] = IF i = 1 THEN seqs[i] ELSE f[i - 1] \o seqs[i]
      <4>1. i # 1 => i - 1 \in 1..m /\ i - 1 # m /\ f[i - 1] = g[i - 1]
        OBVIOUS
      <4>2. i # m => i \in 1..(m - 1) /\ f[i] = g[i]
        OBVIOUS
      <4>3. i # m => g[i] = IF i = 1 THEN seqs[i] ELSE g[i - 1] \o seqs[i]
        BY <3>2, <4>2
      <4>4. i = m => f[i] = IF i = 1 THEN seqs[i] ELSE g[i - 1] \o seqs[i]
        OBVIOUS
      <4> HIDE DEF f
      <4> QED
        BY <4>1, <4>2, <4>3, <4>4
    <3>4. f = [i \in 1..m |-> f[i]]
      OBVIOUS
    <3> HIDE DEF f
    <3>5. Flatten(m, f)
      BY <3>3, <3>4
    <3> QED
      BY <3>5
  <2> QED
    BY <2>1, <2>2
<1> DEFINE flat == CHOOSE f : Flatten(n, f)
<1>3. Flatten(n, flat)
  <2> HIDE DEF Flatten
  <2>1. \A m \in 0..n : (\A j \in 0..n : j < m => j \in T) => m \in T
    BY <1>2
  <2> HIDE DEF T
  <2>2. n \in T
    <3>1. \A m \in 0..n : m \in T
      BY <2>1, UpTo
    <3> QED
      BY <3>1
  <2> QED
    BY <2>2 DEF T
<1>4. FlattenSeq(seqs) = flat[n]
  BY DEF FlattenSeq
<1> HIDE DEF flat
<1> QED
  BY <1>3, <1>4

LEMMA FlattenTo ==
    ASSUME NEW n \in Nat \ {0}, NEW seqs, Len(seqs) = n
    PROVE  \A g : g[1] = seqs[1] /\ (\A k \in 2..n : g[k] = g[k - 1] \o seqs[k])
                    => FlattenSeq(seqs) = g[n]
<1> SUFFICES ASSUME NEW g, g[1] = seqs[1], \A k \in 2..n : g[k] = g[k - 1] \o seqs[k]
             PROVE  FlattenSeq(seqs) = g[n]
  OBVIOUS
<1>1. PICK f : /\ f = [i \in 1..n |-> IF i = 1 THEN seqs[i] ELSE f[i - 1] \o seqs[i]]
               /\ FlattenSeq(seqs) = f[n]
  BY FlattenIs
<1> DEFINE T == {k \in 0..n : k = 0 \/ f[k] = g[k]}
<1>2. ASSUME NEW k \in 0..n, \A j \in 0..n : j < k => j \in T PROVE k \in T
  <2>1. CASE k \in {0, 1}
    BY <1>1, <2>1
  <2>2. CASE k \notin {0, 1}
    <3>1. k - 1 \in 0..n /\ k - 1 < k /\ k - 1 # 0 /\ k \in 1..n /\ k \in 2..n
      BY <2>2
    <3>2. f[k - 1] = g[k - 1]
      BY <1>2, <3>1
    <3>3. f[k] = f[k - 1] \o seqs[k]
      BY <1>1, <2>2, <3>1
    <3> QED
      BY <3>1, <3>2, <3>3
  <2> QED
    BY <2>1, <2>2
<1> HIDE DEF T
<1>3. \A k \in 0..n : (\A j \in 0..n : j < k => j \in T) => k \in T
  BY <1>2
<1>4. \A k \in 0..n : k \in T
  BY <1>3, UpTo
<1>5. n \in T
  BY <1>4
<1> QED
  BY <1>1, <1>5 DEF T

(* When all are empty but one, that one is left. *)
OneAt(seqs, n, place, one) ==
    /\ Len(seqs) = n /\ (n = 0 => seqs = <<>>)
    /\ \A k \in 1..n : (k = place => seqs[k] = one) /\ (k # place => seqs[k] = <<>>)

OneOf(n, place, one) == IF place \in 1..n THEN one ELSE <<>>

LEMMA FlattenOne ==
    ASSUME NEW one \in Seq(Turn), NEW place \in Nat, NEW n \in Nat
    PROVE  \A seqs : OneAt(seqs, n, place, one) => FlattenSeq(seqs) = OneOf(n, place, one)
<1> SUFFICES ASSUME NEW seqs, Len(seqs) = n, n = 0 => seqs = <<>>,
                    \A k \in 1..n : (k = place => seqs[k] = one) /\ (k # place => seqs[k] = <<>>)
             PROVE  FlattenSeq(seqs) = IF place \in 1..n THEN one ELSE <<>>
  BY DEF OneAt, OneOf
<1>1. CASE n = 0
  BY <1>1 DEF FlattenSeq
<1>2. CASE n # 0
  <2> DEFINE g == [k \in 1..n |-> IF place \in 1..k THEN one ELSE <<>>]
  <2>1. g[1] = seqs[1]
    BY <1>2
  <2>2. <<>> \in Seq(Turn) /\ one \o <<>> = one /\ <<>> \o one = one
    BY ConcatEmptySeq
  <2>4. <<>> \o <<>> = <<>>
    OBVIOUS
  <2>3. ASSUME NEW k \in 2..n PROVE g[k] = g[k - 1] \o seqs[k]
    <3>1. k \in 1..n /\ k - 1 \in 1..n
      OBVIOUS
    <3>2. g[k] = (IF place \in 1..k THEN one ELSE <<>>)
          /\ g[k - 1] = (IF place \in 1..(k - 1) THEN one ELSE <<>>)
      BY <3>1
    <3>3. (k = place => seqs[k] = one) /\ (k # place => seqs[k] = <<>>)
      BY <3>1
    <3> HIDE DEF g
    <3>4. CASE place = k
      <4>1. g[k] = one /\ g[k - 1] = <<>>
        BY <3>2, <3>4
      <4>2. seqs[k] = one
        BY <3>3, <3>4
      <4> QED
        BY <2>2, <4>1, <4>2
    <3>5. CASE place \in 1..(k - 1)
      BY <2>2, <3>2, <3>3, <3>5
    <3>6. CASE place \notin 1..k
      <4>1. g[k] = <<>> /\ g[k - 1] = <<>> /\ seqs[k] = <<>>
        BY <3>1, <3>2, <3>3, <3>6
      <4> QED
        BY <2>4, <4>1
    <3>7. place = k \/ place \in 1..(k - 1) \/ place \notin 1..k
      OBVIOUS
    <3> QED
      BY <3>4, <3>5, <3>6, <3>7, Zenon
  <2>5. g[n] = IF place \in 1..n THEN one ELSE <<>>
    BY <1>2
  <2> HIDE DEF g
  <2>6. FlattenSeq(seqs) = g[n]
    <3>1. n \in Nat \ {0} /\ \A k \in 2..n : g[k] = g[k - 1] \o seqs[k]
      BY <1>2, <2>3
    <3>2. PICK h : h = g
      OBVIOUS
    <3>3. h[1] = seqs[1]
      BY <2>1, <3>2
    <3>4. \A k \in 2..n : h[k] = h[k - 1] \o seqs[k]
      BY <3>1, <3>2
    <3>5. n \in Nat \ {0} /\ Len(seqs) = n
      BY <3>1
    <3>6. \A f : f[1] = seqs[1] /\ (\A k \in 2..n : f[k] = f[k - 1] \o seqs[k])
                    => FlattenSeq(seqs) = f[n]
      BY <3>5, FlattenTo, Zenon
    <3>7. FlattenSeq(seqs) = h[n]
      BY <3>3, <3>4, <3>6, Zenon
    <3> QED
      BY <3>2, <3>7
  <2> QED
    BY <2>5, <2>6
<1> QED
  BY <1>1, <1>2
-----------------------------------------------------------------------------
(* The chain of the nodes, as the reader's commands walk it. *)
LEMMA OrderedIs ==
    ASSUME NodesTyped, Descends
    PROVE  /\ Ordered(0) = <<>>
           /\ \A h \in 0..Len(nodes) :
                 /\ Ordered(h) \in Seq(Nat)
                 /\ \A i \in 1..Len(Ordered(h)) :
                       /\ Ordered(h)[i] \in 1..h
                       /\ Ordered(Ordered(h)[i]) = SubSeq(Ordered(h), 1, i)
           /\ \A h \in 1..Len(nodes) :
                 /\ nodes[h].prev \in 0..Len(nodes)
                 /\ Ordered(h) = Append(Ordered(nodes[h].prev), h)
<1> DEFINE W == WalkOf(nodes)
<1>1. Len(nodes) \in Nat /\ \A h : Ordered(h) = W[h]
  BY StepIndexIs DEF NodesTyped
<1>2. W[0] = <<>> /\ \A h \in 1..Len(nodes) : W[h] = Append(W[nodes[h].prev], h)
  BY <1>1, WalkIs DEF Descends
<1>3. \A h \in 0..Len(nodes) :
          \A i \in 1..Len(W[h]) : W[h][i] \in 1..h /\ W[W[h][i]] = SubSeq(W[h], 1, i)
  BY <1>1, WalkFront DEF Descends
<1>4. ASSUME NEW h \in 0..Len(nodes) PROVE W[h] \in Seq(Nat)
  <2>1. W[h] \in Seq(1..h)
    BY <1>1, WalkMembers DEF Descends
  <2>2. 1..h \subseteq Nat
    OBVIOUS
  <2> HIDE DEF W
  <2> QED
    BY <2>1, <2>2, SeqMonotonic
<1>5. \A h \in 1..Len(nodes) : nodes[h].prev \in 0..Len(nodes)
  <2>1. \A h \in 1..Len(nodes) : nodes[h].prev \in 0..(h - 1)
    BY DEF Descends, Descending
  <2> QED
    BY <1>1, <2>1
<1> HIDE DEF W
<1> QED
  BY <1>1, <1>2, <1>3, <1>4, <1>5

(* A chain names no node twice, and ends with its head. *)
LEMMA OrderedOnce ==
    ASSUME NodesTyped, Descends, NEW h \in 0..Len(nodes)
    PROVE  /\ \A i, j \in 1..Len(Ordered(h)) : Ordered(h)[i] = Ordered(h)[j] => i = j
           /\ h # 0 => Len(Ordered(h)) \in Nat \ {0} /\ Ordered(h)[Len(Ordered(h))] = h
           /\ ToSet(Ordered(h)) = {Ordered(h)[i] : i \in 1..Len(Ordered(h))}
<1> DEFINE o == Ordered(h)
<1>1. /\ o \in Seq(Nat)
      /\ \A i \in 1..Len(o) : o[i] \in 1..h /\ Ordered(o[i]) = SubSeq(o, 1, i)
  BY OrderedIs
<1>2. ASSUME h # 0 PROVE Len(o) \in Nat \ {0} /\ o[Len(o)] = h
  <2>1. h \in 1..Len(nodes)
    BY <1>2
  <2>2. PICK v \in 0..Len(nodes) : v = nodes[h].prev
    BY <2>1, OrderedIs
  <2>3. o = Append(Ordered(v), h) /\ Ordered(v) \in Seq(Nat)
    BY <2>1, <2>2, OrderedIs
  <2> HIDE DEF o
  <2> QED
    BY <2>3
<1> HIDE DEF o
<1>3. ASSUME NEW i \in 1..Len(o), NEW j \in 1..Len(o), o[i] = o[j] PROVE i = j
  <2>1. SubSeq(o, 1, i) = SubSeq(o, 1, j)
    BY <1>1, <1>3
  <2>2. i \in 0..Len(o) /\ j \in 0..Len(o)
    OBVIOUS
  <2>3. Len(SubSeq(o, 1, i)) = i /\ Len(SubSeq(o, 1, j)) = j
    BY <1>1, <2>2, FrontOf
  <2> QED
    BY <2>1, <2>3
<1>4. ToSet(o) = {o[i] : i \in 1..Len(o)}
  BY <1>1 DEF ToSet
<1> QED
  BY <1>2, <1>3, <1>4 DEF o

LEMMA OnChainFront ==
    ASSUME NodesTyped, Descends, NEW h \in 0..Len(nodes), NEW k, OnChain(h, k)
    PROVE  /\ k \in 0..Len(nodes)
           /\ \E i \in 0..Len(Ordered(h)) : Ordered(k) = SubSeq(Ordered(h), 1, i)
           /\ ToSet(Ordered(k)) \subseteq ToSet(Ordered(h))
<1> DEFINE o == Ordered(h)
<1>1. /\ o \in Seq(Nat) /\ Len(o) \in Nat
      /\ \A i \in 1..Len(o) : o[i] \in 1..h /\ Ordered(o[i]) = SubSeq(o, 1, i)
  BY OrderedIs
<1>2. ToSet(o) = {o[i] : i \in 1..Len(o)}
  BY OrderedOnce
<1>3. k \in 0..Len(nodes) /\ \E i \in 0..Len(o) : Ordered(k) = SubSeq(o, 1, i)
  <2>1. CASE k = 0
    <3>1. Ordered(k) = <<>> /\ k \in 0..Len(nodes)
      BY <2>1, OrderedIs DEF NodesTyped
    <3>2. SubSeq(o, 1, 0) = <<>> /\ 0 \in 0..Len(o)
      BY <1>1, SubSeqEmpty
    <3> QED
      BY <3>1, <3>2
  <2>2. CASE k # 0
    <3>1. PICK i \in 1..Len(o) : k = o[i]
      BY <1>2, <2>2 DEF OnChain
    <3>2. Len(nodes) \in Nat
      BY DEF NodesTyped
    <3> HIDE DEF o
    <3>3. k \in 1..h /\ Ordered(k) = SubSeq(o, 1, i) /\ i \in 0..Len(o)
      BY <1>1, <3>1
    <3> QED
      BY <3>2, <3>3
  <2> QED
    BY <2>1, <2>2
<1> HIDE DEF o
<1>4. PICK i \in 0..Len(o) : Ordered(k) = SubSeq(o, 1, i)
  BY <1>3
<1>5. /\ Len(Ordered(k)) = i /\ \A j \in 1..i : Ordered(k)[j] = o[j]
  BY <1>1, <1>4, FrontOf
<1>6. ToSet(Ordered(k)) = {Ordered(k)[j] : j \in 1..i}
  BY <1>3, <1>5, OrderedOnce
<1>7. ToSet(Ordered(k)) \subseteq ToSet(o)
  BY <1>2, <1>5, <1>6
<1> QED
  BY <1>3, <1>7 DEF o

(* What sits before a step is the same on every chain it is on. *)
LEMMA SliceIs ==
    ASSUME NodesTyped, Descends, NEW h \in 0..Len(nodes), NEW j \in 1..Len(Ordered(h))
    PROVE  SliceBefore(Ordered(h), Ordered(h)[j]) = SubSeq(Ordered(h), 1, j - 1)
<1> DEFINE o == Ordered(h)
<1>1. DOMAIN o = 1..Len(o)
  BY OrderedIs
<1>2. \A i \in DOMAIN o : o[i] = o[j] => i = j
  BY <1>1, OrderedOnce
<1> HIDE DEF o
<1>3. j \in DOMAIN o
  BY <1>1 DEF o
<1>4. (CHOOSE i \in DOMAIN o : o[i] = o[j]) = j
  BY <1>2, <1>3
<1> QED
  BY <1>4 DEF SliceBefore, o

-----------------------------------------------------------------------------
(* A page takes the newest there are, at least one of them. *)
LEMMA MostThatFit ==
    ASSUME NEW n \in Nat, NEW fits \in SUBSET (1..n), n # 0 => 1 \in fits
    PROVE  LET k == IF fits = {} THEN 0 ELSE Max(fits)
           IN  /\ k \in 0..n /\ (n # 0 => k # 0)
               /\ k # n => k + 1 \notin fits
<1>1. CASE fits = {}
  BY <1>1
<1>2. CASE fits # {}
  <2>1. fits \subseteq 0..n
    OBVIOUS
  <2>2. Max(fits) \in fits /\ \A x \in fits : x <= Max(fits)
    BY <1>2, <2>1, GreatestOne
  <2>3. PICK m \in 1..n : m = Max(fits) /\ \A x \in fits : x <= m
    BY <2>2
  <2>4. m + 1 \notin fits
    BY <2>3
  <2> QED
    BY <1>2, <2>3, <2>4
<1> QED
  BY <1>1, <1>2

LEMMA QuotaTakes ==
    ASSUME NEW S, NEW items \in Seq(S), NEW quota, NEW start
    PROVE  \E k \in 0..Len(items) :
              /\ SelectByQuota(items, quota, start) = SubSeq(items, Len(items) - k + 1, Len(items))
              /\ Len(items) # 0 => k # 0
<1> DEFINE fits == {k \in 1..Len(items) : k = 1 \/ PageLength(k, start) <= quota}
           most == IF fits = {} THEN 0 ELSE Max(fits)
<1>1. SelectByQuota(items, quota, start) = SubSeq(items, Len(items) - most + 1, Len(items))
  BY DEF SelectByQuota, Newest
<1>2. Len(items) \in Nat /\ fits \in SUBSET (1..Len(items)) /\ (Len(items) # 0 => 1 \in fits)
  OBVIOUS
<1> HIDE DEF fits
<1>3. most \in 0..Len(items) /\ (Len(items) # 0 => most # 0)
  BY <1>2, MostThatFit
<1> QED
  BY <1>1, <1>3

(* The newest k of a chain's beginning, with their numbers. *)
LEMMA NumberedIs ==
    ASSUME NEW seq \in Seq(Nat), NEW k \in 0..Len(seq)
    PROVE  LET some == SubSeq(seq, Len(seq) - k + 1, Len(seq))
           IN  /\ Len(some) = k
               /\ Numbered(seq, some) = [i \in 1..k |-> [number |-> Len(seq) - k + i,
                                                         step |-> seq[Len(seq) - k + i]]]
               /\ k # 0 => some[1] = seq[Len(seq) - k + 1]
<1> DEFINE m == Len(seq)
           some == SubSeq(seq, m - k + 1, m)
<1>1. m \in Nat /\ m - k + 1 \in Int /\ \A i \in (m - k + 1)..m : seq[i] \in Nat
  OBVIOUS
<1>2. /\ some \in Seq(Nat) /\ Len(some) = IF m - k + 1 <= m THEN m - (m - k + 1) + 1 ELSE 0
      /\ \A i \in 1..(m - (m - k + 1) + 1) : some[i] = seq[(m - k + 1) + i - 1]
  BY <1>1, SubSeqProperties
<1> HIDE DEF some
<1>3. Len(some) = k /\ DOMAIN some = 1..k /\ \A i \in 1..k : some[i] = seq[m - k + i]
  <2>1. Len(some) = k
    BY <1>1, <1>2
  <2>2. \A i \in 1..k : i \in 1..(m - (m - k + 1) + 1) /\ (m - k + 1) + i - 1 = m - k + i
    BY <1>1
  <2> QED
    BY <1>2, <2>1, <2>2
<1>4. Numbered(seq, some) = [i \in DOMAIN some |-> [number |-> (m - Len(some)) + i, step |-> some[i]]]
  BY DEF Numbered
<1>5. Numbered(seq, some) = [i \in 1..k |-> [number |-> m - k + i, step |-> seq[m - k + i]]]
  BY <1>3, <1>4
<1>6. k # 0 => some[1] = seq[m - k + 1]
  BY <1>3
<1> QED
  BY <1>3, <1>5, <1>6 DEF some
-----------------------------------------------------------------------------
(* The turns of all groups one after the other. *)
LEMMA AtInterval ==
    ASSUME NEW seq \in Seq(Turn), NEW a \in 0..Len(seq), NEW b \in a..Len(seq)
    PROVE  At(seq, (a + 1)..b) = SubSeq(seq, a + 1, b)
<1>1. Len(seq) \in Nat /\ \A i \in 1..Len(seq) : seq[i] \in Turn
  OBVIOUS
<1>2. PICK n \in Nat : n = Len(seq)
  BY <1>1
<1>3. PICK places \in SUBSET (1..n) : places = (a + 1)..b
  BY <1>2
<1>4. \A i \in a..b : Cardinality((a + 1)..i) = i - a
  <2>1. \A i \in a..b : Cardinality((a + 1)..i) = IF a + 1 > i THEN 0 ELSE i - (a + 1) + 1
    BY <1>2, FS_Interval
  <2> QED
    BY <1>2, <2>1
<1>5. Cardinality(places) = b - a
  BY <1>3, <1>4
<1>6. \A i \in places : Cardinality(Lower(places, i)) = i - a
  <2>1. \A i \in places : Lower(places, i) = (a + 1)..i
    BY <1>3 DEF Lower
  <2> QED
    BY <1>3, <1>4, <2>1
<1>7. ASSUME NEW k \in 1..(b - a) PROVE At(seq, places)[k] = seq[a + k]
  <2>0. k \in 1..Cardinality(places)
    BY <1>5
  <2>1. PlaceOf(places, k) \in places
    BY <2>0, AtRank
  <2>2. Cardinality(Lower(places, PlaceOf(places, k))) = k
    BY <2>0, AtRank
  <2>3. \A q \in Seq(Turn) : At(q, places)[k] = q[PlaceOf(places, k)]
    BY <2>0, AtRank
  <2>4. PlaceOf(places, k) = a + k
    BY <1>3, <1>6, <2>1, <2>2
  <2> QED
    BY <2>3, <2>4
<1>8. At(seq, places) = [k \in 1..(b - a) |-> At(seq, places)[k]]
  BY <1>5, AtDomain
<1>9. /\ SubSeq(seq, a + 1, b) \in Seq(Turn) /\ Len(SubSeq(seq, a + 1, b)) = b - a
      /\ \A k \in 1..(b - a) : SubSeq(seq, a + 1, b)[k] = seq[a + k]
  <2>1. a + 1 \in Int /\ b \in Int /\ \A i \in (a + 1)..b : seq[i] \in Turn
    BY <1>1
  <2>2. /\ SubSeq(seq, a + 1, b) \in Seq(Turn)
        /\ Len(SubSeq(seq, a + 1, b)) = IF a + 1 <= b THEN b - (a + 1) + 1 ELSE 0
        /\ \A i \in 1..(b - (a + 1) + 1) : SubSeq(seq, a + 1, b)[i] = seq[(a + 1) + i - 1]
    BY <2>1, SubSeqProperties
  <2>3. Len(SubSeq(seq, a + 1, b)) = b - a
    BY <1>2, <2>2
  <2>4. ASSUME NEW k \in 1..(b - a) PROVE SubSeq(seq, a + 1, b)[k] = seq[a + k]
    <3>1. k \in 1..(b - (a + 1) + 1) /\ (a + 1) + k - 1 = a + k
      BY <1>2
    <3> QED
      BY <2>2, <3>1
  <2> QED
    BY <2>2, <2>3, <2>4
<1>10. SubSeq(seq, a + 1, b) = [k \in 1..(b - a) |-> SubSeq(seq, a + 1, b)[k]]
  <2>1. PICK part \in Seq(Turn) : part = SubSeq(seq, a + 1, b)
    BY <1>9
  <2>2. part = [k \in 1..Len(part) |-> part[k]]
    OBVIOUS
  <2> QED
    BY <1>9, <2>1, <2>2
<1> QED
  BY <1>3, <1>7, <1>8, <1>9, <1>10

(* What an earlier version wrote is shown when its step is on the chain. *)
LEMMA OldTurnsShown ==
    /\ LoadTurnData(OldTurns) \in Seq(Turn)
    /\ \A k \in 1..Len(LoadTurnData(OldTurns)) : LoadTurnData(OldTurns)[k].owner = OldStep
    /\ LoadTurnData(<<>>) = <<>>
<1>1. OldTurns \in [1..3 -> Turn] /\ \A i \in 1..3 : OldTurns[i].owner = OldStep
  BY DEF OldTurns, Turn, OldStep
<1>2. PICK m \in Nat : m = 3
  OBVIOUS
<1>3. PICK turns \in [1..m -> Turn] : turns = OldTurns
  BY <1>1, <1>2
<1>4. turns \in Seq(Turn) /\ Len(turns) = m /\ \A i \in 1..m : turns[i].owner = OldStep
  <2>1. turns \in Seq(Turn) /\ Len(turns) = m
    OBVIOUS
  <2>2. \A i \in 1..3 : turns[i].owner = OldStep
    BY <1>1, <1>3
  <2> QED
    BY <1>2, <2>1, <2>2
<1>5. /\ LoadTurnData(turns) \in Seq(Turn)
      /\ \A k \in 1..Len(LoadTurnData(turns)) :
            \E i \in 1..Len(turns) : LoadTurnData(turns)[k] = turns[i]
  BY <1>4, LoadIs
<1>6. \A k \in 1..Len(LoadTurnData(turns)) : LoadTurnData(turns)[k].owner = OldStep
  BY <1>4, <1>5
<1> QED
  BY <1>3, <1>5, <1>6, LoadNone

LEMMA LegacyFlat ==
    ASSUME NodesTyped, Descends, OldIsFirst, NEW h \in 0..Len(nodes)
    PROVE  Flat(PanoramaLegacy(h)) = OldPart(h) /\ OldPart(h) \in Seq(Turn)
<1> DEFINE o == Ordered(h)
           n == Len(o)
           groups == PanoramaLegacy(h)
           lists == [i \in DOMAIN groups |-> groups[i].turns]
           old == LoadTurnData(OldTurns)
<1>1. o \in Seq(Nat) /\ n \in Nat /\ DOMAIN o = 1..n /\ \A i \in 1..n : o[i] \in 1..h
  BY OrderedIs
<1>2. \A i \in 1..n : o[i] \in 1..Len(nodes)
  BY <1>1 DEF NodesTyped
<1>3. DOMAIN groups = 1..n /\ \A i \in 1..n : groups[i].turns = LoadTurnData(DetailTurns(o[i]))
  BY <1>1 DEF PanoramaLegacy
<1>4. lists = [i \in 1..n |-> LoadTurnData(DetailTurns(o[i]))] /\ Flat(groups) = FlattenSeq(lists)
  BY <1>3 DEF Flat
<1> HIDE DEF lists, groups
<1>5. ToSet(o) = {o[i] : i \in 1..n} /\ \A i, j \in 1..n : o[i] = o[j] => i = j
  BY OrderedOnce
<1>6. PICK place \in 0..n : \A i \in 1..n : i = place <=> nodes[o[i]].start = OldStep
  <2>1. CASE OldOn(h)
    <3>1. PICK i \in 1..n : nodes[o[i]].start = OldStep
      BY <1>5, <2>1 DEF OldOn
    <3>2. \A j \in 1..n : nodes[o[j]].start = OldStep => o[j] = 1
      BY <1>2 DEF OldIsFirst
    <3>3. \A j \in 1..n : j = i <=> nodes[o[j]].start = OldStep
      BY <1>5, <3>1, <3>2
    <3> QED
      BY <1>1, <3>3
  <2>2. CASE ~OldOn(h)
    <3>1. \A i \in 1..n : nodes[o[i]].start # OldStep
      BY <1>5, <2>2 DEF OldOn
    <3>2. 0 \in 0..n /\ \A i \in 1..n : i # 0
      BY <1>1
    <3> QED
      BY <3>1, <3>2
  <2> QED
    BY <2>1, <2>2
<1>7. OldOn(h) <=> place \in 1..n
  BY <1>1, <1>5, <1>6 DEF OldOn
<1>8. old \in Seq(Turn) /\ LoadTurnData(<<>>) = <<>>
  BY OldTurnsShown
<1>9. \A i \in 1..n : lists[i] = IF i = place THEN old ELSE <<>>
  BY <1>4, <1>6, <1>8 DEF DetailTurns
<1>10. Len(lists) = n /\ place \in Nat /\ (n = 0 => lists = <<>>)
  BY <1>1, <1>4
<1> HIDE DEF old, o, n
<1>11. n \in Nat
  BY <1>1
<1>12. FlattenSeq(lists) = IF place \in 1..n THEN old ELSE <<>>
  <2>1. place \in Nat
    BY <1>10
  <2>2. OneAt(lists, n, place, old)
    BY <1>9, <1>10 DEF OneAt
  <2>3. old \in Seq(Turn)
    BY <1>8
  <2>4. FlattenSeq(lists) = OneOf(n, place, old)
    BY <1>11, <2>1, <2>2, <2>3, FlattenOne
  <2> QED
    BY <2>4 DEF OneOf
<1>13. OldPart(h) = IF place \in 1..n THEN old ELSE <<>>
  BY <1>7 DEF OldPart, old
<1>14. OldPart(h) \in Seq(Turn)
  BY <1>8, <1>13, EmptySeq
<1> QED
  BY <1>4, <1>12, <1>13, <1>14 DEF groups

(* While no place is tried again, the steps of the panorama come in the     *)
(* order they were begun, and each has the turns up to its newest.          *)
EndOf(k) == IF k = 0 THEN 0 ELSE NewestTurn(WalkStepStartChain[k])

LEMMA WalkAscends ==
    ASSUME NodesTyped, StartsTyped, OwnersBegun, Indexed, ~Repeated
    PROVE  \E c \in Nat :
              /\ WalkStepStartChain = [k \in 1..c |-> WalkStepStartChain[k]]
              /\ \A k \in 1..c : WalkStepStartChain[k] \in Owners
              /\ \A s \in Owners : \E k \in 1..c : WalkStepStartChain[k] = s
              /\ \A a, b \in 1..c : a < b => WalkStepStartChain[a] < WalkStepStartChain[b]
<1> DEFINE R == {st \in Owners \X Owners : Before(st[1], st[2])}
           W == WalkStepStartChain
<1>1. IsFiniteSet(Owners) /\ Owners \subseteq 1..Len(starts) /\ Orders(R, Owners)
  BY OwnersInOrder
<1>2. Len(starts) \in Nat /\ \A s \in Owners : starts[s].stepIndex \in Nat
  BY <1>1 DEF StartsTyped, Indexed
<1>3. W = Sorted(Owners, R)
  BY DEF WalkStepStartChain
<1>4. ASSUME NEW s \in Owners, NEW t \in Owners, s < t PROVE <<s, t>> \in R
  <2>1. starts[s].stepIndex < starts[t].stepIndex
    <3>1. s \in 1..Len(starts) /\ t \in 1..Len(starts)
      BY <1>1
    <3>2. ~(starts[t].stepIndex <= starts[s].stepIndex)
      BY <1>4, <3>1 DEF Repeated
    <3> QED
      BY <1>2, <3>2
  <2> QED
    BY <2>1 DEF Before
<1> HIDE DEF R, W
<1>5. PICK c \in Nat : c = Cardinality(Owners)
  BY <1>1, SortedIs
<1>6. /\ DOMAIN W = 1..c
      /\ \A k \in 1..c : W[k] \in Owners /\ Rank(Owners, R, W[k]) = k
      /\ \A s \in Owners : Rank(Owners, R, s) \in 1..c /\ W[Rank(Owners, R, s)] = s
  BY <1>1, <1>3, <1>5, SortedIs
<1>7. ASSUME NEW a \in 1..c, NEW b \in 1..c, a < b PROVE W[a] < W[b]
  <2>1. W[a] # W[b]
    BY <1>6, <1>7
  <2>2. CASE W[b] < W[a]
    <3>1. <<W[b], W[a]>> \in R
      BY <1>4, <1>6, <2>2
    <3>2. b < a
      BY <1>1, <1>3, <1>5, <2>1, <3>1, SortedOrder
    <3> QED
      BY <1>7, <3>2
  <2>3. W[a] \in Nat /\ W[b] \in Nat
    BY <1>1, <1>2, <1>6
  <2> QED
    BY <2>1, <2>2, <2>3
<1>8. W = [k \in 1..c |-> W[k]]
  <2> DEFINE Of(k) == CHOOSE x \in Owners : Cardinality({y \in Owners : <<y, x>> \in R}) = k
  <2>1. W = [k \in 1..c |-> Of(k)]
    BY <1>3, <1>5 DEF Sorted
  <2> HIDE DEF Of
  <2> QED
    BY <2>1
<1> QED
  BY <1>6, <1>7, <1>8 DEF W

LEMMA NewestOf ==
    ASSUME turnHead \in Seq(Turn), NEW s \in Owners
    PROVE  /\ NewestTurn(s) \in 1..Len(turnHead) /\ turnHead[NewestTurn(s)].owner = s
           /\ \A i \in 1..Len(turnHead) : turnHead[i].owner = s => i <= NewestTurn(s)
<1> DEFINE own == {i \in 1..Len(turnHead) : turnHead[i].owner = s}
<1>1. DOMAIN turnHead = 1..Len(turnHead) /\ Len(turnHead) \in Nat
  OBVIOUS
<1>2. own # {} /\ own \subseteq 0..Len(turnHead)
  BY <1>1 DEF Owners
<1>3. NewestTurn(s) = Max(own)
  BY <1>1 DEF NewestTurn
<1>4. \A i \in own : i \in 1..Len(turnHead) /\ turnHead[i].owner = s
  OBVIOUS
<1>5. \A i \in 1..Len(turnHead) : turnHead[i].owner = s => i \in own
  OBVIOUS
<1> HIDE DEF own
<1>6. Max(own) \in own /\ \A i \in own : i <= Max(own)
  BY <1>1, <1>2, GreatestOne
<1> QED
  BY <1>3, <1>4, <1>5, <1>6

LEMMA GroupEnds ==
    ASSUME NodesTyped, OwnersBegun, TurnsSorted, NEW c \in Nat,
           \A k \in 1..c : WalkStepStartChain[k] \in Owners,
           \A s \in Owners : \E k \in 1..c : WalkStepStartChain[k] = s,
           \A a, b \in 1..c : a < b => WalkStepStartChain[a] < WalkStepStartChain[b],
           turnHead # <<>>
    PROVE  /\ c # 0 /\ EndOf(c) = Len(turnHead) /\ EndOf(0) = 0
           /\ \A k \in 1..c :
                 /\ EndOf(k) \in 1..Len(turnHead) /\ EndOf(k - 1) \in 0..EndOf(k)
                 /\ {i \in 1..Len(turnHead) : turnHead[i].owner = WalkStepStartChain[k]}
                       = (EndOf(k - 1) + 1)..EndOf(k)
<1> DEFINE n == Len(turnHead)
           W == WalkStepStartChain
<1>1. /\ n \in Nat /\ n # 0 /\ DOMAIN turnHead = 1..n /\ turnHead \in Seq(Turn)
      /\ \A i \in 1..n : turnHead[i].owner \in Nat /\ turnHead[i].owner \in Owners
  <2>1. turnHead \in Seq(Turn) /\ DOMAIN turnHead = 1..n /\ n \in Nat
    BY DEF NodesTyped
  <2>2. n # 0
    BY <2>1, EmptySeq
  <2>3. \A i \in 1..n : turnHead[i].owner \in Nat
    <3>1. \A i \in 1..n : turnHead[i] \in Turn
      BY <2>1
    <3>2. \A t \in Turn : t.owner \in Nat
      BY DEF Turn
    <3> QED
      BY <3>1, <3>2
  <2>4. \A i \in 1..n : turnHead[i].owner \in Owners
    BY <2>1 DEF Owners
  <2> QED
    BY <2>1, <2>2, <2>3, <2>4
<1>2. \A i, j \in 1..n : i <= j => turnHead[i].owner <= turnHead[j].owner
  BY DEF TurnsSorted
<1>3. \A k \in 1..c : /\ EndOf(k) \in 1..n /\ turnHead[EndOf(k)].owner = W[k]
                      /\ \A i \in 1..n : turnHead[i].owner = W[k] => i <= EndOf(k)
  BY <1>1, NewestOf DEF EndOf
<1>4. \A k \in 1..c : W[k] \in Nat
  BY <1>1, <1>3
<1>5. \A i \in 1..n : \E k \in 1..c : turnHead[i].owner = W[k]
  BY <1>1
<1>6. \A a, b \in 1..c : a < b => W[a] < W[b]
  OBVIOUS
<1>7. EndOf(0) = 0
  BY DEF EndOf
<1> HIDE DEF n, W
<1>8. ASSUME NEW i \in 1..n, NEW k \in 1..c
      PROVE  i <= EndOf(k) <=> turnHead[i].owner <= W[k]
  <2>1. EndOf(k) \in 1..n /\ turnHead[EndOf(k)].owner = W[k] /\ W[k] \in Nat
    BY <1>3, <1>4
  <2>2. i <= EndOf(k) => turnHead[i].owner <= W[k]
    BY <1>2, <2>1
  <2>3. ASSUME turnHead[i].owner <= W[k], ~(i <= EndOf(k)) PROVE FALSE
    <3>1. EndOf(k) <= i
      BY <1>1, <2>1, <2>3
    <3>2. W[k] <= turnHead[i].owner
      BY <1>2, <2>1, <3>1
    <3>3. turnHead[i].owner = W[k]
      BY <1>1, <2>1, <2>3, <3>2
    <3> QED
      BY <1>3, <2>3, <3>3
  <2> QED
    BY <2>2, <2>3
<1>9. ASSUME NEW k \in 1..c
      PROVE  EndOf(k - 1) \in 0..EndOf(k)
  <2>1. CASE k = 1
    BY <1>3, <1>7, <2>1
  <2>2. CASE k # 1
    <3>1. k - 1 \in 1..c /\ k - 1 < k
      BY <2>2
    <3>2. EndOf(k - 1) \in 1..n /\ turnHead[EndOf(k - 1)].owner = W[k - 1] /\ W[k - 1] < W[k]
      BY <1>3, <1>6, <3>1
    <3>3. W[k - 1] \in Nat /\ W[k] \in Nat /\ EndOf(k) \in 1..n
      BY <1>3, <1>4, <3>1
    <3>4. EndOf(k - 1) <= EndOf(k)
      BY <1>8, <3>2, <3>3
    <3> QED
      BY <3>2, <3>3, <3>4
  <2> QED
    BY <2>1, <2>2
<1>10. ASSUME NEW k \in 1..c, NEW i \in 1..n
       PROVE  turnHead[i].owner = W[k] <=> EndOf(k - 1) < i /\ i <= EndOf(k)
  <2>0. EndOf(k) \in 1..n /\ W[k] \in Nat
    BY <1>3, <1>4
  <2>1. ASSUME turnHead[i].owner = W[k] PROVE EndOf(k - 1) < i /\ i <= EndOf(k)
    <3>1. i <= EndOf(k)
      BY <1>3, <2>1
    <3>2. CASE k = 1
      BY <1>7, <3>1, <3>2
    <3>3. CASE k # 1
      <4>1. k - 1 \in 1..c /\ k - 1 < k
        BY <3>3
      <4>2. W[k - 1] < W[k] /\ W[k - 1] \in Nat /\ EndOf(k - 1) \in 1..n
        BY <1>3, <1>4, <1>6, <4>1
      <4>3. ~(turnHead[i].owner <= W[k - 1])
        BY <2>0, <2>1, <4>2
      <4>4. ~(i <= EndOf(k - 1))
        BY <1>8, <4>1, <4>3
      <4> QED
        BY <3>1, <4>2, <4>4
    <3> QED
      BY <3>2, <3>3
  <2>2. ASSUME EndOf(k - 1) < i, i <= EndOf(k) PROVE turnHead[i].owner = W[k]
    <3>1. PICK j \in 1..c : turnHead[i].owner = W[j]
      BY <1>5
    <3>2. W[j] <= W[k]
      BY <1>8, <2>2, <3>1
    <3>3. ~(k < j)
      <4>1. k < j => W[k] < W[j]
        BY <1>6
      <4> QED
        BY <1>4, <2>0, <3>2, <4>1
    <3>4. ~(j < k)
      <4> SUFFICES ASSUME j < k PROVE FALSE
        OBVIOUS
      <4>1. k - 1 \in 1..c /\ (j = k - 1 \/ j < k - 1)
        OBVIOUS
      <4>2. W[j] \in Nat /\ W[k - 1] \in Nat
        BY <1>4, <4>1
      <4>3. W[j] <= W[k - 1]
        BY <1>6, <4>1, <4>2
      <4>4. i <= EndOf(k - 1)
        BY <1>8, <3>1, <4>1, <4>3
      <4>5. EndOf(k - 1) \in 1..n
        BY <1>3, <4>1
      <4> QED
        BY <2>2, <4>4, <4>5
    <3>5. j = k
      BY <3>3, <3>4
    <3> QED
      BY <3>1, <3>5
  <2> QED
    BY <2>1, <2>2
<1>11. c # 0 /\ EndOf(c) = n
  <2>1. PICK j \in 1..c : turnHead[n].owner = W[j]
    BY <1>1, <1>5
  <2>2. c \in 1..c /\ c # 0
    BY <2>1
  <2>3. W[j] <= W[c]
    <3>1. j = c \/ j < c
      OBVIOUS
    <3>2. W[j] \in Nat /\ W[c] \in Nat
      BY <1>4, <2>2
    <3> QED
      BY <1>6, <2>2, <3>1, <3>2
  <2>4. n <= EndOf(c) /\ EndOf(c) \in 1..n
    BY <1>1, <1>3, <1>8, <2>1, <2>2, <2>3
  <2> QED
    BY <1>1, <2>2, <2>4
<1>12. ASSUME NEW k \in 1..c
       PROVE  {i \in 1..n : turnHead[i].owner = W[k]} = (EndOf(k - 1) + 1)..EndOf(k)
  <2>1. EndOf(k) \in 1..n /\ EndOf(k - 1) \in 0..EndOf(k)
    BY <1>3, <1>9
  <2>2. \A i \in 1..n : turnHead[i].owner = W[k] <=> i \in (EndOf(k - 1) + 1)..EndOf(k)
    <3>1. \A i \in 1..n : (EndOf(k - 1) < i /\ i <= EndOf(k)) <=> i \in (EndOf(k - 1) + 1)..EndOf(k)
      BY <2>1
    <3> QED
      BY <1>10, <3>1
  <2>3. (EndOf(k - 1) + 1)..EndOf(k) \subseteq 1..n
    <3>1. PICK b \in 1..n : b = EndOf(k)
      BY <2>1
    <3>2. PICK a \in 0..b : a = EndOf(k - 1)
      BY <2>1, <3>1
    <3>3. (a + 1)..b \subseteq 1..n
      BY <1>1, <3>1, <3>2
    <3> QED
      BY <3>1, <3>2, <3>3
  <2> QED
    BY <2>2, <2>3
<1> QED
  BY <1>3, <1>7, <1>9, <1>11, <1>12 DEF n, W

LEMMA PanoramaFlat ==
    ASSUME NodesTyped, StartsTyped, OwnersBegun, Indexed, TurnsSorted, ~Repeated, turnHead # <<>>
    PROVE  Flat(Panorama) = LoadTurnData(turnHead)
<1> DEFINE n == Len(turnHead)
           W == WalkStepStartChain
           Own(s) == LoadTurnData(TurnsOfStep(turnHead, s))
<1>1. PICK c \in Nat :
              /\ W = [k \in 1..c |-> W[k]]
              /\ \A k \in 1..c : W[k] \in Owners
              /\ \A s \in Owners : \E k \in 1..c : W[k] = s
              /\ \A a, b \in 1..c : a < b => W[a] < W[b]
  BY WalkAscends
<1>2. /\ c # 0 /\ EndOf(c) = n /\ EndOf(0) = 0
      /\ \A k \in 1..c :
            /\ EndOf(k) \in 1..n /\ EndOf(k - 1) \in 0..EndOf(k)
            /\ {i \in 1..n : turnHead[i].owner = W[k]} = (EndOf(k - 1) + 1)..EndOf(k)
  BY <1>1, GroupEnds
<1>3. turnHead \in Seq(Turn) /\ DOMAIN turnHead = 1..n /\ n \in Nat
  BY DEF NodesTyped
<1>4. ASSUME NEW k \in 1..c
      PROVE  Own(W[k]) = LoadTurnData(SubSeq(turnHead, EndOf(k - 1) + 1, EndOf(k)))
  <2>0. Owners \subseteq 1..Len(starts) /\ Len(starts) \in Nat
    BY OwnersInOrder DEF StartsTyped
  <2>1. PICK s \in Nat \ {0} : s = W[k]
    BY <1>1, <2>0
  <2>2. TurnsOfStep(turnHead, s) = At(turnHead, (EndOf(k - 1) + 1)..EndOf(k))
    BY <1>2, <1>3, <2>1 DEF TurnsOfStep
  <2>3. TurnsOfStep(turnHead, s) = SubSeq(turnHead, EndOf(k - 1) + 1, EndOf(k))
    <3>1. PICK a \in 0..n : a = EndOf(k - 1)
      BY <1>2, <1>3
    <3>2. PICK b \in a..n : b = EndOf(k)
      BY <1>2, <1>3, <3>1
    <3>3. At(turnHead, (a + 1)..b) = SubSeq(turnHead, a + 1, b)
      BY <1>3, <3>1, <3>2, AtInterval
    <3> QED
      BY <2>2, <3>1, <3>2, <3>3
  <2> QED
    BY <2>1, <2>3
<1>5. PICK lists : lists = [k \in 1..c |-> Own(W[k])]
  OBVIOUS
<1>6. Flat(Panorama) = FlattenSeq(lists)
  <2>1. Len(W) = c
    <3>1. PICK w : w = W
      OBVIOUS
    <3>2. w = [k \in 1..c |-> w[k]]
      BY <1>1, <3>1
    <3>3. Len(w) = c
      BY <3>2
    <3> QED
      BY <3>1, <3>3
  <2>2. Panorama = [k \in 1..c |-> [role |-> starts[W[k]].role, running |-> activeStep = W[k],
                                    turns |-> Own(W[k]), stepStart |-> W[k]]]
    BY <2>1 DEF Panorama
  <2>3. DOMAIN Panorama = 1..c /\ \A k \in 1..c : Panorama[k].turns = Own(W[k])
    BY <2>2
  <2>4. [i \in DOMAIN Panorama |-> Panorama[i].turns] = lists
    BY <1>5, <2>3
  <2> QED
    BY <2>4 DEF Flat
<1>7. PICK g : g = [k \in 1..c |-> LoadTurnData(SubSeq(turnHead, 1, EndOf(k)))]
  OBVIOUS
<1> HIDE DEF Own, W
<1>8. \A k \in 1..c : lists[k] = LoadTurnData(SubSeq(turnHead, EndOf(k - 1) + 1, EndOf(k)))
  BY <1>4, <1>5
<1>9. Len(lists) = c /\ c \in Nat \ {0}
  BY <1>2, <1>5
<1>10. g[1] = lists[1]
  <2>1. 1 \in 1..c /\ 1 - 1 = 0
    BY <1>9
  <2>2. lists[1] = LoadTurnData(SubSeq(turnHead, EndOf(0) + 1, EndOf(1)))
    BY <1>8, <2>1
  <2>3. EndOf(0) + 1 = 1
    BY <1>2
  <2> QED
    BY <1>7, <2>1, <2>2, <2>3
<1>11. ASSUME NEW k \in 2..c PROVE g[k] = g[k - 1] \o lists[k]
  <2>1. k \in 1..c /\ k - 1 \in 1..c
    OBVIOUS
  <2>2. PICK b \in 1..n : b = EndOf(k)
    BY <1>2, <2>1
  <2>3. PICK a \in 0..b : a = EndOf(k - 1)
    BY <1>2, <2>1, <2>2
  <2>4. 1 \in 1..(n + 1) /\ a \in (1 - 1)..n /\ b \in a..n
    BY <1>3, <2>2, <2>3
  <2> HIDE DEF n
  <2>5. SubSeq(turnHead, 1, a) \o SubSeq(turnHead, a + 1, b) = SubSeq(turnHead, 1, b)
    BY <1>3, <2>4, ConcatAdjacentSubSeq DEF n
  <2>6. PICK front \in Seq(Turn) : front = SubSeq(turnHead, 1, a)
    <3>1. a \in 0..Len(turnHead)
      BY <2>4 DEF n
    <3> QED
      BY <1>3, <3>1, FrontOf
  <2>7. PICK back \in Seq(Turn) : back = SubSeq(turnHead, a + 1, b)
    <3>1. \A i \in (a + 1)..b : turnHead[i] \in Turn
      BY <1>3, <2>4 DEF n
    <3>2. a + 1 \in Int /\ b \in Int
      BY <1>3, <2>4
    <3> QED
      BY <3>1, <3>2, SubSeqProperties
  <2>8. LoadTurnData(SubSeq(turnHead, 1, b)) = LoadTurnData(front) \o LoadTurnData(back)
    BY <2>5, <2>6, <2>7, LoadConcat
  <2> QED
    BY <1>7, <1>8, <2>1, <2>2, <2>3, <2>6, <2>7, <2>8
<1>12. FlattenSeq(lists) = g[c]
  <2>1. \A f : f[1] = lists[1] /\ (\A k \in 2..c : f[k] = f[k - 1] \o lists[k])
                  => FlattenSeq(lists) = f[c]
    BY <1>9, FlattenTo, Zenon
  <2> QED
    BY <1>10, <1>11, <2>1, Zenon
<1>13. g[c] = LoadTurnData(turnHead)
  <2>1. g[c] = LoadTurnData(SubSeq(turnHead, 1, n))
    BY <1>2, <1>7, <1>9
  <2> QED
    BY <1>3, <2>1, SubSeqFull
<1> QED
  BY <1>6, <1>12, <1>13
-----------------------------------------------------------------------------
(* What one process alone does to what a reader sees. *)
LEMMA TurnsAppended ==
    ASSUME TallyInv, SoleInv, [Next]_vars
    PROVE  UNCHANGED turnHead \/ \E t \in Turn : turnHead' = Append(turnHead, t)
<1>0. StepInv /\ TypeOK /\ LocalsTyped
  BY DEF TallyInv, StepInv, TypeOK
<1>1. ASSUME NEW p \in Proc, OnTurn(p) PROVE \E t \in Turn : turnHead' = Append(turnHead, t)
  <2>1. PICK t \in Turn : turnHead' = Append(loc[p].chain, t) /\ pc[p] = "stream"
    BY <1>0, <1>1, TurnAdded
  <2>2. loc[p].chain = turnHead
    BY <2>1 DEF SoleInv, Writes, Chaining
  <2> QED
    BY <2>1, <2>2
<1>2. ASSUME NEW p \in Proc, Quiet(p) PROVE UNCHANGED turnHead
  BY <1>0, <1>2, QuietStep
<1>3. ASSUME NEW p \in Proc, ReadTurnHead(p) PROVE UNCHANGED turnHead
  BY <1>3 DEF ReadTurnHead, stored
<1>4. ASSUME NEW p \in Proc, MarkActive(p) PROVE UNCHANGED turnHead
  BY <1>4 DEF MarkActive
<1>5. ASSUME NEW p \in Proc, Outside(p) \/ Ceasing(p) PROVE UNCHANGED turnHead
  BY <1>5, OutsideKeeps, CeasingKeeps
<1>6. Restart \/ UNCHANGED vars => UNCHANGED turnHead
  BY DEF Restart, vars, stored
<1> QED
  BY <1>1, <1>2, <1>3, <1>4, <1>5, <1>6, StepKinds DEF Outside, Quiet

LEMMA Recorded ==
    ASSUME TallyInv, [Next]_vars
    PROVE  /\ Len(nodes) \in Nat /\ Len(nodes') \in Nat /\ Len(nodes) <= Len(nodes')
           /\ \A i \in 1..Len(nodes) : nodes'[i] = nodes[i]
           /\ Len(starts) \in Nat /\ Len(starts') \in Nat /\ Len(starts) <= Len(starts')
           /\ \A i \in 1..Len(starts) : starts'[i] = starts[i]
<1>0. StepInv /\ TypeOK /\ Len(nodes) \in Nat /\ Len(starts) \in Nat
  BY DEF TallyInv, StepInv, TypeOK, NodesTyped, StartsTyped
<1> DEFINE Kept == UNCHANGED <<nodes, starts>>
<1>1. ASSUME NEW p \in Proc, Outside(p) \/ Ceasing(p) PROVE Kept
  BY <1>1, OutsideKeeps, CeasingKeeps
<1>2. ASSUME NEW p \in Proc, MarkActive(p)
      PROVE  UNCHANGED nodes /\ Len(starts') = Len(starts) + 1
             /\ \A i \in 1..Len(starts) : starts'[i] = starts[i]
  BY <1>0, <1>2, MarkedStart, NodesKept
<1>3. ASSUME NEW p \in Proc, Going(p), ~WriteNode(p) PROVE Kept
  BY <1>3, GoingKeeps, NodesKept
<1>4. ASSUME NEW p \in Proc, WriteNode(p)
      PROVE  UNCHANGED starts /\ Len(nodes') = Len(nodes) + 1
             /\ \A i \in 1..Len(nodes) : nodes'[i] = nodes[i]
  BY <1>0, <1>4, NodeWritten, GoingKeeps DEF Going
<1>5. Restart \/ UNCHANGED vars => Kept
  BY DEF Restart, vars, stored
<1> QED
  BY <1>0, <1>1, <1>2, <1>3, <1>4, <1>5, StepKinds DEF Outside

LEMMA ChainsStay ==
    ASSUME TallyInv, PlaceInv, PlaceInv', [Next]_vars
    PROVE  \A h \in 0..Len(nodes) : Ordered(h)' = Ordered(h)
<1>1. /\ Len(nodes) \in Nat /\ Len(nodes') \in Nat /\ Len(nodes) <= Len(nodes')
      /\ \A i \in 1..Len(nodes) : nodes'[i] = nodes[i]
  BY Recorded
<1>2. Descending(nodes) /\ Descending(nodes')
  BY DEF PlaceInv, Descends
<1>3. \A h \in 0..Len(nodes) : WalkOf(nodes')[h] = WalkOf(nodes)[h]
  BY <1>1, <1>2, WalkKept
<1>4. \A h : Ordered(h) = WalkOf(nodes)[h] /\ Ordered(h)' = WalkOf(nodes')[h]
  BY StepIndexIs DEF Ordered, WalkOf
<1> QED
  BY <1>3, <1>4

\* Where a commit may put the head.
HeadMoves ==
    /\ UNCHANGED <<nodes, starts, turnHead>>
    /\ head' \in 1..Len(nodes) /\ nodes[head'].start # OldStep
    /\ \/ nodes[head'].prev = head
       \/ head # 0 /\ nodes[head'].prev = nodes[head].prev

LEMMA HeadGoesOn ==
    ASSUME TallyInv, SoleInv, [Next]_vars
    PROVE  UNCHANGED head \/ HeadMoves
<1>0. StepInv
  BY DEF TallyInv
<1>1. ASSUME NEW p \in Proc, Commit(p) PROVE UNCHANGED head \/ HeadMoves
  BY <1>0, <1>1, CommitMoves DEF HeadMoves, SoleInv, OldStep
<1>2. Restart \/ UNCHANGED vars => UNCHANGED head
  BY DEF Restart, vars, stored
<1> QED
  BY <1>1, <1>2, HeadStays, StepKinds DEF Outside

(* A chain goes on with its head. *)
LEMMA ChainOf ==
    ASSUME NodesTyped, Descends, NEW h \in 1..Len(nodes)
    PROVE  \A i : i \in ToSet(Ordered(h)) <=> i = h \/ i \in ToSet(Ordered(nodes[h].prev))
<1>0. Len(nodes) \in Nat
  BY DEF NodesTyped
<1>1. PICK v \in 0..Len(nodes) : v = nodes[h].prev
  BY OrderedIs
<1>2. Ordered(h) = Append(Ordered(v), h) /\ Ordered(v) \in Seq(Nat) /\ h \in Nat
  <2>1. Ordered(h) = Append(Ordered(nodes[h].prev), h)
    BY OrderedIs
  <2>2. Ordered(v) \in Seq(Nat)
    BY OrderedIs
  <2> QED
    BY <1>0, <1>1, <2>1, <2>2
<1>3. PICK w \in Seq(Nat) : w = Ordered(v)
  BY <1>2
<1>4. ToSet(Append(w, h)) = {Append(w, h)[i] : i \in 1..(Len(w) + 1)} /\ ToSet(w) = {w[i] : i \in 1..Len(w)}
  <2>1. DOMAIN w = 1..Len(w) /\ DOMAIN Append(w, h) = 1..(Len(w) + 1)
    BY <1>2, <1>3
  <2> QED
    BY <2>1 DEF ToSet
<1>5. /\ \A i \in 1..Len(w) : Append(w, h)[i] = w[i]
      /\ Append(w, h)[Len(w) + 1] = h /\ Len(w) \in Nat
  BY <1>2, <1>3
<1>6. \A i : i \in ToSet(Append(w, h)) <=> i = h \/ i \in ToSet(w)
  <2>1. ASSUME NEW i \in ToSet(Append(w, h)) PROVE i = h \/ i \in ToSet(w)
    <3>1. PICK j \in 1..(Len(w) + 1) : i = Append(w, h)[j]
      BY <1>4
    <3>2. j = Len(w) + 1 \/ j \in 1..Len(w)
      BY <1>5
    <3> QED
      BY <1>4, <1>5, <3>1, <3>2
  <2>2. h \in ToSet(Append(w, h))
    <3>1. Len(w) + 1 \in 1..(Len(w) + 1)
      BY <1>5
    <3> QED
      BY <1>4, <1>5, <3>1
  <2>3. ASSUME NEW i \in ToSet(w) PROVE i \in ToSet(Append(w, h))
    <3>1. PICK j \in 1..Len(w) : i = w[j]
      BY <1>4
    <3>2. j \in 1..(Len(w) + 1)
      BY <1>5
    <3> QED
      BY <1>4, <1>5, <3>1, <3>2
  <2> QED
    BY <2>1, <2>2, <2>3
<1> QED
  BY <1>1, <1>2, <1>3, <1>6

LEMMA PrevOnChain ==
    ASSUME NodesTyped, Descends, head # 0
    PROVE  OnChain(head, nodes[head].prev)
<1> SUFFICES ASSUME nodes[head].prev # 0
             PROVE  nodes[head].prev \in ToSet(Ordered(head))
  BY DEF OnChain
<1>0. head \in 1..Len(nodes)
  BY DEF NodesTyped
<1>1. PICK v \in 0..Len(nodes) : v = nodes[head].prev
  BY <1>0, OrderedIs
<1>2. v \in 1..Len(nodes)
  BY <1>1 DEF NodesTyped
<1>3. v \in ToSet(Ordered(v))
  BY <1>2, ChainOf
<1> QED
  BY <1>0, <1>1, <1>3, ChainOf

(* The chain of a head that a commit sets. *)
LEMMA MovedChain ==
    ASSUME NodesTyped, Descends, HeadMoves
    PROVE  /\ \/ head # 0 /\ nodes[head'].prev = nodes[head].prev
              \/ /\ nodes[head'].prev = head
                 /\ head # 0 => OnChain(head, nodes[head].prev)
           /\ \A i \in ToSet(Ordered(head')) : i = head' \/ i \in ToSet(Ordered(head))
<1>1. Len(nodes) \in Nat /\ head \in 0..Len(nodes) /\ head' \in 1..Len(nodes)
  BY DEF NodesTyped, HeadMoves
<1>2. \A i \in ToSet(Ordered(head')) : i = head' \/ i \in ToSet(Ordered(nodes[head'].prev))
  BY <1>1, ChainOf
<1>3. head # 0 => \A i \in ToSet(Ordered(nodes[head].prev)) : i \in ToSet(Ordered(head))
  BY <1>1, ChainOf
<1>4. head # 0 => OnChain(head, nodes[head].prev)
  BY PrevOnChain
<1> QED
  BY <1>2, <1>3, <1>4 DEF HeadMoves
-----------------------------------------------------------------------------
(* What has been shown stays what it is while the runner goes on. *)
LEMMA OldStays ==
    ASSUME TallyInv, PlaceInv, PlaceInv', [Next]_vars
    PROVE  \A h \in 0..Len(nodes) : OldPart(h)' = OldPart(h) /\ (OldOn(h)' <=> OldOn(h))
<1>0. NodesTyped /\ Descends /\ Len(nodes) \in Nat
  BY DEF TallyInv, StepInv, TypeOK, PlaceInv, NodesTyped
<1>1. \A i \in 1..Len(nodes) : nodes'[i] = nodes[i]
  BY Recorded
<1>2. \A h \in 0..Len(nodes) : Ordered(h)' = Ordered(h)
  BY ChainsStay
<1>3. ASSUME NEW h \in 0..Len(nodes)
      PROVE  OldOn(h)' <=> OldOn(h)
  <2>1. \A i \in ToSet(Ordered(h)) : i \in 1..Len(nodes)
    <3>1. \A i \in 1..Len(Ordered(h)) : Ordered(h)[i] \in 1..h
      BY <1>0, OrderedIs
    <3>2. ToSet(Ordered(h)) = {Ordered(h)[i] : i \in 1..Len(Ordered(h))}
      BY <1>0, OrderedOnce
    <3> QED
      BY <1>0, <3>1, <3>2
  <2>2. ToSet(Ordered(h))' = ToSet(Ordered(h))
    BY <1>2 DEF ToSet
  <2> QED
    BY <1>1, <2>1, <2>2 DEF OldOn
<1> QED
  BY <1>3 DEF OldPart

LEMMA RepeatedStays == ASSUME TallyInv, PlaceInv, [Next]_vars, Repeated PROVE Repeated'
<1>1. /\ Len(starts) \in Nat /\ Len(starts') \in Nat /\ Len(starts) <= Len(starts')
      /\ \A i \in 1..Len(starts) : starts'[i] = starts[i]
  BY Recorded
<1>2. PICK s \in 1..Len(starts), t \in 1..Len(starts) :
              s < t /\ starts[t].stepIndex <= starts[s].stepIndex
  BY DEF Repeated
<1>3. s \in 1..Len(starts') /\ t \in 1..Len(starts')
  BY <1>1
<1> QED
  BY <1>1, <1>2, <1>3 DEF Repeated

\* The old step does not come back.
LEMMA OldStaysAway ==
    ASSUME TallyInv, PlaceInv, PlaceInv', SoleInv, [Next]_vars, ~OldOn(head)
    PROVE  ~OldOn(head)'
<1>0. NodesTyped /\ Descends /\ head \in 0..Len(nodes)
  BY DEF TallyInv, StepInv, TypeOK, PlaceInv, NodesTyped
<1>1. CASE UNCHANGED head
  <2>1. PICK h \in 0..Len(nodes) : h = head
    BY <1>0
  <2>2. OldOn(h)' <=> OldOn(h)
    BY OldStays
  <2> QED
    BY <1>1, <2>1, <2>2
<1>2. CASE HeadMoves
  <2>1. PICK h \in 1..Len(nodes) : h = head'
    BY <1>2 DEF HeadMoves
  <2>2. h \in 0..Len(nodes) /\ nodes[h].start # OldStep
    BY <1>2, <2>1 DEF HeadMoves
  <2>3. \A i \in ToSet(Ordered(h)) : i = h \/ i \in ToSet(Ordered(head))
    BY <1>0, <1>2, <2>1, MovedChain
  <2>4. ~OldOn(h)
    BY <2>2, <2>3 DEF OldOn
  <2>5. ~OldOn(h)'
    BY <2>2, <2>4, OldStays
  <2> QED
    BY <2>1, <2>5
<1> QED
  BY <1>1, <1>2, HeadGoesOn

LEMMA StepsWait ==
    ASSUME TallyInv, PlaceInv, PlaceInv', SoleInv, PagerInv, [Next]_vars, UNCHANGED pager
    PROVE  StepsPaged'
<1>0. /\ NodesTyped /\ Descends /\ head \in 0..Len(nodes) /\ Len(nodes) \in Nat
      /\ pager.top \in 0..Len(nodes) /\ StepsPaged
  BY DEF TallyInv, StepInv, TypeOK, PlaceInv, NodesTyped, PagerInv
<1>1. PICK top \in 0..Len(nodes) : top = pager.top
  BY <1>0
<1>2. \A h \in 0..Len(nodes) : Ordered(h)' = Ordered(h)
  BY ChainsStay
<1>3. \A i \in 1..Len(nodes) : nodes'[i] = nodes[i]
  BY Recorded
<1>4. PICK ordered : ordered = Ordered(top) /\ ordered = Ordered(top)'
  BY <1>2
<1>5. ordered = Ordered(pager.top) /\ ordered = Ordered(pager.top)'
  BY <1>1, <1>4
<1>6. ASSUME pager.pc = "steps", ~pager.fork
      PROVE  head' # 0 /\ OnChain(nodes[head].prev, nodes[pager.top].prev)'
  <2>1. head # 0 /\ OnChain(nodes[head].prev, nodes[top].prev) /\ Len(ordered) \in Nat /\ Len(ordered) # 0
    <3>1. ordered \in Seq(Nat)
      BY <1>0, <1>4, OrderedIs
    <3>2. 0 < Len(ordered)
      BY <1>0, <1>1, <1>5, <1>6, <3>1 DEF StepsPaged
    <3> QED
      BY <1>0, <1>1, <1>6, <3>1, <3>2 DEF StepsPaged
  <2>2. top # 0
    <3>1. Ordered(0) = <<>>
      BY <1>0, OrderedIs
    <3>2. ordered # <<>>
      BY <2>1, EmptySeq
    <3> QED
      BY <1>4, <3>1, <3>2
  <2>3. PICK v : v = nodes[top].prev /\ v = nodes'[top].prev
    BY <1>3, <2>2
  <2>4. PICK u \in 0..Len(nodes) : u = nodes[head].prev
    <3>1. head \in 1..Len(nodes)
      BY <1>0, <2>1
    <3> QED
      BY <1>0, <3>1, OrderedIs
  <2>5. OnChain(u, v)
    BY <2>1, <2>3, <2>4
  <2>6. head' # 0 /\ \E w \in 0..Len(nodes) : w = nodes'[head'].prev /\ OnChain(w, v)
    <3>1. CASE UNCHANGED head
      <4>1. head \in 1..Len(nodes)
        BY <1>0, <2>1
      <4> QED
        BY <1>3, <2>1, <2>4, <2>5, <3>1, <4>1
    <3>2. CASE HeadMoves
      <4>1. head' # 0 /\ UNCHANGED nodes
        BY <1>0, <3>2 DEF HeadMoves
      <4>2. CASE nodes[head'].prev = nodes[head].prev
        BY <2>4, <2>5, <4>1, <4>2
      <4>3. CASE nodes[head'].prev = head /\ OnChain(head, nodes[head].prev)
        <5>1. PICK w \in 0..Len(nodes) : w = head
          BY <1>0
        <5>2. OnChain(w, u)
          BY <2>4, <4>3, <5>1
        <5>3. ToSet(Ordered(u)) \subseteq ToSet(Ordered(w))
          BY <1>0, <5>2, OnChainFront
        <5>4. OnChain(w, v)
          BY <2>5, <5>3 DEF OnChain
        <5> QED
          BY <4>1, <4>3, <5>1, <5>4
      <4> QED
        BY <1>0, <2>1, <3>2, <4>2, <4>3, MovedChain
    <3> QED
      BY <3>1, <3>2, HeadGoesOn
  <2>7. PICK w \in 0..Len(nodes) : w = nodes'[head'].prev /\ OnChain(w, v)
    BY <2>6
  <2>8. OnChain(w, v)'
    <3>1. ToSet(Ordered(w))' = ToSet(Ordered(w))
      BY <1>2 DEF ToSet
    <3> QED
      BY <2>7, <3>1 DEF OnChain
  <2> QED
    BY <1>1, <2>3, <2>6, <2>7, <2>8
<1> QED
  BY <1>0, <1>5, <1>6 DEF StepsPaged

LEMMA StepWaits ==
    ASSUME TallyInv, PagerInv, [Next]_vars, UNCHANGED pager
    PROVE  StepPaged'
<1>0. Len(nodes) \in Nat /\ pager.top \in 0..Len(nodes) /\ StepPaged
  BY Recorded DEF PagerInv
<1>1. PICK top \in 0..Len(nodes) : top = pager.top
  BY <1>0
<1>2. ASSUME top # 0 PROVE DetailTurns(top)' = DetailTurns(top)
  <2>1. nodes'[top] = nodes[top]
    BY <1>0, <1>2, Recorded
  <2> QED
    BY <2>1 DEF DetailTurns
<1>3. ASSUME pager.pc = "step" PROVE DetailTurns(pager.top)' = DetailTurns(pager.top)
  BY <1>0, <1>1, <1>2, <1>3 DEF StepPaged
<1> QED
  BY <1>0, <1>3 DEF StepPaged

LEMMA NoneShown == ASSUME NEW turns, Len(turns) \in Nat, pager.shown = <<>> PROVE ShownOf(turns)
<1>1. Len(pager.shown) = 0
  OBVIOUS
<1>2. SubSeq(turns, 1, 0) = <<>>
  BY SubSeqEmpty
<1> QED
  BY <1>1, <1>2 DEF ShownOf

LEMMA TurnsWait ==
    ASSUME TallyInv, TallyInv', PlaceInv, PlaceInv', SoleInv, PagerInv, [Next]_vars, UNCHANGED pager
    PROVE  TurnsPaged'
<1>0. /\ NodesTyped /\ head \in 0..Len(nodes) /\ Len(nodes) \in Nat
      /\ turnHead \in Seq(Turn) /\ turnHead' \in Seq(Turn)
      /\ pager.top \in 0..Len(nodes) /\ TurnsPaged
  BY DEF TallyInv, StepInv, TypeOK, NodesTyped, PagerInv
<1>1. OldPart(pager.top)' = OldPart(pager.top)
  <2>1. PICK top \in 0..Len(nodes) : top = pager.top
    BY <1>0
  <2>2. OldPart(top)' = OldPart(top)
    BY OldStays
  <2> QED
    BY <2>1, <2>2
<1>2. PICK old : old = LoadTurnData(OldTurns) /\ old = LoadTurnData(OldTurns)'
  BY DEF OldTurns, LoadTurnData, Silent, At, Sorted
<1>3. PICK shown : shown = pager.shown
  OBVIOUS
<1> DEFINE Was == \/ pager.shown \in Seq(Turn) /\ Replaced
                  \/ turnHead = <<>> /\ OldOn(head) /\ ShownOf(LoadTurnData(OldTurns))
                  \/ ShownOf(LoadTurnData(turnHead))
<1> DEFINE now == LoadTurnData(turnHead)
           next == LoadTurnData(turnHead)'
<1>12. /\ now \in Seq(Turn) /\ next \in Seq(Turn)
       /\ next = now \/ \E t \in Turn : next = Append(now, t)
  <2>1. next = LoadTurnData(turnHead')
    BY DEF OldTurns, LoadTurnData, Silent, At, Sorted
  <2>2. now \in Seq(Turn) /\ LoadTurnData(turnHead') \in Seq(Turn)
    BY <1>0, LoadIs
  <2>3. CASE UNCHANGED turnHead
    BY <2>1, <2>2, <2>3
  <2>4. ASSUME NEW t \in Turn, turnHead' = Append(turnHead, t)
        PROVE  next = now \/ next = Append(now, t)
    <3>1. LoadTurnData(Append(turnHead, t)) =
             IF t \in Wordless \cup {Silent} THEN LoadTurnData(turnHead)
             ELSE Append(LoadTurnData(turnHead), t)
      BY <1>0, LoadAppend
    <3> QED
      BY <2>1, <2>4, <3>1
  <2> QED
    BY <2>1, <2>2, <2>3, <2>4, TurnsAppended
<1> HIDE DEF now, next
<1>4. /\ old \in Seq(Turn) /\ \A k \in 1..Len(old) : old[k].owner = OldStep
  BY <1>2, OldTurnsShown
<1>5. turnHead' = <<>> => turnHead = <<>>
  <2>1. \A t \in Turn : Append(turnHead, t) # <<>>
    BY <1>0
  <2> QED
    BY <2>1, TurnsAppended
<1>6. ASSUME Replaced PROVE Replaced'
  <2>1. CASE turnHead # <<>>
    BY <1>5, <1>6, <2>1 DEF Replaced
  <2>2. CASE turnHead = <<>>
    <3>1. ~OldOn(head)
      BY <1>6, <2>2 DEF Replaced, OldOn
    <3>2. ~OldOn(head)'
      BY <3>1, OldStaysAway
    <3> QED
      BY <1>6, <3>2 DEF Replaced, OldOn
  <2> QED
    BY <2>1, <2>2
<1>7. ASSUME turnHead = <<>>, OldOn(head), ShownOf(LoadTurnData(OldTurns))
      PROVE  Was'
  <2>1. shown = SubSeq(old, 1, Len(shown)) /\ Len(shown) <= Len(old)
    BY <1>2, <1>3, <1>7 DEF ShownOf
  <2>2. CASE shown = <<>>
    <3>1. Len(shown) = 0 /\ Len(next) \in Nat /\ SubSeq(next, 1, 0) = <<>>
      BY <1>12, <2>2, SubSeqEmpty
    <3> QED
      BY <1>3, <2>2, <3>1 DEF ShownOf, next
  <2>3. CASE shown # <<>>
    <3>1. Len(shown) \in Nat
      BY <1>4, <2>1
    <3>2. shown \in Seq(Turn) /\ \A i \in 1..Len(shown) : shown[i] = old[i]
      <4>0. Len(old) \in Nat /\ Len(shown) <= Len(old)
        BY <1>4, <2>1
      <4>1. PICK n \in 0..Len(old) : n = Len(shown)
        BY <3>1, <4>0
      <4>2. /\ SubSeq(old, 1, n) \in Seq(Turn)
            /\ \A i \in 1..n : SubSeq(old, 1, n)[i] = old[i]
        BY <1>4, FrontOf
      <4> QED
        BY <2>1, <4>1, <4>2
    <3>3. 1 \in DOMAIN shown /\ shown[1].owner = OldStep
      <4>1. DOMAIN shown = 1..Len(shown) /\ Len(shown) # 0
        BY <2>3, <3>2, EmptySeq
      <4>2. 1 \in 1..Len(shown) /\ 1 \in 1..Len(old)
        BY <1>4, <2>1, <3>1, <4>1
      <4> QED
        BY <1>4, <3>2, <4>1, <4>2
    <3>4. CASE turnHead' = <<>> /\ OldOn(head)'
      BY <1>2, <1>3, <2>1, <3>4 DEF ShownOf
    <3>5. CASE turnHead' # <<>> \/ ~OldOn(head)'
      <4>1. Replaced'
        BY <1>3, <3>3, <3>5 DEF Replaced, OldOn
      <4> QED
        BY <1>3, <3>2, <4>1
    <3> QED
      BY <3>4, <3>5
  <2> QED
    BY <2>2, <2>3
<1>8. ASSUME ShownOf(LoadTurnData(turnHead)) PROVE ShownOf(LoadTurnData(turnHead))'
  <2>1. Len(shown) \in 0..Len(now) /\ shown = SubSeq(now, 1, Len(shown))
    <3>1. Len(shown) <= Len(now) /\ shown = SubSeq(now, 1, Len(shown))
      BY <1>3, <1>8 DEF ShownOf, now
    <3> QED
      BY <1>12, <3>1
  <2>2. shown = SubSeq(next, 1, Len(shown)) /\ Len(shown) <= Len(next)
    <3>1. CASE next = now
      BY <2>1, <3>1
    <3>2. ASSUME NEW t \in Turn, next = Append(now, t)
          PROVE  shown = SubSeq(next, 1, Len(shown)) /\ Len(shown) <= Len(next)
      <4>1. SubSeq(Append(now, t), 1, Len(shown)) = SubSeq(now, 1, Len(shown))
        BY <1>12, <2>1, FrontOfAppend
      <4>2. Len(next) = Len(now) + 1 /\ Len(now) \in Nat
        BY <1>12, <3>2
      <4> QED
        BY <2>1, <3>2, <4>1, <4>2
    <3> QED
      BY <1>12, <3>1, <3>2
  <2> QED
    BY <1>3, <2>2 DEF ShownOf, next
<1>9. ASSUME ~Repeated', Repeated PROVE FALSE
  BY <1>9, RepeatedStays
<1>10. ASSUME pager.pc \in {"idle", "forked", "turns"}, ~pager.fork, ~Repeated' PROVE Was'
  <2>1. Was
    BY <1>0, <1>9, <1>10 DEF TurnsPaged
  <2>2. pager.shown \in Seq(Turn) /\ Replaced => Was'
    BY <1>6
  <2>3. ShownOf(LoadTurnData(turnHead)) => Was'
    BY <1>8
  <2> QED
    BY <1>7, <2>1, <2>2, <2>3
<1>11. ShownOf(OldPart(pager.top)) => ShownOf(OldPart(pager.top))'
  BY <1>1 DEF ShownOf
<1> QED
  BY <1>0, <1>9, <1>10, <1>11 DEF TurnsPaged

LEMMA PagerWaits ==
    ASSUME TallyInv, TallyInv', PlaceInv, PlaceInv', SoleInv, PagerInv, [Next]_vars, UNCHANGED pager
    PROVE  PagerInv'
<1>1. pager.top' \in 0..Len(nodes')
  <2>1. Len(nodes) \in Nat /\ Len(nodes') \in Nat /\ Len(nodes) <= Len(nodes')
    BY Recorded
  <2>2. pager.top \in 0..Len(nodes)
    BY DEF PagerInv
  <2> QED
    BY <2>1, <2>2
<1>2. StepPaged' /\ StepsPaged' /\ TurnsPaged'
  BY StepWaits, StepsWait, TurnsWait
<1> QED
  BY <1>1, <1>2 DEF PagerInv
-----------------------------------------------------------------------------
(* What a page shows. *)
LEMMA Watched ==
    ASSUME TallyInv, PlaceInv, Watch
    PROVE  /\ UNCHANGED <<nodes, head, starts, turnHead>>
           /\ \A h \in 0..Len(nodes) : /\ Ordered(h)' = Ordered(h)
                                       /\ OldPart(h)' = OldPart(h) /\ (OldOn(h)' <=> OldOn(h))
<1>1. UNCHANGED vars
  BY DEF Watch, liveVars
<1>2. [Next]_vars
  BY <1>1
<1>3. PlaceInv'
  BY <1>2, PlaceStep DEF TallyInv
<1>4. UNCHANGED <<nodes, head, starts, turnHead>>
  BY <1>1 DEF vars, stored
<1>5. \A h \in 0..Len(nodes) : Ordered(h)' = Ordered(h)
  BY <1>2, <1>3, ChainsStay
<1>6. \A h \in 0..Len(nodes) : OldPart(h)' = OldPart(h) /\ (OldOn(h)' <=> OldOn(h))
  BY <1>2, <1>3, OldStays
<1> QED
  BY <1>4, <1>5, <1>6

LEMMA HeadReadIs ==
    ASSUME TallyInv, PagerInv
    PROVE  HeadRead \in 0..Len(nodes) /\ Len(nodes) \in Nat /\ NodesTyped
BY DEF TallyInv, StepInv, TypeOK, NodesTyped, PagerInv, HeadRead

LEMMA FirstPageShows ==
    ASSUME TallyInv, PlaceInv, PagerInv, NEW quota \in Quotas, FirstPage(quota)
    PROVE  PagerInv'
<1>0. /\ NodesTyped /\ Descends /\ Len(nodes) \in Nat /\ HeadRead \in 0..Len(nodes)
      /\ head \in 0..Len(nodes)
  BY HeadReadIs DEF PlaceInv, NodesTyped
<1>1. PICK h \in 0..Len(nodes) : h = HeadRead
  BY <1>0
<1>2. PICK o : o = Ordered(h)
  OBVIOUS
<1>3. o \in Seq(Nat) /\ Len(o) \in Nat
  BY <1>0, <1>2, OrderedIs
<1>4. PICK selected : selected = SelectByQuota(o, quota, StartLength)
  OBVIOUS
<1>5. PICK k \in 0..Len(o) : /\ selected = SubSeq(o, Len(o) - k + 1, Len(o))
                             /\ Len(o) # 0 => k # 0
  BY <1>3, <1>4, QuotaTakes
<1>6. /\ Len(selected) = k
      /\ Numbered(o, selected) = [i \in 1..k |-> [number |-> Len(o) - k + i,
                                                  step |-> o[Len(o) - k + i]]]
      /\ k # 0 => selected[1] = o[Len(o) - k + 1]
  BY <1>3, <1>5, NumberedIs
<1>7. /\ UNCHANGED <<nodes, head>> /\ Ordered(h)' = o /\ pager.pc \in {"idle", "forked"}
  BY <1>2, Watched DEF FirstPage
<1>8. pager' = [pc |-> IF Len(selected) < Len(o) THEN "steps" ELSE "done",
                fork |-> pager.fork, quota |-> quota,
                before |-> IF selected = <<>> THEN NoStep ELSE selected[1],
                shown |-> Numbered(o, selected), top |-> h, offset |-> 0]
  BY <1>1, <1>2, <1>4 DEF FirstPage, Closed
<1>9. PICK shown : shown = Numbered(o, selected) /\ Len(shown) = k
  BY <1>6
<1>10. /\ pager'.top = h /\ pager'.shown = shown /\ pager'.fork = pager.fork
       /\ pager'.pc \in {"steps", "done"}
       /\ pager'.pc = "steps" => k < Len(o) /\ k # 0 /\ pager'.before = o[Len(o) - k + 1]
       /\ pager'.pc = "done" => k = Len(o)
  <2>1. selected = <<>> => k = 0
    BY <1>6
  <2> QED
    BY <1>3, <1>5, <1>6, <1>8, <1>9, <2>1
<1>11. ASSUME pager'.pc = "steps", ~pager'.fork
       PROVE  head' # 0 /\ OnChain(nodes[head].prev, nodes[pager.top].prev)'
  <2>1. h = head /\ h # 0
    <3>1. ~pager.fork
      BY <1>10, <1>11
    <3>2. h = head
      BY <1>1, <3>1 DEF HeadRead
    <3>3. o # <<>>
      BY <1>3, <1>5, <1>10, <1>11, EmptySeq
    <3>4. h # 0
      BY <1>0, <1>2, <3>3, OrderedIs
    <3> QED
      BY <3>2, <3>4
  <2>2. h \in 1..Len(nodes)
    BY <1>0, <2>1
  <2>3. PICK v \in 0..Len(nodes) : v = nodes[h].prev
    BY <1>0, <2>2, OrderedIs
  <2>4. v # 0 => v \in ToSet(Ordered(v))
    <3>1. v # 0 => /\ Len(Ordered(v)) \in Nat \ {0} /\ Ordered(v)[Len(Ordered(v))] = v
                   /\ ToSet(Ordered(v)) = {Ordered(v)[i] : i \in 1..Len(Ordered(v))}
      BY <1>0, OrderedOnce
    <3>2. v # 0 => Len(Ordered(v)) \in 1..Len(Ordered(v))
      BY <3>1
    <3> QED
      BY <3>1, <3>2
  <2>5. OnChain(v, v)'
    <3>1. Ordered(v)' = Ordered(v)
      BY Watched DEF FirstPage
    <3>2. ToSet(Ordered(v))' = ToSet(Ordered(v))
      BY <3>1 DEF ToSet
    <3> QED
      BY <2>4, <3>2 DEF OnChain
  <2>6. nodes'[head'].prev = v /\ nodes'[pager'.top].prev = v /\ head' # 0
    BY <1>7, <1>10, <2>1, <2>3
  <2> QED
    BY <2>5, <2>6
<1>12. Ordered(pager.top)' = o
  BY <1>7, <1>10
<1>13. StepsPaged'
  BY <1>3, <1>5, <1>6, <1>9, <1>10, <1>11, <1>12 DEF StepsPaged
<1>14. StepPaged' /\ TurnsPaged'
  BY <1>10 DEF StepPaged, TurnsPaged
<1>15. pager.top' \in 0..Len(nodes')
  BY <1>7, <1>10
<1> QED
  BY <1>8, <1>10, <1>13, <1>14, <1>15 DEF PagerInv

(* What sits before a step, from the step alone. *)
LEMMA SliceOn ==
    ASSUME NodesTyped, Descends, NEW h \in 0..Len(nodes), NEW b \in ToSet(Ordered(h))
    PROVE  SliceBefore(Ordered(h), b) = SubSeq(Ordered(b), 1, Len(Ordered(b)) - 1)
<1>1. PICK o : o = Ordered(h)
  OBVIOUS
<1>2. /\ o \in Seq(Nat) /\ \A i \in 1..Len(o) : Ordered(o[i]) = SubSeq(o, 1, i)
  BY <1>1, OrderedIs
<1>3. PICK j \in 1..Len(o) : b = o[j]
  BY <1>1, OrderedOnce
<1>4. SliceBefore(o, b) = SubSeq(o, 1, j - 1)
  BY <1>1, <1>3, SliceIs
<1>5. Ordered(b) = SubSeq(o, 1, j) /\ j \in 0..Len(o) /\ j - 1 \in 0..j
  BY <1>2, <1>3
<1>6. Len(SubSeq(o, 1, j)) = j
  BY <1>2, <1>5, FrontOf
<1>7. SubSeq(SubSeq(o, 1, j), 1, j - 1) = SubSeq(o, 1, j - 1)
  BY <1>2, <1>5, FrontOfFront
<1> QED
  BY <1>1, <1>4, <1>5, <1>6, <1>7

LEMMA NextPageShows ==
    ASSUME TallyInv, PlaceInv, PagerInv, NextPage
    PROVE  PagerInv'
<1>0. /\ NodesTyped /\ Descends /\ Len(nodes) \in Nat /\ HeadRead \in 0..Len(nodes)
      /\ pager.top \in 0..Len(nodes) /\ pager.pc = "steps" /\ StepsPaged
  BY HeadReadIs DEF PlaceInv, PagerInv, NextPage
<1>1. PICK h \in 0..Len(nodes), top \in 0..Len(nodes) : h = HeadRead /\ top = pager.top
  BY <1>0
<1>2. PICK o : o = Ordered(top)
  OBVIOUS
<1>3. o \in Seq(Nat) /\ Len(o) \in Nat /\ \A i \in 1..Len(o) : Ordered(o[i]) = SubSeq(o, 1, i)
  BY <1>0, <1>2, OrderedIs
<1>4. PICK n : /\ n = Len(pager.shown) /\ 0 < n /\ n < Len(o) /\ n \in Nat
               /\ pager.shown = [i \in 1..n |-> [number |-> Len(o) - n + i, step |-> o[Len(o) - n + i]]]
               /\ pager.before = o[Len(o) - n + 1]
  <2>1. PICK n : n = Len(pager.shown)
    OBVIOUS
  <2>2. /\ 0 < n /\ n < Len(o) /\ n <= Len(o)
        /\ pager.shown = [i \in 1..n |-> [number |-> Len(o) - n + i, step |-> o[Len(o) - n + i]]]
        /\ pager.before = o[Len(o) - n + 1]
    BY <1>0, <1>1, <1>2, <2>1 DEF StepsPaged
  <2>3. n \in Nat
    BY <2>1, <2>2
  <2> QED
    BY <2>1, <2>2, <2>3
<1>5. PICK l \in Nat, m \in Nat : l = Len(o) /\ m # 0 /\ l = n + m
  <2>1. Len(o) \in Nat /\ Len(o) - n \in Nat /\ Len(o) - n # 0 /\ Len(o) = n + (Len(o) - n)
    BY <1>3, <1>4
  <2> QED
    BY <2>1
<1>sum. l \in Nat /\ m \in Nat /\ n \in Nat /\ n # 0 /\ m # 0 /\ l = n + m
  BY <1>4, <1>5
<1>rest. /\ pager.shown = [i \in 1..n |-> [number |-> m + i, step |-> o[m + i]]]
      /\ pager.before = o[m + 1]
  <2>1. Len(o) - n + 1 = m + 1 /\ \A i \in 1..n : Len(o) - n + i = m + i
    BY <1>5, <1>sum
  <2> QED
    BY <1>4, <2>1
<1>6. PICK b \in ToSet(Ordered(h)) : b = pager.before
  <2>1. \E i \in DOMAIN Ordered(h) : Ordered(h)[i] = pager.before
    BY <1>1 DEF NextPage
  <2> QED
    BY <2>1 DEF ToSet
<1>7. PICK c : c = SliceBefore(Ordered(h), b)
  OBVIOUS
<1>8. c = SubSeq(o, 1, m) /\ c \in Seq(Nat) /\ Len(c) = m /\ \A i \in 1..m : c[i] = o[i]
  <2>1. m + 1 \in 1..Len(o) /\ m + 1 \in 0..Len(o) /\ m \in 0..Len(o) /\ m \in 0..(m + 1)
    BY <1>5, <1>sum
  <2>2. b = o[m + 1]
    BY <1>6, <1>rest
  <2>3. Ordered(b) = SubSeq(o, 1, m + 1)
    BY <1>3, <2>1, <2>2
  <2>4. Len(SubSeq(o, 1, m + 1)) = m + 1
    BY <1>3, <2>1, FrontOf
  <2>5. c = SubSeq(Ordered(b), 1, Len(Ordered(b)) - 1)
    BY <1>0, <1>7, SliceOn
  <2>6. c = SubSeq(SubSeq(o, 1, m + 1), 1, m)
    <3>1. (m + 1) - 1 = m
      BY <1>sum
    <3> QED
      BY <2>3, <2>4, <2>5, <3>1
  <2>7. c = SubSeq(o, 1, m)
    BY <1>3, <2>1, <2>6, FrontOfFront
  <2>8. /\ SubSeq(o, 1, m) \in Seq(Nat) /\ Len(SubSeq(o, 1, m)) = m
        /\ \A i \in 1..m : SubSeq(o, 1, m)[i] = o[i]
    BY <1>3, <2>1, FrontOf
  <2> QED
    BY <2>7, <2>8
<1>9. PICK selected, quota, start :
          selected = SelectByQuota(c, quota, start) /\ quota = pager.quota /\ start = 0
  OBVIOUS
<1>10. PICK k \in 1..m : selected = SubSeq(c, m - k + 1, m)
  <2>0. c \in Seq(Nat)
    BY <1>8
  <2>4. selected = SelectByQuota(c, quota, start)
    BY <1>9
  <2>1. \E k \in 0..Len(c) : /\ selected = SubSeq(c, Len(c) - k + 1, Len(c))
                             /\ Len(c) # 0 => k # 0
    BY <2>0, <2>4, QuotaTakes
  <2>2. PICK k \in 0..m : selected = SubSeq(c, m - k + 1, m) /\ (m # 0 => k # 0)
    BY <1>8, <2>1
  <2>3. k \in 1..m
    BY <1>5, <2>2
  <2> QED
    BY <2>2, <2>3
<1>11. /\ Len(selected) = k /\ selected[1] = c[m - k + 1]
       /\ Numbered(c, selected) = [i \in 1..k |-> [number |-> m - k + i, step |-> c[m - k + i]]]
  <2>1. k \in 0..Len(c) /\ k # 0 /\ Len(c) = m
    BY <1>8
  <2>2. LET some == SubSeq(c, Len(c) - k + 1, Len(c))
        IN  /\ Len(some) = k
            /\ Numbered(c, some) = [i \in 1..k |-> [number |-> Len(c) - k + i,
                                                    step |-> c[Len(c) - k + i]]]
            /\ k # 0 => some[1] = c[Len(c) - k + 1]
    BY <1>8, <2>1, NumberedIs
  <2> QED
    BY <1>10, <2>1, <2>2
<1>12. /\ UNCHANGED <<nodes, head>> /\ Ordered(top)' = o
       /\ \A v \in 0..Len(nodes) : Ordered(v)' = Ordered(v)
  BY <1>2, Watched DEF NextPage
<1>13. pager' = [pager EXCEPT !.pc = IF Len(selected) < Len(c) THEN "steps" ELSE "done",
                              !.before = selected[1],
                              !.shown = Numbered(c, selected) \o pager.shown]
  BY <1>1, <1>6, <1>7, <1>9 DEF NextPage
<1>14. /\ pager' = [pc |-> pager'.pc, fork |-> pager'.fork, quota |-> pager'.quota,
                    before |-> pager'.before, shown |-> pager'.shown, top |-> pager'.top,
                    offset |-> pager'.offset]
       /\ pager'.top = top /\ pager'.fork = pager.fork
       /\ pager'.shown = Numbered(c, selected) \o pager.shown
       /\ pager'.pc = IF k < m THEN "steps" ELSE "done"
       /\ pager'.before = c[m - k + 1]
  <2>1. PICK was : was = pager
    OBVIOUS
  <2>2. was = [pc |-> was.pc, fork |-> was.fork, quota |-> was.quota, before |-> was.before,
               shown |-> was.shown, top |-> was.top, offset |-> was.offset]
    BY <2>1 DEF PagerInv
  <2>3. pager' = [pc |-> IF Len(selected) < Len(c) THEN "steps" ELSE "done",
                  fork |-> was.fork, quota |-> was.quota, before |-> selected[1],
                  shown |-> Numbered(c, selected) \o was.shown, top |-> was.top,
                  offset |-> was.offset]
    BY <1>13, <2>1, <2>2
  <2> QED
    BY <1>1, <1>8, <1>11, <2>1, <2>3
<1>more. k \in Nat /\ k # 0 /\ k <= m /\ k \in 1..m /\ n + k \in Nat /\ n + k <= l
  BY <1>sum, <1>10
<1>15. pager'.shown = [i \in 1..(n + k) |-> [number |-> l - (n + k) + i, step |-> o[l - (n + k) + i]]]
  <2>1. PICK first : first = Numbered(c, selected)
    OBVIOUS
  <2>2. PICK second : second = pager.shown
    OBVIOUS
  <2>3. first = [i \in 1..k |-> [number |-> m - k + i, step |-> c[m - k + i]]]
    BY <1>11, <2>1
  <2>4. second = [i \in 1..n |-> [number |-> m + i, step |-> o[m + i]]]
    BY <1>rest, <2>2
  <2>5. Len(first) = k /\ Len(second) = n
    BY <1>sum, <1>more, <2>3, <2>4
  <2>6. first \o second = [i \in 1..(k + n) |-> IF i <= k THEN first[i] ELSE second[i - k]]
    <3> DEFINE S == {first[i] : i \in 1..k} \cup {second[i] : i \in 1..n}
    <3>0. /\ first = [i \in 1..k |-> first[i]] /\ \A i \in 1..k : first[i] \in S
          /\ second = [i \in 1..n |-> second[i]] /\ \A i \in 1..n : second[i] \in S
      BY <2>3, <2>4
    <3> HIDE DEF S
    <3>1. first \in Seq(S) /\ second \in Seq(S)
      <4>1. first \in [1..k -> S] /\ second \in [1..n -> S]
        BY <3>0
      <4>2. k \in Nat /\ n \in Nat
        BY <1>sum, <1>more
      <4> QED
        BY <4>1, <4>2
    <3>2. /\ first \o second \in Seq(S) /\ Len(first \o second) = k + n
          /\ \A i \in 1..(k + n) :
                (first \o second)[i] = IF i <= k THEN first[i] ELSE second[i - k]
      BY <2>5, <3>1, ConcatProperties
    <3>3. PICK both \in Seq(S) : both = first \o second
      BY <3>2
    <3>4. both = [i \in 1..Len(both) |-> both[i]]
      OBVIOUS
    <3> QED
      BY <3>2, <3>3, <3>4
  <2>7. \A i \in 1..k : first[i] = [number |-> l - (n + k) + i, step |-> o[l - (n + k) + i]]
    <3>1. \A i \in 1..k : m - k + i \in 1..m /\ m - k + i = l - (n + k) + i
      BY <1>sum, <1>more
    <3>2. \A i \in 1..k : c[m - k + i] = o[m - k + i]
      BY <1>8, <3>1
    <3> QED
      BY <2>3, <3>1, <3>2
  <2>8. \A i \in (k + 1)..(k + n) :
            second[i - k] = [number |-> l - (n + k) + i, step |-> o[l - (n + k) + i]]
    <3>1. \A i \in (k + 1)..(k + n) : i - k \in 1..n /\ m + (i - k) = l - (n + k) + i
      BY <1>sum, <1>more
    <3> QED
      BY <2>4, <3>1
  <2>9. \A i \in 1..(k + n) : IF i <= k THEN i \in 1..k ELSE i \in (k + 1)..(k + n)
    BY <1>sum, <1>more
  <2>10. n + k = k + n
    BY <1>sum, <1>more
  <2>11. first \o second = [i \in 1..(n + k) |-> [number |-> l - (n + k) + i,
                                                  step |-> o[l - (n + k) + i]]]
    BY <2>6, <2>7, <2>8, <2>9, <2>10
  <2> QED
    BY <1>14, <2>1, <2>2, <2>11
<1>16. Len(pager'.shown) = n + k
  BY <1>15, <1>more
<1>17. ~pager.fork => head' # 0 /\ OnChain(nodes[head].prev, nodes[pager.top].prev)'
  <2> SUFFICES ASSUME ~pager.fork
               PROVE  head' # 0 /\ OnChain(nodes[head].prev, nodes[pager.top].prev)'
    OBVIOUS
  <2>1. head # 0 /\ OnChain(nodes[head].prev, nodes[top].prev)
    BY <1>0, <1>1 DEF StepsPaged
  <2>2. head \in 1..Len(nodes)
    BY <1>0, <2>1 DEF NodesTyped
  <2>3. PICK u \in 0..Len(nodes) : u = nodes[head].prev
    BY <1>0, <2>2, OrderedIs
  <2>4. PICK v : v = nodes[top].prev
    OBVIOUS
  <2>5. OnChain(u, v)'
    <3>1. ToSet(Ordered(u))' = ToSet(Ordered(u))
      BY <1>12 DEF ToSet
    <3> QED
      BY <2>1, <2>3, <2>4, <3>1 DEF OnChain
  <2>6. nodes'[head'].prev = u /\ nodes'[pager'.top].prev = v
    BY <1>12, <1>14, <2>3, <2>4
  <2> QED
    BY <1>12, <2>1, <2>5, <2>6
<1>18. Ordered(pager.top)' = o
  BY <1>12, <1>14
<1>19. /\ pager'.pc \in {"steps", "done"}
       /\ pager'.pc = "done" => n + k = l
       /\ pager'.pc = "steps" => /\ 0 < n + k /\ n + k < l
                                 /\ pager'.before = o[l - (n + k) + 1]
  <2>1. (k < m => n + k < l) /\ (~(k < m) => n + k = l) /\ 0 < n + k
    BY <1>sum, <1>more
  <2>2. m - k + 1 \in 1..m /\ m - k + 1 = l - (n + k) + 1
    BY <1>sum, <1>more
  <2>3. c[m - k + 1] = o[l - (n + k) + 1]
    BY <1>8, <2>2
  <2> QED
    BY <1>14, <2>1, <2>3
<1>20. StepsPaged'
  <2>1. Len(o) = l
    BY <1>5
  <2> QED
    BY <1>14, <1>15, <1>16, <1>17, <1>18, <1>19, <1>more, <2>1 DEF StepsPaged
<1>21. StepPaged' /\ TurnsPaged'
  BY <1>19 DEF StepPaged, TurnsPaged
<1>22. pager.top' \in 0..Len(nodes')
  BY <1>12, <1>14
<1> QED
  BY <1>14, <1>19, <1>20, <1>21, <1>22 DEF PagerInv

LEMMA NotFoundShows ==
    ASSUME TallyInv, PlaceInv, PagerInv, StepNotFound
    PROVE  PagerInv'
<1>0. /\ NodesTyped /\ Descends /\ Len(nodes) \in Nat /\ HeadRead \in 0..Len(nodes)
      /\ head \in 0..Len(nodes) /\ pager.top \in 0..Len(nodes) /\ pager.pc = "steps" /\ StepsPaged
  BY HeadReadIs DEF PlaceInv, PagerInv, NodesTyped, StepNotFound
<1>1. PICK top \in 0..Len(nodes) : top = pager.top
  BY <1>0
<1>2. PICK o : o = Ordered(top)
  OBVIOUS
<1>3. o \in Seq(Nat) /\ Len(o) \in Nat /\ ToSet(o) = {o[i] : i \in 1..Len(o)}
  <2>1. Ordered(top) \in Seq(Nat)
    BY <1>0, <1>1, OrderedIs
  <2>2. ToSet(o) = {o[i] : i \in 1..Len(o)}
    BY <1>0, <1>1, <1>2, OrderedOnce
  <2> QED
    BY <1>2, <2>1, <2>2
<1>4. PICK j \in 1..Len(o) : pager.before = o[j]
  <2>1. PICK n : n = Len(pager.shown)
    OBVIOUS
  <2>2. 0 < n /\ n < Len(o) /\ pager.before = o[Len(o) - n + 1]
    BY <1>0, <1>1, <1>2, <2>1 DEF StepsPaged
  <2>3. n \in Nat
    BY <1>0, <2>1 DEF StepsPaged
  <2>4. Len(o) - n + 1 \in 1..Len(o)
    BY <1>3, <2>2, <2>3
  <2> QED
    BY <2>2, <2>4
<1>5. pager.before \notin ToSet(Ordered(HeadRead))
  BY DEF StepNotFound
<1>6. ~pager.fork
  <2>1. o[j] \in ToSet(o)
    BY <1>3, <1>4
  <2>2. pager.fork => HeadRead = top
    BY <1>1 DEF HeadRead
  <2> QED
    BY <1>2, <1>4, <1>5, <2>1, <2>2
<1>7. pager.before = top
  <2> SUFFICES ASSUME pager.before # top PROVE FALSE
    OBVIOUS
  <2>1. head # 0 /\ OnChain(nodes[head].prev, nodes[top].prev)
    BY <1>0, <1>1, <1>6 DEF StepsPaged
  <2>2. head \in 1..Len(nodes) /\ top \in 1..Len(nodes)
    <3>1. top # 0
      <4>1. o # <<>>
        BY <1>3, <1>4, EmptySeq
      <4> QED
        BY <1>0, <1>2, <4>1, OrderedIs
    <3> QED
      BY <1>0, <2>1, <3>1
  <2>3. PICK u \in 0..Len(nodes), v \in 0..Len(nodes) : u = nodes[head].prev /\ v = nodes[top].prev
    BY <1>0, <2>2, OrderedIs
  <2>4. o = Append(Ordered(v), top) /\ Ordered(v) \in Seq(Nat)
    <3>1. o = Append(Ordered(nodes[top].prev), top)
      BY <1>0, <1>2, <2>2, OrderedIs
    <3>2. Ordered(v) \in Seq(Nat)
      BY <1>0, OrderedIs
    <3> QED
      BY <2>3, <3>1, <3>2
  <2>5. o[j] \in ToSet(Ordered(v))
    <3>1. PICK w \in Seq(Nat) : w = Ordered(v)
      BY <2>4
    <3>2. o = Append(w, top) /\ w \in Seq(Nat)
      BY <2>4, <3>1
    <3>3. Len(o) = Len(w) + 1 /\ o[Len(w) + 1] = top /\ \A i \in 1..Len(w) : o[i] = w[i]
      BY <3>2
    <3>4. j \in 1..Len(w)
      BY <1>4, <3>2, <3>3
    <3>5. w[j] \in ToSet(w)
      BY <3>2, <3>4 DEF ToSet
    <3> QED
      BY <3>1, <3>3, <3>4, <3>5
  <2>6. ToSet(Ordered(v)) \subseteq ToSet(Ordered(u))
    <3>1. OnChain(u, v)
      BY <2>1, <2>3
    <3> QED
      BY <1>0, <3>1, OnChainFront
  <2>7. ToSet(Ordered(u)) \subseteq ToSet(Ordered(head))
    <3>1. OnChain(head, nodes[head].prev)
      BY <1>0, <2>1, PrevOnChain
    <3>2. PICK h \in 0..Len(nodes) : h = head
      BY <1>0
    <3>3. OnChain(h, u)
      BY <2>3, <3>1, <3>2
    <3> QED
      BY <1>0, <3>2, <3>3, OnChainFront
  <2>8. HeadRead = head
    BY <1>6 DEF HeadRead
  <2> QED
    BY <1>4, <1>5, <2>5, <2>6, <2>7, <2>8
<1>8. /\ UNCHANGED <<nodes, head>> /\ Ordered(top)' = o
  BY <1>2, Watched DEF StepNotFound
<1>9. pager' = [pc |-> "failed", fork |-> pager.fork, quota |-> pager.quota,
                before |-> pager.before, shown |-> pager.shown, top |-> pager.top,
                offset |-> pager.offset]
  <2>1. PICK was : was = pager
    OBVIOUS
  <2>2. was = [pc |-> was.pc, fork |-> was.fork, quota |-> was.quota, before |-> was.before,
               shown |-> was.shown, top |-> was.top, offset |-> was.offset]
    BY <2>1 DEF PagerInv
  <2>3. pager' = [was EXCEPT !.pc = "failed"]
    BY <2>1 DEF StepNotFound
  <2> QED
    BY <2>1, <2>2, <2>3
<1>10. Ordered(pager.top)' = o
  BY <1>1, <1>8, <1>9
<1>11. StepsPaged'
  <2>1. PICK shown, n : shown = pager.shown /\ n = Len(shown)
    OBVIOUS
  <2>2. /\ n <= Len(o)
        /\ shown = [i \in 1..n |-> [number |-> Len(o) - n + i, step |-> o[Len(o) - n + i]]]
    BY <1>0, <1>1, <1>2, <2>1 DEF StepsPaged
  <2>3. /\ pager'.pc = "failed" /\ pager'.shown = shown /\ pager'.before = pager'.top
        /\ ~pager'.fork
    BY <1>1, <1>6, <1>7, <1>9, <2>1
  <2> QED
    BY <1>10, <2>1, <2>2, <2>3 DEF StepsPaged
<1>12. StepPaged' /\ TurnsPaged'
  BY <1>9 DEF StepPaged, TurnsPaged
<1> QED
  BY <1>0, <1>8, <1>9, <1>11, <1>12 DEF PagerInv

LEMMA StepShows ==
    ASSUME TallyInv, PlaceInv, PagerInv, NEW n \in DOMAIN nodes, NEW quota \in Quotas,
           ReadStep(n, quota)
    PROVE  PagerInv'
<1>1. n \in 1..Len(nodes) /\ Len(nodes) \in Nat /\ quota \in Nat
  BY HeadReadIs, PagesAssumption DEF NodesTyped
<1>2. UNCHANGED nodes
  BY Watched DEF ReadStep
<1>3. pager' = [pc |-> "step", fork |-> FALSE, quota |-> quota, before |-> NoStep,
                shown |-> SelectTurnsForQuota(LoadTurnData(DetailTurns(n)), quota),
                top |-> n, offset |-> 0]
  BY DEF ReadStep, Closed
<1>4. PICK turns : turns = LoadTurnData(DetailTurns(n)) /\ turns = LoadTurnData(DetailTurns(n))'
  BY <1>2 DEF DetailTurns
<1>5. LoadTurnData(DetailTurns(pager.top))' = turns
  BY <1>3, <1>4
<1>6. StepPaged'
  <2>1. SelectTurnsForQuota(turns, quota) = pager'.shown
    BY <1>3, <1>4
  <2> QED
    BY <1>1, <1>3, <1>5, <2>1 DEF StepPaged
<1>7. StepsPaged' /\ TurnsPaged'
  BY <1>3 DEF StepsPaged, TurnsPaged
<1>8. pager.top' \in 0..Len(nodes')
  BY <1>1, <1>2, <1>3
<1> QED
  BY <1>3, <1>6, <1>7, <1>8 DEF PagerInv

LEMMA ForkShows ==
    ASSUME TallyInv, PlaceInv, PagerInv, NEW n \in 0..Len(nodes), Fork(n)
    PROVE  PagerInv'
<1>0. NodesTyped /\ Descends
  BY DEF TallyInv, StepInv, TypeOK, PlaceInv
<1>1. UNCHANGED nodes /\ OldPart(n)' = OldPart(n)
  BY Watched DEF Fork
<1>2. pager' = [pc |-> "forked", fork |-> TRUE, quota |-> 0, before |-> NoStep,
                shown |-> <<>>, top |-> n, offset |-> 0]
  BY DEF Fork, Closed
<1>3. ShownOf(OldPart(pager.top))'
  <2>1. PICK turns : turns = OldPart(n)
    OBVIOUS
  <2>2. Len(turns) \in Nat
    BY <2>1, OldTurnsShown, EmptySeq DEF OldPart
  <2>3. OldPart(pager.top)' = turns
    BY <1>1, <1>2, <2>1
  <2>4. Len(pager'.shown) = 0 /\ pager'.shown = SubSeq(turns, 1, 0)
    BY <1>2, SubSeqEmpty
  <2> QED
    BY <2>2, <2>3, <2>4 DEF ShownOf
<1>4. StepPaged' /\ StepsPaged'
  BY <1>2 DEF StepPaged, StepsPaged
<1>5. TurnsPaged'
  BY <1>2, <1>3 DEF TurnsPaged
<1> QED
  BY <1>1, <1>2, <1>4, <1>5 DEF PagerInv

\* The page of the turns comes right after what has been shown.
PageAfter(groups, all, shown, n, page) ==
    /\ all \in Seq(Turn) /\ Flat(groups) = all
    /\ n = Len(shown) /\ n <= Len(all) /\ shown = SubSeq(all, 1, n)
    /\ page = PaginatePanorama(groups, n, PageTurns)

Joined(all, n, page, both) ==
    /\ Len(both) = n + Len(page) /\ Len(both) <= Len(all)
    /\ both = SubSeq(all, 1, Len(both))
    /\ all = <<>> => page = <<>>

LEMMA PageJoins ==
    ASSUME NEW groups, NEW all, NEW shown, NEW n, NEW page, PageAfter(groups, all, shown, n, page)
    PROVE  Joined(all, n, page, shown \o page)
<1> USE DEF PageAfter
<1>0. PageTurns \in Nat /\ Len(all) \in Nat /\ \A i \in 1..Len(all) : all[i] \in Turn
  BY PagesAssumption
<1>1. n \in Nat
  OBVIOUS
<1>2. PICK m : m = IF n + PageTurns < Len(all) THEN n + PageTurns ELSE Len(all)
  OBVIOUS
<1>3. m \in n..Len(all) /\ n \in 0..Len(all) /\ m \in 0..Len(all)
  BY <1>0, <1>1, <1>2
<1>4. page = SubSeq(all, n + 1, m)
  BY <1>2 DEF PaginatePanorama
<1>6. shown \o page = SubSeq(all, 1, m)
  <2>1. 1 \in 1..(Len(all) + 1) /\ n \in (1 - 1)..Len(all)
    BY <1>0, <1>3
  <2>2. SubSeq(all, 1, n) \o SubSeq(all, n + 1, m) = SubSeq(all, 1, m)
    BY <1>3, <2>1, ConcatAdjacentSubSeq
  <2> QED
    BY <1>4, <2>2
<1>7. Len(shown \o page) = m
  BY <1>3, <1>6, FrontOf
<1>8. page \in Seq(Turn) /\ Len(page) = m - n
  <2>1. n + 1 \in Int /\ m \in Int /\ \A i \in (n + 1)..m : all[i] \in Turn
    BY <1>0, <1>1, <1>3
  <2>2. page \in Seq(Turn) /\ Len(page) = IF n + 1 <= m THEN m - (n + 1) + 1 ELSE 0
    BY <1>4, <2>1, SubSeqProperties
  <2>3. Len(page) = IF n + 1 <= m THEN m - (n + 1) + 1 ELSE 0
    BY <2>2
  <2>4. n \in Nat /\ m \in Nat /\ n <= m
    BY <1>0, <1>1, <1>3
  <2>5. PICK l, k \in Nat : l = Len(page) /\ k = n
    BY <1>1, <2>2
  <2>6. l = IF k + 1 <= m THEN m - (k + 1) + 1 ELSE 0
    BY <2>3, <2>5
  <2>7. k \in Nat /\ m \in Nat /\ k <= m
    BY <2>4, <2>5
  <2>8. l = m - k
    BY <2>6, <2>7
  <2> QED
    BY <2>2, <2>5, <2>8
<1>9. ASSUME all = <<>> PROVE page = <<>>
  <2>1. Len(all) = 0
    BY <1>9
  <2>2. Len(page) = 0
    BY <1>3, <1>8, <2>1
  <2> QED
    BY <1>8, <2>2, EmptySeq
<1>10. m = n + (m - n) /\ m <= Len(all)
  BY <1>1, <1>3
<1> QED
  BY <1>6, <1>7, <1>8, <1>9, <1>10 DEF Joined

\* What the panorama shows, as a whole.
LEMMA AllTurns ==
    ASSUME TallyInv, PlaceInv, SoleInv, PagerInv
    PROVE  /\ pager.fork => Flat(PanoramaRead) = OldPart(pager.top)
           /\ ~pager.fork /\ turnHead = <<>> => Flat(PanoramaRead) = OldPart(head)
           /\ ~pager.fork /\ turnHead # <<>> /\ ~Repeated
                  => Flat(PanoramaRead) = LoadTurnData(turnHead)
           /\ OldPart(pager.top) \in Seq(Turn) /\ OldPart(head) \in Seq(Turn)
           /\ LoadTurnData(turnHead) \in Seq(Turn) /\ LoadTurnData(<<>>) = <<>>
<1>0. /\ NodesTyped /\ StartsTyped /\ OwnersBegun /\ Indexed /\ Descends
      /\ OldIsFirst /\ TurnsSorted
      /\ head \in 0..Len(nodes) /\ turnHead \in Seq(Turn) /\ pager.top \in 0..Len(nodes)
  BY DEF TallyInv, StepInv, TypeOK, NodesTyped, PlaceInv, SoleInv, PagerInv
<1>1. \A h \in 0..Len(nodes) : Flat(PanoramaLegacy(h)) = OldPart(h) /\ OldPart(h) \in Seq(Turn)
  BY <1>0, LegacyFlat
<1>2. turnHead = <<>> => Panorama = PanoramaLegacy(head)
  BY DEF Panorama
<1>3. turnHead # <<>> /\ ~Repeated => Flat(Panorama) = LoadTurnData(turnHead)
  BY <1>0, PanoramaFlat
<1>4. /\ pager.fork => PanoramaRead = PanoramaLegacy(pager.top)
      /\ ~pager.fork => PanoramaRead = Panorama
  BY DEF PanoramaRead
<1>5. LoadTurnData(turnHead) \in Seq(Turn)
  BY <1>0, LoadIs
<1> QED
  BY <1>0, <1>1, <1>2, <1>3, <1>4, <1>5, LoadNone

LEMMA TurnsPageShows ==
    ASSUME TallyInv, PlaceInv, SoleInv, PagerInv, PageOfTurns
    PROVE  PagerInv'
<1>0. /\ head \in 0..Len(nodes) /\ pager.top \in 0..Len(nodes)
      /\ pager.pc \in {"idle", "forked", "turns"} /\ TurnsPaged
  BY DEF TallyInv, StepInv, TypeOK, NodesTyped, PagerInv, PageOfTurns
<1>1. PICK page : page = PaginatePanorama(PanoramaRead, pager.offset, PageTurns) /\ page # <<>>
  BY DEF PageOfTurns
<1>2. PICK was : was = pager
  OBVIOUS
<1>3. pager' = [pc |-> "turns", fork |-> was.fork, quota |-> was.quota, before |-> was.before,
                shown |-> was.shown \o page, top |-> was.top, offset |-> was.offset + Len(page)]
  <2>1. was = [pc |-> was.pc, fork |-> was.fork, quota |-> was.quota, before |-> was.before,
               shown |-> was.shown, top |-> was.top, offset |-> was.offset]
    BY <1>2 DEF PagerInv
  <2>2. pager' = [was EXCEPT !.pc = "turns", !.offset = @ + Len(page), !.shown = @ \o page]
    BY <1>1, <1>2 DEF PageOfTurns
  <2> QED
    BY <2>1, <2>2
<1>4. /\ UNCHANGED <<nodes, head, starts, turnHead>>
      /\ OldPart(pager.top)' = OldPart(pager.top) /\ (OldOn(head)' <=> OldOn(head))
  <2>1. PICK top \in 0..Len(nodes), h \in 0..Len(nodes) : top = pager.top /\ h = head
    BY <1>0
  <2>2. /\ UNCHANGED <<nodes, head, starts, turnHead>>
        /\ OldPart(top)' = OldPart(top) /\ (OldOn(h)' <=> OldOn(h))
    BY Watched DEF PageOfTurns
  <2>3. pager'.top = top /\ head' = h
    BY <1>2, <1>3, <2>1, <2>2
  <2> QED
    BY <2>1, <2>2, <2>3
<1>5. PICK shown, both : shown = pager.shown /\ both = shown \o page /\ both = pager'.shown
  BY <1>2, <1>3
<1>6. pager'.pc = "turns" /\ pager'.fork = pager.fork /\ pager'.offset = pager.offset + Len(page)
  BY <1>2, <1>3
<1>7. ASSUME NEW all \in Seq(Turn), Flat(PanoramaRead) = all, ShownOf(all),
             pager.offset = Len(pager.shown)
      PROVE  /\ Len(both) = pager'.offset /\ Len(both) <= Len(all) /\ both = SubSeq(all, 1, Len(both))
             /\ all # <<>>
  <2>1. PICK n, groups : n = Len(shown) /\ groups = PanoramaRead
    OBVIOUS
  <2>2. n <= Len(all) /\ shown = SubSeq(all, 1, n) /\ n = pager.offset
    BY <1>5, <1>7, <2>1 DEF ShownOf
  <2>3. page = PaginatePanorama(groups, n, PageTurns)
    BY <1>1, <2>1, <2>2
  <2>4. /\ Len(both) = n + Len(page) /\ Len(both) <= Len(all)
        /\ both = SubSeq(all, 1, Len(both)) /\ (all = <<>> => page = <<>>)
    <3>1. n = Len(shown) /\ n <= Len(all) /\ shown = SubSeq(all, 1, n) /\ Flat(groups) = all
      BY <1>7, <2>1, <2>2
    <3>2. all \in Seq(Turn)
      BY <1>7
    <3>3. both = shown \o page
      BY <1>5
    <3>4. PageAfter(groups, all, shown, n, page)
      BY <2>3, <3>1, <3>2 DEF PageAfter
    <3>5. Joined(all, n, page, both)
      BY <3>3, <3>4, PageJoins
    <3> QED
      BY <3>5 DEF Joined
  <2> QED
    BY <1>1, <1>6, <2>2, <2>4
<1>8. ASSUME pager.fork PROVE TurnsPaged'
  <2>1. PICK all \in Seq(Turn) : all = OldPart(pager.top)
    BY AllTurns
  <2>2. Flat(PanoramaRead) = all /\ ShownOf(all) /\ pager.offset = Len(pager.shown)
    BY <1>0, <1>8, <2>1, AllTurns DEF TurnsPaged
  <2>3. Len(both) = pager'.offset /\ Len(both) <= Len(all) /\ both = SubSeq(all, 1, Len(both))
    BY <1>7, <2>2
  <2>4. OldPart(pager.top)' = all
    BY <1>4, <2>1
  <2>5. ShownOf(OldPart(pager.top))'
    BY <1>5, <2>3, <2>4 DEF ShownOf
  <2> QED
    BY <1>5, <1>6, <1>8, <2>3, <2>5 DEF TurnsPaged
<1> DEFINE Part == \/ pager.shown \in Seq(Turn) /\ Replaced
                   \/ turnHead = <<>> /\ OldOn(head) /\ ShownOf(LoadTurnData(OldTurns))
                   \/ ShownOf(LoadTurnData(turnHead))
<1>9. ASSUME ~pager.fork, ~Repeated PROVE pager'.offset = Len(pager'.shown) /\ Part'
  <2>0. Part /\ pager.offset = Len(pager.shown)
    BY <1>0, <1>9 DEF TurnsPaged
  <2>1. PICK old : old = LoadTurnData(OldTurns) /\ old = LoadTurnData(OldTurns)'
    BY DEF OldTurns, LoadTurnData, Silent, At, Sorted
  <2>2. CASE turnHead # <<>> /\ ShownOf(LoadTurnData(turnHead))
    <3>1. PICK all \in Seq(Turn) : all = LoadTurnData(turnHead)
      BY AllTurns
    <3>2. Flat(PanoramaRead) = all /\ ShownOf(all)
      BY <1>9, <2>2, <3>1, AllTurns
    <3>3. Len(both) = pager'.offset /\ Len(both) <= Len(all) /\ both = SubSeq(all, 1, Len(both))
      BY <1>7, <2>0, <3>2
    <3>4. LoadTurnData(turnHead)' = all
      <4>1. LoadTurnData(turnHead)' = LoadTurnData(turnHead')
        BY DEF OldTurns, LoadTurnData, Silent, At, Sorted
      <4> QED
        BY <1>4, <3>1, <4>1
    <3>5. ShownOf(LoadTurnData(turnHead))'
      BY <1>5, <3>3, <3>4 DEF ShownOf
    <3> QED
      BY <1>5, <3>3, <3>5
  <2>3. CASE turnHead = <<>> /\ ShownOf(OldPart(head))
    <3>1. PICK all \in Seq(Turn) : all = OldPart(head)
      BY AllTurns
    <3>2. Flat(PanoramaRead) = all /\ ShownOf(all)
      BY <1>9, <2>3, <3>1, AllTurns
    <3>3. /\ Len(both) = pager'.offset /\ Len(both) <= Len(all) /\ both = SubSeq(all, 1, Len(both))
          /\ all # <<>>
      BY <1>7, <2>0, <3>2
    <3>4. OldOn(head) /\ all = old
      BY <2>1, <3>1, <3>3 DEF OldPart
    <3>5. ShownOf(LoadTurnData(OldTurns))'
      BY <1>5, <2>1, <3>3, <3>4 DEF ShownOf
    <3>6. turnHead' = <<>> /\ OldOn(head)'
      BY <1>4, <2>3, <3>4
    <3> QED
      BY <1>5, <3>3, <3>5, <3>6
  <2>4. ASSUME turnHead = <<>>, ShownOf(LoadTurnData(turnHead)) PROVE ShownOf(OldPart(head))
    <3>1. PICK n : n = Len(shown)
      OBVIOUS
    <3>2. n <= 0 /\ shown = SubSeq(<<>>, 1, n)
      BY <1>5, <2>4, <3>1, AllTurns DEF ShownOf
    <3>3. n \in Nat
      BY <3>1, <3>2
    <3>4. n = 0
      BY <3>2, <3>3
    <3>5. SubSeq(<<>>, 1, 0) = <<>>
      BY SubSeqEmpty
    <3>6. pager.shown = <<>>
      BY <1>5, <3>2, <3>4, <3>5
    <3>7. Len(OldPart(head)) \in Nat
      BY AllTurns
    <3> QED
      BY <3>6, <3>7, NoneShown
  <2>5. ASSUME OldOn(head), ShownOf(LoadTurnData(OldTurns)) PROVE ShownOf(OldPart(head))
    BY <2>5 DEF OldPart
  <2>6. CASE pager.shown \in Seq(Turn) /\ Replaced
    <3>1. PICK all \in Seq(Turn) : all = Flat(PanoramaRead)
      BY <1>9, AllTurns
    <3>2. PICK n \in Nat : n = Len(shown) /\ shown \in Seq(Turn)
      BY <1>5, <2>6
    <3>3. page \in Seq(Turn)
      <4>1. PICK m : m = IF n + PageTurns < Len(all) THEN n + PageTurns ELSE Len(all)
        OBVIOUS
      <4>2. PageTurns \in Nat /\ Len(all) \in Nat /\ \A i \in 1..Len(all) : all[i] \in Turn
        BY PagesAssumption
      <4>3. page = SubSeq(all, n + 1, m)
        BY <1>1, <1>5, <2>0, <3>1, <3>2, <4>1 DEF PaginatePanorama
      <4>4. n + 1 \in Int /\ m \in Int /\ m <= Len(all)
        BY <3>2, <4>1, <4>2
      <4>5. \A i \in (n + 1)..m : all[i] \in Turn
        BY <3>2, <4>2, <4>4
      <4> QED
        BY <4>3, <4>4, <4>5, SubSeqProperties
    <3>4. /\ both \in Seq(Turn) /\ Len(both) = n + Len(page)
          /\ \A i \in 1..n : both[i] = shown[i]
      <4>1. /\ shown \o page \in Seq(Turn) /\ Len(shown \o page) = Len(shown) + Len(page)
            /\ \A i \in 1..(Len(shown) + Len(page)) :
                  (shown \o page)[i] = IF i <= Len(shown) THEN shown[i] ELSE page[i - Len(shown)]
        BY <3>2, <3>3, ConcatProperties
      <4>2. Len(page) \in Nat
        BY <3>3
      <4>3. \A i \in 1..n : i \in 1..(n + Len(page)) /\ i <= n
        BY <3>2, <4>2
      <4> QED
        BY <1>5, <3>2, <4>1, <4>3
    <3>5. PICK i \in 1..n : shown[i].owner = OldStep
      <4>1. DOMAIN shown = 1..n
        BY <3>2
      <4> QED
        BY <1>5, <2>6, <4>1 DEF Replaced
    <3>6. i \in DOMAIN both /\ both[i].owner = OldStep
      <4>1. Len(page) \in Nat /\ DOMAIN both = 1..Len(both)
        BY <3>3, <3>4
      <4>2. i \in 1..Len(both)
        BY <3>2, <3>4, <4>1
      <4> QED
        BY <3>4, <3>5, <4>1, <4>2
    <3>7. turnHead' # <<>> \/ ~OldOn(head)'
      BY <1>4, <2>6 DEF Replaced, OldOn
    <3>8. Replaced'
      BY <1>5, <3>6, <3>7 DEF Replaced, OldOn
    <3> QED
      BY <1>5, <1>6, <2>0, <3>2, <3>4, <3>8
  <2> QED
    BY <2>0, <2>2, <2>3, <2>4, <2>5, <2>6
<1>10. ASSUME ~pager.fork PROVE TurnsPaged'
  <2>1. ~pager'.fork /\ (Repeated' <=> Repeated)
    <3>1. Repeated' <=> Repeated
      BY <1>4 DEF Repeated
    <3> QED
      BY <1>6, <1>10, <3>1
  <2>2. CASE Repeated
    BY <1>6, <2>1, <2>2 DEF TurnsPaged
  <2>3. CASE ~Repeated
    BY <1>6, <1>9, <1>10, <2>1, <2>3 DEF TurnsPaged
  <2> QED
    BY <2>2, <2>3
<1>11. StepPaged' /\ StepsPaged'
  BY <1>6 DEF StepPaged, StepsPaged
<1>12. pager.top' \in 0..Len(nodes')
  BY <1>0, <1>2, <1>3, <1>4
<1>13. pager' = [pc |-> pager'.pc, fork |-> pager'.fork, quota |-> pager'.quota,
                 before |-> pager'.before, shown |-> pager'.shown, top |-> pager'.top,
                 offset |-> pager'.offset]
  BY <1>3
<1> QED
  BY <1>6, <1>8, <1>10, <1>11, <1>12, <1>13 DEF PagerInv

\* The end of a sequence is a suffix of it.
LEMMA EndIsSuffix ==
    ASSUME NEW S, NEW seq \in Seq(S), NEW k \in 0..Len(seq)
    PROVE  LET some == SubSeq(seq, Len(seq) - k + 1, Len(seq))
           IN  Len(some) = k /\ IsSuffix(some, seq)
<1> DEFINE m == Len(seq)
           some == SubSeq(seq, m - k + 1, m)
<1>1. m \in Nat /\ k \in Nat /\ k <= m /\ m - k + 1 \in Int /\ \A i \in (m - k + 1)..m : seq[i] \in S
  OBVIOUS
<1>2. /\ some \in Seq(S) /\ Len(some) = IF m - k + 1 <= m THEN m - (m - k + 1) + 1 ELSE 0
      /\ \A i \in 1..(m - (m - k + 1) + 1) : some[i] = seq[(m - k + 1) + i - 1]
  BY <1>1, SubSeqProperties
<1> HIDE DEF some
<1>3. Len(some) = k /\ \A i \in 1..k : some[i] = seq[m - k + i]
  <2>1. Len(some) = k
    BY <1>1, <1>2
  <2>2. \A i \in 1..k : i \in 1..(m - (m - k + 1) + 1) /\ (m - k + 1) + i - 1 = m - k + i
    BY <1>1
  <2> QED
    BY <1>2, <2>1, <2>2
<1>4. PICK a \in Seq(S) : a = Reverse(some) /\ Len(a) = k /\ \A i \in 1..k : a[i] = seq[m - i + 1]
  <2>1. Reverse(some) = [i \in 1..k |-> some[(k - i) + 1]]
    BY <1>3 DEF Reverse
  <2>2. \A i \in 1..k : (k - i) + 1 \in 1..k /\ m - k + ((k - i) + 1) = m - i + 1
    BY <1>1
  <2>3. \A i \in 1..k : some[(k - i) + 1] = seq[m - i + 1] /\ some[(k - i) + 1] \in S
    BY <1>2, <1>3, <2>2
  <2>4. PICK a \in [1..k -> S] : a = Reverse(some) /\ \A i \in 1..k : a[i] = seq[m - i + 1]
    BY <2>1, <2>3
  <2>5. a \in Seq(S) /\ Len(a) = k
    BY <1>1, <2>4
  <2> QED
    BY <2>4, <2>5
<1>5. PICK b \in Seq(S) : b = Reverse(seq) /\ Len(b) = m /\ \A i \in 1..m : b[i] = seq[m - i + 1]
  <2>1. Reverse(seq) = [i \in 1..m |-> seq[(m - i) + 1]]
    BY DEF Reverse
  <2>2. \A i \in 1..m : (m - i) + 1 \in 1..m /\ (m - i) + 1 = m - i + 1
    BY <1>1
  <2>3. \A i \in 1..m : seq[(m - i) + 1] = seq[m - i + 1] /\ seq[(m - i) + 1] \in S
    BY <2>2
  <2>4. PICK b \in [1..m -> S] : b = Reverse(seq) /\ \A i \in 1..m : b[i] = seq[m - i + 1]
    BY <2>1, <2>3
  <2>5. b \in Seq(S) /\ Len(b) = m
    BY <1>1, <2>4
  <2> QED
    BY <2>4, <2>5
<1>6. k \in 0..Len(a) /\ k \in 0..Len(b)
  BY <1>1, <1>4, <1>5
<1>7. /\ SubSeq(a, 1, k) \in Seq(S) /\ Len(SubSeq(a, 1, k)) = k
      /\ \A i \in 1..k : SubSeq(a, 1, k)[i] = a[i]
  BY <1>6, FrontOf
<1>8. /\ SubSeq(b, 1, k) \in Seq(S) /\ Len(SubSeq(b, 1, k)) = k
      /\ \A i \in 1..k : SubSeq(b, 1, k)[i] = b[i]
  BY <1>6, FrontOf
<1>9. \A i \in 1..k : SubSeq(a, 1, k)[i] = SubSeq(b, 1, k)[i]
  <2>1. \A i \in 1..k : i \in 1..m
    BY <1>1
  <2> QED
    BY <1>4, <1>5, <1>7, <1>8, <2>1
<1>10. SubSeq(a, 1, k) = SubSeq(b, 1, k)
  BY <1>7, <1>8, <1>9, SeqEqual
<1>11. IsPrefix(a, b)
  BY <1>1, <1>4, <1>5, <1>10 DEF IsPrefix
<1>12. IsSuffix(some, seq)
  BY <1>4, <1>5, <1>11 DEF IsSuffix
<1> QED
  BY <1>3, <1>12 DEF some

\* What a quota leaves out of a step's turns had no room in it.
LEMMA QuotaIsUsed ==
    ASSUME NEW all \in Seq(Turn), NEW quota \in Nat
    PROVE  LET some == SelectTurnsForQuota(all, quota)
           IN  /\ IsSuffix(some, all)
               /\ Len(some) < Len(all) =>
                      HeaderLength + (Len(some) + 1) * (TurnLength + TurnSeparator)
                          - TurnSeparator > quota
<1> DEFINE Takes(k) == HeaderLength + k * TurnLength + (k - 1) * TurnSeparator
<1>1. PICK m \in Nat : m = Len(all)
  OBVIOUS
<1>2. PICK fits : fits = {k \in 1..m : k = 1 \/ Takes(k) <= quota}
  OBVIOUS
<1>3. PICK k : k = IF fits = {} THEN 0 ELSE Max(fits)
  OBVIOUS
<1>4. SelectTurnsForQuota(all, quota) = SubSeq(all, m - k + 1, m)
  BY <1>1, <1>2, <1>3 DEF SelectTurnsForQuota, Newest
<1>5. k \in 0..m /\ (m # 0 => k # 0) /\ (k # m => k + 1 \notin fits)
  <2>1. fits \in SUBSET (1..m) /\ (m # 0 => 1 \in fits)
    BY <1>2
  <2>2. LET j == IF fits = {} THEN 0 ELSE Max(fits)
        IN  j \in 0..m /\ (m # 0 => j # 0) /\ (j # m => j + 1 \notin fits)
    BY <2>1, MostThatFit
  <2> QED
    BY <1>3, <2>2
<1>6. PICK some : some = SelectTurnsForQuota(all, quota) /\ Len(some) = k /\ IsSuffix(some, all)
  BY <1>1, <1>4, <1>5, EndIsSuffix
<1>7. ASSUME k < m
      PROVE  HeaderLength + (k + 1) * (TurnLength + TurnSeparator) - TurnSeparator > quota
  <2>1. PICK h \in Nat, t \in Nat, s \in Nat : h = HeaderLength /\ t = TurnLength /\ s = TurnSeparator
    BY PagesAssumption
  <2>2. k \in Nat /\ k + 1 \in 1..m /\ k # m
    BY <1>5, <1>7
  <2>3. ~(Takes(k + 1) <= quota)
    BY <1>2, <1>5, <2>2
  <2>4. h + (k + 1) * t + k * s > quota
    <3>1. Takes(k + 1) = h + (k + 1) * t + k * s
      BY <2>1, <2>2
    <3>2. PICK x \in Nat : x = h + (k + 1) * t + k * s
      BY <2>1, <2>2
    <3> QED
      BY <2>3, <3>1, <3>2
  <2>5. h + (k + 1) * (t + s) - s = h + (k + 1) * t + k * s
    BY <2>1, <2>2
  <2> QED
    BY <2>1, <2>4, <2>5
<1> QED
  BY <1>1, <1>6, <1>7

LEMMA PagerBegins == ReadInit => SoleInv /\ PagerInv
<1> SUFFICES ASSUME ReadInit PROVE SoleInv /\ PagerInv
  OBVIOUS
<1>1. LiveInit /\ pager = Closed
  BY DEF ReadInit
<1>2. pager.pc = "idle" /\ pager.top = 0 /\ pager.shown = <<>> /\ pager.offset = 0 /\ ~pager.fork
  BY <1>1 DEF Closed, NoStep
<1>3. Len(nodes) \in Nat /\ turnHead \in Seq(Turn)
  BY <1>1, LiveInitInv DEF TallyInv, StepInv, TypeOK, NodesTyped
<1>4. ShownOf(LoadTurnData(turnHead))
  <2>1. Len(LoadTurnData(turnHead)) \in Nat
    BY <1>3, LoadIs
  <2> QED
    BY <1>2, <2>1, NoneShown
<1>5. pager.offset = Len(pager.shown)
  <2>1. Len(<<>>) = 0
    OBVIOUS
  <2> QED
    BY <1>2, <2>1
<1>6. TurnsPaged
  BY <1>2, <1>4, <1>5 DEF TurnsPaged
<1>7. StepPaged /\ StepsPaged
  BY <1>2 DEF StepPaged, StepsPaged
<1>8. pager = [pc |-> pager.pc, fork |-> pager.fork, quota |-> pager.quota, before |-> pager.before,
               shown |-> pager.shown, top |-> pager.top, offset |-> pager.offset]
  BY <1>1 DEF Closed
<1>9. pager.top \in 0..Len(nodes)
  BY <1>2, <1>3
<1> QED
  BY <1>1, <1>2, <1>6, <1>7, <1>8, <1>9, SoleBegins DEF PagerInv

LEMMA PagerStep ==
    ASSUME OneRunner, TallyInv, PlaceInv, SoleInv, PagerInv, [ReadNext]_readVars
    PROVE  TallyInv' /\ PlaceInv' /\ SoleInv' /\ PagerInv'
<1>1. [Next]_vars
  BY ReadersOnlyRead
<1>2. TallyInv' /\ PlaceInv' /\ SoleInv'
  BY <1>1, TallyStep, PlaceStep, SoleStep DEF TallyInv
<1>3. CASE UNCHANGED pager
  BY <1>1, <1>2, <1>3, PagerWaits
<1>4. ASSUME NEW quota \in Quotas, FirstPage(quota) PROVE PagerInv'
  BY <1>4, FirstPageShows
<1>5. ASSUME NEW n \in DOMAIN nodes, NEW quota \in Quotas, ReadStep(n, quota) PROVE PagerInv'
  BY <1>5, StepShows
<1>6. ASSUME NEW n \in 0..Len(nodes), Fork(n) PROVE PagerInv'
  BY <1>6, ForkShows
<1>7. NextPage \/ StepNotFound \/ PageOfTurns => PagerInv'
  BY NextPageShows, NotFoundShows, TurnsPageShows
<1>8. \/ UNCHANGED pager
      \/ \E quota \in Quotas : FirstPage(quota)
      \/ \E n \in DOMAIN nodes, quota \in Quotas : ReadStep(n, quota)
      \/ \E n \in 0..Len(nodes) : Fork(n)
      \/ NextPage \/ StepNotFound \/ PageOfTurns
  <2>1. UNCHANGED readVars => UNCHANGED pager
    BY DEF readVars
  <2> QED
    BY <2>1 DEF ReadNext
<1> QED
  BY <1>2, <1>3, <1>4, <1>5, <1>6, <1>7, <1>8

LEMMA PagerTiles ==
    ASSUME TallyInv, PlaceInv, SoleInv, PagerInv
    PROVE  PagesTile
<1>0. TurnsPaged /\ StepsPaged /\ StepPaged
  BY DEF PagerInv
<1>1. ASSUME pager.pc = "turns", ~Repeated, ~Replaced
      PROVE  ShownOf(Flat(PanoramaRead))
  <2>1. CASE pager.fork
    BY <1>0, <1>1, <2>1, AllTurns DEF TurnsPaged
  <2>2. CASE ~pager.fork /\ turnHead # <<>>
    <3>1. ShownOf(LoadTurnData(turnHead))
      BY <1>0, <1>1, <2>2 DEF TurnsPaged
    <3> QED
      BY <1>1, <2>2, <3>1, AllTurns
  <2>3. CASE ~pager.fork /\ turnHead = <<>>
    <3>1. ASSUME OldOn(head), ShownOf(LoadTurnData(OldTurns)) PROVE ShownOf(OldPart(head))
      BY <3>1 DEF OldPart
    <3>2. ASSUME ShownOf(LoadTurnData(turnHead)) PROVE ShownOf(OldPart(head))
      <4>1. PICK shown, n : shown = pager.shown /\ n = Len(shown)
        OBVIOUS
      <4>2. n <= 0 /\ shown = SubSeq(<<>>, 1, n)
        BY <2>3, <3>2, <4>1, AllTurns DEF ShownOf
      <4>3. n \in Nat
        BY <4>1, <4>2
      <4>4. n = 0
        BY <4>2, <4>3
      <4>5. SubSeq(<<>>, 1, 0) = <<>>
        BY SubSeqEmpty
      <4>6. pager.shown = <<>>
        BY <4>1, <4>2, <4>4, <4>5
      <4>7. Len(OldPart(head)) \in Nat
        BY AllTurns
      <4> QED
        BY <4>6, <4>7, NoneShown
    <3>3. ShownOf(OldPart(head))
      BY <1>0, <1>1, <2>3, <3>1, <3>2 DEF TurnsPaged
    <3> QED
      BY <2>3, <3>3, AllTurns
  <2> QED
    BY <2>1, <2>2, <2>3
<1>2. (pager.pc = "turns" /\ ~Repeated /\ ~Replaced) =>
          pager.shown = SubSeq(Flat(PanoramaRead), 1, Len(pager.shown))
  BY <1>1 DEF ShownOf
<1>3. ASSUME pager.pc = "step"
      PROVE  LET all == LoadTurnData(DetailTurns(pager.top))
             IN  /\ IsSuffix(pager.shown, all)
                 /\ Len(pager.shown) < Len(all) =>
                        HeaderLength + (Len(pager.shown) + 1) * (TurnLength + TurnSeparator)
                            - TurnSeparator > pager.quota
  <2>1. PICK quota \in Nat : quota = pager.quota
    BY <1>0, <1>3 DEF StepPaged
  <2>2. PICK all \in Seq(Turn) : all = LoadTurnData(DetailTurns(pager.top))
    <3>1. LoadTurnData(<<>>) \in Seq(Turn)
      <4>1. <<>> \in Seq(Turn)
        OBVIOUS
      <4> QED
        BY <4>1, OldTurnsShown, Zenon
    <3> QED
      BY <3>1, OldTurnsShown DEF DetailTurns
  <2>3. pager.shown = SelectTurnsForQuota(all, quota)
    BY <1>0, <1>3, <2>1, <2>2 DEF StepPaged
  <2> QED
    BY <2>1, <2>2, <2>3, QuotaIsUsed
<1> QED
  BY <1>0, <1>2, <1>3 DEF PagesTile, StepsPaged

(* For any commands of the one process that runs the thread, of a pager and *)
(* of a follower, and any quotas and page lengths: the pages of the steps   *)
(* put together show every step once, under its number, and fail only when  *)
(* a poke took the cursor's step away; the pages of the turns are the       *)
(* panorama's beginning, and a step's the end of its turns.                 *)
THEOREM PagesAreWhole == OneRunner => (ReadSpec => []PagesTile)
<1> SUFFICES ASSUME OneRunner PROVE ReadSpec => []PagesTile
  OBVIOUS
<1> DEFINE Inv == TallyInv /\ PlaceInv /\ SoleInv /\ PagerInv
<1>1. ReadInit => Inv
  BY LiveInitInv, PagerBegins DEF ReadInit
<1>2. Inv /\ [ReadNext]_readVars => Inv'
  BY PagerStep
<1>3. Inv => PagesTile
  BY PagerTiles
<1> HIDE DEF Inv
<1> QED
  BY <1>1, <1>2, <1>3, PTL DEF ReadSpec
=============================================================================
