------------------------ MODULE WorkflowEditorProofs ------------------------
(***************************************************************************)
(* However transactions nest, merge and are ended by frames and drags, and *)
(* however long the session is: with no transaction open, undoing          *)
(* everything leads back to the workflow that was opened, and redoing      *)
(* everything to the one the last transaction left (HistoryIsWhole), as    *)
(* long as no undo or redo came in the middle of a transaction.            *)
(*                                                                         *)
(* The argument: the two stacks belong to the stores as they were when the *)
(* open transaction began, which is what the backup holds.  Since then, a  *)
(* store that holds the same object holds the same contents, so the step   *)
(* that the end of the transaction pushes, which has only the stores with  *)
(* another object, leads back to all of the backup.                        *)
(*                                                                         *)
(* And whatever was drawn, undone and deleted: a workflow that is saved    *)
(* and opened again shows what it showed when it was saved, if a file can  *)
(* hold it (SavedIsShown).                                                 *)
(*                                                                         *)
(* The argument: no edge of a session ever leads to start, so that in a    *)
(* drawing validate accepts the walk of traverse, which takes one target   *)
(* from its list in each round and puts there those of a node it meets     *)
(* for the first time, has met every node that is reached from start when  *)
(* it has made as many rounds as there are edges: the file has all roles.  *)
(* Opened again, each role has a node of its own, each transition its edge.*)
(***************************************************************************)
EXTENDS WorkflowEditor, FiniteSetTheorems, WellFoundedInduction, TLAPS

Stores == {"nodes", "edges"}

\* A snapshot of some of the stores, no object of which is yet to be made.
Snapshot(x, revs) ==
    /\ DOMAIN x \subseteq Stores
    /\ x = [s \in DOMAIN x |-> [rev |-> x[s].rev, is |-> x[s].is]]
    /\ \A s \in DOMAIN x : x[s].rev \in Nat /\ x[s].rev <= revs

Whole(st, revs) == Snapshot(st, revs) /\ DOMAIN st = Stores

Stack(stack, revs) ==
    /\ \E S : stack \in Seq(S)
    /\ \A i \in DOMAIN stack : Snapshot(stack[i], revs)

\* The same contents, whatever the objects.
Alike(st, other) == \A s \in Stores : st[s].is = other[s].is

\* A store with the object of the snapshot has its contents.
Kept(before, now) == \A s \in Stores : now[s].rev = before[s].rev => now[s].is = before[s].is

\* The stores that the stacks lead away from.
Ground == IF transaction = 0 THEN store ELSE backup

HistoryTyped ==
    /\ transaction \in Nat /\ made \in Nat
    /\ Whole(store, made) /\ Whole(Ground, made)
    /\ Stack(ustack, made) /\ Stack(rstack, made)

LeadsTo(st, stack, shown) == Shown(Drawing(Unwound(st, stack))) = shown

HistoryInv ==
    /\ HistoryTyped
    /\ Kept(Ground, store)
    /\ LeadsTo(Ground, ustack, opened)
    /\ LeadsTo(Ground, rstack, latest)

Inv == ~mixed => HistoryInv

-----------------------------------------------------------------------------
(* Every set of natural numbers has a least one. *)
LEMMA LeastOne ==
    ASSUME NEW S, S \subseteq Nat, S # {}
    PROVE  Min(S) \in S /\ \A n \in S : Min(S) <= n
<1> DEFINE R == OpToRel(<, Nat)
<1>1. PICK m \in S : \A k \in S : <<k, m>> \notin R
  <2>1. IsWellFoundedOn(R, Nat)
    BY NatLessThanWellFounded
  <2> HIDE DEF R
  <2> QED
    BY <2>1, WFMin
<1>2. \A k \in S : ~(k < m)
  BY <1>1 DEF OpToRel
<1>3. ASSUME NEW k \in S PROVE m <= k
  <2>1. k \in Nat /\ m \in Nat
    BY <1>1
  <2> QED
    BY <1>2, <2>1
<1> HIDE DEF R
<1> QED
  BY <1>1, <1>3 DEF Min

LEMMA LeastIs ==
    ASSUME NEW S, S \subseteq Nat, NEW m \in S, \A n \in S : m <= n
    PROVE  Min(S) = m
<1>1. Min(S) \in S /\ Min(S) <= m /\ m <= Min(S)
  BY LeastOne
<1>2. Min(S) \in Nat /\ m \in Nat
  BY <1>1
<1> QED
  BY <1>1, <1>2

(* A stack is unwound from its top: one step, and then the rest. *)
LEMMA UnwindOne ==
    ASSUME NEW S, NEW stack \in Seq(S), NEW step, NEW st
    PROVE  Unwound(st, Append(stack, step)) = Unwound(Restored(step, st), stack)
<1> DEFINE longer == Append(stack, step)
           below(s) == {i \in DOMAIN stack : s \in DOMAIN stack[i]}
           all(s) == {i \in DOMAIN longer : s \in DOMAIN longer[i]}
           now == Restored(step, st)
<1>1. /\ Len(stack) \in Nat /\ DOMAIN stack = 1..Len(stack) /\ DOMAIN longer = 1..(Len(stack) + 1)
      /\ longer[Len(stack) + 1] = step
      /\ \A i \in 1..Len(stack) : longer[i] = stack[i]
  <2>1. longer \in Seq(S \cup {step}) /\ Len(longer) = Len(stack) + 1
    BY Z3
  <2> QED
    BY <2>1
<1> HIDE DEF longer
<1>2. ASSUME NEW s \in DOMAIN st
      PROVE  (IF all(s) = {} THEN st[s] ELSE longer[Min(all(s))][s])
              = (IF below(s) = {} THEN now[s] ELSE stack[Min(below(s))][s])
  <2>1. below(s) \subseteq Nat /\ all(s) \subseteq Nat
    BY <1>1
  <2>2. now[s] = IF s \in DOMAIN step THEN step[s] ELSE st[s]
    BY DEF Restored
  <2>3. CASE below(s) # {}
    <3>1. /\ Min(below(s)) \in below(s) /\ Min(below(s)) \in 1..Len(stack)
          /\ \A n \in below(s) : Min(below(s)) <= n
      BY <1>1, <2>1, <2>3, LeastOne
    <3>2. Min(below(s)) \in all(s) /\ \A n \in all(s) : Min(below(s)) <= n
      <4>1. below(s) = {i \in 1..Len(stack) : s \in DOMAIN longer[i]}
        BY <1>1
      <4>2. below(s) \subseteq all(s) /\ all(s) \subseteq below(s) \cup {Len(stack) + 1}
        BY <1>1, <4>1
      <4> HIDE DEF below, all
      <4> QED
        BY <1>1, <3>1, <4>2
    <3>3. Min(all(s)) = Min(below(s))
      BY <2>1, <3>2, LeastIs
    <3> HIDE DEF below, all
    <3> QED
      BY <1>1, <2>3, <3>1, <3>2, <3>3
  <2>4. CASE below(s) = {} /\ s \in DOMAIN step
    <3>1. all(s) = {Len(stack) + 1}
      BY <1>1, <2>4
    <3>2. Min(all(s)) = Len(stack) + 1
      <4> HIDE DEF all
      <4> QED
        BY <1>1, <2>1, <3>1, LeastIs
    <3> HIDE DEF below, all
    <3> QED
      BY <1>1, <2>2, <2>4, <3>1, <3>2
  <2>5. CASE below(s) = {} /\ s \notin DOMAIN step
    <3>1. all(s) = {}
      BY <1>1, <2>5
    <3> HIDE DEF below, all
    <3> QED
      BY <2>2, <2>5, <3>1
  <2> QED
    BY <2>3, <2>4, <2>5
<1>3. DOMAIN now = DOMAIN st
  BY DEF Restored
<1>4. Unwound(st, longer) = [s \in DOMAIN st |-> IF all(s) = {} THEN st[s] ELSE longer[Min(all(s))][s]]
  BY DEF Unwound
<1>5. Unwound(now, stack) = [s \in DOMAIN st |-> IF below(s) = {} THEN now[s] ELSE stack[Min(below(s))][s]]
  BY <1>3 DEF Unwound
<1> HIDE DEF now, below, all
<1>6. Unwound(st, longer) = Unwound(now, stack)
  BY <1>2, <1>4, <1>5
<1> QED
  BY <1>6 DEF longer, now

LEMMA UnwindNone ==
    ASSUME NEW st, NEW revs, Whole(st, revs)
    PROVE  Unwound(st, <<>>) = st
BY DEF Unwound, Whole, Snapshot

(* What is unwound from like contents shows the same. *)
LEMMA AlikeShowAlike ==
    ASSUME NEW st, NEW other, NEW stack, NEW revs, NEW more,
           Whole(st, revs), Whole(other, more), Alike(st, other)
    PROVE  Drawing(Unwound(st, stack)) = Drawing(Unwound(other, stack))
<1>1. \A s \in Stores : Unwound(st, stack)[s].is = Unwound(other, stack)[s].is
  BY DEF Unwound, Whole, Alike
<1> QED
  BY <1>1 DEF Drawing, Stores

-----------------------------------------------------------------------------
(* Snapshots and stacks. *)
LEMMA SeqEqual ==
    ASSUME NEW S, NEW s \in Seq(S), NEW t \in Seq(S), Len(s) = Len(t), \A i \in 1..Len(t) : s[i] = t[i]
    PROVE  s = t
OBVIOUS

LEMMA SnapshotGrows ==
    ASSUME NEW revs \in Nat, NEW more \in Nat, revs <= more
    PROVE  /\ \A x : Snapshot(x, revs) => Snapshot(x, more)
           /\ \A x : Whole(x, revs) => Whole(x, more)
           /\ \A stack : Stack(stack, revs) => Stack(stack, more)
<1>1. \A x : Snapshot(x, revs) => Snapshot(x, more)
  BY DEF Snapshot
<1> QED
  BY <1>1 DEF Whole, Stack

LEMMA RestrictIsSnapshot ==
    ASSUME NEW x, NEW revs, Snapshot(x, revs), NEW S, S \subseteq DOMAIN x
    PROVE  /\ Snapshot(Restrict(x, S), revs)
           /\ DOMAIN Restrict(x, S) = S
           /\ \A s \in S : Restrict(x, S)[s] = x[s]
<1>1. Restrict(x, S) = [s \in S |-> x[s]]
  BY DEF Restrict
<1>2. /\ DOMAIN Restrict(x, S) = S
      /\ \A s \in S : Restrict(x, S)[s] = x[s]
  BY <1>1
<1>3. \A s \in S : x[s] = [rev |-> x[s].rev, is |-> x[s].is] /\ x[s].rev \in Nat /\ x[s].rev <= revs
  BY DEF Snapshot
<1> QED
  BY <1>1, <1>2, <1>3 DEF Snapshot

LEMMA RestoredIsWhole ==
    ASSUME NEW st, NEW x, NEW revs, Whole(st, revs), Snapshot(x, revs)
    PROVE  Whole(Restored(x, st), revs)
<1> DEFINE now == Restored(x, st)
<1>1. DOMAIN now = Stores /\ \A s \in Stores : now[s] = IF s \in DOMAIN x THEN x[s] ELSE st[s]
  BY DEF Restored, Whole
<1>2. now = [s \in Stores |-> now[s]]
  BY DEF Restored, Whole
<1> HIDE DEF now
<1>3. \A s \in Stores : now[s] = [rev |-> now[s].rev, is |-> now[s].is] /\ now[s].rev \in Nat /\ now[s].rev <= revs
  BY <1>1 DEF Whole, Snapshot
<1>4. Whole(now, revs)
  BY <1>1, <1>2, <1>3 DEF Whole, Snapshot
<1> QED
  BY <1>4 DEF now

LEMMA StackGrows ==
    ASSUME NEW stack, NEW revs, Stack(stack, revs), NEW x, Snapshot(x, revs)
    PROVE  Stack(Append(stack, x), revs)
<1>1. PICK S : stack \in Seq(S)
  BY DEF Stack
<1> DEFINE longer == Append(stack, x)
<1>2. longer \in Seq(S \cup {x}) /\ Len(longer) = Len(stack) + 1 /\ Len(stack) \in Nat
  BY <1>1
<1>3. \A i \in DOMAIN longer : longer[i] = x \/ (i \in DOMAIN stack /\ longer[i] = stack[i])
  BY <1>1, <1>2
<1>4. \A i \in DOMAIN longer : Snapshot(longer[i], revs)
  BY <1>3 DEF Stack
<1> HIDE DEF longer
<1>5. Stack(longer, revs)
  BY <1>2, <1>4 DEF Stack
<1> QED
  BY <1>5 DEF longer

LEMMA StackTop ==
    ASSUME NEW stack, NEW revs, Stack(stack, revs), stack # <<>>
    PROVE  /\ Snapshot(Last(stack), revs)
           /\ Stack(Front(stack), revs)
           /\ stack = Append(Front(stack), Last(stack))
<1>1. PICK S : stack \in Seq(S)
  BY DEF Stack
<1>2. Len(stack) \in Nat /\ Len(stack) > 0 /\ DOMAIN stack = 1..Len(stack)
  BY <1>1
<1>3. Last(stack) = stack[Len(stack)] /\ Last(stack) \in S
  BY <1>1, <1>2 DEF Last
<1>4. /\ Front(stack) \in Seq(S) /\ Len(Front(stack)) = Len(stack) - 1
      /\ \A i \in 1..Len(stack) - 1 : Front(stack)[i] = stack[i]
  BY <1>1, <1>2 DEF Front
<1>5. Stack(Front(stack), revs)
  BY <1>1, <1>2, <1>4 DEF Stack
<1>6. stack = Append(Front(stack), Last(stack))
  <2> DEFINE front == Front(stack)
             top == Last(stack)
  <2>1. front \in Seq(S) /\ top \in S /\ Len(front) = Len(stack) - 1 /\ top = stack[Len(stack)]
        /\ \A i \in 1..Len(stack) - 1 : front[i] = stack[i]
    BY <1>3, <1>4
  <2> HIDE DEF front, top
  <2> DEFINE again == Append(front, top)
  <2>2. /\ again \in Seq(S) /\ Len(again) = Len(front) + 1 /\ again[Len(front) + 1] = top
        /\ \A i \in 1..Len(front) : again[i] = front[i]
    BY <2>1
  <2> HIDE DEF again
  <2>3. Len(again) = Len(stack) /\ \A i \in 1..Len(stack) : again[i] = stack[i]
    <3>1. Len(again) = Len(stack)
      BY <1>2, <2>1, <2>2
    <3>2. ASSUME NEW i \in 1..Len(stack) PROVE again[i] = stack[i]
      <4>1. CASE i = Len(stack)
        BY <1>2, <2>1, <2>2, <4>1
      <4>2. CASE i # Len(stack)
        <5>1. Len(stack) \in Nat /\ Len(front) = Len(stack) - 1
          BY <1>2, <2>1
        <5>2. i \in 1..Len(stack) - 1
          BY <4>2, <5>1
        <5>3. i \in 1..Len(front)
          BY <5>1, <5>2
        <5> QED
          BY <2>1, <2>2, <5>2, <5>3
      <4> QED
        BY <4>1, <4>2
    <3> QED
      BY <3>1, <3>2
  <2>4. again = stack
    BY <1>1, <2>2, <2>3, SeqEqual
  <2> QED
    BY <2>4 DEF front, top, again
<1>7. Snapshot(Last(stack), revs)
  BY <1>2, <1>3 DEF Stack
<1> QED
  BY <1>5, <1>6, <1>7

-----------------------------------------------------------------------------
(* The end of a transaction. *)
LEMMA PushKeeps ==
    ASSUME NEW before, NEW now, NEW revs,
           Whole(before, revs), Whole(now, revs), Kept(before, now),
           Stack(ustack, revs), Stack(rstack, revs),
           LeadsTo(before, ustack, opened), LeadsTo(before, rstack, latest),
           Push(before, now)
    PROVE  /\ Stack(ustack', revs) /\ Stack(rstack', revs)
           /\ LeadsTo(now, ustack', opened) /\ LeadsTo(now, rstack', latest')
<1> DEFINE changed == {s \in DOMAIN now : now[s].rev # before[s].rev}
           step == Restrict(before, changed)
<1>1. DOMAIN now = Stores /\ DOMAIN before = Stores /\ changed \subseteq DOMAIN before
  BY DEF Whole
<1>2. CASE changed = {}
  <2>1. UNCHANGED <<ustack, rstack, latest>>
    BY <1>2 DEF Push, history
  <2>2. Alike(before, now)
    BY <1>1, <1>2 DEF Kept, Alike
  <2> QED
    BY <2>1, <2>2, AlikeShowAlike DEF LeadsTo
<1>3. CASE changed # {}
  <2>1. ustack' = Append(ustack, step) /\ rstack' = <<>> /\ latest' = Shown(Drawing(now))
    BY <1>3 DEF Push
  <2>2. Snapshot(step, revs) /\ DOMAIN step = changed /\ \A s \in changed : step[s] = before[s]
    BY <1>1, RestrictIsSnapshot DEF Whole
  <2> DEFINE back == Restored(step, now)
  <2>3. Whole(back, revs)
    BY <2>2, RestoredIsWhole
  <2>4. Alike(back, before)
    <3>1. ASSUME NEW s \in Stores PROVE back[s].is = before[s].is
      <4>1. back[s] = IF s \in changed THEN before[s] ELSE now[s]
        BY <1>1, <2>2 DEF Restored
      <4> QED
        BY <1>1, <4>1 DEF Kept
    <3> QED
      BY <3>1 DEF Alike
  <2> HIDE DEF step, back
  <2>5. Stack(ustack', revs)
    BY <2>1, <2>2, StackGrows
  <2>6. LeadsTo(now, ustack', opened)
    <3>1. PICK S : ustack \in Seq(S)
      BY DEF Stack
    <3>2. Unwound(now, ustack') = Unwound(back, ustack)
      BY <2>1, <3>1, UnwindOne DEF back
    <3>3. Drawing(Unwound(back, ustack)) = Drawing(Unwound(before, ustack))
      BY <2>3, <2>4, AlikeShowAlike
    <3> QED
      BY <3>2, <3>3 DEF LeadsTo
  <2>7. Stack(rstack', revs)
    <3>1. rstack' \in Seq({}) /\ DOMAIN rstack' = {}
      BY <2>1
    <3> QED
      BY <3>1 DEF Stack
  <2>8. LeadsTo(now, rstack', latest')
    BY <2>1, UnwindNone DEF LeadsTo
  <2> QED
    BY <2>5, <2>6, <2>7, <2>8
<1> HIDE DEF changed
<1> QED
  BY <1>2, <1>3

(* What a step of undo or redo moves to the other stack is the way back.   *)
LEMMA TravelKeeps ==
    ASSUME NEW from, NEW to, NEW revs, NEW shown, NEW other,
           Whole(store, revs), Stack(from, revs), Stack(to, revs), from # <<>>,
           LeadsTo(store, from, shown), LeadsTo(store, to, other)
    PROVE  LET now == Restored(Last(from), store)
               longer == Append(to, Restrict(store, DOMAIN Last(from)))
           IN  /\ Whole(now, revs) /\ Stack(Front(from), revs) /\ Stack(longer, revs)
               /\ LeadsTo(now, Front(from), shown) /\ LeadsTo(now, longer, other)
<1> DEFINE x == Last(from)
           now == Restored(x, store)
           back == Restrict(store, DOMAIN x)
<1>1. Snapshot(x, revs) /\ Stack(Front(from), revs) /\ from = Append(Front(from), x)
  BY StackTop
<1>2. DOMAIN x \subseteq Stores /\ DOMAIN store = Stores /\ Snapshot(store, revs)
  BY <1>1 DEF Snapshot, Whole
<1>3. Whole(now, revs)
  BY <1>1, RestoredIsWhole
<1>4. Snapshot(back, revs) /\ DOMAIN back = DOMAIN x /\ \A s \in DOMAIN x : back[s] = store[s]
  BY <1>2, RestrictIsSnapshot
<1>5. Restored(back, now) = store
  <2>1. DOMAIN now = Stores /\ \A s \in Stores : s \notin DOMAIN x => now[s] = store[s]
    BY <1>2 DEF Restored
  <2>2. store = [s \in Stores |-> store[s]]
    BY <1>2 DEF Snapshot
  <2> HIDE DEF now, back, x
  <2>3. Restored(back, now) = [s \in Stores |-> IF s \in DOMAIN x THEN back[s] ELSE now[s]]
    BY <1>4, <2>1 DEF Restored
  <2> QED
    BY <1>4, <2>1, <2>2, <2>3
<1> HIDE DEF x
<1>6. LeadsTo(now, Front(from), shown)
  <2>1. PICK S : Front(from) \in Seq(S)
    BY <1>1 DEF Stack
  <2>2. Unwound(store, from) = Unwound(now, Front(from))
    BY <1>1, <2>1, UnwindOne
  <2> QED
    BY <2>2 DEF LeadsTo
<1>7. LeadsTo(now, Append(to, back), other)
  <2>1. PICK S : to \in Seq(S)
    BY DEF Stack
  <2> HIDE DEF now, back
  <2>2. Unwound(now, Append(to, back)) = Unwound(store, to)
    BY <1>5, <2>1, UnwindOne
  <2> QED
    BY <2>2 DEF LeadsTo
<1>8. Stack(Append(to, back), revs)
  BY <1>4, StackGrows
<1> QED
  BY <1>1, <1>3, <1>6, <1>7, <1>8 DEF x

-----------------------------------------------------------------------------
(* What the handlers do to the stores. *)

\* Each store is as it was, or holds a new object.
Renewed(now) ==
    /\ Whole(now, made + 1)
    /\ \A s \in Stores : now[s] = store[s] \/ now[s].rev = made + 1

LEMMA RenewedIsKept ==
    ASSUME HistoryInv, NEW now, Renewed(now)
    PROVE  Kept(Ground, now) /\ Kept(store, now)
<1>1. \A s \in Stores : Ground[s].rev \in Nat /\ Ground[s].rev <= made /\ made \in Nat
                        /\ store[s].rev \in Nat /\ store[s].rev <= made
  BY DEF HistoryInv, HistoryTyped, Whole, Snapshot
<1>2. \A s \in Stores : Ground[s].rev # made + 1 /\ store[s].rev # made + 1
  BY <1>1
<1> QED
  BY <1>2 DEF HistoryInv, Kept, Renewed

LEMMA SetsRenew ==
    ASSUME HistoryInv, NEW names, NEW edges
    PROVE  /\ Renewed(store)
           /\ Renewed(SetNodes(store, names))
           /\ Renewed(SetEdges(store, edges))
           /\ Renewed(SetNodes(SetEdges(store, edges), names))
           /\ Renewed(SetEdges(SetNodes(store, names), edges))
<1>1. /\ made \in Nat /\ made + 1 \in Nat
      /\ store = [s \in Stores |-> [rev |-> store[s].rev, is |-> store[s].is]]
      /\ \A s \in Stores : store[s].rev \in Nat /\ store[s].rev <= made + 1
  BY DEF HistoryInv, HistoryTyped, Whole, Snapshot
<1> DEFINE N == [rev |-> made + 1, is |-> names]
           E == [rev |-> made + 1, is |-> edges]
           At(n, e) == [s \in Stores |-> IF s = "nodes" THEN n ELSE e]
<1>2. /\ store = At(store["nodes"], store["edges"])
      /\ SetNodes(store, names) = At(N, store["edges"])
      /\ SetEdges(store, edges) = At(store["nodes"], E)
      /\ SetNodes(SetEdges(store, edges), names) = At(N, E)
      /\ SetEdges(SetNodes(store, names), edges) = At(N, E)
  BY <1>1 DEF SetNodes, SetEdges, Stores
<1>3. ASSUME NEW n \in {store["nodes"], N}, NEW e \in {store["edges"], E}
      PROVE  Renewed(At(n, e))
  <2> DEFINE now == At(n, e)
  <2>1. DOMAIN now = Stores /\ now = [s \in Stores |-> now[s]]
    OBVIOUS
  <2>2. \A s \in Stores : now[s] = store[s] \/ now[s] \in {N, E}
    BY DEF Stores
  <2> HIDE DEF now
  <2>3. \A s \in Stores : /\ now[s] = [rev |-> now[s].rev, is |-> now[s].is]
                          /\ now[s].rev \in Nat /\ now[s].rev <= made + 1
                          /\ now[s] = store[s] \/ now[s].rev = made + 1
    BY <1>1, <2>2
  <2>4. Renewed(now)
    BY <2>1, <2>3 DEF Renewed, Whole, Snapshot
  <2> QED
    BY <2>4 DEF now
<1> HIDE DEF At, N, E
<1> QED
  BY <1>2, <1>3

LEMMA FramedKeeps ==
    ASSUME HistoryInv, NEW now, Renewed(now), Framed(now)
    PROVE  HistoryInv' /\ mixed' = mixed
<1>1. /\ made \in Nat /\ made' = made + 1 /\ made <= made' /\ made' \in Nat
      /\ transaction \in Nat /\ transaction' = transaction + 1 /\ transaction' # 0 /\ transaction' \in Nat
      /\ store' = now
      /\ UNCHANGED <<ustack, rstack, latest, opened, mixed>>
  BY DEF Framed, StartTransaction, HistoryInv, HistoryTyped, history
<1>2. Ground' = Ground
  BY <1>1 DEF Ground, Framed, StartTransaction
<1>3. HistoryTyped'
  BY <1>1, <1>2, SnapshotGrows DEF HistoryInv, HistoryTyped, Renewed
<1>4. Kept(Ground', store')
  BY <1>1, <1>2, RenewedIsKept
<1> QED
  BY <1>1, <1>2, <1>3, <1>4 DEF HistoryInv

LEMMA ClosingKeeps ==
    ASSUME HistoryInv, NEW now, Renewed(now), Closing(now)
    PROVE  HistoryInv' /\ mixed' = mixed
<1>1. /\ made \in Nat /\ made' = made + 1 /\ made <= made' /\ made' \in Nat
      /\ transaction \in Nat /\ transaction' = transaction
      /\ store' = now /\ backup' = backup
      /\ UNCHANGED <<opened, mixed>>
  BY DEF Closing, HistoryInv, HistoryTyped
<1>2. CASE transaction = 0
  <2>1. Ground = store /\ Ground' = now
    BY <1>1, <1>2 DEF Ground
  <2>2. Whole(store, made') /\ Whole(now, made') /\ Stack(ustack, made') /\ Stack(rstack, made')
    BY <1>1, SnapshotGrows DEF HistoryInv, HistoryTyped, Renewed
  <2>3. Kept(store, now)
    BY RenewedIsKept
  <2>4. LeadsTo(store, ustack, opened) /\ LeadsTo(store, rstack, latest) /\ Push(store, now)
    BY <1>2, <2>1 DEF HistoryInv, Closing
  <2>5. /\ Stack(ustack', made') /\ Stack(rstack', made')
        /\ LeadsTo(now, ustack', opened) /\ LeadsTo(now, rstack', latest')
    BY <2>2, <2>3, <2>4, PushKeeps
  <2>6. Kept(Ground', store')
    BY <1>1, <2>1 DEF Kept
  <2> QED
    BY <1>1, <2>1, <2>2, <2>5, <2>6 DEF HistoryInv, HistoryTyped
<1>3. CASE transaction # 0
  <2>1. Ground' = Ground /\ UNCHANGED <<ustack, rstack, latest>>
    BY <1>1, <1>3 DEF Ground, Closing, history
  <2>2. HistoryTyped'
    BY <1>1, <2>1, SnapshotGrows DEF HistoryInv, HistoryTyped, Renewed
  <2>3. Kept(Ground', store')
    BY <1>1, <2>1, RenewedIsKept
  <2> QED
    BY <1>1, <2>1, <2>2, <2>3 DEF HistoryInv
<1> QED
  BY <1>2, <1>3

LEMMA EndKeeps ==
    ASSUME HistoryInv, EndTransaction, UNCHANGED <<made, opened>>
    PROVE  HistoryInv'
<1>1. transaction \in Nat /\ store' = store /\ made \in Nat /\ made' = made /\ opened' = opened
  BY DEF HistoryInv, HistoryTyped, EndTransaction
<1>2. CASE transaction = 1
  <2>1. transaction' = 0 /\ Push(backup, store) /\ Ground = backup /\ Ground' = store
    BY <1>1, <1>2 DEF EndTransaction, Ground
  <2>2. /\ Stack(ustack', made) /\ Stack(rstack', made)
        /\ LeadsTo(store, ustack', opened) /\ LeadsTo(store, rstack', latest')
    BY <2>1, PushKeeps DEF HistoryInv, HistoryTyped
  <2>3. Kept(Ground', store')
    BY <1>1, <2>1 DEF Kept
  <2> QED
    BY <1>1, <2>1, <2>2, <2>3 DEF HistoryInv, HistoryTyped
<1>3. CASE transaction # 1
  <2>1. /\ transaction' \in Nat /\ (transaction' = 0 <=> transaction = 0)
        /\ UNCHANGED <<ustack, rstack, latest, backup>>
    BY <1>1, <1>3 DEF EndTransaction, history
  <2>2. Ground' = Ground
    BY <1>1, <2>1 DEF Ground
  <2> QED
    BY <1>1, <2>1, <2>2 DEF HistoryInv, HistoryTyped
<1> QED
  BY <1>2, <1>3

LEMMA TouchKeeps ==
    ASSUME HistoryInv, NEW s \in Stores, Touch(s)
    PROVE  HistoryInv' /\ mixed' = mixed
<1>1. /\ made \in Nat /\ made' = made + 1 /\ made <= made' /\ made' \in Nat
      /\ store' = [store EXCEPT ![s].rev = made + 1]
      /\ UNCHANGED <<ustack, rstack, latest, transaction, backup, opened, mixed>>
  BY DEF Touch, HistoryInv, HistoryTyped, history
<1>2. /\ DOMAIN store = Stores
      /\ store = [u \in Stores |-> [rev |-> store[u].rev, is |-> store[u].is]]
      /\ \A u \in Stores : store[u].rev \in Nat /\ store[u].rev <= made
  BY DEF HistoryInv, HistoryTyped, Whole, Snapshot
<1>3. store' = [u \in Stores |-> [rev |-> IF u = s THEN made + 1 ELSE store[u].rev, is |-> store[u].is]]
  BY <1>1, <1>2
<1>4. Renewed(store') /\ Alike(store, store')
  <2>1. DOMAIN store' = Stores
        /\ \A u \in Stores : /\ store'[u] = [rev |-> store'[u].rev, is |-> store'[u].is]
                             /\ store'[u].is = store[u].is
                             /\ store'[u].rev = IF u = s THEN made + 1 ELSE store[u].rev
    BY <1>3
  <2>2. \A u \in Stores : store'[u] = store[u] \/ store'[u].rev = made + 1
    BY <1>2, <2>1
  <2>3. store' = [u \in Stores |-> [rev |-> store'[u].rev, is |-> store'[u].is]]
    BY <1>3, <2>1
  <2>4. \A u \in Stores : store'[u].rev \in Nat /\ store'[u].rev <= made + 1
    BY <1>1, <1>2, <2>1
  <2> QED
    BY <2>1, <2>2, <2>3, <2>4 DEF Renewed, Whole, Snapshot, Alike
<1>5. Whole(store', made')
  BY <1>1, <1>4 DEF Renewed
<1>6. Whole(Ground', made') /\ Kept(Ground', store')
      /\ LeadsTo(Ground', ustack, opened) /\ LeadsTo(Ground', rstack, latest)
  <2>1. CASE transaction = 0
    <3>1. Ground = store /\ Ground' = store'
      BY <1>1, <2>1 DEF Ground
    <3>2. \A stack : Drawing(Unwound(store, stack)) = Drawing(Unwound(store', stack))
      BY <1>4, <1>5, AlikeShowAlike DEF HistoryInv, HistoryTyped
    <3> QED
      BY <1>5, <3>1, <3>2 DEF HistoryInv, LeadsTo, Kept
  <2>2. CASE transaction # 0
    <3>1. Ground' = Ground
      BY <1>1, <2>2 DEF Ground
    <3> QED
      BY <1>1, <1>4, <3>1, SnapshotGrows, RenewedIsKept DEF HistoryInv, HistoryTyped
  <2> QED
    BY <2>1, <2>2
<1>7. Stack(ustack', made') /\ Stack(rstack', made')
  BY <1>1, SnapshotGrows DEF HistoryInv, HistoryTyped
<1> QED
  BY <1>1, <1>5, <1>6, <1>7 DEF HistoryInv, HistoryTyped

LEMMA TravelsKeep ==
    ASSUME HistoryInv, Undo \/ Redo, ~mixed'
    PROVE  HistoryInv'
<1>1. /\ transaction = 0 /\ transaction' = transaction /\ made' = made /\ made \in Nat
      /\ Ground = store /\ Ground' = store' /\ UNCHANGED <<latest, opened>>
  <2>1. ~(transaction > 0)
    BY Zenon DEF Undo, Redo
  <2>2. UNCHANGED <<transaction, made, latest, opened>>
    BY DEF Undo, Redo
  <2>3. transaction \in Nat /\ made \in Nat
    BY DEF HistoryInv, HistoryTyped
  <2>4. transaction = 0
    BY <2>1, <2>3
  <2> QED
    BY <2>2, <2>3, <2>4 DEF Ground
<1>2. /\ Whole(store, made) /\ Stack(ustack, made) /\ Stack(rstack, made)
      /\ LeadsTo(store, ustack, opened) /\ LeadsTo(store, rstack, latest)
  BY <1>1 DEF HistoryInv, HistoryTyped
<1>3. /\ Whole(store', made) /\ Stack(ustack', made) /\ Stack(rstack', made)
      /\ LeadsTo(store', ustack', opened) /\ LeadsTo(store', rstack', latest)
  <2>1. CASE Undo
    <3>1. /\ ustack # <<>> /\ store' = Restored(Last(ustack), store) /\ ustack' = Front(ustack)
          /\ rstack' = Append(rstack, Restrict(store, DOMAIN Last(ustack)))
      BY <2>1 DEF Undo
    <3> QED
      BY <1>2, <3>1, TravelKeeps
  <2>2. CASE Redo
    <3>1. /\ rstack # <<>> /\ store' = Restored(Last(rstack), store) /\ rstack' = Front(rstack)
          /\ ustack' = Append(ustack, Restrict(store, DOMAIN Last(rstack)))
      BY <2>2 DEF Redo
    <3> QED
      BY <1>2, <3>1, TravelKeeps
  <2> QED
    BY <2>1, <2>2
<1>4. Kept(Ground', store')
  BY <1>1 DEF Kept
<1> QED
  BY <1>1, <1>3, <1>4 DEF HistoryInv, HistoryTyped

(* What leaves the stores, their history and the transaction alone. *)
LEMMA ElsewhereKeeps ==
    ASSUME HistoryInv, UNCHANGED <<store, history, transaction, backup, made, opened>>
    PROVE  HistoryInv'
<1>1. UNCHANGED <<store, ustack, rstack, latest, transaction, backup, made, opened>>
  BY DEF history
<1>2. Ground' = Ground
  BY <1>1 DEF Ground
<1> QED
  BY <1>1, <1>2 DEF HistoryInv, HistoryTyped

-----------------------------------------------------------------------------
LEMMA InitKeeps == Init => HistoryInv
<1> SUFFICES ASSUME Init PROVE HistoryInv
  OBVIOUS
<1> DEFINE d == Loaded(file)
<1>1. /\ store = [nodes |-> [rev |-> 0, is |-> d.names], edges |-> [rev |-> 0, is |-> d.edges]]
      /\ opened = Shown(doc) /\ latest = Shown(doc)
      /\ ustack = <<>> /\ rstack = <<>> /\ transaction = 0 /\ made = 0
  BY DEF Init
<1> HIDE DEF d
<1>2. Whole(store, made)
  <2>1. DOMAIN store = Stores /\ store = [s \in Stores |-> store[s]]
    BY <1>1 DEF Stores
  <2>2. \A s \in Stores : /\ store[s] = [rev |-> store[s].rev, is |-> store[s].is]
                          /\ store[s].rev = 0
    BY <1>1 DEF Stores
  <2>3. made = 0
    BY <1>1
  <2> QED
    BY <2>1, <2>2, <2>3 DEF Whole, Snapshot
<1>3. Ground = store
  BY <1>1 DEF Ground
<1>4. Stack(<<>>, made)
  <2>1. <<>> \in Seq({}) /\ DOMAIN <<>> = {}
    OBVIOUS
  <2> QED
    BY <2>1 DEF Stack
<1>5. LeadsTo(store, <<>>, Shown(doc))
  BY <1>2, UnwindNone DEF LeadsTo, doc
<1>6. Kept(Ground, store)
  BY <1>3 DEF Kept
<1> QED
  BY <1>1, <1>2, <1>3, <1>4, <1>5, <1>6 DEF HistoryInv, HistoryTyped

(* The handlers that change a store: those that leave the end of their     *)
(* transaction to a frame, and those that end it themselves.               *)
LEMMA HandlersKeep ==
    ASSUME HistoryInv,
           \/ AddRole \/ AutoLayout
           \/ \E s, t : Connect(s, t)
           \/ \E name : CommitAdding(name) \/ CommitEditing(name)
           \/ \E r : DeleteNode(r)
           \/ \E roles, picked : DeleteSelected(roles, picked)
    PROVE  HistoryInv' /\ mixed' = mixed
<1>1. CASE AddRole
  BY <1>1, SetsRenew, FramedKeeps DEF AddRole
<1>2. CASE AutoLayout
  BY <1>2, SetsRenew, ClosingKeeps DEF AutoLayout
<1>3. ASSUME NEW s, NEW t, Connect(s, t) PROVE HistoryInv' /\ mixed' = mixed
  <2>1. PICK edges : Framed(SetEdges(store, edges))
    BY <1>3, Zenon DEF Connect
  <2> QED
    BY <2>1, SetsRenew, FramedKeeps
<1>4. ASSUME NEW name, CommitAdding(name) PROVE HistoryInv' /\ mixed' = mixed
  <2>1. PICK names, edges : Framed(SetEdges(SetNodes(store, names), edges))
    BY <1>4, Zenon DEF CommitAdding
  <2> QED
    BY <2>1, SetsRenew, FramedKeeps
<1>5. ASSUME NEW name, CommitEditing(name) PROVE HistoryInv' /\ mixed' = mixed
  <2>1. PICK names : Framed(IF editing \in DOMAIN doc.names THEN SetNodes(store, names) ELSE store)
    BY <1>5, Zenon DEF CommitEditing
  <2>2. Framed(SetNodes(store, names)) \/ Framed(store)
    BY <2>1
  <2> QED
    BY <2>2, SetsRenew, FramedKeeps
<1>6. ASSUME NEW r, DeleteNode(r) PROVE HistoryInv' /\ mixed' = mixed
  BY <1>6, SetsRenew, FramedKeeps DEF DeleteNode
<1>7. ASSUME NEW roles, NEW picked, DeleteSelected(roles, picked) PROVE HistoryInv' /\ mixed' = mixed
  <2>1. PICK edges, names, same :
            Closing(IF roles = {} THEN (IF same THEN store ELSE SetEdges(store, edges))
                    ELSE SetNodes(IF same THEN store ELSE SetEdges(store, edges), names))
    BY <1>7, Zenon DEF DeleteSelected
  <2>2. \/ Closing(store) \/ Closing(SetEdges(store, edges))
        \/ Closing(SetNodes(store, names)) \/ Closing(SetNodes(SetEdges(store, edges), names))
    BY <2>1
  <2> QED
    BY <2>2, SetsRenew, ClosingKeeps
<1> QED
  BY <1>1, <1>2, <1>3, <1>4, <1>5, <1>6, <1>7

(* A label opens two transactions, as the frames after it end two. *)
LEMMA RelabelKeeps ==
    ASSUME HistoryInv, NEW i, NEW status, Relabel(i, status)
    PROVE  HistoryInv' /\ mixed' = mixed
<1>1. PICK edges : store' = SetEdges(store, edges)
  BY Zenon DEF Relabel
<1>2. /\ made \in Nat /\ made' = made + 1 /\ made <= made' /\ made' \in Nat
      /\ transaction \in Nat /\ transaction' = transaction + 2 /\ transaction' # 0 /\ transaction' \in Nat
      /\ backup' = (IF transaction = 0 THEN store ELSE backup)
      /\ UNCHANGED <<ustack, rstack, latest, opened, mixed>>
  BY DEF Relabel, HistoryInv, HistoryTyped, history
<1>3. Ground' = Ground
  BY <1>2 DEF Ground
<1>4. Renewed(store')
  BY <1>1, SetsRenew
<1>5. HistoryTyped'
  BY <1>2, <1>3, <1>4, SnapshotGrows DEF HistoryInv, HistoryTyped, Renewed
<1>6. Kept(Ground', store')
  BY <1>3, <1>4, RenewedIsKept
<1> QED
  BY <1>2, <1>3, <1>5, <1>6 DEF HistoryInv

LEMMA HistoryStep == Inv /\ [Next]_vars => Inv'
<1> SUFFICES ASSUME Inv, [Next]_vars, ~mixed' PROVE HistoryInv'
  BY DEF Inv
<1>1. CASE UNCHANGED vars
  BY <1>1, ElsewhereKeeps DEF vars, Inv
<1>2. CASE Frame \/ DragStop
  <2>1. EndTransaction /\ UNCHANGED <<made, opened, mixed>>
    BY <1>2 DEF Frame, DragStop
  <2> QED
    BY <2>1, EndKeeps DEF Inv
<1>3. CASE Undo \/ Redo
  <2>1. ~mixed
    BY <1>3, Zenon DEF Undo, Redo
  <2> QED
    BY <1>3, <2>1, TravelsKeep DEF Inv
<1>4. CASE DragStart
  <2>1. /\ ~mixed /\ HistoryInv
        /\ UNCHANGED <<store, ustack, rstack, latest, made, opened>>
        /\ transaction \in Nat /\ transaction' = transaction + 1 /\ transaction' # 0 /\ transaction' \in Nat
        /\ backup' = (IF transaction = 0 THEN store ELSE backup)
    BY <1>4 DEF DragStart, StartTransaction, Inv, HistoryInv, HistoryTyped, history
  <2>2. Ground' = Ground
    BY <2>1 DEF Ground
  <2> QED
    BY <2>1, <2>2 DEF HistoryInv, HistoryTyped
<1>5. CASE Escape \/ Save \/ (\E node, side : StartAdding(node, side)) \/ (\E r : StartEditing(r))
  <2>1. UNCHANGED <<store, history, transaction, backup, made, opened, mixed>>
    BY <1>5 DEF Escape, Save, StartAdding, StartEditing
  <2> QED
    BY <2>1, ElsewhereKeeps DEF Inv
<1>6. CASE \E s \in Stores : Touch(s)
  <2>1. ~mixed
    BY <1>6 DEF Touch
  <2> QED
    BY <1>6, <2>1, TouchKeeps DEF Inv
<1>7. CASE \E i, status : Relabel(i, status)
  <2>1. ~mixed
    BY <1>7 DEF Relabel
  <2> QED
    BY <1>7, <2>1, RelabelKeeps DEF Inv
<1>8. CASE \/ AddRole \/ AutoLayout
           \/ \E s, t : Connect(s, t)
           \/ \E name : CommitAdding(name) \/ CommitEditing(name)
           \/ \E r : DeleteNode(r)
           \/ \E roles, picked : DeleteSelected(roles, picked)
  <2>1. (\E now : Framed(now)) \/ (\E now : Closing(now))
    <3>1. CASE AddRole \/ AutoLayout
      BY <3>1, Zenon DEF AddRole, AutoLayout
    <3>2. CASE (\E s, t : Connect(s, t)) \/ (\E r : DeleteNode(r))
      BY <3>2, Zenon DEF Connect, DeleteNode
    <3>3. CASE \E name : CommitAdding(name) \/ CommitEditing(name)
      BY <3>3, Zenon DEF CommitAdding, CommitEditing
    <3>4. CASE \E roles, picked : DeleteSelected(roles, picked)
      <4>1. PICK roles, picked : DeleteSelected(roles, picked)
        BY <3>4
      <4>2. \E edges, names, same :
                Closing(IF roles = {} THEN (IF same THEN store ELSE SetEdges(store, edges))
                        ELSE SetNodes(IF same THEN store ELSE SetEdges(store, edges), names))
        BY <4>1, Zenon DEF DeleteSelected
      <4> QED
        BY <4>2, Zenon
    <3> QED
      BY <1>8, <3>1, <3>2, <3>3, <3>4
  <2>2. ~mixed
    BY <2>1 DEF Framed, Closing
  <2> QED
    BY <1>8, <2>2, HandlersKeep DEF Inv
<1> QED
  BY <1>1, <1>2, <1>3, <1>4, <1>5, <1>6, <1>7, <1>8, Zenon DEF Next, Stores

(* With no transaction open, undoing everything leads back to the workflow  *)
(* that was opened, and redoing everything to the one the last transaction *)
(* left, as long as no undo or redo came in the middle of a transaction.   *)
THEOREM UndoLeadsBack == Spec => []HistoryIsWhole
<1>1. Init => Inv
  BY InitKeeps DEF Inv
<1>2. Inv => HistoryIsWhole
  BY DEF Inv, HistoryInv, HistoryIsWhole, LeadsTo, Ground, Along
<1> QED
  BY <1>1, <1>2, HistoryStep, PTL DEF Spec
-----------------------------------------------------------------------------
(* What is picked from a sequence: every place of a finite set has a rank   *)
(* in it, and every rank is the rank of one place.                         *)
Rank(I, i) == Cardinality({j \in I : j <= i})
PlaceOf(I, k) == CHOOSE i \in I : Rank(I, i) = k

LEMMA Ranks ==
    ASSUME NEW n \in Nat, NEW I \in SUBSET (1..n)
    PROVE  /\ IsFiniteSet(I) /\ Cardinality(I) \in Nat /\ Cardinality(I) <= n
           /\ \A i \in I : Rank(I, i) \in 1..Cardinality(I)
           /\ \A i, j \in I : Rank(I, i) = Rank(I, j) => i = j
           /\ \A k \in 1..Cardinality(I) : \E i \in I : Rank(I, i) = k
<1> DEFINE Upto(i) == {j \in I : j <= i}
           c == Cardinality(I)
           T == 1..c
           rank == [i \in I |-> Rank(I, i)]
<1>1. IsFiniteSet(I) /\ c \in Nat /\ c <= n
  <2>1. IsFiniteSet(1..n) /\ Cardinality(1..n) = IF 1 > n THEN 0 ELSE n - 1 + 1
    BY FS_Interval
  <2>2. Cardinality(1..n) = n
    BY <2>1
  <2>3. IsFiniteSet(I) /\ Cardinality(I) <= n
    BY <2>1, <2>2, FS_Subset
  <2> QED
    BY <2>3, FS_CardinalityType
<1>2. ASSUME NEW i \in I
      PROVE  /\ IsFiniteSet(Upto(i)) /\ Cardinality(Upto(i)) \in 1..c
             /\ Rank(I, i) = Cardinality(Upto(i))
  <2>1. Upto(i) \in SUBSET I /\ Upto(i) # {} /\ Rank(I, i) = Cardinality(Upto(i))
    BY DEF Rank
  <2> HIDE DEF Upto
  <2>2. IsFiniteSet(Upto(i)) /\ Cardinality(Upto(i)) <= c
    BY <1>1, <2>1, FS_Subset
  <2>3. Cardinality(Upto(i)) \in Nat /\ Cardinality(Upto(i)) # 0
    BY <2>1, <2>2, FS_CardinalityType, FS_EmptySet
  <2>4. Cardinality(Upto(i)) \in 1..c
    BY <1>1, <2>2, <2>3
  <2> QED
    BY <2>1, <2>2, <2>4
<1>3. ASSUME NEW i \in I, NEW j \in I, i < j PROVE Rank(I, i) < Rank(I, j)
  <2>0. \A x \in I : x \in Int
    OBVIOUS
  <2>5. \A x \in I : x <= i => x <= j
    BY <1>3, <2>0
  <2>6. j <= j /\ ~(j <= i)
    BY <1>3, <2>0
  <2>1. Upto(i) \in SUBSET Upto(j) /\ j \in Upto(j) /\ j \notin Upto(i)
    BY <2>5, <2>6
  <2>2. Upto(i) # Upto(j)
    BY <2>1
  <2> HIDE DEF Upto
  <2>3. /\ Cardinality(Upto(i)) <= Cardinality(Upto(j))
        /\ Cardinality(Upto(j)) = Cardinality(Upto(i)) => Upto(j) = Upto(i)
    BY <1>2, <2>1, FS_Subset
  <2>4. PICK a \in Nat, b \in Nat : a = Cardinality(Upto(i)) /\ b = Cardinality(Upto(j))
    BY <1>2
  <2>7. a < b
    BY <2>2, <2>3, <2>4
  <2> QED
    BY <1>2, <2>4, <2>7
<1>4. \A i, j \in I : Rank(I, i) = Rank(I, j) => i = j
  <2> SUFFICES ASSUME NEW i \in I, NEW j \in I, Rank(I, i) = Rank(I, j), i # j PROVE FALSE
    OBVIOUS
  <2>1. i < j \/ j < i
    OBVIOUS
  <2>2. PICK k \in Nat : k = Rank(I, i) /\ k = Rank(I, j)
    <3> HIDE DEF Upto
    <3> QED
      BY <1>2
  <2>3. k < k
    BY <1>3, <2>1, <2>2
  <2> QED
    BY <2>3
<1>5. IsFiniteSet(T) /\ Cardinality(T) = c
  <2>1. PICK m \in Nat : m = c
    BY <1>1
  <2>2. IsFiniteSet(1..m) /\ Cardinality(1..m) = IF 1 > m THEN 0 ELSE m - 1 + 1
    BY FS_Interval
  <2>3. IsFiniteSet(1..m) /\ Cardinality(1..m) = m
    BY <2>2
  <2> QED
    BY <2>1, <2>3
<1> HIDE DEF Upto
<1>6. rank \in Injection(I, T)
  <2>1. rank \in [I -> T] /\ \A i, j \in I : rank[i] = rank[j] => i = j
    BY <1>2, <1>4
  <2> HIDE DEF rank, T
  <2> QED
    BY <2>1 DEF Injection, IsInjective
<1>7. rank \in Surjection(I, T)
  <2> HIDE DEF rank, T
  <2> QED
    BY <1>1, <1>5, <1>6, FS_Injection
<1>8. ASSUME NEW k \in T PROVE \E i \in I : Rank(I, i) = k
  <2>1. PICK i \in I : rank[i] = k
    <3> HIDE DEF rank, T
    <3> QED
      BY <1>7 DEF Surjection
  <2> QED
    BY <2>1
<1> QED
  BY <1>1, <1>2, <1>4, <1>8

IsPicked(s, I, p) ==
    /\ DOMAIN p = 1..Cardinality(I) /\ Len(p) = Cardinality(I)
    /\ \A k \in 1..Cardinality(I) : \E i \in I : p[k] = s[i]
    /\ \A i \in I : \E k \in 1..Cardinality(I) : p[k] = s[i]
    /\ p \in Seq({s[i] : i \in I})

LEMMA PickedIs ==
    ASSUME NEW n \in Nat, NEW I \in SUBSET (1..n), NEW s
    PROVE  IsPicked(s, I, Picked(s, I))
<1>1. /\ Cardinality(I) \in Nat
      /\ \A i \in I : Rank(I, i) \in 1..Cardinality(I)
      /\ \A k \in 1..Cardinality(I) : PlaceOf(I, k) \in I /\ Rank(I, PlaceOf(I, k)) = k
  <2>1. \A k \in 1..Cardinality(I) : \E i \in I : Rank(I, i) = k
    BY Ranks
  <2> QED
    BY <2>1, Ranks DEF PlaceOf
<1>2. Picked(s, I) = [k \in 1..Cardinality(I) |-> s[PlaceOf(I, k)]]
  BY DEF Picked, PlaceOf, Rank
<1>3. \A i \in I : PlaceOf(I, Rank(I, i)) = i
  <2> SUFFICES ASSUME NEW i \in I PROVE PlaceOf(I, Rank(I, i)) = i
    OBVIOUS
  <2>1. PICK j \in I : j = PlaceOf(I, Rank(I, i)) /\ Rank(I, j) = Rank(I, i)
    BY <1>1
  <2> QED
    BY <2>1, Ranks
<1>4. \A i \in I : Picked(s, I)[Rank(I, i)] = s[i]
  BY <1>1, <1>2, <1>3
<1>5. PICK c \in Nat : c = Cardinality(I)
  BY <1>1
<1>6. PICK f : f = [k \in 1..c |-> s[PlaceOf(I, k)]] /\ Picked(s, I) = f
  BY <1>2, <1>5
<1>7. \A k \in 1..c : f[k] \in {s[i] : i \in I}
  BY <1>1, <1>5, <1>6
<1>8. DOMAIN f = 1..c /\ Len(f) = c /\ f \in Seq({s[i] : i \in I})
  BY <1>5, <1>6, <1>7
<1>9. \A k \in 1..c : \E i \in I : f[k] = s[i]
  BY <1>7
<1>10. \A i \in I : \E k \in 1..c : f[k] = s[i]
  BY <1>1, <1>4, <1>5, <1>6
<1> QED
  BY <1>5, <1>6, <1>8, <1>9, <1>10 DEF IsPicked

(* A finite set as a sequence: each element once. *)
Lists(S, s) ==
    /\ Cardinality(S) \in Nat
    /\ s \in Seq(S) /\ Len(s) = Cardinality(S)
    /\ \A i, j \in 1..Cardinality(S) : s[i] = s[j] => i = j
    /\ \A x \in S : \E i \in 1..Cardinality(S) : s[i] = x

LEMMA SequenceOfSet == ASSUME NEW S, IsFiniteSet(S) PROVE Lists(S, SetToSeq(S))
<1>1. PICK c \in Nat : c = Cardinality(S)
  BY FS_CardinalityType
<1>2. IsFiniteSet(1..c) /\ Cardinality(1..c) = c
  <2>1. IsFiniteSet(1..c) /\ Cardinality(1..c) = IF 1 > c THEN 0 ELSE c - 1 + 1
    BY FS_Interval
  <2> QED
    BY <2>1
<1>3. \E f \in [1..c -> S] : IsInjective(f)
  <2>1. ExistsBijection(1..c, S)
    BY <1>1, FS_CardinalityType
  <2> QED
    BY <2>1 DEF ExistsBijection, Bijection, Injection
<1>4. PICK f : f = SetToSeq(S) /\ f \in [1..c -> S] /\ IsInjective(f)
  BY <1>1, <1>3 DEF SetToSeq
<1>5. f \in Injection(1..c, S)
  BY <1>4 DEF Injection
<1>6. f \in Surjection(1..c, S)
  BY <1>1, <1>2, <1>5, FS_Injection
<1>7. f \in Seq(S) /\ Len(f) = c
  BY <1>4
<1> QED
  BY <1>1, <1>4, <1>6, <1>7 DEF IsInjective, Surjection, Lists

(* Induction on natural numbers: there is no least number outside the set. *)
LEMMA FromZeroOn ==
    ASSUME NEW S, 0 \in S, \A n \in Nat : n \in S => n + 1 \in S
    PROVE  Nat \subseteq S
<1> DEFINE R == OpToRel(<, Nat)
           Out == Nat \ S
<1> SUFFICES ASSUME Out # {} PROVE FALSE
  OBVIOUS
<1>1. PICK m \in Out : \A k \in Out : <<k, m>> \notin R
  <2>1. IsWellFoundedOn(R, Nat)
    BY NatLessThanWellFounded
  <2>2. Out \subseteq Nat
    OBVIOUS
  <2> HIDE DEF R, Out
  <2> QED
    BY <2>1, <2>2, WFMin
<1>2. \A k \in Out : ~(k < m)
  BY <1>1 DEF OpToRel
<1>3. m # 0 /\ m - 1 \in Nat /\ m - 1 < m
  OBVIOUS
<1>4. m - 1 \in S
  BY <1>2, <1>3
<1>5. (m - 1) + 1 = m
  BY <1>3
<1> QED
  BY <1>3, <1>4, <1>5

(* Primitive recursion: a first value and a step make a function on Nat.   *)
LEMMA RecursionOnNat ==
    ASSUME NEW U, NEW a \in U, NEW F \in [U -> U]
    PROVE  \E f \in [Nat -> U] : f[0] = a /\ \A n \in Nat : f[n + 1] = F[f[n]]
<1> DEFINE Follows(n, g) == g[0] = a /\ \A m \in Nat : m + 1 \in 0..n => g[m + 1] = F[g[m]]
           Upto(n) == {g \in [0..n -> U] : Follows(n, g)}
<1>1. \A n \in Nat : Upto(n) # {}
  <2> DEFINE S == {n \in Nat : Upto(n) # {}}
  <2>1. 0 \in S
    <3>1. [i \in 0..0 |-> a] \in Upto(0)
      OBVIOUS
    <3> QED
      BY <3>1
  <2>2. ASSUME NEW n \in Nat, n \in S PROVE n + 1 \in S
    <3>1. PICK g \in [0..n -> U] : Follows(n, g)
      BY <2>2
    <3> DEFINE h == [i \in 0..(n + 1) |-> IF i = n + 1 THEN F[g[n]] ELSE g[i]]
    <3>2. g[n] \in U /\ F[g[n]] \in U
      BY <3>1
    <3>3. h \in [0..(n + 1) -> U]
      BY <3>1, <3>2
    <3>4. \A m \in 0..n : h[m] = g[m]
      OBVIOUS
    <3>5. h[n + 1] = F[h[n]] /\ h[0] = a
      BY <3>1, <3>4
    <3>6. ASSUME NEW m \in Nat, m + 1 \in 0..(n + 1) PROVE h[m + 1] = F[h[m]]
      <4>1. CASE m = n
        BY <3>5, <4>1
      <4>2. CASE m # n
        <5>1. m \in 0..n /\ m + 1 \in 0..n
          BY <3>6, <4>2
        <5> QED
          BY <3>1, <3>4, <5>1
      <4> QED
        BY <4>1, <4>2
    <3>7. Follows(n + 1, h)
      BY <3>5, <3>6
    <3> HIDE DEF h, Follows
    <3> QED
      BY <3>3, <3>7
  <2> HIDE DEF S
  <2>3. Nat \subseteq S
    BY <2>1, <2>2, FromZeroOn
  <2> QED
    BY <2>3 DEF S
<1>2. ASSUME NEW n \in Nat, NEW g \in Upto(n), NEW h \in Upto(n + 1)
      PROVE  g[n] = h[n]
  <2> DEFINE S == {k \in Nat : k \in 0..n => g[k] = h[k]}
  <2>1. 0 \in S
    OBVIOUS
  <2>2. ASSUME NEW k \in Nat, k \in S PROVE k + 1 \in S
    <3>1. CASE k + 1 \in 0..n
      <4>1. k \in 0..n /\ k + 1 \in 0..(n + 1)
        BY <3>1
      <4>2. g[k] = h[k]
        BY <2>2, <4>1
      <4>3. g[k + 1] = F[g[k]] /\ h[k + 1] = F[h[k]]
        BY <3>1, <4>1
      <4> QED
        BY <4>2, <4>3
    <3> QED
      BY <3>1
  <2> HIDE DEF S
  <2>3. Nat \subseteq S
    BY <2>1, <2>2, FromZeroOn
  <2> QED
    BY <2>3 DEF S
<1> DEFINE pick(n) == CHOOSE g \in Upto(n) : TRUE
           f == [n \in Nat |-> pick(n)[n]]
<1>3. \A n \in Nat : pick(n) \in Upto(n)
  BY <1>1
<1>4. \A n \in Nat : pick(n) \in [0..n -> U] /\ Follows(n, pick(n))
  BY <1>3
<1> HIDE DEF pick, Upto
<1>5. f \in [Nat -> U]
  BY <1>4
<1>6. f[0] = a
  BY <1>4
<1>7. ASSUME NEW n \in Nat PROVE f[n + 1] = F[f[n]]
  <2>1. pick(n)[n] = pick(n + 1)[n]
    BY <1>2, <1>3
  <2>2. pick(n + 1)[n + 1] = F[pick(n + 1)[n]]
    BY <1>4
  <2> QED
    BY <2>1, <2>2
<1> HIDE DEF f
<1> QED
  BY <1>5, <1>6, <1>7

-----------------------------------------------------------------------------
(* The drawings of a session.  An edge never leads to start. *)
Ids == ToSet(NodeIds)

NamesOk(names) == names = [x \in DOMAIN names |-> names[x]] /\ DOMAIN names \subseteq Ids

EdgeOk(e) ==
    /\ e = [from |-> e.from, to |-> e.to, n |-> e.n, kind |-> e.kind, status |-> e.status]
    /\ e.to # "start"

EdgesOk(edges) == (\E S : edges \in Seq(S)) /\ \A i \in DOMAIN edges : EdgeOk(edges[i])

DrawingOk(d) == NamesOk(d.names) /\ EdgesOk(d.edges)

LEMMA IdsAre ==
    /\ "start" \notin Ids /\ "end" \notin Ids
    /\ IsFiniteSet(Ids) /\ Len(NodeIds) \in Nat /\ Cardinality(Ids) <= Len(NodeIds)
    /\ \A i, j \in 1..Len(NodeIds) : NodeIds[i] \in Ids /\ (NodeIds[i] = NodeIds[j] => i = j)
<1>1. PICK n \in Nat : n = Len(NodeIds) /\ DOMAIN NodeIds = 1..n
  BY NodeIdsAssumption
<1>2. "start" \notin Ids /\ "end" \notin Ids
  BY NodeIdsAssumption DEF Ids, ToSet
<1>3. \A i, j \in 1..n : NodeIds[i] \in Ids /\ (NodeIds[i] = NodeIds[j] => i = j)
  BY <1>1, NodeIdsAssumption DEF Ids, ToSet
<1>4. IsFiniteSet(1..n) /\ Cardinality(1..n) = n
  <2>1. IsFiniteSet(1..n) /\ Cardinality(1..n) = IF 1 > n THEN 0 ELSE n - 1 + 1
    BY FS_Interval
  <2> QED
    BY <2>1
<1>5. IsFiniteSet(Ids) /\ Cardinality(Ids) <= n
  <2> DEFINE f == [i \in 1..n |-> NodeIds[i]]
  <2>1. f \in Surjection(1..n, Ids)
    BY <1>1, <1>3 DEF Surjection, Ids, ToSet
  <2> HIDE DEF f
  <2> QED
    BY <1>4, <2>1, FS_Surjection
<1> QED
  BY <1>1, <1>2, <1>3, <1>5

LEMMA EdgesAre ==
    ASSUME NEW edges, EdgesOk(edges)
    PROVE  \E n \in Nat : n = Len(edges) /\ DOMAIN edges = 1..n /\ edges = [i \in 1..n |-> edges[i]]
<1>1. PICK S : edges \in Seq(S)
  BY DEF EdgesOk
<1> QED
  BY <1>1

LEMMA OutOf ==
    ASSUME NEW d, EdgesOk(d.edges), NEW node
    PROVE  /\ IsFiniteSet(From(d, node)) /\ Cardinality(From(d, node)) \in Nat
           /\ From(d, node) \in SUBSET (1..Len(d.edges)) /\ Len(d.edges) \in Nat
<1>1. PICK n \in Nat : n = Len(d.edges) /\ DOMAIN d.edges = 1..n
  BY EdgesAre
<1>2. From(d, node) \in SUBSET (1..n)
  BY <1>1 DEF From
<1> QED
  BY <1>1, <1>2, Ranks

-----------------------------------------------------------------------------
(* The walk of traverse.  What a node that was visited leads to was visited *)
(* or is still to be; and as each round takes one target from the list, it *)
(* ends when every edge was followed.                                      *)
Targets(d) == {d.edges[i].to : i \in DOMAIN d.edges}
Walks(d) == [todo : Seq(Targets(d)), done : Seq(DOMAIN d.names)]

\* A visit with something to do: what becomes of the list and of the nodes.
Visited(d, w, node, after) ==
    /\ after \in Walks(d)
    /\ \A x \in ToSet(w.todo) : x = node \/ x \in ToSet(after.todo)
    /\ IF node \in DOMAIN d.names \ ToSet(w.done)
       THEN /\ after.done = Append(w.done, node)
            /\ \A i \in From(d, node) : d.edges[i].to \in ToSet(after.todo)
            /\ Len(after.todo) = Cardinality(From(d, node)) + Len(w.todo) - 1
       ELSE after.done = w.done /\ Len(after.todo) = Len(w.todo) - 1

LEMMA HeadAndTail ==
    ASSUME NEW S, NEW s \in Seq(S), s # <<>>
    PROVE  /\ Head(s) \in S /\ Tail(s) \in Seq(S) /\ Len(s) \in Nat \ {0}
           /\ Len(Tail(s)) = Len(s) - 1
           /\ \A x \in ToSet(s) : x = Head(s) \/ x \in ToSet(Tail(s))
<1>1. /\ Head(s) = s[1] /\ Head(s) \in S /\ Tail(s) \in Seq(S) /\ Len(s) \in Nat \ {0}
      /\ Len(Tail(s)) = Len(s) - 1 /\ \A i \in 1..(Len(s) - 1) : Tail(s)[i] = s[i + 1]
  OBVIOUS
<1>2. DOMAIN s = 1..Len(s) /\ DOMAIN Tail(s) = 1..(Len(s) - 1)
  BY <1>1
<1>3. ASSUME NEW i \in 1..Len(s), i # 1 PROVE s[i] \in ToSet(Tail(s))
  <2>1. i - 1 \in 1..(Len(s) - 1) /\ (i - 1) + 1 = i
    BY <1>1, <1>3
  <2> QED
    BY <1>1, <1>2, <2>1 DEF ToSet
<1> QED
  BY <1>1, <1>2, <1>3 DEF ToSet

LEMMA Joined ==
    ASSUME NEW S, NEW a \in Seq(S), NEW b \in Seq(S)
    PROVE  /\ a \o b \in Seq(S) /\ Len(a \o b) = Len(a) + Len(b)
           /\ \A x \in ToSet(a) \cup ToSet(b) : x \in ToSet(a \o b)
<1>1. /\ a \o b \in Seq(S) /\ Len(a) \in Nat /\ Len(b) \in Nat /\ Len(a \o b) = Len(a) + Len(b)
      /\ \A i \in 1..Len(a) : (a \o b)[i] = a[i]
      /\ \A i \in 1..Len(b) : (a \o b)[i + Len(a)] = b[i]
  OBVIOUS
<1>2. PICK c : c = a \o b
  OBVIOUS
<1>3. DOMAIN a = 1..Len(a) /\ DOMAIN b = 1..Len(b) /\ DOMAIN c = 1..(Len(a) + Len(b))
  BY <1>1, <1>2
<1>4. ASSUME NEW i \in 1..Len(a) PROVE a[i] \in ToSet(c)
  <2>1. i \in 1..(Len(a) + Len(b)) /\ c[i] = a[i]
    BY <1>1, <1>2
  <2> QED
    BY <1>3, <2>1 DEF ToSet
<1>5. ASSUME NEW i \in 1..Len(b) PROVE b[i] \in ToSet(c)
  <2>1. i + Len(a) \in 1..(Len(a) + Len(b)) /\ c[i + Len(a)] = b[i]
    BY <1>1, <1>2
  <2> QED
    BY <1>3, <2>1 DEF ToSet
<1> QED
  BY <1>1, <1>2, <1>3, <1>4, <1>5 DEF ToSet

LEMMA VisitIs ==
    ASSUME NEW d, EdgesOk(d.edges), NEW w \in Walks(d), w.todo # <<>>
    PROVE  Visited(d, w, Head(w.todo), Visit(d, w))
<1>1. PICK todo, done, node : todo = w.todo /\ done = w.done /\ node = Head(todo) /\ todo # <<>>
  OBVIOUS
<1>2. todo \in Seq(Targets(d)) /\ done \in Seq(DOMAIN d.names)
      /\ w = [todo |-> todo, done |-> done]
  BY <1>1 DEF Walks
<1>3. /\ node \in Targets(d) /\ Tail(todo) \in Seq(Targets(d)) /\ Len(todo) \in Nat \ {0}
      /\ Len(Tail(todo)) = Len(todo) - 1
      /\ \A x \in ToSet(todo) : x = node \/ x \in ToSet(Tail(todo))
  BY <1>1, <1>2, HeadAndTail
<1>4. CASE node \notin DOMAIN d.names \ ToSet(done)
  <2>1. Visit(d, w) = [w EXCEPT !.todo = Tail(todo)]
    BY <1>1, <1>4, Zenon DEF Visit
  <2>2. Visit(d, w) = [todo |-> Tail(todo), done |-> done]
    BY <1>2, <2>1
  <2>3. PICK after : /\ after = Visit(d, w) /\ after = [todo |-> Tail(todo), done |-> done]
                     /\ after.todo = Tail(todo) /\ after.done = done
    BY <2>2
  <2>4. after \in Walks(d)
    BY <1>2, <1>3, <2>3 DEF Walks
  <2>5. Visited(d, w, node, after)
    BY <1>1, <1>3, <1>4, <2>3, <2>4, Zenon DEF Visited
  <2> QED
    BY <1>1, <2>3, <2>5
<1>5. CASE node \in DOMAIN d.names \ ToSet(done)
  <2>1. PICK out : out = Picked(d.edges, From(d, node))
    OBVIOUS
  <2>2. PICK next : next = [i \in DOMAIN out |-> out[i].to]
    OBVIOUS
  <2>3. Visit(d, w) = [todo |-> next \o Tail(todo), done |-> Append(done, node)]
    BY <1>1, <1>5, <2>1, <2>2, Zenon DEF Visit
  <2>4. PICK c \in Nat : c = Cardinality(From(d, node))
    BY OutOf
  <2>5. /\ DOMAIN out = 1..c
        /\ \A k \in 1..c : \E i \in From(d, node) : out[k] = d.edges[i]
        /\ \A i \in From(d, node) : \E k \in 1..c : out[k] = d.edges[i]
    <3>0. From(d, node) \in SUBSET (1..Len(d.edges)) /\ Len(d.edges) \in Nat
      BY OutOf
    <3>1. PICK n \in Nat : n = Len(d.edges)
      BY <3>0
    <3>3. PICK I \in SUBSET (1..n) : I = From(d, node)
      BY <3>0, <3>1
    <3>4. PICK s : s = d.edges
      OBVIOUS
    <3>2. IsPicked(s, I, Picked(s, I))
      BY <3>1, <3>3, PickedIs
    <3> QED
      BY <2>1, <2>4, <3>2, <3>3, <3>4 DEF IsPicked
  <2>6. \A k \in 1..c : next[k] \in Targets(d)
    BY <2>2, <2>5 DEF Targets, From
  <2>7. next \in Seq(Targets(d)) /\ Len(next) = c /\ DOMAIN next = 1..c
    BY <2>2, <2>5, <2>6
  <2>8. \A i \in From(d, node) : d.edges[i].to \in ToSet(next)
    BY <2>2, <2>5, <2>7 DEF ToSet
  <2>9. /\ next \o Tail(todo) \in Seq(Targets(d)) /\ Len(next \o Tail(todo)) = c + (Len(todo) - 1)
        /\ \A x \in ToSet(next) \cup ToSet(Tail(todo)) : x \in ToSet(next \o Tail(todo))
    BY <1>3, <2>7, Joined
  <2>10. Append(done, node) \in Seq(DOMAIN d.names)
    BY <1>2, <1>5
  <2>11. Len(next \o Tail(todo)) = c + Len(todo) - 1
    BY <1>3, <2>9
  <2>12. PICK after : /\ after = Visit(d, w)
                      /\ after = [todo |-> next \o Tail(todo), done |-> Append(done, node)]
                      /\ after.todo = next \o Tail(todo) /\ after.done = Append(done, node)
    BY <2>3
  <2>13. after \in Walks(d)
    BY <2>9, <2>10, <2>12 DEF Walks
  <2>14. \A x \in ToSet(todo) : x = node \/ x \in ToSet(after.todo)
    BY <1>3, <2>9, <2>12
  <2>15. \A i \in From(d, node) : d.edges[i].to \in ToSet(after.todo)
    BY <2>8, <2>9, <2>12
  <2>16. Len(after.todo) = Cardinality(From(d, node)) + Len(todo) - 1
    BY <2>4, <2>11, <2>12
  <2>17. Visited(d, w, node, after)
    BY <1>1, <1>5, <2>12, <2>13, <2>14, <2>15, <2>16, Zenon DEF Visited
  <2> QED
    BY <1>1, <2>12, <2>17
<1> QED
  BY <1>4, <1>5

LEMMA SetsOut ==
    ASSUME NEW d, EdgesOk(d.edges), Valid(d)
    PROVE  \E i \in DOMAIN d.edges :
              /\ From(d, "start") = {i}
              /\ SetOut(d) = [todo |-> <<d.edges[i].to>>, done |-> <<>>]
<1>1. IsFiniteSet(From(d, "start")) /\ Cardinality(From(d, "start")) = 1
  BY OutOf DEF Valid
<1>2. PICK i : From(d, "start") = {i}
  BY <1>1, FS_Singleton
<1>3. i \in DOMAIN d.edges /\ i \in Nat
  <2>1. i \in From(d, "start")
    BY <1>2
  <2>2. i \in 1..Len(d.edges) /\ Len(d.edges) \in Nat
    BY <2>1, OutOf
  <2> QED
    BY <2>1, <2>2 DEF From
<1>4. Min({i}) = i
  BY <1>3 DEF Min
<1>5. SetOut(d) = [todo |-> <<d.edges[i].to>>, done |-> <<>>]
  BY <1>2, <1>4 DEF SetOut
<1> QED
  BY <1>2, <1>3, <1>5

LEMMA StepsAre ==
    ASSUME NEW d, EdgesOk(d.edges), Valid(d)
    PROVE  \E walk \in [Nat -> Walks(d)] :
              /\ walk[0] = SetOut(d)
              /\ \A n \in Nat : walk[n + 1] = Visit(d, walk[n])
              /\ Steps(d) = walk[Len(d.edges) + 1].done
<1> DEFINE U == Walks(d)
           visit == [w \in U |-> Visit(d, w)]
<1>1. SetOut(d) \in U
  <2>1. PICK i \in DOMAIN d.edges : SetOut(d) = [todo |-> <<d.edges[i].to>>, done |-> <<>>]
    BY SetsOut
  <2>2. PICK x \in Targets(d) : SetOut(d) = [todo |-> <<x>>, done |-> <<>>]
    BY <2>1 DEF Targets
  <2>3. <<x>> \in Seq(Targets(d)) /\ <<>> \in Seq(DOMAIN d.names)
    BY <2>2
  <2> QED
    BY <2>2, <2>3 DEF Walks
<1>2. \A w \in U : Visit(d, w) \in U
  <2> SUFFICES ASSUME NEW w \in U PROVE Visit(d, w) \in U
    OBVIOUS
  <2>1. CASE w.todo = <<>>
    BY <2>1, Zenon DEF Visit
  <2>2. CASE w.todo # <<>>
    <3>1. Visited(d, w, Head(w.todo), Visit(d, w))
      BY <2>2, VisitIs
    <3> QED
      BY <3>1, Zenon DEF Visited
  <2> QED
    BY <2>1, <2>2
<1>3. visit \in [U -> U]
  BY <1>2
<1>4. PICK f \in [Nat -> U] : f[0] = SetOut(d) /\ \A n \in Nat : f[n + 1] = visit[f[n]]
  <2> HIDE DEF U, visit
  <2> QED
    BY <1>1, <1>3, RecursionOnNat
<1>5. \A n \in Nat : f[n + 1] = Visit(d, f[n])
  BY <1>4
<1> DEFINE Solves(g) == g = [k \in Nat |-> IF k = 0 THEN SetOut(d) ELSE Visit(d, g[k - 1])]
           walk == CHOOSE g : Solves(g)
<1>6. Solves(f)
  <2>1. \A k \in Nat : f[k] = IF k = 0 THEN SetOut(d) ELSE Visit(d, f[k - 1])
    <3> SUFFICES ASSUME NEW k \in Nat, k # 0 PROVE f[k] = Visit(d, f[k - 1])
      BY <1>4
    <3>1. k - 1 \in Nat /\ (k - 1) + 1 = k
      OBVIOUS
    <3> QED
      BY <1>5, <3>1
  <2> HIDE DEF U
  <2> QED
    BY <1>4, <2>1
<1>7. Solves(walk)
  <2> HIDE DEF Solves
  <2> QED
    BY <1>6
<1>8. Steps(d) = walk[Len(d.edges) + 1].done
  BY Zenon DEF Steps
<1> HIDE DEF walk
<1>9. walk[0] = SetOut(d) /\ \A n \in Nat : walk[n + 1] = Visit(d, walk[n])
  BY <1>7
<1>10. walk \in [Nat -> U]
  <2> DEFINE S == {n \in Nat : walk[n] \in U}
  <2>1. 0 \in S
    BY <1>1, <1>9
  <2>2. ASSUME NEW n \in Nat, n \in S PROVE n + 1 \in S
    <3>1. Visit(d, walk[n]) \in U
      BY <1>2, <2>2
    <3> QED
      BY <1>9, <3>1
  <2> HIDE DEF S, U
  <2>3. Nat \subseteq S
    BY <2>1, <2>2, FromZeroOn
  <2> QED
    BY <1>7, <2>3 DEF S
<1> HIDE DEF U, Solves
<1> QED
  BY <1>8, <1>9, <1>10 DEF U

\* The edges out of start and of what was visited.
Used(d, nodes) == {i \in DOMAIN d.edges : d.edges[i].from \in {"start"} \cup nodes}

\* After k rounds of a walk that sets out for a node.
WalkOk(d, first, k, w) ==
    /\ w \in Walks(d)
    /\ \A i, j \in DOMAIN w.done : w.done[i] = w.done[j] => i = j
    /\ \A i \in Used(d, ToSet(w.done)) :
          d.edges[i].to \in DOMAIN d.names => d.edges[i].to \in ToSet(w.done) \cup ToSet(w.todo)
    /\ w.todo # <<>> => k + Len(w.todo) <= Cardinality(Used(d, ToSet(w.done)))
    /\ w.done = <<>> => w.todo = <<first>> \/ (first \notin DOMAIN d.names /\ w.todo = <<>>)
    /\ w.done # <<>> => w.done[1] = first

LEMMA Appended ==
    ASSUME NEW S, NEW s \in Seq(S), NEW x
    PROVE  /\ ToSet(Append(s, x)) = ToSet(s) \cup {x} /\ Append(s, x) # <<>>
           /\ s # <<>> => Append(s, x)[1] = s[1]
           /\ s = <<>> => Append(s, x)[1] = x
           /\ (x \notin ToSet(s) /\ \A i, j \in DOMAIN s : s[i] = s[j] => i = j)
                => \A i, j \in DOMAIN Append(s, x) : Append(s, x)[i] = Append(s, x)[j] => i = j
<1>1. PICK n \in Nat : n = Len(s) /\ DOMAIN s = 1..n
  OBVIOUS
<1>2. PICK t : t = Append(s, x)
  OBVIOUS
<1>3. DOMAIN t = 1..(n + 1) /\ t[n + 1] = x /\ \A i \in 1..n : t[i] = s[i]
  <2>1. s \in Seq(S \cup {x}) /\ x \in S \cup {x}
    OBVIOUS
  <2>2. Len(t) = n + 1 /\ t \in Seq(S \cup {x}) /\ t[n + 1] = x /\ \A i \in 1..n : t[i] = s[i]
    BY <1>1, <1>2, <2>1
  <2> QED
    BY <2>2
<1>4. \A i \in 1..(n + 1) : i \in 1..n \/ i = n + 1
  OBVIOUS
<1>5. n + 1 \in 1..(n + 1) /\ \A i \in 1..n : i \in 1..(n + 1)
  OBVIOUS
<1>6. ToSet(t) = ToSet(s) \cup {x}
  BY <1>1, <1>3, <1>4, <1>5 DEF ToSet
<1>7. t # <<>>
  BY <1>3, <1>5
<1>8. (s # <<>> => t[1] = s[1]) /\ (s = <<>> => t[1] = x)
  <2>1. s # <<>> => 1 \in 1..n
    BY <1>1
  <2>2. s = <<>> => n = 0
    BY <1>1
  <2> QED
    BY <1>3, <2>1, <2>2
<1>9. ASSUME x \notin ToSet(s), \A i, j \in DOMAIN s : s[i] = s[j] => i = j
      PROVE  \A i, j \in DOMAIN t : t[i] = t[j] => i = j
  <2>1. \A i \in 1..n : s[i] # x
    BY <1>1, <1>9 DEF ToSet
  <2> QED
    BY <1>1, <1>3, <1>4, <1>9, <2>1
<1> QED
  BY <1>2, <1>6, <1>7, <1>8, <1>9

LEMMA UsedIs ==
    ASSUME NEW d, EdgesOk(d.edges), NEW nodes
    PROVE  /\ IsFiniteSet(Used(d, nodes)) /\ Cardinality(Used(d, nodes)) \in Nat
           /\ Cardinality(Used(d, nodes)) <= Len(d.edges)
           /\ \A node : node \notin {"start"} \cup nodes =>
                /\ Used(d, nodes \cup {node}) = Used(d, nodes) \cup From(d, node)
                /\ Cardinality(Used(d, nodes \cup {node}))
                     = Cardinality(Used(d, nodes)) + Cardinality(From(d, node))
<1>1. PICK n \in Nat : n = Len(d.edges) /\ DOMAIN d.edges = 1..n
  BY EdgesAre
<1>2. PICK used : used = Used(d, nodes)
  OBVIOUS
<1>3. used \in SUBSET (1..n)
  BY <1>1, <1>2 DEF Used
<1>4. IsFiniteSet(used) /\ Cardinality(used) \in Nat /\ Cardinality(used) <= n
  BY <1>3, Ranks
<1>5. ASSUME NEW node, node \notin {"start"} \cup nodes
      PROVE  /\ Used(d, nodes \cup {node}) = used \cup From(d, node)
             /\ Cardinality(Used(d, nodes \cup {node})) = Cardinality(used) + Cardinality(From(d, node))
  <2>1. PICK out : out = From(d, node) /\ IsFiniteSet(out) /\ Cardinality(out) \in Nat
    BY OutOf
  <2>2. Used(d, nodes \cup {node}) = used \cup out
    BY <1>2, <2>1 DEF Used, From
  <2>3. used \cap out = {}
    BY <1>2, <1>5, <2>1 DEF Used, From
  <2>4. Cardinality(used \cap out) = 0
    BY <2>3, FS_EmptySet
  <2>5. Cardinality(used \cup out) = Cardinality(used) + Cardinality(out) - Cardinality(used \cap out)
    BY <1>4, <2>1, FS_Union
  <2>6. Cardinality(used \cup out) = Cardinality(used) + Cardinality(out)
    BY <1>4, <2>1, <2>4, <2>5
  <2> QED
    BY <2>1, <2>2, <2>6
<1> QED
  BY <1>1, <1>2, <1>4, <1>5

LEMMA WalkGoesOn ==
    ASSUME NEW d, DrawingOk(d), NEW first, NEW k \in Nat, NEW w, WalkOk(d, first, k, w)
    PROVE  WalkOk(d, first, k + 1, Visit(d, w))
<1>1. PICK todo, done, used :
        todo = w.todo /\ done = w.done /\ used = Used(d, ToSet(done))
  OBVIOUS
<1>2. /\ w \in Walks(d) /\ todo \in Seq(Targets(d)) /\ done \in Seq(DOMAIN d.names)
      /\ \A i, j \in DOMAIN done : done[i] = done[j] => i = j
      /\ \A i \in used : d.edges[i].to \in DOMAIN d.names => d.edges[i].to \in ToSet(done) \cup ToSet(todo)
      /\ todo # <<>> => k + Len(todo) <= Cardinality(used)
      /\ done = <<>> => todo = <<first>> \/ (first \notin DOMAIN d.names /\ todo = <<>>)
      /\ done # <<>> => done[1] = first
  BY <1>1 DEF WalkOk, Walks
<1>3. EdgesOk(d.edges) /\ DOMAIN d.names \subseteq Ids /\ "start" \notin Ids
  BY IdsAre DEF DrawingOk, NamesOk
<1>4. CASE todo = <<>>
  <2>1. Visit(d, w) = w
    BY <1>1, <1>4, Zenon DEF Visit
  <2> QED
    BY <1>1, <1>4, <2>1 DEF WalkOk
<1>5. CASE todo # <<>>
  <2>1. PICK node, after : node = Head(todo) /\ after = Visit(d, w)
    OBVIOUS
  <2>2. Visited(d, w, node, after)
    BY <1>1, <1>2, <1>3, <1>5, <2>1, VisitIs
  <2>3. after \in Walks(d) /\ \A x \in ToSet(todo) : x = node \/ x \in ToSet(after.todo)
    BY <1>1, <2>2, Zenon DEF Visited
  <2>4. Len(todo) \in Nat \ {0} /\ Cardinality(used) \in Nat /\ IsFiniteSet(used)
    BY <1>1, <1>2, <1>3, <1>5, HeadAndTail, UsedIs
  <2>5. done = <<>> => node = first
    BY <1>2, <1>5, <2>1
  <2>6. CASE node \in DOMAIN d.names \ ToSet(done)
    <3>1. /\ after.done = Append(done, node)
          /\ \A i \in From(d, node) : d.edges[i].to \in ToSet(after.todo)
          /\ Len(after.todo) = Cardinality(From(d, node)) + Len(todo) - 1
      BY <1>1, <2>2, <2>6, Zenon DEF Visited
    <3>2. /\ ToSet(after.done) = ToSet(done) \cup {node} /\ after.done # <<>>
          /\ done # <<>> => after.done[1] = done[1]
          /\ done = <<>> => after.done[1] = node
          /\ \A i, j \in DOMAIN after.done : after.done[i] = after.done[j] => i = j
      BY <1>2, <2>6, <3>1, Appended
    <3>3. node \notin {"start"} \cup ToSet(done)
      BY <1>3, <2>6
    <3>4. /\ Used(d, ToSet(after.done)) = used \cup From(d, node)
          /\ Cardinality(Used(d, ToSet(after.done))) = Cardinality(used) + Cardinality(From(d, node))
      BY <1>1, <1>3, <3>2, <3>3, UsedIs
    <3>5. PICK c \in Nat : c = Cardinality(From(d, node))
      BY <1>3, OutOf
    <3>6. (k + 1) + Len(after.todo) <= Cardinality(Used(d, ToSet(after.done)))
      BY <1>2, <1>5, <2>4, <3>1, <3>4, <3>5
    <3>7. \A i \in used \cup From(d, node) :
             d.edges[i].to \in DOMAIN d.names => d.edges[i].to \in ToSet(after.done) \cup ToSet(after.todo)
      BY <1>2, <2>3, <3>1, <3>2
    <3>8. after.done[1] = first
      BY <1>2, <2>5, <3>2
    <3>9. WalkOk(d, first, k + 1, after)
      BY <2>3, <3>2, <3>4, <3>6, <3>7, <3>8 DEF WalkOk
    <3> QED
      BY <2>1, <3>9
  <2>7. CASE node \notin DOMAIN d.names \ ToSet(done)
    <3>1. after.done = done /\ Len(after.todo) = Len(todo) - 1
      BY <1>1, <2>2, <2>7, Zenon DEF Visited
    <3>2. (k + 1) + Len(after.todo) <= Cardinality(used)
      BY <1>2, <1>5, <2>4, <3>1
    <3>3. \A i \in used :
             d.edges[i].to \in DOMAIN d.names => d.edges[i].to \in ToSet(done) \cup ToSet(after.todo)
      BY <1>2, <2>3, <2>7
    <3>4. ASSUME done = <<>> PROVE first \notin DOMAIN d.names /\ after.todo = <<>>
      <4>1. node = first /\ todo = <<first>> /\ ToSet(done) = {}
        BY <1>2, <1>5, <2>5, <3>4 DEF ToSet
      <4>2. Len(todo) = 1
        BY <4>1
      <4>3. after.todo \in Seq(Targets(d)) /\ Len(after.todo) = 0
        BY <2>3, <3>1, <4>2 DEF Walks
      <4>4. after.todo = <<>>
        BY <4>3
      <4> QED
        BY <2>7, <4>1, <4>4
    <3>5. WalkOk(d, first, k + 1, after)
      BY <1>1, <1>2, <2>3, <3>1, <3>2, <3>3, <3>4 DEF WalkOk
    <3> QED
      BY <2>1, <3>5
  <2> QED
    BY <2>6, <2>7
<1> QED
  BY <1>4, <1>5

(* What bfs finds is in every set around its first node.                   *)
LEMMA ReachedWithin ==
    ASSUME NEW arcs, NEW node, NEW S, node \in S, \A a \in arcs : a[1] \in S => a[2] \in S
    PROVE  Reached(arcs, node) \subseteq S
<1>1. PICK ids : ids = {node} \cup {a[2] : a \in arcs}
  OBVIOUS
<1>2. Reached(arcs, node)
        = {x \in ids : \A T \in SUBSET ids :
             (node \in T /\ \A a \in arcs : a[1] \in T => a[2] \in T) => x \in T}
  BY <1>1 DEF Reached
<1>3. ids \cap S \in SUBSET ids /\ node \in ids \cap S
  BY <1>1
<1>4. \A a \in arcs : a[1] \in ids \cap S => a[2] \in ids \cap S
  BY <1>1
<1> QED
  BY <1>2, <1>3, <1>4

(* The walk visits every role of a drawing that is valid, each once, and    *)
(* the one that start leads to first.                                      *)
LEMMA StepsAreRoles ==
    ASSUME NEW d, DrawingOk(d), Valid(d), Fileable(d)
    PROVE  /\ Steps(d) \in Seq(DOMAIN d.names) /\ Steps(d) # <<>>
           /\ ToSet(Steps(d)) = DOMAIN d.names
           /\ \A i, j \in DOMAIN Steps(d) : Steps(d)[i] = Steps(d)[j] => i = j
           /\ \E i \in DOMAIN d.edges : From(d, "start") = {i} /\ d.edges[i].to = Steps(d)[1]
<1>1. EdgesOk(d.edges) /\ DOMAIN d.names \subseteq Ids /\ "start" \notin Ids /\ "end" \notin Ids
  BY IdsAre DEF DrawingOk, NamesOk
<1>2. PICK n \in Nat : n = Len(d.edges) /\ DOMAIN d.edges = 1..n
  BY <1>1, EdgesAre
<1>3. PICK i \in DOMAIN d.edges :
        From(d, "start") = {i} /\ SetOut(d) = [todo |-> <<d.edges[i].to>>, done |-> <<>>]
  BY <1>1, SetsOut
<1>4. PICK first : first = d.edges[i].to
  OBVIOUS
<1>5. PICK walk \in [Nat -> Walks(d)] :
        /\ walk[0] = SetOut(d)
        /\ \A k \in Nat : walk[k + 1] = Visit(d, walk[k])
        /\ Steps(d) = walk[n + 1].done
  BY <1>1, <1>2, StepsAre
<1>6. WalkOk(d, first, 0, walk[0])
  <2>1. PICK w : w = walk[0] /\ w \in Walks(d) /\ w.todo = <<first>> /\ w.done = <<>>
    BY <1>3, <1>4, <1>5
  <2>2. ToSet(w.done) = {} /\ DOMAIN w.done = {} /\ ToSet(w.todo) = {first} /\ Len(w.todo) = 1
    BY <2>1 DEF ToSet
  <2>3. Used(d, {}) = {i}
    BY <1>3 DEF Used, From
  <2>4. Cardinality(Used(d, {})) = 1
    BY <2>3, FS_Singleton
  <2>5. w.todo # <<>> => 0 + Len(w.todo) <= Cardinality(Used(d, ToSet(w.done)))
    BY <2>2, <2>4
  <2>6. \A j \in Used(d, ToSet(w.done)) : d.edges[j].to = first
    BY <1>4, <2>2, <2>3
  <2>7. WalkOk(d, first, 0, w)
    BY <2>1, <2>2, <2>5, <2>6 DEF WalkOk
  <2> QED
    BY <2>1, <2>7
<1>7. \A k \in Nat : WalkOk(d, first, k, walk[k])
  <2> DEFINE S == {k \in Nat : WalkOk(d, first, k, walk[k])}
  <2>1. 0 \in S
    BY <1>6
  <2>2. ASSUME NEW k \in Nat, k \in S PROVE k + 1 \in S
    <3>1. WalkOk(d, first, k, walk[k])
      BY <2>2
    <3>2. WalkOk(d, first, k + 1, Visit(d, walk[k]))
      BY <3>1, WalkGoesOn
    <3>3. WalkOk(d, first, k + 1, walk[k + 1])
      BY <1>5, <3>2
    <3> QED
      BY <3>3
  <2> HIDE DEF S
  <2>3. Nat \subseteq S
    BY <2>1, <2>2, FromZeroOn
  <2> QED
    BY <2>3 DEF S
<1>8. PICK w : w = walk[n + 1] /\ WalkOk(d, first, n + 1, w) /\ Steps(d) = w.done
  <2>1. n + 1 \in Nat
    OBVIOUS
  <2> QED
    BY <1>5, <1>7, <2>1
<1>9. w.todo = <<>>
  <2> SUFFICES ASSUME w.todo # <<>> PROVE FALSE
    OBVIOUS
  <2>1. w.todo \in Seq(Targets(d)) /\ n + 1 + Len(w.todo) <= Cardinality(Used(d, ToSet(w.done)))
    BY <1>8 DEF WalkOk, Walks
  <2>2. Len(w.todo) \in Nat \ {0}
    BY <2>1, HeadAndTail
  <2>3. /\ Cardinality(Used(d, ToSet(w.done))) \in Nat
        /\ Cardinality(Used(d, ToSet(w.done))) <= n
    BY <1>1, <1>2, UsedIs
  <2> QED
    BY <2>1, <2>2, <2>3
<1>10. PICK done : /\ done = Steps(d) /\ done = w.done /\ done \in Seq(DOMAIN d.names)
                   /\ \A j, k \in DOMAIN done : done[j] = done[k] => j = k
                   /\ \A j \in Used(d, ToSet(done)) :
                        d.edges[j].to \in DOMAIN d.names => d.edges[j].to \in ToSet(done)
                   /\ done = <<>> => first \notin DOMAIN d.names
                   /\ done # <<>> => done[1] = first
  <2>1. ToSet(w.todo) = {} /\ w.todo # <<first>>
    BY <1>9 DEF ToSet
  <2> QED
    BY <1>8, <2>1 DEF WalkOk, Walks
<1>11. PICK S : S = {"start", "end"} \cup ToSet(done)
  OBVIOUS
<1>12. ASSUME NEW e \in ToSet(d.edges), e.from \in S PROVE e.to \in S
  <2>1. PICK j \in DOMAIN d.edges : e = d.edges[j]
    BY DEF ToSet
  <2>2. e.from # "end"
    BY <2>1 DEF Valid, From
  <2>3. j \in Used(d, ToSet(done))
    BY <1>11, <1>12, <2>1, <2>2 DEF Used
  <2>4. e.to # "start" /\ e.to \in DOMAIN d.names \cup {"start", "end"}
    BY <1>1, <2>1 DEF EdgesOk, EdgeOk, Fileable
  <2> QED
    BY <1>10, <1>11, <2>1, <2>3, <2>4
<1>13. FromStart(d) \subseteq S
  <2>1. PICK arcs : arcs = {<<e.from, e.to>> : e \in ToSet(d.edges)}
    OBVIOUS
  <2>2. \A a \in arcs : a[1] \in S => a[2] \in S
    BY <1>12, <2>1
  <2>3. "start" \in S
    BY <1>11
  <2>4. Reached(arcs, "start") \subseteq S
    BY <2>2, <2>3, ReachedWithin
  <2> QED
    BY <2>1, <2>4 DEF FromStart
<1>14. DOMAIN d.names \subseteq ToSet(done)
  <2>1. DOMAIN d.names \subseteq FromStart(d)
    BY DEF Valid
  <2> QED
    BY <1>1, <1>11, <1>13, <2>1
<1>15. ToSet(done) \subseteq DOMAIN d.names
  BY <1>10 DEF ToSet
<1>16. done # <<>>
  <2> SUFFICES ASSUME done = <<>> PROVE FALSE
    OBVIOUS
  <2>1. DOMAIN d.names = {}
    BY <1>14 DEF ToSet
  <2>2. Cardinality(DOMAIN d.names) = 0
    BY <2>1, FS_EmptySet
  <2>3. Cardinality(DOMAIN d.names) >= 2
    BY Zenon DEF Valid
  <2> QED
    BY <2>2, <2>3
<1> QED
  BY <1>3, <1>4, <1>10, <1>14, <1>15, <1>16

LEMMA MaxOfOne == ASSUME NEW i \in Nat PROVE Max({i}) = i
  BY DEF Max

(* What a file holds of a drawing it can hold. *)
FileOf(d, f) ==
    /\ DOMAIN f.graph = {d.names[id] : id \in DOMAIN d.names}
    /\ f.first = d.names[Steps(d)[1]]
    /\ \A id \in DOMAIN d.names :
          /\ DOMAIN f.graph[d.names[id]] = {d.edges[i].status : i \in From(d, id)}
          /\ \A i \in From(d, id) :
                f.graph[d.names[id]][d.edges[i].status] = TargetName(d, d.edges[i].to)

LEMMA MinOfRange == ASSUME NEW n \in Nat, n # 0 PROVE Min(1..n) = 1
<1>1. 1 \in 1..n /\ \A j \in 1..n : 1 <= j
  OBVIOUS
<1> QED
  BY <1>1 DEF Min

(* A target that is not named like the end of a file comes back from it. *)
LEMMA TargetsComeBack == \A t : t # FileEnd => FromFile(InFile(t)) = t
BY DEF FromFile, InFile

(* Of the names of a drawing that a file can hold all are kept, and the one *)
(* start leads to is listed first.                                         *)
LEMMA NamesAreKept ==
    ASSUME NEW d, DrawingOk(d), Valid(d), Fileable(d)
    PROVE  /\ \A id \in DOMAIN d.names :
                d.names[id] \notin Lost /\ d.names[id] \notin {"END", FileEnd, FileStart}
           /\ \A a, b \in DOMAIN d.names : d.names[a] = d.names[b] => a = b
           /\ \A i \in DOMAIN d.edges : d.edges[i].status \notin Lost
           /\ ListedFirst({d.names[id] : id \in DOMAIN d.names}, d.names[Steps(d)[1]])
                = d.names[Steps(d)[1]]
<1> DEFINE names == {d.names[id] : id \in DOMAIN d.names}
<1>1. /\ names \cap ({"END", FileEnd, FileStart} \cup Lost) = {}
      /\ \A a, b \in DOMAIN d.names : d.names[a] = d.names[b] => a = b
      /\ \A e \in ToSet(d.edges) :
            /\ e.status \notin Lost
            /\ e.from = "start" => ListedFirst(names, TargetName(d, e.to)) = TargetName(d, e.to)
  BY Zenon DEF Fileable
<1>2. \A id \in DOMAIN d.names : d.names[id] \in names
  OBVIOUS
<1>3. \A i \in DOMAIN d.edges : d.edges[i] \in ToSet(d.edges)
  BY DEF ToSet
<1>4. PICK i \in DOMAIN d.edges : From(d, "start") = {i} /\ d.edges[i].to = Steps(d)[1]
  BY StepsAreRoles
<1>5. d.edges[i].from = "start"
  BY <1>4 DEF From
<1>6. Steps(d)[1] \in DOMAIN d.names
  <2>1. PICK n \in Nat : /\ DOMAIN Steps(d) = 1..n /\ n # 0
                         /\ \A k \in 1..n : Steps(d)[k] \in DOMAIN d.names
    BY StepsAreRoles
  <2> QED
    BY <2>1
<1>7. "end" \notin DOMAIN d.names
  BY IdsAre DEF DrawingOk, NamesOk
<1>8. TargetName(d, d.edges[i].to) = d.names[Steps(d)[1]]
  BY <1>4, <1>6, <1>7 DEF TargetName
<1>9. ListedFirst(names, d.names[Steps(d)[1]]) = d.names[Steps(d)[1]]
  <2> HIDE DEF names
  <2> QED
    BY <1>1, <1>3, <1>4, <1>5, <1>8
<1>10. \A id \in DOMAIN d.names :
          d.names[id] \notin Lost /\ d.names[id] \notin {"END", FileEnd, FileStart}
  <2> HIDE DEF names
  <2> QED
    BY <1>1, <1>2
<1>11. \A j \in DOMAIN d.edges : d.edges[j].status \notin Lost
  BY <1>1, <1>3
<1> HIDE DEF names
<1> QED
  BY <1>1, <1>9, <1>10, <1>11 DEF names

LEMMA FiledIs ==
    ASSUME NEW d, DrawingOk(d), Valid(d), Fileable(d)
    PROVE  FileOf(d, PayloadToSteps(Filed(d)))
<1>1. PICK steps : steps = Steps(d)
  OBVIOUS
<1>2. /\ steps \in Seq(DOMAIN d.names) /\ steps # <<>> /\ ToSet(steps) = DOMAIN d.names
      /\ \A i, j \in DOMAIN steps : steps[i] = steps[j] => i = j
  BY <1>1, StepsAreRoles
<1>3. PICK n \in Nat : DOMAIN steps = 1..n
  BY <1>2
<1> DEFINE out(name) == From(d, steps[Max({k \in DOMAIN steps : d.names[steps[k]] = name})])
           to(name, s) == d.edges[Max({i \in out(name) : d.edges[i].status = s})].to
           moves(name) == [s \in {d.edges[i].status : i \in out(name)} \ Lost |-> InFile(TargetName(d, to(name, s)))]
           graph(name) == IF name = FileStart THEN [s \in {"_"} |-> d.names[steps[1]]] ELSE moves(name)
           names == {d.names[steps[k]] : k \in DOMAIN steps}
<1>4. Filed(d) = [first |-> d.names[steps[1]], graph |-> [name \in names |-> graph(name)]]
  <2> DEFINE kept == {k \in DOMAIN steps : d.names[steps[k]] \notin Lost}
  <2>1. kept = DOMAIN steps
    <3>1. \A k \in DOMAIN steps : steps[k] \in DOMAIN d.names
      BY <1>2, <1>3
    <3> QED
      BY <3>1, NamesAreKept
  <2>2. n # 0 /\ DOMAIN steps # {}
    BY <1>2, <1>3
  <2>3. Min(kept) = 1
    <3> HIDE DEF kept
    <3> QED
      BY <1>3, <2>1, <2>2, MinOfRange
  <2>4. names = {d.names[id] : id \in DOMAIN d.names}
    BY <1>2 DEF ToSet
  <2>5. ListedFirst(names, d.names[steps[1]]) = d.names[steps[1]]
    <3> HIDE DEF names
    <3> QED
      BY <1>1, <2>4, NamesAreKept
  <2> DEFINE knames == {d.names[steps[k]] : k \in kept}
             kout(name) == From(d, steps[Max({k \in kept : d.names[steps[k]] = name})])
             kto(name, s) == d.edges[Max({i \in kout(name) : d.edges[i].status = s})].to
             kmoves(name) == [s \in {d.edges[i].status : i \in kout(name)} \ Lost |->
                                InFile(TargetName(d, kto(name, s)))]
             kgraph(name) == IF name = FileStart THEN [s \in {"_"} |-> d.names[steps[1]]] ELSE kmoves(name)
  <2>6. Filed(d) = [first |-> IF kept = {} THEN NoRole ELSE ListedFirst(knames, d.names[steps[Min(kept)]]),
                    graph |-> [name \in knames |-> kgraph(name)]]
    BY <1>1, Zenon DEF Filed, StatusOf
  <2>7. knames = names /\ \A name : kout(name) = out(name)
    <3> HIDE DEF kept
    <3> QED
      BY <2>1
  <2> HIDE DEF kout, out
  <2>8. \A name : kmoves(name) = moves(name)
    BY <2>7
  <2> HIDE DEF kmoves, moves
  <2>9. \A name : kgraph(name) = graph(name)
    BY <2>8
  <2> HIDE DEF kgraph, graph, kept, knames, names
  <2> QED
    BY <2>1, <2>2, <2>3, <2>5, <2>6, <2>7, <2>9
<1>5. ASSUME NEW id \in DOMAIN d.names PROVE out(d.names[id]) = From(d, id)
  <2>1. PICK k \in 1..n : steps[k] = id
    BY <1>2, <1>3 DEF ToSet
  <2>2. \A j \in 1..n : steps[j] \in DOMAIN d.names
    BY <1>2, <1>3
  <2>3. \A a, b \in DOMAIN d.names : d.names[a] = d.names[b] => a = b
    BY NamesAreKept
  <2>4. {j \in DOMAIN steps : d.names[steps[j]] = d.names[id]} = {k}
    BY <1>2, <1>3, <2>1, <2>2, <2>3
  <2>5. Max({k}) = k
    BY <2>1, MaxOfOne
  <2> QED
    BY <2>1, <2>4, <2>5
<1>6. ASSUME NEW id \in DOMAIN d.names, NEW i \in From(d, id)
      PROVE  to(d.names[id], d.edges[i].status) = d.edges[i].to
  <2>1. i \in Nat /\ i \in DOMAIN d.edges
    <3>1. From(d, id) \in SUBSET (1..Len(d.edges)) /\ Len(d.edges) \in Nat
      BY OutOf DEF DrawingOk
    <3> QED
      BY <3>1 DEF From
  <2>2. \A j \in From(d, id) : d.edges[j].status = d.edges[i].status => j = i
    BY DEF Fileable, From
  <2>3. {j \in From(d, id) : d.edges[j].status = d.edges[i].status} = {i}
    BY <2>2
  <2>4. Max({i}) = i
    BY <2>1, MaxOfOne
  <2>5. {j \in out(d.names[id]) : d.edges[j].status = d.edges[i].status} = {i}
    <3> HIDE DEF out
    <3> QED
      BY <1>5, <2>3
  <2> HIDE DEF out
  <2> QED
    BY <2>4, <2>5
<1>7. ASSUME NEW id \in DOMAIN d.names, NEW i \in From(d, id)
      PROVE  FromFile(InFile(TargetName(d, d.edges[i].to))) = TargetName(d, d.edges[i].to)
  <2>1. d.edges[i] \in ToSet(d.edges) /\ EdgeOk(d.edges[i])
    BY DEF ToSet, From, DrawingOk, EdgesOk
  <2>2. d.edges[i].to \in DOMAIN d.names \cup {"end"}
    BY <2>1 DEF EdgeOk, Fileable
  <2>3. TargetName(d, d.edges[i].to) # FileEnd
    <3>1. "END" # FileEnd
      BY Zenon DEF FileEnd
    <3> QED
      BY <2>2, <3>1, NamesAreKept DEF TargetName
  <2> QED
    BY <2>3, TargetsComeBack
<1> HIDE DEF out, to
<1>8. PICK f : f = PayloadToSteps(Filed(d))
  OBVIOUS
<1>9. /\ f.first = d.names[steps[1]]
      /\ DOMAIN f.graph = names
      /\ \A id \in DOMAIN d.names :
            f.graph[d.names[id]] = [s \in DOMAIN moves(d.names[id]) |-> FromFile(moves(d.names[id])[s])]
  <2>1. \A id \in DOMAIN d.names : d.names[id] \in names /\ d.names[id] # FileStart
    BY <1>2, NamesAreKept DEF ToSet
  <2> HIDE DEF moves, names
  <2>2. \A id \in DOMAIN d.names : graph(d.names[id]) = moves(d.names[id])
    BY <2>1
  <2> HIDE DEF graph
  <2>3. PICK g : g = Filed(d) /\ g.first = d.names[steps[1]] /\ g.graph = [name \in names |-> graph(name)]
    BY <1>4
  <2>4. f = [first |-> g.first,
             graph |-> [r \in DOMAIN g.graph |-> [s \in DOMAIN g.graph[r] |-> FromFile(g.graph[r][s])]]]
    BY <1>8, <2>3 DEF PayloadToSteps
  <2>5. /\ f.first = g.first
        /\ f.graph = [r \in DOMAIN g.graph |-> [s \in DOMAIN g.graph[r] |-> FromFile(g.graph[r][s])]]
    BY <2>4
  <2>6. DOMAIN g.graph = names /\ \A id \in DOMAIN d.names : g.graph[d.names[id]] = moves(d.names[id])
    BY <2>1, <2>2, <2>3
  <2>7. f.first = d.names[steps[1]] /\ DOMAIN f.graph = names
    BY <2>3, <2>5, <2>6
  <2>8. ASSUME NEW id \in DOMAIN d.names
        PROVE  f.graph[d.names[id]] = [s \in DOMAIN moves(d.names[id]) |-> FromFile(moves(d.names[id])[s])]
    <3>1. PICK r : r = d.names[id] /\ r \in DOMAIN g.graph /\ g.graph[r] = moves(r)
      BY <2>1, <2>6
    <3>2. f.graph[r] = [s \in DOMAIN g.graph[r] |-> FromFile(g.graph[r][s])]
      BY <2>5, <3>1
    <3> QED
      BY <3>1, <3>2
  <2> QED
    BY <2>7, <2>8, Zenon
<1>10. ASSUME NEW id \in DOMAIN d.names
      PROVE  /\ DOMAIN f.graph[d.names[id]] = {d.edges[i].status : i \in From(d, id)}
             /\ \A i \in From(d, id) :
                  f.graph[d.names[id]][d.edges[i].status] = TargetName(d, d.edges[i].to)
  <2>1. \A i \in From(d, id) : d.edges[i].status \notin Lost
    BY NamesAreKept DEF From
  <2>2. {d.edges[i].status : i \in out(d.names[id])} \ Lost = {d.edges[i].status : i \in From(d, id)}
    BY <1>5, <2>1
  <2>3. moves(d.names[id])
          = [s \in {d.edges[i].status : i \in From(d, id)} |-> InFile(TargetName(d, to(d.names[id], s)))]
    BY <2>2
  <2>4. f.graph[d.names[id]] = [s \in DOMAIN moves(d.names[id]) |-> FromFile(moves(d.names[id])[s])]
    BY <1>9
  <2>5. DOMAIN f.graph[d.names[id]] = {d.edges[i].status : i \in From(d, id)}
    <3> HIDE DEF moves
    <3> QED
      BY <2>3, <2>4
  <2>6. ASSUME NEW i \in From(d, id)
        PROVE  f.graph[d.names[id]][d.edges[i].status] = TargetName(d, d.edges[i].to)
    <3>1. moves(d.names[id])[d.edges[i].status] = InFile(TargetName(d, to(d.names[id], d.edges[i].status)))
      <4> HIDE DEF moves
      <4> QED
        BY <2>3
    <3>2. moves(d.names[id])[d.edges[i].status] = InFile(TargetName(d, d.edges[i].to))
      BY <1>6, <3>1, Zenon
    <3>3. d.edges[i].status \in DOMAIN moves(d.names[id])
      <4> HIDE DEF moves
      <4> QED
        BY <2>3
    <3> HIDE DEF moves
    <3>4. f.graph[d.names[id]][d.edges[i].status] = FromFile(InFile(TargetName(d, d.edges[i].to)))
      BY <2>4, <3>2, <3>3
    <3> QED
      BY <1>7, <3>4
  <2> QED
    BY <2>5, <2>6
<1>11. names = {d.names[id] : id \in DOMAIN d.names}
  BY <1>2 DEF ToSet
<1> HIDE DEF names
<1>12. FileOf(d, f)
  BY <1>1, <1>9, <1>10, <1>11 DEF FileOf
<1> QED
  BY <1>8, <1>12

-----------------------------------------------------------------------------
ImageOk(S, f) == IsFiniteSet({f[x] : x \in S}) /\ Cardinality({f[x] : x \in S}) <= Cardinality(S)

LEMMA ImageIsFinite == ASSUME NEW S, IsFiniteSet(S), NEW f PROVE ImageOk(S, f)
<1>1. PICK T : T = {f[x] : x \in S}
  OBVIOUS
<1>2. PICK g : g = [x \in S |-> f[x]]
  OBVIOUS
<1>3. g \in Surjection(S, T)
  BY <1>1, <1>2 DEF Surjection
<1>4. IsFiniteSet(T) /\ Cardinality(T) <= Cardinality(S)
  BY <1>3, FS_Surjection
<1> QED
  BY <1>1, <1>4 DEF ImageOk

\* A file whose roles get nodes of their own.
Roles(f) == DOMAIN f.graph
FileOk(f) ==
    /\ IsFiniteSet(Roles(f)) /\ Cardinality(Roles(f)) <= Len(NodeIds)
    /\ \A r \in Roles(f) : IsFiniteSet(DOMAIN f.graph[r])
    /\ f.first \in Roles(f)

\* The nodes: the first role the first, one node to a role.
Order(f) == <<f.first>> \o SetToSeq(Roles(f) \ {f.first})
NodeOf(f) == [r \in Roles(f) |-> NodeIds[CHOOSE i \in DOMAIN Order(f) : Order(f)[i] = r]]

LEMMA NodesAre ==
    ASSUME NEW f, FileOk(f)
    PROVE  /\ NodeOf(f) \in [Roles(f) -> Ids]
           /\ \A q, r \in Roles(f) : NodeOf(f)[q] = NodeOf(f)[r] => q = r
<1>1. PICK first, others, rest :
        first = f.first /\ others = Roles(f) \ {first} /\ rest = SetToSeq(others)
  OBVIOUS
<1>2. /\ IsFiniteSet(Roles(f)) /\ Cardinality(Roles(f)) \in Nat /\ Cardinality(Roles(f)) <= Len(NodeIds)
      /\ first \in Roles(f)
  BY <1>1, FS_CardinalityType DEF FileOk
<1>3. IsFiniteSet(others) /\ Cardinality(others) = Cardinality(Roles(f)) - 1
  BY <1>1, <1>2, FS_RemoveElement
<1>4. PICK n \in Nat : n = Cardinality(others) /\ n + 1 <= Len(NodeIds)
  <2>1. Cardinality(others) \in Nat
    BY <1>3, FS_CardinalityType
  <2>2. Cardinality(others) + 1 <= Len(NodeIds)
    BY <1>2, <1>3, IdsAre
  <2> QED
    BY <2>1, <2>2
<1>5. /\ rest \in Seq(others) /\ Len(rest) = n
      /\ \A x \in others : \E i \in 1..n : rest[i] = x
  <2>1. Lists(others, rest)
    BY <1>1, <1>3, SequenceOfSet
  <2> QED
    BY <1>4, <2>1 DEF Lists
<1>6. PICK order : order = Order(f) /\ order = <<first>> \o rest
  BY <1>1 DEF Order
<1>7. /\ DOMAIN order = 1..(n + 1) /\ order[1] = first /\ \A i \in 1..n : order[i + 1] = rest[i]
  <2>1. rest \in Seq(Roles(f)) /\ <<first>> \in Seq(Roles(f)) /\ Len(<<first>>) = 1 /\ <<first>>[1] = first
    BY <1>1, <1>2, <1>5
  <2>2. /\ Len(order) = 1 + n /\ order \in Seq(Roles(f))
        /\ \A i \in 1..1 : order[i] = <<first>>[i]
        /\ \A i \in 1..n : order[i + 1] = rest[i]
    BY <1>5, <1>6, <2>1
  <2> QED
    BY <2>1, <2>2
<1>8. \A r \in Roles(f) : \E i \in 1..(n + 1) : order[i] = r
  <2> SUFFICES ASSUME NEW r \in Roles(f) PROVE \E i \in 1..(n + 1) : order[i] = r
    OBVIOUS
  <2>1. CASE r = first
    BY <1>7, <2>1
  <2>2. CASE r # first
    <3>1. PICK i \in 1..n : rest[i] = r
      BY <1>1, <1>5, <2>2
    <3>2. i + 1 \in 1..(n + 1) /\ order[i + 1] = r
      BY <1>7, <3>1
    <3> QED
      BY <3>2
  <2> QED
    BY <2>1, <2>2
<1> DEFINE at(r) == CHOOSE i \in DOMAIN order : order[i] = r
<1>9. \A r \in Roles(f) : at(r) \in 1..Len(NodeIds) /\ order[at(r)] = r
  <2> SUFFICES ASSUME NEW r \in Roles(f) PROVE at(r) \in 1..Len(NodeIds) /\ order[at(r)] = r
    OBVIOUS
  <2>1. at(r) \in 1..(n + 1) /\ order[at(r)] = r
    BY <1>7, <1>8
  <2> HIDE DEF at
  <2> QED
    BY <1>4, <2>1, IdsAre
<1>10. NodeOf(f) = [r \in Roles(f) |-> NodeIds[at(r)]]
  BY <1>6 DEF NodeOf
<1> HIDE DEF at
<1> QED
  BY <1>9, <1>10, IdsAre

\* What is drawn of the move of a role on a status.
Known(f, r) == {s \in DOMAIN f.graph[r] : f.graph[r][s] \in Roles(f) \cup {"END"}}
PlaceFor(f, r, s) == IF f.graph[r][s] \in Roles(f) THEN NodeOf(f)[f.graph[r][s]] ELSE "end"
Move(f, e, r, s) == e.from = NodeOf(f)[r] /\ e.status = s /\ e.to = PlaceFor(f, r, s)

LoadedOf(f, drawing) ==
    /\ drawing.names = [i \in {NodeOf(f)[r] : r \in Roles(f)} |->
                          CHOOSE r \in Roles(f) : NodeOf(f)[r] = i]
    /\ EdgesOk(drawing.edges)
    /\ \A e \in ToSet(drawing.edges) :
          \/ e.from = "start" /\ e.to = NodeOf(f)[f.first]
          \/ \E r \in Roles(f) : \E s \in Known(f, r) : Move(f, e, r, s)
    /\ \E e \in ToSet(drawing.edges) : e.from = "start" /\ e.to = NodeOf(f)[f.first]
    /\ \A r \in Roles(f) : \A s \in Known(f, r) : \E e \in ToSet(drawing.edges) : Move(f, e, r, s)

\* A sound edge from one id to another on a status.
Edge(e, from, to, status) == EdgeOk(e) /\ e.from = from /\ e.to = to /\ e.status = status

LEMMA PlainIs ==
    ASSUME NEW from, NEW to, NEW n, to # "start"
    PROVE  Edge(Plain(from, to, n), from, to, "_")
  BY DEF Plain, EdgeOk, Edge

LEMMA LabelledIs ==
    ASSUME NEW e, EdgeOk(e), NEW status
    PROVE  /\ EdgeOk(Labelled(e, status)) /\ Labelled(e, status).from = e.from
           /\ Labelled(e, status).to = e.to /\ Labelled(e, status).status = status
<1>1. PICK x : x = Labelled(e, status)
  OBVIOUS
<1>2. PICK from, to, n : from = e.from /\ to = e.to /\ n = e.n
  OBVIOUS
<1>3. PICK kind, was : e = [from |-> from, to |-> to, n |-> n, kind |-> kind, status |-> was]
  BY <1>2 DEF EdgeOk
<1>4. x = [e EXCEPT !.kind = "status", !.status = status]
  BY <1>1 DEF Labelled
<1>5. x = [from |-> from, to |-> to, n |-> n, kind |-> "status", status |-> status]
  BY <1>3, <1>4
<1>6. EdgeOk(x)
  BY <1>2, <1>5 DEF EdgeOk
<1> QED
  BY <1>1, <1>2, <1>5, <1>6

LEMMA LoadedIs == ASSUME NEW f, FileOk(f) PROVE LoadedOf(f, TransIn(f))
<1>1. f.first \in Roles(f) /\ IsFiniteSet(Roles(f)) /\ \A r \in Roles(f) : IsFiniteSet(DOMAIN f.graph[r])
  BY DEF FileOk
<1>2. NodeOf(f) \in [Roles(f) -> Ids] /\ "start" \notin Ids
  BY NodesAre, IdsAre
<1> DEFINE plain(r, s) == Plain(NodeOf(f)[r], PlaceFor(f, r, s), s)
           edge(r, s) == IF s # "_" \/ Cardinality(DOMAIN f.graph[r]) > 1
                         THEN Labelled(plain(r, s), s) ELSE plain(r, s)
           fan(r) == {edge(r, s) : s \in Known(f, r)}
           S == UNION {fan(r) : r \in Roles(f)}
           e0 == Plain("start", NodeOf(f)[f.first], "_")
<1>3. ASSUME NEW r \in Roles(f), NEW s \in Known(f, r)
      PROVE  EdgeOk(edge(r, s)) /\ Move(f, edge(r, s), r, s)
  <2>1. PICK a, b : a = NodeOf(f)[r] /\ b = PlaceFor(f, r, s)
    OBVIOUS
  <2>2. b # "start"
    BY <1>2, <2>1 DEF PlaceFor, Known
  <2>3. PICK p : p = plain(r, s) /\ p = Plain(a, b, s)
    BY <2>1
  <2>8. Edge(Plain(a, b, s), a, b, "_")
    BY <2>2, PlainIs
  <2>4. EdgeOk(p) /\ p.from = a /\ p.to = b /\ p.status = "_"
    BY <2>3, <2>8 DEF Edge
  <2>5. PICK q : q = Labelled(p, s) /\ EdgeOk(q) /\ q.from = a /\ q.to = b /\ q.status = s
    BY <2>4, LabelledIs
  <2>6. Move(f, q, r, s) /\ (s = "_" => Move(f, p, r, s))
    BY <2>1, <2>4, <2>5 DEF Move
  <2>7. edge(r, s) = q \/ (edge(r, s) = p /\ s = "_")
    BY <2>3, <2>5
  <2> HIDE DEF edge
  <2> QED
    BY <2>4, <2>5, <2>6, <2>7
<1>4. EdgeOk(e0) /\ e0.from = "start" /\ e0.to = NodeOf(f)[f.first]
  <2>1. PICK b : b = NodeOf(f)[f.first] /\ b # "start"
    BY <1>1, <1>2
  <2>2. Edge(Plain("start", b, "_"), "start", b, "_")
    BY <2>1, PlainIs
  <2> QED
    BY <2>1, <2>2 DEF Edge
<1> HIDE DEF plain, edge, e0
<1>5. IsFiniteSet(S)
  <2>1. ASSUME NEW r \in Roles(f) PROVE IsFiniteSet(fan(r))
    <3>1. IsFiniteSet(Known(f, r))
      <4>1. IsFiniteSet(DOMAIN f.graph[r]) /\ Known(f, r) \in SUBSET DOMAIN f.graph[r]
        BY <1>1 DEF Known
      <4> QED
        BY <4>1, FS_Subset
    <3>2. PICK g : g = [s \in Known(f, r) |-> edge(r, s)]
      OBVIOUS
    <3>3. fan(r) = {g[s] : s \in Known(f, r)}
      BY <3>2
    <3>4. ImageOk(Known(f, r), g)
      BY <3>1, ImageIsFinite
    <3> HIDE DEF fan
    <3> QED
      BY <3>3, <3>4 DEF ImageOk
  <2> HIDE DEF fan
  <2>6. PICK R : R = Roles(f) /\ IsFiniteSet(R)
    BY <1>1
  <2>2. PICK g : g = [r \in R |-> fan(r)]
    OBVIOUS
  <2>3. PICK fans : fans = {fan(r) : r \in R} /\ fans = {g[r] : r \in R}
    BY <2>2
  <2>7. ImageOk(R, g)
    BY <2>6, ImageIsFinite
  <2>4. IsFiniteSet(fans)
    BY <2>3, <2>7 DEF ImageOk
  <2>5. \A T \in fans : IsFiniteSet(T)
    BY <2>1, <2>3, <2>6
  <2> QED
    BY <2>3, <2>4, <2>5, <2>6, FS_UNION
<1>6. PICK E : E = S
  OBVIOUS
<1>7. PICK m, rest : /\ m \in Nat /\ rest = SetToSeq(E) /\ rest \in Seq(E) /\ Len(rest) = m
                     /\ \A x \in E : \E i \in 1..m : rest[i] = x
  <2>1. PICK rest : rest = SetToSeq(E)
    OBVIOUS
  <2>2. PICK m : m = Cardinality(E)
    OBVIOUS
  <2> HIDE DEF S
  <2>4. Lists(E, rest)
    BY <1>5, <1>6, <2>1, SequenceOfSet
  <2>3. m \in Nat /\ rest \in Seq(E) /\ Len(rest) = m /\ \A x \in E : \E i \in 1..m : rest[i] = x
    BY <2>2, <2>4 DEF Lists
  <2> QED
    BY <2>1, <2>3
<1>8. PICK edges : edges = <<e0>> \o rest
  OBVIOUS
<1>9. /\ edges \in Seq(E \cup {e0})
      /\ ToSet(edges) = E \cup {e0}
  <2> HIDE DEF S
  <2>1. <<e0>> \in Seq(E \cup {e0}) /\ rest \in Seq(E \cup {e0})
    BY <1>7
  <2>2. edges \in Seq(E \cup {e0}) /\ \A x \in ToSet(<<e0>>) \cup ToSet(rest) : x \in ToSet(edges)
    BY <1>8, <2>1, Joined
  <2>3. ToSet(<<e0>>) = {e0} /\ ToSet(rest) = E
    BY <1>7 DEF ToSet
  <2>4. ToSet(edges) \subseteq E \cup {e0}
    BY <2>2 DEF ToSet
  <2> QED
    BY <2>2, <2>3, <2>4
<1>10. TransIn(f) = [names |-> [i \in {NodeOf(f)[r] : r \in Roles(f)} |-> CHOOSE r \in Roles(f) : NodeOf(f)[r] = i],
                     edges |-> edges]
  <2>1. Roles(f) # {}
    BY <1>1
  <2>2. TransIn(f) = [names |-> [i \in {NodeOf(f)[r] : r \in Roles(f)} |->
                                  CHOOSE r \in Roles(f) : NodeOf(f)[r] = i],
                     edges |-> <<e0>> \o SetToSeq(S)]
    BY <2>1 DEF TransIn, Roles, NodeOf, Order, Known, PlaceFor, plain, edge, e0
  <2> QED
    BY <1>6, <1>7, <1>8, <2>2
<1>11. PICK drawing : /\ drawing = TransIn(f) /\ drawing.edges = edges
                      /\ drawing.names = [i \in {NodeOf(f)[r] : r \in Roles(f)} |->
                                            CHOOSE r \in Roles(f) : NodeOf(f)[r] = i]
  <2>1. PICK names : names = [i \in {NodeOf(f)[r] : r \in Roles(f)} |->
                                CHOOSE r \in Roles(f) : NodeOf(f)[r] = i]
    OBVIOUS
  <2>2. PICK drawing : drawing = TransIn(f) /\ drawing = [names |-> names, edges |-> edges]
    BY <1>10, <2>1
  <2>3. drawing.names = names /\ drawing.edges = edges
    BY <2>2
  <2> QED
    BY <2>1, <2>2, <2>3, Zenon
<1>12. \A x \in E : \E r \in Roles(f) : \E s \in Known(f, r) : x = edge(r, s)
  BY <1>6
<1>13. \A r \in Roles(f) : \A s \in Known(f, r) : edge(r, s) \in E
  BY <1>6
<1> HIDE DEF S
<1>14. EdgesOk(edges)
  <2>1. \A x \in E \cup {e0} : EdgeOk(x)
    BY <1>3, <1>4, <1>12
  <2>2. \A i \in DOMAIN edges : edges[i] \in E \cup {e0}
    BY <1>9
  <2> QED
    BY <1>9, <2>1, <2>2 DEF EdgesOk
<1>15. \A e \in ToSet(edges) :
          \/ e.from = "start" /\ e.to = NodeOf(f)[f.first]
          \/ \E r \in Roles(f) : \E s \in Known(f, r) : Move(f, e, r, s)
  BY <1>3, <1>4, <1>9, <1>12
<1>16. \E e \in ToSet(edges) : e.from = "start" /\ e.to = NodeOf(f)[f.first]
  BY <1>4, <1>9
<1>17. \A r \in Roles(f) : \A s \in Known(f, r) : \E e \in ToSet(edges) : Move(f, e, r, s)
  BY <1>3, <1>9, <1>13
<1>18. LoadedOf(f, drawing)
  BY <1>11, <1>14, <1>15, <1>16, <1>17 DEF LoadedOf
<1> QED
  BY <1>11, <1>18

LEMMA FileIsOk ==
    ASSUME NEW d, DrawingOk(d), Valid(d), Fileable(d), NEW f, FileOf(d, f)
    PROVE  FileOk(f)
<1>1. PICK N, names : N = DOMAIN d.names /\ names = d.names
  OBVIOUS
<1>2. IsFiniteSet(N) /\ Cardinality(N) \in Nat /\ Cardinality(N) <= Len(NodeIds)
  <2>1. N \in SUBSET Ids
    BY <1>1 DEF DrawingOk, NamesOk
  <2>2. IsFiniteSet(Ids) /\ Cardinality(Ids) <= Len(NodeIds) /\ Len(NodeIds) \in Nat
    BY IdsAre
  <2>3. IsFiniteSet(N) /\ Cardinality(N) <= Cardinality(Ids)
    BY <2>1, <2>2, FS_Subset
  <2>4. Cardinality(N) \in Nat /\ Cardinality(Ids) \in Nat
    BY <2>2, <2>3, FS_CardinalityType
  <2> QED
    BY <2>2, <2>3, <2>4
<1>3. PICK roles : roles = Roles(f) /\ roles = {names[x] : x \in N}
  <2>1. Roles(f) = {d.names[x] : x \in DOMAIN d.names}
    BY DEF FileOf, Roles
  <2>2. Roles(f) = {names[x] : x \in N}
    BY <1>1, <2>1
  <2> QED
    BY <2>2
<1>4. IsFiniteSet(roles) /\ Cardinality(roles) <= Len(NodeIds)
  <2>1. ImageOk(N, names)
    BY <1>2, ImageIsFinite
  <2>2. IsFiniteSet(roles) /\ Cardinality(roles) <= Cardinality(N)
    BY <1>3, <2>1 DEF ImageOk
  <2>3. Cardinality(roles) \in Nat /\ Len(NodeIds) \in Nat
    BY <2>2, FS_CardinalityType, IdsAre
  <2> QED
    BY <1>2, <2>2, <2>3
<1>5. ASSUME NEW r \in roles PROVE IsFiniteSet(DOMAIN f.graph[r])
  <2>1. PICK id \in N : r = d.names[id]
    BY <1>1, <1>3
  <2>2. PICK I : I = From(d, id) /\ IsFiniteSet(I)
    BY OutOf DEF DrawingOk
  <2>3. PICK g : g = [i \in I |-> d.edges[i].status]
    OBVIOUS
  <2>4. ImageOk(I, g)
    BY <2>2, ImageIsFinite
  <2>5. DOMAIN f.graph[r] = {d.edges[i].status : i \in I}
    BY <1>1, <2>1, <2>2 DEF FileOf
  <2>6. DOMAIN f.graph[r] = {g[i] : i \in I}
    BY <2>3, <2>5
  <2> QED
    BY <2>4, <2>6 DEF ImageOk
<1>6. f.first \in roles
  <2>1. PICK n \in Nat : /\ DOMAIN Steps(d) = 1..n /\ n # 0
                         /\ \A i \in 1..n : Steps(d)[i] \in DOMAIN d.names
    BY StepsAreRoles
  <2>2. Steps(d)[1] \in N
    BY <1>1, <2>1
  <2>3. f.first = names[Steps(d)[1]]
    BY <1>1 DEF FileOf
  <2> QED
    BY <1>3, <2>2, <2>3
<1> QED
  BY <1>3, <1>4, <1>5, <1>6 DEF FileOk

\* What is drawn of a file is what the file says.
FileShown(f) ==
    [roles |-> Roles(f), first |-> {f.first},
     moves |-> UNION {{<<r, s, f.graph[r][s]>> : s \in DOMAIN f.graph[r]} : r \in Roles(f)}]

\* Every target a file names is a role of it or the end.
Resolved(f) ==
    /\ "END" \notin Roles(f)
    /\ \A r \in Roles(f) : \A s \in DOMAIN f.graph[r] : f.graph[r][s] \in Roles(f) \cup {"END"}

LEMMA FileShowsDrawing ==
    ASSUME NEW d, DrawingOk(d), Valid(d), Fileable(d), NEW f, FileOf(d, f)
    PROVE  Shown(d) = FileShown(f) /\ Resolved(f)
<1>1. PICK N, name, roles : N = DOMAIN d.names /\ name = d.names /\ roles = {name[x] : x \in N}
  OBVIOUS
<1>2. Roles(f) = roles /\ "start" \notin N /\ "end" \notin N
  BY <1>1, IdsAre DEF FileOf, Roles, DrawingOk, NamesOk
<1>3. "END" \notin roles
  BY <1>1, NamesAreKept
<1>4. ASSUME NEW id \in N
      PROVE  /\ DOMAIN f.graph[name[id]] = {d.edges[i].status : i \in From(d, id)}
             /\ \A i \in From(d, id) : f.graph[name[id]][d.edges[i].status] = TargetName(d, d.edges[i].to)
  BY <1>1 DEF FileOf
<1>5. ASSUME NEW i \in DOMAIN d.edges
      PROVE  TargetName(d, d.edges[i].to) \in roles \cup {"END"}
  <2>1. d.edges[i] \in ToSet(d.edges) /\ EdgeOk(d.edges[i])
    BY DEF ToSet, DrawingOk, EdgesOk
  <2>2. d.edges[i].to \in N \cup {"end"}
    BY <1>1, <2>1 DEF EdgeOk, Fileable
  <2>3. PICK to \in N \cup {"end"} : to = d.edges[i].to
    BY <2>2
  <2>4. TargetName(d, to) \in roles \cup {"END"}
    BY <1>1, <1>2 DEF TargetName
  <2> QED
    BY <2>3, <2>4
<1>6. Resolved(f)
  <2> SUFFICES ASSUME NEW r \in roles, NEW s \in DOMAIN f.graph[r]
               PROVE f.graph[r][s] \in roles \cup {"END"}
    BY <1>2, <1>3 DEF Resolved
  <2>1. PICK id \in N : r = name[id]
    BY <1>1
  <2>2. PICK i \in From(d, id) : s = d.edges[i].status
    BY <1>4, <2>1
  <2>3. f.graph[r][s] = TargetName(d, d.edges[i].to)
    BY <1>4, <2>1, <2>2
  <2>4. i \in DOMAIN d.edges
    BY <2>2 DEF From
  <2> QED
    BY <1>5, <2>3, <2>4
<1>7. {TargetName(d, e.to) : e \in {x \in ToSet(d.edges) : x.from = "start"}} = {f.first}
  <2>1. PICK i \in DOMAIN d.edges : From(d, "start") = {i} /\ d.edges[i].to = Steps(d)[1]
    BY StepsAreRoles
  <2>2. {x \in ToSet(d.edges) : x.from = "start"} = {d.edges[i]}
    BY <2>1 DEF From, ToSet
  <2>3. Steps(d)[1] \in N
    <3>1. PICK n \in Nat : /\ DOMAIN Steps(d) = 1..n /\ n # 0
                           /\ \A k \in 1..n : Steps(d)[k] \in DOMAIN d.names
      BY StepsAreRoles
    <3> QED
      BY <1>1, <3>1
  <2>4. TargetName(d, Steps(d)[1]) = f.first
    <3>1. f.first = d.names[Steps(d)[1]] /\ Steps(d)[1] \in DOMAIN d.names /\ Steps(d)[1] # "end"
      BY <1>1, <1>2, <2>3 DEF FileOf
    <3> QED
      BY <3>1 DEF TargetName
  <2> QED
    BY <2>1, <2>2, <2>4
<1> DEFINE drawn == {<<d.names[e.from], e.status, TargetName(d, e.to)>> :
                       e \in {x \in ToSet(d.edges) : x.from \in DOMAIN d.names}}
           filed == UNION {{<<r, s, f.graph[r][s]>> : s \in DOMAIN f.graph[r]} : r \in Roles(f)}
<1>8. drawn \subseteq filed
  <2> SUFFICES ASSUME NEW e \in ToSet(d.edges), e.from \in DOMAIN d.names
               PROVE <<d.names[e.from], e.status, TargetName(d, e.to)>> \in filed
    OBVIOUS
  <2>1. PICK i \in DOMAIN d.edges : e = d.edges[i]
    BY DEF ToSet
  <2>2. PICK id \in N : id = e.from
    BY <1>1
  <2>3. i \in From(d, id)
    BY <2>1, <2>2 DEF From
  <2>4. e.status \in DOMAIN f.graph[name[id]] /\ f.graph[name[id]][e.status] = TargetName(d, e.to)
    BY <1>4, <2>1, <2>3
  <2>5. name[id] \in Roles(f) /\ d.names[e.from] = name[id]
    BY <1>1, <1>2, <2>2
  <2>6. <<name[id], e.status, f.graph[name[id]][e.status]>> \in filed
    BY <2>4, <2>5
  <2> QED
    BY <2>4, <2>5, <2>6
<1>9. filed \subseteq drawn
  <2> SUFFICES ASSUME NEW r \in roles, NEW s \in DOMAIN f.graph[r]
               PROVE <<r, s, f.graph[r][s]>> \in drawn
    BY <1>2
  <2>1. PICK id \in N : r = name[id]
    BY <1>1
  <2>2. PICK i \in From(d, id) : s = d.edges[i].status
    BY <1>4, <2>1
  <2>3. f.graph[r][s] = TargetName(d, d.edges[i].to)
    BY <1>4, <2>1, <2>2
  <2>4. PICK e : e = d.edges[i] /\ e \in ToSet(d.edges) /\ e.from = id
    BY <2>2 DEF From, ToSet
  <2>5. e.from \in DOMAIN d.names /\ d.names[e.from] = r
    BY <1>1, <2>1, <2>4
  <2>6. <<d.names[e.from], e.status, TargetName(d, e.to)>> \in drawn
    BY <2>4, <2>5
  <2>7. <<r, s, f.graph[r][s]>> = <<d.names[e.from], e.status, TargetName(d, e.to)>>
    BY <2>2, <2>3, <2>4, <2>5
  <2> QED
    BY <2>6, <2>7
<1>10. drawn = filed
  BY <1>8, <1>9
<1>11. {d.names[r] : r \in DOMAIN d.names} = Roles(f)
  BY <1>1, <1>2
<1>12. Shown(d) = [roles |-> Roles(f), first |-> {f.first}, moves |-> drawn]
  BY <1>7, <1>11, Zenon DEF Shown
<1>13. Shown(d) = FileShown(f)
  BY <1>10, <1>12, Zenon DEF FileShown
<1> QED
  BY <1>6, <1>13

LEMMA LoadedShowsFile ==
    ASSUME NEW f, FileOk(f), Resolved(f), NEW g, LoadedOf(f, g)
    PROVE  Shown(g) = FileShown(f)
<1>1. PICK roles, node, names : roles = Roles(f) /\ node = NodeOf(f) /\ names = g.names
  OBVIOUS
<1>2. /\ node \in [roles -> Ids] /\ \A q, r \in roles : node[q] = node[r] => q = r
      /\ f.first \in roles /\ "END" \notin roles /\ "start" \notin Ids /\ "end" \notin Ids
  BY <1>1, NodesAre, IdsAre DEF FileOk, Resolved
<1>3. DOMAIN names = {node[r] : r \in roles} /\ \A r \in roles : names[node[r]] = r
  <2>1. names = [i \in {node[r] : r \in roles} |-> CHOOSE r \in roles : node[r] = i]
    BY <1>1 DEF LoadedOf
  <2>2. \A r \in roles : (CHOOSE q \in roles : node[q] = node[r]) = r
    BY <1>2
  <2> QED
    BY <2>1, <2>2
<1>4. ASSUME NEW r \in roles PROVE TargetName(g, node[r]) = r
  <2>1. node[r] # "end" /\ node[r] \in DOMAIN g.names /\ g.names[node[r]] = r
    BY <1>1, <1>2, <1>3
  <2> QED
    BY <2>1 DEF TargetName
<1>5. ASSUME NEW r \in roles, NEW s \in DOMAIN f.graph[r]
      PROVE  s \in Known(f, r) /\ TargetName(g, PlaceFor(f, r, s)) = f.graph[r][s]
  <2>1. PICK to : to = f.graph[r][s] /\ to \in roles \cup {"END"}
    BY <1>1 DEF Resolved
  <2>2. s \in Known(f, r)
    BY <1>1, <2>1 DEF Known
  <2>3. PlaceFor(f, r, s) = IF to \in roles THEN node[to] ELSE "end"
    BY <1>1, <2>1 DEF PlaceFor
  <2>4. TargetName(g, "end") = "END"
    BY DEF TargetName
  <2> QED
    BY <1>4, <2>1, <2>2, <2>3, <2>4
<1>6. ASSUME NEW e \in ToSet(g.edges)
      PROVE  \/ e.from = "start" /\ e.to = node[f.first]
             \/ \E r \in roles : \E s \in DOMAIN f.graph[r] : Move(f, e, r, s)
  BY <1>1 DEF LoadedOf, Known
<1>7. ASSUME NEW e, NEW r \in roles, NEW s \in DOMAIN f.graph[r], Move(f, e, r, s)
      PROVE  /\ e.from = node[r] /\ e.from # "start" /\ e.from \in DOMAIN g.names
             /\ <<g.names[e.from], e.status, TargetName(g, e.to)>> = <<r, s, f.graph[r][s]>>
  <2>1. e.from = node[r] /\ e.status = s /\ e.to = PlaceFor(f, r, s)
    BY <1>1, <1>7 DEF Move
  <2>2. TargetName(g, e.to) = f.graph[r][s]
    BY <1>5, <2>1
  <2>3. node[r] \in DOMAIN g.names /\ g.names[node[r]] = r /\ node[r] # "start"
    BY <1>1, <1>2, <1>3
  <2> QED
    BY <2>1, <2>2, <2>3
<1>8. {g.names[x] : x \in DOMAIN g.names} = Roles(f)
  BY <1>1, <1>3
<1>9. {TargetName(g, e.to) : e \in {x \in ToSet(g.edges) : x.from = "start"}} = {f.first}
  <2>1. PICK e0 \in ToSet(g.edges) : e0.from = "start" /\ e0.to = node[f.first]
    BY <1>1 DEF LoadedOf
  <2>2. ASSUME NEW e \in ToSet(g.edges), e.from = "start" PROVE TargetName(g, e.to) = f.first
    <3>1. e.to = node[f.first]
      BY <1>6, <1>7, <2>2
    <3> QED
      BY <1>2, <1>4, <3>1
  <2> QED
    BY <2>1, <2>2
<1> DEFINE drawn == {<<g.names[e.from], e.status, TargetName(g, e.to)>> :
                       e \in {x \in ToSet(g.edges) : x.from \in DOMAIN g.names}}
           filed == UNION {{<<r, s, f.graph[r][s]>> : s \in DOMAIN f.graph[r]} : r \in Roles(f)}
<1>10. drawn \subseteq filed
  <2> SUFFICES ASSUME NEW e \in ToSet(g.edges), e.from \in DOMAIN g.names
               PROVE <<g.names[e.from], e.status, TargetName(g, e.to)>> \in filed
    OBVIOUS
  <2>0. PICK q \in roles : e.from = node[q]
    BY <1>1, <1>3
  <2>1. e.from # "start"
    <3>1. node[q] \in Ids /\ "start" \notin Ids
      BY <1>2
    <3> QED
      BY <2>0, <3>1
  <2>2. PICK r \in roles : \E t \in DOMAIN f.graph[r] : Move(f, e, r, t)
    BY <1>6, <2>1
  <2>5. PICK s \in DOMAIN f.graph[r] : Move(f, e, r, s)
    BY <2>2
  <2>3. <<g.names[e.from], e.status, TargetName(g, e.to)>> = <<r, s, f.graph[r][s]>>
    BY <1>7, <2>5
  <2>4. <<r, s, f.graph[r][s]>> \in filed
    BY <1>1
  <2> QED
    BY <2>3, <2>4
<1>11. filed \subseteq drawn
  <2> SUFFICES ASSUME NEW r \in roles, NEW s \in DOMAIN f.graph[r]
               PROVE <<r, s, f.graph[r][s]>> \in drawn
    BY <1>1
  <2>1. s \in Known(f, r)
    BY <1>5
  <2>2. PICK e \in ToSet(g.edges) : Move(f, e, r, s)
    BY <1>1, <2>1 DEF LoadedOf
  <2>3. <<g.names[e.from], e.status, TargetName(g, e.to)>> = <<r, s, f.graph[r][s]>>
        /\ e.from \in DOMAIN g.names
    BY <1>7, <2>2
  <2>4. <<g.names[e.from], e.status, TargetName(g, e.to)>> \in drawn
    BY <2>2, <2>3
  <2> QED
    BY <2>3, <2>4
<1>12. drawn = filed
  BY <1>10, <1>11
<1>13. Shown(g) = [roles |-> Roles(f), first |-> {f.first}, moves |-> drawn]
  BY <1>8, <1>9, Zenon DEF Shown
<1> QED
  BY <1>12, <1>13, Zenon DEF FileShown

(* A drawing that is saved and opened again shows what it showed. *)
LEMMA Reload ==
    ASSUME NEW d, DrawingOk(d), Valid(d), Fileable(d)
    PROVE  Shown(Loaded(Filed(d))) = Shown(d)
<1>1. PICK f : f = PayloadToSteps(Filed(d)) /\ FileOf(d, f)
  BY FiledIs
<1>2. FileOk(f)
  BY <1>1, FileIsOk
<1>3. PICK g : g = TransIn(f) /\ LoadedOf(f, g)
  BY <1>2, LoadedIs
<1>4. Shown(d) = FileShown(f) /\ Resolved(f)
  BY <1>1, FileShowsDrawing
<1>5. Shown(g) = FileShown(f)
  BY <1>2, <1>3, <1>4, LoadedShowsFile
<1>6. g = Loaded(Filed(d))
  BY <1>1, <1>3 DEF Loaded
<1> QED
  BY <1>4, <1>5, <1>6

-----------------------------------------------------------------------------
(* Every drawing of a session is sound: the one in the stores, the backup  *)
(* of an open transaction, and every step to undo or redo.                 *)
HoldsSound(s, is) == IF s = "nodes" THEN NamesOk(is) ELSE EdgesOk(is)

Sound(x) ==
    /\ DOMAIN x \subseteq Stores
    /\ x = [s \in DOMAIN x |-> [rev |-> x[s].rev, is |-> x[s].is]]
    /\ \A s \in DOMAIN x : HoldsSound(s, x[s].is)

SoundWhole(st) == Sound(st) /\ DOMAIN st = Stores
SoundStack(stack) == (\E S : stack \in Seq(S)) /\ \A i \in DOMAIN stack : Sound(stack[i])

DrawnInv ==
    /\ SoundWhole(store)
    /\ transaction \in Nat /\ (transaction # 0 => SoundWhole(backup))
    /\ SoundStack(ustack) /\ SoundStack(rstack)

\* A dialog that is open has an id for its node, and never makes start a target.
DialogInv ==
    /\ born \in Nat
    /\ adding # Closed => born < Len(NodeIds) /\ (adding.side # "source" => adding.node # "start")

DrawInv == DrawnInv /\ DialogInv

LEMMA DocIsSound == ASSUME NEW st, SoundWhole(st) PROVE DrawingOk(Drawing(st))
<1>1. NamesOk(st.nodes.is) /\ EdgesOk(st.edges.is)
  <2>1. HoldsSound("nodes", st["nodes"].is) /\ HoldsSound("edges", st["edges"].is)
    BY DEF SoundWhole, Sound, Stores
  <2> QED
    BY <2>1 DEF HoldsSound
<1> QED
  BY <1>1 DEF Drawing, DrawingOk

LEMMA SetsAreSound ==
    ASSUME NEW st, SoundWhole(st)
    PROVE  /\ \A names : NamesOk(names) => SoundWhole(SetNodes(st, names))
           /\ \A edges : EdgesOk(edges) => SoundWhole(SetEdges(st, edges))
<1>1. /\ st = [s \in Stores |-> [rev |-> st[s].rev, is |-> st[s].is]]
      /\ HoldsSound("nodes", st["nodes"].is) /\ HoldsSound("edges", st["edges"].is)
  BY DEF SoundWhole, Sound, Stores
<1>2. PICK nodes, edges : /\ nodes = [rev |-> st["nodes"].rev, is |-> st["nodes"].is]
                          /\ edges = [rev |-> st["edges"].rev, is |-> st["edges"].is]
  OBVIOUS
<1>3. /\ HoldsSound("nodes", nodes.is) /\ HoldsSound("edges", edges.is)
      /\ nodes = [rev |-> nodes.rev, is |-> nodes.is] /\ edges = [rev |-> edges.rev, is |-> edges.is]
  BY <1>1, <1>2
<1> DEFINE at(n, e) == [s \in Stores |-> IF s = "nodes" THEN n ELSE e]
<1>4. st = at(nodes, edges)
  BY <1>1, <1>2 DEF Stores
<1>5. ASSUME NEW n, NEW e, n = [rev |-> n.rev, is |-> n.is], e = [rev |-> e.rev, is |-> e.is],
             HoldsSound("nodes", n.is), HoldsSound("edges", e.is)
      PROVE  SoundWhole(at(n, e))
  <2>1. PICK x : x = at(n, e) /\ x = [s \in Stores |-> IF s = "nodes" THEN n ELSE e]
    OBVIOUS
  <2>2. DOMAIN x = Stores /\ \A s \in Stores : (s = "nodes" /\ x[s] = n) \/ (s = "edges" /\ x[s] = e)
    BY <2>1 DEF Stores
  <2>3. \A s \in Stores : x[s] = [rev |-> x[s].rev, is |-> x[s].is] /\ HoldsSound(s, x[s].is)
    BY <1>5, <2>2
  <2>4. x = [s \in Stores |-> [rev |-> x[s].rev, is |-> x[s].is]]
    BY <2>1, <2>3
  <2>5. SoundWhole(x)
    BY <2>2, <2>3, <2>4 DEF SoundWhole, Sound
  <2> QED
    BY <2>1, <2>5
<1>6. ASSUME NEW names, NamesOk(names) PROVE SoundWhole(SetNodes(st, names))
  <2>1. PICK n : n = [rev |-> made + 1, is |-> names]
    OBVIOUS
  <2>2. n = [rev |-> n.rev, is |-> n.is] /\ HoldsSound("nodes", n.is)
    BY <1>6, <2>1 DEF HoldsSound
  <2>3. SetNodes(st, names) = at(n, edges)
    BY <1>4, <2>1 DEF SetNodes, Stores
  <2> HIDE DEF at
  <2> QED
    BY <1>3, <1>5, <2>2, <2>3
<1>7. ASSUME NEW is, EdgesOk(is) PROVE SoundWhole(SetEdges(st, is))
  <2>1. PICK e : e = [rev |-> made + 1, is |-> is]
    OBVIOUS
  <2>2. e = [rev |-> e.rev, is |-> e.is] /\ HoldsSound("edges", e.is)
    BY <1>7, <2>1 DEF HoldsSound
  <2>3. SetEdges(st, is) = at(nodes, e)
    BY <1>4, <2>1 DEF SetEdges, Stores
  <2> HIDE DEF at
  <2> QED
    BY <1>3, <1>5, <2>2, <2>3
<1> HIDE DEF at
<1> QED
  BY <1>6, <1>7

LEMMA RestrictIsSound ==
    ASSUME NEW x, Sound(x), NEW S, S \subseteq DOMAIN x
    PROVE  Sound(Restrict(x, S)) /\ DOMAIN Restrict(x, S) = S
<1>1. PICK y : y = Restrict(x, S) /\ y = [s \in S |-> x[s]]
  BY DEF Restrict
<1>2. DOMAIN y = S /\ \A s \in S : y[s] = x[s]
  BY <1>1
<1>3. \A s \in S : x[s] = [rev |-> x[s].rev, is |-> x[s].is] /\ HoldsSound(s, x[s].is)
  BY DEF Sound
<1>4. y = [s \in S |-> [rev |-> y[s].rev, is |-> y[s].is]]
  BY <1>1, <1>2, <1>3
<1>5. Sound(y)
  BY <1>2, <1>3, <1>4 DEF Sound
<1> QED
  BY <1>1, <1>2, <1>5

LEMMA RestoredIsSound ==
    ASSUME NEW st, SoundWhole(st), NEW x, Sound(x)
    PROVE  SoundWhole(Restored(x, st))
<1>1. PICK now : /\ now = Restored(x, st) /\ DOMAIN now = Stores
                 /\ \A s \in Stores : (now[s] = x[s] /\ s \in DOMAIN x) \/ now[s] = st[s]
  BY DEF Restored, SoundWhole
<1>2. \A s \in Stores : now[s] = [rev |-> now[s].rev, is |-> now[s].is] /\ HoldsSound(s, now[s].is)
  BY <1>1 DEF SoundWhole, Sound
<1>3. now = [s \in Stores |-> now[s]]
  BY <1>1 DEF Restored
<1>4. now = [s \in Stores |-> [rev |-> now[s].rev, is |-> now[s].is]]
  BY <1>2, <1>3
<1> QED
  BY <1>1, <1>2, <1>4 DEF SoundWhole, Sound

LEMMA PushIsSound ==
    ASSUME NEW stack, SoundStack(stack), NEW x, Sound(x)
    PROVE  SoundStack(Append(stack, x))
<1>1. PICK S : stack \in Seq(S)
  BY DEF SoundStack
<1>2. PICK longer : longer = Append(stack, x)
  OBVIOUS
<1>3. longer \in Seq(S \cup {x})
  BY <1>1, <1>2
<1>4. \A i \in DOMAIN longer : longer[i] = x \/ (i \in DOMAIN stack /\ longer[i] = stack[i])
  BY <1>1, <1>2
<1>5. \A i \in DOMAIN longer : Sound(longer[i])
  BY <1>4 DEF SoundStack
<1> QED
  BY <1>2, <1>3, <1>5 DEF SoundStack

LEMMA TopIsSound ==
    ASSUME NEW stack, SoundStack(stack), stack # <<>>
    PROVE  Sound(Last(stack)) /\ SoundStack(Front(stack))
<1>1. PICK S : stack \in Seq(S)
  BY DEF SoundStack
<1>2. PICK n \in Nat : n = Len(stack) /\ n > 0 /\ DOMAIN stack = 1..n
  BY <1>1
<1>3. Last(stack) = stack[n] /\ n \in DOMAIN stack
  BY <1>2 DEF Last
<1>4. PICK front : /\ front = Front(stack) /\ front \in Seq(S) /\ DOMAIN front = 1..(n - 1)
                   /\ \A i \in 1..(n - 1) : front[i] = stack[i]
  <2>1. /\ Front(stack) \in Seq(S) /\ Len(Front(stack)) = Len(stack) - 1
        /\ \A i \in 1..Len(stack) - 1 : Front(stack)[i] = stack[i]
    BY <1>1, <1>2 DEF Front
  <2>2. DOMAIN Front(stack) = 1..Len(Front(stack))
    BY <2>1
  <2> QED
    BY <1>2, <2>1, <2>2
<1>5. \A i \in DOMAIN front : Sound(front[i])
  BY <1>2, <1>4 DEF SoundStack
<1> QED
  BY <1>3, <1>4, <1>5 DEF SoundStack

LEMMA PushesAreSound ==
    ASSUME NEW before, NEW now, SoundWhole(before), SoundWhole(now),
           SoundStack(ustack), SoundStack(rstack), Push(before, now)
    PROVE  SoundStack(ustack') /\ SoundStack(rstack')
<1>1. PICK changed : changed = {s \in DOMAIN now : now[s].rev # before[s].rev}
  OBVIOUS
<1>2. CASE changed = {}
  BY <1>1, <1>2 DEF Push, history
<1>3. CASE changed # {}
  <2>1. ustack' = Append(ustack, Restrict(before, changed)) /\ rstack' = <<>>
    BY <1>1, <1>3 DEF Push
  <2>2. changed \subseteq DOMAIN before /\ Sound(before)
    BY <1>1 DEF SoundWhole
  <2>3. SoundStack(ustack')
    BY <2>1, <2>2, RestrictIsSound, PushIsSound
  <2>4. rstack' \in Seq({}) /\ DOMAIN rstack' = {}
    BY <2>1
  <2> QED
    BY <2>3, <2>4 DEF SoundStack
<1> QED
  BY <1>2, <1>3

LEMMA FramedIsSound ==
    ASSUME DrawnInv, NEW now, SoundWhole(now), Framed(now)
    PROVE  DrawnInv' /\ file' = file
<1>1. /\ store' = now /\ transaction' = transaction + 1 /\ transaction \in Nat
      /\ backup' = (IF transaction = 0 THEN store ELSE backup)
      /\ ustack' = ustack /\ rstack' = rstack /\ file' = file
  BY DEF Framed, StartTransaction, history, DrawnInv
<1>2. transaction' \in Nat /\ SoundWhole(backup')
  BY <1>1 DEF DrawnInv
<1> QED
  BY <1>1, <1>2 DEF DrawnInv

LEMMA ClosingIsSound ==
    ASSUME DrawnInv, NEW now, SoundWhole(now), Closing(now)
    PROVE  DrawnInv' /\ file' = file
<1>1. store' = now /\ transaction' = transaction /\ backup' = backup /\ file' = file
  BY DEF Closing
<1>2. SoundStack(ustack') /\ SoundStack(rstack')
  <2>1. CASE transaction = 0
    BY <2>1, PushesAreSound DEF Closing, DrawnInv
  <2>2. CASE transaction # 0
    BY <2>2 DEF Closing, DrawnInv, history
  <2> QED
    BY <2>1, <2>2
<1> QED
  BY <1>1, <1>2 DEF DrawnInv

LEMMA EndIsSound ==
    ASSUME DrawnInv, EndTransaction
    PROVE  DrawnInv'
<1>1. store' = store /\ transaction \in Nat /\ transaction' = IF transaction = 0 THEN 0 ELSE transaction - 1
  BY DEF EndTransaction, DrawnInv
<1>2. CASE transaction = 1
  <2>1. transaction' = 0 /\ Push(backup, store)
    BY <1>1, <1>2 DEF EndTransaction
  <2>2. SoundWhole(backup) /\ SoundWhole(store)
    BY <1>2 DEF DrawnInv
  <2>3. SoundStack(ustack') /\ SoundStack(rstack')
    BY <2>1, <2>2, PushesAreSound DEF DrawnInv
  <2> QED
    BY <1>1, <2>1, <2>2, <2>3 DEF DrawnInv
<1>3. CASE transaction # 1
  <2>1. ustack' = ustack /\ rstack' = rstack /\ backup' = backup
    BY <1>3 DEF EndTransaction, history
  <2>2. transaction' \in Nat /\ (transaction' # 0 => transaction # 0)
    BY <1>1
  <2> QED
    BY <1>1, <2>1, <2>2 DEF DrawnInv
<1> QED
  BY <1>2, <1>3

LEMMA TravelIsSound ==
    ASSUME DrawnInv, NEW from, SoundStack(from), from # <<>>, NEW to, SoundStack(to)
    PROVE  /\ SoundWhole(Restored(Last(from), store)) /\ SoundStack(Front(from))
           /\ SoundStack(Append(to, Restrict(store, DOMAIN Last(from))))
<1>1. Sound(Last(from)) /\ SoundStack(Front(from))
  BY TopIsSound
<1>2. SoundWhole(store) /\ Sound(store) /\ DOMAIN Last(from) \subseteq DOMAIN store
  BY <1>1 DEF DrawnInv, SoundWhole, Sound
<1>3. Sound(Restrict(store, DOMAIN Last(from)))
  BY <1>2, RestrictIsSound
<1> QED
  BY <1>1, <1>2, <1>3, RestoredIsSound, PushIsSound

-----------------------------------------------------------------------------
(* What the handlers make of names and edges. *)
LEMMA NamesStaySound ==
    ASSUME NEW names, NamesOk(names)
    PROVE  /\ \A id \in DOMAIN names : \A name : NamesOk([names EXCEPT ![id] = name])
           /\ \A S : S \subseteq DOMAIN names => NamesOk(Restrict(names, S))
<1>1. names = [x \in DOMAIN names |-> names[x]] /\ DOMAIN names \subseteq Ids
  BY DEF NamesOk
<1>3. ASSUME NEW id \in DOMAIN names, NEW name PROVE NamesOk([names EXCEPT ![id] = name])
  <2>1. PICK f : f = [names EXCEPT ![id] = name] /\ f = [x \in DOMAIN names |-> IF x = id THEN name ELSE names[x]]
    BY <1>1
  <2> QED
    BY <1>1, <2>1 DEF NamesOk
<1>4. ASSUME NEW S, S \subseteq DOMAIN names PROVE NamesOk(Restrict(names, S))
  <2>1. PICK f : f = Restrict(names, S) /\ f = [x \in S |-> names[x]]
    BY DEF Restrict
  <2> QED
    BY <1>1, <1>4, <2>1 DEF NamesOk
<1> QED
  BY <1>3, <1>4

LEMMA SoundSequence ==
    ASSUME NEW n \in Nat, NEW s, s = [i \in 1..n |-> s[i]], \A i \in 1..n : EdgeOk(s[i])
    PROVE  EdgesOk(s)
<1>1. PICK S : S = {s[i] : i \in 1..n}
  OBVIOUS
<1>2. s \in [1..n -> S] /\ DOMAIN s = 1..n
  BY <1>1
<1>3. s \in Seq(S)
  BY <1>2
<1> QED
  BY <1>2, <1>3 DEF EdgesOk

LEMMA AppendIsSound ==
    ASSUME NEW edges, EdgesOk(edges), NEW e, EdgeOk(e)
    PROVE  EdgesOk(Append(edges, e))
<1>1. PICK S : edges \in Seq(S)
  BY DEF EdgesOk
<1>2. PICK longer : longer = Append(edges, e)
  OBVIOUS
<1>3. longer \in Seq(S \cup {e})
  BY <1>1, <1>2
<1>4. \A i \in DOMAIN longer : longer[i] = e \/ (i \in DOMAIN edges /\ longer[i] = edges[i])
  BY <1>1, <1>2
<1>5. \A i \in DOMAIN longer : EdgeOk(longer[i])
  BY <1>4 DEF EdgesOk
<1> QED
  BY <1>2, <1>3, <1>5 DEF EdgesOk

LEMMA PlainIsSound == ASSUME NEW from, NEW to, NEW n, to # "start" PROVE EdgeOk(Plain(from, to, n))
  BY PlainIs DEF Edge

LEMMA StatusIsSound ==
    ASSUME NEW e, EdgeOk(e), NEW status
    PROVE  EdgeOk([e EXCEPT !.status = status])
<1>1. PICK from, to, n, kind, was :
        /\ e = [from |-> from, to |-> to, n |-> n, kind |-> kind, status |-> was]
        /\ to # "start"
  BY DEF EdgeOk
<1>2. PICK x : x = [e EXCEPT !.status = status]
  OBVIOUS
<1>3. x = [from |-> from, to |-> to, n |-> n, kind |-> kind, status |-> status]
  BY <1>1, <1>2
<1>4. EdgeOk(x)
  BY <1>1, <1>3 DEF EdgeOk
<1> QED
  BY <1>2, <1>4

LEMMA PickedIsSound ==
    ASSUME NEW edges, EdgesOk(edges), NEW I, I \subseteq DOMAIN edges
    PROVE  EdgesOk(Picked(edges, I))
<1>1. PICK n \in Nat : DOMAIN edges = 1..n
  BY EdgesAre
<1>2. PICK p : p = Picked(edges, I) /\ IsPicked(edges, I, p)
  BY <1>1, PickedIs
<1>3. PICK S : S = {edges[i] : i \in I} /\ p \in Seq(S)
  BY <1>2 DEF IsPicked
<1>4. \A x \in S : EdgeOk(x)
  BY <1>3 DEF EdgesOk
<1>5. \A k \in DOMAIN p : EdgeOk(p[k])
  BY <1>3, <1>4
<1> QED
  BY <1>2, <1>3, <1>5 DEF EdgesOk

-----------------------------------------------------------------------------
(* The handlers, one by one. *)
LEMMA DocIs ==
    ASSUME DrawnInv
    PROVE  /\ doc.names = store.nodes.is /\ doc.edges = store.edges.is
           /\ NamesOk(doc.names) /\ EdgesOk(doc.edges) /\ DrawingOk(doc)
           /\ "start" \notin DOMAIN doc.names
           /\ \A id \in Ids : \A name : NamesOk(Named(id, name))
<1>1. DrawingOk(doc)
  BY DocIsSound DEF DrawnInv, doc
<1>2. doc.names = store.nodes.is /\ doc.edges = store.edges.is
  BY DEF doc, Drawing
<1>3. ASSUME NEW id \in Ids, NEW name PROVE NamesOk(Named(id, name))
  <2>1. PICK S : S = {id} \cup DOMAIN doc.names /\ S \subseteq Ids
    BY <1>1 DEF DrawingOk, NamesOk
  <2>2. PICK f : f = Named(id, name) /\ f = [x \in S |-> IF x = id THEN name ELSE doc.names[x]]
    BY <2>1 DEF Named
  <2> QED
    BY <2>1, <2>2 DEF NamesOk
<1> QED
  BY <1>1, <1>2, <1>3, IdsAre DEF DrawingOk, NamesOk

LEMMA ConnectIsSound ==
    ASSUME DrawnInv, NEW s, NEW t \in DOMAIN doc.names \cup {"end"}, Connect(s, t)
    PROVE  DrawnInv' /\ file' = file
<1>1. EdgesOk(doc.edges) /\ t # "start" /\ SoundWhole(store)
  BY DocIs DEF DrawnInv
<1>2. PICK n \in Nat : DOMAIN doc.edges = 1..n
  BY <1>1, EdgesAre
<1>3. PICK edge, promoted :
        /\ edge = Plain(s, t, "drawn")
        /\ promoted = [i \in DOMAIN doc.edges |->
                          IF doc.edges[i].from = s /\ doc.edges[i].kind # "status"
                          THEN Labelled(doc.edges[i], "_") ELSE doc.edges[i]]
        /\ Framed(SetEdges(store, IF From(doc, s) = {} THEN Append(doc.edges, edge)
                                  ELSE Append(promoted, Labelled(edge, ""))))
  BY Zenon DEF Connect
<1>4. EdgeOk(edge) /\ EdgeOk(Labelled(edge, ""))
  BY <1>1, <1>3, PlainIsSound, LabelledIs
<1>5. EdgesOk(promoted)
  <2>1. \A i \in 1..n : EdgeOk(doc.edges[i]) /\ EdgeOk(Labelled(doc.edges[i], "_"))
    BY <1>1, <1>2, LabelledIs DEF EdgesOk
  <2>2. promoted = [i \in 1..n |-> promoted[i]] /\ \A i \in 1..n : EdgeOk(promoted[i])
    BY <1>2, <1>3, <2>1
  <2> QED
    BY <2>2, SoundSequence
<1>6. PICK edges : /\ EdgesOk(edges) /\ Framed(SetEdges(store, edges))
  <2>1. EdgesOk(Append(doc.edges, edge)) /\ EdgesOk(Append(promoted, Labelled(edge, "")))
    BY <1>1, <1>4, <1>5, AppendIsSound
  <2> QED
    BY <1>3, <2>1
<1>7. SoundWhole(SetEdges(store, edges))
  BY <1>1, <1>6, SetsAreSound
<1> QED
  BY <1>6, <1>7, FramedIsSound

LEMMA AddRoleIsSound ==
    ASSUME DrawInv, AddRole
    PROVE  DrawnInv' /\ file' = file
<1>1. DrawnInv /\ SoundWhole(store) /\ NamesOk(doc.names)
  BY DocIs DEF DrawInv, DrawnInv
<1>2. NodeIds[born + 1] \in Ids
  BY IdsAre DEF DrawInv, DialogInv, AddRole
<1>3. PICK names : NamesOk(names) /\ Framed(SetNodes(store, names))
  <2>1. NamesOk(Named(NodeIds[born + 1], DefaultName))
    BY <1>1, <1>2, DocIs
  <2> QED
    BY <2>1, Zenon DEF AddRole
<1>4. SoundWhole(SetNodes(store, names))
  BY <1>1, <1>3, SetsAreSound
<1> QED
  BY <1>1, <1>3, <1>4, FramedIsSound

LEMMA CommitAddingIsSound ==
    ASSUME DrawInv, NEW name, CommitAdding(name)
    PROVE  DrawnInv' /\ file' = file
<1>1. DrawnInv /\ SoundWhole(store) /\ NamesOk(doc.names) /\ EdgesOk(doc.edges)
  BY DocIs DEF DrawInv, DrawnInv
<1>2. PICK id : id = NodeIds[born + 1] /\ id \in Ids /\ id # "start"
  BY IdsAre DEF DrawInv, DialogInv, CommitAdding
<1>3. PICK edge, names :
        /\ edge = IF adding.side = "source" THEN Plain(adding.node, id, "added")
                                             ELSE Plain(id, adding.node, "added")
        /\ names = Named(id, name)
        /\ Framed(SetEdges(SetNodes(store, names), Append(doc.edges, edge)))
  BY <1>2, Zenon DEF CommitAdding
<1>4. NamesOk(names)
  BY <1>1, <1>2, <1>3, DocIs
<1>5. EdgeOk(edge)
  <2>1. CASE adding.side = "source"
    BY <1>2, <1>3, <2>1, PlainIsSound
  <2>2. CASE adding.side # "source"
    <3>1. adding.node # "start"
      BY <2>2 DEF DrawInv, DialogInv, CommitAdding
    <3> QED
      BY <1>3, <2>2, <3>1, PlainIsSound
  <2> QED
    BY <2>1, <2>2
<1>6. EdgesOk(Append(doc.edges, edge))
  BY <1>1, <1>5, AppendIsSound
<1>7. SoundWhole(SetNodes(store, names))
  BY <1>1, <1>4, SetsAreSound
<1>8. SoundWhole(SetEdges(SetNodes(store, names), Append(doc.edges, edge)))
  BY <1>6, <1>7, SetsAreSound
<1> QED
  BY <1>1, <1>3, <1>8, FramedIsSound

LEMMA CommitEditingIsSound ==
    ASSUME DrawnInv, NEW name, CommitEditing(name)
    PROVE  DrawnInv' /\ file' = file
<1>1. SoundWhole(store) /\ NamesOk(doc.names)
  BY DocIs DEF DrawnInv
<1>2. CASE editing \in DOMAIN doc.names
  <2>1. PICK names : NamesOk(names) /\ Framed(SetNodes(store, names))
    BY <1>1, <1>2, NamesStaySound, Zenon DEF CommitEditing
  <2>2. SoundWhole(SetNodes(store, names))
    BY <1>1, <2>1, SetsAreSound
  <2> QED
    BY <2>1, <2>2, FramedIsSound
<1>3. CASE editing \notin DOMAIN doc.names
  <2>1. Framed(store)
    BY <1>3, Zenon DEF CommitEditing
  <2> QED
    BY <1>1, <2>1, FramedIsSound
<1> QED
  BY <1>2, <1>3

LEMMA DeleteNodeIsSound ==
    ASSUME DrawnInv, NEW r, DeleteNode(r)
    PROVE  DrawnInv' /\ file' = file
<1>1. SoundWhole(store) /\ NamesOk(doc.names)
  BY DocIs DEF DrawnInv
<1>2. PICK names : NamesOk(names) /\ Framed(SetNodes(store, names))
  <2>1. NamesOk(Restrict(doc.names, DOMAIN doc.names \ {r}))
    BY <1>1, NamesStaySound
  <2> QED
    BY <2>1 DEF DeleteNode
<1>3. SoundWhole(SetNodes(store, names))
  BY <1>1, <1>2, SetsAreSound
<1> QED
  BY <1>2, <1>3, FramedIsSound

LEMMA AutoLayoutIsSound ==
    ASSUME DrawnInv, AutoLayout
    PROVE  DrawnInv' /\ file' = file
<1>1. SoundWhole(store) /\ NamesOk(doc.names) /\ Closing(SetNodes(store, doc.names))
  BY DocIs DEF DrawnInv, AutoLayout
<1>2. SoundWhole(SetNodes(store, doc.names))
  BY <1>1, SetsAreSound
<1> QED
  BY <1>1, <1>2, ClosingIsSound

LEMMA RelabelIsSound ==
    ASSUME DrawnInv, NEW i \in DOMAIN doc.edges, NEW status, Relabel(i, status)
    PROVE  DrawnInv' /\ file' = file
<1>1. SoundWhole(store) /\ EdgesOk(doc.edges)
  BY DocIs DEF DrawnInv
<1>2. PICK n \in Nat : DOMAIN doc.edges = 1..n /\ doc.edges = [j \in 1..n |-> doc.edges[j]]
  BY <1>1, EdgesAre
<1>3. PICK edges : edges = [doc.edges EXCEPT ![i].status = status]
  OBVIOUS
<1>4. EdgesOk(edges)
  <2>1. PICK e : e = [doc.edges[i] EXCEPT !.status = status] /\ EdgeOk(e)
    BY <1>1, StatusIsSound DEF EdgesOk
  <2>2. edges = [j \in 1..n |-> IF j = i THEN e ELSE doc.edges[j]]
    BY <1>2, <1>3, <2>1
  <2>3. \A j \in 1..n : EdgeOk(doc.edges[j])
    BY <1>1, <1>2 DEF EdgesOk
  <2>4. edges = [j \in 1..n |-> edges[j]] /\ \A j \in 1..n : EdgeOk(edges[j])
    BY <2>1, <2>2, <2>3
  <2> QED
    BY <2>4, SoundSequence
<1>5. SoundWhole(SetEdges(store, edges))
  BY <1>1, <1>4, SetsAreSound
<1>6. /\ store' = SetEdges(store, edges) /\ transaction' = transaction + 2 /\ transaction \in Nat
      /\ backup' = (IF transaction = 0 THEN store ELSE backup)
      /\ ustack' = ustack /\ rstack' = rstack /\ file' = file
  BY <1>3 DEF Relabel, history, DrawnInv
<1>7. transaction' \in Nat /\ SoundWhole(backup')
  BY <1>6 DEF DrawnInv
<1> QED
  BY <1>5, <1>6, <1>7 DEF DrawnInv

LEMMA DeleteIsSound ==
    ASSUME DrawnInv, NEW roles, NEW picked, DeleteSelected(roles, picked)
    PROVE  DrawnInv' /\ file' = file
<1>1. SoundWhole(store) /\ EdgesOk(doc.edges) /\ NamesOk(doc.names)
  BY DocIs DEF DrawnInv
<1> DEFINE gone(e) == e.from \in roles \/ e.to \in roles \/ e \in picked
           asked == {e.from : e \in {x \in ToSet(doc.edges) : gone(x) /\ x.kind = "status"}}
           rest(left) ==
             [i \in DOMAIN left |->
                IF /\ left[i].from \in asked /\ left[i].kind = "status"
                   /\ Cardinality({j \in DOMAIN left : left[j].from = left[i].from /\ left[j].kind = "status"}) = 1
                THEN Plain(left[i].from, left[i].to, left[i].n) ELSE left[i]]
<1>2. PICK left, lone, shorter :
        /\ left = Picked(doc.edges, {i \in DOMAIN doc.edges : ~gone(doc.edges[i])})
        /\ lone = rest(left)
        /\ shorter = IF Len(left) = Len(doc.edges) THEN store ELSE SetEdges(store, lone)
        /\ Closing(IF roles = {} THEN shorter
                   ELSE SetNodes(shorter, Restrict(doc.names, DOMAIN doc.names \ roles)))
  BY Zenon DEF DeleteSelected
<1>3. EdgesOk(left)
  <2>1. PICK I : I = {i \in DOMAIN doc.edges : ~gone(doc.edges[i])} /\ I \subseteq DOMAIN doc.edges
    OBVIOUS
  <2> HIDE DEF gone
  <2> QED
    BY <1>1, <1>2, <2>1, PickedIsSound
<1>4. PICK n \in Nat : DOMAIN left = 1..n /\ \A i \in 1..n : EdgeOk(left[i])
  BY <1>3, EdgesAre DEF EdgesOk
<1>5. EdgesOk(lone)
  <2>1. \A i \in 1..n : EdgeOk(Plain(left[i].from, left[i].to, left[i].n))
    BY <1>4, PlainIsSound DEF EdgeOk
  <2> HIDE DEF asked
  <2>2. lone = [i \in 1..n |-> lone[i]] /\ \A i \in 1..n : EdgeOk(lone[i])
    BY <1>2, <1>4, <2>1
  <2> QED
    BY <2>2, SoundSequence
<1>6. SoundWhole(shorter)
  BY <1>1, <1>2, <1>5, SetsAreSound
<1>7. SoundWhole(SetNodes(shorter, Restrict(doc.names, DOMAIN doc.names \ roles)))
  <2>1. NamesOk(Restrict(doc.names, DOMAIN doc.names \ roles))
    BY <1>1, NamesStaySound
  <2> QED
    BY <1>6, <2>1, SetsAreSound
<1>8. PICK now : SoundWhole(now) /\ Closing(now)
  BY <1>2, <1>6, <1>7
<1> QED
  BY <1>8, ClosingIsSound

LEMMA TouchIsSound ==
    ASSUME DrawnInv, NEW s \in Stores, Touch(s)
    PROVE  DrawnInv' /\ file' = file
<1>1. /\ store' = [store EXCEPT ![s].rev = made + 1] /\ transaction' = transaction /\ backup' = backup
      /\ ustack' = ustack /\ rstack' = rstack /\ file' = file
  BY DEF Touch, history
<1>2. /\ DOMAIN store = Stores /\ store = [t \in Stores |-> [rev |-> store[t].rev, is |-> store[t].is]]
      /\ \A t \in Stores : HoldsSound(t, store[t].is)
  BY DEF DrawnInv, SoundWhole, Sound
<1>3. store' = [t \in Stores |-> [rev |-> IF t = s THEN made + 1 ELSE store[t].rev, is |-> store[t].is]]
  BY <1>1, <1>2
<1>4. /\ DOMAIN store' = Stores /\ \A t \in Stores : store'[t].is = store[t].is
      /\ store' = [t \in Stores |-> [rev |-> store'[t].rev, is |-> store'[t].is]]
  BY <1>3
<1>5. SoundWhole(store')
  BY <1>2, <1>4 DEF SoundWhole, Sound
<1> QED
  BY <1>1, <1>5 DEF DrawnInv

LEMMA TravelsAreSound ==
    ASSUME DrawnInv, Undo \/ Redo
    PROVE  DrawnInv' /\ file' = file
<1>1. CASE Undo
  <2>1. SoundStack(ustack) /\ SoundStack(rstack) /\ ustack # <<>>
    BY <1>1 DEF Undo, DrawnInv
  <2>2. SoundWhole(store') /\ SoundStack(ustack') /\ SoundStack(rstack')
    BY <1>1, <2>1, TravelIsSound DEF Undo
  <2> QED
    BY <1>1, <2>2 DEF Undo, DrawnInv
<1>2. CASE Redo
  <2>1. SoundStack(ustack) /\ SoundStack(rstack) /\ rstack # <<>>
    BY <1>2 DEF Redo, DrawnInv
  <2>2. SoundWhole(store') /\ SoundStack(ustack') /\ SoundStack(rstack')
    BY <1>2, <2>1, TravelIsSound DEF Redo
  <2> QED
    BY <1>2, <2>2 DEF Redo, DrawnInv
<1> QED
  BY <1>1, <1>2

\* A step that changes neither the drawings nor the file.
LEMMA ViewIsSound ==
    ASSUME DrawnInv, UNCHANGED <<store, ustack, rstack, transaction, backup, file>>
    PROVE  DrawnInv' /\ file' = file
  BY DEF DrawnInv

LEMMA OpensSound ==
    ASSUME Init
    PROVE  DrawInv
<1>1. PICK d, f : /\ d = TransIn(f) /\ f = PayloadToSteps(file)
                  /\ store = [nodes |-> [rev |-> 0, is |-> d.names], edges |-> [rev |-> 0, is |-> d.edges]]
                  /\ born = Cardinality(DOMAIN d.names)
  BY DEF Init, Loaded
<1>0. /\ DOMAIN f.graph = DOMAIN file.graph /\ f.first = file.first
      /\ \A r \in DOMAIN file.graph : DOMAIN f.graph[r] = DOMAIN file.graph[r]
  BY <1>1 DEF PayloadToSteps
<1>2. NamesOk(d.names) /\ EdgesOk(d.edges)
  <2>1. CASE DOMAIN file.graph = {}
    <3>1. d = [names |-> <<>>, edges |-> <<>>]
      BY <1>0, <1>1, <2>1 DEF TransIn
    <3>2. PICK none : none = <<>>
      OBVIOUS
    <3>3. d.names = none /\ d.edges = none
      BY <3>1, <3>2
    <3>4. DOMAIN none = {} /\ none \in Seq({}) /\ none = [x \in DOMAIN none |-> none[x]]
      BY <3>2
    <3> QED
      BY <3>3, <3>4 DEF NamesOk, EdgesOk
  <2>2. CASE DOMAIN file.graph # {}
    <3>1. FileOk(f)
      BY <1>0, <2>2, FilesAssumption DEF Init, FileOk, Roles
    <3>2. LoadedOf(f, d)
      BY <1>1, <3>1, LoadedIs
    <3>3. NodeOf(f) \in [Roles(f) -> Ids]
      BY <3>1, NodesAre
    <3>4. PICK node, names : node = NodeOf(f) /\ names = d.names
      OBVIOUS
    <3>5. names = [i \in {node[r] : r \in Roles(f)} |-> CHOOSE r \in Roles(f) : node[r] = i]
      BY <3>2, <3>4 DEF LoadedOf
    <3>6. names = [x \in DOMAIN names |-> names[x]] /\ DOMAIN names \subseteq Ids
      BY <3>3, <3>4, <3>5
    <3> QED
      BY <3>2, <3>4, <3>6 DEF NamesOk, LoadedOf
  <2> QED
    BY <2>1, <2>2
<1>3. SoundWhole(store)
  <2>1. PICK nodes, edges :
          nodes = [rev |-> 0, is |-> d.names] /\ edges = [rev |-> 0, is |-> d.edges]
    OBVIOUS
  <2>2. /\ nodes = [rev |-> nodes.rev, is |-> nodes.is] /\ nodes.is = d.names
        /\ edges = [rev |-> edges.rev, is |-> edges.is] /\ edges.is = d.edges
    BY <2>1
  <2>3. store = [s \in Stores |-> IF s = "nodes" THEN nodes ELSE edges]
    BY <1>1, <2>1 DEF Stores
  <2>4. HoldsSound("nodes", nodes.is) /\ HoldsSound("edges", edges.is)
    BY <1>2, <2>2 DEF HoldsSound
  <2>5. PICK st : st = store
    OBVIOUS
  <2>6. DOMAIN st = Stores /\ \A s \in Stores : (s = "nodes" /\ st[s] = nodes) \/ (s = "edges" /\ st[s] = edges)
    BY <2>3, <2>5 DEF Stores
  <2>7. \A s \in Stores : st[s] = [rev |-> st[s].rev, is |-> st[s].is] /\ HoldsSound(s, st[s].is)
    BY <2>2, <2>4, <2>6
  <2>8. st = [s \in Stores |-> [rev |-> st[s].rev, is |-> st[s].is]]
    BY <2>3, <2>5, <2>7
  <2> QED
    BY <2>5, <2>6, <2>7, <2>8 DEF SoundWhole, Sound
<1>4. born \in Nat
  <2>1. IsFiniteSet(Ids) /\ DOMAIN d.names \in SUBSET Ids
    BY <1>2, IdsAre DEF NamesOk
  <2>2. IsFiniteSet(DOMAIN d.names)
    BY <2>1, FS_Subset
  <2> QED
    BY <1>1, <2>2, FS_CardinalityType
<1>5. transaction = 0 /\ adding = Closed /\ SoundStack(ustack) /\ SoundStack(rstack)
  <2>1. ustack = <<>> /\ rstack = <<>> /\ transaction = 0 /\ adding = Closed
    BY DEF Init
  <2>2. ustack \in Seq({}) /\ DOMAIN ustack = {} /\ rstack \in Seq({}) /\ DOMAIN rstack = {}
    BY <2>1
  <2> QED
    BY <2>1, <2>2 DEF SoundStack
<1> QED
  BY <1>3, <1>4, <1>5 DEF DrawInv, DrawnInv, DialogInv

LEMMA DialogStays == DrawInv /\ [Next]_vars => DialogInv'
<1> SUFFICES ASSUME DrawInv, [Next]_vars PROVE DialogInv'
  OBVIOUS
<1>1. born \in Nat /\ (adding # Closed => born < Len(NodeIds) /\ (adding.side # "source" => adding.node # "start"))
  BY DEF DrawInv, DialogInv
<1>2. ASSUME born' = born, adding' = adding \/ adding' = Closed PROVE DialogInv'
  BY <1>1, <1>2 DEF DialogInv
<1>3. ASSUME born' = born + 1, adding' = Closed PROVE DialogInv'
  BY <1>1, <1>3 DEF DialogInv
<1>4. CASE UNCHANGED vars
  BY <1>2, <1>4 DEF vars, views
<1>5. CASE \/ Frame \/ Undo \/ Redo \/ DragStart \/ DragStop
           \/ Escape \/ AutoLayout \/ Save
           \/ \E s \in {"nodes", "edges"} : Touch(s)
  <2>1. born' = born /\ (adding' = adding \/ adding' = Closed)
    <3>1. CASE Frame \/ Undo \/ Redo
      BY <3>1, Zenon DEF Frame, Undo, Redo, views
    <3>2. CASE DragStart \/ DragStop \/ Escape
      BY <3>2, Zenon DEF DragStart, DragStop, Escape
    <3>3. CASE AutoLayout \/ Save \/ \E s \in {"nodes", "edges"} : Touch(s)
      BY <3>3, Zenon DEF AutoLayout, Save, Touch, views
    <3> QED
      BY <1>5, <3>1, <3>2, <3>3
  <2> QED
    BY <1>2, <2>1
<1>6. CASE AddRole
  <2>1. born' = born + 1 /\ adding' = adding /\ adding = Closed
    BY <1>6, Zenon DEF AddRole, FreeHand, Free, views
  <2> QED
    BY <1>3, <2>1
<1>7. ASSUME NEW name, CommitAdding(name) \/ CommitEditing(name) PROVE DialogInv'
  <2>1. CASE CommitAdding(name)
    <3>1. born' = born + 1 /\ adding' = Closed
      BY <2>1, Zenon DEF CommitAdding
    <3> QED
      BY <1>3, <3>1
  <2>2. CASE CommitEditing(name)
    <3>1. born' = born /\ adding' = adding
      BY <2>2, Zenon DEF CommitEditing
    <3> QED
      BY <1>2, <3>1
  <2> QED
    BY <1>7, <2>1, <2>2
<1>8. ASSUME NEW node, NEW side, StartAdding(node, side), side # "source" => node # "start" PROVE DialogInv'
  <2>1. /\ born < Len(NodeIds) /\ born' = born /\ adding' = [node |-> node, side |-> side]
    BY <1>8 DEF StartAdding
  <2> QED
    BY <1>1, <1>8, <2>1 DEF DialogInv
<1>9. ASSUME NEW r, StartEditing(r) \/ DeleteNode(r) \/ DeleteSelected({r}, {}) PROVE DialogInv'
  <2>1. born' = born /\ adding' = adding
    BY <1>9, Zenon DEF StartEditing, DeleteNode, DeleteSelected, views
  <2> QED
    BY <1>2, <2>1
<1>10. ASSUME NEW a, NEW b, Connect(a, b) \/ Relabel(a, b) \/ DeleteSelected(a, b) PROVE DialogInv'
  <2>1. born' = born /\ adding' = adding
    BY <1>10, Zenon DEF Connect, Relabel, DeleteSelected, views
  <2> QED
    BY <1>2, <2>1
<1>11. "start" \notin DOMAIN doc.names
  BY DocIs DEF DrawInv
<1>12. \A node \in DOMAIN doc.names \cup {"end"} : StartAdding(node, "target") => DialogInv'
  BY <1>8, <1>11
<1>13. \A node : StartAdding(node, "source") => DialogInv'
  BY <1>8
<1> QED
  BY <1>4, <1>5, <1>6, <1>7, <1>9, <1>10, <1>12, <1>13, Zenon DEF Next

LEMMA StepsAreSound == DrawInv /\ [Next]_vars /\ ~Save => DrawnInv' /\ file' = file
<1> SUFFICES ASSUME DrawInv, [Next]_vars, ~Save PROVE DrawnInv' /\ file' = file
  OBVIOUS
<1>1. DrawnInv
  BY DEF DrawInv
<1>2. CASE UNCHANGED vars
  BY <1>1, <1>2, ViewIsSound DEF vars, history
<1>3. CASE Frame \/ DragStop
  <2>1. EndTransaction /\ file' = file
    BY <1>3 DEF Frame, DragStop
  <2> QED
    BY <1>1, <2>1, EndIsSound
<1>4. CASE Undo \/ Redo
  BY <1>1, <1>4, TravelsAreSound
<1>5. CASE DragStart
  <2>1. /\ UNCHANGED <<store, ustack, rstack, file>> /\ transaction' = transaction + 1
        /\ backup' = IF transaction = 0 THEN store ELSE backup
    BY <1>5 DEF DragStart, StartTransaction, history
  <2>2. transaction' \in Nat /\ SoundWhole(backup')
    BY <1>1, <2>1 DEF DrawnInv
  <2> QED
    BY <1>1, <2>1, <2>2 DEF DrawnInv
<1>6. CASE AddRole \/ AutoLayout
  BY <1>1, <1>6, AddRoleIsSound, AutoLayoutIsSound
<1>7. CASE Escape
  <2>1. UNCHANGED <<store, ustack, rstack, transaction, backup, file>>
    BY <1>7 DEF Escape, history
  <2> QED
    BY <1>1, <2>1, ViewIsSound
<1>8. ASSUME NEW s \in {"nodes", "edges"}, Touch(s) PROVE DrawnInv' /\ file' = file
  BY <1>1, <1>8, TouchIsSound DEF Stores
<1>9. ASSUME NEW node, NEW side, StartAdding(node, side) PROVE DrawnInv' /\ file' = file
  <2>1. UNCHANGED <<store, ustack, rstack, transaction, backup, file>>
    BY <1>9 DEF StartAdding, history
  <2> QED
    BY <1>1, <2>1, ViewIsSound
<1>10. ASSUME NEW r, StartEditing(r) PROVE DrawnInv' /\ file' = file
  <2>1. UNCHANGED <<store, ustack, rstack, transaction, backup, file>>
    BY <1>10 DEF StartEditing, history
  <2> QED
    BY <1>1, <2>1, ViewIsSound
<1>11. ASSUME NEW name, CommitAdding(name) \/ CommitEditing(name) PROVE DrawnInv' /\ file' = file
  BY <1>1, <1>11, CommitAddingIsSound, CommitEditingIsSound
<1>12. ASSUME NEW r, DeleteNode(r) PROVE DrawnInv' /\ file' = file
  BY <1>1, <1>12, DeleteNodeIsSound
<1>13. ASSUME NEW roles, NEW picked, DeleteSelected(roles, picked) PROVE DrawnInv' /\ file' = file
  BY <1>1, <1>13, DeleteIsSound
<1>14. ASSUME NEW s, NEW t \in DOMAIN doc.names \cup {"end"}, Connect(s, t) PROVE DrawnInv' /\ file' = file
  BY <1>1, <1>14, ConnectIsSound
<1>15. ASSUME NEW i \in DOMAIN doc.edges, NEW s, Relabel(i, s) PROVE DrawnInv' /\ file' = file
  BY <1>1, <1>15, RelabelIsSound
<1> QED
  BY <1>2, <1>3, <1>4, <1>5, <1>6, <1>7, <1>8, <1>9, <1>10, <1>11, <1>12, <1>13, <1>14, <1>15, Zenon DEF Next

LEMMA SaveIsSound ==
    ASSUME DrawInv, Save
    PROVE  DrawnInv' /\ (Fileable(doc) => Shown(Loaded(file')) = Shown(doc))
<1>1. DrawnInv /\ DrawingOk(doc)
  BY DocIs DEF DrawInv
<1>2. Valid(doc) /\ file' = Filed(doc) /\ UNCHANGED <<store, ustack, rstack, transaction, backup>>
  BY DEF Save, history
<1>3. DrawnInv'
  BY <1>1, <1>2 DEF DrawnInv
<1> QED
  BY <1>1, <1>2, <1>3, Reload

(* SavedIsShown: whatever was drawn, undone and deleted before, a workflow *)
(* that is saved and opened again shows the roles, the first role and the  *)
(* transitions it showed, if a file can hold them: not two roles of one    *)
(* name, none with a name of the file's own, no number listed before the   *)
(* first role.  For such a drawing stepsToPayload and payloadToSteps undo  *)
(* each other, whichever way traverse walks.                               *)
THEOREM SavedWorkflowsStay == Spec => SavedIsShown
<1>1. Init => DrawInv
  BY OpensSound
<1>2. DrawInv /\ [Next]_vars => DrawInv'
  <2> SUFFICES ASSUME DrawInv, [Next]_vars PROVE DrawInv'
    OBVIOUS
  <2>1. DialogInv'
    BY DialogStays
  <2>2. DrawnInv'
    BY StepsAreSound, SaveIsSound
  <2> QED
    BY <2>1, <2>2 DEF DrawInv
<1>3. DrawInv /\ [Next]_vars
        => [file' # file /\ Fileable(doc) => Shown(Loaded(file')) = Shown(doc)]_vars
  <2> SUFFICES ASSUME DrawInv, [Next]_vars, file' # file, Fileable(doc)
               PROVE  Shown(Loaded(file')) = Shown(doc)
    OBVIOUS
  <2>1. Save
    BY StepsAreSound
  <2> QED
    BY <2>1, SaveIsSound
<1> QED
  BY <1>1, <1>2, <1>3, PTL DEF Spec, SavedIsShown
=============================================================================
