------------------------- MODULE HermesClientProofs -------------------------
(***************************************************************************)
(* However many invocations, corrections and pieces of text there are, and *)
(* whatever the children answer or leave unanswered: what a conversation   *)
(* of HermesClient hears first is the whole of its task, unless its past   *)
(* was lost on the side of the children; and the text of an answer is what *)
(* its child said for that prompt, all of it and in order, unless close    *)
(* has let a child run on.                                                 *)
(*                                                                         *)
(* The argument: a conversation that was made for session/new is told its  *)
(* task, and nothing else is written to its child before the answer, which *)
(* only a prompt that was read can have; so a session that is corrected,   *)
(* cached or resumed knows its task, or its prompt timed out unread.  At   *)
(* most one child can still write, and only to the request that was sent   *)
(* last; of what it says for that request, the pieces that were received   *)
(* and those under way are the whole.                                      *)
(***************************************************************************)
EXTENDS HermesClient, SequenceTheorems, TLAPS

Sayings == {"initial", "continuation", "correction"}
Kinds == Sayings \cup {"nothing"}

Attempt == [resumed : BOOLEAN, kind : Sayings, next : {"connect", "done"}]
Conversations == [first : Kinds, lost : BOOLEAN]

Requests == {"initialize", "session/new", "session/resume", "session/prompt"}
Places == Requests \cup {"idle", "closing", "closed", "exited"}
Answers == {"none", "ok", "error", "reject", "timeout"}

Lines ==
    [what : {"piece"}, id : Nat] \cup [what : {"ask"}]
        \cup [what : {"response"}, id : Nat, result : {"ok", "error"}]
Inboxes == [id : Nat, method : Requests, session : Nat, says : Kinds]
Children ==
    [up : BOOLEAN, code : {0, 1}, eof : BOOLEAN, inbox : Seq(Inboxes),
     out : Seq(Lines), job : Nat, asks : BOOLEAN, gone : BOOLEAN, talk : Nat]

\* The request that was sent last.
Latest == nextId - 1

Current == child[process]

Aware(h, s) == h[s].first # "nothing" \/ h[s].lost

(* What a child has before it and has said so far, up to request k: it is   *)
(* spoken to in a conversation that it has, which knows its task unless it  *)
(* is told just that.                                                       *)
Sound(ch, k, h) ==
    /\ ch.talk \in 0..Len(h) /\ ch.job \in 0..k
    /\ ch.job # 0 => ch.talk # 0 /\ Aware(h, ch.talk)
    /\ Len(ch.inbox) <= 1
    /\ \A i \in 1..Len(ch.inbox) :
        /\ ch.inbox[i].id \in 1..k
        /\ ch.inbox[i].method = "session/prompt" =>
            /\ ch.talk # 0 /\ ch.inbox[i].says # "nothing"
            /\ ch.inbox[i].says = "initial" \/ Aware(h, ch.talk)
        /\ ch.inbox[i].method = "session/resume" =>
            ch.inbox[i].session \in 1..Len(h) /\ Aware(h, ch.inbox[i].session)
    /\ \A i \in 1..Len(ch.out) : ch.out[i].what # "ask" => ch.out[i].id <= k

Responded(ch, k) ==
    \E i \in 1..Len(ch.out) : ch.out[i].what = "response" /\ ch.out[i].id = k

\* A child that has nothing to do with request k.
Free(ch, k) ==
    /\ ch.job # k /\ ~Responded(ch, k)
    /\ \A i \in 1..Len(ch.inbox) : ch.inbox[i].id # k

\* A child that has not read its last request has not answered it.
Unread(ch, k, method) ==
    ch.inbox # <<>> =>
        ch.inbox[1].id = k /\ ch.inbox[1].method = method /\ ch.job # k /\ ~Responded(ch, k)

\* What is known once the last request, of some method, was answered.
Granted(ch, h, method, s) ==
    /\ method \in {"session/new", "session/resume"} => ch.talk # 0
    /\ method \in {"session/resume", "session/prompt"} => Aware(h, ch.talk)
    /\ method = "session/prompt" => Aware(h, s)

ToldTyped ==
    /\ heard \in Seq(Conversations) /\ attempt \in Attempt
    /\ nextId \in Nat \ {0}
    /\ child \in Seq(Children) /\ process = Len(child)

ToldFirst == \A s \in 1..Len(heard) : heard[s].lost \/ heard[s].first \in {"nothing", "initial"}

CacheKnows ==
    /\ cache \in 0..Len(heard) /\ (cache # 0 => Aware(heard, cache))
    /\ pc = "session/resume" => op = "resume"
    /\ op = "resume" => cache # 0

OneWait ==
    /\ pending \subseteq {Latest}
    /\ answer # "none" \/ pc \in {"idle", "closing", "closed"} => pending = {}

ChildrenSound == \A c \in 1..Len(child) : Sound(child[c], Latest, heard)

Awaited ==
    pc \in Requests =>
        /\ child # <<>> /\ Latest # 0
        /\ \A c \in 1..Len(child) : c # process => Free(child[c], Latest)
        /\ Unread(Current, Latest, pc)
        /\ answer = "ok" => Current.inbox = <<>>
        /\ answer = "ok" \/ Responded(Current, Latest) => Granted(Current, heard, pc, session)
        /\ pc = "session/prompt" =>
            /\ session \in 1..Len(heard) /\ Current.talk # 0
            /\ session = Current.talk \/ Aware(heard, session)

ToldInv ==
    ToldTyped /\ ToldFirst /\ CacheKnows /\ OneWait /\ ChildrenSound /\ Awaited

-----------------------------------------------------------------------------
Grows(h, h2) ==
    /\ h2 \in Seq(Conversations) /\ Len(h) <= Len(h2)
    /\ \A s \in 1..Len(h) : Aware(h, s) => Aware(h2, s)

(* What a conversation knows it does not forget. *)
LEMMA SoundStays ==
    ASSUME NEW ch \in Children, NEW k \in Nat, NEW k2 \in Nat, k <= k2,
           NEW h \in Seq(Conversations), NEW h2, Grows(h, h2), Sound(ch, k, h)
    PROVE  Sound(ch, k2, h2)
<1>1. /\ Len(h) \in Nat /\ Len(h2) \in Nat /\ Len(h) <= Len(h2)
      /\ \A s \in 1..Len(h) : Aware(h, s) => Aware(h2, s)
  BY DEF Grows
<1>2. ch.talk \in 0..Len(h2) /\ ch.job \in 0..k2
  BY <1>1 DEF Sound
<1>3. ch.talk # 0 /\ Aware(h, ch.talk) => Aware(h2, ch.talk)
  BY <1>1 DEF Sound
<1>4. ASSUME NEW i \in 1..Len(ch.inbox)
      PROVE  /\ ch.inbox[i].id \in 1..k2
             /\ ch.inbox[i].method = "session/prompt" =>
                  /\ ch.talk # 0 /\ ch.inbox[i].says # "nothing"
                  /\ ch.inbox[i].says = "initial" \/ Aware(h2, ch.talk)
             /\ ch.inbox[i].method = "session/resume" =>
                  ch.inbox[i].session \in 1..Len(h2) /\ Aware(h2, ch.inbox[i].session)
  BY <1>1, <1>3 DEF Sound
<1>5. \A i \in 1..Len(ch.out) : ch.out[i].what # "ask" => ch.out[i].id <= k2
  <2> SUFFICES ASSUME NEW i \in 1..Len(ch.out), ch.out[i].what # "ask"
               PROVE  ch.out[i].id <= k2
    OBVIOUS
  <2>1. ch.out[i] \in Lines
    BY DEF Children
  <2>2. ch.out[i].id \in Nat /\ ch.out[i].id <= k
    BY <2>1 DEF Lines, Sound
  <2> QED
    BY <2>2
<1> QED
  BY <1>2, <1>3, <1>4, <1>5 DEF Sound

LEMMA SameHeard == heard \in Seq(Conversations) => Grows(heard, heard)
BY DEF Grows

-----------------------------------------------------------------------------
(* A request to the last child, which has read all the earlier ones. *)
LEMMA SendSafe ==
    ASSUME ToldInv, pending = {},
           NEW children \in Seq(Children), children # <<>>,
           \A c \in 1..Len(children) : Sound(children[c], Latest, heard),
           children[Len(children)].inbox = <<>>,
           NEW method \in Requests, NEW s \in Nat, NEW kind \in Kinds,
           SendRequest(children, Len(children), method, s, kind),
           process' = Len(children), attempt' \in Attempt,
           Grows(heard, heard'), ToldFirst',
           cache' \in 0..Len(heard'), cache' # 0 => Aware(heard', cache'),
           method = "session/resume" => op' = "resume", op' = "resume" => cache' # 0,
           method = "session/resume" => s \in 1..Len(heard') /\ Aware(heard', s),
           method = "session/prompt" =>
              /\ session' \in 1..Len(heard') /\ children[Len(children)].talk # 0
              /\ session' = children[Len(children)].talk \/ Aware(heard', session')
              /\ kind # "nothing"
              /\ kind = "initial" \/ Aware(heard', children[Len(children)].talk)
    PROVE  ToldInv'
<1> DEFINE last == Len(children)
           line == [id |-> nextId, method |-> method, session |-> s, says |-> kind]
           old == children[last]
           new == [old EXCEPT !.inbox = Append(@, line)]
<1>1. /\ last \in 1..Len(children) /\ Len(children) \in Nat /\ old \in Children
      /\ nextId \in Nat \ {0} /\ line \in Inboxes /\ Latest \in Nat /\ Latest < nextId
      /\ heard \in Seq(Conversations)
  BY DEF ToldInv, ToldTyped, Inboxes, Latest
<1>2. new \in Children /\ new.inbox = <<line>> /\ new.out = old.out /\ new.job = old.job
      /\ new.talk = old.talk
  <2>1. Append(old.inbox, line) = <<line>> /\ <<line>> \in Seq(Inboxes)
    BY <1>1
  <2> QED
    BY <1>1, <2>1 DEF Children
<1>3. child' = [children EXCEPT ![last] = new]
  BY DEF SendRequest, Written
<1>a. line.id = nextId /\ line.method = method /\ line.session = s /\ line.says = kind
  OBVIOUS
<1> HIDE DEF new, line
<1>4. /\ child' \in Seq(Children) /\ Len(child') = Len(children) /\ child' # <<>>
      /\ child'[last] = new
      /\ \A c \in 1..Len(children) : c # last => child'[c] = children[c]
  BY <1>1, <1>2, <1>3
<1>5. /\ pc' = method /\ answer' = "none" /\ nextId' = nextId + 1 /\ pending' = {nextId}
      /\ Latest' = nextId
  BY <1>1 DEF SendRequest, Latest
<1>6. \A c \in 1..Len(children) : Sound(children[c], nextId, heard')
  <2> SUFFICES ASSUME NEW c \in 1..Len(children) PROVE Sound(children[c], nextId, heard')
    OBVIOUS
  <2>1. children[c] \in Children /\ nextId \in Nat /\ Latest <= nextId
    BY <1>1
  <2> QED
    BY <1>1, <2>1, SoundStays
<1>7. Sound(new, nextId, heard')
  <2>1. \A i \in 1..Len(new.inbox) : i = 1 /\ new.inbox[i] = line
    BY <1>2
  <2>2. Len(new.inbox) <= 1
    BY <1>2
  <2>3. Sound(old, nextId, heard')
    BY <1>1, <1>6
  <2> QED
    BY <1>1, <1>2, <1>a, <2>1, <2>2, <2>3 DEF Sound
\* Nobody has yet heard of the new request.
<1>8. ASSUME NEW c \in 1..Len(children)
      PROVE  children[c].job # nextId /\ ~Responded(children[c], nextId)
             /\ \A i \in 1..Len(children[c].inbox) : children[c].inbox[i].id # nextId
  <2>1. Sound(children[c], Latest, heard) /\ children[c] \in Children
    BY <1>1
  <2>2. ASSUME NEW i \in 1..Len(children[c].out), children[c].out[i].what = "response"
        PROVE  children[c].out[i].id # nextId
    <3>1. children[c].out[i] \in Lines
      BY <2>1 DEF Children
    <3>2. children[c].out[i].id \in Nat
      BY <2>2, <3>1 DEF Lines
    <3>3. children[c].out[i].id <= Latest
      BY <2>1, <2>2 DEF Sound
    <3> QED
      BY <1>1, <3>2, <3>3
  <2>3. \A i \in 1..Len(children[c].inbox) : children[c].inbox[i].id \in 1..Latest
    BY <2>1 DEF Sound
  <2>4. children[c].job \in 0..Latest
    BY <2>1 DEF Sound
  <2> QED
    BY <1>1, <2>2, <2>3, <2>4 DEF Responded
<1>9. ToldTyped'
  BY <1>1, <1>4, <1>5 DEF ToldTyped, Grows
<1>10. CacheKnows' /\ OneWait'
  BY <1>5 DEF CacheKnows, OneWait, Requests
<1>11. ChildrenSound'
  BY <1>4, <1>5, <1>6, <1>7 DEF ChildrenSound
<1>12. Awaited'
  <2>1. Current' = new /\ process' = last
    BY <1>4 DEF Current
  <2>2. \A c \in 1..Len(child') : c # process' => Free(child'[c], Latest')
    BY <1>4, <1>5, <1>8, <2>1 DEF Free
  <2>3. Unread(new, nextId, method) /\ ~Responded(new, nextId)
    BY <1>1, <1>2, <1>8, <1>a DEF Unread, Responded
  <2>4. new.talk = old.talk
    BY <1>2
  <2> QED
    BY <1>1, <1>4, <1>5, <2>1, <2>2, <2>3, <2>4 DEF Awaited
<1> QED
  BY <1>9, <1>10, <1>11, <1>12 DEF ToldInv

(* A step that concerns one child. *)
LEMMA OneChildSafe ==
    ASSUME ToldInv, NEW c \in 1..Len(child), NEW new \in Children,
           child' = [child EXCEPT ![c] = new],
           UNCHANGED <<process, nextId, cache, op, attempt, session>>,
           pc' = pc \/ pc' \notin Requests,
           Grows(heard, heard'), ToldFirst', OneWait', Sound(new, Latest, heard'),
           c # process /\ pc' \in Requests =>
              (answer' = "ok" => answer = "ok") /\ (Free(child[c], Latest) => Free(new, Latest)),
           c = process /\ pc' \in Requests =>
              /\ Unread(new, Latest, pc)
              /\ answer' = "ok" => new.inbox = <<>>
              /\ answer' = "ok" \/ Responded(new, Latest) => Granted(new, heard', pc, session)
              /\ pc = "session/prompt" => new.talk = Current.talk
    PROVE  ToldInv'
<1>1. /\ child \in Seq(Children) /\ Len(child) \in Nat /\ process = Len(child) /\ process \in 1..Len(child)
      /\ nextId \in Nat \ {0} /\ Latest' = Latest /\ Latest \in Nat
      /\ heard \in Seq(Conversations) /\ heard' \in Seq(Conversations)
      /\ Len(heard) \in Nat /\ Len(heard') \in Nat /\ Len(heard) <= Len(heard')
      /\ \A s \in 1..Len(heard) : Aware(heard, s) => Aware(heard', s)
  BY DEF ToldInv, ToldTyped, Latest, Grows
<1>2. /\ child' \in Seq(Children) /\ Len(child') = Len(child) /\ child' # <<>>
      /\ child'[c] = new
      /\ \A d \in 1..Len(child) : d # c => child'[d] = child[d]
  BY <1>1
<1>3. ToldTyped'
  BY <1>1, <1>2 DEF ToldInv, ToldTyped
<1>4. CacheKnows'
  BY <1>1 DEF ToldInv, CacheKnows, Requests
<1>5. ChildrenSound'
  <2>1. ASSUME NEW d \in 1..Len(child), d # c PROVE Sound(child[d], Latest, heard')
    <3>1. child[d] \in Children /\ Sound(child[d], Latest, heard)
      BY <1>1 DEF ToldInv, ChildrenSound
    <3> QED
      BY <1>1, <3>1, SoundStays
  <2> QED
    BY <1>1, <1>2, <2>1 DEF ChildrenSound
<1>6. Awaited'
  <2> SUFFICES ASSUME pc' \in Requests PROVE Awaited'
    BY DEF Awaited
  <2>1. pc' = pc /\ Awaited /\ pc \in Requests
    BY DEF ToldInv
  <2>2. \A d \in 1..Len(child') : d # process' => Free(child'[d], Latest')
    BY <1>1, <1>2, <2>1 DEF Awaited
  <2>3. pc = "session/prompt" =>
           session' \in 1..Len(heard') /\ (session = Current.talk \/ Aware(heard', session))
    BY <1>1, <2>1 DEF Awaited
  <2>4. CASE c = process
    <3>1. Current' = new
      BY <1>2, <2>4 DEF Current
    <3> QED
      BY <1>1, <1>2, <2>1, <2>2, <2>3, <2>4, <3>1 DEF Awaited
  <2>5. CASE c # process
    <3>1. Current' = Current
      BY <1>1, <1>2, <2>5 DEF Current
    <3>2. Granted(Current, heard, pc, session) => Granted(Current, heard', pc, session)
      <4>1. Sound(Current, Latest, heard)
        BY <1>1 DEF ToldInv, ChildrenSound, Current
      <4>2. pc = "session/resume" /\ Granted(Current, heard, pc, session) => Current.talk # 0
        BY DEF Granted
      <4>3. pc = "session/prompt" => session \in 1..Len(heard) /\ Current.talk # 0
        BY <2>1 DEF Awaited
      <4>4. Current.talk # 0 => Current.talk \in 1..Len(heard)
        BY <1>1, <4>1 DEF Sound
      <4> QED
        BY <1>1, <4>2, <4>3, <4>4 DEF Granted
    <3> QED
      BY <1>1, <1>2, <2>1, <2>2, <2>3, <2>5, <3>1, <3>2 DEF Awaited
  <2> QED
    BY <2>4, <2>5
<1> QED
  BY <1>3, <1>4, <1>5, <1>6 DEF ToldInv

(* A step after which no request is waited for. *)
LEMMA RestSafe ==
    ASSUME ToldInv, pc' \notin Requests, nextId' = nextId, process' = process,
           attempt' \in Attempt, op' = op,
           child' \in Seq(Children), Len(child') = Len(child),
           \A c \in 1..Len(child) :
              /\ child'[c].talk = child[c].talk /\ child'[c].job = child[c].job
              /\ child'[c].inbox = child[c].inbox /\ child'[c].out = child[c].out,
           Grows(heard, heard'), ToldFirst', OneWait',
           cache' \in 0..Len(heard'), cache' # 0 => Aware(heard', cache'), cache # 0 => cache' # 0
    PROVE  ToldInv'
<1>1. /\ nextId \in Nat \ {0} /\ Latest' = Latest /\ Latest \in Nat
      /\ heard \in Seq(Conversations) /\ heard' \in Seq(Conversations)
      /\ child \in Seq(Children)
  BY DEF ToldInv, ToldTyped, Latest, Grows
<1>2. ToldTyped' /\ CacheKnows' /\ Awaited'
  BY <1>1 DEF ToldInv, ToldTyped, CacheKnows, Awaited, Requests
<1>3. ChildrenSound'
  <2> SUFFICES ASSUME NEW c \in 1..Len(child) PROVE Sound(child'[c], Latest, heard')
    BY <1>1 DEF ChildrenSound
  <2>1. child[c] \in Children /\ Sound(child[c], Latest, heard)
    BY <1>1 DEF ToldInv, ChildrenSound
  <2>2. Sound(child[c], Latest, heard')
    BY <1>1, <2>1, SoundStays
  <2> QED
    BY <2>2 DEF Sound
<1> QED
  BY <1>2, <1>3 DEF ToldInv

-----------------------------------------------------------------------------
(* What a child has in front of it when the adapter takes its next line. *)
LEMMA LineTaken ==
    ASSUME NEW ch \in Children, NEW new \in Children, ch.out # <<>>, new.out = Tail(ch.out),
           new.talk = ch.talk, new.job = ch.job, new.inbox = ch.inbox,
           NEW k \in Nat, NEW h
    PROVE  /\ Head(ch.out) \in Lines
           /\ Sound(ch, k, h) => Sound(new, k, h)
           /\ Responded(new, k) => Responded(ch, k)
           /\ Head(ch.out).what = "response" /\ Head(ch.out).id = k => Responded(ch, k)
<1>1. /\ ch.out \in Seq(Lines) /\ Len(ch.out) \in Nat /\ Len(ch.out) > 0
      /\ Len(new.out) = Len(ch.out) - 1 /\ Head(ch.out) = ch.out[1] /\ ch.out[1] \in Lines
      /\ \A i \in 1..Len(new.out) : new.out[i] = ch.out[i + 1] /\ i + 1 \in 1..Len(ch.out)
  <2>1. ch.out \in Seq(Lines)
    BY DEF Children
  <2> QED
    BY <2>1
<1>2. Responded(new, k) => Responded(ch, k)
  BY <1>1 DEF Responded
<1>3. Head(ch.out).what = "response" /\ Head(ch.out).id = k => Responded(ch, k)
  BY <1>1 DEF Responded
<1>4. Sound(ch, k, h) => Sound(new, k, h)
  BY <1>1 DEF Sound
<1> QED
  BY <1>1, <1>2, <1>3, <1>4

LEMMA ToldFacts ==
    ASSUME ToldInv
    PROVE  /\ child \in Seq(Children) /\ Len(child) \in Nat /\ process = Len(child)
           /\ DOMAIN child = 1..Len(child)
           /\ \A c \in 1..Len(child) : child[c] \in Children /\ Sound(child[c], Latest, heard)
           /\ nextId \in Nat \ {0} /\ Latest \in Nat
           /\ heard \in Seq(Conversations) /\ Len(heard) \in Nat /\ Grows(heard, heard)
BY SameHeard DEF ToldInv, ToldTyped, ChildrenSound, Latest

(* handleLine. *)
LEMMA LineSafe ==
    ASSUME ToldInv, NEW c \in 1..Len(child), Line(c)
    PROVE  ToldInv'
<1> DEFINE ch == child[c]
           line == Head(ch.out)
           left == Tail(ch.out)
           taken == [ch EXCEPT !.out = left]
           quiet == [taken EXCEPT !.asks = FALSE]
<1>1. /\ Listening /\ ch.out # <<>> /\ answer = "none"
      /\ UNCHANGED <<process, nextId, cache, op, attempt, session, heard>>
      /\ Latest' = Latest
  BY DEF Line, Rest, Listening, world, Latest
<1>2. /\ ch \in Children /\ Sound(ch, Latest, heard)
      /\ Latest \in Nat /\ heard \in Seq(Conversations) /\ Grows(heard, heard')
  BY <1>1, ToldFacts
<1>a. left \in Seq(Lines) /\ line \in Lines
  BY <1>1, <1>2 DEF Children
<1> HIDE DEF left
<1>3. /\ taken \in Children /\ taken.out = left /\ taken.talk = ch.talk /\ taken.job = ch.job
      /\ taken.inbox = ch.inbox
      /\ quiet \in Children /\ quiet.out = left /\ quiet.talk = ch.talk /\ quiet.job = ch.job
      /\ quiet.inbox = ch.inbox
  BY <1>2, <1>a DEF Children
<1> HIDE DEF taken, quiet
<1>4. ASSUME NEW new \in {taken, quiet}
      PROVE  /\ new \in Children /\ new.talk = ch.talk /\ new.inbox = ch.inbox /\ new.job = ch.job
             /\ Sound(new, Latest, heard')
             /\ Responded(new, Latest) => Responded(ch, Latest)
             /\ Free(ch, Latest) => Free(new, Latest)
             /\ line.what = "response" /\ line.id = Latest => Responded(ch, Latest)
  <2>1. /\ new \in Children /\ new.talk = ch.talk /\ new.inbox = ch.inbox /\ new.job = ch.job
        /\ new.out = Tail(ch.out)
    BY <1>3 DEF left
  <2>2. /\ Sound(ch, Latest, heard) => Sound(new, Latest, heard)
        /\ Responded(new, Latest) => Responded(ch, Latest)
        /\ line.what = "response" /\ line.id = Latest => Responded(ch, Latest)
    BY <1>1, <1>2, <2>1, LineTaken
  <2> QED
    BY <1>1, <1>2, <2>1, <2>2 DEF Free
<1>5. /\ child' \in {[child EXCEPT ![c] = taken], [child EXCEPT ![c] = quiet]}
      /\ pc' = pc \/ pc' \notin Requests
      /\ pc' # pc => pc' = "exited"
      /\ \/ UNCHANGED <<answer, pending>>
         \/ /\ line.what = "response"
            /\ answer' = (IF line.id \in pending THEN line.result ELSE "none")
            /\ pending' = pending \ {line.id}
  <2>1. [child EXCEPT ![c].out = Tail(@)] = [child EXCEPT ![c] = taken]
    BY ToldFacts DEF taken, left
  <2>2. [[child EXCEPT ![c] = taken] EXCEPT ![c].asks = FALSE] = [child EXCEPT ![c] = quiet]
    BY ToldFacts DEF quiet
  <2> QED
    BY <1>1, <2>1, <2>2 DEF Line, Requests
<1>6. PICK new \in {taken, quiet} : child' = [child EXCEPT ![c] = new]
  BY <1>5
<1>7. pending \subseteq {Latest}
  BY DEF ToldInv, OneWait
<1>8. OneWait'
  <2>1. answer' # "none" \/ pc' \in {"idle", "closing", "closed"} => pending' = {}
    <3>1. pc' \in {"idle", "closing", "closed"} => pc \in {"idle", "closing", "closed"}
      BY <1>5
    <3>2. answer # "none" \/ pc \in {"idle", "closing", "closed"} => pending = {}
      BY DEF ToldInv, OneWait
    <3> QED
      BY <1>1, <1>5, <1>7, <3>1, <3>2
  <2> QED
    BY <1>1, <1>5, <1>7, <2>1 DEF OneWait
\* An answer that is taken is that of the last request.
<1>9. ASSUME answer' = "ok"
      PROVE  Responded(ch, Latest)
  BY <1>1, <1>4, <1>5, <1>6, <1>7, <1>9
<1>10. ASSUME pc' \in Requests PROVE Awaited /\ pc' = pc
  BY <1>5, <1>10 DEF ToldInv
<1>11. ASSUME c # process, pc' \in Requests
       PROVE  answer' = answer /\ (Free(ch, Latest) => Free(new, Latest))
  <2>1. Free(ch, Latest)
    BY <1>10, <1>11 DEF Awaited
  <2>2. ~Responded(ch, Latest)
    BY <2>1 DEF Free
  <2> QED
    BY <1>1, <1>4, <1>5, <1>6, <1>7, <2>2
<1>12. ASSUME c = process, pc' \in Requests
       PROVE  /\ Unread(new, Latest, pc)
              /\ answer' = "ok" => new.inbox = <<>>
              /\ answer' = "ok" \/ Responded(new, Latest) => Granted(new, heard', pc, session)
              /\ pc = "session/prompt" => new.talk = Current.talk
  <2>1. ch = Current
    BY <1>12 DEF Current
  <2>2. Unread(ch, Latest, pc) /\ (Responded(ch, Latest) => Granted(ch, heard, pc, session))
    BY <1>10, <1>12, <2>1 DEF Awaited
  <2>3. new.talk = ch.talk /\ new.inbox = ch.inbox /\ new.job = ch.job
        /\ (Responded(new, Latest) => Responded(ch, Latest))
    BY <1>4, <1>6
  <2>4. answer' = "ok" \/ Responded(new, Latest) => Granted(new, heard', pc, session)
    BY <1>1, <1>9, <2>2, <2>3 DEF Granted
  <2>5. Unread(new, Latest, pc) /\ (answer' = "ok" => new.inbox = <<>>)
    BY <1>9, <2>2, <2>3 DEF Unread
  <2> QED
    BY <2>1, <2>3, <2>4, <2>5
<1>13. ToldFirst' /\ Sound(new, Latest, heard') /\ new \in Children
  BY <1>1, <1>4, <1>6 DEF ToldInv, ToldFirst
<1> QED
  BY <1>1, <1>2, <1>5, <1>6, <1>8, <1>11, <1>12, <1>13, OneChildSafe

(* The events of the adapter that are no line. *)
LEMMA EventSafe ==
    ASSUME ToldInv,
           Timer \/ CloseTimer \/ BrokenPipe \/ \E c \in DOMAIN child : CloseEvent(c)
    PROVE  ToldInv'
<1>1. /\ answer = "none" /\ Listening
      /\ UNCHANGED <<process, nextId, cache, op, attempt, session, heard>>
      /\ Latest' = Latest
  BY DEF Timer, CloseTimer, BrokenPipe, CloseEvent, Listening, Rest, client, world, Latest
<1>2. ToldFirst' /\ Grows(heard, heard')
  BY <1>1, ToldFacts DEF ToldInv, ToldFirst
<1>3. /\ pending \subseteq {Latest}
      /\ pc \in {"idle", "closing", "closed"} => pending = {}
      /\ attempt \in Attempt /\ cache \in 0..Len(heard) /\ (cache # 0 => Aware(heard, cache))
  BY DEF ToldInv, OneWait, ToldTyped, CacheKnows
<1>4. CASE Timer
  <2>1. pending' = {} /\ answer' = "timeout" /\ UNCHANGED <<pc, child>>
    BY <1>4 DEF Timer
  <2> QED
    BY <1>1, <1>2, <2>1 DEF ToldInv, ToldTyped, CacheKnows, OneWait, ChildrenSound, Awaited,
       Current
<1>5. CASE CloseTimer \/ BrokenPipe
  <2>1. pc' \in {"closed", "exited"} /\ UNCHANGED <<answer, pending, child>>
        /\ (pc' = "closed" => pc = "closing")
    BY <1>5 DEF CloseTimer, BrokenPipe, client
  <2>2. OneWait'
    BY <1>1, <1>3, <2>1 DEF OneWait
  <2>3. child \in Seq(Children)
    BY ToldFacts
  <2> QED
    BY <1>1, <1>2, <1>3, <2>1, <2>2, <2>3, RestSafe DEF Requests
<1>6. ASSUME NEW c \in DOMAIN child, CloseEvent(c) PROVE ToldInv'
  <2> DEFINE new == [child[c] EXCEPT !.gone = TRUE]
  <2>1. c \in 1..Len(child) /\ child[c] \in Children /\ Sound(child[c], Latest, heard)
    BY <1>6, ToldFacts
  <2>2. /\ child' = [child EXCEPT ![c] = new]
        /\ pc' = pc \/ (pc = "closing" /\ pc' = "closed")
        /\ \/ UNCHANGED <<pending, answer>>
           \/ pending # {} /\ pending' = {} /\ answer' = "reject"
    BY <1>6, <2>1, ToldFacts DEF CloseEvent
  <2>3. /\ new \in Children /\ new.talk = child[c].talk /\ new.job = child[c].job
        /\ new.inbox = child[c].inbox /\ new.out = child[c].out
    BY <2>1 DEF Children
  <2> HIDE DEF new
  <2>4. OneWait'
    BY <1>1, <1>3, <2>2 DEF OneWait
  <2>5. /\ child' \in Seq(Children) /\ Len(child') = Len(child) /\ child'[c] = new
        /\ \A d \in 1..Len(child) : d # c => child'[d] = child[d]
    BY <2>1, <2>2, <2>3, ToldFacts
  <2>6. CASE pc' = "closed"
    BY <1>1, <1>2, <1>3, <2>1, <2>3, <2>4, <2>5, <2>6, RestSafe DEF Requests
  <2>7. CASE pc' # "closed"
    <3>1. pc' = pc
      BY <2>2, <2>7
    <3>2. Sound(new, Latest, heard')
      BY <1>1, <2>1, <2>3 DEF Sound
    <3>3. /\ Free(child[c], Latest) => Free(new, Latest)
          /\ Responded(new, Latest) <=> Responded(child[c], Latest)
      BY <2>3 DEF Free, Responded
    <3>4. answer' # "ok"
      BY <1>1, <2>2
    <3>5. ASSUME c = process, pc' \in Requests
          PROVE  /\ Unread(new, Latest, pc)
                 /\ Responded(new, Latest) => Granted(new, heard', pc, session)
                 /\ pc = "session/prompt" => new.talk = Current.talk
      <4>1. /\ Unread(child[c], Latest, pc) /\ child[c] = Current
            /\ Responded(child[c], Latest) => Granted(child[c], heard, pc, session)
        BY <3>1, <3>5 DEF ToldInv, Awaited, Current
      <4> QED
        BY <1>1, <2>3, <3>3, <4>1 DEF Unread, Granted
    <3> QED
      BY <1>1, <1>2, <2>1, <2>2, <2>3, <2>4, <3>1, <3>2, <3>3, <3>4, <3>5, OneChildSafe
  <2> QED
    BY <2>6, <2>7
<1> QED
  BY <1>4, <1>5, <1>6

-----------------------------------------------------------------------------
(* The child's own steps: a prompt is heard, ... *)
LEMMA HearsSafe ==
    ASSUME heard \in Seq(Conversations), ToldFirst,
           NEW s \in 1..Len(heard), NEW kind \in Kinds, kind # "nothing",
           kind = "initial" \/ Aware(heard, s), Hears(s, kind)
    PROVE  ToldFirst' /\ Grows(heard, heard') /\ Aware(heard', s)
<1>1. CASE heard[s].first # "nothing"
  BY <1>1 DEF Hears, ToldFirst, Grows, Aware
<1>2. CASE heard[s].first = "nothing"
  <2> DEFINE new == [heard[s] EXCEPT !.first = kind]
  <2>1. heard[s] \in Conversations
    OBVIOUS
  <2>2. new \in Conversations /\ new.first = kind /\ new.lost = heard[s].lost
    BY <2>1 DEF Conversations
  <2>3. heard' = [heard EXCEPT ![s] = new]
    BY <1>2 DEF Hears
  <2> HIDE DEF new
  <2>4. /\ heard' \in Seq(Conversations) /\ Len(heard') = Len(heard) /\ heard'[s] = new
        /\ \A t \in 1..Len(heard) : t # s => heard'[t] = heard[t]
    BY <2>2, <2>3
  <2>5. Aware(heard', s)
    BY <2>2, <2>4 DEF Aware
  <2>6. \A t \in 1..Len(heard) : Aware(heard, t) => Aware(heard', t)
    BY <2>4, <2>5 DEF Aware
  <2>7. ToldFirst'
    BY <1>2, <2>2, <2>4 DEF ToldFirst, Aware
  <2> QED
    BY <2>4, <2>5, <2>6, <2>7 DEF Grows
<1> QED
  BY <1>1, <1>2

(* ... and a conversation is made or taken up again. *)
LEMMA TalksInSafe ==
    ASSUME heard \in Seq(Conversations), ToldFirst,
           NEW s \in Nat, NEW line, NEW talk \in 0..Len(heard), TalksIn(s, line, talk),
           line.method = "session/resume" =>
              line.session \in 1..Len(heard) /\ Aware(heard, line.session)
    PROVE  /\ ToldFirst' /\ Grows(heard, heard') /\ s \in 0..Len(heard')
           /\ line.method \in {"session/new", "session/resume"} => s # 0
           /\ line.method = "session/resume" => Aware(heard', s)
<1>1. ASSUME NEW lost \in BOOLEAN, Begins(lost)
      PROVE  /\ ToldFirst' /\ Grows(heard, heard') /\ Len(heard) + 1 \in 1..Len(heard')
             /\ lost => Aware(heard', Len(heard) + 1)
  <2> DEFINE new == [first |-> "nothing", lost |-> lost]
  <2>1. new \in Conversations /\ new.first = "nothing" /\ new.lost = lost
    BY DEF Conversations, Kinds
  <2>2. heard' = Append(heard, new)
    BY <1>1 DEF Begins
  <2> HIDE DEF new
  <2>3. /\ heard' \in Seq(Conversations) /\ Len(heard') = Len(heard) + 1 /\ Len(heard) \in Nat
        /\ heard'[Len(heard) + 1] = new
        /\ \A t \in 1..Len(heard) : heard'[t] = heard[t]
    BY <2>1, <2>2
  <2>4. \A t \in 1..Len(heard) : Aware(heard, t) => Aware(heard', t)
    BY <2>3 DEF Aware
  <2>5. ASSUME NEW t \in 1..Len(heard')
        PROVE  heard'[t].lost \/ heard'[t].first \in {"nothing", "initial"}
    <3>1. t \in 1..Len(heard) \/ t = Len(heard) + 1
      BY <2>3
    <3> QED
      BY <2>1, <2>3, <3>1 DEF ToldFirst
  <2> QED
    BY <2>1, <2>3, <2>4, <2>5 DEF Grows, Aware, ToldFirst
<1>2. UNCHANGED heard => ToldFirst' /\ Grows(heard, heard')
  BY SameHeard DEF ToldFirst
<1>3. Len(heard) \in Nat
  OBVIOUS
<1>4. CASE line.method = "session/new"
  <2>1. s = Len(heard) + 1 /\ Begins(FALSE)
    BY <1>4 DEF TalksIn
  <2>2. ToldFirst' /\ Grows(heard, heard') /\ Len(heard) + 1 \in 1..Len(heard')
    BY <1>1, <2>1, Zenon
  <2> QED
    BY <1>3, <1>4, <2>1, <2>2 DEF Grows
<1>5. CASE line.method = "session/resume"
  <2>1. CASE s = line.session /\ UNCHANGED heard
    BY <1>2, <1>3, <1>5, <2>1
  <2>2. CASE s = Len(heard) + 1 /\ Begins(TRUE)
    <3>1. /\ ToldFirst' /\ Grows(heard, heard') /\ Len(heard) + 1 \in 1..Len(heard')
          /\ Aware(heard', Len(heard) + 1)
      BY <1>1, <2>2, Zenon
    <3> QED
      BY <1>3, <1>5, <2>2, <3>1 DEF Grows
  <2> QED
    BY <1>5, <2>1, <2>2 DEF TalksIn
<1>6. CASE line.method \notin {"session/new", "session/resume"}
  BY <1>2, <1>3, <1>6 DEF TalksIn
<1> QED
  BY <1>4, <1>5, <1>6

(* A line is written behind those under way. *)
LEMMA LineAdded ==
    ASSUME NEW ch \in Children, NEW new \in Children, NEW line \in Lines, NEW k \in Nat,
           new.out = Append(ch.out, line)
    PROVE  /\ Responded(new, k) <=> Responded(ch, k) \/ (line.what = "response" /\ line.id = k)
           /\ (\A i \in 1..Len(ch.out) : ch.out[i].what # "ask" => ch.out[i].id <= k)
                /\ (line.what # "ask" => line.id <= k)
                => \A i \in 1..Len(new.out) : new.out[i].what # "ask" => new.out[i].id <= k
<1>1. /\ ch.out \in Seq(Lines) /\ Len(ch.out) \in Nat /\ Len(new.out) = Len(ch.out) + 1
      /\ new.out[Len(ch.out) + 1] = line
      /\ \A i \in 1..Len(ch.out) : new.out[i] = ch.out[i]
  <2>1. ch.out \in Seq(Lines)
    BY DEF Children
  <2> QED
    BY <2>1
<1>2. \A i \in 1..Len(new.out) : i \in 1..Len(ch.out) \/ i = Len(ch.out) + 1
  BY <1>1
<1>3. Responded(ch, k) => Responded(new, k)
  BY <1>1 DEF Responded
<1>4. line.what = "response" /\ line.id = k => Responded(new, k)
  BY <1>1 DEF Responded
<1>5. Responded(new, k) => Responded(ch, k) \/ (line.what = "response" /\ line.id = k)
  BY <1>1, <1>2 DEF Responded
<1> QED
  BY <1>1, <1>2, <1>3, <1>4, <1>5

LEMMA OneLeft ==
    ASSUME NEW S, NEW s \in Seq(S), s # <<>>, Len(s) <= 1
    PROVE  Len(s) = 1 /\ Head(s) = s[1] /\ Tail(s) = <<>>
<1>1. Len(s) = 1 /\ Head(s) = s[1]
  <2>1. Len(s) \in Nat /\ Len(s) # 0
    BY EmptySeq
  <2> QED
    BY <2>1
<1>2. Tail(s) \in Seq(S) /\ Len(Tail(s)) = 0
  BY <1>1, HeadTailProperties
<1> QED
  BY <1>1, <1>2, EmptySeq

LEMMA ChildSafe ==
    ASSUME ToldInv, NEW c \in 1..Len(child), ChildReads(c) \/ ChildSays(c) \/ ChildExits(c)
    PROVE  ToldInv'
<1> DEFINE ch == child[c]
<1>1. /\ UNCHANGED <<pc, answer, pending, process, nextId, cache, op, attempt, session>>
      /\ Latest' = Latest
  BY DEF ChildReads, ChildSays, ChildExits, ChildRest, client, world, Latest
<1>2. /\ ch \in Children /\ Sound(ch, Latest, heard) /\ Latest \in Nat
      /\ heard \in Seq(Conversations) /\ Grows(heard, heard) /\ ToldFirst
      /\ child \in Seq(Children) /\ DOMAIN child = 1..Len(child)
  BY ToldFacts DEF ToldInv
<1>3. OneWait'
  BY <1>1 DEF ToldInv, OneWait
<1>4. UNCHANGED heard => Grows(heard, heard') /\ ToldFirst'
  BY <1>2 DEF ToldFirst
<1>5. pc \in Requests /\ c = process =>
        /\ ch = Current /\ Unread(ch, Latest, pc)
        /\ answer = "ok" => ch.inbox = <<>>
        /\ answer = "ok" \/ Responded(ch, Latest) => Granted(ch, heard, pc, session)
        /\ pc = "session/prompt" =>
            /\ session \in 1..Len(heard) /\ ch.talk # 0
            /\ session = ch.talk \/ Aware(heard, session)
  BY DEF ToldInv, Awaited, Current
<1>6. ASSUME NEW h2, Grows(heard, h2), pc \in Requests, c = process,
             Granted(ch, heard, pc, session)
      PROVE  Granted(ch, h2, pc, session)
  <2>1. ch.talk \in 0..Len(heard) /\ Len(heard) \in Nat
    BY <1>2 DEF Sound
  <2>2. pc \in {"session/resume", "session/prompt"} => ch.talk \in 1..Len(heard)
    BY <1>5, <1>6, <2>1 DEF Granted
  <2> QED
    BY <1>5, <1>6, <2>2 DEF Granted, Grows
<1>7. ASSUME ChildReads(c) PROVE ToldInv'
  <2> DEFINE line == Head(ch.inbox)
             left == Tail(ch.inbox)
             rest == [ch EXCEPT !.inbox = left]
  <2>1. /\ ch.inbox # <<>> /\ ch.job = 0 /\ line = ch.inbox[1] /\ left = <<>> /\ line \in Inboxes
        /\ line.id \in 1..Latest
        /\ line.method = "session/prompt" =>
            /\ ch.talk # 0 /\ line.says # "nothing" /\ line.says \in Kinds
            /\ line.says = "initial" \/ Aware(heard, ch.talk)
        /\ line.method = "session/resume" =>
            line.session \in 1..Len(heard) /\ Aware(heard, line.session)
    <3>1. ch.inbox # <<>> /\ ch.job = 0 /\ ch.inbox \in Seq(Inboxes) /\ Len(ch.inbox) <= 1
      BY <1>2, <1>7 DEF ChildReads, Sound, Children
    <3>2. Len(ch.inbox) = 1 /\ line = ch.inbox[1] /\ left = <<>>
      BY <3>1, OneLeft
    <3>4. 1 \in 1..Len(ch.inbox) /\ line \in Inboxes
      BY <3>1, <3>2
    <3>5. line.says \in Kinds
      BY <3>4 DEF Inboxes
    <3> QED
      BY <1>2, <3>1, <3>2, <3>4, <3>5 DEF Sound
  <2>a. /\ child[c].inbox = ch.inbox
        /\ [child EXCEPT ![c].inbox = Tail(@)] = [child EXCEPT ![c] = rest]
    BY <1>2
  <2> HIDE DEF left, line
  <2>2. /\ rest \in Children /\ rest.inbox = <<>> /\ rest.job = 0 /\ rest.talk = ch.talk
        /\ rest.out = ch.out
    <3>1. <<>> \in Seq(Inboxes)
      OBVIOUS
    <3> QED
      BY <1>2, <2>1, <3>1 DEF Children
  <2> HIDE DEF rest
  <2>3. Free(ch, Latest) => line.id # Latest
    <3>1. 1 \in 1..Len(ch.inbox)
      <4>1. ch.inbox \in Seq(Inboxes)
        BY <1>2 DEF Children
      <4> QED
        BY <2>1, <4>1
    <3> QED
      BY <2>1, <3>1 DEF Free
  <2>4. pc \in Requests /\ c = process =>
          line.id = Latest /\ line.method = pc /\ answer # "ok" /\ ~Responded(ch, Latest)
    BY <1>5, <2>1 DEF Unread
  <2>5. CASE ReadsPrompt(c, line, [child EXCEPT ![c] = rest])
    <3> DEFINE new == [rest EXCEPT !.job = line.id]
    <3>1. /\ line.method = "session/prompt" /\ Hears(ch.talk, line.says)
          /\ child' = [child EXCEPT ![c] = new]
      BY <1>2, <2>5 DEF ReadsPrompt
    <3>2. line.id \in Nat /\ ch.talk \in 1..Len(heard)
      BY <1>2, <2>1, <3>1 DEF Sound
    <3>3. new \in Children /\ new.inbox = <<>> /\ new.job = line.id /\ new.talk = ch.talk
          /\ new.out = ch.out
      BY <2>2, <3>2 DEF Children
    <3> HIDE DEF new
    <3>4. ToldFirst' /\ Grows(heard, heard') /\ Aware(heard', ch.talk)
      BY <1>2, <2>1, <3>1, <3>2, HearsSafe
    <3>5. Sound(ch, Latest, heard')
      BY <1>2, <3>4, SoundStays
    <3>6. Sound(new, Latest, heard')
      BY <2>1, <3>2, <3>3, <3>4, <3>5 DEF Sound
    <3>7. Responded(new, Latest) <=> Responded(ch, Latest)
      BY <3>3 DEF Responded
    <3>8. Free(ch, Latest) => Free(new, Latest)
      BY <2>3, <3>3, <3>7 DEF Free
    <3>9. c = process /\ pc' \in Requests =>
            /\ Unread(new, Latest, pc)
            /\ answer' = "ok" => new.inbox = <<>>
            /\ answer' = "ok" \/ Responded(new, Latest) => Granted(new, heard', pc, session)
            /\ pc = "session/prompt" => new.talk = Current.talk
      BY <1>1, <1>5, <2>4, <3>3, <3>7 DEF Unread
    <3> QED
      BY <1>1, <1>3, <3>1, <3>3, <3>4, <3>6, <3>8, <3>9, OneChildSafe
  <2>6. CASE Replies(c, line, [child EXCEPT ![c] = rest])
    <3>1. PICK r \in {"ok", "error"}, s \in 0..Len(heard) + 1 :
            /\ child' = [[child EXCEPT ![c] = rest] EXCEPT ![c].talk = s, ![c].out =
                            Append(@, [what |-> "response", id |-> line.id, result |-> r])]
            /\ TalksIn(s, line, ch.talk)
      BY <2>6 DEF Replies
    <3> DEFINE reply == [what |-> "response", id |-> line.id, result |-> r]
               talking == [rest EXCEPT !.talk = s]
               longer == Append(rest.out, reply)
               new == [talking EXCEPT !.out = longer]
    <3>2. /\ line.method # "session/prompt" /\ reply \in Lines /\ reply.what = "response"
          /\ reply.id = line.id /\ s \in Nat
      BY <1>2, <2>1, <2>6 DEF Replies, Lines
    <3>3. child' = [child EXCEPT ![c] = new]
      BY <1>2, <3>1
    <3> HIDE DEF reply
    <3>4. longer \in Seq(Lines) /\ longer = Append(ch.out, reply)
      BY <2>2, <3>2 DEF Children
    <3> HIDE DEF longer
    <3>5. /\ new \in Children /\ new.inbox = <<>> /\ new.job = 0 /\ new.talk = s
          /\ new.out = Append(ch.out, reply)
      BY <2>2, <3>2, <3>4 DEF Children
    <3> HIDE DEF new, talking
    <3>6. /\ ToldFirst' /\ Grows(heard, heard') /\ s \in 0..Len(heard')
          /\ line.method \in {"session/new", "session/resume"} => s # 0
          /\ line.method = "session/resume" => Aware(heard', s)
      <4>1. ch.talk \in 0..Len(heard)
        BY <1>2 DEF Sound
      <4> QED
        BY <1>2, <2>1, <3>1, <3>2, <4>1, TalksInSafe
    <3>7. /\ Responded(new, Latest) <=> Responded(ch, Latest) \/ line.id = Latest
          /\ \A i \in 1..Len(new.out) : new.out[i].what # "ask" => new.out[i].id <= Latest
      <4>1. \A i \in 1..Len(ch.out) : ch.out[i].what # "ask" => ch.out[i].id <= Latest
        BY <1>2 DEF Sound
      <4>2. reply.id <= Latest
        BY <1>2, <2>1, <3>2
      <4>3. Responded(new, Latest) <=>
              Responded(ch, Latest) \/ (reply.what = "response" /\ reply.id = Latest)
        BY <1>2, <3>2, <3>5, LineAdded
      <4>4. \A i \in 1..Len(new.out) : new.out[i].what # "ask" => new.out[i].id <= Latest
        BY <1>2, <3>2, <3>5, <4>1, <4>2, LineAdded
      <4> QED
        BY <3>2, <4>3, <4>4
    <3>8. Sound(new, Latest, heard')
      <4>1. Len(new.inbox) = 0
        BY <3>5
      <4> QED
        BY <1>2, <3>5, <3>6, <3>7, <4>1 DEF Sound
    <3>9. Free(ch, Latest) => Free(new, Latest)
      BY <1>2, <2>1, <2>3, <3>5, <3>7 DEF Free
    <3>10. c = process /\ pc' \in Requests =>
            /\ Unread(new, Latest, pc)
            /\ answer' = "ok" => new.inbox = <<>>
            /\ answer' = "ok" \/ Responded(new, Latest) => Granted(new, heard', pc, session)
            /\ pc = "session/prompt" => new.talk = Current.talk
      BY <1>1, <2>4, <3>2, <3>5, <3>6 DEF Unread, Granted
    <3> QED
      BY <1>1, <1>3, <3>3, <3>5, <3>6, <3>8, <3>9, <3>10, OneChildSafe
  <2> QED
    BY <1>7, <2>5, <2>6, <2>a DEF ChildReads, line
<1>8. ASSUME ChildSays(c) PROVE ToldInv'
  <2>1. /\ ch.job # 0 /\ ch.job \in 1..Latest /\ UNCHANGED heard
        /\ ch.talk \in 1..Len(heard) /\ Aware(heard, ch.talk)
    BY <1>2, <1>8 DEF ChildSays, Sound
  <2>2. ASSUME NEW line \in Lines, line.what # "ask" => line.id = ch.job,
               NEW new \in Children, child' = [child EXCEPT ![c] = new],
               new.out = Append(ch.out, line), new.inbox = ch.inbox, new.talk = ch.talk,
               new.job \in {0, ch.job}
        PROVE  ToldInv'
    <3>1. /\ Responded(new, Latest) =>
                Responded(ch, Latest) \/ (line.what = "response" /\ ch.job = Latest)
          /\ \A i \in 1..Len(new.out) : new.out[i].what # "ask" => new.out[i].id <= Latest
      <4>1. \A i \in 1..Len(ch.out) : ch.out[i].what # "ask" => ch.out[i].id <= Latest
        BY <1>2 DEF Sound
      <4>2. /\ ch \in Children /\ Latest \in Nat
            /\ line.what # "ask" => line.id <= Latest /\ line.id = ch.job
        BY <1>2, <2>1, <2>2
      <4> HIDE DEF ch
      <4> QED
        BY <2>2, <4>1, <4>2, LineAdded
    <3>2. Sound(new, Latest, heard')
      BY <1>2, <2>1, <2>2, <3>1 DEF Sound
    <3>3. Free(ch, Latest) => Free(new, Latest)
      BY <2>1, <2>2, <3>1 DEF Free
    <3>4. ASSUME c = process, pc' \in Requests
          PROVE  /\ Unread(new, Latest, pc)
                 /\ answer' = "ok" => new.inbox = <<>>
                 /\ answer' = "ok" \/ Responded(new, Latest) => Granted(new, heard', pc, session)
                 /\ pc = "session/prompt" => new.talk = Current.talk
      <4>1. /\ ch = Current /\ Unread(ch, Latest, pc)
            /\ answer = "ok" => ch.inbox = <<>>
            /\ answer = "ok" \/ Responded(ch, Latest) => Granted(ch, heard, pc, session)
            /\ pc = "session/prompt" => session = ch.talk \/ Aware(heard, session)
        BY <1>1, <1>5, <3>4
      <4>2. Unread(new, Latest, pc)
        <5>1. ch.inbox # <<>> => ch.job # Latest
          BY <4>1 DEF Unread
        <5> QED
          BY <2>1, <2>2, <3>1, <4>1, <5>1 DEF Unread
      <4>3. Granted(new, heard', pc, session)
        BY <2>1, <2>2, <4>1 DEF Granted
      <4> QED
        BY <1>1, <2>2, <4>1, <4>2, <4>3
    <3> QED
      BY <1>1, <1>3, <1>4, <2>1, <2>2, <3>2, <3>3, <3>4, OneChildSafe
  <2>3. CASE child' = [child EXCEPT ![c].out = Append(@, [what |-> "piece", id |-> child[c].job])]
    <3> DEFINE line == [what |-> "piece", id |-> ch.job]
               longer == Append(ch.out, line)
               new == [ch EXCEPT !.out = longer]
    <3>1. line \in Lines /\ line.id = ch.job
      BY <1>2 DEF Lines, Children
    <3>2. child' = [child EXCEPT ![c] = new]
      BY <1>2, <2>3
    <3> HIDE DEF line
    <3>3. longer \in Seq(Lines) /\ longer = Append(ch.out, line)
      BY <1>2, <3>1 DEF Children
    <3> HIDE DEF longer
    <3>4. /\ new \in Children /\ new.out = longer /\ new.inbox = ch.inbox /\ new.talk = ch.talk
          /\ new.job = ch.job
      BY <1>2, <3>3 DEF Children
    <3> HIDE DEF new
    <3> QED
      BY <2>2, <3>1, <3>2, <3>3, <3>4
  <2>4. CASE child' = [child EXCEPT ![c].asks = TRUE, ![c].out = Append(@, [what |-> "ask"])]
    <3> DEFINE line == [what |-> "ask"]
               asking == [ch EXCEPT !.asks = TRUE]
               longer == Append(ch.out, line)
               new == [asking EXCEPT !.out = longer]
    <3>1. line \in Lines /\ line.what = "ask"
      BY DEF Lines
    <3>2. child' = [child EXCEPT ![c] = new]
      BY <1>2, <2>4
    <3> HIDE DEF line
    <3>3. longer \in Seq(Lines) /\ longer = Append(ch.out, line)
      BY <1>2, <3>1 DEF Children
    <3> HIDE DEF longer
    <3>4. /\ new \in Children /\ new.out = longer /\ new.inbox = ch.inbox /\ new.talk = ch.talk
          /\ new.job = ch.job
      BY <1>2, <3>3 DEF Children
    <3> HIDE DEF new, asking
    <3> QED
      BY <2>2, <3>1, <3>2, <3>3, <3>4
  <2>5. ASSUME NEW r \in {"ok", "error"},
               child' = [child EXCEPT ![c].job = 0, ![c].out =
                           Append(@, [what |-> "response", id |-> child[c].job, result |-> r])]
        PROVE  ToldInv'
    <3> DEFINE line == [what |-> "response", id |-> ch.job, result |-> r]
               resting == [ch EXCEPT !.job = 0]
               longer == Append(ch.out, line)
               new == [resting EXCEPT !.out = longer]
    <3>1. line \in Lines /\ line.id = ch.job
      BY <1>2 DEF Lines, Children
    <3>2. child' = [child EXCEPT ![c] = new]
      BY <1>2, <2>5
    <3> HIDE DEF line
    <3>3. longer \in Seq(Lines) /\ longer = Append(ch.out, line)
      BY <1>2, <3>1 DEF Children
    <3> HIDE DEF longer
    <3>4. /\ new \in Children /\ new.out = longer /\ new.inbox = ch.inbox /\ new.talk = ch.talk
          /\ new.job = 0
      BY <1>2, <3>3 DEF Children
    <3> HIDE DEF new, resting
    <3> QED
      BY <2>2, <3>1, <3>2, <3>3, <3>4
  <2> QED
    BY <1>8, <2>3, <2>4, <2>5 DEF ChildSays
<1>9. ASSUME ChildExits(c) PROVE ToldInv'
  <2>1. PICK code \in {0, 1} :
           child' = [child EXCEPT ![c].up = FALSE, ![c].code = code, ![c].job = 0,
                                  ![c].inbox = <<>>, ![c].asks = FALSE]
    BY <1>9 DEF ChildExits
  <2> DEFINE new == [ch EXCEPT !.up = FALSE, !.code = code, !.job = 0,
                               !.inbox = <<>>, !.asks = FALSE]
  <2>2. child' = [child EXCEPT ![c] = new] /\ UNCHANGED heard
    BY <1>2, <1>9, <2>1 DEF ChildExits
  <2>3. /\ new \in Children /\ new.inbox = <<>> /\ new.job = 0 /\ new.out = ch.out
        /\ new.talk = ch.talk
    <3>1. <<>> \in Seq(Inboxes)
      OBVIOUS
    <3> QED
      BY <1>2, <3>1 DEF Children
  <2> HIDE DEF new
  <2>4. Sound(new, Latest, heard') /\ (Latest # 0 /\ Free(ch, Latest) => Free(new, Latest))
        /\ (Responded(new, Latest) <=> Responded(ch, Latest))
    <3>1. Len(new.inbox) = 0 /\ (Responded(new, Latest) <=> Responded(ch, Latest))
      BY <2>3 DEF Responded
    <3>2. Sound(new, Latest, heard')
      BY <1>2, <2>2, <2>3, <3>1 DEF Sound
    <3>3. Latest # 0 /\ Free(ch, Latest) => Free(new, Latest)
      <4>1. \A i \in 1..Len(new.inbox) : FALSE
        BY <3>1
      <4> QED
        BY <2>3, <3>1, <4>1 DEF Free
    <3> QED
      BY <3>1, <3>2, <3>3
  <2>5. c = process /\ pc' \in Requests =>
          /\ Unread(new, Latest, pc)
          /\ answer' = "ok" => new.inbox = <<>>
          /\ answer' = "ok" \/ Responded(new, Latest) => Granted(new, heard', pc, session)
          /\ pc = "session/prompt" => new.talk = Current.talk
    BY <1>1, <1>5, <2>2, <2>3, <2>4 DEF Unread, Granted
  <2>6. pc' \in Requests => Latest # 0
    BY <1>1 DEF ToldInv, Awaited
  <2> QED
    BY <1>1, <1>3, <1>4, <2>2, <2>3, <2>4, <2>5, <2>6, OneChildSafe
<1> QED
  BY <1>7, <1>8, <1>9

-----------------------------------------------------------------------------
LEMMA NewChildSound ==
    ASSUME NEW k \in Nat, NEW h \in Seq(Conversations)
    PROVE  NewChild \in Children /\ NewChild.inbox = <<>> /\ Sound(NewChild, k, h)
<1>1. <<>> \in Seq(Inboxes) /\ <<>> \in Seq(Lines) /\ Len(<<>>) = 0
  OBVIOUS
<1> QED
  BY <1>1 DEF NewChild, Children, Sound

(* The answer that was waited for is there. *)
LEMMA AnsweredFacts ==
    ASSUME ToldInv, pc \in Requests, answer = "ok"
    PROVE  /\ child # <<>> /\ pending = {} /\ Current = child[Len(child)] /\ Current.inbox = <<>>
           /\ Current.talk \in 0..Len(heard) /\ Granted(Current, heard, pc, session)
           /\ process = Len(child) /\ child \in Seq(Children)
           /\ \A c \in 1..Len(child) : Sound(child[c], Latest, heard)
<1>1. /\ child # <<>> /\ Current.inbox = <<>> /\ Granted(Current, heard, pc, session)
      /\ pending = {} /\ process = Len(child) /\ Current = child[Len(child)]
  BY DEF ToldInv, Awaited, OneWait, ToldTyped, Current
<1>2. Len(child) \in 1..Len(child)
  BY <1>1, ToldFacts
<1> QED
  BY <1>1, <1>2, ToldFacts DEF Sound

(* close, and the exit of the process, after an answer of any kind. *)
LEMMA GiveUpSafe ==
    ASSUME ToldInv, answer # "none", pc \in Requests, op' = op,
           Exit \/ \E next \in {"connect", "done"} : Close(next),
           Grows(heard, heard'), ToldFirst',
           cache' \in 0..Len(heard'), cache' # 0 => Aware(heard', cache'), cache # 0 => cache' # 0
    PROVE  ToldInv'
<1>1. /\ pending = {} /\ attempt \in Attempt /\ child # <<>> /\ process = Len(child)
      /\ process \in 1..Len(child) /\ child \in Seq(Children)
  <2>1. pending = {} /\ attempt \in Attempt /\ child # <<>> /\ process = Len(child)
    BY DEF ToldInv, OneWait, ToldTyped, Awaited
  <2> QED
    BY <2>1, ToldFacts
<1>2. CASE Exit
  BY <1>1, <1>2, RestSafe DEF Exit, client, OneWait, Requests
<1>3. ASSUME NEW next \in {"connect", "done"}, Close(next) PROVE ToldInv'
  <2> DEFINE new == [Current EXCEPT !.eof = TRUE]
  <2>1. /\ pc' = "closing" /\ answer' = "none" /\ attempt' = [attempt EXCEPT !.next = next]
        /\ UNCHANGED <<process, pending, nextId>>
        /\ child' = [child EXCEPT ![process] = new]
    BY <1>3 DEF Close, Current
  <2>2. Current \in Children
    BY <1>1 DEF Current
  <2>3. /\ new \in Children /\ new.talk = Current.talk /\ new.job = Current.job
        /\ new.inbox = Current.inbox /\ new.out = Current.out
    BY <2>2 DEF Children
  <2> HIDE DEF new
  <2>4. /\ child' \in Seq(Children) /\ Len(child') = Len(child) /\ child'[process] = new
        /\ \A d \in 1..Len(child) : d # process => child'[d] = child[d]
    BY <1>1, <2>1, <2>3
  <2>5. attempt' \in Attempt
    BY <1>1, <2>1 DEF Attempt
  <2>6. \A c \in 1..Len(child) :
          /\ child'[c].talk = child[c].talk /\ child'[c].job = child[c].job
          /\ child'[c].inbox = child[c].inbox /\ child'[c].out = child[c].out
    BY <2>3, <2>4 DEF Current
  <2> QED
    BY <1>1, <2>1, <2>4, <2>5, <2>6, RestSafe DEF OneWait, Requests
<1> QED
  BY <1>2, <1>3

(* A new child is asked to introduce itself. *)
LEMMA HandshakeSafe ==
    ASSUME ToldInv, pending = {}, NEW how \in {"connect", "resume"}, Handshake(how),
           how = "resume" => cache # 0, attempt' \in Attempt, UNCHANGED <<cache, heard>>
    PROVE  ToldInv'
<1> DEFINE spawned == Append(child, NewChild)
<1>1. /\ spawned \in Seq(Children) /\ spawned # <<>> /\ Len(spawned) = Len(child) + 1
      /\ spawned[Len(spawned)] = NewChild
      /\ \A c \in 1..Len(child) : spawned[c] = child[c]
      /\ Len(child) \in Nat
  <2>1. NewChild \in Children /\ child \in Seq(Children)
    BY NewChildSound, ToldFacts
  <2>2. /\ spawned \in Seq(Children) /\ Len(spawned) = Len(child) + 1 /\ Len(child) \in Nat
        /\ spawned[Len(child) + 1] = NewChild
        /\ \A c \in 1..Len(child) : spawned[c] = child[c]
    BY <2>1, AppendProperties
  <2> QED
    BY <2>2
<1>2. /\ SendRequest(spawned, Len(spawned), "initialize", 0, "nothing")
      /\ process' = Len(spawned) /\ op' = how
  BY DEF Handshake
<1> HIDE DEF spawned
<1>3. \A c \in 1..Len(spawned) : Sound(spawned[c], Latest, heard)
  <2> SUFFICES ASSUME NEW c \in 1..Len(spawned) PROVE Sound(spawned[c], Latest, heard)
    OBVIOUS
  <2>1. c \in 1..Len(child) \/ c = Len(spawned)
    BY <1>1
  <2>2. CASE c \in 1..Len(child)
    BY <1>1, <2>2, ToldFacts
  <2>3. CASE c = Len(spawned)
    BY <1>1, <2>3, NewChildSound, ToldFacts
  <2> QED
    BY <2>1, <2>2, <2>3
<1>4. /\ spawned[Len(spawned)].inbox = <<>> /\ "initialize" \in Requests /\ "nothing" \in Kinds
      /\ 0 \in Nat
  BY <1>1, NewChildSound, ToldFacts DEF Requests, Kinds
<1>5. /\ Grows(heard, heard') /\ ToldFirst' /\ cache' \in 0..Len(heard')
      /\ (cache' # 0 => Aware(heard', cache')) /\ (op' = "resume" => cache' # 0)
  BY <1>2, ToldFacts DEF ToldInv, ToldFirst, CacheKnows
<1> QED
  BY <1>1, <1>2, <1>3, <1>4, <1>5, SendSafe

LEMMA AnsweredSafe ==
    ASSUME ToldInv, Answered
    PROVE  ToldInv'
<1> DEFINE late == answer = "timeout" /\ ~Knows(session)
           new == [heard[session] EXCEPT !.lost = @ \/ late]
<1>1. /\ pc = "session/prompt" /\ answer \in {"ok", "timeout"} /\ pc \in Requests
      /\ session \in 1..Len(heard) /\ op' = op /\ heard \in Seq(Conversations)
      /\ cache \in 0..Len(heard) /\ (cache # 0 => Aware(heard, cache)) /\ Len(heard) \in Nat
  BY ToldFacts DEF Answered, Requests, ToldInv, Awaited, CacheKnows
<1>2. heard' = [heard EXCEPT ![session] = new]
  BY <1>1 DEF Answered
<1>3. new \in Conversations /\ new.first = heard[session].first /\ new.lost = (heard[session].lost \/ late)
  <2> DEFINE lost == heard[session].lost \/ late
  <2>1. lost \in BOOLEAN
    BY Zenon
  <2>2. heard[session] \in Conversations
    BY <1>1
  <2>3. new = [heard[session] EXCEPT !.lost = lost]
    BY Zenon
  <2> HIDE DEF lost, new
  <2>4. new \in Conversations /\ new.first = heard[session].first /\ new.lost = lost
    BY <2>1, <2>2, <2>3 DEF Conversations
  <2> QED
    BY <2>4 DEF lost
<1>4. Aware(heard, session) \/ late
  <2>1. CASE answer = "ok"
    BY <1>1, <2>1, AnsweredFacts DEF Granted
  <2>2. CASE answer = "timeout"
    BY <2>2 DEF Knows, Aware
  <2> QED
    BY <1>1, <2>1, <2>2
<1> HIDE DEF new, late
<1>5. /\ heard' \in Seq(Conversations) /\ Len(heard') = Len(heard) /\ heard'[session] = new
      /\ \A t \in 1..Len(heard) : t # session => heard'[t] = heard[t]
  BY <1>1, <1>2, <1>3
<1>6. Aware(heard', session) /\ (\A t \in 1..Len(heard) : Aware(heard, t) => Aware(heard', t))
  BY <1>3, <1>4, <1>5 DEF Aware
<1>7. Grows(heard, heard')
  BY <1>1, <1>5, <1>6 DEF Grows
<1>8. ToldFirst'
  BY <1>3, <1>5 DEF ToldInv, ToldFirst
<1>9. /\ Cached \in 0..Len(heard') /\ (Cached # 0 => Aware(heard', Cached))
      /\ (cache # 0 => Cached # 0)
  BY <1>1, <1>5, <1>6 DEF Cached
<1>10. CASE Failure /\ UNCHANGED cache
  <2>1. Exit \/ \E next \in {"connect", "done"} : Close(next)
    BY <1>10 DEF Failure
  <2>2. cache' \in 0..Len(heard') /\ (cache' # 0 => Aware(heard', cache'))
    BY <1>1, <1>5, <1>6, <1>10
  <2> QED
    BY <1>1, <1>7, <1>8, <1>10, <2>1, <2>2, GiveUpSafe
<1>11. CASE cache' = Cached /\ Close("done")
  BY <1>1, <1>7, <1>8, <1>9, <1>11, GiveUpSafe
<1>12. CASE /\ cache' = Cached /\ answer = "ok" /\ Prompt(session, "correction")
            /\ UNCHANGED <<attempt, process>>
  <2>1. /\ SendRequest(child, Len(child), "session/prompt", session, "correction")
        /\ session' = session /\ process' = Len(child)
    BY <1>12, ToldFacts DEF Prompt
  <2>2. /\ pending = {} /\ child \in Seq(Children) /\ child # <<>>
        /\ \A c \in 1..Len(child) : Sound(child[c], Latest, heard)
        /\ Current = child[Len(child)] /\ Current.inbox = <<>> /\ Current.talk \in 0..Len(heard)
        /\ Aware(heard, Current.talk)
    BY <1>1, <1>12, AnsweredFacts DEF Granted
  <2>3. Current.talk # 0
    BY <1>1 DEF ToldInv, Awaited
  <2>4. Aware(heard', Current.talk)
    BY <1>1, <1>6, <2>2, <2>3
  <2>5. /\ "session/prompt" \in Requests /\ "correction" \in Kinds /\ session \in Nat
        /\ attempt' \in Attempt
    BY <1>1, <1>12 DEF Requests, Kinds, Sayings, ToldInv, ToldTyped
  <2>6. op' = "resume" => cache' # 0
    BY <1>1, <1>9, <1>12 DEF ToldInv, CacheKnows
  <2> QED
    BY <1>1, <1>5, <1>6, <1>7, <1>8, <1>9, <1>12, <2>1, <2>2, <2>3, <2>4, <2>5, <2>6, SendSafe
<1> QED
  BY <1>10, <1>11, <1>12 DEF Answered

LEMMA ToldStep == ToldInv /\ [Next]_vars => ToldInv'
<1> SUFFICES ASSUME ToldInv, [Next]_vars PROVE ToldInv'
  OBVIOUS
<1>1. /\ attempt \in Attempt /\ pending \subseteq {Latest}
      /\ pc \in {"idle", "closing", "closed"} \/ answer # "none" => pending = {}
      /\ cache \in 0..Len(heard) /\ (cache # 0 => Aware(heard, cache)) /\ cache \in Nat
      /\ op = "resume" => cache # 0
  BY ToldFacts DEF ToldInv, ToldTyped, OneWait, CacheKnows
<1>2. UNCHANGED heard => Grows(heard, heard') /\ ToldFirst'
  BY ToldFacts DEF ToldInv, ToldFirst
<1>3. CASE Begin
  <2>1. PICK on \in BOOLEAN : Handshake(IF CachedSessionId(on) # 0 THEN "resume" ELSE "connect")
    BY <1>3 DEF Begin
  <2>2. PICK how \in {"connect", "resume"} : Handshake(how) /\ (how = "resume" => cache # 0)
    BY <2>1 DEF CachedSessionId
  <2> QED
    BY <1>1, <1>3, <2>2, HandshakeSafe DEF Begin
<1>4. CASE Initialized
  <2>1. PICK method \in {"session/resume", "session/new"} :
          /\ SendRequest(child, process, method, cache, "nothing")
          /\ method = "session/resume" => op = "resume"
    BY <1>4 DEF Initialized
  <2>2. /\ pc \in Requests /\ answer = "ok" /\ method \in Requests /\ "nothing" \in Kinds
        /\ UNCHANGED <<op, attempt, process, cache, heard>>
    BY <1>4 DEF Initialized, Requests, Kinds, world
  <2>3. method = "session/resume" => cache \in 1..Len(heard') /\ Aware(heard', cache)
    BY <1>1, <2>1, <2>2, ToldFacts
  <2>4. /\ pending = {} /\ child # <<>> /\ child \in Seq(Children) /\ process = Len(child)
        /\ child[Len(child)].inbox = <<>>
        /\ \A c \in 1..Len(child) : Sound(child[c], Latest, heard)
    BY <2>2, AnsweredFacts
  <2>5. SendRequest(child, Len(child), method, cache, "nothing") /\ process' = Len(child)
        /\ method # "session/prompt"
    BY <2>1, <2>2, <2>4
  <2> QED
    BY <1>1, <1>2, <2>1, <2>2, <2>3, <2>4, <2>5, SendSafe
<1>5. CASE Connected
  <2>1. /\ pc = "session/new" /\ answer = "ok" /\ attempt' = Plain /\ pc \in Requests
        /\ SendRequest(child, process, "session/prompt", Current.talk, "initial")
        /\ session' = Current.talk /\ UNCHANGED <<op, process, cache, heard>>
    BY <1>5 DEF Connected, Prompt, FreshAttempt, Plain, Requests, Current, world
  <2>2. /\ pending = {} /\ child # <<>> /\ child \in Seq(Children) /\ process = Len(child)
        /\ Current = child[Len(child)] /\ Current.inbox = <<>> /\ Current.talk \in 0..Len(heard)
        /\ Current.talk # 0
        /\ \A c \in 1..Len(child) : Sound(child[c], Latest, heard)
    BY <2>1, AnsweredFacts DEF Granted
  <2>3. /\ "session/prompt" \in Requests /\ "initial" \in Kinds /\ attempt' \in Attempt
        /\ Current.talk \in Nat /\ Current.talk \in 1..Len(heard')
    BY <2>1, <2>2, ToldFacts DEF Requests, Kinds, Sayings, Attempt, Plain
  <2> QED
    BY <1>1, <1>2, <2>1, <2>2, <2>3, SendSafe
<1>6. CASE ResumedSession
  <2>1. /\ pc = "session/resume" /\ answer = "ok" /\ attempt' = ResumedAttempt /\ pc \in Requests
        /\ SendRequest(child, process, "session/prompt", cache, ResumedAttempt.kind)
        /\ session' = cache /\ UNCHANGED <<process, cache, heard>> /\ op' = "connect"
    BY <1>6 DEF ResumedSession, Prompt, Requests, world
  <2>2. ResumedAttempt \in Attempt /\ ResumedAttempt.kind \in Kinds \ {"nothing"}
    BY <1>1 DEF ResumedAttempt, Attempt, Kinds, Sayings
  <2>3. /\ pending = {} /\ child # <<>> /\ child \in Seq(Children) /\ process = Len(child)
        /\ Current = child[Len(child)] /\ Current.inbox = <<>> /\ Current.talk \in 0..Len(heard)
        /\ Current.talk # 0 /\ Aware(heard, Current.talk)
        /\ \A c \in 1..Len(child) : Sound(child[c], Latest, heard)
    BY <2>1, AnsweredFacts DEF Granted
  <2>4. cache \in 1..Len(heard) /\ Aware(heard, cache) /\ "session/prompt" \in Requests
    BY <1>1, <2>1, ToldFacts DEF ToldInv, CacheKnows, Requests
  <2> QED
    BY <1>1, <1>2, <2>1, <2>2, <2>3, <2>4, SendSafe
<1>7. CASE Answered
  BY <1>7, AnsweredSafe
<1>8. CASE Failed
  <2>1. /\ pc \in Requests /\ answer # "none" /\ UNCHANGED <<op, cache, heard>>
        /\ Exit \/ \E next \in {"connect", "done"} : Close(next)
    BY <1>8 DEF Failed, Failure, Requests, world
  <2> QED
    BY <1>1, <1>2, <2>1, GiveUpSafe
<1>9. CASE Reopen
  <2>1. /\ pc = "closed" /\ Handshake("connect") /\ UNCHANGED <<cache, heard>>
        /\ attempt' \in Attempt
    BY <1>1, <1>9 DEF Reopen, Attempt, world
  <2> QED
    BY <1>1, <2>1, HandshakeSafe
<1>10. CASE End
  <2>1. /\ pc' = "idle" /\ answer' = "none" /\ op' = "connect" /\ attempt' = Plain /\ process' = 0
        /\ pending' = {} /\ nextId' = 1 /\ child' = <<>> /\ UNCHANGED <<cache, heard>>
    BY <1>10 DEF End, world
  <2>2. <<>> \in Seq(Children) /\ Len(<<>>) = 0 /\ Plain \in Attempt
    BY DEF Plain, Attempt, Sayings
  <2> QED
    BY <1>1, <1>2, <2>1, <2>2, ToldFacts
       DEF ToldInv, ToldTyped, CacheKnows, OneWait, ChildrenSound, Awaited, Requests
<1>11. CASE UNCHANGED vars
  BY <1>11 DEF vars, client, world, past, ToldInv, ToldTyped, ToldFirst, CacheKnows, OneWait,
     ChildrenSound, Awaited, Current, Latest
<1> QED
  BY <1>3, <1>4, <1>5, <1>6, <1>7, <1>8, <1>9, <1>10, <1>11, ToldFacts,
     LineSafe, EventSafe, ChildSafe
     DEF Next, Adapter

LEMMA ToldAtFirst == Init => ToldInv
<1> SUFFICES ASSUME Init PROVE ToldInv
  OBVIOUS
<1>1. heard \in Seq(Conversations) /\ Len(heard) = 0 /\ child \in Seq(Children) /\ Len(child) = 0
  BY EmptySeq DEF Init
<1>2. attempt \in Attempt
  BY DEF Init, Plain, Attempt, Sayings
<1> QED
  BY <1>1, <1>2
     DEF Init, ToldInv, ToldTyped, ToldFirst, CacheKnows, OneWait, ChildrenSound, Awaited, Requests

(* No conversation begins with what only makes sense to one that knows its  *)
(* task, unless its past was lost on the side of the children.              *)
THEOREM TaskIsToldFirst == Spec => []FreshSessionsToldAll
<1>1. ToldInv => FreshSessionsToldAll
  BY DEF ToldInv, ToldTyped, ToldFirst, FreshSessionsToldAll
<1> QED
  BY <1>1, ToldAtFirst, ToldStep, PTL DEF Spec

-----------------------------------------------------------------------------
(* The text of an answer.  As long as no child is left running by close, at *)
(* most one child can still write, and nothing but the answer to the request *)
(* sent last: pieces, and behind them at most a question or a response.  So  *)
(* the pieces received and the pieces under way are together what was said   *)
(* for that request, and when its response comes none are under way.         *)
Ending(lines) == lines # <<>> /\ lines[Len(lines)].what # "piece"
PiecesIn(lines) == IF Ending(lines) THEN Len(lines) - 1 ELSE Len(lines)

Quiet(ch) == ch.job = 0 /\ ch.inbox = <<>>

\* A child to which request k was sent last.
Converses(ch, k) ==
    /\ ch.job \in {0, k}
    /\ ch.inbox # <<>> =>
        Len(ch.inbox) = 1 /\ ch.inbox[1].id = k /\ ch.job = 0 /\ ch.out = <<>>
    /\ \A i \in 1..Len(ch.out) :
        /\ ch.out[i].what # "ask" => ch.out[i].id = k
        /\ i < Len(ch.out) => ch.out[i].what = "piece"
        /\ ch.out[i].what = "response" => Quiet(ch)
    /\ ch.job # 0 /\ Ending(ch.out) => ch.asks

Departed(ch) ==
    /\ ch.gone => ~ch.up /\ ch.out = <<>>
    /\ ~ch.up => ch.job = 0

ClientTyped ==
    /\ pc \in Places /\ answer \in Answers
    /\ nextId \in Nat \ {0} /\ pending \subseteq Nat /\ chunks \in Seq(Nat)
    /\ said \in Seq(Nat) /\ Len(said) = Latest
    /\ text.id \in 0..Latest

ChildrenTyped == child \in Seq(Children) /\ process = Len(child)

\* Only the child that is there now may still write.
OthersGone ==
    \A c \in 1..Len(child) : Departed(child[c]) /\ (c # process => child[c].gone)

Waits ==
    /\ pc \in {"idle", "closing", "closed", "exited"} => answer = "none"
    /\ pc \in {"idle", "closing", "closed"} => pending = {}
    /\ pc \in Requests => pending = (IF answer = "none" THEN {Latest} ELSE {})
    /\ pc \in Requests /\ answer = "ok" => Quiet(Current) /\ Current.out = <<>>
    /\ answer = "reject" => ~Current.up
    /\ pc = "closed" => Current.gone

Streams ==
    pc = "session/prompt" /\ answer \in {"none", "ok"} =>
        /\ chunks = [i \in 1..Len(chunks) |-> Latest]
        /\ said[Latest] = Len(chunks) + PiecesIn(Current.out)

TextKept ==
    text.id # 0 =>
        /\ text.pieces = [i \in 1..said[text.id] |-> text.id]
        /\ text.id = Latest => Quiet(Current)

AnswerInv ==
    ~stray =>
        /\ ClientTyped /\ ChildrenTyped
        /\ IF pc = "idle" THEN child = <<>> /\ text.id = 0 /\ said = <<>>
           ELSE child # <<>> /\ Latest > 0 /\ Converses(Current, Latest)
        /\ OthersGone
        /\ Waits /\ Streams /\ TextKept

-----------------------------------------------------------------------------
(* What a client in the middle of an invocation relies on. *)
Talking ==
    /\ ~stray /\ pc # "idle"
    /\ ClientTyped /\ ChildrenTyped /\ child # <<>> /\ Latest > 0
    /\ Converses(Current, Latest)
    /\ OthersGone /\ Waits /\ Streams /\ TextKept

LEMMA TalkingFacts ==
    ASSUME Talking
    PROVE  /\ process \in 1..Len(child) /\ Current \in Children /\ Departed(Current)
           /\ nextId \in Nat /\ Latest \in Nat /\ Latest \in 1..Len(said) /\ Latest' = nextId' - 1
<1>1. child \in Seq(Children) /\ Len(child) \in Nat /\ Len(child) # 0
  BY DEF Talking, ChildrenTyped
<1>2. process \in 1..Len(child)
  BY <1>1 DEF Talking, ChildrenTyped
<1> QED
  BY <1>1, <1>2 DEF Talking, ClientTyped, OthersGone, Current, Latest

(* A request goes to the last child, of which nothing more is to come. *)
LEMMA SendKeeps ==
    ASSUME ClientTyped, pending = {}, ~stray',
           NEW children \in Seq(Children), children # <<>>,
           \A c \in 1..Len(children) :
              Departed(children[c]) /\ (c # Len(children) => children[c].gone),
           Quiet(children[Len(children)]), children[Len(children)].out = <<>>,
           NEW method \in Requests, NEW s \in Nat, NEW kind \in Kinds,
           SendRequest(children, Len(children), method, s, kind),
           process' = Len(children),
           chunks' \in Seq(Nat), method = "session/prompt" => chunks' = <<>>,
           text'.id \in 0..Latest,
           text'.id # 0 => text'.pieces = [i \in 1..said[text'.id] |-> text'.id]
    PROVE  AnswerInv'
<1> DEFINE last == Len(children)
           line == [id |-> nextId, method |-> method, session |-> s, says |-> kind]
           old == children[last]
           new == [old EXCEPT !.inbox = Append(@, line)]
<1>1. /\ last \in 1..Len(children) /\ Len(children) \in Nat /\ old \in Children
      /\ nextId \in Nat \ {0} /\ line \in Inboxes
  BY DEF ClientTyped, Inboxes
<1>2. new \in Children /\ new.inbox = <<line>> /\ new.out = <<>> /\ new.job = 0
      /\ new.up = old.up /\ new.gone = old.gone
  <2>1. Append(old.inbox, line) = <<line>> /\ <<line>> \in Seq(Inboxes)
    BY <1>1 DEF Quiet
  <2> QED
    BY <1>1, <2>1 DEF Children, Quiet
<1>3. child' = [children EXCEPT ![last] = new]
  BY DEF SendRequest, Written
<1> HIDE DEF new, old, line
<1>4. /\ child' \in Seq(Children) /\ Len(child') = Len(children) /\ child' # <<>>
      /\ child'[last] = new
      /\ \A c \in 1..Len(children) : c # last => child'[c] = children[c]
  BY <1>1, <1>2, <1>3
<1>5. /\ pc' = method /\ answer' = "none" /\ nextId' = nextId + 1
      /\ pending' = {nextId} /\ said' = Append(said, 0)
  BY DEF SendRequest
<1>6. /\ said' \in Seq(Nat) /\ Len(said') = nextId /\ said'[nextId] = 0
      /\ \A i \in 1..Latest : said'[i] = said[i]
      /\ Latest' = nextId
  BY <1>5 DEF ClientTyped, Latest
<1>7. ClientTyped' /\ ChildrenTyped' /\ Current' = new
  BY <1>1, <1>4, <1>5, <1>6 DEF ClientTyped, ChildrenTyped, Places, Answers, Latest, Current
<1>8. Converses(new, nextId)
  BY <1>1, <1>2 DEF Converses, Ending, line
<1>9. OthersGone'
  <2>1. Departed(new)
    BY <1>1, <1>2 DEF Departed, old
  <2> QED
    BY <1>1, <1>4, <2>1 DEF OthersGone
<1>10. Waits'
  BY <1>5, <1>6, <1>7 DEF Waits, Requests
<1>11. Streams'
  <2>1. PiecesIn(<<>>) = 0
    BY DEF PiecesIn, Ending
  <2> QED
    BY <1>2, <1>5, <1>6, <1>7, <2>1 DEF Streams
<1>12. TextKept'
  <2>1. text'.id # nextId
    BY <1>1 DEF Latest
  <2>2. text'.id # 0 => said'[text'.id] = said[text'.id]
    BY <1>6
  <2> QED
    BY <1>6, <2>1, <2>2 DEF TextKept
<1> QED
  BY <1>1, <1>4, <1>5, <1>6, <1>7, <1>8, <1>9, <1>10, <1>11, <1>12
     DEF AnswerInv, Requests

(* close, after an answer of any kind. *)
LEMMA CloseKeeps ==
    ASSUME Talking, pc \in Requests, answer # "none", ~stray',
           NEW next, Close(next),
           text'.id \in 0..Latest,
           text'.id # 0 => /\ text'.pieces = [i \in 1..said[text'.id] |-> text'.id]
                           /\ text'.id = Latest => Quiet(Current)
    PROVE  AnswerInv'
<1> DEFINE new == [Current EXCEPT !.eof = TRUE]
<1>1. /\ pc' = "closing" /\ answer' = "none"
      /\ UNCHANGED <<process, pending, nextId, chunks, said>>
      /\ child' = [child EXCEPT ![process] = new]
  BY DEF Close, Current
<1>2. new \in Children /\ new.out = Current.out /\ new.job = Current.job /\ new.up = Current.up
      /\ new.inbox = Current.inbox /\ new.asks = Current.asks /\ new.gone = Current.gone
  BY TalkingFacts DEF Children
<1> HIDE DEF new
<1>3. /\ child' \in Seq(Children) /\ Len(child') = Len(child) /\ child' # <<>>
      /\ child'[process] = new
      /\ \A c \in 1..Len(child) : c # process => child'[c] = child[c]
  BY <1>1, <1>2, TalkingFacts DEF Talking, ChildrenTyped
<1>4. Latest' = Latest /\ Current' = new
  BY <1>1, <1>3 DEF Latest, Current
<1>5. ClientTyped' /\ ChildrenTyped'
  BY <1>1, <1>3, <1>4 DEF Talking, ClientTyped, ChildrenTyped, Places, Answers
<1>6. Converses(new, Latest) /\ Departed(new)
  BY <1>2, TalkingFacts DEF Talking, Converses, Departed, Quiet
<1>7. OthersGone'
  BY <1>1, <1>3, <1>6, TalkingFacts DEF Talking, OthersGone
<1>8. Waits'
  BY <1>1 DEF Talking, Waits, Requests
<1>9. TextKept'
  BY <1>1, <1>2, <1>4 DEF TextKept, Quiet
<1> QED
  BY <1>1, <1>3, <1>4, <1>5, <1>6, <1>7, <1>8, <1>9 DEF AnswerInv, Streams, Talking

(* The exit of the process, after an answer of any kind. *)
LEMMA ExitKeeps ==
    ASSUME Talking, pc \in Requests, answer # "none", ~stray', Exit,
           text'.id \in 0..Latest,
           text'.id # 0 => /\ text'.pieces = [i \in 1..said[text'.id] |-> text'.id]
                           /\ text'.id = Latest => Quiet(Current)
    PROVE  AnswerInv'
<1>1. /\ pc' = "exited" /\ answer' = "none"
      /\ UNCHANGED <<process, pending, nextId, chunks, child, said>>
      /\ Latest' = Latest /\ Current' = Current
  BY DEF Exit, client, Latest, Current
<1> QED
  BY <1>1 DEF AnswerInv, Talking, ClientTyped, ChildrenTyped, OthersGone, Waits, Streams, TextKept,
     Requests, Places, Answers

(* The text of the prompt that was answered is all of what was said. *)
LEMMA TextGiven ==
    ASSUME Talking, pc = "session/prompt", answer \in {"ok", "timeout"}, text' = PromptResult
    PROVE  /\ text'.id \in 0..Latest
           /\ text'.id # 0 => /\ text'.pieces = [i \in 1..said[text'.id] |-> text'.id]
                              /\ text'.id = Latest => Quiet(Current)
<1>1. CASE answer = "ok"
  <2>1. Quiet(Current) /\ Current.out = <<>>
    BY <1>1 DEF Talking, Waits, Requests
  <2>2. chunks = [i \in 1..Len(chunks) |-> Latest] /\ said[Latest] = Len(chunks) + PiecesIn(<<>>)
    BY <1>1, <2>1 DEF Talking, Streams
  <2>3. PiecesIn(<<>>) = 0 /\ Len(chunks) \in Nat
    BY DEF PiecesIn, Ending, Talking, ClientTyped
  <2>4. said[Latest] = Len(chunks)
    BY <2>2, <2>3
  <2>5. chunks = [i \in 1..said[Latest] |-> Latest]
    BY <2>2, <2>4
  <2>6. text'.id = Latest /\ text'.pieces = chunks
    BY <1>1 DEF PromptResult, Latest
  <2> QED
    BY <2>1, <2>5, <2>6, TalkingFacts
<1>2. CASE answer = "timeout"
  BY <1>2, TalkingFacts DEF PromptResult, NoText
<1> QED
  BY <1>1, <1>2

-----------------------------------------------------------------------------
(* A step that changes nothing but the current child, the pieces received,  *)
(* how many were sent and what is waited for.                               *)
LEMMA TalkKeeps ==
    ASSUME Talking, ~stray', UNCHANGED <<process, nextId, text>>,
           NEW new \in Children, child' = [child EXCEPT ![process] = new],
           pc' # "idle", ClientTyped', Departed(new), Converses(new, Latest),
           Waits', Streams', Quiet(Current) => Quiet(new),
           \A i \in 1..Latest : i # Latest \/ Quiet(Current) => said'[i] = said[i]
    PROVE  AnswerInv'
<1>1. /\ child' \in Seq(Children) /\ Len(child') = Len(child) /\ child' # <<>>
      /\ child'[process] = new
      /\ \A c \in 1..Len(child) : c # process => child'[c] = child[c]
  BY TalkingFacts DEF Talking, ChildrenTyped
<1>2. Latest' = Latest /\ Current' = new
  BY <1>1 DEF Latest, Current
<1>3. ChildrenTyped' /\ OthersGone'
  BY <1>1, TalkingFacts DEF Talking, ChildrenTyped, OthersGone
<1>4. TextKept'
  <2>1. text.id # 0 => text.id \in 1..Latest
    BY TalkingFacts DEF Talking, ClientTyped
  <2>2. text.id # 0 => said'[text.id] = said[text.id] /\ (text.id = Latest => Quiet(new))
    BY <2>1 DEF Talking, TextKept
  <2> QED
    BY <1>2, <2>2 DEF Talking, TextKept
<1> QED
  BY <1>1, <1>2, <1>3, <1>4 DEF AnswerInv, Talking

LEMMA TailFacts ==
    ASSUME NEW lines \in Seq(Lines), lines # <<>>
    PROVE  /\ Tail(lines) \in Seq(Lines) /\ Len(lines) \in Nat /\ Len(lines) > 0
           /\ Len(Tail(lines)) = Len(lines) - 1
           /\ \A i \in 1..Len(Tail(lines)) : Tail(lines)[i] = lines[i + 1]
           /\ Head(lines) = lines[1] /\ lines[1] \in Lines
           /\ Len(lines) = 1 => Tail(lines) = <<>>
OBVIOUS

LEMMA TailPieces ==
    ASSUME NEW lines \in Seq(Lines), lines # <<>>, lines[1].what # "piece" => Len(lines) = 1
    PROVE  /\ lines[1].what = "piece" => PiecesIn(lines) = PiecesIn(Tail(lines)) + 1
           /\ lines[1].what # "piece" => PiecesIn(lines) = 0 /\ PiecesIn(Tail(lines)) = 0
           /\ PiecesIn(Tail(lines)) \in Int
           /\ Ending(Tail(lines)) => Ending(lines)
<1>1. CASE Len(lines) = 1
  <2>1. Tail(lines) = <<>> /\ PiecesIn(<<>>) = 0 /\ ~Ending(<<>>)
    BY <1>1, TailFacts DEF PiecesIn, Ending
  <2> QED
    BY <1>1, <2>1 DEF PiecesIn, Ending
<1>2. CASE Len(lines) # 1
  <2>1. Len(Tail(lines)) \in Nat \ {0} /\ Len(Tail(lines)) = Len(lines) - 1 /\ Len(lines) \in Nat
    BY <1>2, TailFacts
  <2>2. Tail(lines)[Len(Tail(lines))] = lines[Len(lines)]
    BY <2>1, TailFacts
  <2>3. Tail(lines) # <<>>
    BY <2>1
  <2> QED
    BY <1>2, <2>1, <2>2, <2>3 DEF PiecesIn, Ending
<1> QED
  BY <1>1, <1>2

(* handleLine. *)
LEMMA LineKeeps ==
    ASSUME Talking, NEW c \in DOMAIN child, Line(c)
    PROVE  AnswerInv'
<1> DEFINE out == Current.out
           line == Head(out)
<1>1. /\ Listening /\ c = process /\ out # <<>> /\ answer = "none" /\ pc \in Requests \cup {"closing"}
      /\ ~stray'
      /\ UNCHANGED <<process, nextId, text, said>>
  <2>1. Listening /\ child[c].out # <<>>
    BY DEF Line
  <2>2. c = process
    BY <2>1 DEF Talking, OthersGone, Departed, ChildrenTyped
  <2>3. pc # "closed"
    BY <2>1, <2>2, TalkingFacts DEF Talking, Waits, Departed, Current
  <2> QED
    BY <2>1, <2>2, <2>3 DEF Line, Rest, Talking, ClientTyped, Listening, Lingering, Places, Current
<1>2. /\ Current \in Children /\ out \in Seq(Lines) /\ line = out[1] /\ line \in Lines
      /\ Len(out) \in Nat /\ Len(out) > 0 /\ Tail(out) \in Seq(Lines)
      /\ Len(Tail(out)) = Len(out) - 1
      /\ \A i \in 1..Len(Tail(out)) : Tail(out)[i] = out[i + 1]
      /\ Len(out) = 1 => Tail(out) = <<>>
  <2>1. Current \in Children /\ out \in Seq(Lines)
    BY TalkingFacts DEF Children
  <2> QED
    BY <1>1, <2>1, TailFacts
<1> HIDE DEF out, line
<1>3. /\ line.what \in {"piece", "ask", "response"}
      /\ line.what # "ask" => line.id = Latest
      /\ line.what # "piece" => Len(out) = 1
      /\ line.what = "response" => Quiet(Current) /\ line.result \in {"ok", "error"}
      /\ ~Current.gone
  <2>1. 1 \in 1..Len(out) /\ line.what \in {"piece", "ask", "response"}
        /\ (line.what = "response" => line.result \in {"ok", "error"})
    BY <1>2 DEF Lines
  <2>2. /\ out[1].what # "ask" => out[1].id = Latest
        /\ 1 < Len(out) => out[1].what = "piece"
        /\ out[1].what = "response" => Quiet(Current)
    BY <2>1 DEF Talking, Converses, out
  <2>3. ~Current.gone
    BY <1>1, TalkingFacts DEF Departed, out
  <2> QED
    BY <1>2, <2>1, <2>2, <2>3
<1>4. /\ line.what = "piece" => PiecesIn(out) = PiecesIn(Tail(out)) + 1
      /\ line.what # "piece" => PiecesIn(out) = 0 /\ PiecesIn(Tail(out)) = 0
      /\ PiecesIn(Tail(out)) \in Int
      /\ Ending(Tail(out)) => Ending(out)
  BY <1>1, <1>2, <1>3, TailPieces
<1>5. ASSUME NEW asks \in BOOLEAN, asks = Current.asks \/ Len(out) = 1,
             NEW new \in Children,
             new.out = Tail(out), new.inbox = Current.inbox, new.job = Current.job,
             new.up = Current.up, new.gone = Current.gone, new.asks = asks
      PROVE  /\ Converses(new, Latest) /\ Departed(new)
             /\ Quiet(Current) <=> Quiet(new)
  <2>1. Quiet(Current) <=> Quiet(new)
    BY <1>5 DEF Quiet
  <2>2. Departed(new)
    BY <1>3, <1>5, TalkingFacts DEF Departed
  <2>3. \A i \in 1..Len(new.out) : i + 1 \in 1..Len(out) /\ new.out[i] = out[i + 1]
                                   /\ (i < Len(new.out) => i + 1 < Len(out))
    BY <1>2, <1>5
  <2>4. \A i \in 1..Len(new.out) :
          /\ new.out[i].what # "ask" => new.out[i].id = Latest
          /\ i < Len(new.out) => new.out[i].what = "piece"
          /\ new.out[i].what = "response" => Quiet(new)
    BY <2>1, <2>3 DEF Talking, Converses, out
  <2>5. new.job # 0 /\ Ending(new.out) => new.asks
    BY <1>2, <1>4, <1>5 DEF Talking, Converses, Ending, out
  <2>6. /\ new.job \in {0, Latest}
        /\ new.inbox # <<>> =>
            Len(new.inbox) = 1 /\ new.inbox[1].id = Latest /\ new.job = 0 /\ new.out = <<>>
    BY <1>1, <1>5 DEF Talking, Converses, out
  <2> QED
    BY <2>1, <2>2, <2>4, <2>5, <2>6 DEF Converses
<1>6. Latest' = Latest /\ Latest \in Nat
  BY <1>1, TalkingFacts DEF Latest
<1>7. Current' = child'[process]
  BY <1>1 DEF Current
<1>8. CASE line.what = "response"
  <2> DEFINE new == [Current EXCEPT !.out = Tail(out)]
  <2>1. /\ answer' = IF line.id \in pending THEN line.result ELSE "none"
        /\ pending' = pending \ {line.id}
        /\ child' = [child EXCEPT ![process] = new]
        /\ UNCHANGED <<pc, chunks>>
    BY <1>1, <1>8 DEF Line, out, line, Current
  <2>2. /\ new \in Children /\ new.out = Tail(out) /\ new.inbox = Current.inbox
        /\ new.job = Current.job /\ new.up = Current.up /\ new.gone = Current.gone
        /\ new.asks = Current.asks /\ Current.asks \in BOOLEAN
    BY <1>2 DEF Children
  <2> HIDE DEF new
  <2>3. Converses(new, Latest) /\ Departed(new) /\ (Quiet(Current) <=> Quiet(new))
    BY <1>5, <2>2
  <2>4. Current' = new
    BY <1>7, <2>1, TalkingFacts DEF Talking, ChildrenTyped
  <2>5. /\ pc = "closing" => answer' = "none" /\ pending' = {}
        /\ pc \in Requests => answer' \in {"ok", "error"} /\ pending' = {}
    BY <1>1, <1>3, <1>8, <2>1 DEF Talking, Waits
  <2>6. Tail(out) = <<>> /\ Quiet(new)
    BY <1>2, <1>3, <1>8, <2>3
  <2>7. ClientTyped'
    BY <1>1, <1>6, <2>1, <2>5 DEF Talking, ClientTyped, Answers
  <2>8. Waits'
    BY <1>1, <2>1, <2>2, <2>4, <2>5, <2>6 DEF Waits, Requests
  <2>9. Streams'
    BY <1>1, <1>4, <1>6, <1>8, <2>1, <2>2, <2>4 DEF Talking, Streams, out
  <2> QED
    BY <1>1, <1>6, <2>1, <2>2, <2>3, <2>7, <2>8, <2>9, TalkKeeps DEF Talking
<1>9. CASE line.what = "piece"
  <2> DEFINE new == [Current EXCEPT !.out = Tail(out)]
  <2>1. /\ chunks' = Append(chunks, Latest)
        /\ child' = [child EXCEPT ![process] = new]
        /\ UNCHANGED <<pc, answer, pending>>
    BY <1>1, <1>3, <1>9 DEF Line, out, line, Current
  <2>2. /\ new \in Children /\ new.out = Tail(out) /\ new.inbox = Current.inbox
        /\ new.job = Current.job /\ new.up = Current.up /\ new.gone = Current.gone
        /\ new.asks = Current.asks /\ Current.asks \in BOOLEAN
    BY <1>2 DEF Children
  <2> HIDE DEF new
  <2>3. Converses(new, Latest) /\ Departed(new) /\ (Quiet(Current) <=> Quiet(new))
    BY <1>5, <2>2
  <2>4. Current' = new
    BY <1>7, <2>1, TalkingFacts DEF Talking, ChildrenTyped
  <2>5. ClientTyped'
    BY <1>1, <1>6, <2>1 DEF Talking, ClientTyped
  <2>6. Waits'
    BY <1>1, <1>6, <2>1, <2>2, <2>4 DEF Talking, Waits, Requests
  <2>7. Streams'
    <3>1. chunks \in Seq(Nat) /\ Len(chunks) \in Nat
      BY DEF Talking, ClientTyped
    <3>2. ASSUME pc = "session/prompt"
          PROVE  /\ chunks' = [i \in 1..Len(chunks') |-> Latest]
                 /\ said[Latest] = Len(chunks') + PiecesIn(Tail(out))
      <4>1. \A i \in 1..Len(chunks) : chunks[i] = Latest
        BY <1>1, <3>2 DEF Talking, Streams
      <4>2. chunks' \in Seq(Nat) /\ Len(chunks') = Len(chunks) + 1
            /\ \A i \in 1..Len(chunks') : chunks'[i] = Latest
        BY <1>6, <2>1, <3>1, <4>1
      <4>3. said[Latest] = Len(chunks) + PiecesIn(out)
        BY <1>1, <3>2 DEF Talking, Streams, out
      <4>4. chunks' = [i \in 1..Len(chunks') |-> Latest]
        BY <4>2
      <4> QED
        BY <1>4, <1>9, <3>1, <4>2, <4>3, <4>4
    <3> QED
      BY <1>1, <1>6, <2>1, <2>2, <2>4, <3>2 DEF Streams
  <2> QED
    BY <1>1, <1>6, <2>1, <2>2, <2>3, <2>5, <2>6, <2>7, TalkKeeps DEF Talking
<1>10. CASE line.what = "ask"
  <2> DEFINE new == [[Current EXCEPT !.out = Tail(out)] EXCEPT !.asks = FALSE]
  <2>1. /\ child' = [child EXCEPT ![process] = new]
        /\ pc' \in {pc, "exited"}
        /\ UNCHANGED <<answer, pending, chunks>>
    BY <1>1, <1>10, TalkingFacts DEF Line, out, line, Current, Talking, ChildrenTyped
  <2>2. /\ new \in Children /\ new.out = Tail(out) /\ new.inbox = Current.inbox
        /\ new.job = Current.job /\ new.up = Current.up /\ new.gone = Current.gone
        /\ new.asks = FALSE
    BY <1>2 DEF Children
  <2> HIDE DEF new
  <2>3. Converses(new, Latest) /\ Departed(new) /\ (Quiet(Current) <=> Quiet(new))
    BY <1>3, <1>5, <1>10, <2>2
  <2>4. Current' = new
    BY <1>7, <2>1, TalkingFacts DEF Talking, ChildrenTyped
  <2>5. ClientTyped'
    BY <1>1, <1>6, <2>1 DEF Talking, ClientTyped, Places
  <2>6. Waits'
    BY <1>1, <1>6, <2>1, <2>2, <2>4 DEF Talking, Waits, Requests
  <2>7. Streams'
    BY <1>1, <1>4, <1>6, <1>10, <2>1, <2>2, <2>4 DEF Talking, Streams, out
  <2> QED
    BY <1>1, <1>6, <2>1, <2>2, <2>3, <2>5, <2>6, <2>7, TalkKeeps DEF Talking
<1> QED
  BY <1>3, <1>8, <1>9, <1>10

(* A child that is not gone is the current one. *)
LEMMA ItIsCurrent ==
    ASSUME Talking, NEW c \in DOMAIN child, child[c].up \/ child[c].job # 0 \/ ~child[c].gone
    PROVE  c = process /\ child[c] = Current
BY DEF Talking, OthersGone, Departed, ChildrenTyped, Current

(* The events of the adapter that are no line. *)
LEMMA EventKeeps ==
    ASSUME Talking, Timer \/ CloseTimer \/ BrokenPipe \/ \E c \in DOMAIN child : CloseEvent(c)
    PROVE  AnswerInv'
<1>1. /\ answer = "none" /\ pc \in Requests \cup {"closing"}
      /\ UNCHANGED <<process, nextId, text, said, chunks>>
      /\ Latest' = Latest /\ Latest \in Nat /\ process \in 1..Len(child)
  <2>1. /\ answer = "none" /\ pc \notin {"idle", "exited"} /\ pc \in Places
        /\ UNCHANGED <<process, nextId, text, said, chunks>>
    BY DEF Timer, CloseTimer, BrokenPipe, CloseEvent, Listening, Lingering, Rest, client, Talking,
           ClientTyped
  \* When the client is closed, nothing is waited for and every child is gone.
  <2>2. pc # "closed"
    <3> SUFFICES ASSUME pc = "closed" PROVE FALSE
      OBVIOUS
    <3>1. pending = {} /\ Current.gone
      BY DEF Talking, Waits
    <3>2. \A c \in 1..Len(child) : child[c].gone
      BY <3>1 DEF Talking, OthersGone, Current
    <3>3. DOMAIN child = 1..Len(child)
      BY DEF Talking, ChildrenTyped
    <3> QED
      BY <3>1, <3>2, <3>3 DEF Timer, CloseTimer, BrokenPipe, CloseEvent, Current
  <2> QED
    BY <2>1, <2>2, TalkingFacts DEF Places, Latest
<1>2. ASSUME child' = child, ~stray', pc' \in Places \ {"idle"}, answer' \in Answers,
             pending' \subseteq Nat, Waits', Streams'
      PROVE  AnswerInv'
  <2>1. child' = [child EXCEPT ![process] = Current] /\ Current' = Current
    BY <1>1, <1>2 DEF Talking, ChildrenTyped, Current
  <2>2. ClientTyped'
    BY <1>1, <1>2 DEF Talking, ClientTyped
  <2> QED
    BY <1>1, <1>2, <2>1, <2>2, TalkingFacts, TalkKeeps DEF Talking
<1>3. CASE Timer
  <2>1. pending' = {} /\ answer' = "timeout" /\ UNCHANGED <<pc, child, stray>> /\ pc \in Requests
    BY <1>1, <1>3 DEF Timer, Rest, Talking, Waits
  <2>2. Waits' /\ Streams'
    BY <2>1 DEF Waits, Streams, Requests
  <2> QED
    BY <1>1, <1>2, <2>1, <2>2 DEF Talking, Answers, ClientTyped, Requests, Places
<1>4. CASE CloseTimer
  <2>1. pc = "closing" /\ pc' = "closed" /\ UNCHANGED <<answer, child, pending>>
        /\ stray' = (stray \/ ~Current.gone)
    BY <1>4 DEF CloseTimer, client, Current
  <2>2. CASE Current.gone
    <3>1. Current' = Current
      BY <1>1, <2>1 DEF Current
    <3>2. Waits' /\ Streams'
      BY <1>1, <2>1, <2>2, <3>1 DEF Waits, Streams, Requests, Talking
    <3> QED
      BY <1>1, <1>2, <2>1, <2>2, <3>2 DEF Talking, Answers, ClientTyped, Places
  <2>3. CASE ~Current.gone
    BY <2>1, <2>3 DEF AnswerInv
  <2> QED
    BY <2>2, <2>3
<1>5. CASE BrokenPipe
  <2>1. pc' = "exited" /\ UNCHANGED <<answer, child, pending, stray>>
    BY <1>5 DEF BrokenPipe, Rest
  <2>2. Waits' /\ Streams'
    BY <1>1, <2>1 DEF Waits, Streams, Requests
  <2> QED
    BY <1>1, <1>2, <2>1, <2>2 DEF Talking, Answers, ClientTyped, Places
<1>6. ASSUME NEW c \in DOMAIN child, CloseEvent(c) PROVE AnswerInv'
  <2> DEFINE new == [Current EXCEPT !.gone = TRUE]
  <2>1. c = process /\ child[c] = Current
    BY <1>6, ItIsCurrent DEF CloseEvent
  <2>2. /\ ~Current.up /\ Current.out = <<>>
        /\ child' = [child EXCEPT ![process] = new]
        /\ pc' = (IF pc = "closing" THEN "closed" ELSE pc)
        /\ UNCHANGED stray
        /\ IF Current.code # 0 /\ pending # {} THEN pending' = {} /\ answer' = "reject"
           ELSE UNCHANGED <<pending, answer>>
    BY <1>6, <2>1 DEF CloseEvent, Rest, Current
  <2>3. /\ new \in Children /\ new.out = Current.out /\ new.inbox = Current.inbox
        /\ new.job = Current.job /\ new.up = Current.up /\ new.gone = TRUE
        /\ new.asks = Current.asks
    BY TalkingFacts DEF Children
  <2> HIDE DEF new
  <2>4. /\ Converses(new, Latest) /\ Departed(new) /\ (Quiet(Current) <=> Quiet(new))
    BY <2>2, <2>3, TalkingFacts DEF Talking, Converses, Departed, Quiet
  <2>5. Current' = new
    BY <1>1, <2>2 DEF Current, Talking, ChildrenTyped
  <2>6. ClientTyped'
    BY <1>1, <2>2 DEF Talking, ClientTyped, Answers, Places
  <2>7. Waits'
    BY <1>1, <2>2, <2>3, <2>5 DEF Talking, Waits, Requests
  <2>8. Streams'
    BY <1>1, <2>2, <2>3, <2>5 DEF Talking, Streams
  <2> QED
    <3>1. pc' # "idle"
      BY <1>1, <2>2 DEF Requests
    <3> QED
      BY <1>1, <2>2, <2>3, <2>4, <2>6, <2>7, <2>8, <3>1, TalkKeeps DEF Talking
<1> QED
  BY <1>3, <1>4, <1>5, <1>6

(* The child's own steps. *)
LEMMA ChildKeeps ==
    ASSUME Talking, ToldInv, NEW c \in DOMAIN child, ChildReads(c) \/ ChildSays(c) \/ ChildExits(c)
    PROVE  AnswerInv'
<1> DEFINE out == Current.out
<1>1. /\ c = process /\ child[c] = Current /\ Current.up /\ ~Current.gone
      /\ UNCHANGED <<pc, answer, process, pending, nextId, chunks, text, stray>>
      /\ Latest' = Latest /\ Latest \in Nat
  <2>1. c = process /\ child[c] = Current
    BY ItIsCurrent DEF ChildReads, ChildSays, ChildExits
  <2>2. Current.up /\ ~Current.gone
    BY <2>1, TalkingFacts DEF ChildReads, ChildSays, ChildExits, Departed
  <2>3. UNCHANGED <<pc, answer, process, pending, nextId, chunks, text, stray>>
    BY DEF ChildReads, ChildSays, ChildExits, ChildRest, client
  <2> QED
    BY <2>1, <2>2, <2>3, TalkingFacts DEF Latest
<1>2. Current \in Children /\ out \in Seq(Lines) /\ Len(out) \in Nat
  BY TalkingFacts DEF Children
<1>3. ASSUME NEW new \in Children, child' = [child EXCEPT ![process] = new], ClientTyped',
             Departed(new), Converses(new, Latest), Quiet(Current) => Quiet(new),
             new.gone = Current.gone, Quiet(Current) /\ out = <<>> => new.out = <<>>,
             \A i \in 1..Latest : i # Latest \/ Quiet(Current) => said'[i] = said[i],
             Quiet(Current) \/ said'[Latest] - said[Latest] = PiecesIn(new.out) - PiecesIn(out),
             said'[Latest] \in Nat, PiecesIn(out) \in Int, PiecesIn(new.out) \in Int,
             Quiet(Current) => new.out = out
      PROVE  AnswerInv'
  <2>1. Current' = new
    BY <1>1, <1>3 DEF Current, Talking, ChildrenTyped
  <2>2. answer # "reject"
    BY <1>1 DEF Talking, Waits
  <2>3. Waits'
    BY <1>1, <1>3, <2>1, <2>2 DEF Talking, Waits
  <2>4. ASSUME pc = "session/prompt", answer \in {"none", "ok"}
        PROVE  said'[Latest] = Len(chunks) + PiecesIn(new.out)
    <3>1. said[Latest] = Len(chunks) + PiecesIn(out) /\ Len(chunks) \in Nat
      BY <2>4 DEF Talking, Streams, ClientTyped
    <3>2. CASE Quiet(Current)
      <4>1. said'[Latest] = said[Latest]
        BY <1>3, <3>2, TalkingFacts DEF Talking
      <4> QED
        BY <1>3, <3>1, <3>2, <4>1
    <3>3. CASE ~Quiet(Current)
      <4>1. said[Latest] \in Nat
        BY TalkingFacts DEF Talking, ClientTyped
      <4> QED
        BY <1>3, <3>1, <3>3, <4>1
    <3> QED
      BY <3>2, <3>3
  <2>5. Streams'
    BY <1>1, <2>1, <2>4 DEF Talking, Streams
  <2> QED
    BY <1>1, <1>3, <2>3, <2>5, TalkKeeps DEF Talking
<1>4. PiecesIn(<<>>) = 0 /\ PiecesIn(out) \in Int
      /\ <<>> \in Seq(Inboxes)
  <2>1. PiecesIn(<<>>) = 0 /\ <<>> \in Seq(Inboxes)
    BY DEF PiecesIn, Ending
  <2> QED
    BY <1>2, <2>1 DEF PiecesIn
<1>5. ASSUME UNCHANGED said
      PROVE  ClientTyped' /\ (\A i \in 1..Latest : said'[i] = said[i]) /\ said'[Latest] \in Nat
             /\ said'[Latest] - said[Latest] = 0
  BY <1>1, <1>5, TalkingFacts DEF Talking, ClientTyped
<1> HIDE DEF out
<1>6. ASSUME ChildReads(c) PROVE AnswerInv'
  <2> DEFINE line == Head(Current.inbox)
             left == Tail(Current.inbox)
             rest == [Current EXCEPT !.inbox = left]
  <2>1. /\ Current.inbox # <<>> /\ Current.job = 0 /\ out = <<>> /\ UNCHANGED said
        /\ line.id = Latest /\ left = <<>>
    <3>1. Current.inbox # <<>> /\ Current.job = 0 /\ UNCHANGED said
      BY <1>1, <1>6 DEF ChildReads
    <3>2. Len(Current.inbox) = 1 /\ Current.inbox[1].id = Latest /\ out = <<>>
      BY <3>1 DEF Talking, Converses, out
    <3>3. Current.inbox \in Seq(Inboxes)
      BY <1>2 DEF Children
    <3>4. \A s \in Seq(Inboxes) : s # <<>> /\ Len(s) = 1 => Head(s) = s[1] /\ Tail(s) = <<>>
      <4> SUFFICES ASSUME NEW s \in Seq(Inboxes), s # <<>>, Len(s) = 1
                   PROVE  Head(s) = s[1] /\ Tail(s) = <<>>
        OBVIOUS
      <4>1. Len(s) <= 1
        OBVIOUS
      <4> QED
        BY <4>1, OneLeft
    <3>5. Head(Current.inbox) = Current.inbox[1] /\ Tail(Current.inbox) = <<>>
      BY <3>1, <3>2, <3>3, <3>4
    <3> QED
      BY <3>1, <3>2, <3>5
  <2> HIDE DEF left
  <2>2. rest \in Children /\ rest.inbox = <<>> /\ rest.job = 0 /\ rest.out = <<>>
        /\ rest.gone = Current.gone /\ rest.up = Current.up
    BY <1>2, <1>4, <2>1 DEF Children, out
  <2> HIDE DEF rest, line
  <2>3. CASE child' = [child EXCEPT ![process] = [rest EXCEPT !.job = line.id]]
    <3> DEFINE new == [rest EXCEPT !.job = line.id]
    <3>1. /\ new \in Children /\ new.inbox = <<>> /\ new.job = Latest /\ new.out = <<>>
          /\ new.gone = Current.gone /\ new.up = Current.up
      BY <1>1, <2>1, <2>2 DEF Children
    <3> HIDE DEF new
    <3>2. Converses(new, Latest) /\ Departed(new) /\ ~Quiet(Current)
      BY <1>1, <2>1, <3>1 DEF Converses, Departed, Ending, Quiet
    <3>3. PiecesIn(new.out) - PiecesIn(out) = 0
      BY <1>4, <2>1, <3>1
    <3> QED
      BY <1>3, <1>4, <1>5, <2>1, <2>3, <3>1, <3>2, <3>3 DEF new
  <2>4. ASSUME NEW r \in {"ok", "error"}, NEW s \in 0..Len(heard) + 1,
               child' = [child EXCEPT ![process] = [rest EXCEPT !.talk = s, !.out =
                           Append(@, [what |-> "response", id |-> line.id, result |-> r])]]
        PROVE  AnswerInv'
    <3> DEFINE response == [what |-> "response", id |-> line.id, result |-> r]
               talking == [rest EXCEPT !.talk = s]
               new == [talking EXCEPT !.out = Append(@, response)]
    <3>a. s \in Nat
      BY ToldFacts
    <3>b. talking \in Children /\ talking.inbox = <<>> /\ talking.job = 0 /\ talking.out = <<>>
          /\ talking.gone = Current.gone /\ talking.up = Current.up
      BY <2>2, <3>a DEF Children
    <3>1. response \in Lines /\ response.what = "response" /\ response.id = Latest
      BY <1>1, <2>1 DEF Lines
    <3>6. child' = [child EXCEPT ![process] = new]
      BY <2>4
    <3> HIDE DEF talking
    <3>7. new = [talking EXCEPT !.out = Append(@, response)]
      OBVIOUS
    <3> HIDE DEF new, response
    <3>2. Append(talking.out, response) = <<response>> /\ <<response>> \in Seq(Lines)
      BY <3>1, <3>b
    <3>3. /\ new \in Children /\ new.inbox = <<>> /\ new.job = 0 /\ new.out = <<response>>
          /\ new.gone = Current.gone /\ new.up = Current.up
      BY <3>2, <3>7, <3>b DEF Children
    <3>4. Converses(new, Latest) /\ Departed(new) /\ ~Quiet(Current) /\ Quiet(new)
      BY <1>1, <2>1, <3>1, <3>3 DEF Converses, Departed, Quiet
    <3>5. PiecesIn(new.out) = 0 /\ PiecesIn(new.out) \in Int
          /\ said'[Latest] - said[Latest] = PiecesIn(new.out) - PiecesIn(out)
      <4>1. PiecesIn(new.out) = 0
        BY <3>1, <3>3 DEF PiecesIn, Ending
      <4> QED
        BY <1>4, <1>5, <2>1, <4>1
    <3> QED
      BY <1>3, <1>4, <1>5, <2>1, <3>3, <3>4, <3>5, <3>6
  <2>5. /\ child \in Seq(Children) /\ process \in DOMAIN child
        /\ [child EXCEPT ![c].inbox = Tail(@)] = [child EXCEPT ![process] = rest]
        /\ child[c].inbox = Current.inbox
    BY <1>1, TalkingFacts DEF Talking, ChildrenTyped, Current, rest, left
  <2>6. \/ ReadsPrompt(c, line, [child EXCEPT ![process] = rest])
        \/ Replies(c, line, [child EXCEPT ![process] = rest])
    BY <1>6, <2>5 DEF ChildReads, line
  <2>7. CASE ReadsPrompt(c, line, [child EXCEPT ![process] = rest])
    <3>1. child' = [[child EXCEPT ![process] = rest] EXCEPT ![c].job = line.id]
      BY <2>7 DEF ReadsPrompt
    <3> QED
      BY <1>1, <2>3, <2>5, <3>1
  <2>8. CASE Replies(c, line, [child EXCEPT ![process] = rest])
    <3>1. PICK r \in {"ok", "error"}, s \in 0..Len(heard) + 1 :
            child' = [[child EXCEPT ![process] = rest] EXCEPT ![c].talk = s, ![c].out =
                          Append(@, [what |-> "response", id |-> line.id, result |-> r])]
      BY <2>8 DEF Replies
    <3>2. child' = [child EXCEPT ![process] = [rest EXCEPT !.talk = s, !.out =
                           Append(@, [what |-> "response", id |-> line.id, result |-> r])]]
      BY <1>1, <2>5, <3>1
    <3> QED
      BY <2>4, <3>2
  <2> QED
    BY <2>6, <2>7, <2>8
<1>7. ASSUME ChildSays(c) PROVE AnswerInv'
  <2>1. /\ Current.job = Latest /\ Current.job # 0 /\ ~Current.asks /\ Current.inbox = <<>>
        /\ ~Ending(out) /\ ~Quiet(Current) /\ Latest \in 1..Len(said)
    BY <1>1, <1>7, TalkingFacts DEF ChildSays, Talking, Converses, out, Quiet
  \* Every line it writes goes behind pieces.
  <2>2. ASSUME NEW line \in Lines, line.what # "ask" => line.id = Latest,
               NEW new \in Children, new.out = Append(out, line), new.inbox = <<>>,
               new.gone = Current.gone, new.up = Current.up, new.job \in {0, Latest},
               line.what = "response" => new.job = 0, line.what = "ask" => new.asks
        PROVE  /\ Converses(new, Latest) /\ Departed(new)
               /\ PiecesIn(new.out) = PiecesIn(out) + (IF line.what = "piece" THEN 1 ELSE 0)
               /\ PiecesIn(new.out) \in Int
    <3>1. /\ Len(new.out) = Len(out) + 1 /\ new.out # <<>> /\ new.out[Len(new.out)] = line
          /\ \A i \in 1..Len(out) : new.out[i] = out[i]
      BY <1>2, <2>2 DEF out
    <3>2. \A i \in 1..Len(out) : out[i].what = "piece" /\ out[i].id = Latest
      <4> SUFFICES ASSUME NEW i \in 1..Len(out)
                   PROVE  out[i].what = "piece" /\ out[i].id = Latest
        OBVIOUS
      <4>1. out[i].what = "piece"
        BY <1>2, <2>1 DEF Talking, Converses, Ending, out
      <4> QED
        BY <4>1 DEF Talking, Converses, out
    <3>3. Len(out) \in Nat
      BY <1>2 DEF out
    <3>4. \A i \in 1..Len(new.out) :
            /\ new.out[i].what # "ask" => new.out[i].id = Latest
            /\ i < Len(new.out) => new.out[i].what = "piece"
            /\ new.out[i].what = "response" => Quiet(new)
      <4> SUFFICES ASSUME NEW i \in 1..Len(new.out)
                   PROVE  /\ new.out[i].what # "ask" => new.out[i].id = Latest
                          /\ i < Len(new.out) => new.out[i].what = "piece"
                          /\ new.out[i].what = "response" => Quiet(new)
        OBVIOUS
      <4>1. CASE i \in 1..Len(out)
        BY <3>1, <3>2, <4>1
      <4>2. CASE i = Len(new.out)
        BY <2>2, <3>1, <4>2 DEF Quiet
      <4> QED
        BY <3>1, <3>3, <4>1, <4>2
    <3>5. Ending(new.out) <=> line.what # "piece"
      BY <3>1 DEF Ending
    <3>6. Converses(new, Latest)
      BY <2>2, <3>4, <3>5 DEF Converses, Lines
    <3>7. PiecesIn(out) = Len(out)
      BY <2>1 DEF PiecesIn
    <3>8. Departed(new)
      BY <1>1, <2>2 DEF Departed
    <3>9. PiecesIn(new.out) = IF line.what = "piece" THEN Len(out) + 1 ELSE Len(out)
      BY <3>1, <3>3, <3>5 DEF PiecesIn
    <3> QED
      BY <3>3, <3>6, <3>7, <3>8, <3>9
  <2>3. CASE /\ said' = [said EXCEPT ![child[c].job] = @ + 1]
             /\ child' = [child EXCEPT ![c].out = Append(@, [what |-> "piece", id |-> child[c].job])]
    <3> DEFINE line == [what |-> "piece", id |-> Latest]
               longer == Append(Current.out, line)
               new == [Current EXCEPT !.out = longer]
    <3>1. line \in Lines /\ line.what = "piece" /\ line.id = Latest
      BY <1>1 DEF Lines
    <3>2. child' = [child EXCEPT ![process] = new]
      BY <1>1, <2>1, <2>3 DEF Current
    <3> HIDE DEF line
    <3>a. longer \in Seq(Lines) /\ longer = Append(out, line)
      BY <1>2, <3>1 DEF out
    <3> HIDE DEF longer
    <3>3. /\ new \in Children /\ new.inbox = <<>> /\ new.job = Latest /\ new.out = Append(out, line)
          /\ new.gone = Current.gone /\ new.up = Current.up
      BY <1>2, <2>1, <3>1, <3>a DEF Children, out
    <3> HIDE DEF new
    <3>4. /\ Converses(new, Latest) /\ Departed(new) /\ PiecesIn(new.out) = PiecesIn(out) + 1
          /\ PiecesIn(new.out) \in Int
      BY <2>2, <3>1, <3>3
    <3>5. /\ said' \in Seq(Nat) /\ Len(said') = Len(said) /\ said'[Latest] = said[Latest] + 1
          /\ said[Latest] \in Nat
          /\ \A i \in 1..Latest : i # Latest => said'[i] = said[i]
      BY <1>1, <2>1, <2>3 DEF Talking, ClientTyped
    <3>6. ClientTyped'
      BY <1>1, <3>5 DEF Talking, ClientTyped
    <3>7. said'[Latest] - said[Latest] = PiecesIn(new.out) - PiecesIn(out) /\ said'[Latest] \in Nat
      BY <1>4, <3>4, <3>5
    <3> QED
      BY <1>3, <1>4, <2>1, <3>2, <3>3, <3>4, <3>5, <3>6, <3>7
  <2>4. CASE /\ child' = [child EXCEPT ![c].asks = TRUE, ![c].out = Append(@, [what |-> "ask"])]
             /\ UNCHANGED said
    <3> DEFINE line == [what |-> "ask"]
               asking == [Current EXCEPT !.asks = TRUE]
               longer == Append(Current.out, line)
               new == [asking EXCEPT !.out = longer]
    <3>1. line \in Lines /\ line.what = "ask"
      BY DEF Lines
    <3>2. child' = [child EXCEPT ![process] = new]
      BY <1>1, <2>4, TalkingFacts DEF Current, Talking, ChildrenTyped
    <3> HIDE DEF line
    <3>a. longer \in Seq(Lines) /\ longer = Append(out, line)
      BY <1>2, <3>1 DEF out
    <3> HIDE DEF longer
    <3>3. /\ new \in Children /\ new.inbox = <<>> /\ new.job = Latest /\ new.out = Append(out, line)
          /\ new.gone = Current.gone /\ new.up = Current.up /\ new.asks
      BY <1>2, <2>1, <3>1, <3>a DEF Children, out
    <3> HIDE DEF new, asking
    <3>4. /\ Converses(new, Latest) /\ Departed(new) /\ PiecesIn(new.out) = PiecesIn(out) + 0
          /\ PiecesIn(new.out) \in Int
      BY <2>2, <3>1, <3>3
    <3>5. said'[Latest] - said[Latest] = PiecesIn(new.out) - PiecesIn(out)
      <4>1. said'[Latest] - said[Latest] = 0
        BY <1>5, <2>4
      <4>2. PiecesIn(new.out) = PiecesIn(out)
        BY <1>4, <3>4
      <4> QED
        BY <1>4, <4>1, <4>2
    <3> QED
      BY <1>3, <1>4, <1>5, <2>1, <2>4, <3>2, <3>3, <3>4, <3>5
  <2>5. ASSUME NEW r \in {"ok", "error"}, UNCHANGED said,
               child' = [child EXCEPT ![c].job = 0, ![c].out =
                           Append(@, [what |-> "response", id |-> child[c].job, result |-> r])]
        PROVE  AnswerInv'
    <3> DEFINE line == [what |-> "response", id |-> Latest, result |-> r]
               resting == [Current EXCEPT !.job = 0]
               longer == Append(Current.out, line)
               new == [resting EXCEPT !.out = longer]
    <3>1. line \in Lines /\ line.what = "response" /\ line.id = Latest
      BY <1>1 DEF Lines
    <3>2. child' = [child EXCEPT ![process] = new]
      BY <1>1, <2>1, <2>5, TalkingFacts DEF Current, Talking, ChildrenTyped
    <3> HIDE DEF line
    <3>a. longer \in Seq(Lines) /\ longer = Append(out, line)
      BY <1>2, <3>1 DEF out
    <3> HIDE DEF longer
    <3>3. /\ new \in Children /\ new.inbox = <<>> /\ new.job = 0 /\ new.out = Append(out, line)
          /\ new.gone = Current.gone /\ new.up = Current.up
      BY <1>2, <2>1, <3>1, <3>a DEF Children, out
    <3> HIDE DEF new, resting
    <3>4. /\ Converses(new, Latest) /\ Departed(new) /\ PiecesIn(new.out) = PiecesIn(out) + 0
          /\ PiecesIn(new.out) \in Int
      BY <2>2, <3>1, <3>3
    <3>5. said'[Latest] - said[Latest] = PiecesIn(new.out) - PiecesIn(out)
      <4>1. said'[Latest] - said[Latest] = 0
        BY <1>5, <2>5
      <4>2. PiecesIn(new.out) = PiecesIn(out)
        BY <1>4, <3>4
      <4> QED
        BY <1>4, <4>1, <4>2
    <3> QED
      BY <1>3, <1>4, <1>5, <2>1, <2>5, <3>2, <3>3, <3>4, <3>5
  <2> QED
    BY <1>7, <2>3, <2>4, <2>5 DEF ChildSays
<1>8. ASSUME ChildExits(c) PROVE AnswerInv'
  <2>1. PICK code \in {0, 1} :
           child' = [child EXCEPT ![c].up = FALSE, ![c].code = code, ![c].job = 0,
                                  ![c].inbox = <<>>, ![c].asks = FALSE]
    BY <1>8 DEF ChildExits
  <2> DEFINE new == [Current EXCEPT !.up = FALSE, !.code = code, !.job = 0,
                                    !.inbox = <<>>, !.asks = FALSE]
  <2>2. child' = [child EXCEPT ![process] = new] /\ UNCHANGED said
    BY <1>1, <1>8, <2>1, TalkingFacts DEF ChildExits, Current, Talking, ChildrenTyped
  <2>3. /\ new \in Children /\ new.inbox = <<>> /\ new.job = 0 /\ new.out = out
        /\ new.gone = Current.gone /\ ~new.up
    BY <1>2, <1>4 DEF Children, out
  <2> HIDE DEF new
  <2>4. Converses(new, Latest) /\ Departed(new) /\ Quiet(new)
    BY <1>1, <2>3 DEF Talking, Converses, Departed, Quiet, out
  <2>5. /\ ClientTyped' /\ said'[Latest] \in Nat /\ PiecesIn(new.out) \in Int
        /\ said'[Latest] - said[Latest] = PiecesIn(new.out) - PiecesIn(out)
        /\ \A i \in 1..Latest : said'[i] = said[i]
    BY <1>4, <1>5, <2>2, <2>3
  <2>6. new.out = out /\ (out = <<>> => new.out = <<>>)
    BY <2>3
  <2> QED
    BY <1>3, <1>4, <2>2, <2>3, <2>4, <2>5, <2>6
<1> QED
  BY <1>6, <1>7, <1>8

-----------------------------------------------------------------------------
LEMMA NewChildQuiet ==
    /\ NewChild \in Children /\ Quiet(NewChild) /\ NewChild.out = <<>> /\ Departed(NewChild)
    /\ ~NewChild.gone
<1>1. <<>> \in Seq(Inboxes) /\ <<>> \in Seq(Lines)
  OBVIOUS
<1> QED
  BY <1>1 DEF NewChild, Children, Quiet, Departed

(* A new child, when all the earlier ones are gone. *)
LEMMA SpawnKeeps ==
    ASSUME ClientTyped, pending = {}, ~stray', child \in Seq(Children),
           \A c \in 1..Len(child) : Departed(child[c]) /\ child[c].gone,
           NEW how, Handshake(how), UNCHANGED <<chunks, text>>,
           text.id # 0 => text.pieces = [i \in 1..said[text.id] |-> text.id]
    PROVE  AnswerInv'
<1> DEFINE spawned == Append(child, NewChild)
<1>1. /\ spawned \in Seq(Children) /\ spawned # <<>> /\ Len(spawned) = Len(child) + 1
      /\ spawned[Len(spawned)] = NewChild
      /\ \A c \in 1..Len(child) : spawned[c] = child[c]
      /\ Len(child) \in Nat
  <2>1. NewChild \in Children
    BY NewChildQuiet
  <2>2. /\ spawned \in Seq(Children) /\ Len(spawned) = Len(child) + 1 /\ Len(child) \in Nat
        /\ spawned[Len(child) + 1] = NewChild
        /\ \A c \in 1..Len(child) : spawned[c] = child[c]
    BY <2>1, AppendProperties
  <2> QED
    BY <2>2
<1>2. SendRequest(spawned, Len(spawned), "initialize", 0, "nothing") /\ process' = Len(spawned)
  BY DEF Handshake
<1> HIDE DEF spawned
<1>3. \A c \in 1..Len(spawned) :
         Departed(spawned[c]) /\ (c # Len(spawned) => spawned[c].gone)
  <2> SUFFICES ASSUME NEW c \in 1..Len(spawned)
               PROVE  Departed(spawned[c]) /\ (c # Len(spawned) => spawned[c].gone)
    OBVIOUS
  <2>1. CASE c = Len(spawned)
    BY <1>1, <2>1, NewChildQuiet
  <2>2. CASE c # Len(spawned)
    <3>1. c \in 1..Len(child)
      BY <1>1, <2>2
    <3> QED
      BY <1>1, <3>1
  <2> QED
    BY <2>1, <2>2
<1>4. /\ "initialize" \in Requests /\ chunks' \in Seq(Nat) /\ text'.id \in 0..Latest
      /\ "nothing" \in Kinds /\ 0 \in Nat
  BY DEF Requests, ClientTyped, Kinds
<1> QED
  BY <1>1, <1>2, <1>3, <1>4, NewChildQuiet, SendKeeps

(* Another request to the child that has answered the last one. *)
LEMMA AskAgainKeeps ==
    ASSUME Talking, pc \in Requests, answer = "ok", ~stray', UNCHANGED process,
           NEW method \in Requests, NEW s \in Nat, NEW kind \in Kinds,
           SendRequest(child, process, method, s, kind),
           chunks' \in Seq(Nat), method = "session/prompt" => chunks' = <<>>,
           text'.id \in 0..Latest,
           text'.id # 0 => text'.pieces = [i \in 1..said[text'.id] |-> text'.id]
    PROVE  AnswerInv'
<1>1. /\ ClientTyped /\ pending = {} /\ child \in Seq(Children) /\ child # <<>>
      /\ process = Len(child) /\ Quiet(child[Len(child)]) /\ child[Len(child)].out = <<>>
  BY DEF Talking, Waits, ChildrenTyped, Current
<1>2. \A c \in 1..Len(child) : Departed(child[c]) /\ (c # Len(child) => child[c].gone)
  BY <1>1 DEF Talking, OthersGone
<1> QED
  BY <1>1, <1>2, SendKeeps

LEMMA AnswerStep == ToldInv /\ AnswerInv /\ [Next]_vars => AnswerInv'
<1> SUFFICES ASSUME ToldInv, AnswerInv, [Next]_vars PROVE AnswerInv'
  OBVIOUS
<1>1. CASE End
  <2>1. /\ pc' = "idle" /\ answer' = "none" /\ process' = 0 /\ pending' = {} /\ nextId' = 1
        /\ chunks' = <<>> /\ child' = <<>> /\ said' = <<>> /\ text' = NoText
    BY <1>1 DEF End
  <2>2. /\ <<>> \in Seq(Nat) /\ <<>> \in Seq(Children) /\ Len(<<>>) = 0
        /\ NoText.id = 0
    BY DEF NoText
  <2>3. Latest' = 0
    BY <2>1 DEF Latest
  <2>4. ClientTyped' /\ ChildrenTyped'
    BY <2>1, <2>2, <2>3 DEF ClientTyped, ChildrenTyped, Places, Answers
  <2>5. OthersGone' /\ Waits' /\ Streams' /\ TextKept'
    BY <2>1, <2>2 DEF OthersGone, Waits, Streams, TextKept, Requests
  <2> QED
    BY <2>1, <2>2, <2>4, <2>5 DEF AnswerInv
<1>2. CASE stray /\ ~End
  <2>1. stray'
    BY <1>2 DEF Next, Adapter, Begin, Initialized, Connected, ResumedSession, Answered, Failed,
       Reopen, Timer, CloseTimer, BrokenPipe, Line, CloseEvent, ChildReads, ChildSays,
       ChildExits, Rest, ChildRest, vars, past
  <2> QED
    BY <2>1 DEF AnswerInv
<1>3. CASE ~stray /\ pc = "idle"
  <2>1. /\ ClientTyped /\ child = <<>> /\ pending = {} /\ text.id = 0
    BY <1>3 DEF AnswerInv, Waits
  <2>2. DOMAIN child = {}
    BY <2>1
  <2>3. CASE Begin
    <3>1. child \in Seq(Children) /\ Len(child) = 0
      BY <2>1
    <3>2. ~stray' /\ UNCHANGED <<chunks, text>>
          /\ \E how \in {"resume", "connect"} : Handshake(how)
      BY <1>3, <2>3 DEF Begin, CachedSessionId
    <3> QED
      BY <2>1, <3>1, <3>2, SpawnKeeps
  <2>4. CASE UNCHANGED vars
    BY <2>4 DEF vars, client, world, past, AnswerInv, ClientTyped, ChildrenTyped, OthersGone,
       Waits, Streams, TextKept, Current, Latest
  <2> QED
    BY <1>3, <2>2, <2>3, <2>4 DEF Next, Adapter, Initialized, Connected, ResumedSession,
       Answered, Failed, Reopen, End, Timer, CloseTimer, BrokenPipe, Listening, Lingering
<1>4. CASE ~stray /\ pc # "idle" /\ ~End
  <2>1. Talking
    BY <1>4 DEF AnswerInv, Talking
  <2>2. /\ text.id \in 0..Latest
        /\ text.id # 0 => /\ text.pieces = [i \in 1..said[text.id] |-> text.id]
                          /\ text.id = Latest => Quiet(Current)
    BY <2>1 DEF Talking, ClientTyped, TextKept
  <2>3. CASE Initialized
    <3>1. PICK method \in {"session/resume", "session/new"} :
            SendRequest(child, process, method, cache, "nothing")
      BY <2>3 DEF Initialized
    <3>2. /\ pc \in Requests /\ answer = "ok" /\ ~stray' /\ UNCHANGED <<process, chunks, text>>
          /\ chunks \in Seq(Nat) /\ {"session/resume", "session/new"} \subseteq Requests
          /\ cache \in Nat /\ "nothing" \in Kinds
      BY <1>4, <2>1, <2>3, ToldFacts
         DEF Initialized, Requests, Talking, ClientTyped, ToldInv, CacheKnows, Kinds
    <3> QED
      BY <2>1, <2>2, <3>1, <3>2, AskAgainKeeps
  <2>4. CASE Connected \/ ResumedSession
    <3>1. PICK s \in Nat, kind \in Kinds : SendRequest(child, process, "session/prompt", s, kind)
      <4>1. /\ attempt \in Attempt /\ cache \in Nat /\ Current.talk \in Nat
        BY <2>1, TalkingFacts, ToldFacts DEF ToldInv, ToldTyped, CacheKnows, Children
      <4>2. Plain.kind \in Kinds /\ ResumedAttempt.kind \in Kinds
        BY <4>1 DEF Plain, ResumedAttempt, Attempt, Kinds, Sayings
      <4>3. CASE Connected
        BY <4>1, <4>2, <4>3 DEF Connected, Prompt, FreshAttempt, Current
      <4>4. CASE ResumedSession
        BY <4>1, <4>2, <4>4 DEF ResumedSession, Prompt
      <4> QED
        BY <2>4, <4>3, <4>4
    <3>2. /\ chunks' = <<>>
          /\ pc \in Requests /\ answer = "ok" /\ ~stray' /\ UNCHANGED <<process, text>>
          /\ <<>> \in Seq(Nat) /\ "session/prompt" \in Requests
      BY <1>4, <2>4 DEF Connected, ResumedSession, Prompt, ClearChunks, Requests
    <3> QED
      BY <2>1, <2>2, <3>1, <3>2, AskAgainKeeps
  <2>5. CASE Answered
    <3>1. /\ pc = "session/prompt" /\ answer \in {"ok", "timeout"} /\ text' = PromptResult
          /\ ~stray' /\ pc \in Requests /\ answer # "none"
      BY <1>4, <2>5 DEF Answered, Requests
    <3>2. /\ text'.id \in 0..Latest
          /\ text'.id # 0 => /\ text'.pieces = [i \in 1..said[text'.id] |-> text'.id]
                             /\ text'.id = Latest => Quiet(Current)
      BY <2>1, <3>1, TextGiven
    <3>3. CASE Failure \/ Close("done")
      BY <2>1, <3>1, <3>2, <3>3, CloseKeeps, ExitKeeps DEF Failure
    <3>4. CASE answer = "ok" /\ Prompt(session, "correction") /\ UNCHANGED process
      <4>1. /\ SendRequest(child, process, "session/prompt", session, "correction")
            /\ chunks' = <<>> /\ <<>> \in Seq(Nat) /\ "session/prompt" \in Requests
            /\ "correction" \in Kinds /\ session \in Nat
        BY <3>1, <3>4, ToldFacts
           DEF Prompt, ClearChunks, Requests, Kinds, Sayings, ToldInv, Awaited
      <4> QED
        BY <2>1, <3>1, <3>2, <3>4, <4>1, AskAgainKeeps
    <3> QED
      BY <2>5, <3>3, <3>4 DEF Answered
  <2>6. CASE Failed
    <3>1. /\ pc \in Requests /\ answer # "none" /\ ~stray' /\ UNCHANGED text /\ Failure
      BY <1>4, <2>6 DEF Failed, Requests
    <3> QED
      BY <2>1, <2>2, <3>1, CloseKeeps, ExitKeeps DEF Failure
  <2>7. CASE Reopen
    <3>1. /\ pc = "closed" /\ ~stray' /\ UNCHANGED <<chunks, text>> /\ Handshake("connect")
      BY <1>4, <2>7 DEF Reopen
    <3>2. /\ ClientTyped /\ pending = {} /\ child \in Seq(Children) /\ Current.gone
      BY <2>1, <3>1 DEF Talking, Waits, ChildrenTyped
    <3>3. \A c \in 1..Len(child) : Departed(child[c]) /\ child[c].gone
      BY <2>1, <3>2 DEF Talking, OthersGone, Current
    <3> QED
      BY <2>2, <3>1, <3>2, <3>3, SpawnKeeps
  <2>8. CASE UNCHANGED vars
    <3>1. UNCHANGED <<pc, answer, process, pending, nextId, chunks, child, said, text, stray>>
      BY <2>8 DEF vars, client, past
    <3> QED
      BY <3>1 DEF AnswerInv, ClientTyped, ChildrenTyped, OthersGone,
         Waits, Streams, TextKept, Current, Latest
  <2> QED
    BY <1>4, <2>1, <2>3, <2>4, <2>5, <2>6, <2>7, <2>8, LineKeeps, EventKeeps, ChildKeeps
       DEF Next, Adapter, Begin
<1> QED
  BY <1>1, <1>2, <1>3, <1>4

(* Unless close was too impatient, the text of an answer is all of what the *)
(* child said for that very prompt, in order, and a request is rejected only *)
(* because its own child is down.                                            *)
THEOREM TextIsItsOwn == Spec => []AnswersAreOwn
<1>1. Init => AnswerInv
  <2> SUFFICES ASSUME Init PROVE AnswerInv
    OBVIOUS
  <2>1. /\ pc = "idle" /\ answer = "none" /\ process = 0 /\ pending = {} /\ nextId = 1
        /\ chunks = <<>> /\ child = <<>> /\ said = <<>> /\ text = NoText
    BY DEF Init
  <2>2. /\ <<>> \in Seq(Nat) /\ <<>> \in Seq(Children) /\ Len(<<>>) = 0
        /\ NoText.id = 0
    BY DEF NoText
  <2>3. Latest = 0
    BY <2>1 DEF Latest
  <2>4. ClientTyped /\ ChildrenTyped
    BY <2>1, <2>2, <2>3 DEF ClientTyped, ChildrenTyped, Places, Answers
  <2>5. OthersGone /\ Waits /\ Streams /\ TextKept
    BY <2>1, <2>2 DEF OthersGone, Waits, Streams, TextKept, Requests
  <2> QED
    BY <2>1, <2>2, <2>4, <2>5 DEF AnswerInv
<1>2. AnswerInv => AnswersAreOwn
  <2> SUFFICES ASSUME AnswerInv, ~stray
               PROVE  /\ text.id # 0 => text.pieces = [i \in 1..said[text.id] |-> text.id]
                      /\ answer = "reject" => ~child[process].up
    BY DEF AnswersAreOwn
  <2> QED
    BY DEF AnswerInv, TextKept, Waits, Current
<1> QED
  BY <1>1, <1>2, ToldAtFirst, ToldStep, AnswerStep, PTL DEF Spec
=============================================================================
