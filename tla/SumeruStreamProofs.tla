------------------------- MODULE SumeruStreamProofs -------------------------
(***************************************************************************)
(* The client of SumeruStream delivers what TurnDelivery promises, however *)
(* many events an exchange has and wherever its stream is cut.             *)
(*                                                                         *)
(* The argument: the ids a connection has read are an initial segment of   *)
(* the server's log, also after the reconnect, which asks for what follows *)
(* lastSeen; the turns told are the assistant turns of that segment.  An   *)
(* end event is the last of the log, so a client that has read one has     *)
(* read everything.                                                        *)
(***************************************************************************)
EXTENDS SumeruStream, TLAPS

Reading == {"post", "read", "resume"}

TypeOK ==
    /\ log \in Seq(Kinds)
    /\ pc \in Reading \cup {"drained", "ended"}
    /\ lastSeen \in Nat /\ next \in Nat
    /\ part \in BOOLEAN
    /\ turns \in Seq(Nat)
    /\ fin \in {"none", "done", "suspend", "error"}
    /\ result \in {"pending", "not_found", "failed", "completed", "suspended"}

\* Nothing follows an end event.
EndIsLast == \A i \in 1..Len(log) : log[i] \in Terminal => i = Len(log)

\* The connection is at the event after the last one seen.
InPlace == next = lastSeen + 1 /\ lastSeen <= Len(log) /\ (part => next <= Len(log))

\* As long as more can be read, the turns told are those seen.
ToldIsSeen ==
    pc \in Reading => /\ \A k \in 1..Len(turns) : turns[k] <= lastSeen
                      /\ Delivery!ToldUpTo(lastSeen)

\* Who has read an end event has read everything.
EndIsRead ==
    fin \in {"done", "suspend"} =>
        /\ Delivery!Ended(log) /\ log[Len(log)] = fin
        /\ Delivery!ToldUpTo(Len(log))

Phases ==
    /\ pc \in {"post", "resume"} => fin = "none"
    /\ pc = "post" => log = <<>> /\ turns = <<>>
    /\ pc = "ended" <=> result # "pending"

StreamInv ==
    /\ TypeOK /\ EndIsLast /\ InPlace /\ ToldIsSeen /\ EndIsRead /\ Phases
    /\ NotFoundMeansUnheard

-----------------------------------------------------------------------------
(* Every step of sendMessage keeps the types. *)
LEMMA TypingStep == TypeOK /\ InPlace /\ [Next]_vars => TypeOK'
<1> SUFFICES ASSUME TypeOK, InPlace, [Next]_vars PROVE TypeOK'
  OBVIOUS
<1> USE DEF TypeOK, Reading
<1>1. ASSUME NEW kind \in Kinds, Emit(kind) PROVE TypeOK'
  BY <1>1 DEF Emit
<1>2. ASSUME NEW reply \in {"stream", "session_not_found", "refused"}, Post(reply)
      PROVE TypeOK'
  BY <1>2 DEF Post
<1>3. ASSUME NEW f \in {"none", "done", "suspend", "error"}
      PROVE Finalize(f, turns) \in {"failed", "completed", "suspended"}
  BY DEF Finalize
<1>4. CASE Watchdog
  BY <1>3, <1>4 DEF Watchdog
<1>5. ASSUME NEW ok \in BOOLEAN, Resume(ok) PROVE TypeOK'
  BY <1>3, <1>5 DEF Resume
<1>6. ASSUME NEW i \in 1..Len(log), Apply(i)
      PROVE turns' \in Seq(Nat) /\ fin' \in {"none", "done", "suspend", "error"}
  <2>1. log[i] \in Kinds
    OBVIOUS
  <2> QED
    BY <1>6, <2>1 DEF Apply, Says, Kinds, Terminal
<1>7. CASE ReadEvent
  <2>1. next \in 1..Len(log) /\ Apply(next) /\ next + 1 \in Nat
    BY <1>7 DEF ReadEvent, InPlace
  <2>2. turns' \in Seq(Nat) /\ fin' \in {"none", "done", "suspend", "error"}
    BY <1>6, <2>1
  <2> QED
    BY <1>7, <2>1, <2>2 DEF ReadEvent
<1>8. CASE ReadPart
  BY <1>8 DEF ReadPart
<1>9. CASE Return
  BY <1>3, <1>9 DEF Return
<1>10. ASSUME NEW rest \in {"nothing", "whole", "broken"}, Close(rest) PROVE TypeOK'
  <2>1. CASE rest = "whole"
    <3>1. next \in 1..Len(log) /\ Apply(next)
      BY <1>10, <2>1 DEF Close, InPlace
    <3>2. turns' \in Seq(Nat) /\ fin' \in {"none", "done", "suspend", "error"}
      BY <1>6, <3>1
    <3> QED
      BY <1>10, <3>2 DEF Close
  <2> QED
    BY <1>10, <2>1 DEF Close
<1>11. CASE UNCHANGED vars
  BY <1>11 DEF vars
<1> QED
  BY <1>1, <1>2, <1>4, <1>5, <1>7, <1>8, <1>9, <1>10, <1>11 DEF Next, Client

-----------------------------------------------------------------------------
(* The ids read are an initial segment of the log, over the reconnect too. *)
LEMMA InPlaceStep == TypeOK /\ InPlace /\ [Next]_vars => InPlace'
<1> SUFFICES ASSUME TypeOK, InPlace, [Next]_vars PROVE InPlace'
  OBVIOUS
<1> USE DEF TypeOK, InPlace
<1>1. ASSUME NEW kind \in Kinds, Emit(kind) PROVE InPlace'
  BY <1>1 DEF Emit
<1>2. CASE ReadEvent \/ ReadPart \/ Return \/ Watchdog
  BY <1>2 DEF ReadEvent, ReadPart, Return, Watchdog
<1>3. ASSUME NEW reply \in {"stream", "session_not_found", "refused"}, Post(reply)
      PROVE InPlace'
  BY <1>3 DEF Post
<1>4. ASSUME NEW ok \in BOOLEAN, Resume(ok) PROVE InPlace'
  BY <1>4 DEF Resume
<1>5. ASSUME NEW rest \in {"nothing", "whole", "broken"}, Close(rest) PROVE InPlace'
  BY <1>5 DEF Close
<1>6. CASE UNCHANGED vars
  BY <1>6 DEF vars
<1> QED
  BY <1>1, <1>2, <1>3, <1>4, <1>5, <1>6 DEF Next, Client

(* An event is emitted only while the log has no end. *)
LEMMA EndIsLastStep == TypeOK /\ EndIsLast /\ [Next]_vars => EndIsLast'
<1> SUFFICES ASSUME TypeOK, EndIsLast, [Next]_vars PROVE EndIsLast'
  OBVIOUS
<1>1. ASSUME NEW kind \in Kinds, Emit(kind) PROVE EndIsLast'
  <2>1. \A i \in 1..Len(log) : log[i] \notin Terminal
    BY <1>1 DEF Emit, EndIsLast, TypeOK, Delivery!Ended, Delivery!Terminal, Terminal
  <2>2. log' = Append(log, kind) /\ Len(log') = Len(log) + 1
    BY <1>1 DEF Emit, TypeOK
  <2> QED
    BY <2>1, <2>2 DEF EndIsLast, TypeOK
<1>2. CASE UNCHANGED log
  BY <1>2 DEF EndIsLast
<1>3. Client \/ UNCHANGED vars => UNCHANGED log
  BY DEF Client, Post, Resume, ReadEvent, ReadPart, Return, Watchdog, Close, Apply, vars
<1> QED
  BY <1>1, <1>2, <1>3 DEF Next

-----------------------------------------------------------------------------
(* Applying the event that follows those seen extends the told segment by it. *)
LEMMA ApplyTells ==
    ASSUME TypeOK, NEW i \in 1..Len(log), Apply(i), UNCHANGED log,
           \A k \in 1..Len(turns) : turns[k] <= i - 1, Delivery!ToldUpTo(i - 1)
    PROVE  /\ \A k \in 1..Len(turns') : turns'[k] <= i
           /\ Delivery!ToldUpTo(i)'
<1> USE DEF Delivery!ToldUpTo, Delivery!Told
<1>1. CASE log[i] = "assistant"
  <2>1. turns' = Append(turns, i) /\ Len(turns') = Len(turns) + 1
    BY <1>1 DEF Apply, TypeOK
  <2>2. \A k \in 1..Len(turns) : turns'[k] = turns[k]
    BY <2>1 DEF TypeOK
  <2>3. turns'[Len(turns')] = i /\ Len(turns) \in Nat
    BY <2>1 DEF TypeOK
  <2>4. \A k \in 1..Len(turns') : turns'[k] <= i
    <3> TAKE k \in 1..Len(turns')
    <3>1. CASE k = Len(turns')
      BY <3>1, <2>3
    <3>2. CASE k # Len(turns')
      <4>1. k \in 1..Len(turns) /\ turns[k] \in Nat
        BY <2>1, <2>3, <3>2 DEF TypeOK
      <4> QED
        BY <4>1, <2>2
    <3> QED
      BY <3>1, <3>2
  <2>5. \A j \in 1..i : log[j] = "assistant" => j \in {turns'[k] : k \in 1..Len(turns')}
    <3> TAKE j \in 1..i
    <3> HAVE log[j] = "assistant"
    <3>1. CASE j = i
      BY <2>1, <2>3, <3>1
    <3>2. CASE j # i
      <4>1. PICK k \in 1..Len(turns) : turns[k] = j
        BY <3>2
      <4> QED
        BY <4>1, <2>1, <2>2, <2>3
    <3> QED
      BY <3>1, <3>2
  <2> QED
    BY <2>4, <2>5
<1>2. CASE log[i] # "assistant"
  <2>1. turns' = turns
    BY <1>2 DEF Apply
  <2>2. \A k \in 1..Len(turns) : turns[k] \in Nat
    BY DEF TypeOK
  <2> QED
    BY <1>2, <2>1, <2>2
<1> QED
  BY <1>1, <1>2

(* A client that reads an end event has read the whole log. *)
LEMMA ApplyEnds ==
    ASSUME TypeOK, EndIsLast, NEW i \in 1..Len(log), Apply(i),
           fin' \in {"done", "suspend"}
    PROVE  i = Len(log) /\ Delivery!Ended(log) /\ log[Len(log)] = fin'
<1>1. log[i] \in Terminal /\ log[i] = fin'
  BY DEF Apply, Says, Terminal
<1>2. i = Len(log)
  BY <1>1 DEF EndIsLast
<1> QED
  BY <1>1, <1>2 DEF Delivery!Ended, Delivery!Terminal, Terminal, TypeOK

(* What a stream ends with decides what the call answers. *)
LEMMA FinalizeMeaning ==
    ASSUME NEW f \in {"none", "done", "suspend", "error"}, NEW t
    PROVE  /\ Finalize(f, t) \in {"failed", "suspended", "completed"}
           /\ Finalize(f, t) = "completed" => f = "done" /\ t # <<>>
           /\ Finalize(f, t) = "suspended" => f = "suspend"
<1>1. CASE f = "error"
  BY <1>1 DEF Finalize
<1>2. CASE f = "suspend"
  BY <1>2 DEF Finalize
<1>3. CASE f \notin {"error", "suspend"} /\ (f = "none" \/ t = <<>>)
  BY <1>3 DEF Finalize
<1>4. CASE f \notin {"error", "suspend", "none"} /\ t # <<>>
  <2>1. Finalize(f, t) = "completed"
    BY <1>4 DEF Finalize
  <2>2. f = "done"
    BY <1>4
  <2> QED
    BY <2>1, <2>2, <1>4
<1> QED
  BY <1>1, <1>2, <1>3, <1>4

-----------------------------------------------------------------------------
(* Until its call returns, a client has told the turns of what it has read. *)
LEMMA ToldIsSeenStep == StreamInv /\ [Next]_vars => ToldIsSeen'
<1> SUFFICES ASSUME StreamInv, [Next]_vars PROVE ToldIsSeen'
  OBVIOUS
<1> USE DEF StreamInv
<1>1. ASSUME NEW kind \in Kinds, Emit(kind) PROVE ToldIsSeen'
  <2>1. \A j \in 1..lastSeen : log'[j] = log[j]
    BY <1>1 DEF Emit, InPlace, TypeOK
  <2>2. UNCHANGED <<pc, turns, lastSeen>>
    BY <1>1 DEF Emit
  <2> QED
    BY <2>1, <2>2 DEF ToldIsSeen, Delivery!ToldUpTo, Delivery!Told
<1>2. CASE ReadEvent
  <2>1. PICK i \in 1..Len(log) : i = next
    BY <1>2 DEF ReadEvent, InPlace, TypeOK
  <2>2. lastSeen = i - 1 /\ Apply(i) /\ UNCHANGED log /\ lastSeen' = i
    BY <1>2, <2>1 DEF ReadEvent, InPlace, TypeOK
  <2>3. /\ \A k \in 1..Len(turns) : turns[k] <= i - 1
        /\ Delivery!ToldUpTo(i - 1)
    BY <1>2, <2>2 DEF ReadEvent, ToldIsSeen, Reading
  <2>4. /\ \A k \in 1..Len(turns') : turns'[k] <= i
        /\ Delivery!ToldUpTo(i)'
    BY ONLY TypeOK, <2>2, <2>3, ApplyTells
  <2> QED
    BY <2>2, <2>4 DEF ToldIsSeen, Delivery!ToldUpTo, Delivery!Told
<1>3. CASE UNCHANGED <<log, turns, lastSeen>> /\ (pc' \in Reading => pc \in Reading)
  BY <1>3 DEF ToldIsSeen, Delivery!ToldUpTo, Delivery!Told
<1>4. ASSUME NEW rest \in {"nothing", "whole", "broken"}, Close(rest) PROVE ToldIsSeen'
  BY <1>4 DEF Close, ToldIsSeen, Reading
<1>5. ASSUME NEW reply \in {"stream", "session_not_found", "refused"}, Post(reply)
      PROVE ToldIsSeen'
  BY <1>3, <1>5 DEF Post, Reading
<1>6. ASSUME NEW ok \in BOOLEAN, Resume(ok) PROVE ToldIsSeen'
  BY <1>3, <1>6 DEF Resume, Reading
<1>7. CASE ReadPart \/ Return \/ Watchdog \/ UNCHANGED vars
  BY <1>3, <1>7 DEF ReadPart, Return, Watchdog, vars, Reading
<1> QED
  BY <1>1, <1>2, <1>4, <1>5, <1>6, <1>7 DEF Next, Client

(* A `done' or a suspension is read last, so nothing is missing then. *)
LEMMA EndIsReadStep == StreamInv /\ [Next]_vars => EndIsRead'
<1> SUFFICES ASSUME StreamInv, [Next]_vars PROVE EndIsRead'
  OBVIOUS
<1> USE DEF StreamInv
<1>1. ASSUME NEW kind \in Kinds, Emit(kind) PROVE EndIsRead'
  BY <1>1 DEF Emit, EndIsRead
<1>2. ASSUME pc = "read", next <= Len(log), Apply(next), UNCHANGED log PROVE EndIsRead'
  <2> SUFFICES ASSUME fin' \in {"done", "suspend"}
               PROVE  /\ Delivery!Ended(log) /\ log[Len(log)] = fin'
                      /\ Delivery!ToldUpTo(Len(log))'
    BY <1>2 DEF EndIsRead, Delivery!ToldUpTo, Delivery!Told
  <2>1. PICK i \in 1..Len(log) : i = next /\ lastSeen = i - 1
    BY <1>2 DEF InPlace, TypeOK
  <2>2. Apply(i)
    BY <1>2, <2>1
  <2>3. i = Len(log) /\ Delivery!Ended(log) /\ log[Len(log)] = fin'
    BY ONLY TypeOK, EndIsLast, <2>2, fin' \in {"done", "suspend"}, ApplyEnds
  <2>4. /\ \A k \in 1..Len(turns) : turns[k] <= i - 1
        /\ Delivery!ToldUpTo(i - 1)
    BY <1>2, <2>1 DEF ToldIsSeen, Reading
  <2>5. Delivery!ToldUpTo(i)'
    BY ONLY TypeOK, <1>2, <2>2, <2>4, ApplyTells
  <2> QED
    BY <1>2, <2>3, <2>5 DEF Delivery!ToldUpTo, Delivery!Told
<1>3. CASE UNCHANGED <<log, turns, fin>>
  BY <1>3 DEF EndIsRead, Delivery!ToldUpTo, Delivery!Told
<1>4. CASE ReadEvent
  BY <1>2, <1>4 DEF ReadEvent
<1>5. ASSUME NEW rest \in {"nothing", "whole", "broken"}, Close(rest) PROVE EndIsRead'
  <2>1. CASE rest = "whole"
    BY <1>2, <1>5, <2>1 DEF Close, InPlace
  <2>2. CASE rest = "broken"
    BY <1>5, <2>2 DEF Close, EndIsRead
  <2>3. CASE rest = "nothing"
    BY <1>3, <1>5, <2>3 DEF Close
  <2> QED
    BY <2>1, <2>2, <2>3
<1>6. ASSUME NEW reply \in {"stream", "session_not_found", "refused"}, Post(reply)
      PROVE EndIsRead'
  BY <1>3, <1>6 DEF Post
<1>7. ASSUME NEW ok \in BOOLEAN, Resume(ok) PROVE EndIsRead'
  BY <1>3, <1>7 DEF Resume
<1>8. CASE ReadPart \/ Return \/ Watchdog \/ UNCHANGED vars
  BY <1>3, <1>8 DEF ReadPart, Return, Watchdog, vars
<1> QED
  BY <1>1, <1>4, <1>5, <1>6, <1>7, <1>8 DEF Next, Client

(* No prompt is taken before the first answer, and none when it is a refusal. *)
LEMMA PhasesStep == StreamInv /\ [Next]_vars => Phases' /\ NotFoundMeansUnheard'
<1> SUFFICES ASSUME StreamInv, [Next]_vars PROVE Phases' /\ NotFoundMeansUnheard'
  OBVIOUS
<1> USE DEF StreamInv, Phases, NotFoundMeansUnheard
<1>1. ASSUME NEW kind \in Kinds, Emit(kind) PROVE Phases' /\ NotFoundMeansUnheard'
  BY <1>1 DEF Emit
<1>2. ASSUME NEW reply \in {"stream", "session_not_found", "refused"}, Post(reply)
      PROVE Phases' /\ NotFoundMeansUnheard'
  BY <1>2 DEF Post
<1>3. Finalize(fin, turns) \in {"failed", "suspended", "completed"}
  BY FinalizeMeaning DEF TypeOK
<1>4. CASE ReadEvent \/ ReadPart
  BY <1>4 DEF ReadEvent, ReadPart
<1>5. CASE Return \/ Watchdog
  BY <1>3, <1>5 DEF Return, Watchdog
<1>6. ASSUME NEW ok \in BOOLEAN, Resume(ok) PROVE Phases' /\ NotFoundMeansUnheard'
  BY <1>3, <1>6 DEF Resume
<1>7. ASSUME NEW rest \in {"nothing", "whole", "broken"}, Close(rest)
      PROVE Phases' /\ NotFoundMeansUnheard'
  BY <1>7 DEF Close
<1>8. CASE UNCHANGED vars
  BY <1>8 DEF vars
<1> QED
  BY <1>1, <1>2, <1>4, <1>5, <1>6, <1>7, <1>8 DEF Next, Client

-----------------------------------------------------------------------------
(* What holds whenever the client runs. *)
THEOREM StreamIsRead == Spec => []StreamInv
<1>1. Init => StreamInv
  <2> SUFFICES ASSUME Init PROVE StreamInv
    OBVIOUS
  <2>1. TypeOK
    <3>1. log \in Seq(Kinds) /\ turns \in Seq(Nat)
      BY DEF Init
    <3>2. lastSeen \in Nat /\ next \in Nat /\ part \in BOOLEAN
      BY DEF Init
    <3> QED
      BY <3>1, <3>2 DEF Init, TypeOK, Reading
  <2>2. EndIsLast /\ EndIsRead
    BY DEF Init, EndIsLast, EndIsRead
  <2>3. ToldIsSeen
    BY DEF Init, ToldIsSeen, Delivery!ToldUpTo
  <2>4. InPlace
    BY DEF Init, InPlace
  <2>5. Phases /\ NotFoundMeansUnheard
    BY DEF Init, Phases, NotFoundMeansUnheard
  <2> QED
    BY <2>1, <2>2, <2>3, <2>4, <2>5 DEF StreamInv
<1>2. StreamInv /\ [Next]_vars => StreamInv'
  BY TypingStep, InPlaceStep, EndIsLastStep, ToldIsSeenStep, EndIsReadStep, PhasesStep
     DEF StreamInv
<1> QED
  BY <1>1, <1>2, PTL DEF Spec

(* A prompt that is sent again to a fresh session was heard by no one. *)
THEOREM UnknownSessionHeardNothing == Spec => []NotFoundMeansUnheard
<1>1. StreamInv => NotFoundMeansUnheard
  BY DEF StreamInv
<1> QED
  BY <1>1, StreamIsRead, PTL

-----------------------------------------------------------------------------
(* A call answers at most once, and what it may answer follows from what it *)
(* has read.                                                                *)
LEMMA AnswersFit ==
    ASSUME StreamInv, result = "pending", UNCHANGED <<log, turns>>,
           result' = Finalize(fin, turns)
    PROVE  Delivery!Next
<1> DEFINE r == Finalize(fin, turns)
<1>1. /\ r \in {"failed", "suspended", "completed"}
      /\ r = "completed" => fin = "done" /\ turns # <<>>
      /\ r = "suspended" => fin = "suspend"
  BY FinalizeMeaning DEF StreamInv, TypeOK
<1>2. result' = r
  OBVIOUS
<1> HIDE DEF r
<1>3. Delivery!Answer(r)
  BY <1>1, <1>2 DEF StreamInv, EndIsRead, Delivery!Answer
<1> QED
  BY <1>1, <1>3 DEF Delivery!Next

(* Applying the next event tells its turn, or tells nothing. *)
LEMMA AppliesFit ==
    ASSUME StreamInv, pc = "read", next <= Len(log), Apply(next), UNCHANGED <<log, result>>
    PROVE  [Delivery!Next]_(Delivery!vars)
<1> USE DEF StreamInv
<1>1. next \in 1..Len(log) /\ lastSeen = next - 1 /\ result = "pending"
  BY DEF InPlace, TypeOK, Phases
<1>2. CASE log[next] = "assistant"
  <2>1. Delivery!ToldUpTo(next - 1) /\ \A k \in 1..Len(turns) : turns[k] <= next - 1
    BY <1>1 DEF ToldIsSeen, Reading
  <2>2. next \notin Delivery!Told
    BY <2>1, <1>1 DEF Delivery!Told, TypeOK
  <2>3. Delivery!Tell(next)
    BY <1>1, <1>2, <2>1, <2>2 DEF Apply, Delivery!Tell
  <2> QED
    BY <1>1, <2>3 DEF Delivery!Next
<1>3. CASE log[next] # "assistant"
  BY <1>3 DEF Apply, Delivery!vars
<1> QED
  BY <1>2, <1>3

(* Every step of the client is one of TurnDelivery, or changes nothing there. *)
LEMMA DeliveryStep == StreamInv /\ [Next]_vars => [Delivery!Next]_(Delivery!vars)
<1> SUFFICES ASSUME StreamInv, [Next]_vars PROVE [Delivery!Next]_(Delivery!vars)
  OBVIOUS
<1>1. ASSUME NEW kind \in Kinds, Emit(kind) PROVE [Delivery!Next]_(Delivery!vars)
  <2>1. Delivery!Emit(kind) /\ kind \in Delivery!Kinds
    BY <1>1 DEF Emit, Delivery!Emit, Kinds, Terminal, Delivery!Kinds, Delivery!Terminal
  <2> QED
    BY <2>1 DEF Delivery!Next
<1>2. ASSUME NEW reply \in {"stream", "session_not_found", "refused"}, Post(reply)
      PROVE [Delivery!Next]_(Delivery!vars)
  <2>1. CASE reply = "stream"
    BY <1>2, <2>1 DEF Post, Delivery!vars
  <2>2. CASE reply # "stream"
    <3>1. result = "pending" /\ UNCHANGED <<log, turns>> /\ result' \in {"not_found", "failed"}
      BY <1>2, <2>2 DEF Post, StreamInv, Phases
    <3>2. Delivery!Answer("failed")
      BY <3>1 DEF Delivery!Answer
    <3> QED
      BY <3>2 DEF Delivery!Next
  <2> QED
    BY <2>1, <2>2
<1>3. CASE ReadEvent
  BY <1>3, AppliesFit DEF ReadEvent
<1>4. CASE Return
  BY <1>4, AnswersFit DEF Return, StreamInv, Phases
<1>5. CASE Watchdog
  <2>1. CASE attempt = 1
    BY <1>5, <2>1 DEF Watchdog, Delivery!vars
  <2>2. CASE attempt # 1
    BY <1>5, <2>2, AnswersFit DEF Watchdog, StreamInv, Phases
  <2> QED
    BY <2>1, <2>2
<1>6. ASSUME NEW ok \in BOOLEAN, Resume(ok) PROVE [Delivery!Next]_(Delivery!vars)
  <2>1. CASE ok
    BY <1>6, <2>1 DEF Resume, Delivery!vars
  <2>2. CASE ~ok
    BY <1>6, <2>2, AnswersFit DEF Resume, StreamInv, Phases
  <2> QED
    BY <2>1, <2>2
<1>7. ASSUME NEW rest \in {"nothing", "whole", "broken"}, Close(rest)
      PROVE [Delivery!Next]_(Delivery!vars)
  <2>1. CASE rest = "whole"
    BY <1>7, <2>1, AppliesFit DEF Close, StreamInv, InPlace
  <2>2. CASE rest # "whole"
    BY <1>7, <2>2 DEF Close, Delivery!vars
  <2> QED
    BY <2>1, <2>2
<1>8. CASE ReadPart \/ UNCHANGED vars
  BY <1>8 DEF ReadPart, vars, Delivery!vars
<1> QED
  BY <1>1, <1>2, <1>3, <1>4, <1>5, <1>6, <1>7, <1>8 DEF Next, Client

(* The client, with its cuts, stalls and its reconnect, implements TurnDelivery. *)
THEOREM ClientDelivers == Spec => DeliverySpec
<1>1. Init => Delivery!Init
  BY DEF Init, Delivery!Init
<1> QED
  BY <1>1, DeliveryStep, StreamIsRead, PTL DEF Spec, DeliverySpec, Delivery!Spec
=============================================================================
