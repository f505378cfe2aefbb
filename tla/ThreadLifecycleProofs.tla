----------------------- MODULE ThreadLifecycleProofs -----------------------
(***************************************************************************)
(* Proofs about the thread commands, for every set of processes and roles  *)
(* and every setting of the constants, with deaths and signals anywhere.   *)
(*                                                                         *)
(* First what holds however commands overlap: entries are well formed, a   *)
(* marker that counts names a runner, and a thread does not disappear.     *)
(* Then what holds with one command at a time: how the status, the chain   *)
(* of steps and the output of a command agree, and what `uwf thread list'  *)
(* says beside it.                                                         *)
(***************************************************************************)
EXTENDS ThreadListing, TLAPS

Good == {e \in Entries : WellFormed(e)}

\* A variable with tags gives back the entry it was made from.
LEMMA RoundTrip == \A e \in Entries : entryFromVariable(variableOf(e)) = e
<1> TAKE e \in Entries
<1>1. \A t \in TagNames : tagOr(variableOf(e), t) = e[t]
  BY DEF tagOr, variableOf, TagNames
<1>2. e = [head |-> e.head, status |-> e.status,
           suspendedRole |-> e.suspendedRole,
           suspendMessage |-> e.suspendMessage, completedAt |-> e.completedAt]
  BY DEF Entries
<1>3. variableOf(e).value = e.head
  BY DEF variableOf
<1> QED
  BY <1>1, <1>2, <1>3 DEF entryFromVariable, TagNames

\* What the moderator reads off a chain of steps.
LEMMA ChainFacts ==
  ASSUME NEW head \in Heads
  PROVE  /\ head # <<>> => Last(head).role \in Roles /\ Last(head).to \in Targets
         /\ Front(head) \in Heads
         /\ \A r \in Roles, to \in Targets :
              /\ Append(head, [role |-> r, to |-> to]) \in Heads
              /\ Append(Front(head), [role |-> r, to |-> to]) \in Heads
         /\ <<>> \in Heads
<1>1. head # <<>> => Last(head) \in Steps
  BY DEF Heads, Last
<1>2. Front(head) \in Heads
  BY DEF Heads, Front
<1>3. \A r \in Roles, to \in Targets : [role |-> r, to |-> to] \in Steps
  BY DEF Steps
<1>4. <<>> \in Heads
  BY DEF Heads
<1>5. \A h \in Heads, s \in Steps : Append(h, s) \in Heads
  BY DEF Heads
<1> QED
  BY <1>1, <1>2, <1>3, <1>4, <1>5 DEF Steps

\* The constructors of thread-index.ts make well-formed entries.
LEMMA ConstructorsGood ==
  /\ \A h \in Heads : createThreadIndexEntry(h) \in Good
  /\ \A e \in Entries, r \in Roles, m \in Messages :
        markThreadSuspended(e, r, m) \in Good
  /\ \A e \in Entries, s \in {"end", "cancelled"} :
        markThreadCompleted(e, s) \in Good
  /\ \A e \in Good : e.status = "end" =>
        [e EXCEPT !.status = "idle", !.completedAt = Null] \in Good
<1> USE LifecycleAssumption DEF Good, WellFormed, Statuses, Messages
<1>1. ASSUME NEW h \in Heads PROVE createThreadIndexEntry(h) \in Good
  BY DEF createThreadIndexEntry, Entries
<1>2. ASSUME NEW e \in Entries, NEW r \in Roles, NEW m \in Messages
      PROVE  markThreadSuspended(e, r, m) \in Good
  BY DEF markThreadSuspended, Entries
<1>3. ASSUME NEW e \in Entries, NEW s \in {"end", "cancelled"}
      PROVE  markThreadCompleted(e, s) \in Good
  BY DEF markThreadCompleted, Entries
<1>4. ASSUME NEW e \in Good, e.status = "end"
      PROVE  [e EXCEPT !.status = "idle", !.completedAt = Null] \in Good
  BY <1>4 DEF Entries
<1> QED
  BY <1>1, <1>2, <1>3, <1>4

-----------------------------------------------------------------------------
\* Where p is, or goes next when it is inside a write or a sweep.
At(p) == IF pc[p] \in {"remove", "put", "sweep"} THEN job[p].then ELSE pc[p]

\* The states of an exec between the marker's creation and its deletion.
Marked ==
    {"slot", "read", "agent", "failed", "route", "archive", "remove", "put",
     "release", "unmark"}

Typing ==
    /\ marker \in Proc \cup {NoProc}
    /\ holders \in SUBSET Proc
    /\ pc \in [Proc -> Control]
    /\ job \in [Proc -> Jobs]
    /\ term \in [Proc -> BOOLEAN]

Stored == thread \subseteq {variableOf(e) : e \in Good} /\ written \in Entries

\* What a process knows where it uses it.
Knows(p) ==
    /\ \/ At(p) \in {"agent", "failed", "route"}
       \/ At(p) = "read" /\ Cmd(p) = "resume"
       => job[p].role \in Roles
    /\ At(p) \in {"recheck", "judge", "agent", "failed", "route"}
       => job[p].seen \in Entries
    /\ At(p) = "route" => job[p].fresh \in Targets
    /\ pc[p] \in {"remove", "put"} => job[p].wr \in Good

\* Only an exec gets to the places of an exec.
Keeps(p) ==
    /\ At(p) \in {"mark", "slot", "release", "unmark"} => Cmd(p) \in Runners
    /\ pc[p] \in {"remove", "put"} /\ Cmd(p) \in Runners
       => job[p].then \in {"release", "route"}
    /\ pc[p] \in {"remove", "put"}
       => job[p].then \in {"release", "route", "read", "done"}
    /\ pc[p] = "sweep" => job[p].then \in {"judge", "enter", "open", "done"}

MarksRunner ==
    \A p \in Proc :
        marker = p /\ Alive(p) /\ job[p].stamped =>
            Cmd(p) \in Runners /\ pc[p] \in Marked

LifeInv ==
    /\ Typing
    /\ Stored
    /\ \A p \in Proc : Knows(p) /\ Keeps(p)
    /\ MarksRunner
    /\ ThreadKept

\* The entry read is absent or well-formed.
LEMMA EntryGood == Stored => Entry = Null \/ Entry \in Good
<1> SUFFICES ASSUME Stored, thread # {} PROVE Entry \in Good
  BY DEF Entry
<1>1. (CHOOSE v \in thread : TRUE) \in thread
  OBVIOUS
<1>2. PICK e \in Good : (CHOOSE v \in thread : TRUE) = variableOf(e)
  BY <1>1 DEF Stored
<1> QED
  BY <1>2, RoundTrip DEF Entry, Good

-----------------------------------------------------------------------------
\* The job of a process that does nothing.
LEMMA NoJobTyped == NoJob \in Jobs
<1>1. 0 \in 0 .. MaxCount
  <2>1. MaxCount \in Nat
    BY LifecycleAssumption
  <2> QED
    BY <2>1
<1>2. "done" \in Control /\ Null \in Reports
  BY DEF Control, Reports
<1> QED
  BY <1>1, <1>2 DEF NoJob, Jobs

\* Every step of p types the program counters and jobs, and touches p's only.
Typed == pc \in [Proc -> Control] /\ job \in [Proc -> Jobs]

OthersStay(p) ==
  \A q \in Proc \ {p} : pc'[q] = pc[q] /\ job'[q] = job[q]

\* Move sends p somewhere and leaves its job alone.
LEMMA MoveTypes ==
  ASSUME Typed, NEW p \in Proc, NEW from, NEW to \in Control, Move(p, from, to)
  PROVE  Typed' /\ OthersStay(p) /\ pc'[p] = to /\ job'[p] = job[p]
BY DEF Typed, OthersStay, Move, Goto

\* Report changes the report in p's job only.
LEMMA ReportTypes ==
  ASSUME Typed, NEW p \in Proc, NEW r \in Reports, NEW l \in Control,
         Report(p, r, l)
  PROVE  /\ Typed' /\ OthersStay(p)
         /\ pc'[p] = l /\ job'[p] = [job[p] EXCEPT !.report = r]
<1>1. [job[p] EXCEPT !.report = r] \in Jobs
  BY DEF Typed, Jobs
<1>2. job' = [job EXCEPT ![p] = [job[p] EXCEPT !.report = r]]
  BY DEF Report
<1> QED
  BY <1>1, <1>2 DEF Typed, OthersStay, Report, Goto

\* Write puts the entry and the place to go on at in p's job.
LEMMA WriteTypes ==
  ASSUME Typed, NEW p \in Proc, NEW e \in Entries, NEW r \in Reports,
         NEW l \in Control, Write(p, e, r, l)
  PROVE  /\ Typed' /\ OthersStay(p)
         /\ pc'[p] = "remove"
         /\ job'[p].wr = e /\ job'[p].then = l /\ job'[p].cmd = job[p].cmd
<1>1. [job[p] EXCEPT !.wr = e, !.then = l, !.report = r] \in Jobs
  BY DEF Typed, Jobs
<1>2. job' = [job EXCEPT ![p] = [job[p] EXCEPT !.wr = e, !.then = l, !.report = r]]
  BY DEF Write, Typed
<1>3. "remove" \in Control
  BY DEF Control
<1>4. Typed' /\ OthersStay(p) /\ pc'[p] = "remove"
  BY <1>1, <1>2, <1>3 DEF Typed, OthersStay, Write, Goto
<1>5. job'[p] = [job[p] EXCEPT !.wr = e, !.then = l, !.report = r]
  BY <1>2 DEF Typed
<1>6. job'[p].wr = e /\ job'[p].then = l /\ job'[p].cmd = job[p].cmd
  BY <1>5 DEF Typed, Jobs
<1> QED
  BY <1>4, <1>6

\* Any other step, with the job it leaves behind.
LEMMA UpdateTypes ==
  ASSUME Typed, NEW p \in Proc, NEW j \in Jobs, NEW l \in Control,
         pc' = [pc EXCEPT ![p] = l], job' = [job EXCEPT ![p] = j]
  PROVE  Typed' /\ OthersStay(p) /\ pc'[p] = l /\ job'[p] = j
BY DEF Typed, OthersStay

-----------------------------------------------------------------------------
Local(p) == Knows(p) /\ Keeps(p)

\* What a step of p owes to the rest of the proof.
Fine(p) == Typed' /\ OthersStay(p) /\ Local(p)'

\* The labels of which a process has to know nothing.
Plain == {"gone", "look", "check", "enter", "open", "archive", "aim", "drop", "done", "torn"}

Given(p) == LifeInv /\ Typed /\ Local(p) /\ p \in Proc

\* A step that neither writes nor takes anything from the entry.
LEMMA MoveFine ==
  ASSUME NEW p, Given(p), NEW from, NEW to \in Control, Move(p, from, to),
         from \notin {"remove", "put", "sweep"},
         to \in Plain \/ (to \in {"mark", "slot", "release", "unmark"} /\ Cmd(p) \in Runners)
  PROVE  Fine(p)
<1>1. Typed' /\ OthersStay(p) /\ pc'[p] = to /\ job'[p] = job[p]
  BY MoveTypes DEF Given
<1> QED
  BY <1>1 DEF Fine, Local, Knows, Keeps, At, Cmd, Plain

\* A step that only reports.
LEMMA ReportFine ==
  ASSUME NEW p, Given(p), NEW r \in Reports, NEW to \in Control, Report(p, r, to),
         \/ to \in Plain
         \/ to = "release" /\ Cmd(p) \in Runners
         \/ to = "failed" /\ At(p) \in {"agent", "route"}
  PROVE  Fine(p)
<1>1. /\ Typed' /\ OthersStay(p)
      /\ pc'[p] = to /\ job'[p] = [job[p] EXCEPT !.report = r]
  BY ReportTypes DEF Given
<1>2. /\ job'[p].cmd = job[p].cmd /\ job'[p].role = job[p].role
      /\ job'[p].seen = job[p].seen
  BY <1>1 DEF Given, Typed, Jobs
<1> QED
  BY <1>1, <1>2 DEF Given, Fine, Local, Knows, Keeps, At, Cmd, Plain

\* A write after which the process is done with the thread.
LEMMA WriteFine ==
  ASSUME NEW p, Given(p), NEW e \in Good, NEW r \in Reports, NEW next \in Control,
         Write(p, e, r, next),
         \/ next = "release" /\ Cmd(p) \in Runners
         \/ next = "done" /\ Cmd(p) \notin Runners
  PROVE  Fine(p)
<1>0. e \in Entries /\ Typed /\ p \in Proc
  BY DEF Good, Given
<1>1. /\ Typed' /\ OthersStay(p) /\ pc'[p] = "remove"
      /\ job'[p].wr = e /\ job'[p].then = next /\ job'[p].cmd = job[p].cmd
  BY <1>0, WriteTypes
<1> QED
  BY <1>1 DEF Fine, Local, Knows, Keeps, At, Cmd

\* Quit leads an exec to its finally block, and any other command out.
LEMMA QuitFacts ==
  ASSUME NEW p
  PROVE  /\ Quit(p) \in Control
         /\ \/ Quit(p) = "release" /\ Cmd(p) \in Runners
            \/ Quit(p) = "done" /\ Cmd(p) \notin Runners
<1>1. CASE Cmd(p) \in Runners
  BY <1>1 DEF Quit, Control
<1>2. CASE Cmd(p) \notin Runners
  BY <1>2 DEF Quit, Control
<1> QED
  BY <1>1, <1>2

\* Checking the marker and deleting a stale one.
LEMMA MarkerFine ==
  ASSUME NEW p, Given(p), Marker(p)
  PROVE  Fine(p)
<1>1. ASSUME CheckFree(p) PROVE Fine(p)
  <2>1. Move(p, pc[p], Cleared(p))
    BY <1>1 DEF CheckFree, Move
  <2>2. /\ Cleared(p) \in {"judge", "enter", "open", "done"}
        /\ Cleared(p) = "judge" => pc[p] = "recheck"
    BY DEF Cleared
  <2>3. Typed' /\ OthersStay(p) /\ pc'[p] = Cleared(p) /\ job'[p] = job[p]
    BY <2>1, <2>2, MoveTypes DEF Given, Control
  <2> QED
    BY <2>2, <2>3, <1>1
       DEF Given, Fine, Local, Knows, Keeps, At, Cmd, CheckFree, Checking
<1>2. ASSUME CheckBusy(p) PROVE Fine(p)
  <2>1. Move(p, pc[p], "done") /\ pc[p] \notin {"remove", "put", "sweep"}
    BY <1>2 DEF CheckBusy, Checking, Move
  <2> QED
    BY <2>1, MoveFine DEF Plain, Control
<1>3. ASSUME CheckStale(p) PROVE Fine(p)
  <2>1. /\ Cleared(p) \in {"judge", "enter", "open", "done"}
        /\ Cleared(p) = "judge" => pc[p] = "recheck"
    BY DEF Cleared
  <2>2. Cleared(p) \in Control /\ "sweep" \in Control
    BY <2>1 DEF Control
  <2>3. [job[p] EXCEPT !.then = Cleared(p)] \in Jobs
    BY <2>2 DEF Given, Typed, Jobs
  <2>4. /\ Typed' /\ OthersStay(p) /\ pc'[p] = "sweep"
        /\ job'[p] = [job[p] EXCEPT !.then = Cleared(p)]
    BY <1>3, <2>2, <2>3, UpdateTypes DEF Given, CheckStale, Goto
  <2>5. /\ job'[p].then = Cleared(p) /\ job'[p].cmd = job[p].cmd
        /\ job'[p].seen = job[p].seen
    BY <2>4 DEF Given, Typed, Jobs
  <2> QED
    BY <1>3, <2>1, <2>4, <2>5
       DEF Given, Fine, Local, Knows, Keeps, At, Cmd, CheckStale, Checking
<1>4. ASSUME Sweep(p) PROVE Fine(p)
  <2>1. /\ job[p].then \in {"judge", "enter", "open", "done"}
        /\ pc[p] = "sweep" /\ job' = job
    BY <1>4 DEF Given, Local, Keeps, Sweep
  <2>2. Typed' /\ OthersStay(p) /\ pc'[p] = job[p].then /\ job'[p] = job[p]
    BY <1>4, <2>1 DEF Given, Typed, OthersStay, Sweep, Goto, Control
  <2> QED
    BY <2>1, <2>2 DEF Given, Fine, Local, Knows, Keeps, At, Cmd
<1> QED
  BY <1>1, <1>2, <1>3, <1>4 DEF Marker

\* The steps of cmdThreadExec around the loop.
LEMMA ExecFine ==
  ASSUME NEW p, Given(p), ExecStep(p)
  PROVE  Fine(p)
<1>1. ASSUME EnterGone(p) PROVE Fine(p)
  BY <1>1, MoveFine DEF EnterGone, Plain, Control
<1>2. ASSUME Spawn(p) PROVE Fine(p)
  <2>1. "worker" \in AllCommands /\ "enter" \in Control
    BY DEF AllCommands, Runners, Control
  <2>2. [job[p] EXCEPT !.cmd = "worker"] \in Jobs
    BY <2>1 DEF Given, Typed, Jobs
  <2>3. pc' = [pc EXCEPT ![p] = "enter"]
    BY <1>2 DEF Spawn, Given, Typed
  <2>4. Typed' /\ OthersStay(p) /\ pc'[p] = "enter"
    BY <1>2, <2>1, <2>2, <2>3, UpdateTypes DEF Given, Spawn
  <2> QED
    BY <2>4 DEF Fine, Local, Knows, Keeps, At, Cmd
<1>3. ASSUME Enter(p) PROVE Fine(p)
  BY <1>3, MoveFine DEF Enter, Control
<1>4. ASSUME Mark(p) PROVE Fine(p)
  <2>1. "slot" \in Control /\ pc[p] = "mark" /\ Cmd(p) \in Runners
    BY <1>4 DEF Given, Local, Keeps, At, Mark, Control
  <2>2. [job[p] EXCEPT !.stamped = TRUE] \in Jobs
    BY DEF Given, Typed, Jobs
  <2>3. /\ Typed' /\ OthersStay(p) /\ pc'[p] = "slot"
        /\ job'[p] = [job[p] EXCEPT !.stamped = TRUE]
    BY <1>4, <2>1, <2>2, UpdateTypes DEF Given, Mark, Goto
  <2>4. job'[p].cmd = job[p].cmd
    BY <2>3 DEF Given, Typed, Jobs
  <2> QED
    BY <2>1, <2>3, <2>4 DEF Fine, Local, Knows, Keeps, At, Cmd
<1>5. ASSUME AcquireSlot(p) PROVE Fine(p)
  <2>1. "read" \in Control /\ pc[p] = "slot" /\ Cmd(p) \in Runners
    BY <1>5 DEF Given, Local, Keeps, At, AcquireSlot, Control
  <2>2. Typed' /\ OthersStay(p) /\ pc'[p] = "read" /\ job'[p] = job[p]
    BY <1>5, <2>1 DEF Given, Typed, OthersStay, AcquireSlot, Goto
  <2> QED
    BY <2>1, <2>2 DEF Fine, Local, Knows, Keeps, At, Cmd, Runners
<1>6. ASSUME ReleaseSlot(p) PROVE Fine(p)
  <2>1. "unmark" \in Control /\ pc[p] = "release" /\ Cmd(p) \in Runners
    BY <1>6 DEF Given, Local, Keeps, At, ReleaseSlot, Control
  <2>2. Typed' /\ OthersStay(p) /\ pc'[p] = "unmark" /\ job'[p] = job[p]
    BY <1>6, <2>1 DEF Given, Typed, OthersStay, ReleaseSlot, Goto
  <2> QED
    BY <2>1, <2>2 DEF Fine, Local, Knows, Keeps, At, Cmd
<1>7. ASSUME Unmark(p) PROVE Fine(p)
  <2>1. Typed' /\ OthersStay(p) /\ pc'[p] = "done" /\ job'[p] = job[p]
    BY <1>7 DEF Given, Typed, OthersStay, Unmark, Goto, Control
  <2> QED
    BY <2>1 DEF Fine, Local, Knows, Keeps, At, Cmd
<1> QED
  BY <1>1, <1>2, <1>3, <1>4, <1>5, <1>6, <1>7 DEF ExecStep

\* The entry as a process reads it.
LEMMA EntryRead ==
  ASSUME NEW p, Given(p), Entry # Null
  PROVE  /\ Entry \in Good /\ Entry \in Entries
         /\ Entry.head \in Heads /\ Entry.suspendedRole \in Roles \cup {Null}
<1>1. Entry \in Good
  BY EntryGood DEF Given, LifeInv
<1> QED
  BY <1>1 DEF Good, Entries

\* The steps of cmdThreadResume and cmdThreadPoke.
LEMMA ResumeFine ==
  ASSUME NEW p, Given(p), ResumeStep(p)
  PROVE  Fine(p)
<1>1. ASSUME OpenActive(p) PROVE Fine(p)
  <2>1. "recheck" \in Control /\ Entry \in Entries
    BY <1>1, EntryRead DEF OpenActive, Control
  <2>2. [job[p] EXCEPT !.seen = Entry] \in Jobs
    BY <2>1 DEF Given, Typed, Jobs
  <2>3. /\ Typed' /\ OthersStay(p) /\ pc'[p] = "recheck"
        /\ job'[p] = [job[p] EXCEPT !.seen = Entry]
    BY <1>1, <2>1, <2>2, UpdateTypes DEF Given, OpenActive, Goto
  <2>4. job'[p].seen = Entry
    BY <2>3 DEF Given, Typed, Jobs
  <2> QED
    BY <2>1, <2>3, <2>4 DEF Fine, Local, Knows, Keeps, At, Cmd
<1>2. ASSUME Reopen(p) PROVE Fine(p)
  <2> DEFINE e == [Entry EXCEPT !.status = "idle", !.completedAt = Null]
             j == [job[p] EXCEPT !.wr = e, !.then = "read", !.role = ResumeTarget]
  <2>1. /\ "remove" \in Control /\ "read" \in Control
        /\ ResumeTarget \in Roles /\ Cmd(p) = "resume"
    BY <1>2, LifecycleAssumption DEF Reopen, Control
  <2>2. e \in Good /\ e \in Entries
    BY <1>2, EntryRead, ConstructorsGood DEF Reopen, Good
  <2>3. pc' = [pc EXCEPT ![p] = "remove"] /\ job' = [job EXCEPT ![p] = j]
    BY <1>2 DEF Reopen, Given, Typed, Goto
  <2> HIDE DEF e
  <2>4. j \in Jobs
    BY <2>1, <2>2 DEF Given, Typed, Jobs
  <2>5. /\ j.wr = e /\ j.then = "read" /\ j.role = ResumeTarget
        /\ j.cmd = job[p].cmd
    BY DEF Given, Typed, Jobs
  <2> HIDE DEF j
  <2>6. Typed' /\ OthersStay(p) /\ pc'[p] = "remove" /\ job'[p] = j
    BY <2>1, <2>3, <2>4, UpdateTypes DEF Given
  <2> QED
    BY <2>1, <2>2, <2>5, <2>6
       DEF Fine, Local, Knows, Keeps, At, Cmd, Runners
<1>3. ASSUME Judge(p) PROVE Fine(p)
  <2>1. job[p].seen \in Entries /\ pc[p] = "judge"
    BY <1>3 DEF Judge, Given, Local, Knows, At
  <2>2. /\ job[p].seen.head \in Heads
        /\ job[p].seen.suspendedRole \in Roles \cup {Null}
    BY <2>1 DEF Entries
  <2>3. RoleToResume(p) \in Roles /\ "read" \in Control
    BY <1>3, <2>2, ChainFacts DEF Judge, RoleToResume, Asked, Control
  <2>4. [job[p] EXCEPT !.role = RoleToResume(p)] \in Jobs
    BY <2>3 DEF Given, Typed, Jobs
  <2>5. /\ Typed' /\ OthersStay(p) /\ pc'[p] = "read"
        /\ job'[p] = [job[p] EXCEPT !.role = RoleToResume(p)]
    BY <1>3, <2>3, <2>4, UpdateTypes DEF Given, Judge, Goto
  <2>6. job'[p].role = RoleToResume(p)
    BY <2>5 DEF Given, Typed, Jobs
  <2> QED
    BY <2>3, <2>5, <2>6 DEF Fine, Local, Knows, Keeps, At, Cmd
<1>4. ASSUME JudgeRefuses(p) PROVE Fine(p)
  BY <1>4, MoveFine DEF JudgeRefuses, Plain, Control
<1>5. ASSUME OpenPoke(p) PROVE Fine(p)
  <2>1. /\ "agent" \in Control /\ Entry \in Entries
        /\ Last(Entry.head).role \in Roles
    BY <1>5, EntryRead, ChainFacts DEF OpenPoke, Pokable, Control
  <2>2. [job[p] EXCEPT !.seen = Entry, !.role = Last(Entry.head).role] \in Jobs
    BY <2>1 DEF Given, Typed, Jobs
  <2>3. /\ pc' = [pc EXCEPT ![p] = "agent"]
        /\ job' = [job EXCEPT ![p] =
             [job[p] EXCEPT !.seen = Entry, !.role = Last(Entry.head).role]]
    BY <1>5 DEF OpenPoke, Given, Typed, Goto
  <2>4. /\ Typed' /\ OthersStay(p) /\ pc'[p] = "agent"
        /\ job'[p] = [job[p] EXCEPT !.seen = Entry, !.role = Last(Entry.head).role]
    BY <2>1, <2>2, <2>3, UpdateTypes DEF Given
  <2>5. job'[p].seen = Entry /\ job'[p].role = Last(Entry.head).role
    BY <2>4 DEF Given, Typed, Jobs
  <2> QED
    BY <2>1, <2>4, <2>5 DEF Fine, Local, Knows, Keeps, At, Cmd
<1>6. ASSUME OpenRefuses(p) PROVE Fine(p)
  BY <1>6, MoveFine DEF OpenRefuses, Plain, Control
<1> QED
  BY <1>1, <1>2, <1>3, <1>4, <1>5, <1>6 DEF ResumeStep

\* The steps of cmdThreadStepOnce before the agent runs.
LEMMA ReadFine ==
  ASSUME NEW p, Given(p),
         \/ ReadGone(p) \/ ReadResume(p) \/ ReadTarget(p)
         \/ ReadSuspended(p) \/ ReadEnd(p) \/ ReadStuck(p)
  PROVE  Fine(p)
<1>a. {"suspended", "end"} \subseteq Reports
  BY DEF Reports, Statuses
<1>1. ASSUME ReadGone(p) PROVE Fine(p)
  BY <1>1, QuitFacts, MoveFine DEF ReadGone, Plain
<1>2. ASSUME ReadResume(p) PROVE Fine(p)
  <2>1. /\ "agent" \in Control /\ Entry \in Entries
        /\ pc[p] = "read" /\ job[p].role \in Roles
    BY <1>2, EntryRead DEF ReadResume, Control, Given, Local, Knows, At, Cmd
  <2>2. [job[p] EXCEPT !.seen = Entry] \in Jobs
    BY <2>1 DEF Given, Typed, Jobs
  <2>3. /\ Typed' /\ OthersStay(p) /\ pc'[p] = "agent"
        /\ job'[p] = [job[p] EXCEPT !.seen = Entry]
    BY <1>2, <2>1, <2>2, UpdateTypes DEF Given, ReadResume, Goto
  <2>4. job'[p].seen = Entry /\ job'[p].role = job[p].role
    BY <2>3 DEF Given, Typed, Jobs
  <2> QED
    BY <2>1, <2>3, <2>4 DEF Fine, Local, Knows, Keeps, At, Cmd
<1>3. ASSUME ReadTarget(p) PROVE Fine(p)
  <2>1. /\ "agent" \in Control /\ Entry \in Entries
        /\ Target(Entry.head) \in Roles
    BY <1>3, EntryRead DEF ReadTarget, Control
  <2>2. [job[p] EXCEPT !.seen = Entry, !.role = Target(Entry.head)] \in Jobs
    BY <2>1 DEF Given, Typed, Jobs
  <2>3. /\ pc' = [pc EXCEPT ![p] = "agent"]
        /\ job' = [job EXCEPT ![p] =
             [job[p] EXCEPT !.seen = Entry, !.role = Target(Entry.head)]]
    BY <1>3 DEF ReadTarget, Given, Typed, Goto
  <2>4. /\ Typed' /\ OthersStay(p) /\ pc'[p] = "agent"
        /\ job'[p] = [job[p] EXCEPT !.seen = Entry, !.role = Target(Entry.head)]
    BY <2>1, <2>2, <2>3, UpdateTypes DEF Given
  <2>5. job'[p].seen = Entry /\ job'[p].role = Target(Entry.head)
    BY <2>4 DEF Given, Typed, Jobs
  <2> QED
    BY <2>1, <2>4, <2>5 DEF Fine, Local, Knows, Keeps, At, Cmd
<1>4. ASSUME ReadSuspended(p) PROVE Fine(p)
  <2> DEFINE e == markThreadSuspended(Entry, Last(Entry.head).role, "asked")
  <2>1. CASE Report(p, "suspended", Quit(p))
    BY <2>1, <1>a, QuitFacts, ReportFine DEF Plain
  <2>2. CASE Write(p, e, "suspended", Quit(p))
    <3>1. e \in Good
      BY <1>4, EntryRead, ConstructorsGood, ChainFacts
         DEF ReadSuspended, Messages, Asked
    <3> HIDE DEF e
    <3> QED
      BY <2>2, <3>1, <1>a, QuitFacts, WriteFine
  <2> QED
    BY <1>4, <2>1, <2>2 DEF ReadSuspended
<1>5. ASSUME ReadEnd(p) PROVE Fine(p)
  BY <1>5, <1>a, ReportFine DEF ReadEnd, Plain, Control
<1>6. ASSUME ReadStuck(p) PROVE Fine(p)
  BY <1>6, QuitFacts, MoveFine DEF ReadStuck, Plain
<1> QED
  BY <1>1, <1>2, <1>3, <1>4, <1>5, <1>6

\* The new head of a step is a chain.
LEMMA NewHeadFacts ==
  ASSUME NEW p, Given(p), pc[p] \in {"agent", "route", "failed"}
  PROVE  /\ job[p].role \in Roles
         /\ job[p].seen \in Entries /\ job[p].seen.head \in Heads
         /\ \A to \in Targets :
              Append(Base(p), [role |-> job[p].role, to |-> to]) \in Heads
<1>1. job[p].role \in Roles /\ job[p].seen \in Entries
  BY DEF Given, Local, Knows, At
<1>2. job[p].seen.head \in Heads
  BY <1>1 DEF Entries
<1> QED
  BY <1>1, <1>2, ChainFacts DEF Base

\* What EntryOr falls back on is as good as an entry.
LEMMA EntryOrRead ==
  ASSUME NEW p, Given(p), NEW head \in Heads
  PROVE  EntryOr(head) \in Entries
BY EntryRead, ConstructorsGood DEF EntryOr, Good

\* The ways the agent ends.
LEMMA AgentFine ==
  ASSUME NEW p, Given(p),
         \/ AgentDone(p) \/ AgentErrs(p) \/ AgentThrows(p) \/ Failed(p)
         \/ RouteSuspend(p) \/ RouteStuck(p) \/ RouteEnd(p)
         \/ RouteOn(p) \/ RouteStop(p)
  PROVE  Fine(p)
<1>a. {"suspended", "end", "idle", "failed"} \subseteq Reports
  BY DEF Reports, Statuses
<1>1. ASSUME AgentDone(p) PROVE Fine(p)
  <2>1. PICK to \in Targets :
          job' = [job EXCEPT
                   ![p].fresh = to,
                   ![p].wr = updateThreadHead(Entry,
                       Append(Base(p), [role |-> job[p].role, to |-> to])),
                   ![p].report = "idle",
                   ![p].then = IF Cmd(p) = "poke" THEN "done" ELSE "route"]
    BY <1>1, LifecycleAssumption DEF AgentDone
  <2> DEFINE e == updateThreadHead(Entry,
                      Append(Base(p), [role |-> job[p].role, to |-> to]))
             l == IF Cmd(p) = "poke" THEN "done" ELSE "route"
             j == [job[p] EXCEPT !.fresh = to, !.wr = e, !.report = "idle", !.then = l]
  <2>2. /\ job[p].role \in Roles /\ job[p].seen \in Entries
        /\ e \in Good /\ e \in Entries
    BY <1>1, NewHeadFacts, ConstructorsGood DEF AgentDone, updateThreadHead, Good
  <2>3. /\ pc' = [pc EXCEPT ![p] = "remove"]
        /\ job' = [job EXCEPT ![p] = j]
    BY <1>1, <2>1 DEF AgentDone, Goto, Given, Typed
  <2> HIDE DEF e
  <2>4. l \in Control /\ "remove" \in Control
    BY DEF Control
  <2>5. /\ l \in {"done", "route"}
        /\ Cmd(p) \in Runners => l = "route"
    BY DEF Runners
  <2> HIDE DEF l
  <2>6. j \in Jobs
    BY <2>2, <2>4, <1>a DEF Given, Typed, Jobs
  <2>7. /\ j.fresh = to /\ j.wr = e /\ j.then = l /\ j.cmd = job[p].cmd
        /\ j.role = job[p].role /\ j.seen = job[p].seen
    BY DEF Given, Typed, Jobs
  <2> HIDE DEF j
  <2>8. Typed' /\ OthersStay(p) /\ pc'[p] = "remove" /\ job'[p] = j
    BY <2>3, <2>4, <2>6, UpdateTypes DEF Given
  <2> QED
    BY <2>2, <2>5, <2>7, <2>8 DEF Fine, Local, Knows, Keeps, At, Cmd
<1>2. ASSUME AgentErrs(p) PROVE Fine(p)
  <2>1. CASE Cmd(p) = "poke"
    <3> DEFINE e == markThreadSuspended(job[p].seen, job[p].role, "failed")
    <3>1. e \in Good
      BY <1>2, NewHeadFacts, ConstructorsGood DEF AgentErrs, Messages
    <3>2. Write(p, e, "suspended", "done") /\ Cmd(p) \notin Runners
      BY <1>2, <2>1 DEF AgentErrs, Runners
    <3>3. "done" \in Control
      BY DEF Control
    <3> HIDE DEF e
    <3> QED
      BY <3>1, <3>2, <3>3, <1>a, WriteFine
  <2>2. CASE Cmd(p) # "poke"
    <3>1. /\ "failed" \in Control /\ At(p) = "agent"
          /\ Report(p, "suspended", "failed")
      BY <1>2, <2>2 DEF Control, At, AgentErrs
    <3> QED
      BY <3>1, <1>a, ReportFine
  <2> QED
    BY <2>1, <2>2
<1>3. ASSUME AgentThrows(p) PROVE Fine(p)
  BY <1>3, <1>a, QuitFacts, ReportFine DEF AgentThrows, Plain
<1>4. ASSUME Failed(p) PROVE Fine(p)
  <2> DEFINE e == markThreadSuspended(EntryOr(job[p].seen.head), job[p].role, "failed")
  <2>1. e \in Good
    BY <1>4, NewHeadFacts, EntryOrRead, ConstructorsGood DEF Failed, Messages
  <2>2. Write(p, e, job[p].report, Quit(p)) /\ job[p].report \in Reports
    BY <1>4 DEF Failed, Given, Typed, Jobs
  <2> HIDE DEF e
  <2> QED
    BY <2>1, <2>2, QuitFacts, WriteFine
<1>5. ASSUME RouteSuspend(p) PROVE Fine(p)
  <2> DEFINE e == markThreadSuspended(EntryOr(NewHead(p)), job[p].role, "asked")
  <2>1. job[p].fresh \in Targets
    BY <1>5 DEF RouteSuspend, Targets
  <2>2. e \in Good
    BY <1>5, <2>1, NewHeadFacts, EntryOrRead, ConstructorsGood
       DEF RouteSuspend, NewHead, Messages
  <2>3. Write(p, e, "suspended", Quit(p))
    BY <1>5 DEF RouteSuspend
  <2> HIDE DEF e
  <2> QED
    BY <2>2, <2>3, <1>a, QuitFacts, WriteFine
<1>6. ASSUME RouteStuck(p) PROVE Fine(p)
  <2>1. "failed" \in Control /\ At(p) = "route" /\ Report(p, "failed", "failed")
    BY <1>6 DEF Control, At, RouteStuck
  <2> QED
    BY <2>1, <1>a, ReportFine
<1>7. ASSUME RouteEnd(p) PROVE Fine(p)
  BY <1>7, <1>a, ReportFine DEF RouteEnd, Plain, Control
<1>8. ASSUME RouteOn(p) PROVE Fine(p)
  <2>1. /\ "read" \in Control /\ Cmd(p) \in Runners
        /\ job[p].left - 1 \in 0 .. MaxCount
    <3>1. job[p].left \in 0 .. MaxCount /\ job[p].left > 1
      BY <1>8 DEF RouteOn, Given, Typed, Jobs
    <3>2. MaxCount \in Nat
      BY LifecycleAssumption
    <3>3. job[p].left - 1 \in 0 .. MaxCount
      BY <3>1, <3>2
    <3> QED
      BY <1>8, <3>3 DEF RouteOn, Control
  <2>2. [job[p] EXCEPT !.left = job[p].left - 1] \in Jobs
    BY <2>1 DEF Given, Typed, Jobs
  <2>3. /\ Typed' /\ OthersStay(p) /\ pc'[p] = "read"
        /\ job'[p] = [job[p] EXCEPT !.left = job[p].left - 1]
    BY <1>8, <2>1, <2>2, UpdateTypes DEF Given, RouteOn, Goto
  <2>4. job'[p].cmd = job[p].cmd
    BY <2>3 DEF Given, Typed, Jobs
  <2> QED
    BY <2>1, <2>3, <2>4 DEF Fine, Local, Knows, Keeps, At, Cmd, Runners
<1>9. ASSUME RouteStop(p) PROVE Fine(p)
  BY <1>9, QuitFacts, MoveFine DEF RouteStop, Plain
<1> QED
  BY <1>1, <1>2, <1>3, <1>4, <1>5, <1>6, <1>7, <1>8, <1>9

\* archiveThread and the halves of setThread.
LEMMA StoreFine ==
  ASSUME NEW p, Given(p), StoreStep(p)
  PROVE  Fine(p)
<1>1. ASSUME ArchiveGone(p) PROVE Fine(p)
  BY <1>1, QuitFacts, MoveFine DEF ArchiveGone, Plain
<1>2. ASSUME Archive(p) PROVE Fine(p)
  <2> DEFINE reason == IF Cmd(p) = "cancel" THEN "cancelled" ELSE "end"
             e == markThreadCompleted(Entry, reason)
  <2>1. reason \in {"end", "cancelled"} /\ reason \in Reports
    BY DEF Reports, Statuses
  <2>2. e \in Good
    BY <1>2, <2>1, EntryRead, ConstructorsGood DEF Archive
  <2>3. Write(p, e, reason, Quit(p))
    BY <1>2 DEF Archive
  <2> HIDE DEF e, reason
  <2> QED
    BY <2>1, <2>2, <2>3, QuitFacts, WriteFine
<1>3. ASSUME Unset(p) PROVE Fine(p)
  <2>1. Typed' /\ OthersStay(p) /\ pc'[p] = "put" /\ job'[p] = job[p]
    BY <1>3 DEF Given, Typed, OthersStay, Unset, Goto, Control
  <2> QED
    BY <1>3, <2>1 DEF Given, Fine, Local, Knows, Keeps, At, Cmd, Unset
<1>4. ASSUME Set(p) PROVE Fine(p)
  <2>1. /\ job[p].then \in {"release", "route", "read", "done"}
        /\ job[p].then \in Control /\ pc[p] = "put"
    BY <1>4 DEF Given, Local, Keeps, Set, Control
  <2>2. [job[p] EXCEPT !.wr = Null] \in Jobs
    BY DEF Given, Typed, Jobs
  <2>3. /\ Typed' /\ OthersStay(p) /\ pc'[p] = job[p].then
        /\ job'[p] = [job[p] EXCEPT !.wr = Null]
    BY <1>4, <2>1, <2>2, UpdateTypes DEF Given, Set, Goto
  <2>4. /\ job'[p].cmd = job[p].cmd /\ job'[p].role = job[p].role
        /\ job'[p].seen = job[p].seen /\ job'[p].fresh = job[p].fresh
        /\ job'[p].then = job[p].then
    BY <2>3 DEF Given, Typed, Jobs
  <2> QED
    BY <2>1, <2>3, <2>4 DEF Given, Fine, Local, Knows, Keeps, At, Cmd
<1> QED
  BY <1>1, <1>2, <1>3, <1>4 DEF StoreStep

\* The steps of join, stop and cancel.
LEMMA StopFine ==
  ASSUME NEW p, Given(p), StopStep(p)
  PROVE  Fine(p)
<1>1. ASSUME Look(p) PROVE Fine(p)
  BY <1>1, MoveFine DEF Look, Plain, Control
<1>2. ASSUME LookGone(p) PROVE Fine(p)
  BY <1>2, MoveFine DEF LookGone, Plain, Control
<1>3. ASSUME Aim(p) PROVE Fine(p)
  <2>1. Typed' /\ OthersStay(p) /\ pc'[p] = "drop" /\ job'[p] = job[p]
    BY <1>3 DEF Given, Typed, OthersStay, Aim, Goto, Control
  <2> QED
    BY <2>1 DEF Fine, Local, Knows, Keeps, At, Cmd
<1>4. AfterStop(p) \in Plain /\ AfterStop(p) \in Control
  BY DEF AfterStop, Plain, Control
<1>5. ASSUME AimNothing(p) PROVE Fine(p)
  BY <1>4, <1>5, MoveFine DEF AimNothing
<1>6. ASSUME Drop(p) PROVE Fine(p)
  <2>1. Typed' /\ OthersStay(p) /\ pc'[p] = AfterStop(p) /\ job'[p] = job[p]
    BY <1>4, <1>6 DEF Given, Typed, OthersStay, Drop, Goto
  <2> QED
    BY <1>4, <2>1 DEF Fine, Local, Knows, Keeps, At, Cmd, Plain
<1> QED
  BY <1>1, <1>2, <1>3, <1>5, <1>6 DEF StopStep

\* The end and the beginning of a process.
LEMMA BareFine ==
  ASSUME NEW p, Given(p), NEW j \in Jobs, NEW l \in Plain \cap Control,
         pc' = [pc EXCEPT ![p] = l], job' = [job EXCEPT ![p] = j]
  PROVE  Fine(p)
<1>1. Typed' /\ OthersStay(p) /\ pc'[p] = l
  BY UpdateTypes DEF Given
<1> QED
  BY <1>1 DEF Fine, Local, Knows, Keeps, At, Cmd, Plain

\* A process that starts, exits or dies.
LEMMA EndsFine ==
  ASSUME NEW p, Given(p),
         \/ Exit(p) \/ Terminate(p) \/ Kill(p)
         \/ \E c \in Commands : Launch(p, c)
  PROVE  Fine(p)
<1>a. {"gone", "torn", "look", "open", "check"} \subseteq Plain \cap Control
  BY DEF Plain, Control
<1>1. ASSUME Exit(p) PROVE Fine(p)
  BY <1>a, <1>1, NoJobTyped, BareFine DEF Exit, Goto
<1>2. ASSUME NEW l \in {"gone", "torn"}, End(p, l) PROVE Fine(p)
  BY <1>a, <1>2, NoJobTyped, BareFine DEF End, Goto
<1>3. ASSUME NEW c \in Commands, Launch(p, c) PROVE Fine(p)
  <2>1. c \in AllCommands
    BY CommandsAssumption
  <2>2. PICK n \in 1 .. MaxCount :
          job' = [job EXCEPT ![p] = [NoJob EXCEPT !.cmd = c, !.left = n]]
    BY <1>3 DEF Launch
  <2>3. n \in 0 .. MaxCount
    OBVIOUS
  <2>4. [NoJob EXCEPT !.cmd = c, !.left = n] \in Jobs
    BY <2>1, <2>3, NoJobTyped DEF Jobs
  <2>5. \E l \in {"look", "open", "check"} : pc' = [pc EXCEPT ![p] = l]
    BY <1>3 DEF Launch, Goto, FirstOf
  <2> QED
    BY <1>a, <2>2, <2>4, <2>5, BareFine
<1>4. ASSUME Terminate(p) PROVE Fine(p)
  BY <1>2, <1>4 DEF Terminate, Die
<1>5. ASSUME Kill(p) PROVE Fine(p)
  BY <1>2, <1>5 DEF Kill, Die
<1> QED
  BY <1>1, <1>3, <1>4, <1>5

\* Every step of p keeps what p knows.
LEMMA StepFine ==
  ASSUME NEW p, Given(p),
         \/ Step(p) \/ Terminate(p) \/ Kill(p)
         \/ \E c \in Commands : Launch(p, c)
  PROVE  Fine(p)
BY MarkerFine, ExecFine, ResumeFine, ReadFine, AgentFine, StoreFine, StopFine,
   EndsFine DEF Step, StepOnce

-----------------------------------------------------------------------------
\* What a step does to the shared state.
AnyStep(p) ==
  \/ Step(p) \/ Terminate(p) \/ Kill(p)
  \/ \E c \in Commands : Launch(p, c)

\* Only setThread touches the thread.
LEMMA ThreadEffect ==
  ASSUME NEW p, AnyStep(p)
  PROVE  Unset(p) \/ Set(p) \/ UNCHANGED <<thread, written>>
<1> USE DEF shared, Move, Report, Write
<1>1. ASSUME Marker(p) PROVE UNCHANGED <<thread, written>>
  BY <1>1 DEF Marker, CheckFree, CheckBusy, CheckStale, Sweep
<1>2. ASSUME ExecStep(p) PROVE UNCHANGED <<thread, written>>
  BY <1>2 DEF ExecStep, EnterGone, Spawn, Enter, Mark, AcquireSlot,
              ReleaseSlot, Unmark
<1>3. ASSUME ResumeStep(p) PROVE UNCHANGED <<thread, written>>
  BY <1>3 DEF ResumeStep, OpenActive, Reopen, Judge, JudgeRefuses, OpenPoke,
              OpenRefuses
<1>4. ASSUME StepOnce(p) PROVE UNCHANGED <<thread, written>>
  BY <1>4 DEF StepOnce, ReadGone, ReadResume, ReadTarget, ReadSuspended,
              ReadEnd, ReadStuck, AgentDone, AgentErrs, AgentThrows, Failed,
              RouteSuspend, RouteStuck, RouteEnd, RouteOn, RouteStop
<1>5. ASSUME ArchiveGone(p) \/ Archive(p) PROVE UNCHANGED <<thread, written>>
  BY <1>5 DEF ArchiveGone, Archive
<1>6. ASSUME StopStep(p) \/ Exit(p) PROVE UNCHANGED <<thread, written>>
  BY <1>6 DEF StopStep, Look, LookGone, Aim, AimNothing, Drop, Exit
<1>7. ASSUME Terminate(p) \/ Kill(p) \/ \E c \in Commands : Launch(p, c)
      PROVE  UNCHANGED <<thread, written>>
  BY <1>7 DEF Terminate, Kill, Die, End, Launch
<1> QED
  BY <1>1, <1>2, <1>3, <1>4, <1>5, <1>6, <1>7 DEF AnyStep, Step, StoreStep

\* The marker is created by Mark, deleted by anybody, and nothing else.
LEMMA MarkerEffect ==
  ASSUME NEW p, AnyStep(p)
  PROVE  Mark(p) \/ marker' = NoProc \/ marker' = marker
<1> USE DEF shared, Move, Report, Write
<1>1. ASSUME Marker(p) PROVE marker' = NoProc \/ marker' = marker
  BY <1>1 DEF Marker, CheckFree, CheckBusy, CheckStale, Sweep
<1>2. ASSUME ExecStep(p) PROVE Mark(p) \/ marker' = NoProc \/ marker' = marker
  BY <1>2 DEF ExecStep, EnterGone, Spawn, Enter, AcquireSlot,
              ReleaseSlot, Unmark
<1>3. ASSUME ResumeStep(p) PROVE marker' = marker
  BY <1>3 DEF ResumeStep, OpenActive, Reopen, Judge, JudgeRefuses, OpenPoke,
              OpenRefuses
<1>4. ASSUME StepOnce(p) PROVE marker' = marker
  BY <1>4 DEF StepOnce, ReadGone, ReadResume, ReadTarget, ReadSuspended,
              ReadEnd, ReadStuck, AgentDone, AgentErrs, AgentThrows, Failed,
              RouteSuspend, RouteStuck, RouteEnd, RouteOn, RouteStop
<1>5. ASSUME StoreStep(p) PROVE marker' = marker
  BY <1>5 DEF StoreStep, ArchiveGone, Archive, Unset, Set
<1>6. ASSUME StopStep(p) \/ Exit(p) PROVE marker' = NoProc \/ marker' = marker
  BY <1>6 DEF StopStep, Look, LookGone, Aim, AimNothing, Drop, Exit
<1>7. ASSUME Terminate(p) \/ Kill(p) \/ \E c \in Commands : Launch(p, c)
      PROVE  marker' = marker
  BY <1>7 DEF Terminate, Kill, Die, End, Launch
<1> QED
  BY <1>1, <1>2, <1>3, <1>4, <1>5, <1>6, <1>7 DEF AnyStep, Step

\* A slot is taken or given back by the process itself; SIGTERM is sent to a
\* process by stop and cancel.
LEMMA OtherEffects ==
  ASSUME NEW p \in Proc, AnyStep(p), Typing
  PROVE  holders' \in SUBSET Proc /\ term' \in [Proc -> BOOLEAN]
<1> USE DEF shared, Move, Report, Write, Typing
<1>1. ASSUME Marker(p) PROVE holders' = holders /\ term' = term
  BY <1>1 DEF Marker, CheckFree, CheckBusy, CheckStale, Sweep
<1>2. ASSUME ExecStep(p) PROVE holders' \in SUBSET Proc /\ term' = term
  BY <1>2 DEF ExecStep, EnterGone, Spawn, Enter, Mark, AcquireSlot,
              ReleaseSlot, Unmark, Slots!Acquire, Slots!Release
<1>3. ASSUME ResumeStep(p) PROVE holders' = holders /\ term' = term
  BY <1>3 DEF ResumeStep, OpenActive, Reopen, Judge, JudgeRefuses, OpenPoke,
              OpenRefuses
<1>4. ASSUME StepOnce(p) PROVE holders' = holders /\ term' = term
  BY <1>4 DEF StepOnce, ReadGone, ReadResume, ReadTarget, ReadSuspended,
              ReadEnd, ReadStuck, AgentDone, AgentErrs, AgentThrows, Failed,
              RouteSuspend, RouteStuck, RouteEnd, RouteOn, RouteStop
<1>5. ASSUME StoreStep(p) PROVE holders' = holders /\ term' = term
  BY <1>5 DEF StoreStep, ArchiveGone, Archive, Unset, Set
<1>6. ASSUME StopStep(p) \/ Exit(p)
      PROVE  holders' = holders /\ term' \in [Proc -> BOOLEAN]
  BY <1>6 DEF StopStep, Look, LookGone, Aim, AimNothing, Drop, Exit
<1>7. ASSUME Terminate(p) \/ Kill(p) \/ \E c \in Commands : Launch(p, c)
      PROVE  holders' \in SUBSET Proc /\ term' \in [Proc -> BOOLEAN]
  BY <1>7 DEF Terminate, Kill, Die, End, Launch, Slots!Release
<1> QED
  BY <1>1, <1>2, <1>3, <1>4, <1>5, <1>6, <1>7 DEF AnyStep, Step

\* Only well-formed entries get into the index.
LEMMA StoredStep ==
  ASSUME NEW p, Given(p), AnyStep(p)
  PROVE  Stored'
<1>1. CASE Unset(p)
  BY <1>1 DEF Unset, Given, LifeInv, Stored
<1>2. CASE Set(p)
  <2>1. job[p].wr \in Good /\ job[p].wr \in Entries
    BY <1>2 DEF Given, Local, Knows, Set, Good
  <2> QED
    BY <1>2, <2>1 DEF Set, Given, LifeInv, Stored
<1>3. CASE UNCHANGED <<thread, written>>
  BY <1>3 DEF Given, LifeInv, Stored
<1> QED
  BY <1>1, <1>2, <1>3, ThreadEffect

\* A step that leaves the two halves of setThread is the second half or a death.
LEMMA KeptStep ==
  ASSUME NEW p, Given(p), AnyStep(p), Fine(p)
  PROVE  ThreadKept'
<1> SUFFICES ASSUME (Entry = Null)' PROVE \E q \in Proc : pc'[q] \in {"put", "torn"}
  BY DEF ThreadKept
<1>1. CASE Unset(p)
  BY <1>1 DEF Unset, Goto, Given, Typed
<1>2. CASE Set(p)
  <2>1. job[p].wr \in Good
    BY <1>2 DEF Given, Local, Knows, Set
  <2>2. thread' # {}
    BY <1>2 DEF Set
  <2>3. Stored'
    BY StoredStep
  <2>4. Entry' \in Good
    <3>1. (CHOOSE v \in thread' : TRUE) \in thread'
      BY <2>2
    <3>2. PICK e \in Good : (CHOOSE v \in thread' : TRUE) = variableOf(e)
      BY <2>3, <3>1 DEF Stored
    <3> QED
      BY <2>2, <3>2, RoundTrip DEF Entry, Good
  <2> QED
    BY <2>4, LifecycleAssumption DEF Good
<1>3. CASE UNCHANGED <<thread, written>> /\ ~Unset(p) /\ ~Set(p)
  <2>1. Entry = Null
    BY <1>3 DEF Entry
  <2>2. PICK q \in Proc : pc[q] \in {"put", "torn"}
    BY <2>1 DEF Given, LifeInv, ThreadKept
  <2>3. CASE q # p
    BY <2>2, <2>3 DEF Fine, OthersStay
  <2>4. CASE q = p
    <3>1. pc[p] \in {"put", "torn"}
      BY <2>2, <2>4
    <3>2. Terminate(p) \/ Kill(p)
      <4> USE <3>1 DEF Move
      <4>1. ~Marker(p)
        BY DEF Marker, CheckFree, CheckBusy, CheckStale, Sweep, Checking
      <4>2. ~ExecStep(p)
        BY DEF ExecStep, EnterGone, Spawn, Enter, Mark, AcquireSlot,
               ReleaseSlot, Unmark
      <4>3. ~ResumeStep(p)
        BY DEF ResumeStep, OpenActive, Reopen, Judge, JudgeRefuses,
               OpenPoke, OpenRefuses
      <4>4. ~StepOnce(p)
        BY DEF StepOnce, ReadGone, ReadResume, ReadTarget, ReadSuspended,
               ReadEnd, ReadStuck, AgentDone, AgentErrs, AgentThrows, Failed,
               RouteSuspend, RouteStuck, RouteEnd, RouteOn, RouteStop
      <4>5. ~ArchiveGone(p) /\ ~Archive(p)
        BY DEF ArchiveGone, Archive
      <4>6. ~StopStep(p) /\ ~Exit(p)
        BY DEF StopStep, Look, LookGone, Aim, AimNothing, Drop, Exit
      <4>7. ~\E c \in Commands : Launch(p, c)
        BY DEF Launch
      <4> QED
        BY <1>3, <4>1, <4>2, <4>3, <4>4, <4>5, <4>6, <4>7
           DEF AnyStep, Step, StoreStep
    <3>3. pc'[p] = "torn"
      BY <3>1, <3>2 DEF Terminate, Kill, Die, Alive, End, Goto, Given, Typed
    <3> QED
      BY <3>3 DEF Given
  <2> QED
    BY <2>3, <2>4
<1> QED
  BY <1>1, <1>2, <1>3, ThreadEffect

\* A runner stays on its way from mark to unmark until it deletes its marker or
\* dies.
LEMMA MarkedStays ==
  ASSUME NEW p, Given(p), Step(p), marker' = p,
         Cmd(p) \in Runners, pc[p] \in Marked
  PROVE  job'[p].cmd = job[p].cmd /\ pc'[p] \in Marked
<1> USE DEF Move, Marked, Given, Typed, Goto
<1>0. pc[p] \notin {"check", "recheck", "sweep", "enter", "mark", "open",
                    "judge", "look", "aim", "drop", "done"}
  OBVIOUS
<1>1. ~Marker(p)
  BY <1>0 DEF Marker, CheckFree, CheckBusy, CheckStale, Sweep, Checking
<1>2. ASSUME ExecStep(p) PROVE job'[p].cmd = job[p].cmd /\ pc'[p] \in Marked
  <2>1. ~EnterGone(p) /\ ~Spawn(p) /\ ~Enter(p) /\ ~Mark(p)
    BY <1>0 DEF EnterGone, Spawn, Enter, Mark
  <2>2. ~Unmark(p)
    BY LifecycleAssumption DEF Unmark
  <2> QED
    BY <1>2, <2>1, <2>2 DEF ExecStep, AcquireSlot, ReleaseSlot
<1>3. ~ResumeStep(p)
  BY <1>0 DEF ResumeStep, OpenActive, Reopen, Judge, JudgeRefuses, OpenPoke,
              OpenRefuses
<1>4. Quit(p) = "release" /\ Cmd(p) # "resume" /\ Cmd(p) # "poke"
  BY DEF Quit, Runners
<1>5. ASSUME NEW r, NEW l \in {"release", "archive", "failed"}, Report(p, r, l)
      PROVE  job'[p].cmd = job[p].cmd /\ pc'[p] \in Marked
  BY <1>5 DEF Report, Jobs
<1>6. ASSUME NEW e, NEW r, NEW l, Write(p, e, r, l)
      PROVE  job'[p].cmd = job[p].cmd /\ pc'[p] \in Marked
  BY <1>6 DEF Write, Jobs
<1>7. ASSUME StepOnce(p) PROVE job'[p].cmd = job[p].cmd /\ pc'[p] \in Marked
  <2>1. ASSUME ReadGone(p) \/ ReadStuck(p) \/ RouteStop(p)
        PROVE  job'[p].cmd = job[p].cmd /\ pc'[p] \in Marked
    BY <2>1, <1>4 DEF ReadGone, ReadStuck, RouteStop
  <2>2. ASSUME ReadTarget(p)
        PROVE  job'[p].cmd = job[p].cmd /\ pc'[p] \in Marked
    BY <2>2 DEF ReadTarget, Jobs
  <2>3. ASSUME RouteOn(p)
        PROVE  job'[p].cmd = job[p].cmd /\ pc'[p] \in Marked
    BY <2>3 DEF RouteOn, Jobs
  <2>4. ASSUME AgentDone(p)
        PROVE  job'[p].cmd = job[p].cmd /\ pc'[p] \in Marked
    BY <2>4 DEF AgentDone, Jobs
  <2>5. ASSUME ReadSuspended(p)
        PROVE  job'[p].cmd = job[p].cmd /\ pc'[p] \in Marked
    BY <2>5, <1>4, <1>5, <1>6 DEF ReadSuspended
  <2>6. ASSUME ReadEnd(p) \/ RouteEnd(p) \/ RouteStuck(p)
        PROVE  job'[p].cmd = job[p].cmd /\ pc'[p] \in Marked
    BY <2>6, <1>5 DEF ReadEnd, RouteEnd, RouteStuck
  <2>7. ASSUME AgentErrs(p) \/ AgentThrows(p)
        PROVE  job'[p].cmd = job[p].cmd /\ pc'[p] \in Marked
    BY <2>7, <1>4, <1>5 DEF AgentErrs, AgentThrows
  <2>8. ASSUME Failed(p) \/ RouteSuspend(p)
        PROVE  job'[p].cmd = job[p].cmd /\ pc'[p] \in Marked
    BY <2>8, <1>6 DEF Failed, RouteSuspend
  <2>9. ~ReadResume(p)
    BY <1>4 DEF ReadResume
  <2> QED
    BY <1>7, <2>1, <2>2, <2>3, <2>4, <2>5, <2>6, <2>7, <2>8, <2>9 DEF StepOnce
<1>8. ASSUME StoreStep(p) PROVE job'[p].cmd = job[p].cmd /\ pc'[p] \in Marked
  <2>1. ASSUME ArchiveGone(p)
        PROVE  job'[p].cmd = job[p].cmd /\ pc'[p] \in Marked
    BY <2>1, <1>4 DEF ArchiveGone
  <2>2. ASSUME Archive(p) PROVE job'[p].cmd = job[p].cmd /\ pc'[p] \in Marked
    BY <2>2, <1>6 DEF Archive
  <2>3. ASSUME Unset(p) PROVE job'[p].cmd = job[p].cmd /\ pc'[p] \in Marked
    BY <2>3 DEF Unset
  <2>4. ASSUME Set(p) PROVE job'[p].cmd = job[p].cmd /\ pc'[p] \in Marked
    <3>1. job[p].then \in {"release", "route"}
      BY <2>4 DEF Local, Keeps, Set
    <3> QED
      BY <2>4, <3>1 DEF Set, Jobs
  <2> QED
    BY <1>8, <2>1, <2>2, <2>3, <2>4 DEF StoreStep
<1>9. ~StopStep(p) /\ ~Exit(p)
  BY <1>0 DEF StopStep, Look, LookGone, Aim, AimNothing, Drop, Exit
<1> QED
  BY <1>1, <1>2, <1>3, <1>7, <1>8, <1>9 DEF Step

\* A process has no marker of its own before it creates one.
LEMMA StampEffect ==
  ASSUME NEW p \in Proc, Given(p), AnyStep(p), ~Mark(p), job'[p].stamped
  PROVE  job[p].stamped /\ ~\E c \in Commands : Launch(p, c)
<1> USE DEF Move, Given, Typed, Jobs
<1>1. ~\E c \in Commands : Launch(p, c)
  BY DEF Launch, NoJob
<1>2. ASSUME NEW r, NEW l, Report(p, r, l) PROVE job[p].stamped
  BY <1>2 DEF Report
<1>3. ASSUME NEW e, NEW r, NEW l, Write(p, e, r, l) PROVE job[p].stamped
  BY <1>3 DEF Write
<1>4. ASSUME Marker(p) PROVE job[p].stamped
  BY <1>4 DEF Marker, CheckFree, CheckBusy, CheckStale, Sweep
<1>5. ASSUME ExecStep(p) PROVE job[p].stamped
  BY <1>5 DEF ExecStep, EnterGone, Spawn, Enter, AcquireSlot, ReleaseSlot, Unmark
<1>6. ASSUME ResumeStep(p) PROVE job[p].stamped
  BY <1>6 DEF ResumeStep, OpenActive, Reopen, Judge, JudgeRefuses, OpenPoke,
              OpenRefuses
<1>7. ASSUME StepOnce(p) PROVE job[p].stamped
  <2>1. ASSUME \/ ReadGone(p) \/ ReadResume(p) \/ ReadTarget(p) \/ ReadStuck(p)
               \/ RouteOn(p) \/ RouteStop(p)
        PROVE  job[p].stamped
    BY <2>1 DEF ReadGone, ReadResume, ReadTarget, ReadStuck, RouteOn, RouteStop
  <2>2. ASSUME AgentDone(p) PROVE job[p].stamped
    BY <2>2 DEF AgentDone
  <2>3. ASSUME \/ ReadSuspended(p) \/ ReadEnd(p) \/ AgentErrs(p) \/ AgentThrows(p)
               \/ Failed(p) \/ RouteSuspend(p) \/ RouteStuck(p) \/ RouteEnd(p)
        PROVE  job[p].stamped
    BY <2>3, <1>2, <1>3 DEF ReadSuspended, ReadEnd, AgentErrs, AgentThrows, Failed,
                            RouteSuspend, RouteStuck, RouteEnd
  <2> QED
    BY <1>7, <2>1, <2>2, <2>3 DEF StepOnce
<1>8. ASSUME StoreStep(p) PROVE job[p].stamped
  BY <1>8, <1>3 DEF StoreStep, ArchiveGone, Archive, Unset, Set
<1>9. ASSUME StopStep(p) PROVE job[p].stamped
  BY <1>9 DEF StopStep, Look, LookGone, Aim, AimNothing, Drop
<1>10. ~Exit(p) /\ ~Terminate(p) /\ ~Kill(p)
  BY DEF Exit, Terminate, Kill, Die, End, NoJob
<1> QED
  BY <1>1, <1>4, <1>5, <1>6, <1>7, <1>8, <1>9, <1>10 DEF AnyStep, Step

\* Only Mark names a process in the marker, and only a runner takes it.
LEMMA MarksStep ==
  ASSUME NEW p, Given(p), AnyStep(p), Fine(p)
  PROVE  MarksRunner'
<1> SUFFICES ASSUME NEW q \in Proc, marker' = q, Alive(q)', job'[q].stamped
             PROVE  job'[q].cmd \in Runners /\ pc'[q] \in Marked
  BY DEF MarksRunner, Cmd
<1>1. CASE Mark(p)
  <2>1. /\ marker' = p /\ pc'[p] = "slot" /\ pc[p] = "mark"
        /\ job'[p] = [job[p] EXCEPT !.stamped = TRUE]
    BY <1>1 DEF Mark, Goto, Given, Typed
  <2>2. job'[p].cmd = job[p].cmd
    BY <2>1 DEF Given, Typed, Jobs
  <2> QED
    BY <2>1, <2>2 DEF Given, Local, Keeps, At, Cmd, Marked
<1>2. CASE ~Mark(p)
  <2>1. marker = q
    BY <1>2, MarkerEffect, LifecycleAssumption
  <2>2. CASE q # p
    BY <2>1, <2>2 DEF Fine, OthersStay, Given, LifeInv, MarksRunner, Cmd, Alive
  <2>3. CASE q = p
    <3>1. CASE Alive(p)
      <4>2. ~Terminate(p) /\ ~Kill(p)
        BY <2>3 DEF Terminate, Kill, Die, End, Goto, Given, Typed, Alive
      <4>1. Cmd(p) \in Runners /\ pc[p] \in Marked
        <5>1. job[p].stamped
          BY <1>2, <2>3, <4>2, StampEffect DEF AnyStep, Given
        <5> QED
          BY <2>1, <2>3, <3>1, <5>1 DEF Given, LifeInv, MarksRunner
      <4>3. ~\E c \in Commands : Launch(p, c)
        BY <3>1 DEF Launch, Alive
      <4> QED
        BY <2>3, <4>1, <4>2, <4>3, MarkedStays DEF AnyStep, Cmd
    <3>2. CASE ~Alive(p)
      <4> USE DEF Move
      <4>1. pc[p] \in {"gone", "torn"}
        BY <3>2 DEF Alive
      <4>2. ~\E c \in Commands : Launch(p, c)
        BY <1>2, <2>3, StampEffect DEF Given
      <4>3. ~Terminate(p) /\ ~Kill(p)
        BY <3>2, <4>1 DEF Terminate, Kill, Die
      <4>4. ~Marker(p) /\ ~ExecStep(p)
        BY <4>1 DEF Marker, CheckFree, CheckBusy, CheckStale, Sweep, Checking,
                    ExecStep, EnterGone, Spawn, Enter, Mark, AcquireSlot,
                    ReleaseSlot, Unmark
      <4>5. ~ResumeStep(p) /\ ~StepOnce(p)
        BY <4>1 DEF ResumeStep, OpenActive, Reopen, Judge, JudgeRefuses,
                    OpenPoke, OpenRefuses, StepOnce, ReadGone, ReadResume,
                    ReadTarget, ReadSuspended, ReadEnd, ReadStuck, AgentDone,
                    AgentErrs, AgentThrows, Failed, RouteSuspend, RouteStuck,
                    RouteEnd, RouteOn, RouteStop
      <4>6. ~StoreStep(p) /\ ~StopStep(p) /\ ~Exit(p)
        BY <4>1 DEF StoreStep, ArchiveGone, Archive, Unset, Set, StopStep, Look,
                    LookGone, Aim, AimNothing, Drop, Exit
      <4> QED
        BY <4>2, <4>3, <4>4, <4>5, <4>6 DEF AnyStep, Step
    <3> QED
      BY <3>1, <3>2
  <2> QED
    BY <2>2, <2>3
<1> QED
  BY <1>1, <1>2

-----------------------------------------------------------------------------
\* The invariant holds when the thread has been created.
LEMMA InitInv == Init => LifeInv
<1> SUFFICES ASSUME Init PROVE LifeInv
  OBVIOUS
<1> USE DEF Init
<1>1. <<>> \in Heads
  BY DEF Heads
<1>2. written \in Good
  BY <1>1, ConstructorsGood
<1>3. Typing
  BY NoJobTyped DEF Typing, Slots!InitPool, Control
<1>4. Stored
  BY <1>2 DEF Stored, Good
<1>5. \A p \in Proc : Knows(p) /\ Keeps(p)
  BY DEF Knows, Keeps, At
<1>6. MarksRunner
  BY DEF MarksRunner, Alive
<1>7. ThreadKept
  <2>1. Entry = entryFromVariable(variableOf(written))
    BY DEF Entry
  <2>2. Entry = written /\ written # Null
    BY <1>2, <2>1, RoundTrip, LifecycleAssumption DEF Good
  <2> QED
    BY <2>2 DEF ThreadKept
<1> QED
  BY <1>3, <1>4, <1>5, <1>6, <1>7 DEF LifeInv

\* Every step preserves the invariant.
LEMMA Inductive == LifeInv /\ [Next]_vars => LifeInv'
<1> SUFFICES ASSUME LifeInv, [Next]_vars PROVE LifeInv'
  OBVIOUS
<1>1. ASSUME NEW p \in Proc, AnyStep(p) PROVE LifeInv'
  <2>1. Given(p)
    BY DEF Given, LifeInv, Typing, Typed, Local
  <2>2. Fine(p)
    BY <1>1, <2>1, StepFine DEF AnyStep
  <2>3. \A q \in Proc : (Knows(q) /\ Keeps(q))'
    <3>1. ASSUME NEW q \in Proc, q # p PROVE (Knows(q) /\ Keeps(q))'
      BY <2>2, <3>1 DEF Fine, OthersStay, LifeInv, Knows, Keeps, At, Cmd
    <3> QED
      BY <2>2, <3>1 DEF Fine, Local
  <2>4. Typing'
    <3>1. holders' \in SUBSET Proc /\ term' \in [Proc -> BOOLEAN]
      BY <1>1, OtherEffects DEF LifeInv
    <3>2. marker' \in Proc \cup {NoProc}
      BY <1>1, MarkerEffect DEF LifeInv, Typing, Mark
    <3> QED
      BY <2>2, <3>1, <3>2 DEF Fine, Typed, Typing
  <2> QED
    BY <1>1, <2>1, <2>2, <2>3, <2>4, StoredStep, KeptStep, MarksStep DEF LifeInv
<1>2. ASSUME UNCHANGED vars PROVE LifeInv'
  BY <1>2 DEF vars, LifeInv, Typing, Stored, Knows, Keeps, At, Cmd,
              MarksRunner, Alive, ThreadKept, Entry
<1> QED
  BY <1>1, <1>2 DEF Next, AnyStep

\* The invariant holds throughout.
LEMMA Invariance == Spec => []LifeInv
BY InitInv, Inductive, PTL DEF Spec

\* Every variable keeps its type.
THEOREM WellTyped == Spec => []TypeOK
<1>1. LifeInv => TypeOK
  BY RoundTrip DEF LifeInv, Typing, Stored, TypeOK, Good
<1> QED
  BY <1>1, Invariance, PTL

\* No interleaving of commands, and no death of one of them, leaves an entry
\* whose status and metadata disagree.
THEOREM EntriesStayWellFormed == Spec => []EntryWellFormed
<1>1. LifeInv => EntryWellFormed
  BY EntryGood DEF LifeInv, EntryWellFormed, Good
<1> QED
  BY <1>1, Invariance, PTL

\* A marker that passes isMarkerValid names an exec that has created its marker
\* and not yet deleted it.
THEOREM MarkersAreTrusted == Spec => []MarkerTrusted
<1>1. LifeInv => MarkerTrusted
  BY DEF LifeInv, Typing, MarksRunner, MarkerTrusted, MarkerValid, Marked
<1> QED
  BY <1>1, Invariance, PTL

\* A thread disappears only inside setThread, or with a process killed there.
THEOREM ThreadsAreKept == Spec => []ThreadKept
<1>1. LifeInv => ThreadKept
  BY DEF LifeInv
<1> QED
  BY <1>1, Invariance, PTL

-----------------------------------------------------------------------------
(* One command at a time.                                                  *)

\* The role that a thread with this head is, or was last, run in.
RoleFits(head, role) ==
    \/ role = RoleDue(head)
    \/ head # <<>> /\ role = Last(head).role

Fits(entry) ==
    /\ entry.status = "end" => Target(entry.head) = END
    /\ entry.status = "suspended" => RoleFits(entry.head, entry.suspendedRole)

\* The variable is there, as it was written last.
Present == thread = {variableOf(written)}

\* What a command relies on before its step,
Reads(p) ==
    /\ pc[p] \in {"look", "check", "open", "enter", "sweep"} => job[p].report = Null
    /\ pc[p] \in {"mark", "slot", "aim", "drop"} => Present /\ job[p].report = Null
    /\ At(p) \in {"recheck", "judge"} =>
        Present /\ job[p].seen = written /\ job[p].report = Null

\* from its step to its exit,
Works(p) ==
    /\ pc[p] = "read" =>
        /\ Present /\ job[p].report \in {Null, written.status}
        /\ Cmd(p) = "resume" => RoleFits(written.head, job[p].role)
    /\ pc[p] = "agent" =>
        /\ Present /\ job[p].seen = written /\ RoleFits(written.head, job[p].role)
        /\ Cmd(p) = "poke" => written.head # <<>> /\ job[p].role = Last(written.head).role
    /\ pc[p] = "failed" =>
        /\ Present /\ RoleFits(written.head, job[p].role)
        /\ job[p].report \in {"suspended", "failed"}
    /\ pc[p] = "route" =>
        /\ Present /\ job[p].report = written.status
        /\ written.head # <<>>
        /\ Last(written.head) = [role |-> job[p].role, to |-> job[p].fresh]
    /\ pc[p] = "archive" =>
        Present /\ (Cmd(p) # "cancel" => Target(written.head) = END)
    /\ pc[p] \in {"release", "unmark", "done"} /\ job[p].report \in Statuses =>
        Present /\ job[p].report = written.status

\* and in the two halves of a write.
Writing(j) ==
    /\ Extends(written.head, j.wr.head) /\ Fits(j.wr)
    /\ j.then = "read" => j.report = Null /\ RoleFits(j.wr.head, j.role)
    /\ j.then = "route" =>
        /\ j.report = j.wr.status
        /\ j.wr.head # <<>> /\ Last(j.wr.head) = [role |-> j.role, to |-> j.fresh]
    /\ j.then \in {"release", "done"} /\ j.report \in Statuses => j.report = j.wr.status

Writes(p) ==
    /\ pc[p] = "remove" => Present
    /\ pc[p] = "put" => thread = {}
    /\ pc[p] \in {"remove", "put"} => Writing(job[p])

\* A bystander neither writes nor reports a status.
Stands(p) ==
    /\ \/ pc[p] \in {"look", "check", "open", "recheck", "aim", "drop", "done"}
       \/ pc[p] = "sweep" /\ job[p].then \in {"open", "done"}
    /\ job[p].report = Null

Settled(p) ==
    IF Cmd(p) \in Bystanders THEN Stands(p) ELSE Reads(p) /\ Works(p) /\ Writes(p)

Alone ==
    \A p, q \in Proc :
        Alive(p) /\ Alive(q) /\ p # q => Cmd(p) \in Bystanders \/ Cmd(q) \in Bystanders

SerialInv ==
    /\ thread = {} \/ Present
    /\ Fits(written)
    /\ Alone
    /\ \A p \in Proc : Alive(p) => Settled(p)

-----------------------------------------------------------------------------
\* The new head of a step goes on from the old one.
LEMMA AppendFacts ==
  ASSUME NEW head \in Heads, NEW step \in Steps
  PROVE  /\ Append(head, step) # <<>>
         /\ Front(Append(head, step)) = head
         /\ Last(Append(head, step)) = step
<1> DEFINE new == Append(head, step)
           front == SubSeq(new, 1, Len(head))
<1>1. /\ new \in Seq(Steps) /\ Len(head) \in Nat /\ Len(new) = Len(head) + 1
      /\ \A i \in 1 .. Len(head) : new[i] = head[i]
      /\ new[Len(head) + 1] = step
  BY DEF Heads
<1>2. front \in Seq(Steps) /\ Len(front) = Len(head)
      /\ \A i \in 1 .. Len(head) : front[i] = new[i]
  BY <1>1
<1>3. front = head
  BY <1>1, <1>2 DEF Heads
<1> QED
  BY <1>1, <1>3 DEF Front, Last

\* While the variable is there, every reader gets the entry written last.
LEMMA EntryIs ==
  ASSUME NEW p, Given(p)
  PROVE  /\ Present => /\ Entry = written /\ Entry # Null
                       /\ written \in Good /\ written \in Entries
                       /\ written.head \in Heads /\ Front(written.head) \in Heads
                       /\ \A head : EntryOr(head) = written
         /\ thread = {} => Entry = Null
<1>1. ASSUME Present PROVE Entry = written /\ Entry # Null
  <2>1. Entry = entryFromVariable(variableOf(written))
    BY <1>1 DEF Present, Entry
  <2>2. written \in Entries
    BY DEF Given, LifeInv, Stored
  <2> QED
    BY <2>1, <2>2, RoundTrip, LifecycleAssumption
<1>2. thread = {} => Entry = Null
  BY DEF Entry
<1> QED
  BY <1>1, <1>2, EntryRead, ChainFacts DEF EntryOr

-----------------------------------------------------------------------------
\* A step of a live process that leaves the variable alone.
Going(p) == Given(p) /\ SerialInv /\ Alive(p)

Goes(p) ==
    /\ Cmd(p)' \in Bystanders <=> Cmd(p) \in Bystanders
    /\ Settled(p)'

\* Only a command that may write gets to the places of one.
LEMMA Actives ==
  ASSUME NEW p, Going(p),
         \/ pc[p] \in {"enter", "mark", "slot", "judge", "read", "agent", "failed", "route",
                       "archive", "remove", "put", "release", "unmark"}
         \/ Cmd(p) \notin Bystanders
  PROVE  Cmd(p) \notin Bystanders /\ Reads(p) /\ Works(p) /\ Writes(p)
BY DEF Going, Given, SerialInv, Settled, Stands

\* Moving on without news.
LEMMA MovesOn ==
  ASSUME NEW p, Going(p), NEW from, NEW to \in Control, Move(p, from, to),
         from \notin {"remove", "put", "sweep"},
         \/ to \in {"look", "check", "open", "enter"} /\ job[p].report = Null
         \/ to \in {"mark", "slot", "aim", "drop"} /\ Present /\ job[p].report = Null
         \/ to = "judge" /\ Present /\ job[p].seen = written /\ job[p].report = Null
         \/ to = "archive" /\ Present /\ Cmd(p) = "cancel"
         \/ to \in {"release", "unmark", "done"} /\ job[p].report \in {Null, written.status}
            /\ (job[p].report # Null => Present),
         Cmd(p) \in Bystanders =>
            to \in {"look", "check", "open", "aim", "drop", "done"} /\ job[p].report = Null
  PROVE  Goes(p)
<1>1. pc'[p] = to /\ job'[p] = job[p]
  BY MoveTypes DEF Going, Given
<1>2. UNCHANGED <<thread, written>>
  BY DEF Move, shared
<1>3. Null \notin Statuses
  BY LifecycleAssumption
<1> QED
  BY <1>1, <1>2, <1>3 DEF Goes, Settled, Stands, Reads, Works, Writes, At, Cmd, Present

LEMMA MarkerGoes ==
  ASSUME NEW p, Going(p), Marker(p)
  PROVE  Goes(p)
<1> USE DEF Going
<1>1. /\ Checking(p) => job[p].report = Null
      /\ pc[p] = "recheck" /\ Cmd(p) \notin Bystanders => Present /\ job[p].seen = written
  BY DEF SerialInv, Settled, Stands, Reads, At, Checking, Given
<1>2. /\ Cleared(p) \in {"judge", "enter", "open", "done"}
      /\ Cleared(p) = "judge" => pc[p] = "recheck" /\ Cmd(p) = "resume"
      /\ Cmd(p) \in Bystanders => Cleared(p) \in {"open", "done"}
  BY DEF Cleared, Bystanders
<1>3. ASSUME CheckFree(p) PROVE Goes(p)
  <2>1. Move(p, pc[p], Cleared(p)) /\ pc[p] \notin {"remove", "put", "sweep"} /\ Checking(p)
    BY <1>3 DEF CheckFree, Move, Checking
  <2>2. Cleared(p) \in Control
    BY <1>2 DEF Control
  <2>3. Cleared(p) = "judge" => Present /\ job[p].seen = written
    BY <1>1, <1>2 DEF Bystanders
  <2> HIDE DEF Going
  <2> QED
    BY <1>1, <1>2, <2>1, <2>2, <2>3, MovesOn
<1>4. ASSUME CheckBusy(p) PROVE Goes(p)
  <2>1. Move(p, pc[p], "done") /\ pc[p] \notin {"remove", "put", "sweep"} /\ Checking(p)
    BY <1>4 DEF CheckBusy, Checking, Move
  <2>2. "done" \in Control
    BY DEF Control
  <2> HIDE DEF Going
  <2> QED
    BY <1>1, <2>1, <2>2, MovesOn
<1>5. ASSUME CheckStale(p) PROVE Goes(p)
  <2>1. /\ pc'[p] = "sweep" /\ job'[p] = [job[p] EXCEPT !.then = Cleared(p)]
        /\ UNCHANGED <<thread, written>> /\ Checking(p)
    BY <1>5 DEF CheckStale, Goto, Given, Typed, shared
  <2>2. /\ job'[p].then = Cleared(p) /\ job'[p].cmd = job[p].cmd
        /\ job'[p].seen = job[p].seen /\ job'[p].report = job[p].report
    BY <2>1 DEF Given, Typed, Jobs
  <2>3. Cleared(p) = "judge" => Present /\ job[p].seen = written
    BY <1>1, <1>2 DEF Bystanders
  <2> QED
    BY <1>1, <1>2, <2>1, <2>2, <2>3
       DEF Goes, Settled, Stands, Reads, Works, Writes, At, Cmd, Present
<1>6. ASSUME Sweep(p) PROVE Goes(p)
  <2>1. /\ job[p].then \in {"judge", "enter", "open", "done"} /\ pc[p] = "sweep"
        /\ job' = job /\ pc'[p] = job[p].then /\ UNCHANGED <<thread, written>>
    BY <1>6 DEF Given, Local, Keeps, Sweep, Goto, Typed
  <2>2. Null \notin Statuses /\ Settled(p)
    BY LifecycleAssumption DEF SerialInv, Given
  <2> QED
    BY <2>1, <2>2 DEF Goes, Settled, Stands, Reads, Works, Writes, At, Cmd, Present
<1> QED
  BY <1>3, <1>4, <1>5, <1>6 DEF Marker

LEMMA ExecGoes ==
  ASSUME NEW p, Going(p), ExecStep(p)
  PROVE  Goes(p)
<1>1. Cmd(p) \notin Bystanders /\ Reads(p) /\ Works(p) /\ Writes(p)
  BY Actives DEF Going, ExecStep, EnterGone, Spawn, Enter, Mark, AcquireSlot, ReleaseSlot, Unmark, Move
<1>2. (Present <=> Entry # Null) /\ (thread = {} <=> Entry = Null) /\ Null \notin Statuses
  BY EntryIs, LifecycleAssumption DEF Going, SerialInv
<1> USE DEF Going
<1>3. ASSUME EnterGone(p) PROVE Goes(p)
  <2>1. Move(p, "enter", "done") /\ job[p].report = Null /\ "done" \in Control
    BY <1>1, <1>3 DEF EnterGone, Move, Reads, Control
  <2> HIDE DEF Going
  <2> QED
    BY <1>1, <2>1, MovesOn
<1>4. ASSUME Enter(p) PROVE Goes(p)
  <2>1. Move(p, "enter", "mark") /\ job[p].report = Null /\ "mark" \in Control
    BY <1>1, <1>4 DEF Enter, Move, Reads, Control
  <2>2. Present
    BY <1>2, <1>4 DEF Enter
  <2> HIDE DEF Going
  <2> QED
    BY <1>1, <2>1, <2>2, MovesOn
<1>5. ASSUME Spawn(p) PROVE Goes(p)
  <2>1. /\ pc[p] = "enter" /\ pc' = pc /\ job'[p] = [job[p] EXCEPT !.cmd = "worker"]
        /\ UNCHANGED <<thread, written>>
    BY <1>5 DEF Spawn, Given, Typed, shared
  <2>2. job'[p].cmd = "worker" /\ job'[p].report = job[p].report
    BY <2>1 DEF Given, Typed, Jobs
  <2> QED
    BY <1>1, <2>1, <2>2 DEF Goes, Settled, Reads, Works, Writes, At, Cmd, Present, Bystanders
<1>6. ASSUME NEW from \in {"mark", "slot", "release", "unmark"}, pc[p] = from,
             NEW to \in {"slot", "read", "unmark", "done"}, pc'[p] = to, job' = job,
             UNCHANGED <<thread, written>>,
             from = "mark" => to = "slot", from = "slot" => to = "read",
             from \in {"release", "unmark"} => to \in {"unmark", "done"}
      PROVE  Goes(p)
  <2>1. Cmd(p) \in Runners
    BY <1>6 DEF Given, Local, Keeps, At
  <2>2. Cmd(p) # "resume"
    BY <2>1 DEF Runners
  <2> QED
    BY <1>1, <1>2, <1>6, <2>2 DEF Goes, Settled, Reads, Works, Writes, At, Cmd, Present
<1>7. ASSUME Mark(p) PROVE Goes(p)
  <2>1. /\ pc[p] = "mark" /\ pc'[p] = "slot" /\ UNCHANGED <<thread, written>>
        /\ job'[p] = [job[p] EXCEPT !.stamped = TRUE]
    BY <1>7 DEF Mark, Goto, Given, Typed
  <2>2. job'[p].cmd = job[p].cmd /\ job'[p].report = job[p].report
    BY <2>1 DEF Given, Typed, Jobs
  <2> QED
    BY <1>1, <1>2, <2>1, <2>2 DEF Goes, Settled, Reads, Works, Writes, At, Cmd, Present
<1>8. ASSUME AcquireSlot(p) PROVE Goes(p)
  BY <1>6, <1>8 DEF AcquireSlot, Goto, Given, Typed
<1>9. ASSUME ReleaseSlot(p) PROVE Goes(p)
  BY <1>6, <1>9 DEF ReleaseSlot, Goto, Given, Typed
<1>10. ASSUME Unmark(p) PROVE Goes(p)
  BY <1>6, <1>10 DEF Unmark, Goto, Given, Typed
<1> QED
  BY <1>3, <1>4, <1>5, <1>7, <1>8, <1>9, <1>10 DEF ExecStep

LEMMA StopGoes ==
  ASSUME NEW p, Going(p), StopStep(p)
  PROVE  Goes(p)
<1>1. /\ job[p].report = Null
      /\ pc[p] \in {"aim", "drop"} /\ Cmd(p) \notin Bystanders => Present
  <2>1. pc[p] \in {"look", "aim", "drop"}
    BY DEF StopStep, Look, LookGone, Aim, AimNothing, Drop, Move
  <2> QED
    BY <2>1 DEF Going, Given, SerialInv, Settled, Stands, Reads
<1>2. (Present <=> Entry # Null) /\ Null \notin Statuses
  BY EntryIs, LifecycleAssumption DEF Going, SerialInv
<1>3. ASSUME Look(p) PROVE Goes(p)
  BY <1>1, <1>2, <1>3, MovesOn DEF Look, Control
<1>4. ASSUME LookGone(p) PROVE Goes(p)
  BY <1>1, <1>4, MovesOn DEF LookGone, Control
<1>5. /\ AfterStop(p) \in {"archive", "done"} /\ AfterStop(p) \in Control
      /\ AfterStop(p) = "archive" => Cmd(p) = "cancel" /\ Cmd(p) \notin Bystanders
  BY DEF AfterStop, Control, Bystanders
<1>6. ASSUME AimNothing(p) PROVE Goes(p)
  <2>1. Move(p, "aim", AfterStop(p)) /\ pc[p] = "aim"
    BY <1>6 DEF AimNothing, Move
  <2>2. AfterStop(p) = "archive" => Present
    BY <1>1, <1>5, <2>1
  <2> QED
    BY <1>1, <1>5, <2>1, <2>2, MovesOn
<1>7. ASSUME Aim(p) PROVE Goes(p)
  <2>1. pc[p] = "aim" /\ pc'[p] = "drop" /\ job' = job /\ UNCHANGED <<thread, written>>
    BY <1>7 DEF Aim, Goto, Going, Given, Typed, shared
  <2> QED
    BY <1>1, <2>1 DEF Goes, Settled, Stands, Reads, Works, Writes, At, Cmd, Present
<1>8. ASSUME Drop(p) PROVE Goes(p)
  <2>1. pc[p] = "drop" /\ pc'[p] = AfterStop(p) /\ job' = job /\ UNCHANGED <<thread, written>>
    BY <1>8 DEF Drop, Goto, Going, Given, Typed
  <2> QED
    BY <1>1, <1>2, <1>5, <2>1 DEF Goes, Settled, Stands, Reads, Works, Writes, At, Cmd, Present
<1> QED
  BY <1>3, <1>4, <1>6, <1>7, <1>8 DEF StopStep

\* The role that resume asks for is one the thread may be resumed in.
LEMMA ResumeRole ==
  ASSUME NEW p, Going(p), Present, job[p].seen = written, RoleToResume(p) # Null
  PROVE  RoleFits(written.head, RoleToResume(p))
<1>1. written \in Good /\ Fits(written)
  BY EntryIs DEF Going, SerialInv
<1>2. CASE written.suspendedRole # Null
  <2>1. written.status = "suspended"
    BY <1>1, <1>2 DEF Good, WellFormed
  <2> QED
    BY <1>1, <1>2, <2>1 DEF Fits, RoleToResume
<1>3. CASE written.suspendedRole = Null
  BY <1>3 DEF RoleToResume, RoleFits, Asked
<1> QED
  BY <1>2, <1>3

LEMMA ResumeGoes ==
  ASSUME NEW p, Going(p), ResumeStep(p)
  PROVE  Goes(p)
<1>1. /\ pc[p] \in {"open", "judge"} /\ job[p].report = Null
      /\ pc[p] = "judge" => Cmd(p) \notin Bystanders /\ Present /\ job[p].seen = written
  <2>1. pc[p] \in {"open", "judge"}
    BY DEF ResumeStep, OpenActive, Reopen, Judge, JudgeRefuses, OpenPoke, OpenRefuses, Move
  <2> QED
    BY <2>1 DEF Going, Given, SerialInv, Settled, Stands, Reads, At
<1>2. /\ Present <=> Entry # Null
      /\ Present => /\ Entry = written /\ written \in Good /\ written \in Entries
                    /\ written.head \in Heads
      /\ Null \notin Statuses /\ Fits(written)
  BY EntryIs, LifecycleAssumption DEF Going, SerialInv
<1>3. ASSUME OpenActive(p) PROVE Goes(p)
  <2>1. /\ pc'[p] = "recheck" /\ job'[p] = [job[p] EXCEPT !.seen = Entry]
        /\ UNCHANGED <<thread, written>> /\ Entry # Null
    BY <1>3 DEF OpenActive, Goto, Going, Given, Typed, shared
  <2>2. job'[p].seen = Entry /\ job'[p].report = job[p].report /\ job'[p].cmd = job[p].cmd
    BY <2>1 DEF Going, Given, Typed, Jobs
  <2> QED
    BY <1>1, <1>2, <2>1, <2>2 DEF Goes, Settled, Stands, Reads, Works, Writes, At, Cmd, Present
<1>4. ASSUME Reopen(p) PROVE Goes(p)
  <2> DEFINE e == [Entry EXCEPT !.status = "idle", !.completedAt = Null]
             j == [job[p] EXCEPT !.wr = e, !.then = "read", !.role = ResumeTarget]
  <2>1. /\ Entry = written /\ written.status = "end" /\ Present /\ written \in Entries
        /\ Cmd(p) = "resume"
    BY <1>2, <1>4 DEF Reopen
  <2>2. e.head = written.head /\ e.status = "idle"
    BY <2>1 DEF Entries
  <2>3. RoleFits(written.head, ResumeTarget)
    BY <1>2, <2>1, LifecycleAssumption DEF Fits, RoleFits, RoleDue
  <2>4. pc'[p] = "remove" /\ job'[p] = j /\ UNCHANGED <<thread, written>>
    BY <1>4 DEF Reopen, Goto, Going, Given, Typed, shared
  <2> HIDE DEF e
  <2>5. /\ j.wr = e /\ j.then = "read" /\ j.role = ResumeTarget
        /\ j.cmd = job[p].cmd /\ j.report = job[p].report
    BY DEF Going, Given, Typed, Jobs
  <2> HIDE DEF j
  <2>6. Extends(written.head, e.head) /\ Fits(e)
    BY <2>2 DEF Extends, Fits
  <2> QED
    BY <1>1, <2>1, <2>2, <2>3, <2>4, <2>5, <2>6
       DEF Goes, Settled, Reads, Works, Writes, Writing, At, Cmd, Present, Bystanders
<1>5. ASSUME Judge(p) PROVE Goes(p)
  <2>1. /\ pc[p] = "judge" /\ pc'[p] = "read" /\ UNCHANGED <<thread, written>>
        /\ job'[p] = [job[p] EXCEPT !.role = RoleToResume(p)] /\ RoleToResume(p) # Null
    BY <1>5 DEF Judge, Goto, Going, Given, Typed, shared
  <2>2. job'[p].role = RoleToResume(p) /\ job'[p].report = job[p].report /\ job'[p].cmd = job[p].cmd
    BY <2>1 DEF Going, Given, Typed, Jobs
  <2>3. RoleFits(written.head, RoleToResume(p))
    BY <1>1, <2>1, ResumeRole
  <2> QED
    BY <1>1, <2>1, <2>2, <2>3 DEF Goes, Settled, Reads, Works, Writes, At, Cmd, Present
<1>6. ASSUME OpenPoke(p) PROVE Goes(p)
  <2>1. /\ pc'[p] = "agent" /\ UNCHANGED <<thread, written>> /\ Cmd(p) = "poke"
        /\ Entry # Null /\ Entry.head # <<>>
        /\ job'[p] = [job[p] EXCEPT !.seen = Entry, !.role = Last(Entry.head).role]
    BY <1>6 DEF OpenPoke, Pokable, Goto, Going, Given, Typed, shared
  <2>2. job'[p].role = Last(Entry.head).role /\ job'[p].seen = Entry /\ job'[p].cmd = job[p].cmd
    BY <2>1 DEF Going, Given, Typed, Jobs
  <2>3. RoleFits(written.head, Last(written.head).role)
    BY <1>2, <2>1 DEF RoleFits
  <2> QED
    BY <1>1, <1>2, <2>1, <2>2, <2>3
       DEF Goes, Settled, Reads, Works, Writes, At, Cmd, Present, Bystanders
<1>7. ASSUME JudgeRefuses(p) \/ OpenRefuses(p) PROVE Goes(p)
  <2>1. PICK from \in {"judge", "open"} : Move(p, from, "done")
    BY <1>7 DEF JudgeRefuses, OpenRefuses
  <2>2. "done" \in Control
    BY DEF Control
  <2> QED
    BY <1>1, <2>1, <2>2, MovesOn
<1> QED
  BY <1>3, <1>4, <1>5, <1>6, <1>7 DEF ResumeStep

-----------------------------------------------------------------------------
\* A step that only reports.
LEMMA ReportGoes ==
  ASSUME NEW p, Going(p), Cmd(p) \notin Bystanders,
         NEW r \in Reports, NEW to \in Control, Report(p, r, to),
         \/ to = "archive" /\ Present /\ Target(written.head) = END
         \/ /\ to = "failed" /\ Present /\ RoleFits(written.head, job[p].role)
            /\ r \in {"suspended", "failed"}
         \/ to \in {"release", "done"} /\ (r \in Statuses => Present /\ r = written.status)
  PROVE  Goes(p)
<1>1. pc'[p] = to /\ job'[p] = [job[p] EXCEPT !.report = r]
  BY ReportTypes DEF Going, Given
<1>2. job'[p].cmd = job[p].cmd /\ job'[p].role = job[p].role /\ job'[p].report = r
  BY <1>1 DEF Going, Given, Typed, Jobs
<1>3. UNCHANGED <<thread, written>>
  BY DEF Report, shared
<1> QED
  BY <1>1, <1>2, <1>3 DEF Goes, Settled, Reads, Works, Writes, At, Cmd, Present

\* The write of an entry with the same head, after which the command exits.
LEMMA WriteGoes ==
  ASSUME NEW p, Going(p), Cmd(p) \notin Bystanders, Present,
         NEW e \in Entries, NEW r \in Reports, NEW next \in {"release", "done"},
         Write(p, e, r, next),
         e.head = written.head, Fits(e), r \in Statuses => r = e.status
  PROVE  Goes(p)
<1>0. next \in Control
  BY DEF Control
<1>1. /\ pc'[p] = "remove" /\ job'[p].wr = e /\ job'[p].then = next
      /\ job'[p].cmd = job[p].cmd
  BY <1>0, WriteTypes DEF Going, Given
<1>2. job'[p] = [job[p] EXCEPT !.wr = e, !.then = next, !.report = r]
  BY DEF Write, Going, Given, Typed
<1>3. job'[p].report = r
  BY <1>2 DEF Going, Given, Typed, Jobs
<1>4. UNCHANGED <<thread, written>>
  BY DEF Write, shared
<1>5. Extends(written.head, e.head)
  BY DEF Extends
<1> QED
  BY <1>1, <1>3, <1>4, <1>5
     DEF Goes, Settled, Reads, Works, Writes, Writing, At, Cmd, Present

LEMMA SuspendFits ==
  ASSUME NEW entry \in Entries, NEW role \in Roles, NEW m \in Messages, RoleFits(entry.head, role)
  PROVE  LET e == markThreadSuspended(entry, role, m)
         IN  e \in Entries /\ e.head = entry.head /\ e.status = "suspended" /\ Fits(e)
BY ConstructorsGood DEF markThreadSuspended, Fits, Good

LEMMA ReadGoes ==
  ASSUME NEW p, Going(p),
         \/ ReadGone(p) \/ ReadResume(p) \/ ReadTarget(p)
         \/ ReadSuspended(p) \/ ReadEnd(p) \/ ReadStuck(p)
  PROVE  Goes(p)
<1>0. pc[p] = "read"
  BY DEF ReadGone, ReadResume, ReadTarget, ReadSuspended, ReadEnd, ReadStuck, Move
<1>1. /\ Cmd(p) \notin Bystanders /\ Present /\ job[p].report \in {Null, written.status}
      /\ Cmd(p) = "resume" => RoleFits(written.head, job[p].role)
  BY <1>0, Actives DEF Works
<1>2. /\ Entry # Null /\ Entry = written /\ written \in Good /\ written \in Entries
      /\ written.head \in Heads /\ Null \notin Statuses
  BY <1>1, EntryIs, LifecycleAssumption DEF Going
<1>3. Quit(p) \in {"release", "done"} /\ Quit(p) \in Control
  BY QuitFacts
<1>4. {"suspended", "end"} \subseteq Reports
  BY DEF Reports, Statuses
<1>5. ASSUME ReadGone(p) \/ ReadStuck(p) PROVE Goes(p)
  BY <1>1, <1>2, <1>3, <1>5, MovesOn DEF ReadGone, ReadStuck
<1>6. ASSUME ReadResume(p) PROVE Goes(p)
  <2>1. /\ pc'[p] = "agent" /\ UNCHANGED <<thread, written>> /\ Cmd(p) = "resume"
        /\ job'[p] = [job[p] EXCEPT !.seen = Entry]
    BY <1>6 DEF ReadResume, Goto, Going, Given, Typed, shared
  <2>2. job'[p].role = job[p].role /\ job'[p].seen = written /\ job'[p].cmd = job[p].cmd
    BY <1>2, <2>1 DEF Going, Given, Typed, Jobs
  <2> QED
    BY <1>1, <2>1, <2>2 DEF Goes, Settled, Reads, Works, Writes, At, Cmd, Present
<1>7. ASSUME ReadTarget(p) PROVE Goes(p)
  <2>1. /\ pc'[p] = "agent" /\ UNCHANGED <<thread, written>> /\ Cmd(p) \in Runners
        /\ Target(Entry.head) \in Roles
        /\ job'[p] = [job[p] EXCEPT !.seen = Entry, !.role = Target(Entry.head)]
    BY <1>7 DEF ReadTarget, Goto, Going, Given, Typed, shared
  <2>2. /\ job'[p].role = Target(written.head) /\ job'[p].seen = written
        /\ job'[p].cmd = job[p].cmd
    BY <1>2, <2>1 DEF Going, Given, Typed, Jobs
  <2>3. RoleFits(written.head, Target(written.head)) /\ Cmd(p) # "poke"
    BY <1>2, <2>1 DEF RoleFits, RoleDue, Runners
  <2> QED
    BY <1>1, <2>1, <2>2, <2>3 DEF Goes, Settled, Reads, Works, Writes, At, Cmd, Present
<1>8. ASSUME ReadSuspended(p) PROVE Goes(p)
  <2> DEFINE e == markThreadSuspended(Entry, Last(Entry.head).role, "asked")
  <2>1. written.head # <<>> /\ Last(written.head).role \in Roles
    BY <1>2, <1>8, ChainFacts DEF ReadSuspended, Asked
  <2>2. CASE Entry.suspendedRole # Null /\ Entry.suspendMessage # Null
    <3>1. Report(p, "suspended", Quit(p)) /\ written.status = "suspended"
      BY <1>2, <1>8, <2>2 DEF ReadSuspended, Good, WellFormed
    <3> QED
      BY <1>1, <1>3, <1>4, <3>1, ReportGoes
  <2>3. CASE ~(Entry.suspendedRole # Null /\ Entry.suspendMessage # Null)
    <3>1. Write(p, e, "suspended", Quit(p))
      BY <1>8, <2>3 DEF ReadSuspended
    <3>2. RoleFits(written.head, Last(written.head).role)
      BY <2>1 DEF RoleFits
    <3>3. e \in Entries /\ e.head = written.head /\ e.status = "suspended" /\ Fits(e)
      BY <1>2, <2>1, <3>2, SuspendFits DEF Messages
    <3> HIDE DEF e
    <3> QED
      BY <1>1, <1>3, <1>4, <3>1, <3>3, WriteGoes
  <2> QED
    BY <2>2, <2>3
<1>9. ASSUME ReadEnd(p) PROVE Goes(p)
  <2>1. Report(p, "end", "archive") /\ Target(written.head) = END
    BY <1>2, <1>9 DEF ReadEnd
  <2>2. "archive" \in Control
    BY DEF Control
  <2> QED
    BY <1>1, <1>4, <2>1, <2>2, ReportGoes
<1> QED
  BY <1>5, <1>6, <1>7, <1>8, <1>9

LEMMA AgentGoes ==
  ASSUME NEW p, Going(p), AgentDone(p) \/ AgentErrs(p) \/ AgentThrows(p)
  PROVE  Goes(p)
<1>0. pc[p] = "agent"
  BY DEF AgentDone, AgentErrs, AgentThrows
<1>1. /\ Cmd(p) \notin Bystanders /\ Present
      /\ job[p].seen = written /\ RoleFits(written.head, job[p].role)
      /\ Cmd(p) = "poke" => written.head # <<>> /\ job[p].role = Last(written.head).role
  BY <1>0, Actives DEF Works
<1>2. /\ written \in Entries /\ written.head \in Heads /\ Front(written.head) \in Heads
      /\ job[p].role \in Roles
  BY <1>0, <1>1, EntryIs, NewHeadFacts DEF Going
<1>3. {"suspended", "idle", "failed"} \subseteq Reports /\ "failed" \notin Statuses
  BY DEF Reports, Statuses
<1>4. ASSUME AgentDone(p) PROVE Goes(p)
  <2>1. PICK to \in Targets :
          job' = [job EXCEPT
                   ![p].fresh = to,
                   ![p].wr = updateThreadHead(Entry,
                       Append(Base(p), [role |-> job[p].role, to |-> to])),
                   ![p].report = "idle",
                   ![p].then = IF Cmd(p) = "poke" THEN "done" ELSE "route"]
    BY <1>4, LifecycleAssumption DEF AgentDone
  <2> DEFINE step == [role |-> job[p].role, to |-> to]
             new == Append(Base(p), step)
             e == updateThreadHead(Entry, new)
             l == IF Cmd(p) = "poke" THEN "done" ELSE "route"
             j == [job[p] EXCEPT !.fresh = to, !.wr = e, !.report = "idle", !.then = l]
  <2>2. step \in Steps /\ Base(p) \in Heads
        /\ Base(p) = IF Cmd(p) = "poke" THEN Front(written.head) ELSE written.head
    BY <1>1, <1>2 DEF Base, Steps
  <2>3. new # <<>> /\ Front(new) = Base(p) /\ Last(new) = step
    <3> HIDE DEF step
    <3> QED
      BY <2>2, AppendFacts
  <2>4. Extends(written.head, new)
    BY <1>1, <2>2, <2>3 DEF Extends
  <2>5. e.head = new /\ e.status = "idle" /\ Fits(e)
    BY DEF updateThreadHead, createThreadIndexEntry, Fits
  <2>6. pc'[p] = "remove" /\ job'[p] = j /\ UNCHANGED <<thread, written>>
    BY <1>4, <2>1 DEF AgentDone, Goto, Going, Given, Typed, shared
  <2>7. l \in {"done", "route"}
    OBVIOUS
  <2> HIDE DEF e, l
  <2>8. /\ j.fresh = to /\ j.wr = e /\ j.then = l /\ j.report = "idle"
        /\ j.cmd = job[p].cmd /\ j.role = job[p].role
    BY DEF Going, Given, Typed, Jobs
  <2> HIDE DEF j, new
  <2> QED
    BY <1>1, <2>3, <2>4, <2>5, <2>6, <2>7, <2>8
       DEF Goes, Settled, Reads, Works, Writes, Writing, At, Cmd, Present
<1>5. ASSUME AgentErrs(p) PROVE Goes(p)
  <2>1. CASE Cmd(p) = "poke"
    <3> DEFINE e == markThreadSuspended(job[p].seen, job[p].role, "failed")
    <3>1. Write(p, e, "suspended", "done")
      BY <1>5, <2>1 DEF AgentErrs
    <3>2. e \in Entries /\ e.head = written.head /\ e.status = "suspended" /\ Fits(e)
      BY <1>1, <1>2, SuspendFits DEF Messages
    <3> HIDE DEF e
    <3> QED
      BY <1>1, <1>3, <3>1, <3>2, WriteGoes
  <2>2. CASE Cmd(p) # "poke"
    <3>1. Report(p, "suspended", "failed") /\ "failed" \in Control
      BY <1>5, <2>2 DEF AgentErrs, Control
    <3> QED
      BY <1>1, <1>3, <3>1, ReportGoes
  <2> QED
    BY <2>1, <2>2
<1>6. ASSUME AgentThrows(p) PROVE Goes(p)
  <2>1. Report(p, "failed", Quit(p)) /\ Quit(p) \in Control /\ Quit(p) \in {"release", "done"}
    BY <1>6, QuitFacts DEF AgentThrows
  <2> QED
    BY <1>1, <1>3, <2>1, ReportGoes
<1> QED
  BY <1>4, <1>5, <1>6

LEMMA FailedGoes ==
  ASSUME NEW p, Going(p), Failed(p)
  PROVE  Goes(p)
<1> DEFINE e == markThreadSuspended(EntryOr(job[p].seen.head), job[p].role, "failed")
<1>1. /\ Cmd(p) \notin Bystanders /\ Present /\ RoleFits(written.head, job[p].role)
      /\ job[p].report \in {"suspended", "failed"}
  BY Actives DEF Works, Failed
<1>2. written \in Entries /\ EntryOr(job[p].seen.head) = written /\ job[p].role \in Roles
  BY <1>1, EntryIs, NewHeadFacts DEF Going, Failed
<1>3. e \in Entries /\ e.head = written.head /\ e.status = "suspended" /\ Fits(e)
  BY <1>1, <1>2, SuspendFits DEF Messages
<1>4. Write(p, e, job[p].report, Quit(p))
  BY DEF Failed
<1>5. /\ Quit(p) \in {"release", "done"} /\ job[p].report \in Reports
      /\ job[p].report \in Statuses => job[p].report = "suspended"
  BY <1>1, QuitFacts DEF Reports, Statuses
<1> HIDE DEF e
<1> QED
  BY <1>1, <1>3, <1>4, <1>5, WriteGoes

LEMMA RouteGoes ==
  ASSUME NEW p, Going(p),
         RouteSuspend(p) \/ RouteStuck(p) \/ RouteEnd(p) \/ RouteOn(p) \/ RouteStop(p)
  PROVE  Goes(p)
<1>0. pc[p] = "route"
  BY DEF RouteSuspend, RouteStuck, RouteEnd, RouteOn, RouteStop, Move
<1>1. /\ Cmd(p) \notin Bystanders /\ Present /\ job[p].report = written.status
      /\ written.head # <<>>
      /\ Last(written.head).role = job[p].role /\ Last(written.head).to = job[p].fresh
  <2>1. Works(p) /\ Cmd(p) \notin Bystanders
    BY <1>0, Actives
  <2>2. /\ Present /\ job[p].report = written.status /\ written.head # <<>>
        /\ Last(written.head) = [role |-> job[p].role, to |-> job[p].fresh]
    BY <1>0, <2>1 DEF Works
  <2> QED
    BY <2>1, <2>2
<1>2. /\ written \in Entries /\ EntryOr(NewHead(p)) = written /\ job[p].role \in Roles
      /\ RoleFits(written.head, job[p].role)
  BY <1>0, <1>1, EntryIs, NewHeadFacts DEF Going, RoleFits
<1>3. Quit(p) \in {"release", "done"} /\ Quit(p) \in Control
  BY QuitFacts
<1>4. {"suspended", "end", "failed"} \subseteq Reports /\ "failed" \notin Statuses
      /\ {"failed", "archive"} \subseteq Control
  BY DEF Reports, Statuses, Control
<1>5. ASSUME RouteSuspend(p) PROVE Goes(p)
  <2> DEFINE e == markThreadSuspended(EntryOr(NewHead(p)), job[p].role, "asked")
  <2>1. Write(p, e, "suspended", Quit(p))
    BY <1>5 DEF RouteSuspend
  <2>2. e \in Entries /\ e.head = written.head /\ e.status = "suspended" /\ Fits(e)
    BY <1>2, SuspendFits DEF Messages
  <2> HIDE DEF e
  <2> QED
    BY <1>1, <1>3, <1>4, <2>1, <2>2, WriteGoes
<1>6. ASSUME RouteStuck(p) PROVE Goes(p)
  BY <1>1, <1>2, <1>4, <1>6, ReportGoes DEF RouteStuck
<1>7. ASSUME RouteEnd(p) PROVE Goes(p)
  <2>1. Report(p, "end", "archive") /\ Target(written.head) = END
    BY <1>1, <1>7 DEF RouteEnd, Target
  <2> QED
    BY <1>1, <1>4, <2>1, ReportGoes
<1>8. ASSUME RouteOn(p) PROVE Goes(p)
  <2>1. /\ pc'[p] = "read" /\ UNCHANGED <<thread, written>> /\ Cmd(p) \in Runners
        /\ job'[p] = [job[p] EXCEPT !.left = @ - 1]
    BY <1>8 DEF RouteOn, Goto, Going, Given, Typed, shared
  <2>2. job'[p].cmd = job[p].cmd /\ job'[p].report = job[p].report /\ Cmd(p) # "resume"
    BY <2>1 DEF Going, Given, Typed, Jobs, Runners
  <2> QED
    BY <1>1, <2>1, <2>2 DEF Goes, Settled, Reads, Works, Writes, At, Cmd, Present
<1>9. ASSUME RouteStop(p) PROVE Goes(p)
  BY <1>1, <1>3, <1>9, MovesOn DEF RouteStop
<1> QED
  BY <1>5, <1>6, <1>7, <1>8, <1>9

LEMMA ArchiveGoes ==
  ASSUME NEW p, Going(p), ArchiveGone(p) \/ Archive(p)
  PROVE  Goes(p)
<1>0. pc[p] = "archive"
  BY DEF ArchiveGone, Archive, Move
<1>1. /\ Cmd(p) \notin Bystanders /\ Present
      /\ Cmd(p) # "cancel" => Target(written.head) = END
  BY <1>0, Actives DEF Works
<1>2. Entry = written /\ Entry # Null /\ written \in Entries
  BY <1>1, EntryIs DEF Going
<1>3. Archive(p)
  BY <1>2 DEF ArchiveGone
<1> DEFINE reason == IF Cmd(p) = "cancel" THEN "cancelled" ELSE "end"
           e == markThreadCompleted(Entry, reason)
<1>4. /\ reason \in {"end", "cancelled"} /\ reason \in Reports
      /\ reason = "end" => Target(written.head) = END
  BY <1>1 DEF Reports, Statuses
<1>5. Write(p, e, reason, Quit(p)) /\ Quit(p) \in {"release", "done"}
  BY <1>3, QuitFacts DEF Archive
<1> HIDE DEF reason
<1>6. e \in Entries /\ e.head = written.head /\ e.status = reason /\ Fits(e)
  BY <1>2, <1>4, ConstructorsGood DEF markThreadCompleted, Fits, Good
<1> HIDE DEF e
<1> QED
  BY <1>1, <1>4, <1>5, <1>6, WriteGoes

-----------------------------------------------------------------------------
\* A process that is not there takes no step.
LEMMA StepsLive ==
  ASSUME NEW p, Step(p)
  PROVE  Alive(p)
<1> USE DEF Alive, Move
<1>1. Marker(p) => Alive(p)
  BY DEF Marker, CheckFree, CheckBusy, CheckStale, Sweep, Checking
<1>2. ExecStep(p) => Alive(p)
  BY DEF ExecStep, EnterGone, Spawn, Enter, Mark, AcquireSlot, ReleaseSlot, Unmark
<1>3. ResumeStep(p) => Alive(p)
  BY DEF ResumeStep, OpenActive, Reopen, Judge, JudgeRefuses, OpenPoke, OpenRefuses
<1>4. StepOnce(p) => Alive(p)
  BY DEF StepOnce, ReadGone, ReadResume, ReadTarget, ReadSuspended, ReadEnd, ReadStuck, AgentDone,
         AgentErrs, AgentThrows, Failed, RouteSuspend, RouteStuck, RouteEnd, RouteOn, RouteStop
<1>5. StoreStep(p) \/ Exit(p) => Alive(p)
  BY DEF StoreStep, ArchiveGone, Archive, Unset, Set, Exit
<1>6. StopStep(p) => Alive(p)
  BY DEF StopStep, Look, LookGone, Aim, AimNothing, Drop
<1> QED
  BY <1>1, <1>2, <1>3, <1>4, <1>5, <1>6 DEF Step

\* A process that neither writes nor starts nor ends.
LEMMA GoingStep ==
  ASSUME NEW p, Given(p), SerialInv, Step(p), ~Unset(p), ~Set(p), ~Exit(p)
  PROVE  SerialInv'
<1>1. Going(p)
  BY StepsLive DEF Going
<1>2. Goes(p)
  BY <1>1, MarkerGoes, ExecGoes, StopGoes, ResumeGoes, ReadGoes, AgentGoes, FailedGoes, RouteGoes,
     ArchiveGoes DEF Step, StepOnce, StoreStep
<1>3. UNCHANGED <<thread, written>> /\ OthersStay(p)
  BY ThreadEffect, StepFine DEF AnyStep, Fine
<1>4. Alone'
  BY <1>1, <1>2, <1>3 DEF SerialInv, Alone, Alive, Cmd, Going, Given, Goes, OthersStay
<1>5. ASSUME NEW q \in Proc, Alive(q)', q # p PROVE Settled(q)'
  <2>1. pc'[q] = pc[q] /\ job'[q] = job[q] /\ Alive(q)
    BY <1>3, <1>5 DEF OthersStay, Alive
  <2>2. Settled(q)
    BY <2>1 DEF SerialInv
  <2> QED
    BY <1>3, <2>1, <2>2
       DEF Settled, Stands, Reads, Works, Writes, Writing, At, Cmd, Present
<1> QED
  BY <1>2, <1>3, <1>4, <1>5 DEF SerialInv, Goes, Present

\* The halves of a write: whoever else is there only looks on.
LEMMA WriterAlone ==
  ASSUME NEW p, Going(p), Cmd(p) \notin Bystanders, OthersStay(p), NEW q \in Proc, q # p, Alive(q)'
  PROVE  Settled(q)' /\ Cmd(q)' \in Bystanders
<1>1. pc'[q] = pc[q] /\ job'[q] = job[q] /\ Alive(q)
  BY DEF OthersStay, Alive
<1>2. Cmd(q) \in Bystanders /\ Settled(q)
  BY <1>1 DEF Going, Given, SerialInv, Alone
<1> QED
  BY <1>1, <1>2 DEF Settled, Stands, Cmd

LEMMA WriteStep ==
  ASSUME NEW p, Given(p), SerialInv, Unset(p) \/ Set(p)
  PROVE  SerialInv' /\ Extends(written.head, written'.head)
<1>1. Step(p) /\ pc[p] \in {"remove", "put"}
  BY DEF Step, StoreStep, Unset, Set
<1>2. Going(p) /\ OthersStay(p)
  BY <1>1, StepsLive, StepFine DEF Going, Fine
<1>3. Cmd(p) \notin Bystanders /\ Writes(p) /\ Writing(job[p])
  BY <1>1, <1>2, Actives DEF Writes
<1>4. ASSUME Settled(p)', Cmd(p)' = Cmd(p), (thread = {} \/ Present)', Fits(written')
      PROVE  SerialInv'
  <2>1. ASSUME NEW q \in Proc, q # p, Alive(q)' PROVE Settled(q)' /\ Cmd(q)' \in Bystanders
    BY <1>2, <1>3, <2>1, WriterAlone
  <2>2. Alone'
    BY <2>1 DEF Alone
  <2>3. \A q \in Proc : Alive(q)' => Settled(q)'
    BY <1>4, <2>1
  <2> QED
    BY <1>4, <2>2, <2>3 DEF SerialInv
<1>5. CASE Unset(p)
  <2>1. /\ pc[p] = "remove" /\ pc'[p] = "put" /\ job' = job /\ thread' = {} /\ written' = written
    BY <1>5 DEF Unset, Goto, Given, Typed
  <2>a. job[p].then \in {"release", "route", "read", "done"}
    BY <2>1 DEF Given, Local, Keeps
  <2>2. Settled(p)'
    BY <1>3, <2>1, <2>a DEF Settled, Reads, Works, Writes, Writing, At, Cmd
  <2>3. Extends(written.head, written'.head)
    BY <2>1 DEF Extends
  <2> QED
    BY <1>4, <2>1, <2>2, <2>3 DEF SerialInv, Cmd
<1>6. CASE Set(p)
  <2>1. /\ pc[p] = "put" /\ pc'[p] = job[p].then /\ written' = job[p].wr /\ thread = {}
        /\ thread' = {variableOf(job[p].wr)}
    BY <1>3, <1>6 DEF Set, Goto, Given, Typed, Writes
  <2>2. /\ job'[p].cmd = job[p].cmd /\ job'[p].role = job[p].role /\ job'[p].fresh = job[p].fresh
        /\ job'[p].report = job[p].report
    <3>1. job'[p] = [job[p] EXCEPT !.wr = Null]
      BY <1>6 DEF Set, Given, Typed
    <3> QED
      BY <3>1 DEF Given, Typed, Jobs
  <2>3. job[p].then \in {"release", "route", "read", "done"}
    BY <2>1 DEF Given, Local, Keeps
  <2>4. Present'
    BY <2>1 DEF Present
  <2>5. /\ Fits(written') /\ Extends(written.head, written'.head)
        /\ job[p].then = "read" => job[p].report = Null /\ RoleFits(written'.head, job[p].role)
        /\ job[p].then = "route" =>
            /\ job[p].report = written'.status
            /\ written'.head # <<>>
            /\ Last(written'.head) = [role |-> job[p].role, to |-> job[p].fresh]
        /\ job[p].then \in {"release", "done"} /\ job[p].report \in Statuses =>
            job[p].report = written'.status
    BY <1>3, <2>1 DEF Writing
  <2>6. Settled(p)'
    BY <1>3, <2>1, <2>2, <2>3, <2>4, <2>5 DEF Settled, Reads, Works, Writes, At, Cmd
  <2> QED
    BY <1>4, <2>2, <2>4, <2>5, <2>6 DEF Cmd
<1> QED
  BY <1>5, <1>6

\* A command starts only when no other that writes is there.
LEMMA LaunchStep ==
  ASSUME Serial, NEW p, Given(p), SerialInv, NEW c \in Commands, Launch(p, c)
  PROVE  SerialInv'
<1>1. UNCHANGED <<thread, written>> /\ OthersStay(p)
  BY ThreadEffect, StepFine DEF AnyStep, Fine, Launch, shared
<1>2. PICK n : job'[p] = [NoJob EXCEPT !.cmd = c, !.left = n]
  BY DEF Launch, Given, Typed
<1>3. Cmd(p)' = c /\ job'[p].report = Null
  BY <1>2 DEF NoJob, Cmd
<1>4. /\ pc'[p] \in {"look", "open", "check"}
      /\ c \in Bystanders \/ \A q \in Proc : Alive(q) => Cmd(q) \in Bystanders
  BY DEF Launch, Goto, FirstOf, Given, Typed
<1>5. Settled(p)'
  BY <1>3, <1>4 DEF Settled, Stands, Reads, Works, Writes, At
<1>6. ASSUME NEW q \in Proc, Alive(q)', q # p
      PROVE  Settled(q)' /\ Alive(q) /\ Cmd(q)' = Cmd(q)
  <2>1. pc'[q] = pc[q] /\ job'[q] = job[q] /\ Alive(q)
    BY <1>1, <1>6 DEF OthersStay, Alive
  <2>2. Settled(q)
    BY <2>1 DEF SerialInv
  <2> QED
    BY <1>1, <2>1, <2>2
       DEF Settled, Stands, Reads, Works, Writes, Writing, At, Cmd, Present
<1>7. Alone'
  BY <1>3, <1>4, <1>6 DEF Alone, SerialInv
<1> QED
  BY <1>1, <1>5, <1>6, <1>7 DEF SerialInv, Present

LEMMA EndStep ==
  ASSUME NEW p, Given(p), SerialInv, Exit(p) \/ Terminate(p) \/ Kill(p)
  PROVE  SerialInv'
<1>1. OthersStay(p)
  BY StepFine DEF Step, Fine
<1>2. pc'[p] \in {"gone", "torn"} /\ UNCHANGED <<thread, written>>
  BY DEF Exit, Terminate, Kill, Die, End, Goto, Given, Typed, shared
<1>3. ~Alive(p)'
  BY <1>2 DEF Alive
<1>4. ASSUME NEW q \in Proc, Alive(q)'
      PROVE  Settled(q)' /\ Alive(q) /\ Cmd(q)' = Cmd(q)
  <2>1. pc'[q] = pc[q] /\ job'[q] = job[q] /\ Alive(q)
    BY <1>1, <1>3, <1>4 DEF OthersStay, Alive
  <2>2. Settled(q)
    BY <2>1 DEF SerialInv
  <2> QED
    BY <1>2, <2>1, <2>2
       DEF Settled, Stands, Reads, Works, Writes, Writing, At, Cmd, Present
<1>5. Alone'
  BY <1>4 DEF Alone, SerialInv
<1> QED
  BY <1>2, <1>4, <1>5 DEF SerialInv, Present

\* Every step preserves the invariant, and moves the head forward.
LEMMA SerialStep ==
  ASSUME Serial, LifeInv, SerialInv, [Next]_vars
  PROVE  SerialInv' /\ (written' = written \/ Extends(written.head, written'.head))
<1>1. ASSUME NEW p \in Proc, AnyStep(p)
      PROVE SerialInv' /\ (written' = written \/ Extends(written.head, written'.head))
  <2>1. Given(p)
    BY DEF Given, LifeInv, Typing, Typed, Local
  <2>2. CASE Unset(p) \/ Set(p)
    BY <2>1, <2>2, WriteStep
  <2>3. CASE ~Unset(p) /\ ~Set(p)
    <3>1. written' = written
      BY <1>1, <2>3, ThreadEffect
    <3> QED
      BY <1>1, <2>1, <2>3, <3>1, GoingStep, LaunchStep, EndStep DEF AnyStep
  <2> QED
    BY <2>2, <2>3
<1>2. CASE UNCHANGED vars
  <2>1. UNCHANGED <<thread, written, pc, job>>
    BY <1>2 DEF vars
  <2>2. \A q \in Proc : Settled(q) => Settled(q)'
    BY <2>1 DEF Settled, Stands, Reads, Works, Writes, Writing, At, Cmd, Present
  <2> QED
    BY <2>1, <2>2 DEF SerialInv, Alone, Alive, Cmd, Present
<1> QED
  BY <1>1, <1>2 DEF Next, AnyStep

-----------------------------------------------------------------------------
\* What the list command knows: a status it has given the thread or is about to
\* give it was true at some moment since it began.
Gone(said) == said \cap (Archived \cup {"no variable"}) # {}
Went(said) == said \cap {"idle", "suspended"} # {}

Said(s, said) == s \in said \/ (s = "idle" /\ Gone(said) /\ Went(said))

Words == Statuses \cup {"running"}
Listings ==
    [pc : {"idle", "marker", "sweep", "judge", "history", "shown"},
     archive : ArchiveLooks \cup {FALSE}, seen : Heads \cup {Null}, items : Seq(Words)]

ListTyped == list \in Listings

ListedAs(s) == list.items = <<s>> /\ Said(s, was)

ListInv ==
    /\ ListTyped
    /\ list.pc = "idle" => list = NotListing
    /\ list.pc # "idle" => Sayable \subseteq was
    /\ list.pc \in {"marker", "sweep", "judge"} =>
        /\ list.items = <<>> /\ Went(was)
        /\ Asked(list.seen) => "suspended" \in was
    /\ list.pc = "marker" /\ MarkerValid => "running" \in was
    /\ list.pc = "history" => (list.items = <<>> /\ Gone(was)) \/ \E s \in Words : ListedAs(s)
    /\ list.pc = "shown" =>
        \/ /\ list.items = <<>> /\ Gone(was)
           /\ list.archive => Went(was) \/ "no variable" \in was
        \/ \E s \in Words : ListedAs(s)

LEMMA SayableFacts ==
  ASSUME LifeInv, Entry # Null
  PROVE  /\ Entry.status \in Statuses /\ Entry.status \in Sayable /\ Entry.head \in Heads
         /\ MarkerValid => "running" \in Sayable
         /\ Entry.status \notin Archived =>
              /\ Entry.status \in {"idle", "suspended"}
              /\ Asked(Entry.head) => "suspended" \in Sayable
BY EntryGood DEF LifeInv, Good, Sayable, Entries, Statuses, Archived

\* What may be said of the thread is not forgotten.
LEMMA Remembering ==
  ASSUME Remember, list'.pc # "idle"
  PROVE  /\ was \subseteq was' /\ Sayable' \subseteq was'
         /\ list' # list /\ Entry = Null => "no variable" \in was'
BY DEF Remember

LEMMA SaidBefore ==
  ASSUME was \subseteq was'
  PROVE  /\ Gone(was) => Gone(was')
         /\ Went(was) => Went(was')
         /\ \A s : Said(s, was) => Said(s, was')
BY DEF Gone, Went, Said

\* Beside the list command: what it knows stays true.
LEMMA BesideStep ==
  ASSUME NEW p, Given(p), SerialInv, ListInv, AnyStep(p), UNCHANGED list, Remember,
         list.pc # "shown"
  PROVE  ListInv'
<1>1. CASE list.pc = "idle"
  BY <1>1 DEF ListInv, ListTyped, Listings
<1>2. CASE list.pc # "idle"
  <2>1. /\ was \subseteq was' /\ Sayable' \subseteq was'
        /\ Gone(was) => Gone(was')
        /\ Went(was) => Went(was')
        /\ \A s : Said(s, was) => Said(s, was')
    BY <1>2, Remembering, SaidBefore
  <2>2. ASSUME list.pc = "marker", MarkerValid' PROVE "running" \in was'
    BY <2>1, <2>2 DEF Sayable
  <2>3. \A s : ListedAs(s) => ListedAs(s)'
    BY <2>1 DEF ListedAs
  <2>4. ListTyped' /\ list.pc # "shown"
    BY DEF ListInv, ListTyped, Listings
  <2> QED
    BY <1>2, <2>1, <2>2, <2>3, <2>4 DEF ListInv
<1> QED
  BY <1>1, <1>2

\* The list command itself.
LEMMA ListingStep ==
  ASSUME LifeInv, ListInv, ListStep, Remember
  PROVE  ListInv'
<1>a. ListTyped /\ list.pc # "shown"
  BY DEF ListInv, ListStep, ListActive, ListRunning, ListNotRunning, ListSweep, ListJudge, ListHistory
<1>b. Entry' = Entry
  <2>1. thread' = thread
    BY DEF ListStep, ListActive, ListRunning, ListNotRunning, ListSweep, ListJudge, ListHistory, vars
  <2> QED
    BY <2>1 DEF Entry
<1>c. ListStep /\ ~ListSweep => UNCHANGED vars
  BY DEF ListStep, ListActive, ListRunning, ListNotRunning, ListSweep, ListJudge, ListHistory
<1>d. ASSUME UNCHANGED vars PROVE Sayable' = Sayable /\ (MarkerValid' <=> MarkerValid)
  BY <1>b, <1>d DEF vars, Sayable, MarkerValid, Alive
<1>1. ASSUME NEW archive \in ArchiveLooks, ListActive(archive) PROVE ListInv'
  <2>1. list = NotListing /\ UNCHANGED vars
    BY <1>1 DEF ListActive, ListInv
  <2>2. CASE Entry # Null /\ Entry.status \notin Archived
    <3>1. list' = [list EXCEPT !.archive = archive, !.pc = "marker", !.seen = Entry.head]
      BY <1>1, <2>2 DEF ListActive
    <3>2. list' = [pc |-> "marker", archive |-> archive, seen |-> Entry.head, items |-> <<>>]
      BY <2>1, <3>1 DEF NotListing
    <3>a. list'.pc # "idle"
      BY <3>2
    <3>b. was \subseteq was' /\ Sayable' \subseteq was'
      BY <3>a, Remembering
    <3>3. Sayable \subseteq was' /\ Sayable' = Sayable /\ (MarkerValid' <=> MarkerValid)
      BY <1>d, <2>1, <3>b
    <3>4. ListTyped'
      <4>1. Entry.head \in Heads /\ <<>> \in Seq(Words)
        BY <2>2, SayableFacts
      <4> QED
        BY <3>2, <4>1 DEF ListTyped, Listings
    <3>5. /\ Went(was')
          /\ Asked(Entry.head) => "suspended" \in was'
          /\ MarkerValid => "running" \in was'
      BY <2>2, <3>3, SayableFacts DEF Went
    <3>6. list'.pc = "marker" /\ list'.seen = Entry.head /\ list'.items = <<>>
      BY <3>2
    <3> QED
      BY <3>3, <3>4, <3>5, <3>6 DEF ListInv
  <2>3. CASE ~(Entry # Null /\ Entry.status \notin Archived)
    <3>1. list' = [list EXCEPT !.archive = archive, !.pc = "history", !.seen = Null]
      BY <1>1, <2>3 DEF ListActive
    <3>2. list' = [pc |-> "history", archive |-> archive, seen |-> Null, items |-> <<>>]
      BY <2>1, <3>1 DEF NotListing
    <3>3. /\ Sayable \subseteq was' /\ Sayable' = Sayable
          /\ Entry = Null => "no variable" \in was'
      <4>1. list'.pc # "idle" /\ list' # list
        BY <2>1, <3>2 DEF NotListing
      <4>2. Sayable' \subseteq was' /\ (Entry = Null => "no variable" \in was')
        BY <4>1, Remembering
      <4> QED
        BY <1>d, <2>1, <4>2
    <3>4. ListTyped'
      <4>1. <<>> \in Seq(Words)
        OBVIOUS
      <4> QED
        BY <3>2, <4>1 DEF ListTyped, Listings
    <3>5. Gone(was')
      BY <2>3, <3>3, SayableFacts DEF Gone
    <3>6. list'.pc = "history" /\ list'.items = <<>>
      BY <3>2
    <3> QED
      BY <3>3, <3>4, <3>5, <3>6 DEF ListInv
  <2> QED
    BY <2>2, <2>3
\* The steps after the first look.
<1>2. ASSUME list.pc # "idle", list'.pc # "idle"
      PROVE  /\ was \subseteq was' /\ Sayable' \subseteq was'
             /\ list' # list /\ Entry = Null => "no variable" \in was'
             /\ Gone(was) => Gone(was')
             /\ Went(was) => Went(was')
             /\ \A s : Said(s, was) => Said(s, was')
  BY <1>2, Remembering, SaidBefore
<1>3. ASSUME NEW s \in Words, Item(s), list.pc \in {"marker", "judge"}, Said(s, was') PROVE ListInv'
  <2>1. /\ list'.pc = "history" /\ list'.items = <<s>> /\ ListTyped'
    <3>1. list.items = <<>>
      BY <1>3 DEF ListInv
    <3>2. list' = [list EXCEPT !.pc = "history", !.seen = Null, !.items = <<s>>]
      BY <1>3, <3>1 DEF Item
    <3>3. <<s>> \in Seq(Words)
      BY <1>3
    <3> QED
      BY <1>a, <3>2, <3>3 DEF ListTyped, Listings
  <2> QED
    BY <1>2, <1>3, <2>1 DEF ListInv, ListedAs
<1>4. ASSUME ListRunning PROVE ListInv'
  <2>1. list.pc = "marker" /\ Item("running") /\ list'.pc = "history" /\ "running" \in was
    BY <1>a, <1>4 DEF ListRunning, Item, ListInv, ListTyped, Listings
  <2> QED
    BY <1>2, <1>3, <2>1 DEF Said, Words
<1>5. ASSUME NEW to \in {"judge", "sweep"}, list' = [list EXCEPT !.pc = to], list.pc \in {"marker", "sweep"}
      PROVE  ListInv'
  <2>1. /\ list'.pc = to /\ list'.items = list.items /\ list'.seen = list.seen /\ ListTyped'
    BY <1>a, <1>5 DEF ListTyped, Listings
  <2>2. list.items = <<>> /\ Went(was) /\ (Asked(list.seen) => "suspended" \in was)
    BY <1>5 DEF ListInv
  <2> QED
    BY <1>2, <1>5, <2>1, <2>2 DEF ListInv
<1>6. ASSUME ListNotRunning \/ ListSweep PROVE ListInv'
  BY <1>5, <1>6 DEF ListNotRunning, ListSweep
<1>7. ASSUME ListJudge PROVE ListInv'
  <2> DEFINE s == IF (Entry # Null /\ Entry.status = "suspended") \/ Asked(list.seen)
                  THEN "suspended" ELSE "idle"
  <2>1. list.pc = "judge" /\ Item(s) /\ list'.pc = "history" /\ list' # list
    BY <1>a, <1>7 DEF ListJudge, Item, ListTyped, Listings
  <2>2. /\ Went(was) /\ (Asked(list.seen) => "suspended" \in was) /\ Sayable \subseteq was
    BY <2>1 DEF ListInv
  <2>3. /\ was \subseteq was' /\ (Entry = Null => "no variable" \in was') /\ (Went(was) => Went(was'))
    BY <1>2, <2>1
  <2>4. Said(s, was')
    <3>1. CASE s = "suspended"
      BY <2>2, <2>3, <3>1, SayableFacts DEF Said
    <3>2. CASE s = "idle"
      <4>1. Entry = Null \/ Entry.status \in {"idle", "end", "cancelled"}
        BY <3>2, SayableFacts DEF Statuses
      <4> QED
        BY <2>2, <2>3, <3>2, <4>1, SayableFacts DEF Said, Gone, Archived
    <3> QED
      BY <3>1, <3>2
  <2>5. s \in Words
    BY DEF Words, Statuses
  <2> HIDE DEF s
  <2> QED
    BY <1>3, <2>1, <2>4, <2>5
<1>8. ASSUME ListHistory PROVE ListInv'
  <2> DEFINE adds == list.archive /\ list.items = <<>> /\ Entry # Null /\ Entry.status \in Archived
             items == IF adds THEN <<Entry.status>> ELSE list.items
  <2>1. list.pc = "history" /\ list' = [list EXCEPT !.pc = "shown", !.items = items]
    BY <1>a, <1>8 DEF ListHistory, ListTyped, Listings
  <2>2. items \in Seq(Words)
    <3>1. list.items \in Seq(Words)
      BY <1>a DEF ListTyped, Listings
    <3>2. adds => Entry.status \in Words
      BY SayableFacts DEF Words
    <3>3. \A w \in Words : <<w>> \in Seq(Words)
      OBVIOUS
    <3> QED
      BY <3>1, <3>2, <3>3
  <2> HIDE DEF items
  <2>3. ListTyped' /\ list'.pc = "shown" /\ list'.items = items /\ list'.archive = list.archive
    BY <1>a, <2>1, <2>2 DEF ListTyped, Listings
  <2>4. /\ was \subseteq was' /\ Sayable' \subseteq was'
        /\ Entry = Null => "no variable" \in was'
        /\ Gone(was) => Gone(was')
        /\ \A s : Said(s, was) => Said(s, was')
    BY <1>2, <2>1, <2>3
  <2>5. /\ Sayable \subseteq was
        /\ (list.items = <<>> /\ Gone(was)) \/ \E s \in Words : ListedAs(s)
    BY <2>1 DEF ListInv
  <2>6. CASE adds
    <3>1. Entry.status \in Words /\ Said(Entry.status, was') /\ items = <<Entry.status>>
      BY <2>4, <2>5, <2>6, SayableFacts DEF Said, Words, items
    <3> QED
      BY <2>3, <2>4, <3>1 DEF ListInv, ListedAs
  <2>7. CASE ~adds
    <3>1. items = list.items
      BY <2>7 DEF items
    <3>2. CASE \E s \in Words : ListedAs(s)
      BY <2>3, <2>4, <3>1, <3>2 DEF ListInv, ListedAs
    <3>3. CASE list.items = <<>> /\ Gone(was)
      <4>1. list.archive => Went(was') \/ "no variable" \in was'
        BY <2>4, <2>5, <2>7, <3>3, SayableFacts DEF Went
      <4> QED
        BY <2>3, <2>4, <3>1, <3>3, <4>1 DEF ListInv
    <3> QED
      BY <2>5, <3>2, <3>3
  <2> QED
    BY <2>6, <2>7
<1> QED
  BY <1>1, <1>4, <1>6, <1>7, <1>8 DEF ListStep

-----------------------------------------------------------------------------
LEMMA SerialInit == ASSUME Init PROVE SerialInv
<1>1. Present /\ written.status = "idle"
  BY DEF Init, Present, createThreadIndexEntry
<1>2. \A p \in Proc : ~Alive(p)
  BY DEF Init, Alive
<1> QED
  BY <1>1, <1>2 DEF SerialInv, Fits, Alone

\* One command at a time, the invariants hold throughout.
LEMMA SerialInvariance == Serial => (Spec => [](LifeInv /\ SerialInv))
<1> SUFFICES ASSUME Serial PROVE Spec => [](LifeInv /\ SerialInv)
  OBVIOUS
<1>1. Init => LifeInv /\ SerialInv
  BY InitInv, SerialInit
<1>2. LifeInv /\ SerialInv /\ [Next]_vars => (LifeInv /\ SerialInv)'
  BY Inductive, SerialStep
<1> QED
  BY <1>1, <1>2, PTL DEF Spec

\* Unless a write is between its halves, or was killed there, every reader gets
\* the entry written last.
LEMMA EntryFits ==
  ASSUME LifeInv, SerialInv, Entry # Null
  PROVE  Entry = written
<1>1. Present /\ written \in Entries
  BY DEF SerialInv, Entry, LifeInv, Stored
<1>2. Entry = entryFromVariable(variableOf(written))
  BY <1>1 DEF Present, Entry
<1> QED
  BY <1>1, <1>2, RoundTrip

\* While the user waits for one command before the next, the status of a thread
\* fits its chain of steps: a thread that says "end" ends at $END, and one that
\* is suspended says a role that `thread resume' may go on with.
THEOREM StatusesFit == Serial => (Spec => []StatusFitsHead)
<1>1. LifeInv /\ SerialInv => StatusFitsHead
  BY EntryFits DEF SerialInv, StatusFitsHead, Fits, RoleFits
<1> QED
  BY <1>1, SerialInvariance, PTL

\* The status in the output of a command is the status the thread then has.
THEOREM ReportsAreTrue == Serial => (Spec => []ReportIsTrue)
<1>1. LifeInv /\ SerialInv => ReportIsTrue
  <2> SUFFICES ASSUME LifeInv, SerialInv, NEW p \in Proc, pc[p] = "done",
                      job[p].report \in Statuses
               PROVE  Entry # Null /\ Entry.status = job[p].report
    BY DEF ReportIsTrue
  <2>1. Given(p)
    BY DEF Given, LifeInv, Typing, Typed, Local
  <2>2. Settled(p) /\ Null \notin Statuses
    BY LifecycleAssumption DEF SerialInv, Alive
  <2>3. Present /\ job[p].report = written.status
    BY <2>2 DEF Settled, Stands, Works
  <2> QED
    BY <2>1, <2>3, EntryIs
<1> QED
  BY <1>1, SerialInvariance, PTL

\* A write keeps the head, appends one step to it or replaces its last one: no
\* step is lost and none comes twice, wherever a command died.
THEOREM HeadsMoveForward == Serial => (Spec => HeadMovesForward)
<1> SUFFICES ASSUME Serial PROVE Spec => HeadMovesForward
  OBVIOUS
<1>1. LifeInv /\ SerialInv /\ [Next]_vars
        => [Extends(written.head, written'.head)]_written
  BY SerialStep
<1> QED
  BY <1>1, SerialInvariance, PTL DEF Spec, HeadMovesForward

-----------------------------------------------------------------------------
\* A step of the list command, which at most deletes the marker.
LEMMA ListTouches ==
  ASSUME LifeInv, SerialInv, ListStep
  PROVE  LifeInv' /\ SerialInv'
<1>1. /\ UNCHANGED <<thread, holders, written, pc, job, term>>
      /\ marker' \in {marker, NoProc}
  BY DEF ListStep, ListActive, ListRunning, ListNotRunning, ListSweep, ListJudge,
         ListHistory, vars
<1>2. LifeInv'
  <2>1. Typing' /\ Stored'
    BY <1>1 DEF LifeInv, Typing, Stored
  <2>2. \A p \in Proc : Knows(p)' /\ Keeps(p)'
    BY <1>1 DEF LifeInv, Knows, Keeps, At, Cmd
  <2>3. MarksRunner'
    BY <1>1, LifecycleAssumption DEF LifeInv, MarksRunner, Alive, Cmd
  <2>4. ThreadKept'
    BY <1>1 DEF LifeInv, ThreadKept, Entry
  <2> QED
    BY <2>1, <2>2, <2>3, <2>4 DEF LifeInv
<1>3. \A q \in Proc : Settled(q) => Settled(q)'
  BY <1>1 DEF Settled, Stands, Reads, Works, Writes, Writing, At, Cmd, Present
<1>4. SerialInv'
  BY <1>1, <1>3 DEF SerialInv, Alone, Alive, Cmd, Present
<1> QED
  BY <1>2, <1>4

ListedInv == LifeInv /\ SerialInv /\ ListInv

LEMMA ListingInit == ASSUME ListInit PROVE ListedInv
<1>1. LifeInv /\ SerialInv
  BY InitInv, SerialInit DEF ListInit
<1>2. list = [pc |-> "idle", archive |-> FALSE, seen |-> Null, items |-> <<>>]
  BY DEF ListInit, NotListing
<1>3. <<>> \in Seq(Words)
  OBVIOUS
<1>4. ListTyped
  BY <1>2, <1>3 DEF ListTyped, Listings
<1> QED
  BY <1>1, <1>2, <1>4 DEF ListedInv, ListInv, NotListing

LEMMA ListingInductive ==
  ASSUME Serial, ListedInv, [ListNext]_listVars
  PROVE  ListedInv'
<1>1. CASE ListStep /\ Remember
  BY <1>1, ListTouches, ListingStep DEF ListedInv
<1>2. CASE Beside /\ Remember
  <2>1. LifeInv' /\ SerialInv'
    BY <1>2, Inductive, SerialStep DEF ListedInv, Beside
  <2>2. PICK p \in Proc : AnyStep(p)
    BY <1>2 DEF Beside, Next, AnyStep
  <2>3. Given(p)
    BY DEF ListedInv, Given, LifeInv, Typing, Typed, Local
  <2>4. ListInv'
    BY <1>2, <2>2, <2>3, BesideStep DEF ListedInv, Beside
  <2> QED
    BY <2>1, <2>4 DEF ListedInv
<1>3. CASE UNCHANGED listVars
  <2>1. UNCHANGED <<list, was, vars>>
    BY <1>3 DEF listVars
  <2>2. LifeInv' /\ SerialInv'
    BY <2>1, Inductive, SerialStep DEF ListedInv
  <2>3. Entry' = Entry /\ (MarkerValid' <=> MarkerValid)
    BY <2>1 DEF vars, Entry, MarkerValid, Alive
  <2>4. Sayable' = Sayable
    BY <2>3 DEF Sayable
  <2>5. ListInv'
    BY <2>1, <2>3, <2>4 DEF ListedInv, ListInv, ListTyped, ListedAs
  <2> QED
    BY <2>2, <2>5 DEF ListedInv
<1> QED
  BY <1>1, <1>2, <1>3 DEF ListNext

\* One command at a time beside a list: whatever the filter and wherever the
\* looks of the list fall among the steps of the command, the list has the thread
\* at most once, with a status it had, or as idle because it was archived or being
\* written meanwhile; and only then may the list lack it.
THEOREM ListsAreTrue == Serial => (ListSpec => []ListedTruly)
<1> SUFFICES ASSUME Serial PROVE ListSpec => []ListedTruly
  OBVIOUS
<1>1. ListedInv => ListedTruly
  <2> SUFFICES ASSUME ListedInv, list.pc = "shown",
                      NEW status \in StatusFilters, NEW all \in BOOLEAN,
                      IncludeCompleted(EffectiveFilter(status, all)) = list.archive
               PROVE  LET filter == EffectiveFilter(status, all)
                          shown == Listed(filter)
                      IN  /\ \A i, j \in shown : i = j
                          /\ \A i \in shown :
                              \/ list.items[i] \in was
                              \/ /\ list.items[i] = "idle"
                                 /\ was \cap (Archived \cup {"no variable"}) # {}
                          /\ (was \subseteq filter /\ shown = {}) =>
                              was \cap Archived # {} /\ was \ Archived # {}
    BY DEF ListedTruly
  <2> DEFINE filter == EffectiveFilter(status, all)
             shown == Listed(filter)
  <2>1. "no variable" \notin filter
    BY DEF EffectiveFilter, StatusFilters, Statuses
  <2>2. Went(was) => was \ Archived # {}
    BY DEF Went, Archived
  <2>3. was \subseteq filter => (Gone(was) => was \cap Archived # {})
    BY <2>1 DEF Gone
  <2>4. CASE list.items = <<>> /\ Gone(was) /\ (list.archive => Went(was) \/ "no variable" \in was)
    <3>1. DOMAIN list.items = {}
      <4>1. list.items \in Seq(Words) /\ Len(list.items) = 0
        BY <2>4 DEF ListedInv, ListInv, ListTyped, Listings
      <4> QED
        BY <4>1
    <3>2. shown = {}
      BY <3>1 DEF Listed
    <3>3. ASSUME was \subseteq filter PROVE was \cap Archived # {} /\ was \ Archived # {}
      <4>1. was \cap Archived # {}
        BY <2>3, <2>4, <3>3
      <4>2. list.archive
        BY <3>3, <4>1 DEF IncludeCompleted
      <4> QED
        BY <2>1, <2>2, <2>4, <3>3, <4>1, <4>2
    <3> QED
      BY <3>2, <3>3
  <2>5. ASSUME NEW s \in Words, list.items = <<s>>, Said(s, was)
        PROVE  /\ \A i, j \in shown : i = j
               /\ \A i \in shown :
                    \/ list.items[i] \in was
                    \/ list.items[i] = "idle" /\ was \cap (Archived \cup {"no variable"}) # {}
               /\ (was \subseteq filter /\ shown = {}) =>
                    was \cap Archived # {} /\ was \ Archived # {}
    <3>1. shown \subseteq {1} /\ list.items[1] = s /\ (s \in filter => shown = {1})
      BY <2>5 DEF Listed
    <3>2. s \in was \/ (s = "idle" /\ Gone(was) /\ Went(was))
      BY <2>5 DEF Said
    <3> QED
      BY <2>2, <2>3, <3>1, <3>2 DEF Gone
  <2> HIDE DEF filter, shown
  <2>6. \/ list.items = <<>> /\ Gone(was) /\ (list.archive => Went(was) \/ "no variable" \in was)
        \/ \E s \in Words : list.items = <<s>> /\ Said(s, was)
    BY DEF ListedInv, ListInv, ListedAs
  <2> QED
    <3> USE DEF filter, shown
    <3> QED
      BY <2>4, <2>5, <2>6
<1>2. ListInit => ListedInv
  BY ListingInit
<1>3. ListedInv /\ [ListNext]_listVars => ListedInv'
  BY ListingInductive
<1> QED
  BY <1>1, <1>2, <1>3, PTL DEF ListSpec
=============================================================================
