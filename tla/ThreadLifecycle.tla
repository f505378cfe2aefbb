-------------------------- MODULE ThreadLifecycle --------------------------
(***************************************************************************)
(* The commands of `uwf thread` on one thread, run by any number of        *)
(* processes at once: packages/cli/src/commands/thread.ts over             *)
(* packages/cli/src/store.ts and packages/cli/src/background.              *)
(*                                                                         *)
(* No lock protects a thread.  The processes share the variable of the     *)
(* thread, which a write removes and then sets again; the running marker,  *)
(* a file that names the process of an exec; and the concurrency slots,    *)
(* here the abstract pool that ConcurrencySlots implements.  A step of the *)
(* model is one access to what is shared.  A process may be killed between *)
(* any two steps.                                                          *)
(***************************************************************************)
EXTENDS ThreadIndex, FiniteSets, SequencesExt

CONSTANTS
    Proc,         \* the processes that run commands
    NoProc,       \* no running marker
    Commands,     \* the commands the user may run
    StartTarget,  \* where the edge "new" of $START leads
    ResumeTarget, \* where the edge "resume" of $START leads
    Outcomes,     \* the targets that the outputs of agents lead to
    MaxRunning,   \* concurrency.maxRunning
    MaxCount,     \* bound of --count
    MaxSteps,     \* bound of the length of a chain
    Serial,       \* whether the user waits for a command before the next one
    Kills,        \* whether processes may be killed from outside
    StartTimes    \* whether getProcessStartTime finds a time, as on Linux

ASSUME LifecycleAssumption ==
    /\ NoProc \notin Proc
    /\ StartTarget \in Targets
    /\ ResumeTarget \in Roles
    /\ Outcomes \subseteq Targets
    /\ Null \notin Roles \cup Statuses \cup {"asked", "failed", "a time"}
    /\ Null \notin Entries
    /\ {END, SUSPEND, Stuck} \cap Roles = {}
    /\ Cardinality({END, SUSPEND, Stuck}) = 3
    /\ MaxRunning \in Nat /\ MaxCount \in Nat /\ MaxSteps \in Nat
    /\ Serial \in BOOLEAN /\ Kills \in BOOLEAN /\ StartTimes \in BOOLEAN

\* An exec in the background is continued by a detached worker.
Runners == {"exec", "worker"}

\* Commands that read the thread only, and may delete its marker; show stands
\* for list as well.
Bystanders == {"stop", "join", "show"}

AllCommands ==
    Runners \cup Bystanders \cup {"background", "resume", "poke", "cancel"}

ASSUME CommandsAssumption == Commands \subseteq AllCommands \ {"worker"}

VARIABLES
    thread,  \* the variables named @uwf/thread/<id>
    marker,  \* the process named by running/<id>.json, or NoProc
    holders, \* the processes that hold a concurrency slot
    pc,      \* where each process is
    job,     \* what each process has read and is about to write
    term,    \* SIGTERM sent and not yet delivered
    written  \* the last entry written: a history variable

shared == <<thread, marker, holders, written>>
vars == <<thread, marker, holders, pc, job, term, written>>

Slots == INSTANCE SlotPool

Control ==
    {"gone",     \* not running; a later command may use the process
     "look",     \* join, stop, cancel: about to read the entry
     "check",    \* about to call isThreadRunning
     "sweep",    \* about to delete a marker found stale
     "enter",    \* exec: about to resolve the workflow of the thread
     "mark",     \* about to create the marker
     "slot",     \* waiting in acquireSlot
     "open",     \* resume, poke, join, show: about to read the entry
     "recheck",  \* isThreadRunning, for the status of the entry read
     "judge",    \* resume: about to read the entry again, for the status
     "read",     \* about to begin cmdThreadStepOnce
     "agent",    \* the agent works
     "failed",   \* about to read the entry that gets suspended
     "route",    \* the step is stored: about to evaluate the graph
     "archive",  \* about to call completeThread
     "remove",   \* setThread, first half
     "put",      \* setThread, second half
     "release",  \* about to release the slot
     "unmark",   \* about to delete the marker
     "aim",      \* stop, cancel: about to read the marker
     "drop",     \* stop, cancel: about to delete the marker
     "done",     \* about to exit
     "torn"}     \* killed between the halves of setThread

Reports == Statuses \cup {"failed", Null}

NoJob ==
    [cmd |-> Null,    \* the command
     left |-> 0,      \* the steps an exec may still take
     seen |-> Null,   \* the entry the command works from
     role |-> Null,   \* the role of the step under way
     fresh |-> Null,  \* the target of the step just taken
     wr |-> Null,     \* the entry being written
     then |-> "done", \* where to go after the write or the sweep
     report |-> Null, \* the status in the output, or a non-zero exit
     stamped |-> FALSE] \* a marker with its pid has its start time

Jobs ==
    [cmd : AllCommands \cup {Null}, left : 0 .. MaxCount,
     seen : Entries \cup {Null}, role : Roles \cup {Null},
     fresh : Targets \cup {Null}, wr : Entries \cup {Null},
     then : Control, report : Reports, stamped : BOOLEAN]

TypeOK ==
    /\ \A v \in thread : entryFromVariable(v) \in Entries
    /\ marker \in Proc \cup {NoProc}
    /\ holders \in SUBSET Proc
    /\ pc \in [Proc -> Control]
    /\ job \in [Proc -> Jobs]
    /\ term \in [Proc -> BOOLEAN]
    /\ written \in Entries

-----------------------------------------------------------------------------
\* getThread takes the first variable of that name, whichever the library
\* lists first.
Entry ==
    IF thread = {} THEN Null
    ELSE entryFromVariable(CHOOSE v \in thread : TRUE)

\* getThread(...) ?? createThreadIndexEntry(head)
EntryOr(head) == IF Entry = Null THEN createThreadIndexEntry(head) ELSE Entry

Alive(p) == pc[p] \notin {"gone", "torn"}

\* Mutant: a marker counts whoever it names, dead or alive.
MarkerPresent == marker # NoProc

\* Mutant: the start times are not compared.
MarkerPidAlive == marker # NoProc /\ Alive(marker)

\* isMarkerValid: the start time in the marker tells a process from a later
\* one with the same pid.  Without start times a live pid is enough.
MarkerValid ==
    /\ marker # NoProc
    /\ Alive(marker)
    /\ StartTimes => job[marker].stamped

Cmd(p) == job[p].cmd

\* The moderator's answer for a head, evaluate included.
Target(head) == IF head = <<>> THEN StartTarget ELSE Last(head).to
Asked(head) == head # <<>> /\ Last(head).to = SUSPEND

\* Mutant: a resumed step replaces the last one as well.
BaseReplacing(p) ==
    LET head == job[p].seen.head
    IN IF Cmd(p) \in {"poke", "resume"} THEN Front(head) ELSE head

\* The chain the next step is appended to: a poke replaces the last step.
Base(p) ==
    LET head == job[p].seen.head
    IN IF Cmd(p) = "poke" THEN Front(head) ELSE head

NewHead(p) == Append(Base(p), [role |-> job[p].role, to |-> job[p].fresh])

Goto(p, label) == pc' = [pc EXCEPT ![p] = label]

\* Where a command goes when it has nothing more to do with the thread.
Quit(p) == IF Cmd(p) \in Runners THEN "release" ELSE "done"

\* Begin setThread(entry), report r, and go on at next.
Write(p, entry, r, next) ==
    /\ Goto(p, "remove")
    /\ job' = [job EXCEPT ![p].wr = entry, ![p].then = next, ![p].report = r]
    /\ UNCHANGED <<shared, term>>

Report(p, r, label) ==
    /\ Goto(p, label)
    /\ job' = [job EXCEPT ![p].report = r]
    /\ UNCHANGED <<shared, term>>

Move(p, from, to) ==
    /\ pc[p] = from
    /\ Goto(p, to)
    /\ UNCHANGED <<shared, job, term>>

-----------------------------------------------------------------------------
\* cmdThreadStart has created the thread.
Init ==
    /\ written = createThreadIndexEntry(<<>>)
    /\ thread = {variableOf(written)}
    /\ marker = NoProc
    /\ Slots!InitPool
    /\ pc = [p \in Proc |-> "gone"]
    /\ job = [p \in Proc |-> NoJob]
    /\ term = [p \in Proc |-> FALSE]

\* What a command begins with.
FirstOf(c) ==
    CASE c \in {"join", "stop", "cancel"} -> "look"
      [] c = "show" -> "open"
      [] OTHER -> "check"

\* The user runs a command.  Its pid may be that of an earlier process, whose
\* marker may still be there.
Launch(p, c) ==
    /\ pc[p] = "gone"
    /\ Serial => c \in Bystanders \/
                 \A q \in Proc : Alive(q) => Cmd(q) \in Bystanders
    /\ Goto(p, FirstOf(c))
    /\ \E n \in 1 .. MaxCount :
        /\ n > 1 => c \in {"exec", "background"}
        /\ job' = [job EXCEPT ![p] = [NoJob EXCEPT !.cmd = c, !.left = n]]
    /\ UNCHANGED <<shared, term>>

\* isThreadRunning: where a command goes when no marker is in its way.
Cleared(p) ==
    CASE pc[p] = "recheck" -> IF Cmd(p) = "resume" THEN "judge" ELSE "done"
      [] Cmd(p) \in {"exec", "background"} -> "enter"
      [] OTHER -> "open"

Checking(p) == pc[p] \in {"check", "recheck"}

CheckFree(p) ==
    /\ Checking(p) /\ marker = NoProc
    /\ Goto(p, Cleared(p))
    /\ UNCHANGED <<shared, job, term>>

\* A valid marker: exec, resume and poke refuse, the first wait of join polls
\* again later, and the status in an output is "running".
CheckBusy(p) ==
    /\ Checking(p) /\ MarkerValid
    /\ Cmd(p) # "join" \/ pc[p] = "recheck"
    /\ Goto(p, "done")
    /\ UNCHANGED <<shared, job, term>>

\* A stale marker is deleted in a step of its own.
CheckStale(p) ==
    /\ Checking(p) /\ marker # NoProc /\ ~MarkerValid
    /\ Goto(p, "sweep")
    /\ job' = [job EXCEPT ![p].then = Cleared(p)]
    /\ UNCHANGED <<shared, term>>

Sweep(p) ==
    /\ pc[p] = "sweep"
    /\ Goto(p, job[p].then)
    /\ marker' = NoProc
    /\ UNCHANGED <<thread, holders, written, job, term>>

-----------------------------------------------------------------------------
\* cmdThreadExec.  In the background, the command returns and a detached worker
\* goes on, which does not check the marker again; the model keeps the process.
EnterGone(p) == Move(p, "enter", "done") /\ Entry = Null

Spawn(p) ==
    /\ pc[p] = "enter" /\ Entry # Null
    /\ Cmd(p) = "background"
    /\ job' = [job EXCEPT ![p].cmd = "worker"]
    /\ UNCHANGED <<shared, pc, term>>

Enter(p) ==
    /\ Entry # Null /\ Cmd(p) \in Runners
    /\ Move(p, "enter", "mark")

\* createMarker: whatever marker is there is replaced.
Mark(p) ==
    /\ pc[p] = "mark"
    /\ Goto(p, "slot")
    /\ marker' = p
    /\ job' = [job EXCEPT ![p].stamped = TRUE]
    /\ UNCHANGED <<thread, holders, written, term>>

AcquireSlot(p) ==
    /\ pc[p] = "slot"
    /\ Goto(p, "read")
    /\ Slots!Acquire(p)
    /\ UNCHANGED <<thread, marker, written, job, term>>

\* Mutant: the slot is not given back.
ReleaseSlotLeaks(p) == Move(p, "release", "unmark")

\* The finally block.
ReleaseSlot(p) ==
    /\ pc[p] = "release"
    /\ Goto(p, "unmark")
    /\ Slots!Release(p)
    /\ UNCHANGED <<thread, marker, written, job, term>>

\* deleteMarker: whatever marker is there is deleted.
Unmark(p) ==
    /\ pc[p] = "unmark"
    /\ Goto(p, "done")
    /\ marker' = NoProc
    /\ UNCHANGED <<thread, holders, written, job, term>>

-----------------------------------------------------------------------------
\* cmdThreadResume, and the end of cmdThreadJoin and cmdThreadShow:
\* resolveActiveThreadStatus for a thread that is not archived.
OpenActive(p) ==
    /\ pc[p] = "open" /\ Cmd(p) # "poke"
    /\ Entry # Null /\ Entry.status \notin {"end", "cancelled"}
    /\ Goto(p, "recheck")
    /\ job' = [job EXCEPT ![p].seen = Entry]
    /\ UNCHANGED <<shared, term>>

\* Mutant: the entry keeps the date of its completion.
ReopenDated(p) ==
    /\ pc[p] = "open" /\ Cmd(p) = "resume"
    /\ Entry # Null /\ Entry.status = "end"
    /\ Goto(p, "remove")
    /\ job' = [job EXCEPT ![p].wr = [Entry EXCEPT !.status = "idle"],
                          ![p].then = "read",
                          ![p].role = ResumeTarget]
    /\ UNCHANGED <<shared, term>>

\* A finished thread is entered again through the edge "resume" of $START.
Reopen(p) ==
    /\ pc[p] = "open" /\ Cmd(p) = "resume"
    /\ Entry # Null /\ Entry.status = "end"
    /\ Goto(p, "remove")
    /\ job' = [job EXCEPT
                 ![p].wr = [Entry EXCEPT !.status = "idle", !.completedAt = Null],
                 ![p].then = "read",
                 ![p].role = ResumeTarget]
    /\ UNCHANGED <<shared, term>>

\* resolveActiveThreadStatus takes the status from the entry it reads itself,
\* or else from the head; the role comes from the entry read before, or else
\* from the head.
SuspendedNow(p) ==
    (Entry # Null /\ Entry.status = "suspended") \/ Asked(job[p].seen.head)

RoleToResume(p) ==
    LET seen == job[p].seen
    IN  IF seen.suspendedRole # Null THEN seen.suspendedRole
        ELSE IF Asked(seen.head) THEN Last(seen.head).role ELSE Null

Judge(p) ==
    /\ pc[p] = "judge"
    /\ SuspendedNow(p) /\ RoleToResume(p) # Null
    /\ Goto(p, "read")
    /\ job' = [job EXCEPT ![p].role = RoleToResume(p)]
    /\ UNCHANGED <<shared, term>>

JudgeRefuses(p) ==
    /\ Move(p, "judge", "done")
    /\ ~SuspendedNow(p) \/ RoleToResume(p) = Null

\* cmdThreadPoke: the role of the last step runs again.
Pokable == /\ Entry # Null /\ Entry.status \notin {"end", "cancelled"}
           /\ Entry.head # <<>>

OpenPoke(p) ==
    /\ pc[p] = "open" /\ Cmd(p) = "poke" /\ Pokable
    /\ Goto(p, "agent")
    /\ job' = [job EXCEPT ![p].seen = Entry, ![p].role = Last(Entry.head).role]
    /\ UNCHANGED <<shared, term>>

OpenRefuses(p) ==
    /\ Move(p, "open", "done")
    /\ \/ Entry = Null
       \/ Entry # Null /\ Entry.status = "cancelled"
       \/ Cmd(p) = "poke" /\ ~Pokable
       \/ Cmd(p) \in Bystanders /\ Entry # Null /\ Entry.status = "end"

-----------------------------------------------------------------------------
\* cmdThreadStepOnce
ReadGone(p) == Entry = Null /\ Move(p, "read", Quit(p))

\* With a resume target the moderator is not asked.
ReadResume(p) ==
    /\ pc[p] = "read" /\ Entry # Null
    /\ Cmd(p) = "resume"
    /\ Goto(p, "agent")
    /\ job' = [job EXCEPT ![p].seen = Entry]
    /\ UNCHANGED <<shared, term>>

ReadTarget(p) ==
    /\ pc[p] = "read" /\ Entry # Null
    /\ Cmd(p) \in Runners /\ Target(Entry.head) \in Roles
    /\ Goto(p, "agent")
    /\ job' = [job EXCEPT ![p].seen = Entry, ![p].role = Target(Entry.head)]
    /\ UNCHANGED <<shared, term>>

\* Mutant: the metadata is not brought up to date.
ReadSuspendedUnwritten(p) ==
    /\ pc[p] = "read" /\ Entry # Null
    /\ Cmd(p) \in Runners /\ Asked(Entry.head)
    /\ Report(p, "suspended", Quit(p))

\* The head asked for help: ensureThreadSuspendMetadata.
ReadSuspended(p) ==
    /\ pc[p] = "read" /\ Entry # Null
    /\ Cmd(p) \in Runners /\ Asked(Entry.head)
    /\ IF Entry.suspendedRole # Null /\ Entry.suspendMessage # Null
       THEN Report(p, "suspended", Quit(p))
       ELSE Write(p, markThreadSuspended(Entry, Last(Entry.head).role, "asked"),
                  "suspended", Quit(p))

ReadEnd(p) ==
    /\ pc[p] = "read" /\ Entry # Null
    /\ Cmd(p) \in Runners /\ Target(Entry.head) = END
    /\ Report(p, "end", "archive")

\* failStep outside of the try block: the thread is left as it is.
ReadStuck(p) ==
    /\ Move(p, "read", Quit(p))
    /\ Entry # Null
    /\ Cmd(p) \in Runners /\ Target(Entry.head) = Stuck

-----------------------------------------------------------------------------
\* executeBrokerStep returned a step: the head advances to it.
AgentDone(p) ==
    /\ pc[p] = "agent" /\ Len(Base(p)) < MaxSteps
    /\ Goto(p, "remove")
    /\ \E to \in Outcomes :
        LET step == [role |-> job[p].role, to |-> to]
        IN job' = [job EXCEPT
                     ![p].fresh = to,
                     ![p].wr = updateThreadHead(Entry, Append(Base(p), step)),
                     ![p].report = "idle",
                     ![p].then = IF Cmd(p) = "poke" THEN "done" ELSE "route"]
    /\ UNCHANGED <<shared, term>>

\* It returned a failed step: the head stays and the thread is suspended, in
\* the entry as it is now, or, for a poke, as it was when the poke began.
AgentErrs(p) ==
    /\ pc[p] = "agent"
    /\ IF Cmd(p) = "poke"
       THEN Write(p, markThreadSuspended(job[p].seen, job[p].role, "failed"),
                  "suspended", "done")
       ELSE Report(p, "suspended", "failed")

\* It threw: an Error of the broker is no StepFailureError, so the catch block
\* only throws it on.
AgentThrows(p) == pc[p] = "agent" /\ Report(p, "failed", Quit(p))

Failed(p) ==
    /\ pc[p] = "failed"
    /\ Write(p, markThreadSuspended(EntryOr(job[p].seen.head), job[p].role, "failed"),
             job[p].report, Quit(p))

\* Mutant: the role is taken from the head as it was before the step.
RouteSuspendOldRole(p) ==
    /\ pc[p] = "route" /\ job[p].fresh = SUSPEND
    /\ LET role == IF Base(p) = <<>> THEN job[p].role ELSE Last(Base(p)).role
       IN Write(p, markThreadSuspended(EntryOr(NewHead(p)), role, "asked"),
                "suspended", Quit(p))

\* finalizeAgentStep, after the head has advanced
RouteSuspend(p) ==
    /\ pc[p] = "route" /\ job[p].fresh = SUSPEND
    /\ Write(p, markThreadSuspended(EntryOr(NewHead(p)), job[p].role, "asked"),
             "suspended", Quit(p))

RouteStuck(p) ==
    /\ pc[p] = "route" /\ job[p].fresh = Stuck
    /\ Report(p, "failed", "failed")

RouteEnd(p) ==
    /\ pc[p] = "route" /\ job[p].fresh = END
    /\ Report(p, "end", "archive")

\* The loop of cmdThreadExec over --count; the other commands take one step.
RouteOn(p) ==
    /\ pc[p] = "route" /\ job[p].fresh \in Roles
    /\ Cmd(p) \in Runners /\ job[p].left > 1
    /\ Goto(p, "read")
    /\ job' = [job EXCEPT ![p].left = @ - 1]
    /\ UNCHANGED <<shared, term>>

RouteStop(p) ==
    /\ Move(p, "route", Quit(p))
    /\ job[p].fresh \in Roles
    /\ Cmd(p) \notin Runners \/ job[p].left <= 1

\* completeThread: silent when the entry is not there.
ArchiveGone(p) == Entry = Null /\ Move(p, "archive", Quit(p))

Archive(p) ==
    /\ pc[p] = "archive" /\ Entry # Null
    /\ LET reason == IF Cmd(p) = "cancel" THEN "cancelled" ELSE "end"
       IN Write(p, markThreadCompleted(Entry, reason), reason, Quit(p))

\* setThread: remove the variables of that name, then set the variable of the
\* head's schema, with the tags of the entry.
SameSchema(v, entry) == (v.value = <<>>) = (entry.head = <<>>)

Unset(p) ==
    /\ pc[p] = "remove"
    /\ Goto(p, "put")
    /\ thread' = {}
    /\ UNCHANGED <<marker, holders, written, job, term>>

Set(p) ==
    /\ pc[p] = "put"
    /\ Goto(p, job[p].then)
    /\ thread' = {v \in thread : ~SameSchema(v, job[p].wr)}
                     \cup {variableOf(job[p].wr)}
    /\ written' = job[p].wr
    /\ job' = [job EXCEPT ![p].wr = Null]
    /\ UNCHANGED <<marker, holders, term>>

-----------------------------------------------------------------------------
\* cmdThreadJoin, cmdThreadStop and cmdThreadCancel begin with the entry.
Look(p) ==
    /\ Entry # Null
    /\ Move(p, "look", IF Cmd(p) = "join" THEN "check" ELSE "aim")

LookGone(p) == Entry = Null /\ Move(p, "look", "done")

\* Read the marker; SIGTERM goes to its process if that is alive.
Aim(p) ==
    /\ pc[p] = "aim" /\ marker # NoProc
    /\ Goto(p, "drop")
    /\ term' = IF MarkerValid THEN [term EXCEPT ![marker] = TRUE] ELSE term
    /\ UNCHANGED <<shared, job>>

AfterStop(p) == IF Cmd(p) = "cancel" THEN "archive" ELSE "done"

AimNothing(p) == marker = NoProc /\ Move(p, "aim", AfterStop(p))

\* The marker is deleted at once, whether or not its process is gone.
Drop(p) ==
    /\ pc[p] = "drop"
    /\ Goto(p, AfterStop(p))
    /\ marker' = NoProc
    /\ UNCHANGED <<thread, holders, written, job, term>>

Exit(p) ==
    /\ pc[p] = "done"
    /\ Goto(p, "gone")
    /\ job' = [job EXCEPT ![p] = NoJob]
    /\ term' = [term EXCEPT ![p] = FALSE]
    /\ UNCHANGED shared

End(p, label) ==
    /\ Goto(p, label)
    /\ job' = [job EXCEPT ![p] = NoJob]
    /\ term' = [term EXCEPT ![p] = FALSE]
    /\ IF p \in holders THEN Slots!Release(p) ELSE UNCHANGED holders
    /\ UNCHANGED <<thread, marker, written>>

\* SIGTERM reaches an exec while it awaits something: the handler of
\* installSlotCleanup, or the default without one.  Any other process it ends
\* at once.  The marker stays.
Awaiting == {"slot", "read", "agent", "failed", "release", "unmark", "done"}

Die(p) == Alive(p) /\ End(p, IF pc[p] = "put" THEN "torn" ELSE "gone")

Terminate(p) ==
    /\ term[p]
    /\ Cmd(p) \in Runners => pc[p] \in Awaiting
    /\ Die(p)

\* SIGKILL, a power failure, a crash.
Kill(p) == Kills /\ Die(p)

-----------------------------------------------------------------------------
Marker(p) == CheckFree(p) \/ CheckBusy(p) \/ CheckStale(p) \/ Sweep(p)

ExecStep(p) ==
    \/ EnterGone(p) \/ Spawn(p) \/ Enter(p) \/ Mark(p)
    \/ AcquireSlot(p) \/ ReleaseSlot(p) \/ Unmark(p)

ResumeStep(p) ==
    \/ OpenActive(p) \/ Reopen(p) \/ Judge(p) \/ JudgeRefuses(p)
    \/ OpenPoke(p) \/ OpenRefuses(p)

StepOnce(p) ==
    \/ ReadGone(p) \/ ReadResume(p) \/ ReadTarget(p)
    \/ ReadSuspended(p) \/ ReadEnd(p) \/ ReadStuck(p)
    \/ AgentDone(p) \/ AgentErrs(p) \/ AgentThrows(p) \/ Failed(p)
    \/ RouteSuspend(p) \/ RouteStuck(p) \/ RouteEnd(p)
    \/ RouteOn(p) \/ RouteStop(p)

StoreStep(p) == ArchiveGone(p) \/ Archive(p) \/ Unset(p) \/ Set(p)

StopStep(p) ==
    Look(p) \/ LookGone(p) \/ Aim(p) \/ AimNothing(p) \/ Drop(p)

Step(p) ==
    \/ Marker(p) \/ ExecStep(p) \/ ResumeStep(p) \/ StepOnce(p)
    \/ StoreStep(p) \/ StopStep(p) \/ Exit(p)

Next ==
    \E p \in Proc :
        \/ \E c \in Commands : Launch(p, c)
        \/ Step(p)
        \/ Terminate(p)
        \/ Kill(p)

Spec == Init /\ [][Next]_vars

\* The system runs every process; agents return or fail.
FairSpec == Spec /\ \A p \in Proc : WF_vars(Step(p))

-----------------------------------------------------------------------------
\* Whatever is interleaved and whoever is killed, no write leaves an entry
\* whose status and metadata disagree: markThreadSuspended over an entry read
\* long ago, the spread of `resume` over an archived entry.
EntryWellFormed == Entry # Null => WellFormed(Entry)

\* Where start times can be read, a marker that passes isMarkerValid names a
\* process that is executing this thread, also when pids are used again: a
\* command it turns away, and a signal of stop or cancel, concern a runner and
\* nobody else.
MarkerTrusted ==
    StartTimes /\ MarkerValid =>
        /\ Cmd(marker) \in Runners
        /\ pc[marker] \notin {"enter", "mark", "done"}

\* setThread removes the variable first.  Nobody but a process between its two
\* halves, or killed there, makes the thread disappear: not stop, not cancel.
ThreadKept ==
    Entry = Null => \E p \in Proc : pc[p] \in {"put", "torn"}

\* One command at a time: the status fits the chain of steps.  A thread that
\* says "end" ends its chain at $END, and the role a suspended thread will
\* resume with is the one that follows from the head, or the role of the head's
\* last step, whatever mix of exec, poke, resume, failures and kills led there.
RoleDue(head) ==
    IF Target(head) \in Roles THEN Target(head)
    ELSE IF Target(head) = END THEN ResumeTarget ELSE Last(head).role

StatusFitsHead ==
    Entry # Null =>
        /\ Entry.status = "end" => Target(Entry.head) = END
        /\ Entry.status = "suspended" =>
            \/ Entry.suspendedRole = RoleDue(Entry.head)
            \/ Entry.head # <<>> /\ Entry.suspendedRole = Last(Entry.head).role

\* One command at a time: a write keeps the head, appends one step, or
\* replaces the last one (poke); no step is lost and none comes twice.
Extends(old, new) ==
    \/ new = old
    \/ new # <<>> /\ Front(new) = old
    \/ /\ new # <<>> /\ old # <<>> /\ Front(new) = Front(old)
       /\ Last(new).role = Last(old).role

HeadMovesForward == [][Extends(written.head, written'.head)]_written

\* One command at a time: the status in the output of a command is the status
\* of the thread when it exits.
ReportIsTrue ==
    \A p \in Proc :
        pc[p] = "done" /\ job[p].report \in Statuses =>
            Entry # Null /\ Entry.status = job[p].report

\* Every command comes to an end or waits for a slot that a live exec holds,
\* but for a join while others go on to run the thread.  (The poll of
\* acquireSlot does not queue: an exec may lose every race for a slot.)
CommandsFinish ==
    \A p \in Proc :
        Alive(p) /\ Cmd(p) # "join"
            ~> \/ ~Alive(p)
               \/ pc[p] = "slot" /\ \E q \in holders \ {p} : Alive(q)

\* Where start times can be read, a join returns when the thread is left alone
\* from some time on.  (Without them a join whose own pid is in the marker of a
\* dead exec waits for itself.)
Running(p) == Alive(p) /\ Cmd(p) \in Runners \cup {"background"}

JoinReturns ==
    StartTimes => \A p \in Proc :
        <>[](\A q \in Proc : ~Running(q)) =>
            (Cmd(p) = "join" ~> Cmd(p) # "join")

=============================================================================
