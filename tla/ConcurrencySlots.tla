-------------------------- MODULE ConcurrencySlots --------------------------
(***************************************************************************)
(* packages/cli/src/concurrency/concurrency.ts: the limit on how many      *)
(* `uwf thread exec` processes run at once.  There is no daemon and no     *)
(* lock: a process that wants to run drops a file <pid>.slot in a shared   *)
(* directory, counts the files whose process is alive, and takes its own   *)
(* file back when the count is over the limit.                             *)
(*                                                                         *)
(* A step of the model is one system call on the shared directory, or one  *)
(* kill(pid, 0) probe; between any two of them other processes act, and    *)
(* any process may be killed.  A process is named by its pid.              *)
(***************************************************************************)
EXTENDS Naturals, FiniteSets

CONSTANTS
    Proc,      \* the pids
    Limits,    \* the values that concurrency.maxRunning takes over time
    MaxRunning,\* an upper bound of them
    PidReuse,  \* whether a dead process's pid may be given to another uwf
    NoProc     \* "no file chosen for removal"

ASSUME SlotAssumption ==
    /\ IsFiniteSet(Proc)
    /\ MaxRunning \in Nat
    /\ Limits \subseteq 1 .. MaxRunning
    /\ PidReuse \in BOOLEAN
    /\ NoProc \notin Proc

VARIABLES
    slots,    \* the pids for which a .slot file exists
    pc,       \* where each process is in acquireSlot
    limit,    \* the maxRunning each process resolved when it began
    listing,  \* entries of its last readdir it has still to examine
    counted,  \* entries of its last readdir it found alive
    doomed    \* the entry it found dead and is about to remove

vars == <<slots, pc, limit, listing, counted, doomed>>

Control ==
    {"unborn",    \* not started
     "sweep",     \* at the top of the loop of acquireSlot
     "sweeping",  \* inside cleanStaleSlots
     "count",     \* about to read the directory before claiming
     "counting",  \* inside countActiveSlots, before claiming
     "claim",     \* about to write its slot file
     "recount",   \* about to read the directory after claiming
     "recounting",\* inside countActiveSlots, after claiming
     "rollback",  \* about to remove the file it just wrote
     "sleep",     \* waiting for the poll interval
     "held",      \* acquireSlot returned: it may run its agent
     "released",  \* slot given back, process about to exit
     "foreign",   \* the pid belongs to a program that is not uwf
     "dead"}

TypeOK ==
    /\ slots \in SUBSET Proc
    /\ pc \in [Proc -> Control]
    /\ limit \in [Proc -> Limits \cup {0}]
    /\ listing \in [Proc -> SUBSET Proc]
    /\ counted \in [Proc -> SUBSET Proc]
    /\ doomed \in [Proc -> Proc \cup {NoProc}]

\* isPidAlive
Alive(p) == pc[p] \notin {"unborn", "dead"}

\* The processes that believe they may run.
Holders == {p \in Proc : pc[p] = "held"}

Goto(p, label) == pc' = [pc EXCEPT ![p] = label]

-----------------------------------------------------------------------------
Init ==
    /\ slots = {}
    /\ pc = [p \in Proc |-> "unborn"]
    /\ limit = [p \in Proc |-> 0]
    /\ listing = [p \in Proc |-> {}]
    /\ counted = [p \in Proc |-> {}]
    /\ doomed = [p \in Proc |-> NoProc]

\* cmdThreadExec resolves the limit from the configuration file once, and
\* then calls acquireSlot.
Start(p) ==
    /\ pc[p] = "unborn" \/ (PidReuse /\ pc[p] = "dead")
    /\ Goto(p, "sweep")
    /\ \E n \in Limits : limit' = [limit EXCEPT ![p] = n]
    /\ UNCHANGED <<slots, listing, counted, doomed>>

\* The pid of a dead process is taken by a program that knows nothing of uwf.
Recycle(p) ==
    /\ pc[p] = "dead"
    /\ Goto(p, "foreign")
    /\ UNCHANGED <<slots, limit, listing, counted, doomed>>

\* readdir: the entries seen are those that exist now.
ReadDir(p, from, to) ==
    /\ pc[p] = from
    /\ Goto(p, to)
    /\ listing' = [listing EXCEPT ![p] = slots]
    /\ counted' = [counted EXCEPT ![p] = {}]
    /\ UNCHANGED <<slots, limit, doomed>>

SweepList(p) == ReadDir(p, "sweep", "sweeping")
CountList(p) == ReadDir(p, "count", "counting")
RecountList(p) == ReadDir(p, "recount", "recounting")

\* Mutant: cleanStaleSlots removes every file without asking who is alive.
SweepProbeUnasked(p) ==
    /\ pc[p] = "sweeping" /\ doomed[p] = NoProc
    /\ \E q \in listing[p] :
        /\ listing' = [listing EXCEPT ![p] = @ \ {q}]
        /\ doomed' = [doomed EXCEPT ![p] = q]
    /\ UNCHANGED <<slots, pc, limit, counted>>

\* cleanStaleSlots probes the next entry; a dead one is removed afterwards,
\* in a step of its own.
SweepProbe(p) ==
    /\ pc[p] = "sweeping" /\ doomed[p] = NoProc
    /\ \E q \in listing[p] :
        /\ listing' = [listing EXCEPT ![p] = @ \ {q}]
        /\ doomed' = [doomed EXCEPT ![p] = IF Alive(q) THEN NoProc ELSE q]
    /\ UNCHANGED <<slots, pc, limit, counted>>

SweepUnlink(p) ==
    /\ pc[p] = "sweeping" /\ doomed[p] # NoProc
    /\ slots' = slots \ {doomed[p]}
    /\ doomed' = [doomed EXCEPT ![p] = NoProc]
    /\ UNCHANGED <<pc, limit, listing, counted>>

SweepDone(p) ==
    /\ pc[p] = "sweeping" /\ doomed[p] = NoProc /\ listing[p] = {}
    /\ Goto(p, "count")
    /\ UNCHANGED <<slots, limit, listing, counted, doomed>>

\* countActiveSlots probes the next entry.
Probe(p) ==
    /\ pc[p] \in {"counting", "recounting"}
    /\ \E q \in listing[p] :
        /\ listing' = [listing EXCEPT ![p] = @ \ {q}]
        /\ counted' = [counted EXCEPT ![p] = IF Alive(q) THEN @ \cup {q} ELSE @]
    /\ UNCHANGED <<slots, pc, limit, doomed>>

Counted(p, phase) == pc[p] = phase /\ listing[p] = {}

\* Mutant: the comparison of the second count off by one.
OverLimitLoose(p) == Cardinality(counted[p]) > limit[p] + 1

OverLimit(p) == Cardinality(counted[p]) > limit[p]

\* The pool looks full: wait for the poll interval.
CountFull(p) ==
    /\ Counted(p, "counting")
    /\ Cardinality(counted[p]) >= limit[p]
    /\ Goto(p, "sleep")
    /\ counted' = [counted EXCEPT ![p] = {}]
    /\ UNCHANGED <<slots, limit, listing, doomed>>

CountFree(p) ==
    /\ Counted(p, "counting")
    /\ Cardinality(counted[p]) < limit[p]
    /\ Goto(p, "claim")
    /\ counted' = [counted EXCEPT ![p] = {}]
    /\ UNCHANGED <<slots, limit, listing, doomed>>

\* Mutant: the claim is not verified by a second count.
ClaimUnverified(p) ==
    /\ pc[p] = "claim"
    /\ Goto(p, "held")
    /\ slots' = slots \cup {p}
    /\ UNCHANGED <<limit, listing, counted, doomed>>

\* tryClaimSlot: write first, count again, decide.
Claim(p) ==
    /\ pc[p] = "claim"
    /\ Goto(p, "recount")
    /\ slots' = slots \cup {p}
    /\ UNCHANGED <<limit, listing, counted, doomed>>

ClaimWon(p) ==
    /\ Counted(p, "recounting")
    /\ ~OverLimit(p)
    /\ Goto(p, "held")
    /\ UNCHANGED <<slots, limit, listing, counted, doomed>>

ClaimLost(p) ==
    /\ Counted(p, "recounting")
    /\ OverLimit(p)
    /\ Goto(p, "rollback")
    /\ UNCHANGED <<slots, limit, listing, counted, doomed>>

Rollback(p) ==
    /\ pc[p] = "rollback"
    /\ Goto(p, "sleep")
    /\ slots' = slots \ {p}
    /\ counted' = [counted EXCEPT ![p] = {}]
    /\ UNCHANGED <<limit, listing, doomed>>

\* Mutant: a waiter is woken by a release, not by a timer.
WakeOnRelease(p) ==
    /\ pc[p] = "sleep" /\ \E q \in Proc : pc[q] = "released"
    /\ Goto(p, "sweep")
    /\ UNCHANGED <<slots, limit, listing, counted, doomed>>

Wake(p) ==
    /\ pc[p] = "sleep"
    /\ Goto(p, "sweep")
    /\ UNCHANGED <<slots, limit, listing, counted, doomed>>

\* SlotHandle.release() in the finally block of the exec.
Release(p) ==
    /\ pc[p] = "held"
    /\ Goto(p, "released")
    /\ slots' = slots \ {p}
    /\ counted' = [counted EXCEPT ![p] = {}]
    /\ UNCHANGED <<limit, listing, doomed>>

Forget(p) ==
    /\ listing' = [listing EXCEPT ![p] = {}]
    /\ counted' = [counted EXCEPT ![p] = {}]
    /\ doomed' = [doomed EXCEPT ![p] = NoProc]

\* SIGINT or SIGTERM while the handlers of installSlotCleanup are installed:
\* the handler unlinks the file and exits in one go.
SignalExit(p) ==
    /\ pc[p] = "held"
    /\ Goto(p, "dead")
    /\ slots' = slots \ {p}
    /\ Forget(p)
    /\ UNCHANGED limit

\* The process ends without a handler: SIGKILL, a signal while it waits for a
\* slot, a crash, or the normal exit after the release.  Its file stays.
Die(p) ==
    /\ Alive(p)
    /\ Goto(p, "dead")
    /\ Forget(p)
    /\ UNCHANGED <<slots, limit>>

-----------------------------------------------------------------------------
\* What a live process does of its own accord.  The poll timer and the end of
\* the agent's work are among it; being killed is not.
Step(p) ==
    \/ SweepList(p) \/ SweepProbe(p) \/ SweepUnlink(p) \/ SweepDone(p)
    \/ CountList(p) \/ RecountList(p) \/ Probe(p)
    \/ CountFull(p) \/ CountFree(p)
    \/ Claim(p) \/ ClaimWon(p) \/ ClaimLost(p) \/ Rollback(p)
    \/ Wake(p) \/ Release(p)

Next ==
    \E p \in Proc :
        \/ Start(p) \/ Recycle(p)
        \/ Step(p)
        \/ SignalExit(p) \/ Die(p)

Spec == Init /\ [][Next]_vars

\* The operating system schedules every live process.
FairSpec == Spec /\ \A p \in Proc : WF_vars(Step(p))

-----------------------------------------------------------------------------
Waiting(p) ==
    pc[p] \in {"sweep", "sweeping", "count", "counting", "claim",
               "recount", "recounting", "rollback", "sleep"}

\* The limit holds: whoever runs, one of the running processes was told a limit
\* that covers them all (they are told different ones when the configuration
\* changes between two execs).  tryClaimSlot's write-then-recount is what the
\* property is about: no lock orders the claims.
HoldersWithinLimit ==
    Holders # {} => \E p \in Holders : Cardinality(Holders) <= limit[p]

\* A running process is visible to everybody else's count: cleanStaleSlots of
\* another process never removes the file of a live one.
HolderHasSlot == Holders \subseteq slots

\* The slot files implement the abstract pool.
Pool == INSTANCE SlotPool WITH holders <- Holders
PoolSpec == Pool!SpecPool

\* Whatever the others did before they went away, a process left alone in the
\* loop of acquireSlot gets a slot (or is killed): the files that were left
\* behind hold no place for ever.  A process that was given the pid of a killed
\* one would find a file in its own name, count itself as another holder, and
\* with a limit of 1 never get past the count.
Alone(p) == \A q \in Proc \ {p} : pc[q] \in {"unborn", "dead", "released"}

LoneWaiterServed ==
    \A p \in Proc : <>[]Alone(p) => (Waiting(p) ~> ~Waiting(p))
=============================================================================
