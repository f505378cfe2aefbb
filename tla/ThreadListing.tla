---------------------------- MODULE ThreadListing ----------------------------
(***************************************************************************)
(* `uwf thread list' (cmdThreadList in packages/cli/src/commands/thread.ts)*)
(* beside the commands of ThreadLifecycle.  It takes no lock either: the   *)
(* active threads come from one look at the variables, the status of each  *)
(* from the marker and from a second look, the archived threads from a     *)
(* third.                                                                  *)
(***************************************************************************)
EXTENDS ThreadLifecycle

CONSTANT MaxListed \* bound: steps of the thread while it is listed

ASSUME ListingAssumption == MaxListed \in Nat

VARIABLES
    list, \* [pc, archive, seen, items]: the list command
    was   \* history: what could be said of the thread since it began

listVars == <<vars, list, was>>

Archived == {"end", "cancelled"}
NotListing == [pc |-> "idle", archive |-> FALSE, seen |-> Null, items |-> <<>>]

(* --status, nothing when it is absent (parseStatusFilter; "active" is one  *)
(* of these sets), and --all.                                               *)
StatusFilters == SUBSET (Statuses \cup {"running"})
EffectiveFilter(status, all) ==
    IF status # {} THEN status
    ELSE IF all THEN Statuses \cup {"running"} ELSE {"idle", "running"}

(* Filters differ in what the command looks at only in this: does it look   *)
(* at the archived threads, too?                                            *)
IncludeCompleted(filter) == filter \cap Archived # {}
ArchiveLooks ==
    {IncludeCompleted(EffectiveFilter(status, all)) : status \in StatusFilters, all \in BOOLEAN}

(* Bounds: no stop is run while the thread is listed, nor does it grow past *)
(* MaxListed steps.                                                         *)
Listable ==
    /\ \A p \in Proc : Cmd(p) \notin Bystanders
    /\ Len(written.head) <= MaxListed

(* What may rightly be said of the thread at this moment; for its running   *)
(* the marker has the word (MarkerTrusted says what that is worth).         *)
Sayable ==
    (IF MarkerValid THEN {"running"} ELSE {})
    \cup (IF Entry = Null THEN {}
          ELSE {Entry.status}
               \cup (IF Entry.status \notin Archived /\ Asked(Entry.head) THEN {"suspended"} ELSE {}))

Item(status) == list' = [list EXCEPT !.pc = "history", !.seen = Null,
                                     !.items = Append(@, status)]

-----------------------------------------------------------------------------
(* loadActiveThreads *)
ListActive(archive) ==
    /\ list.pc = "idle"
    /\ Listable
    /\ list' = [list EXCEPT
                  !.archive = archive,
                  !.pc = IF Entry = Null \/ Entry.status \in Archived THEN "history" ELSE "marker",
                  !.seen = IF Entry = Null \/ Entry.status \in Archived THEN Null ELSE Entry.head]
    /\ UNCHANGED vars

(* resolveActiveThreadStatus: a valid marker decides, a stale one is deleted *)
ListRunning ==
    /\ list.pc = "marker" /\ MarkerValid
    /\ Item("running")
    /\ UNCHANGED vars

ListNotRunning ==
    /\ list.pc = "marker" /\ ~MarkerValid
    /\ list' = [list EXCEPT !.pc = IF marker = NoProc THEN "judge" ELSE "sweep"]
    /\ UNCHANGED vars

ListSweep ==
    /\ list.pc = "sweep"
    /\ list' = [list EXCEPT !.pc = "judge"]
    /\ marker' = NoProc
    /\ UNCHANGED <<thread, holders, written, pc, job, term>>

(* ... then the entry as it is now, then the head as it was. *)
ListJudge ==
    /\ list.pc = "judge"
    /\ Item(IF (Entry # Null /\ Entry.status = "suspended") \/ Asked(list.seen)
            THEN "suspended" ELSE "idle")
    /\ UNCHANGED vars

\* Mutant: a thread that was active a moment ago is listed once more.
ListHistoryAgain ==
    /\ list.pc = "history"
    /\ list' = [list EXCEPT
                  !.pc = "shown",
                  !.items = IF list.archive /\ Entry # Null /\ Entry.status \in Archived
                            THEN Append(@, Entry.status) ELSE @]
    /\ UNCHANGED vars

(* collectCompletedThreads, without the threads that are listed already. *)
ListHistory ==
    /\ list.pc = "history"
    /\ list' = [list EXCEPT
                  !.pc = "shown",
                  !.items = IF list.archive /\ @ = <<>> /\ Entry # Null
                               /\ Entry.status \in Archived
                            THEN <<Entry.status>> ELSE @]
    /\ UNCHANGED vars

(* The filter is applied at the end: the items it leaves. *)
Listed(filter) == {i \in DOMAIN list.items : list.items[i] \in filter}

ListStep ==
    \/ \E archive \in ArchiveLooks : ListActive(archive)
    \/ ListRunning \/ ListNotRunning \/ ListSweep \/ ListJudge \/ ListHistory

-----------------------------------------------------------------------------
ListInit == Init /\ list = NotListing /\ was = {}

Remember ==
    was' = IF list'.pc = "idle" THEN {}
           ELSE was \cup Sayable'
                    \cup (IF list' # list /\ Entry = Null THEN {"no variable"} ELSE {})

(* What happens after the list has been shown is of no interest. *)
Beside ==
    /\ list.pc # "shown"
    /\ Next
    /\ UNCHANGED list
    /\ list'.pc # "idle" => Listable'

ListNext == (ListStep \/ Beside) /\ Remember

ListSpec == ListInit /\ [][ListNext]_listVars

-----------------------------------------------------------------------------
(* Whatever the filter, a list has the thread at most once, with a status it *)
(* had while the command ran, but for one it calls idle because the thread  *)
(* was archived between its looks or because one of them fell between the   *)
(* two halves of setThread.  A thread that had none but statuses of the     *)
(* filter all the while is in the list, unless a look fell there or it was  *)
(* archived for a part of that time.                                        *)
ListedTruly ==
    list.pc = "shown" =>
        \A status \in StatusFilters, all \in BOOLEAN :
            LET filter == EffectiveFilter(status, all)
                shown == Listed(filter)
            IN  IncludeCompleted(filter) = list.archive =>
                /\ \A i, j \in shown : i = j
                /\ \A i \in shown :
                    \/ list.items[i] \in was
                    \/ list.items[i] = "idle" /\ was \cap (Archived \cup {"no variable"}) # {}
                /\ (was \subseteq filter /\ shown = {}) =>
                    was \cap Archived # {} /\ was \ Archived # {}
=============================================================================
