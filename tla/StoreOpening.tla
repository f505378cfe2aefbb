---------------------------- MODULE StoreOpening ----------------------------
(***************************************************************************)
(* Opening the store (createUwfStore of packages/cli/src/store.ts): before *)
(* a command does anything, what older versions left behind is carried     *)
(* over into variables, one source after the other: workflows.yaml,        *)
(* threads.yaml, history.jsonl, and the variables @uwf/history/*.  A       *)
(* source is given up (renamed, or its variable removed) only when it has  *)
(* been carried over, so a kill in between has the next command start it   *)
(* again.  One command is at work at a time.                               *)
(*                                                                         *)
(* A record of a source is [id, form, status]: a thread or workflow name,  *)
(* "string", "object" or "broken", and the old status.                     *)
(***************************************************************************)
EXTENDS Naturals, Sequences

CONSTANTS
    Ids,     \* thread ids and workflow names
    Absent   \* no file, no variable

SourceNames == <<"workflows.yaml", "threads.yaml", "history.jsonl", "@uwf/history">>
OldStatuses == {"idle", "suspended", "completed", "end", "cancelled"}
Records == [id : Ids, form : {"string", "object", "broken"}, status : OldStatuses]
Entries == [head : Nat, status : {"idle", "suspended", "end", "cancelled"}]

VARIABLES
    sources,  \* what is left of each source: a sequence of records, or Absent
    registry, \* the workflow names with a variable
    threads,  \* @uwf/thread/*: an entry, or Absent
    opening   \* [at, todo, phase]: the source in work, its records to do, and
              \* how far the first of them is

openVars == <<sources, registry, threads, opening>>

LastSource == Len(SourceNames)
Closed == [at |-> 0, todo |-> <<>>, phase |-> "next"]
Opened == opening.at > LastSource

OpenInit(legacy) ==
    /\ sources = legacy
    /\ registry = {}
    /\ threads = [id \in Ids |-> Absent]
    /\ opening = Closed

(* normalizeThreadIndexEntry, and the entries the two history migrations    *)
(* make: the entry of a record.  Head 0 stands for what was there before.   *)
EntryOf(s, r) ==
    [head |-> 0,
     status |->
        IF s > 2 THEN IF r.status = "cancelled" THEN "cancelled" ELSE "end"
        ELSE IF r.form = "string" THEN "idle"
        ELSE IF r.status = "completed" THEN "end" ELSE r.status]

(* The whole source is read. *)
Read(s) ==
    [at |-> s, phase |-> "next",
     todo |-> IF s > LastSource \/ sources[s] = Absent THEN <<>> ELSE sources[s]]

Current == Head(opening.todo)
Understood(r) == r.form # "broken"

-----------------------------------------------------------------------------
(* A command starts. *)
Open ==
    /\ opening.at = 0
    /\ opening' = Read(1)
    /\ UNCHANGED <<sources, registry, threads>>

(* What cannot be understood is passed over. *)
PassOver ==
    /\ opening.todo # <<>> /\ ~Understood(Current)
    /\ opening' = [opening EXCEPT !.todo = Tail(@)]
    /\ UNCHANGED <<sources, registry, threads>>

(* saveWorkflowRegistry *)
Register ==
    /\ opening.at = 1 /\ opening.todo # <<>> /\ Understood(Current)
    /\ registry' = registry \cup {Current.id}
    /\ opening' = [opening EXCEPT !.todo = Tail(@)]
    /\ UNCHANGED <<sources, threads>>

\* Mutant: the old variable is removed before the thread is stored.
UnsetForgetting ==
    /\ opening.at \in 2..LastSource /\ opening.todo # <<>> /\ opening.phase = "next"
    /\ Understood(Current)
    /\ threads' = [threads EXCEPT ![Current.id] = Absent]
    /\ opening' = [opening EXCEPT !.phase = "removed"]
    /\ sources' = IF opening.at = 4 THEN [sources EXCEPT ![4] = Tail(@)] ELSE sources
    /\ UNCHANGED registry

(* setThread removes the variable and sets it again. *)
Unset ==
    /\ opening.at \in 2..LastSource /\ opening.todo # <<>> /\ opening.phase = "next"
    /\ Understood(Current)
    /\ threads' = [threads EXCEPT ![Current.id] = Absent]
    /\ opening' = [opening EXCEPT !.phase = "removed"]
    /\ UNCHANGED <<sources, registry>>

Set ==
    /\ opening.phase = "removed"
    /\ threads' = [threads EXCEPT ![Current.id] = EntryOf(opening.at, Current)]
    /\ opening' = IF opening.at = 4 THEN [opening EXCEPT !.phase = "set"]
                  ELSE [opening EXCEPT !.phase = "next", !.todo = Tail(@)]
    /\ UNCHANGED <<sources, registry>>

(* migrateHistoryVarsToThreadVars: the old variable goes last. *)
Forget ==
    /\ opening.phase = "set"
    /\ sources' = [sources EXCEPT ![4] = Tail(@)]
    /\ opening' = [opening EXCEPT !.phase = "next", !.todo = Tail(@)]
    /\ UNCHANGED <<registry, threads>>

(* The file gets its new name, and the next source is read. *)
Leave ==
    /\ opening.at \in 1..LastSource /\ opening.todo = <<>>
    /\ sources' = [sources EXCEPT ![opening.at] = Absent]
    /\ opening' = Read(opening.at + 1)
    /\ UNCHANGED <<registry, threads>>

OpenStep == Open \/ PassOver \/ Register \/ Unset \/ Set \/ Forget \/ Leave

(* The command ends, or is killed. *)
Close ==
    /\ opening.at # 0
    /\ opening' = Closed
    /\ UNCHANGED <<sources, registry, threads>>

-----------------------------------------------------------------------------
Names(r, id) == r.id = id /\ Understood(r)

(* A source, or what is left of it, has a record of a thread. *)
Named(records, id) ==
    /\ records # Absent
    /\ \E i \in DOMAIN records : Names(records[i], id)

(* What the sources say of a thread: the last record that names it in the   *)
(* last source that does is right.                                          *)
Tells(legacy, id, entry) ==
    IF \A s \in 2..LastSource : ~Named(legacy[s], id) THEN entry = Absent
    ELSE \E s \in 2..LastSource :
            /\ legacy[s] # Absent
            /\ \A u \in (s + 1)..LastSource : ~Named(legacy[u], id)
            /\ \E i \in DOMAIN legacy[s] :
                /\ Names(legacy[s][i], id)
                /\ \A j \in DOMAIN legacy[s] : j > i => ~Names(legacy[s][j], id)
                /\ entry = EntryOf(s, legacy[s][i])
=============================================================================
