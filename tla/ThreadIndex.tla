---------------------------- MODULE ThreadIndex ----------------------------
(***************************************************************************)
(* A thread's entry in the index: packages/protocol/src/thread-index.ts    *)
(* (the four constructors) and packages/cli/src/store.ts (its encoding as  *)
(* a variable with tags).                                                  *)
(*                                                                         *)
(* A head is the chain of steps it stands for.  A step keeps its role and  *)
(* what its output makes of the workflow graph: the next role, $END,       *)
(* $SUSPEND (the agent asked for help), or Stuck (evaluate fails).         *)
(***************************************************************************)
EXTENDS Naturals, Sequences

CONSTANTS
    Roles,   \* the roles of the workflow
    END,     \* $END
    SUSPEND, \* $SUSPEND
    Stuck,   \* no edge fits the output
    Null     \* null, and an absent variable

Targets == Roles \cup {END, SUSPEND, Stuck}
Steps == [role : Roles, to : Targets]
Heads == Seq(Steps)

Statuses == {"idle", "suspended", "end", "cancelled"}
\* Why a thread is suspended: the agent asked for it, or its step failed.
Messages == {"asked", "failed"}

Entries ==
    [head : Heads,
     status : Statuses,
     suspendedRole : Roles \cup {Null},
     suspendMessage : Messages \cup {Null},
     completedAt : {Null, "a time"}]

createThreadIndexEntry(head) ==
    [head |-> head, status |-> "idle", suspendedRole |-> Null,
     suspendMessage |-> Null, completedAt |-> Null]

\* The entry before is ignored.
updateThreadHead(entry, head) == createThreadIndexEntry(head)

markThreadSuspended(entry, role, message) ==
    [head |-> entry.head, status |-> "suspended", suspendedRole |-> role,
     suspendMessage |-> message, completedAt |-> Null]

markThreadCompleted(entry, status) ==
    [head |-> entry.head, status |-> status, suspendedRole |-> Null,
     suspendMessage |-> Null, completedAt |-> "a time"]

-----------------------------------------------------------------------------
\* The variable @uwf/thread/<id>: its value is the head, and every field that
\* differs from its default is a tag.
TagNames == {"status", "suspendedRole", "suspendMessage", "completedAt"}

Default(tag) == IF tag = "status" THEN "idle" ELSE Null

variableOf(entry) ==
    [value |-> entry.head,
     tags |-> [tag \in {t \in TagNames : entry[t] # Default(t)} |-> entry[tag]]]

tagOr(v, tag) == IF tag \in DOMAIN v.tags THEN v.tags[tag] ELSE Default(tag)

entryFromVariable(v) ==
    [head |-> v.value,
     status |-> tagOr(v, "status"),
     suspendedRole |-> tagOr(v, "suspendedRole"),
     suspendMessage |-> tagOr(v, "suspendMessage"),
     completedAt |-> tagOr(v, "completedAt")]

-----------------------------------------------------------------------------
\* The metadata of an entry and its status agree: a suspended thread says who
\* is suspended and why, which `thread resume` needs; an archived one has its
\* date; nothing else carries either.
WellFormed(entry) ==
    /\ entry.status = "suspended" <=> entry.suspendedRole # Null
    /\ entry.status = "suspended" <=> entry.suspendMessage # Null
    /\ entry.status \in {"end", "cancelled"} <=> entry.completedAt # Null
=============================================================================
