---------------------------- MODULE BrokerPrompt ----------------------------
(***************************************************************************)
(* What an agent is told when the broker has it take a step of a thread:   *)
(* assembleBrokerPrompt in packages/cli/src/commands/broker-step.ts and    *)
(* what it is made of in packages/util-agent.  The adapters of Claude Code *)
(* and Sumeru put their prompts together in the same way.                  *)
(*                                                                         *)
(* The steps before are given as the sequence of their roles, the oldest   *)
(* first.  Lengths are reduced to `room', how many of the newest steps the *)
(* 32000 characters hold; the format, the role and the task are in every   *)
(* prompt.                                                                 *)
(***************************************************************************)
EXTENDS Naturals, Sequences, FiniteSetsExt

Visits(roles, role) == {i \in DOMAIN roles : roles[i] = role}

(* findLastRoleIndex, 0 when there is none. *)
FindLastRoleIndex(roles, role) == Max({0} \cup Visits(roles, role))

(* selectStepsWithinQuota: the newest that there is room for, one at least. *)
SelectStepsWithinQuota(since, room) ==
    {i \in since : i + Max({1, room}) > Max(since)}

(* buildContinuationPrompt: the steps since the last visit, with the numbers *)
(* they are shown under.  Those left out do not count.                      *)
BuildContinuationPrompt(roles, role, room) ==
    LET last == FindLastRoleIndex(roles, role)
        selected == SelectStepsWithinQuota((last + 1)..Len(roles), room)
    IN  {[step |-> i, number |-> last + 1 + (i - Min(selected))] : i \in selected}

(* buildThreadProgress *)
BuildThreadProgress(roles, role) ==
    [thisStep |-> Len(roles) + 1, spoken |-> Cardinality(Visits(roles, role))]

(* Only the first visit of a role has a quota. *)
AssembleBrokerPrompt(roles, role, room) ==
    [progress |-> BuildThreadProgress(roles, role),
     steps    |-> BuildContinuationPrompt(roles, role,
                     IF Visits(roles, role) = {} THEN room ELSE Len(roles))]
=============================================================================
