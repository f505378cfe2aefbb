# A verification project for united-workforce

`uwf` runs workflows of agents.  It is a command-line program without a daemon:
every command is a process of its own, and what processes know of one another
lies in files and in the variables of a content-addressed store.  This directory
holds TLA+ models of its parts, the TLC runs that check them on small instances,
and TLAPS proofs for every instance.

Paths below are relative to the repository; `cli` stands for `packages/cli/src`.

## 1. Inventory

| Component | State | Operations | Hard parts |
|---|---|---|---|
| Thread commands, `cli/commands/thread.ts` | none of their own; they read and write all of the below | start, exec (foreground, background, worker), join, resume, poke, stop, cancel, show, list, read | no lock on a thread; state read before an agent runs for minutes and written back after it; two writes per step; signals and kills |
| Thread index, `protocol/src/thread-index.ts`, `cli/store.ts` | the variable `@uwf/thread/<id>`: head, status, suspended role and message, completion date | getThread, setThread (remove, then set), completeThread | the gap inside setThread |
| Running markers, `cli/background` | `running/<id>.json`: pid and start time | create (rename), delete, validate, sweep when stale | check and act in separate steps; pid reuse |
| Concurrency slots, `cli/concurrency` | `slots/<pid>.slot` | acquireSlot, release, signal handlers | write-then-recount instead of a lock; stale files; pid reuse |
| Moderator, `cli/moderator/evaluate.ts` | none | the next role from the last output | partial: an output may fit no edge |
| Workflow files, `cli/validate-semantic.ts`, `cli/store.ts`, `cli/commands/workflow.ts` | files in the working directory and above, directories of `workflowPaths`, the registry | add, validate, list, show, lookup for start | two implementations of one order of precedence; which checks make the moderator total |
| Configuration, `cli/commands/config.ts`, `setup.ts` | `config.yaml` | config set, setup, readers | rewritten as a whole by commands that know a part |
| Broker step, `cli/commands/broker-step.ts` | `@uwf/active-step/<id>`, `@uwf/active-turn-head/<id>`, step starts, turns and step nodes | one agent step with up to two corrections, suspension by timeout; the prompt | variables keyed by thread, cleared by whoever finishes |
| Broker sessions, `broker/src/send`, `session-store` | `sessions.db`: (thread, role) to session | send on a cached session, fall back once, create | a server that forgets; concurrent misses |
| Sumeru client, `broker/src/sumeru-client` | the event stream of one message | consume, watchdog, reconnect once with Last-Event-ID | loss and duplication across the reconnection |
| Readers, `cli/commands/step.ts`, `thread.ts` | none | step turns (also live, by pages), step read, step fork, thread read, thread list | a chain that changes under the reader |
| Opening and migrations, `cli/store.ts` | `workflows.yaml`, `threads.yaml`, `history.jsonl`, `@uwf/history/*` of older versions | carried over into variables whenever a command opens the store | a kill between entries |
| Agent runner and builtin agent, `util-agent/src`, `agent-builtin/src` | `@uwf/thread-failed/<id>/<role>`, step nodes | the tool loop, extraction and corrections, failed attempts | budgets; whose words are handed in; read-modify-write of a list |
| Evaluation, `eval/src` | run records, `@uwf/eval/<task>/latest` | run, list, read | concurrent runs of one task; a judge that fails |
| Dashboard, `dashboard/src/editor`, `dashboard/server` | the drawing, its history, the workflow file | editing handlers, undo, redo, save, load | nested transactions ended by a later frame |
| Hermes adapter, `legacy-packages/agent-hermes` | requests waited for, pieces of text, cached session | connect, resume, prompt, close | late answers, a child that stalls or outlives its client |
| Everything else | prompts and help texts, rendering, logging, other legacy adapters | | one user at a time, or pure |

How they interact: a thread command takes the marker, then a slot, then asks
the moderator for a role, calls the broker step, which talks to Sumeru through a
session, and stores the new head.  stop and cancel reach the runner through the
marker and SIGTERM; join, show and the readers only poll.  Earlier versions, and
the evaluation runner through `uwf`, use agent programs, which bring their own
runner.

What makes the components correct:

- slots: never more runners than the limit; a runner is never robbed of its
  slot; leftovers are reclaimed; somebody alone gets in;
- markers: a valid one names a runner;
- index: status and metadata agree, with one another and with the head; a
  thread does not disappear; what older versions knew is carried over once;
- chain: a write keeps, appends, or (poke) replaces the last step;
- commands: the status in the output is the one stored; every command ends;
- workflows: an accepted one is always routed; show and start agree;
- broker, stream and turns: each turn once, in order, in its own step; a
  conversation that is remembered is the one in the store; a role and its
  session are told of every step;
- readers: pages tile, a follower shows whole steps and returns.

## 2. Modules

| Module | Role |
|---|---|
| `SlotPool` | abstract specification of the concurrency limit: a set of at most `MaxRunning` holders |
| `ConcurrencySlots` | the slot files, one system call or `kill(pid, 0)` probe per step; refines `SlotPool` |
| `ThreadIndex` | the entry of a thread, its constructors, its encoding in a variable with tags |
| `ThreadLifecycle` | the thread commands over index, marker and slots; uses `SlotPool` for the slot step, which the refinement above entitles it to |
| `ThreadListing` | `thread list` beside the thread commands (EXTENDS `ThreadLifecycle`) |
| `BrokerStep` | steps through the broker: processes, session store, server |
| `BrokerPrompt` | what a prompt of the broker tells of earlier steps |
| `LiveTurns` | followers and the panorama beside `BrokerStep` |
| `ThreadReading` | pages of steps and turns, forks, beside `LiveTurns` |
| `TurnDelivery` | abstract specification of one exchange: a growing prefix of the turns, and how it ends |
| `SumeruStream` | the client of one event stream; refines `TurnDelivery` |
| `WorkflowGraph` | the document, its semantic checks, the moderator |
| `WorkflowLookup` | where a name leads, for list, show and start |
| `UwfConfig` | `config.yaml`: its writers and readers |
| `WorkflowStart` | composes the three: from a name to a running thread, while settings change |
| `StoreOpening` | the migrations, one write at a time |
| `AgentRunner` | one run of an agent program: tool loop, corrections, failed attempts |
| `UwfHome` | composes the two with `BrokerPrompt`: commands and agents in an old home |
| `EvalRun` | concurrent `uwf-eval run` |
| `FlowDocument`, `WorkflowEditor` | the drawing and its way to a file and back; the editor's stores, transactions and handlers |
| `HermesClient` | the adapter, its ACP client and its children |
| `MC...` | values of constants and symmetry sets for TLC |
| `...Proofs` | theorems about the module of that name |

Each module holds a few mutants, operators marked "Mutant", next to the
definitions they could stand for.  They are no part of the specification: each
shows that one of the properties notices a plausible mistake.

### Slots

`slots` is the directory; `pc`, `limit`, `listing`, `counted` and `doomed` are
the local state of each process inside `acquireSlot`: the loop
(`SweepList` ... `Wake`), `tryClaimSlot` (`Claim`, `RecountList`, `Probe`,
`ClaimWon`, `ClaimLost`, `Rollback`), `release`, and the handlers of
`installSlotCleanup` (`SignalExit`).  A readdir is one step and sees what is
there; every probe and every removal is a step.  `Die` may happen anywhere.
`PidReuse` allows a dead pid to be given to a new uwf process or to a foreign
program.  The limit is resolved when a process begins, as in
`resolveMaxRunning`, so processes may hold different ones.

### Thread commands

A head is the sequence of steps it stands for; CAS nodes never change, so the
chain is a value.  A step keeps its role and what the moderator makes of its
output: a role, `$END`, `$SUSPEND`, or `Stuck` (evaluate fails).  `thread` is the
set of variables with the thread's name: the store keeps one per schema, so two
interleaved calls of setThread may leave two.  Each process has a place in the
code (`pc`) and a `job`: the entry it has read, the role under way, the entry it
is writing.  A model step is one access to what is shared:

- `CheckStale` and `Sweep` are the two halves of isThreadRunning;
- `Unset` and `Set` are the two halves of setThread;
- `AgentDone`, `AgentErrs` and `AgentThrows` are the outcomes of
  executeBrokerStep: a step, a failed step, an exception;
- `Aim` and `Drop` are the signal and the deletion of the marker in stop and
  cancel; `Terminate` is the delivery of the signal wherever the process awaits
  something; `Kill` is SIGKILL or a crash, possible everywhere; a process killed
  between `Unset` and `Set` stays `torn`.

A pid may be used again while a marker still names it: `Launch` then makes a
process that did not write the marker.  The constant `StartTimes` says whether
start times can be read.  Where they can, isMarkerValid tells the new process
from the old one (`stamped`); where they cannot, a live pid is enough
(`background.ts:80`, tested in `pid-recycling.test.ts`), and `MarkerTrusted` and
`JoinReturns` say nothing.  The runs about these two and the progress of commands
have `StartTimes`, `thread_serial` does without.  `ThreadListing` adds the three
looks of `thread list`; `was` records what could rightly be said of the thread
since the command began.

### Broker, stream, readers

`BrokerStep` follows executeBrokerStep from the head it reads to the head the
CLI commits, each action ending at a database call or an await on the network;
`Throw` is every exception on the way, `Restart` a server that forgets its
sessions.  `mixed` collects the steps during which another process was in a step
of the same thread, for what the code promises of a thread run by one.
`LiveTurns` gives a follower its four reads per poll; the panorama is one look.
`LoadTurnData` is what a reader makes of the chain of turns: a turn of calls
alone is stored with an empty content and nothing else (`broker-step.ts:387`), so
it is counted, and parseSingleTurn drops it.  Which turns those are is the
constant `Wordless`; the runs have some at the beginning, in the middle and at the
end of a step.  `ThreadReading` adds pages (one command, one look each), forks and the
reading of one step; texts are lengths.  `SumeruStream` takes the stream frame by frame, with frames cut
anywhere, the watchdog, and the one resumption.  `BrokerPrompt` says which steps
a prompt shows under which numbers.

### Workflows and settings

A document is a schema for each role and a graph; `Valid` is
validateWorkflow, `Evaluate` the moderator, `OutputsOf` what a schema lets an
agent hand in.  A template of a prompt renders always, with the mock data of the
validation only (`mostly`), or never; a location renders or does not, and
nothing tries it out before a step needs it (`evaluate.ts:54`).  A layout is a set
of files in directories 1 (the working directory) to `Depth` (the root), each
sound or not, and each a regular file or something that `access` finds and a
directory listing does not count (`link`).  The configuration is a function from dotted
paths to strings.  In `WorkflowStart` files do not change, settings do.

### Homes and agents

`StoreOpening` reads a source, carries over its records one write at a time and
then gives it up.  Opening is one command at a time: two commands that open an
old home at once may roll threads back, or one of them fails on the rename.
`AgentRunner` gives each request to the model an action (`Tools`, `Nudge`,
`HandIn`); texts are told apart by what the extraction makes of them.  `UwfHome`
lets commands open the store, have an agent take a step, store its report and
archive the thread, each killed anywhere.

### Evaluation, editor, Hermes

`EvalRun` sees `uwf` from outside, as its code does.  `WorkflowEditor` keeps the
identity of the objects in its stores (`rev`), since that is what the code
compares when a transaction ends.  In `HermesClient` a step is an event of the
adapter's event loop, what the awaiting code does with it before the next, or a
move of a child.  `heard` records what a conversation has read, not what was
written to its child; whether an invocation resumes is a choice of its own
(`UWF_HERMES_RESUME`).  A resume may be answered with a conversation that has no
history, which the adapter does not notice.  On success the process is over when
no child is up any more (`Lingering`); a failure exits at once and leaves them.

## 3. Runs

| Run | Instance | What it shows |
|---|---|---|
| `slots` | 3 processes, 2 slots, kills, no pid reuse | `HoldersWithinLimit`, `HolderHasSlot`, `PoolSpec` (refinement), `LoneWaiterServed` |
| `thread_serial` | 2 processes, one command at a time and stop or list beside it, 2 roles, all outcomes, `--count` up to 2, chains up to 2, kills | `StatusFitsHead`, `ReportIsTrue`, `HeadMovesForward`, `ListedTruly` |
| `thread_overlap` | 2 processes, any two commands at once, kills | `EntryWellFormed`, `MarkerTrusted` |
| `thread_live` | 2 processes, a background exec of up to two steps that may go on, end or get stuck, join and stop, one slot, kills | `CommandsFinish`, `JoinReturns` |
| `broker_step` | 2 processes, 2 agents, 1 role, 2 steps, 3 sessions, a correction, a restart, a kill | `InFlightUnfinished`, `DetailCountsTurns`, `CorrectionInContext`, `StoreKnowsSession` |
| `live_turns` | a runner with 3 steps, poke and failures, 2 turns without a text; a follower or a pager | `PanoramaFollowsChain`, `RunningGroupIsWhole`, `PagesTile`, `FollowerPrintsStep`, `FollowerReturns` |
| `sumeru_stream` | streams of up to 6 events | `NotFoundMeansUnheard`, `DeliverySpec` (refinement), `SendReturns` |
| `workflow_start` | documents of 2 roles; layouts of up to 2 files in 3 directories, some broken or links; 3 changes of the settings | `AcceptedRuns`, `RolesAreReached`, `ShownIsStarted`, `SettingsHold` |
| `uwf_home` | 4 old homes, 2 roles, 3 steps, budgets cut down | `CarriedOverOnce`, `LineageWhole`, `BudgetKept`, `OwnWords`, `ToldOnce` |
| `workflow_editor` | 2 files, up to 3 nodes, 2 revisions, 2 waiting frames | `HistoryIsWhole`, `SavedIsShown` |
| `eval_run` | 2 commands of up to 2 evaluations, 4 manifests, a kill | `ListIsCurrent`, `RecordsAreWhole` |
| `hermes_client` | 2 invocations, a correction, 1 piece of text per prompt | `AnswersAreOwn`, `FreshSessionsToldAll`, `InvocationEnds` |

Bounds.  Two processes suffice for every race between a reader and a writer of
one thread, since no action looks at more than one other process.  The slot
protocol counts, so it gets three: a holder, a racer and a third that must lose.
Two roles tell "the next role" from "the last role"; chains of two steps give
poke a step to keep below the one it replaces; `--count` 2 takes the loop
through its back edge.  In `broker_step` a second step meets the session and the
turns the first one left, a third session is what a fallback after a fallback
would need, and one correction tells the first prompt from a later one.  Three
steps give a page a middle.  Six events hold a turn before, at and after the
cut, and an end.  Three directories have one between the two ends.  In
`uwf_home` three steps let a role return after another one, which the prompts
are about; budgets of 3 turns with a warning at 2 keep the order of the real
ones (30 and 3).  Symmetry is used in runs without liveness properties only.

What the properties leave out is named in them: `mixed` (steps that overlapped),
`stray` (a child left running), `Repeated` and `Replaced` (attempts at one place,
older turns that give way), `inGap` (inside setThread), `lost` (a conversation
whose past or task Hermes has lost).  The runs with `Serial`
have one command at a time, since two runners on one thread are possible and no
document says what then holds beyond `EntryWellFormed` and `MarkerTrusted`.

Deadlock is checked in `workflow_editor`, where the user can always go on.  It is
not where a process may be killed for good, a bound may be reached, or the
program simply ends.

Fairness.  `WF(Step(p))` per process in the slot and thread modules and in
`ThreadReading`: the operating system runs a live process, timers fire, and an
agent ends or fails, since the watchdog of the Sumeru client bounds it.
`SumeruStream` assumes the client's own steps and its watchdog, and nothing of
the server.  `HermesClient` assumes Node's steps and timers, and nothing of a
child: `InvocationEnds` has for antecedent that no child stays up for good after
the end of its input, since such a child holds the adapter (`acp-client.ts:183`).  Commands by the user, kills, signals, pid reuse, emissions of the server
are not fair.  The poll of acquireSlot has no queue, and weak fairness does not
save a process from losing every race: `CommandsFinish` therefore ends in "or it
waits for a slot that a live exec holds", and `LoneWaiterServed` speaks of a
process that is alone.

## 4. Proofs

Each proof module shows, by one invariant or a few, that a step keeps it, one
lemma per action or group of actions, and that it implies the property.

`ConcurrencySlotsProofs`, for every finite set of processes and all limits:
`Typing`; and without pid reuse `LimitHolds`, `HoldersKeepSlots` and
`ImplementsPool`.  Why write-then-recount works: a holder's file was there before
it counted, so the last of any set of holders to begin its recount saw the files
of all the others.  The inductive invariant records this: each holder's `counted`
covers the processes that claimed before it, and a file in somebody's list of
dead ones belongs to nobody alive.  With pid reuse the second part fails, which
is why the assumption is there.

`ThreadLifecycleProofs`, for every set of processes and roles and any
interleaving: `WellTyped`, `EntriesStayWellFormed`, `MarkersAreTrusted` and
`ThreadsAreKept`.  `LifeInv` strengthens them by `Stored` (every variable encodes
a well-formed entry), `Knows` (what a process has put in its job where it uses
it, also while it is inside a write or a sweep and will go on there), `Keeps`
(only an exec gets to the places of an exec) and `MarksRunner` (a live process
that is named by the marker, and wrote it, is an exec between `Mark` and
`Unmark`).  The proof first
shows that a step of `p` keeps what `p` knows and changes nobody else's, one
lemma per group of actions, and then what a step does to thread, marker and slots.

Its second half is about one command at a time (`Serial`), with stop, cancel,
show or list beside it: `StatusesFit`, `ReportsAreTrue`, `HeadsMoveForward` and
`ListsAreTrue`.  `SerialInv` says that the variable is there as it was last
written except inside a write (`Present`), that the entry fits its chain
(`Fits`), that no two commands that write are alive (`Alone`), and, place by
place, what the one that writes has read and is about to write (`Settled`).
`ListInv` then follows the looks of `thread list` with what could be said since
it began.  `Serial` is part of these theorems because they fail without it: two
runners on one thread overwrite each other's entries.

`SumeruStreamProofs`, for streams of any length: `StreamIsRead`,
`UnknownSessionHeardNothing`, and `ClientDelivers`, the refinement of
`TurnDelivery`.  `StreamInv` says that what a connection has read is an initial
segment of the server's log, also after the reconnection, which asks for what
follows `lastSeen`; that the turns told are the assistant turns of that segment;
and that an end event is the last of the log.

`BrokerStepProofs`, for any processes, roles, agents and bounds: `StepsAreInOrder`,
`ActiveIsUnfinished`, `RememberedIsStored`, `CorrectionsStay` and `DetailsCount`.
A step gets its node only after the process has cleared the active step, and a
step start is never used twice: `StepInv` says who is in which step and that a
process about to write a node no longer has the active step.  For the sessions
`SendInv` adds that, as long as no two steps have overlapped, a session that
heard a prompt is the row of its role, and that a process between creation and
upsert has a session nobody has heard of.  `TalkInv` says what a step that
nobody overlapped finds in the store at each of its calls: the one session that
may remember it.  `TallyInv` and `CountInv` count turns: a process appends to a
chain that has the turns of all steps nobody overlapped, and has counted its own.

The same module proves four promises to the readers, for `ReadSpec`, the
behaviour of `ThreadReading` with the threads it starts from:
`PanoramaIsInOrder`, `RunningGroupsAreWhole`, `FollowerIsExact` and
`PagesAreWhole`.  `PlaceInv`:
the index in a step start is the length of the chain it was begun on, and a node
points to an older one, so of two steps on one chain the later has the higher
index, also when steps overlapped; the panorama has each owner of a turn at its
rank in that order.  `TidyInv`: in every chain a process may append to, the
turns of a step that nobody overlapped carry the numbers 1, 2, ... in order, so
what a reader filters out of it is known from their count alone
(`RunningGroupsAreWhole`), and what it leaves out for want of a text it leaves out
of each part (`LoadConcat`: `LoadTurnData` of a concatenation is that of the
parts).  `FollowInv`: what the follower has read is no more than that, and while
it has seen one step only, what it has printed is the first `printedCount` turns
of it but for those without a text, wherever they lie.
`PagesAreWhole` is about threads that one process runs (`OneRunner`, as in the
run: a second one may replace a head that the first has just moved, and then a
cursor is lost in ways no document speaks of), with any number of commands,
steps, quotas and page lengths.  `SoleInv`: the turns stand in the order of
their steps, the node of a step will hang from the head, or from what a poked
head hangs from, and the old step can only be the first.  `PagerInv` says of a
half-read thread what the pages put together are, that the cursor is on the
chain still to be shown, and that whatever a poke replaced, the chain below the
head that was read is on the chain of the head there is now.  For these
proofs `LiveTurns` says a filtered or sorted sequence by the places or the rank
of its members (`At`, `Sorted`).

`UwfHomeProofs`, for any records an older version may have left, any budgets and
kills anywhere: `ThreadsAreCarriedOver`, `LineageIsWhole`, `EveryStepIsTold`,
`BudgetsAreKept` and `WordsAreOwn`.  `HomeInv`: what a source holds is the end of what it held,
sources are given up in their order, a record only when its thread has been set
from it, so a thread that none of the records still to be read names is as it
was last told; a kill only makes more records remain.  `AgentInv`: the requests
of a loop are its turns and the free nudges, the warning comes in time, a text
that is not the agent's own fits nothing the extraction accepts, and a failed
attempt is in the list of its role, in a step that took the list over, or gave
way with a thread that ended.  `LineageInv`, for the tokens of failed attempts:
the failed steps that a list or a step of the thread holds are in no other, and
only a reported step becomes part of a thread, so the sum over the chain counts
no run twice, wherever an agent died between the step that took a list over and
the clearing of the list.  `EveryStepIsTold` needs of it only that the
chain the agent was started on is whole (`Linked`): the first prompt of a role and its continuations divide the steps before each
visit at the visits before it, and a step of the others lies between exactly two
of them.

`WorkflowStartProofs`, for any layouts, documents and settings:
`AcceptedWorkflowsRun`, `RunningRolesReached`, `ShowAndStartAgree` and
`SettingsStay`.  A workflow gets into the registry or a thread only when it was
accepted, and the checks say of each node what the moderator asks of it, so a
thread is always at a node whose edges fit its output (`WalkInv`), and what may
still fail is a template that no check renders.  That the
reachability check stops within any set closed under edges is an induction on
its rounds.  The nearest directory with any workflow is, for a name it has, the
nearest with that name; that a file found there is sound, or no link, is neither
assumed nor claimed.  A path that the configuration accepts is no beginning
of another path that is read.

The same module, which also extends `EvalRun` (the two have no name in common),
proves `EvaluationsAreWhole` and `EvaluationsAreListed`, for any tasks, scores
and number of evaluations at once.  `EvalInv`: evaluations under way have threads
and records of their own (`JobsApart`), so the verdicts gathered are those of one
thread and, as many as there are, of the first judges of the manifest; an indexed
record stays as it is; the records that an evaluation found indexed were so before
its own, so its record never gives way to one of them.  That each place of the
list is taken, and once, is a count: the places are an injection of a finite set
into as many numbers.

`WorkflowEditorProofs`, for any drawing and a session of any length:
`UndoLeadsBack` and `SavedWorkflowsStay`.  The stacks belong to the stores as they
were when the open transaction began (`Ground`); a store that still holds the same
object holds the same contents (`Kept`), so the step that the end of a transaction
pushes, which has only the stores with another object, leads back to all of it.
`DrawInv`: every drawing of a session, also those in the backup and on the
stacks, has nodes from the ids of the session and no edge to start.  In such a
drawing the walk of traverse (`WalkOk`) takes one target from its list in each
round and puts there those of a node it meets for the first time, so it is done
after as many rounds as there are edges, and has met all that validate found
reachable; the file has each role and each status once, and opened again each
role gets a node of its own and each transition its edge (`Reload`).  For this
proof `FlowDocument` says the edges at a node by their places (`From`, `Into`)
and what is reachable as what lies in every set closed under the arcs
(`Reached`).

`HermesClientProofs`, for any number of invocations, pieces and corrections:
`TaskIsToldFirst` and `TextIsItsOwn`.  `ToldInv`: what is cached, resumed or
corrected is a conversation that has heard something or has lost it (`Aware`);
a child has at most one request unread, and one that is not the task is for a
conversation that is aware; a request that was answered was read (`Granted`).  Which resume brings the past back is a choice in each step,
and so is resuming at all.
Unless close has let a child run on, at most one child can still write, and only
to the latest request (`AnswerInv`); of what it says for that request, the
pieces that were received and those under way are the whole.

The assumptions are those on the constants, which TLC evaluates in the runs.
Null values and markers differ from what they stand beside; `resume` of `$START`
leads to a role (semantic validation requires the edge); bounds are numbers;
there is an agent and a role; `HomeAssumption` says what an old home may hold;
layouts name files in the directories there are; the files the editor opens have
no more roles than the session has node ids, and list the first of them; the
manifests of an evaluation are as its loader reads them; a document has finitely
many roles, and the paths of settings are sequences of strings.

Only model-checked is liveness (`LoneWaiterServed`, `CommandsFinish`,
`JoinReturns`, `FollowerReturns`, `SendReturns`, `InvocationEnds`), which is out of
the prover's reach.  `PagesTile` for a thread that two processes run at once is
neither claimed nor checked.  That a list of scores has the mean it has is the
definition of `ComputeOverall`; what is proved is that the scores of weight 0 may
be any.

What a walk or a flattened list computes for every input is an induction over
data, which the library's theorems do not give.  Where it was worth the length
(`Steps` in `SavedWorkflowsStay`, `FlattenSeq` in `LineageIsWhole` and
`PagesAreWhole`) the proof goes through the least counterexample instead.

## 5. What the code does that a reader may not expect

Met while modelling; the properties are stated around them.

- Slots: racing claims may all roll back, though
  `specs/concurrency-race-protection-rollback.md` says that one wins; a process
  that inherits the pid of a killed holder finds its own leftover, counts it, and
  may wait for ever; a live process's file can be swept when pids are reused.
- exec looks at no status: it revives a cancelled thread, which the usage
  reference calls terminal.  An exception of the broker leaves a thread idle
  where the comment at `thread.ts:1812` has it suspended.  Two background execs
  may run one thread, since the worker makes its marker without a check.
- list may call a thread idle that was archived between its looks, or that it
  looked at inside setThread.
- The fallback on session_not_found sends the prompt that was assembled, which
  may be a continuation or a mere correction, to a session that knows nothing
  else; agent-sumeru does the same.  A fork sends continuations to fresh sessions.
- `buildContinuationPrompt` numbers the steps from the first one since the last
  visit although the quota left earlier ones out, so the numbers are too low
  then (`ToldOnce`).
- The details of broker steps hold no turns and no frontmatter: `step read` and
  `thread read` show no output for them, and the frontmatter judge of the
  evaluation scores every real run 0.
- A follower may miss turns: it reads the active step twice in a poll and keeps
  its count from one step to the next (`step.ts:985` promises each turn once); a
  first poll between the marker and the first active step decides for the legacy
  path for good.
- walkStepStartChain puts a newer attempt at a place before the older one; the
  first broker turn of an older thread hides all older turns from the panorama.
- list and show take the nearest directory that has any workflow, start the
  nearest that has the name; list and show count only regular files, start what
  `access` finds, links too; and a name with two files in one directory may be
  shown from the sound one and started from the broken one, as a broken file
  farther up may hide one of `workflowPaths` from start.  `store.ts:353` says that
  they agree.  `ShownIsStarted` compares the places only.
- A workflow that validates may get stuck: validation renders neither locations
  nor the prompts of `$START`, and the other prompts with mock data, where a
  template may depend on the value (`evaluate.ts:43-62`).
- isMarkerValid takes a live pid for enough where start times cannot be read
  (`background.ts:80-81,88-100`): a pid used again then makes the marker of a dead
  exec valid, and a join whose own pid it is waits for itself.
- A turn of calls alone is counted but never shown, by the follower as by the
  panorama; the numbers that a follower prints skip it (`step.ts:354`, `:1019`).
- setup drops `workflowPaths` and `concurrency` from the file; an interactive
  setup without a name selects the agent "" ; `config set` takes keys that
  nothing reads; one incomplete agent entry makes every exec fail.
- A malformed old file makes every opening throw.  An agent killed between the
  clearing of the failed attempts and its report loses them.
- Evaluations: prepare runs before the try, so a failed copy leaves its
  directory; an error at run k of `--count` hides the printed results of earlier
  runs, which are stored.
- Editor: an undo in the middle of an open transaction loses part of the
  history; deleting a node from its button leaves its edges; roles of one name
  and equal statuses collapse on saving; a role named `$START` loses its transitions
  to those of the start, `$END` and `END` become the end, and a role with a number
  for a name is listed first and may become the first (`server/workflow.ts:16-19,
  56, 67`), all of which the editor lets one type; loading takes the first role of the list
  as the first, whatever `$START` says; a saved file never passes
  `uwf workflow validate`.
- Hermes: a child that outlives the five seconds of close writes into the text of
  the next session, and its exit code rejects the next one's requests; a write to
  a child that is down crashes the adapter; a child that ignores the end of its
  input holds the adapter after a success.  A resume that silently begins a new
  conversation (`session-cache.ts:31`) is answered like any other, so that it hears
  a continuation or a correction first; a conversation whose task timed out unread
  is cached all the same.

## 6. Plan

Done: slots and pool, thread index and commands, list and reading, broker step
and sessions, stream and delivery, workflows and settings, homes and agents,
evaluation, editor, Hermes; the proofs above.

What could follow:

1. `ThreadLifecycle` and `BrokerStep` composed, with forks, so that the sessions
   of a fork are visible;
2. the adapters of Claude Code and Sumeru beside `HermesClient`.

## 7. Not modelled

- Rendering, output mapping, logging, prompts and help texts: pure text.
- `thread list` treats a head whose node is missing as corrupt; nothing in the
  code deletes nodes, so no thread of the models is.
- The loss of the store or a full disk.
- The abort signal and the waiting messages of acquireSlot, and
  `listRunningThreads`: no caller in the program uses them.
- The timeout of join, which only makes it give up.
- `step ask`, and the adapters of Claude Code, Cursor and Sumeru, which the CLI no
  longer calls; the tools of the builtin agent and its HTTP client, which are a
  choice of answers.
- The shape checks of a workflow file (one condition, `Parses`), the dialogue of
  setup (one choice), the diff of two evaluations.
- The panels, rendering and routes of the dashboard.
