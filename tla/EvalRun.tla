------------------------------- MODULE EvalRun -------------------------------
(***************************************************************************)
(* `uwf-eval' of packages/eval: a run prepares a working directory, has    *)
(* `uwf' start a thread in it and execute it, lets every judge of the task *)
(* look at the thread, and records their scores under                      *)
(* @uwf/eval/<task>/latest.  Several runs may be under way at once: the    *)
(* operating system's processes share the store and nothing else.          *)
(*                                                                         *)
(* The engine is seen from outside, as execute.ts and read-steps.ts see    *)
(* it: a command of `uwf' that ends with an error makes the run fail.  A   *)
(* score is counted in hundredths of a judge's best.                       *)
(***************************************************************************)
EXTENDS Integers, Sequences, SequencesExt, FiniteSets

CONSTANTS
    Proc,       \* processes of `uwf-eval run'
    Manifests,  \* task directories: [name, complete, maxSteps, judges], where
                \* complete says that a workflow and a prompt are given, and a
                \* judge is [name, weight, builtin, entry]
    Scores,     \* what a judge script may answer
    MaxRuns,    \* runs recorded
    MaxThreads, \* threads started
    MaxKills

ASSUME EvalAssumption ==
    /\ Scores \subseteq 0..100
    /\ \A m \in Manifests :
          m.judges \in Seq([name : STRING, weight : Int, builtin : BOOLEAN, entry : BOOLEAN])
    /\ {MaxRuns, MaxThreads, MaxKills} \subseteq Nat

VARIABLES
    pc,      \* where each process is
    job,     \* [Proc -> its arguments and locals]
    threads, \* the threads started: how many steps each has
    runs,    \* the eval-run records of the store, in the order put
    latest,  \* [task name -> record], 0: none
    workDirs, \* working directories that exist, named by their number
    clock,   \* Date.now()
    kills,
    told     \* history: [Proc -> the records it printed]

evalVars == <<pc, job, threads, runs, latest, workDirs, clock, kills, told>>

Names == {m.name : m \in Manifests}

(* parseJudgeEntry and parseTaskManifest: a judge is builtin or has a       *)
(* script, and there is at least one.                                       *)
ParseJudgeEntry(j) == j.name # "" /\ (j.builtin \/ j.entry)
ParseTaskManifest(m) ==
    /\ m.name # "" /\ m.complete
    /\ m.judges # <<>> /\ \A i \in DOMAIN m.judges : ParseJudgeEntry(m.judges[i])

(* computeOverall: the weighted mean, as a fraction; 0 without a weight.    *)
Total(numbers) == FoldSeq(+, 0, numbers)
ComputeOverall(judges) ==
    LET totalWeight == Total([i \in DOMAIN judges |-> judges[i].weight])
        weighted == Total([i \in DOMAIN judges |-> judges[i].score * judges[i].weight])
    IN  IF totalWeight > 0 THEN <<weighted, totalWeight>> ELSE <<0, 1>>

(* readStepDetail and validateStepFrontmatter: `uwf step show' takes the    *)
(* frontmatter from the step's detail, and the detail of a broker step has  *)
(* none, so no step is found valid.                                         *)
StepsValid(steps) == 0

(* runFrontmatterJudge, runUpstreamJudge, runHallucinationJudge and         *)
(* runTokenStatsJudge, by name; any other name is an error.                 *)
BuiltinNames == {"frontmatter-compliance", "upstream-consumption", "hallucination", "token-stats"}
BuiltinScore(name, steps) ==
    CASE name = "frontmatter-compliance" -> IF steps = 0 THEN 0 ELSE (100 * StepsValid(steps)) \div steps
      [] name = "token-stats" -> 100
      [] OTHER -> 0

-----------------------------------------------------------------------------
NoJob == [dir |-> CHOOSE m \in Manifests : TRUE, left |-> 0, keep |-> FALSE, work |-> 0,
          thread |-> 0, judges |-> <<>>, run |-> 0, results |-> <<>>, failed |-> FALSE,
          before |-> {}]

EvalInit ==
    /\ pc = [p \in Proc |-> "idle"] /\ job = [p \in Proc |-> NoJob]
    /\ threads = <<>> /\ runs = <<>> /\ latest = [n \in Names |-> 0]
    /\ workDirs = {} /\ clock = 0 /\ kills = 0
    /\ told = [p \in Proc |-> <<>>]

Goto(p, l) == pc' = [pc EXCEPT ![p] = l]

(* The records that some variable has pointed at. *)
Indexed == {r \in 1..Len(runs) : runs[r].indexed}

(* registerRunCommand: the arguments of a run. *)
Run(p, m, count, keep) ==
    /\ pc[p] = "idle"
    /\ IF count < 1 THEN Goto(p, "done") /\ UNCHANGED job
       ELSE /\ Goto(p, "prepare")
            /\ job' = [job EXCEPT ![p] = [NoJob EXCEPT !.dir = m, !.left = count, !.keep = keep]]
    /\ UNCHANGED <<threads, runs, latest, workDirs, clock, kills, told>>

(* An exception outside the try of runOnce: nothing is cleaned up. *)
Abort(p) ==
    /\ Goto(p, "done")
    /\ job' = [job EXCEPT ![p].failed = TRUE]

(* mkdtemp: a name that no directory has. *)
FreshDir == CHOOSE d \in 1..(Cardinality(workDirs) + 1) : d \notin workDirs

(* prepare: the manifest is read, a fresh directory made and the fixture   *)
(* copied into it.                                                          *)
Prepare(p) ==
    /\ pc[p] = "prepare"
    /\ \/ /\ ~ParseTaskManifest(job[p].dir)
          /\ Abort(p)
          /\ UNCHANGED workDirs
       \/ /\ ParseTaskManifest(job[p].dir)
          /\ workDirs' = workDirs \cup {FreshDir}
          /\ \/ Abort(p)
             \/ /\ Goto(p, "start")
                /\ job' = [job EXCEPT ![p].work = FreshDir, ![p].judges = <<>>,
                                      ![p].thread = 0, ![p].run = 0, ![p].before = Indexed]
    /\ UNCHANGED <<threads, runs, latest, clock, kills, told>>

(* An exception inside the try: the finally comes next. *)
Throw(p) ==
    /\ Goto(p, "finally")
    /\ job' = [job EXCEPT ![p].failed = TRUE]

(* execute, first half: `uwf thread start'. *)
ThreadStart(p) ==
    /\ pc[p] = "start"
    /\ \/ Throw(p) /\ UNCHANGED threads
       \/ /\ Len(threads) < MaxThreads
          /\ threads' = Append(threads, 0)
          /\ job' = [job EXCEPT ![p].thread = Len(threads')]
          /\ Goto(p, "exec")
    /\ UNCHANGED <<runs, latest, workDirs, clock, kills, told>>

(* execute, second half: `uwf thread exec -c maxSteps' takes up to so many  *)
(* steps; it may end with an error after some of them.                      *)
ThreadExec(p) ==
    /\ pc[p] = "exec"
    /\ \E n \in 0..job[p].dir.maxSteps : threads' = [threads EXCEPT ![job[p].thread] = n]
    /\ \/ Throw(p)
       \/ Goto(p, "judge") /\ UNCHANGED job
    /\ UNCHANGED <<runs, latest, workDirs, clock, kills, told>>

(* The next judge of the task. *)
Turn(p) == job[p].dir.judges[Len(job[p].judges) + 1]

(* storeJudgeData and the push of the record. *)
Verdict(p, score) ==
    /\ job' = [job EXCEPT ![p].judges =
                Append(@, [name |-> Turn(p).name, score |-> score, weight |-> Turn(p).weight,
                           thread |-> job[p].thread])]
    /\ UNCHANGED pc

\* Mutant: a script that fails is left out.
RunTaskJudgeSkipping(p) ==
    \/ \E s \in Scores : Verdict(p, s)
    \/ Goto(p, "judge") /\ job' = [job EXCEPT ![p].dir.judges = Tail(@)]

(* runTaskJudge: a script answers with a score, or the run fails. *)
RunTaskJudge(p) ==
    \/ \E s \in Scores : Verdict(p, s)
    \/ Throw(p)

(* runBuiltinJudge: reads the thread through `uwf', which may fail. *)
RunBuiltinJudge(p) ==
    \/ /\ Turn(p).name \in BuiltinNames
       /\ Verdict(p, BuiltinScore(Turn(p).name, threads[job[p].thread]))
    \/ Throw(p)

(* collect, one round of its loop over the judges. *)
Judge(p) ==
    /\ pc[p] = "judge"
    /\ Len(job[p].judges) < Len(job[p].dir.judges)
    /\ IF Turn(p).builtin THEN RunBuiltinJudge(p) ELSE RunTaskJudge(p)
    /\ UNCHANGED <<threads, runs, latest, workDirs, clock, kills, told>>

(* collect, after the loop: the record is put into the store. *)
Record(p) ==
    /\ pc[p] = "judge"
    /\ Len(job[p].judges) = Len(job[p].dir.judges)
    /\ Len(runs) < MaxRuns
    /\ clock' \in {clock, clock + 1}
    /\ runs' = Append(runs, [task |-> job[p].dir.name, thread |-> job[p].thread,
                             judges |-> job[p].judges, overall |-> ComputeOverall(job[p].judges),
                             timestamp |-> clock', before |-> job[p].before, indexed |-> FALSE])
    /\ job' = [job EXCEPT ![p].run = Len(runs')]
    /\ Goto(p, "index")
    /\ UNCHANGED <<threads, latest, workDirs, kills, told>>

\* Mutant: an entry that exists is left alone.
SetEvalLatestOnce(task, r) == [latest EXCEPT ![task] = IF @ = 0 THEN r ELSE @]

(* setEvalLatest *)
SetEvalLatest(task, r) == [latest EXCEPT ![task] = r]

(* The end of collect, and what runOnce returns. *)
Index(p) ==
    /\ pc[p] = "index"
    /\ latest' = SetEvalLatest(job[p].dir.name, job[p].run)
    /\ runs' = [runs EXCEPT ![job[p].run].indexed = TRUE]
    /\ job' = [job EXCEPT ![p].results = Append(@, job[p].run)]
    /\ Goto(p, "finally")
    /\ UNCHANGED <<threads, workDirs, clock, kills, told>>

(* The finally of runOnce. *)
Cleanup(p) == IF job[p].keep THEN workDirs ELSE workDirs \ {job[p].work}

(* ... after which the loop over --count goes on, or the command ends: the  *)
(* results are printed when all of its runs succeeded.                      *)
Finally(p) ==
    /\ pc[p] = "finally"
    /\ workDirs' = Cleanup(p)
    /\ job' = [job EXCEPT ![p].left = @ - 1]
    /\ IF job[p].failed \/ job[p].left = 1
       THEN /\ Goto(p, "done")
            /\ told' = [told EXCEPT ![p] = IF job[p].failed THEN @ ELSE job[p].results]
       ELSE Goto(p, "prepare") /\ UNCHANGED told
    /\ UNCHANGED <<threads, runs, latest, clock, kills>>

Kill(p) ==
    /\ kills < MaxKills /\ kills' = kills + 1
    /\ pc[p] \notin {"idle", "done", "killed"}
    /\ Goto(p, "killed")
    /\ UNCHANGED <<job, threads, runs, latest, workDirs, clock, told>>

EvalNext ==
    \E p \in Proc :
        \/ \E m \in Manifests, count \in 0..2, keep \in BOOLEAN : Run(p, m, count, keep)
        \/ Prepare(p) \/ ThreadStart(p) \/ ThreadExec(p) \/ Judge(p) \/ Record(p)
        \/ Index(p) \/ Finally(p) \/ Kill(p)

EvalSpec == EvalInit /\ [][EvalNext]_evalVars

-----------------------------------------------------------------------------
(* readEvalEntries: what the variables point at. *)
ReadEvalEntries == {latest[n] : n \in {x \in Names : latest[x] # 0}}

(* selectEntries: newest first, filtered, cut to the limit.  Without --task *)
(* every name passes.                                                       *)
Newer(a, b) ==
    \/ runs[a].timestamp > runs[b].timestamp
    \/ runs[a].timestamp = runs[b].timestamp /\ a < b

SelectEntries(entries, tasks, limit) ==
    LET filtered == {r \in entries : runs[r].task \in tasks}
        n == Cardinality(filtered)
        Place(r) == 1 + Cardinality({s \in filtered : Newer(s, r)})
    IN  [k \in 1..(IF limit < n THEN limit ELSE n) |-> CHOOSE r \in filtered : Place(r) = k]

-----------------------------------------------------------------------------
(* `uwf-eval list' shows, whatever the filter and the limit, the newest of  *)
(* the entries it is asked for, and an entry is never a record that was     *)
(* already indexed when the evaluation of a later indexed one of its task   *)
(* began.                                                                   *)
ListIsCurrent ==
    \A n \in Names, limit \in 1..2 :
        LET one == SelectEntries(ReadEvalEntries, {n}, limit)
            all == SelectEntries(ReadEvalEntries, Names, limit)
        IN  /\ one = (IF latest[n] = 0 THEN <<>> ELSE <<latest[n]>>)
            /\ \A r \in Indexed : (runs[r].task = n /\ one # <<>>) => one[1] \notin runs[r].before
            /\ (\E r \in Indexed : runs[r].task = n) => one # <<>>
            /\ \A r \in ReadEvalEntries \ Range(all) :
                    Len(all) = limit
                    /\ \A i \in 1..Len(all) : runs[all[i]].timestamp >= runs[r].timestamp

(* A record holds the verdict of every judge of its task, in order, each on *)
(* the one thread of that record, which no other record has, and            *)
(* informational judges do not move its overall score; what a command       *)
(* prints is what it recorded, and what it printed can be read.             *)
RecordsAreWhole ==
    /\ \A r \in 1..Len(runs) :
        /\ \E m \in Manifests :
            /\ ParseTaskManifest(m) /\ m.name = runs[r].task /\ Len(m.judges) = Len(runs[r].judges)
            /\ \A i \in DOMAIN m.judges :
                /\ runs[r].judges[i].name = m.judges[i].name
                /\ runs[r].judges[i].weight = m.judges[i].weight
                /\ runs[r].judges[i].thread = runs[r].thread
        /\ runs[r].overall = ComputeOverall(
               [i \in DOMAIN runs[r].judges |->
                   [runs[r].judges[i] EXCEPT !.score = IF runs[r].judges[i].weight = 0 THEN 0 ELSE @]])
        /\ \A s \in 1..Len(runs) : (s # r) => runs[s].thread # runs[r].thread
    /\ \A p \in Proc : \A i \in DOMAIN told[p] :
        /\ told[p][i] \in Indexed
        /\ runs[told[p][i]].task = job[p].dir.name
=============================================================================
