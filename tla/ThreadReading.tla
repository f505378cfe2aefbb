---------------------------- MODULE ThreadReading ----------------------------
(***************************************************************************)
(* Reading a thread page by page while a runner works on it: `uwf thread   *)
(* read' of packages/cli/src/commands/thread.ts, whose hint names the      *)
(* --before of the page to ask for next, and `uwf step turns' of step.ts   *)
(* with --offset and --limit; `uwf step read' of a step, and the same      *)
(* reading of a thread that `uwf step fork' made of a step.  A page is one *)
(* command, and one look at the variables of the thread; what they name    *)
(* never changes.  Nobody runs the fork.                                   *)
(*                                                                         *)
(* Lengths count the formatted parts of a page.  The detail of a broker    *)
(* step holds no turns, so a step is shown without an <output> and its     *)
(* block is as long as its header and the prompt of its role.              *)
(***************************************************************************)
EXTENDS LiveTurns

CONSTANTS
    Quotas,          \* values of --quota
    StartLength,     \* formatStartSection
    BlockLength,     \* a step with its role's prompt
    SeparatorLength, \* the 6 characters between two parts
    HeaderLength,    \* the header of step read, and the 200 characters kept free
    TurnLength,      \* a turn with its heading
    TurnSeparator,   \* the 2 characters between two turns
    PageTurns        \* the value of --limit

ASSUME PagesAssumption ==
    /\ Quotas \subseteq Nat
    /\ {StartLength, BlockLength, SeparatorLength, PageTurns,
        HeaderLength, TurnLength, TurnSeparator} \subseteq Nat \ {0}

VARIABLES
    reader, \* who reads in this behaviour: "follower" or "pager"
    pager   \* [pc, fork, quota, before, shown, top, offset]: shown is what the
            \* pages so far put together say, oldest first, and top the head
            \* at first

readVars == <<liveVars, reader, pager>>

NoStep == 0

-----------------------------------------------------------------------------
\* Mutant: the step that the hint names is shown again.
SliceUpTo(ordered, before) ==
    SubSeq(ordered, 1, CHOOSE i \in DOMAIN ordered : ordered[i] = before)

(* sliceBeforeHash, for a step that is found. *)
SliceBefore(ordered, before) ==
    SubSeq(ordered, 1, (CHOOSE i \in DOMAIN ordered : ordered[i] = before) - 1)

(* The length of a page of k steps: the start section stands on the first   *)
(* page only.                                                               *)
PageLength(k, start) ==
    k * BlockLength + start + SeparatorLength * (IF start > 0 THEN k ELSE k - 1)

(* As many of the newest as fit, one at least. *)
Newest(items, Length(_), quota) ==
    LET fits == {k \in 1..Len(items) : k = 1 \/ Length(k) <= quota}
        k == IF fits = {} THEN 0 ELSE Max(fits)
    IN  SubSeq(items, Len(items) - k + 1, Len(items))

(* selectByQuota *)
SelectByQuota(candidates, quota, start) ==
    Newest(candidates, LAMBDA k : PageLength(k, start), quota)

(* selectTurnsForQuota, for what the header leaves of the quota. *)
SelectTurnsForQuota(turns, quota) ==
    Newest(turns, LAMBDA k : HeaderLength + k * TurnLength + (k - 1) * TurnSeparator, quota)

(* formatThreadReadMarkdown: the steps with their numbers. *)
Numbered(candidates, selected) ==
    LET startIndex == Len(candidates) - Len(selected)
    IN  [i \in DOMAIN selected |-> [number |-> startIndex + i, step |-> selected[i]]]

(* paginatePanorama: the turns of all groups one after the other, numbered  *)
(* through, from the offset on and no more than the limit.                  *)
Flat(groups) == FlattenSeq([i \in DOMAIN groups |-> groups[i].turns])
PaginatePanorama(groups, offset, limit) ==
    LET all == Flat(groups)
    IN  SubSeq(all, offset + 1, IF offset + limit < Len(all) THEN offset + limit ELSE Len(all))

-----------------------------------------------------------------------------
Closed == [pc |-> "idle", fork |-> FALSE, quota |-> 0, before |-> NoStep, shown |-> <<>>,
           top |-> NoStep, offset |-> 0]

Watch == UNCHANGED <<liveVars, reader>>

(* cmdStepFork: a thread whose head is the step, or the start; it has no     *)
(* turns of its own and no runner.                                          *)
Fork(n) ==
    /\ reader = "pager" /\ pager.pc = "idle"
    /\ pager' = [Closed EXCEPT !.pc = "forked", !.fork = TRUE, !.top = n]
    /\ Watch

(* The head of the thread that is read, and its panorama. *)
HeadRead == IF pager.fork THEN pager.top ELSE head
PanoramaRead == IF pager.fork THEN PanoramaLegacy(pager.top) ELSE Panorama

(* cmdStepRead *)
ReadStep(n, quota) ==
    /\ reader = "pager" /\ pager.pc = "idle"
    /\ pager' = [Closed EXCEPT !.pc = "step", !.top = n, !.quota = quota,
                               !.shown = SelectTurnsForQuota(LoadTurnData(DetailTurns(n)), quota)]
    /\ Watch

(* cmdThreadRead without --before. *)
FirstPage(quota) ==
    LET candidates == Ordered(HeadRead)
        selected == SelectByQuota(candidates, quota, StartLength)
    IN  /\ reader = "pager" /\ pager.pc \in {"idle", "forked"}
        /\ pager' = [Closed EXCEPT
                !.fork = pager.fork,
                !.pc = IF Len(selected) < Len(candidates) THEN "steps" ELSE "done",
                !.quota = quota, !.top = HeadRead,
                !.before = IF selected = <<>> THEN NoStep ELSE selected[1],
                !.shown = Numbered(candidates, selected)]
        /\ Watch

(* cmdThreadRead with the --before of the hint. *)
NextPage ==
    LET ordered == Ordered(HeadRead)
        candidates == SliceBefore(ordered, pager.before)
        selected == SelectByQuota(candidates, pager.quota, 0)
    IN  /\ pager.pc = "steps"
        /\ \E i \in DOMAIN ordered : ordered[i] = pager.before
        /\ pager' = [pager EXCEPT
                !.pc = IF Len(selected) < Len(candidates) THEN "steps" ELSE "done",
                !.before = selected[1],
                !.shown = Numbered(candidates, selected) \o @]
        /\ Watch

(* sliceBeforeHash does not find the step. *)
StepNotFound ==
    /\ pager.pc = "steps"
    /\ pager.before \notin ToSet(Ordered(HeadRead))
    /\ pager' = [pager EXCEPT !.pc = "failed"]
    /\ Watch

(* cmdStepTurns, each time with as many turns to skip as have been shown. *)
PageOfTurns ==
    LET page == PaginatePanorama(PanoramaRead, pager.offset, PageTurns)
    IN  /\ reader = "pager" /\ pager.pc \in {"idle", "forked", "turns"}
        /\ page # <<>>
        /\ pager' = [pager EXCEPT !.pc = "turns", !.offset = @ + Len(page),
                                  !.shown = @ \o page]
        /\ Watch

-----------------------------------------------------------------------------
ReadInit == LiveInit /\ reader \in {"follower", "pager"} /\ pager = Closed

(* The step of an earlier version counts among MaxStarts. *)
Counted == nodes[1].start = OldStep => Len(starts) < MaxStarts

ReadNext ==
    \/ \E quota \in Quotas : FirstPage(quota)
    \/ \E n \in DOMAIN nodes, quota \in Quotas : ReadStep(n, quota)
    \/ \E n \in 0..Len(nodes) : Fork(n)
    \/ NextPage \/ StepNotFound
    \/ PageOfTurns
    \/ (reader = "follower" /\ Follow /\ UNCHANGED <<reader, pager>>)
    \/ (Poll /\ UNCHANGED <<reader, pager>>)
    \/ (Next /\ Counted' /\ UNCHANGED <<follower, reader, pager>>)

(* The fairness of the followed processes; nobody has to ask for a page.    *)
ReadSpec ==
    /\ ReadInit /\ [][ReadNext]_readVars
    /\ \A p \in Proc : WF_readVars(Step(p) /\ Counted' /\ UNCHANGED <<follower, reader, pager>>)
    /\ WF_readVars(Poll /\ UNCHANGED <<reader, pager>>)

-----------------------------------------------------------------------------
(* The follower returns once the thread is left alone. *)
FollowerReturns == <>[](marker = NoProc) => (fpc # "idle" ~> fpc = "done")

(* A later attempt at the place of an earlier one, or before it, which is   *)
(* put first.                                                               *)
Repeated ==
    \E s, t \in 1..Len(starts) : s < t /\ starts[t].stepIndex <= starts[s].stepIndex

(* Older turns give way to the first broker turn, or to a poke of their step. *)
Replaced ==
    /\ \E i \in DOMAIN pager.shown : pager.shown[i].owner = OldStep
    /\ turnHead # <<>> \/ \A n \in ToSet(Ordered(head)) : nodes[n].start # OldStep

(* Asking for the page before the last one until the hint is gone shows     *)
(* every step of the thread as it was at first once, under the number it    *)
(* has there, whatever the runner adds meanwhile; it fails only when a poke *)
(* replaced that head and the cursor stands on it, which never happens to a *)
(* fork.  The pages of the turns, by offset, are the panorama's beginning,  *)
(* none twice and none skipped, as long as no step was tried again or took  *)
(* the place of older turns.  A step shows the end of what its turns say,   *)
(* all of it or as much as the quota has room for.                          *)
PagesTile ==
    LET ordered == Ordered(pager.top)
        n == Len(pager.shown)
    IN  /\ pager.pc \in {"steps", "done", "failed"} =>
            pager.shown = [i \in 1..n |-> [number |-> Len(ordered) - n + i,
                                           step |-> ordered[Len(ordered) - n + i]]]
        /\ pager.pc = "done" => n = Len(ordered)
        /\ pager.pc = "failed" => pager.before = pager.top /\ ~pager.fork
        /\ (pager.pc = "turns" /\ ~Repeated /\ ~Replaced) =>
            pager.shown = SubSeq(Flat(PanoramaRead), 1, n)
        /\ pager.pc = "step" =>
            LET all == LoadTurnData(DetailTurns(pager.top))
            IN  /\ IsSuffix(pager.shown, all)
                /\ n < Len(all) => HeaderLength + (n + 1) * (TurnLength + TurnSeparator)
                                     - TurnSeparator > pager.quota
=============================================================================
