----------------------- MODULE ConcurrencySlotsProofs -----------------------
(***************************************************************************)
(* The limit of ConcurrencySlots holds for every number of processes and   *)
(* every limit, as long as no pid is reused.                               *)
(*                                                                         *)
(* The argument: among the processes that have read the directory after    *)
(* writing their own file, take the one that read last.  It saw the files  *)
(* of all the others, since each wrote before it read and none removes a   *)
(* file that belongs to a live process.  So whoever is let through last    *)
(* counted everybody who is running.                                       *)
(***************************************************************************)
EXTENDS ConcurrencySlots, FiniteSetTheorems, TLAPS

\* The file is written and not given back.
Claimed(p) == pc[p] \in {"recount", "recounting", "rollback", "held"}

\* The directory has been read since the file was written.
Readers == {p \in Proc : pc[p] \in {"recounting", "held"}}

\* What the last readdir returned, without the entries found dead.
Seen(p) == listing[p] \cup counted[p]

ClaimBacked == \A p \in Proc : Claimed(p) => p \in slots

\* A file, or an entry still to be examined, belongs to a process that started.
EntriesBorn ==
    /\ \A q \in slots : pc[q] # "unborn"
    /\ \A p \in Proc : \A q \in listing[p] : pc[q] # "unborn"

OnlyDeadDoomed ==
    \A p \in Proc : doomed[p] # NoProc => pc[doomed[p]] \in {"dead", "foreign"}

HeldWithinCount ==
    \A p \in Proc :
        pc[p] = "held" => /\ listing[p] = {}
                          /\ Cardinality(counted[p]) <= limit[p]

LastReaderSeesAll ==
    \A S \in SUBSET Readers : S # {} => \E p \in S : S \subseteq Seen(p)

SlotInv ==
    /\ TypeOK
    /\ ClaimBacked
    /\ EntriesBorn
    /\ OnlyDeadDoomed
    /\ HeldWithinCount
    /\ LastReaderSeesAll

-----------------------------------------------------------------------------
(* Every step of acquireConcurrencySlot, of its holder or of a kill keeps the types. *)
LEMMA TypingStep == TypeOK /\ Next => TypeOK'
<1> SUFFICES ASSUME TypeOK, Next PROVE TypeOK'
  OBVIOUS
<1> USE SlotAssumption DEF TypeOK, Control, Goto
<1>1. ASSUME NEW p \in Proc, Start(p) \/ Recycle(p) PROVE TypeOK'
  BY <1>1 DEF Start, Recycle
<1>2. ASSUME NEW p \in Proc, SweepList(p) \/ CountList(p) \/ RecountList(p)
      PROVE TypeOK'
  BY <1>2 DEF SweepList, CountList, RecountList, ReadDir
<1>3. ASSUME NEW p \in Proc, SweepProbe(p) \/ SweepUnlink(p) \/ SweepDone(p)
      PROVE TypeOK'
  BY <1>3 DEF SweepProbe, SweepUnlink, SweepDone
<1>4. ASSUME NEW p \in Proc, Probe(p) PROVE TypeOK'
  BY <1>4 DEF Probe
<1>5. ASSUME NEW p \in Proc, CountFull(p) \/ CountFree(p) PROVE TypeOK'
  BY <1>5 DEF CountFull, CountFree
<1>6. ASSUME NEW p \in Proc,
             Claim(p) \/ ClaimWon(p) \/ ClaimLost(p) \/ Rollback(p)
      PROVE TypeOK'
  BY <1>6 DEF Claim, ClaimWon, ClaimLost, Rollback
<1>7. ASSUME NEW p \in Proc, Wake(p) \/ Release(p) PROVE TypeOK'
  BY <1>7 DEF Wake, Release
<1>8. ASSUME NEW p \in Proc, SignalExit(p) \/ Die(p) PROVE TypeOK'
  BY <1>8 DEF SignalExit, Die, Forget
<1>9. QED
  BY <1>1, <1>2, <1>3, <1>4, <1>5, <1>6, <1>7, <1>8 DEF Next, Step

\* Every variable keeps its type: the control labels of acquireSlot are the
\* only ones, and a limit is one of those the configuration took.
THEOREM Typing == Spec => []TypeOK
<1>1. Init => TypeOK
  BY SlotAssumption DEF Init, TypeOK, Control
<1>2. TypeOK /\ vars' = vars => TypeOK'
  BY DEF TypeOK, vars
<1>3. TypeOK /\ [Next]_vars => TypeOK'
  BY <1>2, TypingStep
<1>4. QED
  BY <1>1, <1>3, PTL DEF Spec

-----------------------------------------------------------------------------
(* Nothing is written and nobody waits when the machine starts. *)
LEMMA InitSlotInv == Init => SlotInv
<1> SUFFICES ASSUME Init PROVE SlotInv
  OBVIOUS
<1>1. TypeOK
  BY SlotAssumption DEF Init, TypeOK, Control
<1>2. ClaimBacked /\ EntriesBorn /\ OnlyDeadDoomed /\ HeldWithinCount
  BY DEF Init, ClaimBacked, EntriesBorn, OnlyDeadDoomed, HeldWithinCount, Claimed
<1>3. LastReaderSeesAll
  BY DEF Init, LastReaderSeesAll, Readers
<1>4. QED
  BY <1>1, <1>2, <1>3 DEF SlotInv

\* A file is taken away from its owner only by the owner.
LEMMA ClaimBackedStep == SlotInv /\ Next => ClaimBacked'
<1> SUFFICES ASSUME SlotInv, Next PROVE ClaimBacked'
  OBVIOUS
<1> USE DEF SlotInv, TypeOK, ClaimBacked, OnlyDeadDoomed, Claimed, Goto
<1>1. ASSUME NEW p \in Proc, SweepUnlink(p) PROVE ClaimBacked'
  BY <1>1 DEF SweepUnlink
<1>2. ASSUME NEW p \in Proc,
             Start(p) \/ Recycle(p) \/ SweepList(p) \/ CountList(p)
               \/ RecountList(p) \/ SweepProbe(p) \/ SweepDone(p) \/ Probe(p)
      PROVE ClaimBacked'
  BY <1>2 DEF Start, Recycle, SweepList, CountList, RecountList, ReadDir,
              SweepProbe, SweepDone, Probe
<1>3. ASSUME NEW p \in Proc,
             CountFull(p) \/ CountFree(p) \/ Claim(p) \/ ClaimWon(p)
               \/ ClaimLost(p) \/ Rollback(p)
      PROVE ClaimBacked'
  BY <1>3 DEF CountFull, CountFree, Claim, ClaimWon, ClaimLost, Rollback, Counted
<1>4. ASSUME NEW p \in Proc,
             Wake(p) \/ Release(p) \/ SignalExit(p) \/ Die(p)
      PROVE ClaimBacked'
  BY <1>4 DEF Wake, Release, SignalExit, Die
<1>5. QED
  BY <1>1, <1>2, <1>3, <1>4 DEF Next, Step

(* An entry on disk, or still to be examined, is that of a process that started. *)
LEMMA EntriesBornStep == SlotInv /\ Next => EntriesBorn'
<1> SUFFICES ASSUME SlotInv, Next PROVE EntriesBorn'
  OBVIOUS
<1> USE DEF SlotInv, TypeOK, Control, EntriesBorn, Goto
<1>1. ASSUME NEW p \in Proc,
             Start(p) \/ Recycle(p) \/ SweepList(p) \/ CountList(p)
               \/ RecountList(p)
      PROVE EntriesBorn'
  BY <1>1 DEF Start, Recycle, SweepList, CountList, RecountList, ReadDir
<1>2. ASSUME NEW p \in Proc,
             SweepProbe(p) \/ SweepUnlink(p) \/ SweepDone(p) \/ Probe(p)
      PROVE EntriesBorn'
  BY <1>2 DEF SweepProbe, SweepUnlink, SweepDone, Probe
<1>3. ASSUME NEW p \in Proc,
             CountFull(p) \/ CountFree(p) \/ Claim(p) \/ ClaimWon(p)
               \/ ClaimLost(p) \/ Rollback(p)
      PROVE EntriesBorn'
  BY <1>3 DEF CountFull, CountFree, Claim, ClaimWon, ClaimLost, Rollback, Counted
<1>4. ASSUME NEW p \in Proc,
             Wake(p) \/ Release(p) \/ SignalExit(p) \/ Die(p)
      PROVE EntriesBorn'
  BY <1>4 DEF Wake, Release, SignalExit, Die, Forget
<1>5. QED
  BY <1>1, <1>2, <1>3, <1>4 DEF Next, Step

\* The entry a sweep found dead stays dead: this is where pid reuse would hurt.
LEMMA OnlyDeadDoomedStep ==
  ASSUME PidReuse = FALSE
  PROVE  SlotInv /\ Next => OnlyDeadDoomed'
<1> SUFFICES ASSUME SlotInv, Next PROVE OnlyDeadDoomed'
  OBVIOUS
<1> USE SlotAssumption DEF SlotInv, TypeOK, Control, OnlyDeadDoomed, Goto
<1>1. ASSUME NEW p \in Proc, SweepProbe(p) PROVE OnlyDeadDoomed'
  <2>1. \A q \in listing[p] : ~Alive(q) => pc[q] = "dead"
    BY DEF Alive, EntriesBorn
  <2>2. QED
    BY <1>1, <2>1 DEF SweepProbe, Alive
<1>2. ASSUME NEW p \in Proc,
             Start(p) \/ Recycle(p) \/ SweepList(p) \/ CountList(p)
               \/ RecountList(p) \/ SweepUnlink(p) \/ SweepDone(p) \/ Probe(p)
      PROVE OnlyDeadDoomed'
  BY <1>2 DEF Start, Recycle, SweepList, CountList, RecountList, ReadDir,
              SweepUnlink, SweepDone, Probe
<1>3. ASSUME NEW p \in Proc,
             CountFull(p) \/ CountFree(p) \/ Claim(p) \/ ClaimWon(p)
               \/ ClaimLost(p) \/ Rollback(p)
      PROVE OnlyDeadDoomed'
  BY <1>3 DEF CountFull, CountFree, Claim, ClaimWon, ClaimLost, Rollback, Counted
<1>4. ASSUME NEW p \in Proc,
             Wake(p) \/ Release(p) \/ SignalExit(p) \/ Die(p)
      PROVE OnlyDeadDoomed'
  BY <1>4 DEF Wake, Release, SignalExit, Die, Forget, Alive
<1>5. QED
  BY <1>1, <1>2, <1>3, <1>4 DEF Next, Step

(* What a process read as its limit is a number the slots' count can be compared with. *)
LEMMA LimitsNatural == TypeOK => \A p \in Proc : limit[p] \in 0 .. MaxRunning
<1> SUFFICES ASSUME TypeOK, NEW p \in Proc PROVE limit[p] \in 0 .. MaxRunning
  OBVIOUS
<1>1. limit[p] \in Limits \cup {0}
  BY DEF TypeOK
<1>2. CASE limit[p] \in Limits
  <2>1. MaxRunning \in Nat /\ limit[p] \in 1 .. MaxRunning
    BY <1>2, SlotAssumption
  <2>2. QED
    BY <2>1
<1>3. CASE limit[p] = 0
  BY <1>3, SlotAssumption
<1>4. QED
  BY <1>1, <1>2, <1>3

\* A process is let through only on a count within its limit, and keeps it.
LEMMA HeldWithinCountStep == SlotInv /\ Next => HeldWithinCount'
<1> SUFFICES ASSUME SlotInv, Next PROVE HeldWithinCount'
  OBVIOUS
<1> USE DEF SlotInv, TypeOK, HeldWithinCount, Goto
<1>1. ASSUME NEW p \in Proc,
             Start(p) \/ Recycle(p) \/ SweepList(p) \/ CountList(p)
               \/ RecountList(p)
      PROVE HeldWithinCount'
  BY <1>1 DEF Start, Recycle, SweepList, CountList, RecountList, ReadDir
<1>2. ASSUME NEW p \in Proc,
             SweepProbe(p) \/ SweepUnlink(p) \/ SweepDone(p) \/ Probe(p)
      PROVE HeldWithinCount'
  BY <1>2 DEF SweepProbe, SweepUnlink, SweepDone, Probe
<1>3. ASSUME NEW p \in Proc, ClaimWon(p) PROVE HeldWithinCount'
  <2>1. Cardinality(counted[p]) <= limit[p]
    <3>1. IsFiniteSet(counted[p])
      BY SlotAssumption, FS_Subset
    <3>2. Cardinality(counted[p]) \in Nat
      BY <3>1, FS_CardinalityType
    <3>3. limit[p] \in Nat
      BY LimitsNatural
    <3>4. QED
      BY <1>3, <3>2, <3>3 DEF ClaimWon, OverLimit
  <2>2. QED
    BY <1>3, <2>1 DEF ClaimWon, Counted
<1>4. ASSUME NEW p \in Proc,
             CountFull(p) \/ CountFree(p) \/ Claim(p) \/ ClaimLost(p)
               \/ Rollback(p)
      PROVE HeldWithinCount'
  BY <1>4 DEF CountFull, CountFree, Claim, ClaimLost, Rollback, Counted
<1>5. ASSUME NEW p \in Proc,
             Wake(p) \/ Release(p) \/ SignalExit(p) \/ Die(p)
      PROVE HeldWithinCount'
  BY <1>5 DEF Wake, Release, SignalExit, Die, Forget
<1>6. QED
  BY <1>1, <1>2, <1>3, <1>4, <1>5 DEF Next, Step

\* A step that adds no reader and takes no live entry out of what a reader saw
\* keeps the order of the readers.
LEMMA ReadersShrink ==
  ASSUME TypeOK, LastReaderSeesAll,
         Readers' \subseteq Readers,
         \A p \in Readers' : Seen(p) \cap Readers' \subseteq Seen(p)'
  PROVE  LastReaderSeesAll'
<1> SUFFICES ASSUME NEW S \in SUBSET (Readers'), S # {}
             PROVE \E p \in S : S \subseteq Seen(p)'
  BY DEF LastReaderSeesAll
<1>1. PICK p \in S : S \subseteq Seen(p)
  BY DEF LastReaderSeesAll
<1>2. QED
  BY <1>1

(* Of any set of readers, one has seen the entries of them all, after every step. *)
LEMMA LastReaderStep == SlotInv /\ Next => LastReaderSeesAll'
<1> SUFFICES ASSUME SlotInv, Next PROVE LastReaderSeesAll'
  OBVIOUS
<1> USE DEF SlotInv, TypeOK, Goto
<1>1. ASSUME NEW p \in Proc, RecountList(p) PROVE LastReaderSeesAll'
  <2> SUFFICES ASSUME NEW S \in SUBSET (Readers'), S # {}
               PROVE \E q \in S : S \subseteq Seen(q)'
    BY DEF LastReaderSeesAll
  <2>1. Readers' = Readers \cup {p} /\ p \notin Readers
    BY <1>1 DEF RecountList, ReadDir, Readers
  <2>2. \A q \in Readers : Seen(q)' = Seen(q)
    BY <1>1 DEF RecountList, ReadDir, Readers, Seen
  <2>3. Seen(p)' = slots
    BY <1>1 DEF RecountList, ReadDir, Seen
  <2>4. Readers \cup {p} \subseteq slots
    BY <1>1 DEF RecountList, ReadDir, Readers, ClaimBacked, Claimed
  <2>5. CASE p \in S
    BY <2>1, <2>3, <2>4, <2>5
  <2>6. CASE p \notin S
    <3>1. S \in SUBSET Readers
      BY <2>1, <2>6
    <3>2. PICK q \in S : S \subseteq Seen(q)
      BY <3>1 DEF LastReaderSeesAll
    <3>3. QED
      BY <2>2, <3>1, <3>2
  <2>7. QED
    BY <2>5, <2>6
<1>2. ASSUME NEW p \in Proc, Probe(p) PROVE LastReaderSeesAll'
  <2>1. Readers' = Readers
    BY <1>2 DEF Probe, Readers
  <2>2. \A q \in Readers : Seen(q) \cap Readers \subseteq Seen(q)'
    BY <1>2 DEF Probe, Readers, Seen, Alive
  <2>3. QED
    BY <2>1, <2>2, ReadersShrink
<1>3. ASSUME NEW p \in Proc, ClaimWon(p) PROVE LastReaderSeesAll'
  <2>1. Readers' \subseteq Readers
    BY <1>3 DEF ClaimWon, Counted, Readers
  <2>2. \A q \in Readers : Seen(q)' = Seen(q)
    BY <1>3 DEF ClaimWon, Seen
  <2>3. QED
    BY <2>1, <2>2, ReadersShrink
<1>4. ASSUME NEW p \in Proc,
             Start(p) \/ Recycle(p) \/ SweepList(p) \/ CountList(p)
               \/ SweepProbe(p) \/ SweepUnlink(p) \/ SweepDone(p)
      PROVE LastReaderSeesAll'
  <2>1. Readers' \subseteq Readers
    BY <1>4 DEF Start, Recycle, SweepList, CountList, ReadDir, SweepProbe,
                SweepUnlink, SweepDone, Readers
  <2>2. \A q \in Readers' : Seen(q)' = Seen(q)
    BY <1>4 DEF Start, Recycle, SweepList, CountList, ReadDir, SweepProbe,
                SweepUnlink, SweepDone, Readers, Seen
  <2>3. QED
    BY <2>1, <2>2, ReadersShrink
<1>5. ASSUME NEW p \in Proc,
             CountFull(p) \/ CountFree(p) \/ Claim(p) \/ ClaimLost(p)
               \/ Rollback(p) \/ Wake(p) \/ Release(p) \/ SignalExit(p) \/ Die(p)
      PROVE LastReaderSeesAll'
  <2>1. Readers' \subseteq Readers
    BY <1>5 DEF CountFull, CountFree, Claim, ClaimLost, Rollback, Wake, Release,
                SignalExit, Die, Counted, Readers
  <2>2. \A q \in Readers' : Seen(q)' = Seen(q)
    BY <1>5 DEF CountFull, CountFree, Claim, ClaimLost, Rollback, Wake, Release,
                SignalExit, Die, Forget, Counted, Readers, Seen
  <2>3. QED
    BY <2>1, <2>2, ReadersShrink
<1>6. QED
  BY <1>1, <1>2, <1>3, <1>4, <1>5 DEF Next, Step

\* While every process sleeps in its retry loop or works inside its slot, the
\* strengthened invariant stays as it is.
LEMMA WaitingKeepsSlots == SlotInv /\ vars' = vars => SlotInv'
<1> SUFFICES ASSUME SlotInv, vars' = vars PROVE SlotInv'
  OBVIOUS
<1> USE DEF SlotInv, vars
<1>1. TypeOK'
  BY DEF TypeOK
<1>2. ClaimBacked' /\ EntriesBorn' /\ OnlyDeadDoomed' /\ HeldWithinCount'
  BY DEF ClaimBacked, EntriesBorn, OnlyDeadDoomed, HeldWithinCount, Claimed
<1>3. LastReaderSeesAll'
  BY ReadersShrink DEF Readers, Seen
<1>4. QED
  BY <1>1, <1>2, <1>3

-----------------------------------------------------------------------------
(* The strengthened invariant holds of every behaviour in which pids are not reused. *)
LEMMA Inductive == ASSUME PidReuse = FALSE PROVE Spec => []SlotInv
<1>1. SlotInv /\ Next => SlotInv'
  BY TypingStep, ClaimBackedStep, EntriesBornStep, OnlyDeadDoomedStep,
     HeldWithinCountStep, LastReaderStep DEF SlotInv
<1>2. SlotInv /\ [Next]_vars => SlotInv'
  BY <1>1, WaitingKeepsSlots
<1>3. QED
  BY InitSlotInv, <1>2, PTL DEF Spec

\* Everybody who holds a slot was counted by one of the holders.
LEMMA LastHolder ==
  SlotInv /\ Holders # {} => \E p \in Holders : Cardinality(Holders) <= limit[p]
<1> SUFFICES ASSUME SlotInv, Holders # {}
             PROVE  \E p \in Holders : Cardinality(Holders) <= limit[p]
  OBVIOUS
<1>1. Holders \in SUBSET Readers
  BY DEF Holders, Readers
<1>2. PICK p \in Holders : Holders \subseteq Seen(p)
  BY <1>1 DEF SlotInv, LastReaderSeesAll
<1>3. p \in Proc /\ Holders \subseteq counted[p]
  BY <1>2 DEF Seen, Holders, SlotInv, HeldWithinCount
<1>4. Cardinality(counted[p]) <= limit[p]
  BY <1>2 DEF Holders, SlotInv, HeldWithinCount
<1>5. IsFiniteSet(counted[p])
  BY <1>3, SlotAssumption, FS_Subset DEF SlotInv, TypeOK
<1>6. IsFiniteSet(Holders) /\ Cardinality(Holders) <= Cardinality(counted[p])
  BY <1>3, <1>5, FS_Subset
<1>7. /\ Cardinality(Holders) \in Nat
      /\ Cardinality(counted[p]) \in Nat
      /\ limit[p] \in Nat
  BY <1>3, <1>5, <1>6, FS_CardinalityType, LimitsNatural, SlotAssumption DEF SlotInv
<1>8. QED
  BY <1>3, <1>4, <1>6, <1>7

\* No more processes run than the limit one of them was told: write-then-recount
\* is enough, without any lock, as long as pids are not reused.
THEOREM LimitHolds == ASSUME PidReuse = FALSE PROVE Spec => []HoldersWithinLimit
<1>1. SlotInv => HoldersWithinLimit
  BY LastHolder DEF HoldersWithinLimit
<1>2. QED
  BY <1>1, Inductive, PTL

\* cleanStaleSlots never removes the file of a process that is running.
THEOREM HoldersKeepSlots == ASSUME PidReuse = FALSE PROVE Spec => []HolderHasSlot
<1>1. SlotInv => HolderHasSlot
  BY DEF SlotInv, ClaimBacked, Claimed, HolderHasSlot, Holders
<1>2. QED
  BY <1>1, Inductive, PTL

-----------------------------------------------------------------------------
(* A process that becomes a holder below MaxRunning is an Acquire of the pool. *)
LEMMA HoldersEnter ==
  ASSUME NEW p \in Proc, p \notin Holders, Holders' = Holders \cup {p},
         Cardinality(Holders) < MaxRunning
  PROVE  [Pool!NextPool]_Holders
BY DEF Pool!NextPool, Pool!Acquire, Pool!Cardinality, Cardinality,
       Pool!IsFiniteSet, IsFiniteSet

\* A step that lets nobody in is a release of the pool or leaves it alone.
LEMMA HoldersLeave ==
  ASSUME NEW p \in Proc, Holders' = Holders \/ Holders' = Holders \ {p}
  PROVE  [Pool!NextPool]_Holders
<1>1. CASE Holders' = Holders
  BY <1>1
<1>2. CASE p \notin Holders
  BY <1>2
<1>3. CASE p \in Holders /\ Holders' = Holders \ {p}
  BY <1>3 DEF Pool!NextPool, Pool!Release
<1>4. QED
  BY <1>1, <1>2, <1>3

\* The recount of acquireSlot lets a process in only while the pool has room: the
\* holders, it included, are no more than a limit that one of them was told.
LEMMA RecountAdmits ==
  ASSUME NEW p \in Proc, SlotInv, ClaimWon(p),
         NEW q, limit'[q] \in 0 .. MaxRunning, Cardinality(Holders') <= limit'[q]
  PROVE  [Pool!NextPool]_Holders
<1>1. p \notin Holders /\ Holders' = Holders \cup {p}
  BY DEF ClaimWon, Counted, SlotInv, TypeOK, Goto, Holders
<1>2. IsFiniteSet(Holders)
  BY SlotAssumption, FS_Subset DEF Holders
<1>3. /\ Cardinality(Holders') = Cardinality(Holders) + 1
      /\ Cardinality(Holders) \in Nat
  BY <1>1, <1>2, FS_AddElement, FS_CardinalityType
<1>4. Cardinality(Holders) < MaxRunning
  BY <1>3, SlotAssumption
<1>5. QED
  BY <1>1, <1>4, HoldersEnter

\* Whatever else acquireSlot does, and whatever is killed, nobody gets in by it.
LEMMA NobodyElseEnters ==
  ASSUME SlotInv, [Next]_vars, \A p \in Proc : ~ClaimWon(p)
  PROVE  [Pool!NextPool]_Holders
<1> USE DEF SlotInv, TypeOK, Goto
<1>1. ASSUME NEW p \in Proc, Release(p) \/ SignalExit(p) \/ Die(p)
      PROVE  Holders' = Holders \ {p}
  BY <1>1 DEF Release, SignalExit, Die, Holders
<1>2. ASSUME NEW p \in Proc,
             Start(p) \/ Recycle(p) \/ SweepList(p) \/ CountList(p)
               \/ RecountList(p) \/ SweepProbe(p) \/ SweepUnlink(p)
               \/ SweepDone(p) \/ Probe(p)
      PROVE  Holders' = Holders
  BY <1>2 DEF Start, Recycle, SweepList, CountList, RecountList, ReadDir,
              SweepProbe, SweepUnlink, SweepDone, Probe, Holders
<1>3. ASSUME NEW p \in Proc,
             CountFull(p) \/ CountFree(p) \/ Claim(p) \/ ClaimLost(p)
               \/ Rollback(p) \/ Wake(p)
      PROVE  Holders' = Holders
  BY <1>3 DEF CountFull, CountFree, Claim, ClaimLost, Rollback, Wake, Counted, Holders
<1>4. CASE vars' = vars
  <2>1. Holders' = Holders
    BY <1>4 DEF vars, Holders
  <2>2. QED
    BY <2>1
<1>5. ASSUME Next
      PROVE  (\E p \in Proc : Holders' = Holders \ {p}) \/ Holders' = Holders
  BY <1>1, <1>2, <1>3, <1>5 DEF Next, Step
<1>6. QED
  BY <1>4, <1>5, HoldersLeave

\* The slot files implement the pool: every step of acquireSlot is a step of the
\* pool on the set of running processes, or leaves that set alone.
THEOREM ImplementsPool == ASSUME PidReuse = FALSE PROVE Spec => PoolSpec
<1>1. Init => Pool!InitPool
  BY DEF Init, Pool!InitPool, Holders
<1>2. (SlotInv /\ Holders # {} =>
         \E p \in Holders : Cardinality(Holders) <= limit[p])'
  BY LastHolder, PTL
<1>3. (TypeOK => \A p \in Proc : limit[p] \in 0 .. MaxRunning)'
  BY LimitsNatural, PTL
<1>4. ASSUME SlotInv, SlotInv', NEW p \in Proc, ClaimWon(p)
      PROVE  [Pool!NextPool]_Holders
  <2>1. Holders' # {}
    BY <1>4 DEF ClaimWon, Counted, SlotInv, TypeOK, Goto, Holders
  <2>2. PICK q \in Holders' : Cardinality(Holders') <= limit'[q]
    BY <1>2, <1>4, <2>1
  <2>3. limit'[q] \in 0 .. MaxRunning
    BY <1>3, <1>4, <2>2 DEF SlotInv, Holders
  <2>4. QED
    BY <1>4, <2>2, <2>3, RecountAdmits
<1>5. SlotInv /\ SlotInv' /\ [Next]_vars => [Pool!NextPool]_Holders
  BY <1>4, NobodyElseEnters
<1>6. QED
  BY <1>1, <1>5, Inductive, PTL DEF Spec, PoolSpec, Pool!SpecPool
=============================================================================
