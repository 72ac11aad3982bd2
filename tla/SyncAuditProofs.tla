---------------------------- MODULE SyncAuditProofs ----------------------------
(***************************************************************************)
(* Proofs about SyncAudit for chains of any length, any checkpoint height and *)
(* any comparison heights: what is listed in a resumed wallet is, block by    *)
(* block, what the checkpoint held and then what the node to finish with has, *)
(* and so a reported pass has been earned.                                   *)
(***************************************************************************)
EXTENDS SyncAudit, TLAPS

(* -------------------------- the inductive invariant --------------------- *)

Ledgers == {l \in Seq(Kinds) : Len(l) <= MaxBlocks}
AuditSteps == {"capture", "kill", "open", "probe", "scan", "report"}

\* The blocks of a ledger are the first ones of a chain.
Within(ledger, chain) ==
  Len(ledger) <= Len(chain) /\ \A h \in 1..Len(ledger) : ledger[h] = chain[h]

\* Block by block: what was imported, and then the chain resumed.
Continues(ledger, imported, chain) ==
  \A h \in 1..Len(ledger) :
    IF h <= Len(imported) THEN ledger[h] = imported[h]
    ELSE h <= Len(chain) /\ ledger[h] = chain[h]

SampleValues == [complete : BOOLEAN, ledger : Ledgers,
                 interruption : BlockHeights \cup {Nothing}, imported : Ledgers,
                 preserved : BOOLEAN, forgot : BOOLEAN]

AuditValues ==
  /\ plan \in [chains : [1..2 -> Ledgers], target : Targets \cup {Nothing},
               torture : BOOLEAN]
  /\ worker \in [alive : BOOLEAN, ledger : Ledgers, noted : BlockHeights \cup {Nothing},
                 exported : BOOLEAN]
  /\ disk \in [cache : Ledgers \cup {Nothing}, state : BlockHeights \cup {Nothing}]
  /\ run \in [index : 1..2, step : AuditSteps, ledger : Ledgers,
              interruption : BlockHeights \cup {Nothing}, imported : Ledgers,
              preserved : BOOLEAN, forgot : BOOLEAN]
  /\ samples \in Seq(SampleValues)
  /\ report \in {Nothing, "pass", "fail"}

\* The child's files: the cache is of this chain, never ahead of the child nor behind
\* the height the state names, between any two of its writes.
CheckpointKept ==
  /\ Within(worker.ledger, Source)
  /\ worker.noted # Nothing => worker.noted \in Nat /\ worker.noted <= Len(worker.ledger)
  /\ disk.cache \in Ledgers =>
       /\ Within(disk.cache, Source)
       /\ worker.alive => Len(disk.cache) <= Len(worker.ledger)
  /\ worker.exported =>
       worker.noted # Nothing /\ disk.cache \in Ledgers /\ worker.noted <= Len(disk.cache)
  /\ disk.state # Nothing => disk.cache \in Ledgers /\ disk.state <= Len(disk.cache)

Interrupted(height, ledger) ==
  height \in Nat /\ KillHeight <= height /\ height <= Len(ledger)

\* What is known of a sequence that got its wallet, or of the sample it left.
IsTrialOf(index, t) ==
  /\ Within(t.imported, plan.chains[SourceNode(index)])
  /\ plan.torture =>
       /\ t.interruption # Nothing => Interrupted(t.interruption, t.imported)
       /\ ~t.forgot => Len(t.imported) <= Len(t.ledger)
  /\ ~plan.torture => t.imported = <<>>
  /\ (plan.torture => ~t.forgot) =>
       Continues(t.ledger, t.imported, plan.chains[ResumeNode(index)])

SequenceKept ==
  /\ plan.torture /\ run.step \in {"kill", "open"} =>
       disk.cache \in Ledgers /\ Interrupted(run.interruption, disk.cache)
  /\ run.step \in {"capture", "kill"} => plan.torture
  /\ ~plan.torture /\ run.step = "open" => run.ledger = <<>> /\ run.imported = <<>>
  /\ run.step = "probe" => plan.torture /\ run.ledger = run.imported
  /\ run.step \in {"probe", "scan"} => IsTrialOf(run.index, run)

SamplesKept ==
  /\ run.step = "report" => run.index = 2
  /\ Len(samples) = IF run.step = "report" THEN 2 ELSE run.index - 1
  /\ \A i \in DOMAIN samples : samples[i].complete =>
       /\ IsTrialOf(i, samples[i])
       /\ Len(plan.chains[ResumeNode(i)]) <= Len(samples[i].ledger)
  /\ report # Nothing => run.step = "report"
  /\ report = "pass" => Agreed /\ (plan.torture => LifecyclePassed)

AuditInv == AuditValues /\ CheckpointKept /\ SequenceKept /\ SamplesKept

(* ------------------------------- ledgers -------------------------------- *)

LEMMA LedgerAppended ==
  ASSUME NEW l \in Ledgers, NEW k \in Kinds, Len(l) < MaxBlocks
  PROVE  /\ Append(l, k) \in Ledgers /\ Len(Append(l, k)) = Len(l) + 1
         /\ Append(l, k)[Len(l) + 1] = k
         /\ \A h \in 1..Len(l) : Append(l, k)[h] = l[h]
  BY AuditAssumption DEF Ledgers

LEMMA LedgerForgets ==
  ASSUME NEW l \in Ledgers, NEW left \in Prefixes(l)
  PROVE  /\ left \in Ledgers /\ Len(left) <= Len(l)
         /\ \A h \in 1..Len(left) : left[h] = l[h]
<1>1. PICK n \in 0..Len(l) : left = SubSeq(l, 1, n)
  BY DEF Prefixes
<1>2. l \in Seq(Kinds) /\ Len(l) \in Nat
  BY DEF Ledgers
<1>3. left \in Seq(Kinds) /\ Len(left) = n /\ \A h \in 1..n : left[h] = l[h]
  BY <1>1, <1>2
<1> QED BY <1>1, <1>2, <1>3, AuditAssumption DEF Ledgers

LEMMA EmptyLedger == <<>> \in Ledgers /\ Len(<<>>) = 0
  BY AuditAssumption DEF Ledgers

LEMMA LedgerType ==
  ASSUME NEW l \in Ledgers
  PROVE  /\ Len(l) \in BlockHeights /\ Len(l) \in Nat /\ DOMAIN l = 1..Len(l)
         /\ \A h \in 1..Len(l) : l[h] \in Kinds
  BY AuditAssumption DEF Ledgers, BlockHeights

LEMMA NothingIsNoLedger == Nothing \notin Ledgers
<1>1. ASSUME NEW l \in Ledgers PROVE l = <<>> \/ l \in Chains
  <2>1. l \in [1..Len(l) -> Kinds] /\ Len(l) \in 0..MaxBlocks
    BY LedgerType DEF Ledgers, BlockHeights
  <2>2. CASE Len(l) = 0
    BY <2>2 DEF Ledgers
  <2>3. CASE Len(l) # 0
    <3>1. Len(l) \in 1..MaxBlocks
      BY <2>1, <2>3, AuditAssumption
    <3> QED BY <2>1, <3>1 DEF Chains
  <2> QED BY <2>2, <2>3
<1> QED BY <1>1, AuditAssumption

LEMMA NodesOf ==
  ASSUME AuditValues, NEW i \in 1..2
  PROVE  /\ plan.chains[SourceNode(i)] \in Ledgers /\ plan.chains[ResumeNode(i)] \in Ledgers
         /\ Source \in Ledgers /\ Resume \in Ledgers
         /\ SourceNode(i) \in 1..2 /\ ResumeNode(i) \in 1..2
  BY DEF AuditValues, SourceNode, ResumeNode, Source, Resume

(* ----------------------------- the samples kept ------------------------- *)

LEMMA SamplesUnchanged ==
  ASSUME SamplesKept, UNCHANGED <<plan, samples, report>>, run'.index = run.index,
         run'.step = "report" <=> run.step = "report"
  PROVE  SamplesKept'
<1>1. Agreed' <=> Agreed
  BY DEF Agreed, UpTo, Found, CommonHeight
<1>2. LifecyclePassed' <=> LifecyclePassed
  BY DEF LifecyclePassed, HistoryPreserved, Found
<1>3. ASSUME NEW i \in DOMAIN samples PROVE IsTrialOf(i, samples[i])' <=> IsTrialOf(i, samples[i])
  BY DEF IsTrialOf, ResumeNode, SourceNode
<1>4. \A i \in 1..2 : ResumeNode(i)' = ResumeNode(i)
  BY DEF ResumeNode
<1> QED BY <1>1, <1>2, <1>3 DEF SamplesKept, ResumeNode

\* A sequence that ends leaves a sample, and the next one starts from nothing.
LEMMA FinishKeeps ==
  ASSUME AuditInv, NEW outcome, Finish(outcome), run.step # "report",
         outcome = "completed" => run.step = "scan" /\ Len(Resume) <= Len(run.ledger)
  PROVE  AuditInv'
<1> DEFINE sample == IF outcome = "completed" THEN Sample(run) ELSE Incomplete
<1>1. /\ UNCHANGED <<plan, report>> /\ samples' = Append(samples, sample)
      /\ run' = IF run.index = 1 THEN Begin(2, plan.torture)
                                 ELSE [run EXCEPT !.step = "report"]
      /\ worker' = [NoWorker EXCEPT !.alive = plan.torture /\ run.index = 1]
      /\ disk' = NoFiles
  BY DEF Finish
<1>2. /\ run.index \in 1..2 /\ plan.torture \in BOOLEAN /\ report # "pass" /\ report = Nothing
      /\ Len(samples) = run.index - 1 /\ run.ledger \in Ledgers
  BY AuditAssumption DEF AuditInv, AuditValues, SamplesKept
<1>3. sample \in SampleValues
  BY EmptyLedger DEF AuditInv, AuditValues, Sample, Incomplete, SampleValues
<1>4. AuditValues'
  <2>1. run' \in [index : 1..2, step : AuditSteps, ledger : Ledgers,
                  interruption : BlockHeights \cup {Nothing}, imported : Ledgers,
                  preserved : BOOLEAN, forgot : BOOLEAN]
    <3>1. CASE run.index = 1
      BY <1>1, <1>2, <3>1, EmptyLedger DEF Begin, AuditSteps
    <3>2. CASE run.index # 1
      BY <1>1, <3>2 DEF AuditInv, AuditValues, AuditSteps
    <3> QED BY <3>1, <3>2
  <2>2. worker' \in [alive : BOOLEAN, ledger : Ledgers, noted : BlockHeights \cup {Nothing},
                     exported : BOOLEAN]
    BY <1>1, <1>2, EmptyLedger DEF NoWorker
  <2>3. disk' \in [cache : Ledgers \cup {Nothing}, state : BlockHeights \cup {Nothing}]
    BY <1>1 DEF NoFiles
  <2> QED BY <1>1, <1>3, <2>1, <2>2, <2>3 DEF AuditInv, AuditValues, BlockHeights, SampleValues
<1>5. CheckpointKept'
  <2>1. Source' \in Ledgers
    BY <1>4, NodesOf DEF AuditValues, Source, SourceNode
  <2>2. worker'.ledger = <<>> /\ worker'.noted = Nothing /\ worker'.exported = FALSE
    BY <1>1 DEF NoWorker
  <2>3. disk'.cache = Nothing /\ disk'.state = Nothing
    BY <1>1 DEF NoFiles
  <2>4. Within(worker'.ledger, Source')
    BY <2>1, <2>2, EmptyLedger, LedgerType DEF Within
  <2>5. disk'.cache \notin Ledgers
    BY <2>3, NothingIsNoLedger
  <2> QED BY <2>2, <2>3, <2>4, <2>5 DEF CheckpointKept, Within
<1>6. SequenceKept'
  <2>1. CASE run.index = 1
    <3>1. /\ run'.step = IF plan.torture THEN "capture" ELSE "open"
          /\ run'.ledger = <<>> /\ run'.imported = <<>>
      BY <1>1, <2>1 DEF Begin
    <3> QED BY <1>1, <1>2, <3>1 DEF SequenceKept
  <2>2. CASE run.index # 1
    <3>1. run'.step = "report"
      BY <1>1, <2>2 DEF AuditInv, AuditValues
    <3> QED BY <3>1 DEF SequenceKept
  <2> QED BY <2>1, <2>2
<1>7. SamplesKept'
  <2>1. /\ Len(samples') = run.index /\ samples'[run.index] = sample
        /\ \A i \in 1..(run.index - 1) : samples'[i] = samples[i]
    BY <1>1, <1>2, <1>3 DEF AuditInv, AuditValues
  <2>2. /\ run'.step = "report" <=> run.index = 2
        /\ run.index = 1 => run'.index = 2
        /\ run.index = 2 => run'.index = 2
    BY <1>1, <1>2 DEF Begin, AuditInv, AuditValues
  <2>3. ASSUME NEW i, NEW t, t = samples'[i], IsTrialOf(i, t),
               Len(plan.chains[ResumeNode(i)]) <= Len(t.ledger)
        PROVE  (IsTrialOf(i, samples[i])
                /\ Len(plan.chains[ResumeNode(i)]) <= Len(samples[i].ledger))'
    BY <1>1, <2>3 DEF IsTrialOf, ResumeNode, SourceNode
  <2>4. sample.complete =>
          IsTrialOf(run.index, sample)
          /\ Len(plan.chains[ResumeNode(run.index)]) <= Len(sample.ledger)
    <3> SUFFICES ASSUME sample.complete
                 PROVE  IsTrialOf(run.index, sample)
                        /\ Len(plan.chains[ResumeNode(run.index)]) <= Len(sample.ledger)
      OBVIOUS
    <3>1. outcome = "completed" /\ sample = Sample(run)
      BY DEF Incomplete
    <3>2. IsTrialOf(run.index, run)
      BY <3>1 DEF AuditInv, SequenceKept
    <3> QED BY <3>1, <3>2 DEF Sample, IsTrialOf, Resume
  <2>5. (\A i \in DOMAIN samples : samples[i].complete =>
           IsTrialOf(i, samples[i])
           /\ Len(plan.chains[ResumeNode(i)]) <= Len(samples[i].ledger))'
    <3> SUFFICES ASSUME NEW i \in DOMAIN samples', samples'[i].complete
                 PROVE  (IsTrialOf(i, samples[i])
                         /\ Len(plan.chains[ResumeNode(i)]) <= Len(samples[i].ledger))'
      OBVIOUS
    <3>1. i \in 1..run.index
      BY <1>4, <2>1 DEF AuditValues
    <3>2. CASE i = run.index
      BY <2>1, <2>3, <2>4, <3>2
    <3>3. CASE i # run.index
      <4>1. i \in DOMAIN samples /\ samples'[i] = samples[i]
        BY <1>2, <2>1, <3>1, <3>3 DEF AuditInv, AuditValues
      <4>2. IsTrialOf(i, samples[i])
            /\ Len(plan.chains[ResumeNode(i)]) <= Len(samples[i].ledger)
        BY <4>1 DEF AuditInv, SamplesKept
      <4> QED BY <2>3, <4>1, <4>2
    <3> QED BY <3>2, <3>3
  <2>6. report' = Nothing /\ report' # "pass"
    BY <1>1, <1>2
  <2> QED BY <1>2, <2>1, <2>2, <2>5, <2>6 DEF SamplesKept
<1> QED BY <1>4, <1>5, <1>6, <1>7 DEF AuditInv

LEMMA SequenceUnchanged ==
  ASSUME SequenceKept, UNCHANGED <<plan, run>>, disk'.cache = disk.cache
  PROVE  SequenceKept'
<1>1. IsTrialOf(run.index, run)' <=> IsTrialOf(run.index, run)
  BY DEF IsTrialOf, ResumeNode, SourceNode
<1> QED BY <1>1 DEF SequenceKept

(* ------------------------- the child and its files ---------------------- *)

LEMMA WorkerKeeps ==
  ASSUME AuditInv, WorkerScans \/ WorkerReads \/ WritesState \/ WorkerExits
  PROVE  AuditInv'
<1> USE DEF AuditInv
<1>1. /\ UNCHANGED <<plan, run, samples, report>> /\ disk'.cache = disk.cache
      /\ worker' \in [alive : BOOLEAN, ledger : Ledgers, noted : BlockHeights \cup {Nothing},
                      exported : BOOLEAN]
      /\ disk' \in [cache : Ledgers \cup {Nothing}, state : BlockHeights \cup {Nothing}]
  <2>1. CASE WorkerScans
    <3>1. /\ Source \in Ledgers /\ worker.ledger \in Ledgers
          /\ Len(worker.ledger) < Len(Source)
      BY <2>1, NodesOf DEF AuditValues, WorkerScans
    <3>2. Len(worker.ledger) + 1 \in 1..Len(Source) /\ Len(worker.ledger) < MaxBlocks
      BY <3>1, LedgerType, AuditAssumption DEF BlockHeights
    <3>3. Append(worker.ledger, Source[Len(worker.ledger) + 1]) \in Ledgers
      BY <3>1, <3>2, LedgerType, LedgerAppended
    <3> QED BY <2>1, <3>3 DEF WorkerScans, AuditValues
  <2>2. CASE WorkerReads
    BY <2>2, LedgerType DEF WorkerReads, AuditValues
  <2>3. CASE WritesState
    BY <2>3 DEF WritesState, AuditValues
  <2>4. CASE WorkerExits
    BY <2>4 DEF WorkerExits, AuditValues
  <2> QED BY <2>1, <2>2, <2>3, <2>4
<1>2. AuditValues'
  BY <1>1 DEF AuditValues, BlockHeights, SampleValues
<1>3. Source' = Source /\ Source \in Ledgers /\ worker.ledger \in Ledgers
  BY <1>1, NodesOf DEF Source, SourceNode, AuditValues
<1>4. CheckpointKept'
  <2>1. CASE WorkerScans
    <3> DEFINE block == Source[Len(worker.ledger) + 1]
    <3>1. /\ worker' = [worker EXCEPT !.ledger = Append(worker.ledger, block)]
          /\ disk' = disk /\ Len(worker.ledger) < Len(Source)
      BY <2>1 DEF WorkerScans
    <3>2. /\ Len(worker.ledger) \in Nat /\ Len(Source) \in Nat /\ Len(Source) <= MaxBlocks
          /\ \A h \in 1..Len(Source) : Source[h] \in Kinds
      BY <1>3, LedgerType DEF Ledgers
    <3>3. block \in Kinds /\ Len(worker.ledger) < MaxBlocks
      BY <3>1, <3>2, AuditAssumption
    <3> HIDE DEF block
    <3>4. /\ worker'.ledger = Append(worker.ledger, block) /\ worker'.noted = worker.noted
          /\ worker'.exported = worker.exported /\ worker'.alive = worker.alive
      BY <3>1 DEF AuditValues
    <3>5. /\ Len(worker'.ledger) = Len(worker.ledger) + 1
          /\ worker'.ledger[Len(worker.ledger) + 1] = block
          /\ \A h \in 1..Len(worker.ledger) : worker'.ledger[h] = worker.ledger[h]
      BY <1>3, <3>3, <3>4, LedgerAppended
    <3>6. Within(worker'.ledger, Source)
      <4>1. Within(worker.ledger, Source)
        BY DEF CheckpointKept
      <4>2. ASSUME NEW h \in 1..Len(worker'.ledger) PROVE worker'.ledger[h] = Source[h]
        <5>1. h \in 1..Len(worker.ledger) \/ h = Len(worker.ledger) + 1
          BY <3>2, <3>5
        <5> QED BY <3>5, <4>1, <5>1 DEF Within, block
      <4> QED BY <3>1, <3>2, <3>5, <4>2 DEF Within
    <3>7. disk.cache \in Ledgers => Len(disk.cache) \in Nat
      BY LedgerType
    <3>8. worker.noted # Nothing =>
            worker.noted \in Nat /\ worker.noted <= Len(worker.ledger)
      BY DEF CheckpointKept
    <3> QED BY <1>3, <3>1, <3>2, <3>4, <3>5, <3>6, <3>7, <3>8 DEF CheckpointKept
  <2>2. CASE WorkerReads
    <3>1. /\ worker'.noted = Len(worker.ledger) /\ worker'.ledger = worker.ledger
          /\ worker'.exported = worker.exported /\ worker'.alive = worker.alive
          /\ disk' = disk /\ worker.noted = Nothing
      BY <2>2 DEF WorkerReads, AuditValues
    <3> QED BY <1>3, <3>1, LedgerType DEF CheckpointKept
  <2>3. CASE WritesState
    <3>1. /\ worker'.noted = Nothing /\ worker'.ledger = worker.ledger
          /\ worker'.exported = FALSE /\ worker'.alive = worker.alive
          /\ disk'.cache = disk.cache /\ disk'.state = worker.noted /\ worker.exported
      BY <2>3 DEF WritesState, AuditValues
    <3> QED BY <1>3, <3>1 DEF CheckpointKept
  <2>4. CASE WorkerExits
    <3>1. /\ worker'.noted = worker.noted /\ worker'.ledger = worker.ledger
          /\ worker'.exported = worker.exported /\ worker'.alive = FALSE /\ disk' = disk
      BY <2>4 DEF WorkerExits, AuditValues
    <3> QED BY <1>3, <3>1 DEF CheckpointKept
  <2> QED BY <2>1, <2>2, <2>3, <2>4
<1> QED BY <1>1, <1>2, <1>4, SequenceUnchanged, SamplesUnchanged

\* The cache is replaced by a longer one of the same chain, before its state is.
LEMMA WritesCacheKeeps == ASSUME AuditInv, WritesCache PROVE AuditInv'
<1> USE DEF AuditInv
<1>1. /\ UNCHANGED <<plan, run, samples, report>>
      /\ disk'.cache = worker.ledger /\ disk'.state = disk.state
      /\ worker'.ledger = worker.ledger /\ worker'.noted = worker.noted /\ worker.alive
      /\ worker'.exported = TRUE /\ worker.noted # Nothing /\ worker.ledger \in Ledgers
  BY DEF WritesCache, AuditValues
<1>2. AuditValues'
  BY DEF WritesCache, AuditValues, BlockHeights
<1>3. Source' = Source
  BY <1>1 DEF Source, SourceNode
<1>4. disk.cache \in Ledgers => Len(disk.cache) <= Len(worker.ledger)
                              /\ Len(disk.cache) \in Nat /\ Len(worker.ledger) \in Nat
  BY <1>1, LedgerType DEF CheckpointKept
<1>5. disk.state # Nothing => disk.state \in Nat
  BY AuditAssumption DEF AuditValues, BlockHeights, SampleValues
<1>6. CheckpointKept'
  BY <1>1, <1>3, <1>4, <1>5, LedgerType DEF CheckpointKept
<1>7. SequenceKept'
  <2>1. IsTrialOf(run.index, run)' <=> IsTrialOf(run.index, run)
    BY <1>1 DEF IsTrialOf, ResumeNode, SourceNode
  <2>2. disk.cache \in Ledgers /\ Interrupted(run.interruption, disk.cache)
          => Interrupted(run.interruption, worker.ledger)
    BY <1>4 DEF Interrupted
  <2> QED BY <1>1, <2>1, <2>2 DEF SequenceKept
<1> QED BY <1>1, <1>2, <1>6, <1>7, SamplesUnchanged

(* ------------------------------ the sequence ---------------------------- *)

\* The child that is killed has reported enough, and what it left is at least that.
LEMMA KillKeeps == ASSUME AuditInv, SeesCheckpoint \/ Kills PROVE AuditInv'
<1> USE DEF AuditInv
<1>1. CASE SeesCheckpoint
  <2>1. /\ UNCHANGED <<plan, worker, disk, samples, report>> /\ run.step = "capture"
        /\ run' = [run EXCEPT !.step = "kill", !.interruption = disk.state]
        /\ disk.state # Nothing /\ disk.state >= KillHeight
    BY <1>1 DEF SeesCheckpoint
  <2>2. run'.step = "kill" /\ run'.index = run.index /\ run'.interruption = disk.state
    BY <2>1 DEF AuditValues
  <2>3. AuditValues'
    BY <2>1 DEF AuditValues, AuditSteps, BlockHeights, SampleValues
  <2>4. CheckpointKept'
    BY <2>1, <2>2 DEF CheckpointKept, Source, SourceNode
  <2>5. disk.state \in Nat /\ disk.cache \in Ledgers /\ disk.state <= Len(disk.cache)
    BY <2>1, AuditAssumption DEF AuditValues, BlockHeights, CheckpointKept
  <2>6. SequenceKept'
    BY <2>1, <2>2, <2>5, AuditAssumption DEF SequenceKept, Interrupted
  <2> QED BY SamplesUnchanged, <2>1, <2>2, <2>3, <2>4, <2>6
<1>2. CASE Kills
  <2>1. /\ UNCHANGED <<plan, disk, samples, report>> /\ run.step = "kill"
        /\ run' = [run EXCEPT !.step = "open"] /\ worker' = NoWorker
    BY <1>2 DEF Kills
  <2>2. /\ run'.step = "open" /\ run'.index = run.index
        /\ run'.interruption = run.interruption
    BY <2>1 DEF AuditValues
  <2>3. AuditValues'
    BY <2>1, EmptyLedger DEF AuditValues, AuditSteps, BlockHeights, SampleValues, NoWorker
  <2>4. CheckpointKept'
    <3>1. /\ worker'.alive = FALSE /\ worker'.ledger = <<>> /\ worker'.noted = Nothing
          /\ worker'.exported = FALSE
      BY <2>1 DEF NoWorker
    <3>2. Source' = Source /\ Within(<<>>, Source)
      BY <2>1, <2>2, NodesOf, LedgerType, EmptyLedger DEF Source, SourceNode, Within
    <3> QED BY <2>1, <3>1, <3>2 DEF CheckpointKept
  <2>5. plan.torture
    BY <2>1 DEF SequenceKept
  <2>6. SequenceKept'
    BY <2>1, <2>2, <2>5 DEF SequenceKept
  <2> QED BY SamplesUnchanged, <2>1, <2>2, <2>3, <2>4, <2>6
<1> QED BY <1>1, <1>2

\* The checkpoint is where the resumed sequence starts.
LEMMA OpensKeeps == ASSUME AuditInv, Opens PROVE AuditInv'
<1> USE DEF AuditInv
<1>1. /\ UNCHANGED <<plan, worker, disk, samples, report>> /\ run.step = "open"
      /\ run' = IF plan.torture
                  THEN [run EXCEPT !.step = "probe", !.ledger = disk.cache,
                                   !.imported = disk.cache]
                  ELSE [run EXCEPT !.step = "scan"]
  BY DEF Opens
<1>2. CASE plan.torture
  <2>1. disk.cache \in Ledgers /\ Interrupted(run.interruption, disk.cache)
    BY <1>1, <1>2 DEF SequenceKept
  <2>2. AuditValues'
    BY <1>1, <1>2, <2>1 DEF AuditValues, AuditSteps, BlockHeights, SampleValues
  <2>3. /\ run'.step = "probe" /\ run'.index = run.index /\ run'.ledger = disk.cache
        /\ run'.imported = disk.cache /\ run'.interruption = run.interruption
    BY <1>1, <1>2 DEF AuditValues
  <2>4. CheckpointKept'
    BY <1>1, <2>3 DEF CheckpointKept, Source, SourceNode
  <2>5. Within(disk.cache, plan.chains[SourceNode(run.index)])
    BY <2>1 DEF CheckpointKept, Source
  <2>6. IsTrialOf(run.index, run)'
    <3>1. Len(disk.cache) \in Nat
      BY <2>1, LedgerType
    <3>2. Continues(disk.cache, disk.cache, plan.chains[ResumeNode(run.index)])
      BY <3>1 DEF Continues
    <3> QED BY <1>1, <1>2, <2>1, <2>3, <2>5, <3>1, <3>2
            DEF IsTrialOf, SourceNode, ResumeNode
  <2>7. SequenceKept'
    BY <1>1, <1>2, <2>3, <2>6 DEF SequenceKept
  <2> QED BY <1>1, <2>2, <2>3, <2>4, <2>7, SamplesUnchanged
<1>3. CASE ~plan.torture
  <2>1. run' = [run EXCEPT !.step = "scan"] /\ run.ledger = <<>> /\ run.imported = <<>>
    BY <1>1, <1>3 DEF SequenceKept
  <2>2. AuditValues'
    BY <1>1, <2>1 DEF AuditValues, AuditSteps, BlockHeights, SampleValues
  <2>3. /\ run'.step = "scan" /\ run'.index = run.index /\ run'.ledger = <<>>
        /\ run'.imported = <<>>
    BY <1>1, <2>1 DEF AuditValues
  <2>4. CheckpointKept'
    BY <1>1, <2>3 DEF CheckpointKept, Source, SourceNode
  <2>5. IsTrialOf(run.index, run)'
    <3>1. plan.chains[SourceNode(run.index)] \in Ledgers
      BY NodesOf DEF AuditValues
    <3>2. /\ Within(<<>>, plan.chains[SourceNode(run.index)])
          /\ Continues(<<>>, <<>>, plan.chains[ResumeNode(run.index)])
      BY <3>1, EmptyLedger, LedgerType DEF Within, Continues
    <3> QED BY <1>1, <1>3, <2>3, <3>2 DEF IsTrialOf, SourceNode, ResumeNode
  <2>6. SequenceKept'
    BY <1>1, <1>3, <2>3, <2>5 DEF SequenceKept
  <2> QED BY <1>1, <2>2, <2>3, <2>4, <2>6, SamplesUnchanged
<1> QED BY <1>2, <1>3

\* The steps that only change what the sequence's wallet knows.
LEMMA TrialKeeps ==
  ASSUME AuditInv, run.step \in {"probe", "scan"}, UNCHANGED <<plan, worker, disk, samples, report>>,
         NEW ledger \in Ledgers, NEW preserved \in BOOLEAN, NEW forgot \in BOOLEAN,
         run' = [run EXCEPT !.step = "scan", !.ledger = ledger,
                            !.preserved = preserved, !.forgot = forgot],
         plan.torture /\ ~forgot => Len(run.imported) <= Len(ledger),
         (plan.torture => ~forgot) =>
            Continues(ledger, run.imported, plan.chains[ResumeNode(run.index)])
  PROVE  AuditInv'
<1> USE DEF AuditInv
<1>1. AuditValues'
  <2>1. run' \in [index : 1..2, step : AuditSteps, ledger : Ledgers,
                  interruption : BlockHeights \cup {Nothing}, imported : Ledgers,
                  preserved : BOOLEAN, forgot : BOOLEAN]
    <3>1. run \in [index : 1..2, step : AuditSteps, ledger : Ledgers,
                   interruption : BlockHeights \cup {Nothing}, imported : Ledgers,
                   preserved : BOOLEAN, forgot : BOOLEAN]
      BY DEF AuditValues
    <3>2. "scan" \in AuditSteps
      BY DEF AuditSteps
    <3> QED BY ONLY <3>1, <3>2, run' = [run EXCEPT !.step = "scan", !.ledger = ledger,
                                          !.preserved = preserved, !.forgot = forgot],
                    ledger \in Ledgers, preserved \in BOOLEAN, forgot \in BOOLEAN
  <2>2. UNCHANGED SampleValues
    BY DEF SampleValues
  <2> QED BY <2>1, <2>2 DEF AuditValues
<1>2. /\ run'.step = "scan" /\ run'.index = run.index /\ run'.ledger = ledger
      /\ run'.imported = run.imported /\ run'.interruption = run.interruption
      /\ run'.forgot = forgot
  BY DEF AuditValues
<1>3. CheckpointKept'
  BY <1>2 DEF CheckpointKept, Source, SourceNode
<1>4. IsTrialOf(run.index, run)
  BY DEF SequenceKept
<1>5. IsTrialOf(run.index, run)'
  BY <1>2, <1>4 DEF IsTrialOf, SourceNode, ResumeNode
<1>6. SequenceKept'
  BY <1>2, <1>5 DEF SequenceKept
<1> QED BY <1>1, <1>2, <1>3, <1>6, SamplesUnchanged

LEMMA ProbeKeeps ==
  ASSUME AuditInv, NEW observed \in BOOLEAN, NEW stopped \in BOOLEAN,
         Probes(observed, stopped)
  PROVE  AuditInv'
<1>1. run.step = "probe" /\ UNCHANGED <<plan, worker, disk, samples, report>>
  BY DEF Probes
<1>2. PICK left \in Prefixes(run.ledger) :
        run' = [run EXCEPT !.step = "scan", !.ledger = left,
                           !.preserved = observed /\ stopped /\ left = run.ledger,
                           !.forgot = left # run.ledger]
  BY DEF Probes
<1>3. run.ledger \in Ledgers /\ run.ledger = run.imported /\ plan.torture
  BY <1>1 DEF AuditInv, AuditValues, SequenceKept
<1>4. left \in Ledgers /\ Len(run.ledger) \in Nat
  BY <1>3, LedgerForgets, LedgerType
<1>5. left = run.ledger =>
        /\ Len(run.imported) <= Len(left)
        /\ Continues(left, run.imported, plan.chains[ResumeNode(run.index)])
  BY <1>3, <1>4 DEF Continues
<1>6. (observed /\ stopped /\ left = run.ledger) \in BOOLEAN /\ (left # run.ledger) \in BOOLEAN
  OBVIOUS
<1> QED BY <1>1, <1>2, <1>3, <1>4, <1>5, <1>6, TrialKeeps

LEMMA ScanKeeps == ASSUME AuditInv, Scans \/ Rewinds PROVE AuditInv'
<1>1. run.step = "scan" /\ UNCHANGED <<plan, worker, disk, samples, report>>
  BY DEF Scans, Rewinds
<1>2. /\ run.ledger \in Ledgers /\ run.preserved \in BOOLEAN /\ run.forgot \in BOOLEAN
      /\ Resume \in Ledgers /\ run.imported \in Ledgers
      /\ plan.chains[ResumeNode(run.index)] = Resume
  BY NodesOf DEF AuditInv, AuditValues, Resume
<1>3. /\ plan.torture /\ ~run.forgot => Len(run.imported) <= Len(run.ledger)
      /\ ~plan.torture => run.imported = <<>>
      /\ (plan.torture => ~run.forgot) => Continues(run.ledger, run.imported, Resume)
  BY <1>1, <1>2 DEF AuditInv, SequenceKept, IsTrialOf
<1>4. Len(run.ledger) \in Nat /\ Len(run.imported) \in Nat /\ Len(Resume) \in Nat
  BY <1>2, LedgerType
<1>5. CASE Scans
  <2> DEFINE block == Resume[Len(run.ledger) + 1]
             longer == Append(run.ledger, block)
  <2>1. Len(run.ledger) < Len(Resume) /\ run' = [run EXCEPT !.ledger = longer]
    BY <1>5 DEF Scans
  <2>2. block \in Kinds /\ Len(run.ledger) < MaxBlocks
    <3>1. Len(run.ledger) + 1 \in 1..Len(Resume) /\ Len(Resume) <= MaxBlocks
      BY <1>2, <1>4, <2>1 DEF Ledgers
    <3> QED BY <1>2, <1>4, <2>1, <3>1, LedgerType, AuditAssumption
  <2> HIDE DEF block
  <2>3. /\ longer \in Ledgers /\ Len(longer) = Len(run.ledger) + 1
        /\ longer[Len(run.ledger) + 1] = block
        /\ \A h \in 1..Len(run.ledger) : longer[h] = run.ledger[h]
    BY <1>2, <2>2, LedgerAppended
  <2> HIDE DEF longer
  <2>4. run' = [run EXCEPT !.step = "scan", !.ledger = longer,
                           !.preserved = run.preserved, !.forgot = run.forgot]
    BY <1>1, <2>1 DEF AuditInv, AuditValues
  <2>5. plan.torture /\ ~run.forgot => Len(run.imported) <= Len(longer)
    BY <1>3, <1>4, <2>3
  <2>6. (plan.torture => ~run.forgot) => Continues(longer, run.imported, Resume)
    <3> SUFFICES ASSUME plan.torture => ~run.forgot, NEW h \in 1..Len(longer)
                 PROVE  IF h <= Len(run.imported) THEN longer[h] = run.imported[h]
                        ELSE h <= Len(Resume) /\ longer[h] = Resume[h]
      BY DEF Continues
    <3>1. CASE h \in 1..Len(run.ledger)
      BY <1>3, <2>3, <3>1 DEF Continues
    <3>2. CASE h = Len(run.ledger) + 1
      <4>1. Len(run.imported) <= Len(run.ledger)
        BY <1>3, <1>4, EmptyLedger DEF AuditInv, AuditValues
      <4> QED BY <1>4, <2>1, <2>3, <3>2, <4>1 DEF block
    <3> QED BY <1>4, <2>3, <3>1, <3>2
  <2> QED BY <1>1, <1>2, <2>3, <2>4, <2>5, <2>6, TrialKeeps
<1>6. CASE Rewinds
  <2>1. PICK left \in Prefixes(run.ledger) : run' = [run EXCEPT !.ledger = left, !.forgot = TRUE]
    BY <1>6 DEF Rewinds
  <2>2. /\ left \in Ledgers /\ Len(left) <= Len(run.ledger) /\ Len(left) \in Nat
        /\ \A h \in 1..Len(left) : left[h] = run.ledger[h]
    BY <1>2, LedgerForgets, LedgerType
  <2>3. run' = [run EXCEPT !.step = "scan", !.ledger = left,
                           !.preserved = run.preserved, !.forgot = TRUE]
    BY <1>1, <2>1 DEF AuditInv, AuditValues
  <2>4. ~plan.torture => Continues(left, run.imported, Resume)
    BY <1>3, <1>4, <2>2 DEF Continues
  <2> QED BY <1>1, <1>2, <2>2, <2>3, <2>4, TrialKeeps
<1> QED BY <1>5, <1>6

LEMMA ReportKeeps == ASSUME AuditInv, Reports PROVE AuditInv'
<1> USE DEF AuditInv
<1>1. /\ UNCHANGED <<plan, worker, disk, run, samples>> /\ run.step = "report"
      /\ report' = IF Agreed /\ (plan.torture => LifecyclePassed) THEN "pass" ELSE "fail"
  BY DEF Reports
<1>2. AuditValues'
  BY <1>1 DEF AuditValues, BlockHeights, SampleValues
<1>3. CheckpointKept' /\ SequenceKept'
  BY <1>1, SequenceUnchanged DEF CheckpointKept, Source, SourceNode
<1>4. SamplesKept'
  <2>1. Agreed' <=> Agreed
    BY <1>1 DEF Agreed, UpTo, Found, CommonHeight
  <2>2. LifecyclePassed' <=> LifecyclePassed
    BY <1>1 DEF LifecyclePassed, HistoryPreserved, Found
  <2>3. \A i \in DOMAIN samples : IsTrialOf(i, samples[i])' <=> IsTrialOf(i, samples[i])
    BY <1>1 DEF IsTrialOf, ResumeNode, SourceNode
  <2>4. \A i \in 1..2 : ResumeNode(i)' = ResumeNode(i)
    BY <1>1 DEF ResumeNode
  <2> QED BY <1>1, <2>1, <2>2, <2>3 DEF SamplesKept, ResumeNode
<1> QED BY <1>2, <1>3, <1>4

(* ------------------------- every step, and the start -------------------- *)

LEMMA AuditStarts == AuditInit => AuditInv
<1> SUFFICES ASSUME AuditInit PROVE AuditInv
  OBVIOUS
<1>1. /\ plan \in [chains : [1..2 -> Chains], target : Targets \cup {Nothing},
                   torture : BOOLEAN]
      /\ worker = [NoWorker EXCEPT !.alive = plan.torture] /\ disk = NoFiles
      /\ run = Begin(1, plan.torture) /\ samples = <<>> /\ report = Nothing
  BY DEF AuditInit
<1>2. Chains \subseteq Ledgers
  <2> SUFFICES ASSUME NEW n \in 1..MaxBlocks, NEW l \in [1..n -> Kinds] PROVE l \in Ledgers
    BY DEF Chains
  <2>1. n \in Nat /\ n <= MaxBlocks
    BY AuditAssumption
  <2>2. l \in Seq(Kinds) /\ Len(l) = n
    BY <2>1
  <2> QED BY <2>1, <2>2 DEF Ledgers
<1>3. plan \in [chains : [1..2 -> Ledgers], target : Targets \cup {Nothing},
                torture : BOOLEAN]
  BY <1>1, <1>2
<1>4. /\ worker = [alive |-> plan.torture, ledger |-> <<>>, noted |-> Nothing,
                   exported |-> FALSE]
      /\ disk = [cache |-> Nothing, state |-> Nothing]
  BY <1>1 DEF NoWorker, NoFiles
<1>5. AuditValues
  <2>1. run = [index |-> 1, step |-> IF plan.torture THEN "capture" ELSE "open",
               ledger |-> <<>>, interruption |-> Nothing, imported |-> <<>>,
               preserved |-> ~plan.torture, forgot |-> FALSE]
    BY <1>1 DEF Begin
  <2>2. run \in [index : 1..2, step : AuditSteps, ledger : Ledgers,
                interruption : BlockHeights \cup {Nothing}, imported : Ledgers,
                preserved : BOOLEAN, forgot : BOOLEAN]
    BY <1>3, <2>1, EmptyLedger DEF AuditSteps
  <2>3. worker \in [alive : BOOLEAN, ledger : Ledgers, noted : BlockHeights \cup {Nothing},
                   exported : BOOLEAN]
    BY <1>3, <1>4, EmptyLedger
  <2> QED BY <1>1, <1>3, <1>4, <2>2, <2>3 DEF AuditValues
<1>6. CheckpointKept
  BY <1>4, <1>5, NodesOf, NothingIsNoLedger, EmptyLedger, LedgerType
  DEF CheckpointKept, Within, AuditValues, Begin
<1>7. SequenceKept
  BY <1>1 DEF SequenceKept, Begin
<1>8. SamplesKept
  BY <1>1, AuditAssumption DEF SamplesKept, Begin
<1> QED BY <1>5, <1>6, <1>7, <1>8 DEF AuditInv

LEMMA AuditStepsKeep == ASSUME AuditInv, [AuditNext]_auditVars PROVE AuditInv'
<1>1. CASE WorkerScans \/ WorkerReads \/ WritesState \/ WorkerExits
  BY <1>1, WorkerKeeps
<1>2. CASE WritesCache
  BY <1>2, WritesCacheKeeps
<1>3. CASE SeesCheckpoint \/ Kills
  BY <1>3, KillKeeps
<1>4. CASE Opens
  BY <1>4, OpensKeeps
<1>5. CASE \E observed, stopped \in BOOLEAN : Probes(observed, stopped)
  BY <1>5, ProbeKeeps
<1>6. CASE Scans \/ Rewinds
  BY <1>6, ScanKeeps
<1>7. CASE CaptureFails
  BY <1>7, FinishKeeps DEF CaptureFails
<1>8. CASE OpeningFails
  BY <1>8, FinishKeeps DEF OpeningFails
<1>9. CASE ScanFails
  BY <1>9, FinishKeeps DEF ScanFails
<1>10. CASE Completes
  <2>1. Len(Resume) <= Len(run.ledger) /\ run.step = "scan" /\ Finish("completed")
    <3>1. Len(Resume) \in Nat /\ Len(run.ledger) \in Nat
      BY NodesOf, LedgerType DEF AuditInv, AuditValues
    <3> QED BY <1>10, <3>1 DEF Completes
  <2> QED BY <2>1, FinishKeeps
<1>11. CASE Reports
  BY <1>11, ReportKeeps
<1>12. CASE UNCHANGED auditVars
  <2>1. UNCHANGED <<plan, worker, disk, run, samples, report>>
    BY <1>12 DEF auditVars
  <2>2. AuditValues' /\ CheckpointKept'
    BY <2>1 DEF AuditInv, AuditValues, CheckpointKept, Source, SourceNode, BlockHeights, SampleValues
  <2> QED BY <2>1, <2>2, SequenceUnchanged, SamplesUnchanged DEF AuditInv
<1> QED BY <1>1, <1>2, <1>3, <1>4, <1>5, <1>6, <1>7, <1>8, <1>9, <1>10, <1>11, <1>12
        DEF AuditNext

LEMMA AuditStaysInv == AuditSpec => []AuditInv
  BY AuditStarts, AuditStepsKeep, PTL DEF AuditSpec

(* ------------------------------- the theorems --------------------------- *)

LEMMA SampleOf ==
  ASSUME AuditInv, Len(samples) = 2, NEW i \in 1..2 PROVE samples[i] \in SampleValues
<1>1. samples \in Seq(SampleValues) /\ i \in 1..Len(samples)
  BY DEF AuditInv, AuditValues
<1> QED BY <1>1

LEMMA IsLedgerOf == ASSUME NEW l \in Ledgers PROVE IsLedger(l)
  BY LedgerType DEF IsLedger

\* Every chain, cache, wallet and sample is a ledger, a height or nothing, whatever
\* failed or was killed: a sequence's fields are those of run_resumed_torture_target
\* and run_audit_target at its step.
THEOREM AuditTypeCorrect == AuditSpec => []AuditTypeOK
<1>1. ASSUME AuditInv PROVE AuditTypeOK
  <2>1. \A i \in 1..2 : IsLedger(plan.chains[i])
    BY <1>1, IsLedgerOf DEF AuditInv, AuditValues
  <2>2. /\ plan.target \in Targets \cup {Nothing} /\ plan.torture \in BOOLEAN
        /\ worker.alive \in BOOLEAN /\ worker.exported \in BOOLEAN
        /\ worker.noted \in BlockHeights \cup {Nothing}
        /\ disk.state \in BlockHeights \cup {Nothing}
        /\ report \in {Nothing, "pass", "fail"}
    BY <1>1 DEF AuditInv, AuditValues
  <2>3. IsLedger(worker.ledger) /\ (disk.cache # Nothing => IsLedger(disk.cache))
    BY <1>1, IsLedgerOf DEF AuditInv, AuditValues
  <2>4. IsTrial(run) /\ run.index \in 1..2 /\ run.step \in AuditSteps
    BY <1>1, IsLedgerOf DEF AuditInv, AuditValues, IsTrial
  <2>5. \A i \in DOMAIN samples : IsTrial(samples[i]) /\ samples[i].complete \in BOOLEAN
    <3> SUFFICES ASSUME NEW i \in DOMAIN samples
                 PROVE  IsTrial(samples[i]) /\ samples[i].complete \in BOOLEAN
      OBVIOUS
    <3>1. samples[i] \in SampleValues
      BY <1>1 DEF AuditInv, AuditValues
    <3> QED BY <3>1, IsLedgerOf DEF SampleValues, IsTrial
  <2>6. Len(samples) <= 2
    BY <1>1 DEF AuditInv, AuditValues, SamplesKept
  <2> QED BY <2>5, <2>6, <2>1, <2>2, <2>3, <2>4 DEF AuditTypeOK, AuditSteps
<1> QED BY <1>1, AuditStaysInv, PTL

LEMMA CommonHeightIsAHeight ==
  ASSUME AuditInv, Len(samples) = 2 PROVE CommonHeight \in Nat
<1>1. CASE plan.target # Nothing
  BY <1>1, AuditAssumption DEF CommonHeight, AuditInv, AuditValues
<1>2. CASE plan.target = Nothing
  <2> DEFINE a == Len(samples[1].ledger)
             b == Len(samples[2].ledger)
  <2>1. samples[1].ledger \in Ledgers /\ samples[2].ledger \in Ledgers
    BY SampleOf DEF SampleValues
  <2>2. a \in Nat /\ b \in Nat
    BY <2>1, LedgerType
  <2>3. CommonHeight = Min({a, b})
    <3>1. {Len(samples[i].ledger) : i \in 1..2} = {a, b}
      <4>1. 1..2 = {1, 2}
        OBVIOUS
      <4> QED BY <4>1
    <3> QED BY <1>2, <3>1 DEF CommonHeight
  <2> HIDE DEF a, b
  <2>4. \E x \in {a, b} : \A y \in {a, b} : x <= y
    BY <2>2
  <2>5. Min({a, b}) \in {a, b}
    BY <2>4 DEF Min
  <2> QED BY <2>2, <2>3, <2>5
<1> QED BY <1>1, <1>2

\* What a ledger lists at a height, whether or not it reaches it.
Kind(ledger, h) == IF h \in DOMAIN ledger THEN ledger[h] ELSE "empty"

LEMMA AgreedBlocks ==
  ASSUME AuditInv, Agreed, NEW h \in 1..CommonHeight
  PROVE  /\ Kind(samples[1].ledger, h) = Kind(samples[2].ledger, h)
         /\ Kind(samples[1].ledger, h) # "feeless"
<1> DEFINE l == samples[1].ledger
           m == samples[2].ledger
<1>1. UpTo(l) = UpTo(m) /\ \A t \in UpTo(l) : t[2] # "feeless"
  BY DEF Agreed
<1> HIDE DEF l, m
<1>2. ASSUME NEW x, h \in Found(x) PROVE <<h, x[h]>> \in UpTo(x)
  BY <1>2 DEF UpTo
<1>3. ASSUME NEW x, NEW k, <<h, k>> \in UpTo(x) PROVE h \in Found(x) /\ x[h] = k
  BY <1>3 DEF UpTo
<1>4. CASE h \in Found(l)
  <2>1. <<h, l[h]>> \in UpTo(m) /\ l[h] # "feeless"
    BY <1>1, <1>2, <1>4
  <2>2. h \in Found(m) /\ m[h] = l[h]
    BY <1>3, <2>1
  <2> QED BY <1>4, <2>1, <2>2 DEF Kind, Found, l, m
<1>5. CASE h \notin Found(l)
  <2>1. h \notin Found(m)
    BY <1>1, <1>2, <1>3, <1>5
  <2> QED BY <1>5, <2>1 DEF Kind, Found, l, m
<1> QED BY <1>4, <1>5

\* A complete sample lists the blocks of the node its checkpoint was made from as far
\* as that goes, and of the node it was finished with beyond.
LEMMA SampleBlocks ==
  ASSUME AuditInv, NEW i \in 1..2, Len(samples) = 2, samples[i].complete,
         plan.torture => ~samples[i].forgot, NEW h \in Nat \ {0}
  PROVE  Kind(samples[i].ledger, h) =
           IF h <= Len(samples[i].imported) THEN Block(SourceNode(i), h)
           ELSE Block(ResumeNode(i), h)
<1> DEFINE t == samples[i]
           source == plan.chains[SourceNode(i)]
           resume == plan.chains[ResumeNode(i)]
<1>1. /\ t.ledger \in Ledgers /\ t.imported \in Ledgers
      /\ source \in Ledgers /\ resume \in Ledgers
  BY NodesOf, SampleOf DEF AuditInv, SampleValues
<1>2. /\ Len(t.ledger) \in Nat /\ Len(t.imported) \in Nat
      /\ Len(source) \in Nat /\ Len(resume) \in Nat
      /\ DOMAIN t.ledger = 1..Len(t.ledger) /\ DOMAIN source = 1..Len(source)
      /\ DOMAIN resume = 1..Len(resume)
  BY <1>1, LedgerType
<1>3. IsTrialOf(i, t) /\ Len(resume) <= Len(t.ledger)
  BY DEF AuditInv, SamplesKept, AuditValues
<1>4. /\ Within(t.imported, source) /\ Len(t.imported) <= Len(t.ledger)
      /\ Continues(t.ledger, t.imported, resume)
  BY <1>2, <1>3, EmptyLedger DEF IsTrialOf, AuditInv, AuditValues
<1>5. CASE h <= Len(t.imported)
  <2>1. h \in 1..Len(t.imported) /\ h \in 1..Len(t.ledger) /\ h \in 1..Len(source)
    BY <1>2, <1>4, <1>5 DEF Within
  <2> QED BY <1>2, <1>4, <1>5, <2>1 DEF Kind, Block, Within, Continues
<1>6. CASE h > Len(t.imported) /\ h <= Len(t.ledger)
  <2>1. h \in 1..Len(t.ledger) /\ ~(h <= Len(t.imported))
    BY <1>2, <1>6
  <2>2. h <= Len(resume) /\ t.ledger[h] = resume[h]
    BY <1>4, <2>1 DEF Continues
  <2> QED BY <1>2, <2>1, <2>2 DEF Kind, Block
<1>7. CASE h > Len(t.imported) /\ h > Len(t.ledger)
  BY <1>2, <1>3, <1>7 DEF Kind, Block
<1> QED BY <1>2, <1>5, <1>6, <1>7

\* compare_audit_targets and torture_audit_status report a pass only of nodes that agree
\* on every block which the two scans had from different ones, and, in the
\* interruption audit, of checkpoints no shorter than they were reported to be.
THEOREM PassesAreEarned == AuditSpec => []PassIsEarned
<1>1. ASSUME AuditInv, report = "pass" PROVE NodesAgree
  <2>1. Agreed /\ Len(samples) = 2 /\ \A i \in 1..2 : samples[i].complete
    BY <1>1, AuditAssumption DEF AuditInv, SamplesKept, Agreed
  <2>2. SUFFICES ASSUME NEW h \in 1..CommonHeight, FromBoth(h)
                 PROVE  Block(1, h) = Block(2, h) /\ Block(1, h) # "feeless"
    BY DEF NodesAgree
  <2>3. h \in Nat \ {0}
    BY <1>1, <2>1, CommonHeightIsAHeight
  <2>4. \A i \in 1..2 :
          Kind(samples[i].ledger, h) =
            IF h <= Len(samples[i].imported) THEN Block(SourceNode(i), h)
            ELSE Block(ResumeNode(i), h)
    BY <1>1, <2>1, <2>2, <2>3, SampleBlocks DEF FromBoth
  <2>5. /\ Kind(samples[1].ledger, h) = Kind(samples[2].ledger, h)
        /\ Kind(samples[1].ledger, h) # "feeless"
    BY <1>1, <2>1, AgreedBlocks
  <2>6. h <= Len(samples[1].imported) <=> h <= Len(samples[2].imported)
    BY <2>2 DEF FromBoth
  <2>7. SourceNode(1) = 1 /\ SourceNode(2) = 2
    BY DEF SourceNode
  <2>8. /\ plan.torture => ResumeNode(1) = 2 /\ ResumeNode(2) = 1
        /\ ~plan.torture => ResumeNode(1) = 1 /\ ResumeNode(2) = 2
    BY DEF ResumeNode
  <2>9. CASE h <= Len(samples[1].imported)
    BY <2>4, <2>5, <2>6, <2>7, <2>9
  <2>10. CASE ~(h <= Len(samples[1].imported))
    BY <2>4, <2>5, <2>6, <2>8, <2>10
  <2> QED BY <2>9, <2>10
<1>2. ASSUME AuditInv, report = "pass", plan.torture PROVE CheckpointsResumed
  <2>1. /\ Agreed /\ LifecyclePassed /\ Len(samples) = 2
        /\ \A i \in 1..2 : samples[i].complete
    BY <1>2, AuditAssumption DEF AuditInv, SamplesKept, Agreed
  <2> SUFFICES ASSUME NEW i \in 1..2
               PROVE  Len(samples[i].imported) >= samples[i].interruption
                      /\ samples[i].interruption >= KillHeight
    BY DEF CheckpointsResumed
  <2>2. samples[i].imported \in Ledgers
    BY <1>2, <2>1, SampleOf DEF SampleValues
  <2>3. IsTrialOf(i, samples[i]) /\ samples[i].interruption # Nothing
    BY <1>2, <2>1 DEF AuditInv, AuditValues, SamplesKept, LifecyclePassed
  <2>4. Interrupted(samples[i].interruption, samples[i].imported)
    BY <1>2, <2>3 DEF IsTrialOf
  <2> QED BY <2>2, <2>4, LedgerType, AuditAssumption DEF Interrupted
<1>3. AuditInv => PassIsEarned
  BY <1>1, <1>2 DEF PassIsEarned
<1> QED BY <1>3, AuditStaysInv, PTL
================================================================================
