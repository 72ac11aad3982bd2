------------------------------- MODULE SyncAudit -------------------------------
(***************************************************************************)
(* The sync audit and the interruption audit (src/src/benchmark.rs): the      *)
(* same wallet reconstructed from two nodes and compared, from its start, or  *)
(* twice from the checkpoint of a scan of one node, which a child process     *)
(* makes and is killed over, through a dead endpoint and on to the other node. *)
(*                                                                         *)
(* A node's chain is what it would have the wallet find, block by block, and  *)
(* nothing says the two agree.  WalletCore is external: it appends a block, it *)
(* may forget blocks when a dead endpoint or another node answers (once in a   *)
(* sequence), and it may fail, but it can list what it has found.  The two     *)
(* processes share the checkpoint's files.                                    *)
(***************************************************************************)
EXTENDS Naturals, SequencesExt

CONSTANTS
  MaxBlocks,   \* bound: blocks above the start height
  KillHeight,  \* checkpoint_blocks, above the start height
  Targets,     \* the comparison heights a run may name
  Nothing      \* no target, no file, no result yet

VARIABLES
  plan,      \* the two nodes' chains, target_height, and which of the audits it is
  worker,    \* the child: whether it runs, its wallet, the height it has read and
             \* is writing, and whether the cache is written
  disk,      \* cache_path and state_path of this sequence
  run,       \* the sequence under way, its step, its wallet, and the fields its
             \* sample has so far; forgot is auxiliary
  samples,   \* the samples finished
  report     \* the status reported

auditVars == <<plan, worker, disk, run, samples, report>>

\* What a block holds for the wallet: nothing, or a transfer, whose fee may be missing.
Kinds == {"empty", "transfer", "feeless"}
BlockHeights == 0..MaxBlocks
Chains == UNION {[1..n -> Kinds] : n \in 1..MaxBlocks}

\* Heights are u64s; no result yet is neither a result nor a ledger.
ASSUME AuditAssumption ==
  /\ MaxBlocks \in Nat /\ KillHeight \in Nat /\ Targets \subseteq Nat
  /\ Nothing \notin {"pass", "fail", <<>>} \cup Chains

\* The nodes a sequence scans: the audit scans one, the other one and then the other.
SourceNode(index) == index
ResumeNode(index) == IF plan.torture THEN 3 - index ELSE index
Source == plan.chains[SourceNode(run.index)]
Resume == plan.chains[ResumeNode(run.index)]

NoWorker == [alive |-> FALSE, ledger |-> <<>>, noted |-> Nothing, exported |-> FALSE]
NoFiles == [cache |-> Nothing, state |-> Nothing]
Begin(index, torture) ==
  [index |-> index, step |-> IF torture THEN "capture" ELSE "open", ledger |-> <<>>,
   interruption |-> Nothing, imported |-> <<>>, preserved |-> ~torture, forgot |-> FALSE]

AuditInit ==
  /\ plan \in [chains : [1..2 -> Chains], target : Targets \cup {Nothing}, torture : BOOLEAN]
  /\ worker = [NoWorker EXCEPT !.alive = plan.torture] /\ disk = NoFiles
  /\ run = Begin(1, plan.torture) /\ samples = <<>> /\ report = Nothing

\* A sample; one that did not complete decides the status whatever else it holds.
Sample(r) ==
  [complete |-> TRUE, ledger |-> r.ledger, interruption |-> r.interruption,
   imported |-> r.imported, preserved |-> r.preserved, forgot |-> r.forgot]
Incomplete ==
  [complete |-> FALSE, ledger |-> <<>>, interruption |-> Nothing,
   imported |-> <<>>, preserved |-> FALSE, forgot |-> FALSE]

\* A sequence ends with its sample; the next one's files are in a directory of its own.
Finish(outcome) ==
  LET sample == IF outcome = "completed" THEN Sample(run) ELSE Incomplete
  IN /\ samples' = Append(samples, sample)
     /\ run' = IF run.index = 1 THEN Begin(2, plan.torture)
                                ELSE [run EXCEPT !.step = "report"]
     /\ worker' = [NoWorker EXCEPT !.alive = plan.torture /\ run.index = 1]
     /\ disk' = NoFiles
     /\ UNCHANGED <<plan, report>>

(* ------------------------- run_sync_torture_worker ---------------------- *)

\* WalletCore's scan of the source goes on whatever the loop does.
WorkerScans ==
  /\ worker.alive /\ Len(worker.ledger) < Len(Source)
  /\ worker' = [worker EXCEPT !.ledger = Append(@, Source[Len(@) + 1])]
  /\ UNCHANGED <<plan, disk, run, samples, report>>

\* sync_status, when the height is not the one last exported.
WorkerReads ==
  /\ worker.alive /\ worker.noted = Nothing /\ disk.state # Len(worker.ledger)
  /\ worker' = [worker EXCEPT !.noted = Len(worker.ledger)]
  /\ UNCHANGED <<plan, disk, run, samples, report>>

\* export_cache and its file, and then the state that says how far it goes.
WritesCache ==
  /\ worker.alive /\ worker.noted # Nothing /\ ~worker.exported
  /\ disk' = [disk EXCEPT !.cache = worker.ledger]
  /\ worker' = [worker EXCEPT !.exported = TRUE]
  /\ UNCHANGED <<plan, run, samples, report>>
WritesState ==
  /\ worker.alive /\ worker.exported
  /\ disk' = [disk EXCEPT !.state = worker.noted]
  /\ worker' = [worker EXCEPT !.noted = Nothing, !.exported = FALSE]
  /\ UNCHANGED <<plan, run, samples, report>>

\* Its scan fails, an export or a file does, or its deadline passes.
WorkerExits ==
  /\ worker.alive /\ worker' = [worker EXCEPT !.alive = FALSE]
  /\ UNCHANGED <<plan, disk, run, samples, report>>

(* ------------------------ capture_killed_checkpoint --------------------- *)

\* The worker is running and has reported enough: only then is it killed, and it may
\* write, or exit, in between.
SeesCheckpoint ==
  /\ run.step = "capture" /\ worker.alive
  /\ disk.state # Nothing /\ disk.state >= KillHeight /\ disk.cache # Nothing
  /\ run' = [run EXCEPT !.step = "kill", !.interruption = disk.state]
  /\ UNCHANGED <<plan, worker, disk, samples, report>>
Kills ==
  /\ run.step = "kill"
  /\ worker' = NoWorker /\ run' = [run EXCEPT !.step = "open"]
  /\ UNCHANGED <<plan, disk, samples, report>>

\* It found the worker gone, or no checkpoint in time, and kills it.
CaptureFails == run.step = "capture" /\ Finish("interruption-failed")

(* -------------- run_resumed_torture_target, run_audit_target ------------ *)

\* The checkpoint is read and imported, or the wallet opened at its start.
Opens ==
  /\ run.step = "open"
  /\ run' = IF plan.torture
              THEN [run EXCEPT !.step = "probe", !.ledger = disk.cache,
                               !.imported = disk.cache]
              ELSE [run EXCEPT !.step = "scan"]
  /\ UNCHANGED <<plan, worker, disk, samples, report>>
OpeningFails == run.step = "open" /\ Finish("open-failed")

\* run_failure_probe: the refresh from the dead endpoint fails, or is cancelled at its
\* timeout, and stops in time or does not; what the wallet knows is compared with what
\* it knew.
Probes(observed, stopped) ==
  /\ run.step = "probe"
  /\ \E left \in Prefixes(run.ledger) :
       run' = [run EXCEPT !.step = "scan", !.ledger = left,
                          !.preserved = observed /\ stopped /\ left = run.ledger,
                          !.forgot = left # run.ledger]
  /\ UNCHANGED <<plan, worker, disk, samples, report>>

\* The scan of the node to finish with.
Scans ==
  /\ run.step = "scan" /\ Len(run.ledger) < Len(Resume)
  /\ run' = [run EXCEPT !.ledger = Append(@, Resume[Len(@) + 1])]
  /\ UNCHANGED <<plan, worker, disk, samples, report>>
Rewinds ==
  /\ run.step = "scan" /\ run.ledger # <<>> /\ ~run.forgot
  /\ \E left \in Prefixes(run.ledger) \ {run.ledger} :
       run' = [run EXCEPT !.ledger = left, !.forgot = TRUE]
  /\ UNCHANGED <<plan, worker, disk, samples, report>>

\* Idle at the tip, and otherwise a failure, a timeout or a scan that will not stop.
Completes ==
  run.step = "scan" /\ Len(run.ledger) >= Len(Resume) /\ Finish("completed")
ScanFails == run.step = "scan" /\ Finish("scan-failed")

(* ------------------------------- the verdict ---------------------------- *)

Found(ledger) == {h \in DOMAIN ledger : ledger[h] # "empty"}

\* canonical_history_is_subset.
HistoryPreserved(sample) ==
  \A h \in Found(sample.imported) :
    h \in DOMAIN sample.ledger /\ sample.ledger[h] = sample.imported[h]

CommonHeight ==
  IF plan.target # Nothing THEN plan.target
  ELSE Min({Len(samples[i].ledger) : i \in 1..2})

\* Mutant: the common height itself is left out.
UpTo_below(ledger) == {<<h, ledger[h]>> : h \in Found(ledger) \cap 1..(CommonHeight - 1)}

UpTo(ledger) == {<<h, ledger[h]>> : h \in Found(ledger) \cap 1..CommonHeight}

\* compare_audit_targets.
Agreed ==
  /\ \A i \in 1..2 : samples[i].complete
  /\ UpTo(samples[1].ledger) = UpTo(samples[2].ledger)
  /\ \A t \in UpTo(samples[1].ledger) : t[2] # "feeless"
  /\ plan.target # Nothing =>
       Cardinality(Found(samples[1].ledger)) = Cardinality(Found(samples[2].ledger))

\* torture_audit_status.
LifecyclePassed ==
  \A i \in 1..2 :
    /\ samples[i].interruption # Nothing /\ samples[i].preserved
    /\ HistoryPreserved(samples[i])

Reports ==
  /\ run.step = "report" /\ report = Nothing
  /\ report' = IF Agreed /\ (plan.torture => LifecyclePassed) THEN "pass" ELSE "fail"
  /\ UNCHANGED <<plan, worker, disk, run, samples>>

AuditNext ==
  \/ WorkerScans \/ WorkerReads \/ WritesCache \/ WritesState \/ WorkerExits
  \/ SeesCheckpoint \/ Kills \/ CaptureFails \/ Opens \/ OpeningFails
  \/ \E observed, stopped \in BOOLEAN : Probes(observed, stopped)
  \/ Scans \/ Rewinds \/ Completes \/ ScanFails \/ Reports

AuditSpec == AuditInit /\ [][AuditNext]_auditVars

(* ------------------------------ properties ------------------------------ *)

\* Type correctness.
IsLedger(l) == DOMAIN l \in {1..n : n \in BlockHeights} /\ \A h \in DOMAIN l : l[h] \in Kinds
IsTrial(r) ==
  /\ IsLedger(r.ledger) /\ IsLedger(r.imported)
  /\ r.interruption \in BlockHeights \cup {Nothing} /\ {r.preserved, r.forgot} \subseteq BOOLEAN
AuditTypeOK ==
  /\ \A i \in 1..2 : IsLedger(plan.chains[i])
  /\ plan.target \in Targets \cup {Nothing} /\ plan.torture \in BOOLEAN
  /\ worker.alive \in BOOLEAN /\ worker.exported \in BOOLEAN
  /\ IsLedger(worker.ledger) /\ worker.noted \in BlockHeights \cup {Nothing}
  /\ disk.cache # Nothing => IsLedger(disk.cache)
  /\ disk.state \in BlockHeights \cup {Nothing}
  /\ IsTrial(run) /\ run.index \in 1..2
  /\ run.step \in {"capture", "kill", "open", "probe", "scan", "report"}
  /\ Len(samples) <= 2
  /\ \A i \in DOMAIN samples : IsTrial(samples[i]) /\ samples[i].complete \in BOOLEAN
  /\ report \in {Nothing, "pass", "fail"}

\* A pass of the interruption audit shows what it says: each checkpoint a child was
\* killed over, at any point of its writes, was imported with all the blocks it was
\* reported to have, and with no fewer than asked for.
CheckpointsResumed ==
  \A i \in 1..2 : Len(samples[i].imported) >= samples[i].interruption
                  /\ samples[i].interruption >= KillHeight

\* And a pass of either audit shows that the nodes agree on every block up to the
\* common height which both scans had from different nodes, that is one that both
\* checkpoints held or neither did, unless a resumed scan went back on its own.
Block(node, h) ==
  LET chain == plan.chains[node] IN IF h \in DOMAIN chain THEN chain[h] ELSE "empty"
FromBoth(h) ==
  /\ plan.torture => \A i \in 1..2 : ~samples[i].forgot
  /\ h <= Len(samples[1].imported) <=> h <= Len(samples[2].imported)
NodesAgree ==
  \A h \in 1..CommonHeight :
    FromBoth(h) => Block(1, h) = Block(2, h) /\ Block(1, h) # "feeless"

\* So says "pass", whatever failed, was killed or was slow on the way.
PassIsEarned ==
  report = "pass" => NodesAgree /\ (plan.torture => CheckpointsResumed)
================================================================================
