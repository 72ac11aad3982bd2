------------------------------ MODULE ScanControl ------------------------------
(***************************************************************************)
(* Who may start, stop and rewind NexaWal's native scan, and when what it   *)
(* found reaches the resume cache on disk (main_wallet.cache).              *)
(*                                                                         *)
(* SessionLock models the lock life cycle in full; this module keeps what   *)
(* the scan needs of it and adds the handlers that command the scan (apply  *)
(* network, retry, rescan, clear cache, look-ahead), the tasks that wait    *)
(* for a cancelled scan to stop, the poll that writes checkpoints, and      *)
(* CACHE_PERSISTENCE_SUPPRESSED.  Blocks are counted in steps of Heights:   *)
(* one step stands for more than the three blocks that count as synced.     *)
(***************************************************************************)
EXTENDS Naturals, FiniteSets

CONSTANTS
  Tip,         \* the height of the chain, in steps
  Nodes,       \* node addresses a user may enter
  None,        \* no checkpoint: no marker, no cache file
  Foreign,     \* a cache file that is no state of this wallet
  MaxRestarts, \* bound on the tasks of applies and rescans waiting at once
  MaxClears    \* bound on the tasks of clears waiting at once

Heights == 0 .. Tip

ASSUME BoundsAssumption ==
  /\ Tip \in Nat /\ MaxRestarts \in Nat /\ MaxClears \in Nat

ASSUME DataAssumption ==
  /\ Nodes # {}
  /\ None \notin Heights \cup {Foreign}
  /\ Foreign \notin Heights

\* The cache file; a height is a checkpoint at that height.
Files == {None, Foreign} \cup Heights

\* A task that waits for the cancelled scan to stop.  current stands for the
\* captured scan_restart_generation being the one Home holds: the counter is a
\* u64 that is only ever incremented.
Waits == [kind : {"apply", "rescan"}, height : Heights, current : BOOLEAN]

VARIABLES
  (* Home *)
  opened,
  busy,                           \* a send, preview or recovery is under way
  node, applied,                  \* the node field, and the node last applied
  scan_was_running,
  last_exported,                  \* last_exported_scanned
  suppressed,                     \* CACHE_PERSISTENCE_SUPPRESSED
  native_background_sync, native_close_failed,
  (* background tasks *)
  restarts, clears,               \* tasks waiting for a cancelled scan
  teardown,                       \* the close or seal task and how far it is
  persist_cache,                  \* whether that close exports the cache
  seal_node,                      \* the node that seal resumes the scan on
  (* WalletCore *)
  slot,                           \* closed, open, or sealed to view-only
  running, scanned, job_node,     \* the refresh job, its progress, its node
  (* disk *)
  cache,
  (* auxiliary: no code reads it *)
  removed                         \* the wallet was removed and none opened since

session == <<opened, busy, native_background_sync, native_close_failed>>
fields  == <<node, applied>>
marks   == <<scan_was_running, last_exported>>
waits   == <<restarts, clears>>
closing == <<teardown, persist_cache, seal_node>>
native  == <<slot, running, scanned, job_node>>

vars == <<session, fields, marks, suppressed, waits, closing, native, cache, removed>>

Flags ==
  /\ opened \in BOOLEAN /\ busy \in BOOLEAN
  /\ scan_was_running \in BOOLEAN /\ suppressed \in BOOLEAN
  /\ native_background_sync \in BOOLEAN /\ native_close_failed \in BOOLEAN
  /\ persist_cache \in BOOLEAN
  /\ running \in BOOLEAN
  /\ removed \in BOOLEAN

Values ==
  /\ node \in Nodes /\ applied \in Nodes /\ seal_node \in Nodes /\ job_node \in Nodes
  /\ last_exported \in Heights \cup {None}
  /\ restarts \subseteq Waits
  /\ clears \in 0 .. MaxClears
  /\ teardown \in {"none", "closing", "joined", "saved", "unsaved", "closed", "error",
                   "sealing", "sealed", "checkpointed", "seal_error"}
  /\ slot \in {"closed", "open", "sealed"}
  /\ scanned \in Heights
  /\ cache \in Files

\* The flags are Booleans and the rest is of its kind.
TypeOK == Flags /\ Values

Init ==
  /\ opened = FALSE /\ busy = FALSE
  /\ node \in Nodes /\ applied = node
  /\ scan_was_running = FALSE /\ last_exported = None
  /\ suppressed = FALSE
  /\ native_background_sync = FALSE /\ native_close_failed = FALSE
  /\ restarts = {} /\ clears = 0
  /\ teardown = "none" /\ persist_cache = FALSE /\ seal_node = node
  /\ slot = "closed" /\ running = FALSE /\ scanned = 0 /\ job_node = node
  /\ cache \in Files
  /\ removed = FALSE

--------------------------------------------------------------------------------
(* Starting the scan and checkpointing it *)

\* start_fast_scan on a slot in state s whose job runs or not (r): the node in
\* the field, applied or not.  The proxy may be refused, and WalletCore refuses a
\* closed slot; a job that runs already stays as it is.
StartFastScan(s, r) ==
  \/ running' = r /\ UNCHANGED job_node
  \/ /\ s # "closed" /\ ~r
     /\ running' = TRUE
     /\ job_node' = node

\* Mutant: the suppression flag is not looked at.
Persist_regardless(at, exported, off, file) ==
  \/ last_exported' = exported /\ cache' = file
  \/ cache' = at /\ last_exported' = at

\* persist_scan_cache_at over the cache file, with persistence off or not: the
\* marker moves only when the file was written.
Persist(at, exported, off, file) ==
  \/ last_exported' = exported /\ cache' = file
  \/ ~off /\ cache' = at /\ last_exported' = at

\* Mutant: only a scan that an earlier poll saw running is checkpointed.
PollCore_seen_only(r, at, was, exported, off, file) ==
  /\ scan_was_running' = r
  /\ \/ /\ r /\ ~was
        /\ last_exported' = at /\ cache' = file
     \/ /\ was /\ (r \/ exported # at)
        /\ Persist(at, exported, off, file)
     \/ /\ ~r /\ (exported = at \/ ~was)
        /\ last_exported' = exported /\ cache' = file

\* poll_core with the job running (r) or not at height at.  A scan first seen
\* running makes its height the baseline; later it is checkpointed now and then,
\* and before a stalled one is cancelled; an idle one whenever the marker is not
\* its height.
PollCore(r, at, was, exported, off, file) ==
  /\ scan_was_running' = r
  /\ \/ /\ r /\ ~was
        /\ last_exported' = at
        /\ \/ cache' = file
           \/ ~off /\ cache' = at
     \/ /\ IF r THEN was ELSE exported # at
        /\ Persist(at, exported, off, file)
     \/ /\ ~r /\ exported = at
        /\ last_exported' = exported /\ cache' = file

Poll ==
  /\ opened /\ slot # "closed"
  /\ PollCore(running, scanned, scan_was_running, last_exported, suppressed, cache)
  /\ UNCHANGED <<session, fields, suppressed, waits, closing, native, removed>>

\* The native job commits a batch, and stops: done, failed or cancelled.
ScanAdvances ==
  /\ running /\ scanned < Tip
  /\ scanned' = scanned + 1
  /\ UNCHANGED <<session, fields, marks, suppressed, waits, closing, slot, running,
                 job_node, cache, removed>>

ScanStops ==
  /\ running
  /\ running' = FALSE
  /\ UNCHANGED <<session, fields, marks, suppressed, waits, closing, slot, scanned,
                 job_node, cache, removed>>

--------------------------------------------------------------------------------
(* Commands to the scan, and the tasks that wait for it *)

EditNode ==
  /\ \E n \in Nodes \ {node} : node' = n
  /\ UNCHANGED <<session, applied, marks, suppressed, waits, closing, native, cache,
                 removed>>

\* scan_restart_generation moves on: whatever waits now is out of date.
Superseded == {[w EXCEPT !.current = FALSE] : w \in restarts}

Wait(kind, height) ==
  /\ Cardinality(restarts) < MaxRestarts
  /\ restarts' = Superseded \cup {[kind |-> kind, height |-> height, current |-> TRUE]}

\* apply_network: an invalid I2P address changes nothing.  The scan is restarted
\* at once, or by a task once the cancelled one has stopped
\* (restart_scan_after_cancel).
ApplyNetwork ==
  /\ applied' = node
  /\ \/ /\ ~opened
        /\ UNCHANGED <<restarts, native>>
     \/ /\ opened /\ ~running
        /\ restarts' = Superseded
        /\ StartFastScan(slot, running)
        /\ UNCHANGED <<slot, scanned>>
     \/ /\ opened /\ running
        /\ Wait("apply", 0)
        /\ UNCHANGED native
  /\ UNCHANGED <<session, node, marks, suppressed, clears, closing, cache, removed>>

\* finish_rescan_from_height: WalletCore may refuse the new height.
FinishRescan(height) ==
  \/ UNCHANGED <<marks, suppressed, native, cache>>
  \/ /\ slot # "closed"
     /\ scanned' = height
     /\ cache' = None
     /\ suppressed' = FALSE
     /\ last_exported' = None /\ scan_was_running' = FALSE
     /\ StartFastScan(slot, running)
     /\ UNCHANGED slot

\* rescan_from_height, once confirmed.
Rescan(height) ==
  /\ opened
  /\ \/ /\ running
        /\ Wait("rescan", height)
        /\ UNCHANGED <<marks, suppressed, native, cache>>
     \/ /\ ~running
        /\ restarts' = Superseded
        /\ FinishRescan(height)
  /\ UNCHANGED <<session, fields, clears, closing, removed>>

\* Mutant: the generation is not compared.
RestartResolves_any_generation(w) ==
  /\ w \in restarts
  /\ restarts' = restarts \ {w}
  /\ \/ /\ running
        /\ UNCHANGED <<marks, suppressed, native, cache>>
     \/ /\ ~running /\ w.kind = "apply"
        /\ StartFastScan(slot, running)
        /\ UNCHANGED <<marks, suppressed, slot, scanned, cache>>
     \/ /\ ~running /\ w.kind = "rescan"
        /\ FinishRescan(w.height)
  /\ UNCHANGED <<session, fields, clears, closing, removed>>

\* The task of an apply or a rescan: out of date it does nothing; if the scan
\* still runs after REFRESH_STOP_TIMEOUT it gives up.
RestartResolves(w) ==
  /\ w \in restarts
  /\ restarts' = restarts \ {w}
  /\ \/ /\ ~w.current \/ running
        /\ UNCHANGED <<marks, suppressed, native, cache>>
     \/ /\ w.current /\ ~running /\ w.kind = "apply"
        /\ StartFastScan(slot, running)
        /\ UNCHANGED <<marks, suppressed, slot, scanned, cache>>
     \/ /\ w.current /\ ~running /\ w.kind = "rescan"
        /\ FinishRescan(w.height)
  /\ UNCHANGED <<session, fields, clears, closing, removed>>

\* finish_clear_scan_cache: the marker stays, so that the poll does not export.
FinishClear ==
  /\ cache' = None
  /\ suppressed' = TRUE
  /\ scan_was_running' = FALSE
  /\ UNCHANGED last_exported

\* clear_scan_cache, once confirmed.
ClearScanCache ==
  /\ opened
  /\ \/ /\ running
        /\ clears < MaxClears
        /\ clears' = clears + 1
        /\ UNCHANGED <<marks, suppressed, cache>>
     \/ /\ ~running
        /\ FinishClear
        /\ UNCHANGED clears
  /\ UNCHANGED <<session, fields, restarts, closing, native, removed>>

\* The task of a clear captures nothing: it finishes in whatever session is there.
ClearResolves ==
  /\ clears > 0
  /\ clears' = clears - 1
  /\ \/ running /\ UNCHANGED <<marks, suppressed, cache>>
     \/ ~running /\ FinishClear
  /\ UNCHANGED <<session, fields, restarts, closing, native, removed>>

\* retry_refresh.
RetryRefresh ==
  /\ opened /\ ~running
  /\ suppressed' = FALSE
  /\ StartFastScan(slot, running)
  /\ UNCHANGED <<session, fields, marks, waits, closing, slot, scanned, cache, removed>>

\* increase_scan_lookahead: WalletCore refuses while a scan runs, and otherwise
\* rewinds the cursor, which is checkpointed before the scan restarts.  A saved
\* preference that fails returns after the rewind.
IncreaseScanLookahead ==
  /\ opened /\ slot # "closed" /\ ~running
  /\ scanned' \in 0 .. scanned
  /\ \/ UNCHANGED <<running, job_node, last_exported, cache>>
     \/ /\ Persist(scanned', last_exported, suppressed, cache)
        /\ StartFastScan(slot, running)
  /\ UNCHANGED <<session, fields, scan_was_running, suppressed, waits, closing, slot,
                 removed>>

--------------------------------------------------------------------------------
(* Locking, teardown and removal *)

\* close_locked_wallet under the suppression flag off: it captures the flag.
CloseLockedWallet(off) ==
  /\ native_background_sync' = FALSE
  /\ IF teardown # "none"
     THEN UNCHANGED <<native_close_failed, closing>>
     ELSE /\ native_close_failed' = FALSE
          /\ teardown' = "closing"
          /\ persist_cache' = ~off
          /\ UNCHANGED seal_node

\* lock_wallet: the session's marks and every waiting restart go; a wallet that
\* is in use is torn down by the completion of that use.
LockWallet(keep_scan, off) ==
  /\ opened' = FALSE
  /\ scan_was_running' = FALSE /\ last_exported' = None
  /\ restarts' = Superseded
  /\ IF busy
     THEN /\ native_background_sync' = keep_scan
          /\ UNCHANGED <<native_close_failed, closing>>
     ELSE IF ~keep_scan THEN CloseLockedWallet(off)
     ELSE /\ native_background_sync' = TRUE
          /\ IF teardown # "none"
             THEN UNCHANGED <<teardown, seal_node>>
             ELSE teardown' = "sealing" /\ seal_node' = node
          /\ UNCHANGED <<native_close_failed, persist_cache>>
  /\ UNCHANGED <<busy, clears>>

\* forget: the Lock button, or an unlock that finds no window.
Lock ==
  /\ LockWallet(FALSE, suppressed)
  /\ UNCHANGED <<fields, suppressed, native, cache, removed>>

\* lock_for_inactivity, five minutes after the last input or as soon as the window
\* loses the focus: tasks may still wait for the scan that the lock keeps.
LockForInactivity ==
  /\ LockWallet(opened /\ ~busy /\ running, suppressed)
  /\ UNCHANGED <<fields, suppressed, native, cache, removed>>

Blocked == busy \/ teardown # "none" \/ native_background_sync \/ native_close_failed

\* security_tick, or an unlock or open that finds the slot in use: the background
\* scan and a failed teardown are closed (again).
RetryCleanup ==
  /\ native_background_sync \/ (native_close_failed /\ teardown = "none")
  /\ CloseLockedWallet(suppressed)
  /\ UNCHANGED <<opened, busy, fields, marks, suppressed, waits, native, cache, removed>>

\* Mutant: the lock comes before the flag.
RemoveStoredWallet_flag_late ==
  /\ ~busy /\ teardown = "none" /\ ~native_close_failed
  /\ suppressed' = TRUE
  /\ LockWallet(FALSE, suppressed)
  /\ \/ UNCHANGED <<cache, removed>>
     \/ cache' = None /\ removed' = TRUE
  /\ UNCHANGED <<fields, native>>

\* remove_stored_wallet past its confirmations and its archive of the pending
\* send: the flag is set before the lock so that the close does not export.
RemoveStoredWallet ==
  /\ ~busy /\ teardown = "none" /\ ~native_close_failed
  /\ suppressed' = TRUE
  /\ LockWallet(FALSE, suppressed')
  /\ \/ UNCHANGED <<cache, removed>>                \* the secure store refuses
     \/ cache' = None /\ removed' = TRUE
  /\ UNCHANGED <<fields, native>>

\* Mutant: the seal does not wait for the cancelled scan.
Join_without_waiting ==
  /\ teardown \in {"closing", "sealing"}
  /\ slot' = IF slot = "closed" THEN slot ELSE "sealed"
  /\ teardown' = IF slot = "closed" THEN "closed"
                 ELSE IF teardown = "closing" THEN "joined" ELSE "sealed"
  /\ UNCHANGED <<session, fields, marks, suppressed, waits, persist_cache, seal_node,
                 running, scanned, job_node, cache, removed>>

\* session_lock::close and seal_for_background.  api::seal joins the scan; a
\* timeout of it is tried again (retry_until_stopped), any other error ends the task.
Join ==
  /\ \/ /\ teardown \in {"closing", "sealing"} /\ slot # "closed"
        /\ slot' = "sealed" /\ running' = FALSE
        /\ teardown' = IF teardown = "closing" THEN "joined" ELSE "sealed"
     \/ /\ teardown = "closing"
        /\ teardown' = IF slot = "closed" THEN "closed" ELSE "error"
        /\ UNCHANGED <<slot, running>>
     \/ /\ teardown = "sealing"
        /\ teardown' = "seal_error"
        /\ UNCHANGED <<slot, running>>
  /\ UNCHANGED <<session, fields, marks, suppressed, waits, persist_cache, seal_node,
                 scanned,
                 job_node, cache, removed>>

\* The checkpoint of a teardown, which the disk may refuse.
Export ==
  /\ \/ /\ teardown = "joined" /\ persist_cache
        /\ teardown' = "saved" /\ cache' = scanned
     \/ /\ teardown = "joined"
        /\ teardown' = "unsaved" /\ UNCHANGED cache
     \/ /\ teardown = "sealed"
        /\ teardown' = "checkpointed" /\ cache' = scanned
     \/ /\ teardown = "sealed"
        /\ teardown' = "seal_error" /\ UNCHANGED cache
  /\ UNCHANGED <<session, fields, marks, suppressed, waits, persist_cache,
                 seal_node, native, removed>>

\* api::close; a timeout starts session_lock::close over.
NativeCloses ==
  /\ teardown \in {"saved", "unsaved"}
  /\ \/ teardown' = "closed" /\ slot' = "closed" /\ running' = FALSE
     \/ teardown' \in {"closing", "error"} /\ UNCHANGED <<slot, running>>
  /\ UNCHANGED <<session, fields, marks, suppressed, waits, persist_cache, seal_node,
                 scanned,
                 job_node, cache, removed>>

CloseCompletes ==
  /\ teardown \in {"closed", "error"}
  /\ teardown' = "none"
  /\ native_close_failed' = (teardown = "error")
  /\ UNCHANGED <<opened, busy, native_background_sync, fields, marks, suppressed, waits,
                 persist_cache, seal_node, native, cache, removed>>

\* Mutant: the outcome of the seal is not looked at.
SealCompletes_regardless ==
  /\ teardown \in {"checkpointed", "seal_error"}
  /\ native_background_sync
  /\ teardown' = "none"
  /\ running' = TRUE /\ job_node' = seal_node
  /\ UNCHANGED <<session, persist_cache, fields, marks, suppressed, waits, seal_node,
                 slot, scanned, cache, removed>>

\* The completion of seal_background_scan: only a sealed, checkpointed wallet that
\* nobody came back to scans on, on the node of the lock.
SealCompletes ==
  /\ teardown \in {"checkpointed", "seal_error"}
  /\ \/ /\ teardown = "checkpointed" /\ native_background_sync
        /\ teardown' = "none"
        /\ running' = TRUE /\ job_node' = seal_node
        /\ UNCHANGED <<native_background_sync, native_close_failed, persist_cache>>
     \/ /\ teardown' = "closing"
        /\ native_background_sync' = FALSE /\ native_close_failed' = FALSE
        /\ persist_cache' = ~suppressed
        /\ UNCHANGED <<running, job_node>>
  /\ UNCHANGED <<opened, busy, fields, marks, suppressed, waits, seal_node, slot,
                 scanned, cache, removed>>

--------------------------------------------------------------------------------
(* Opening, payments, and the process *)

\* Mutant: a file that is no state of this wallet is taken all the same.
Loaded_unchecked(height) ==
  {<<height, None>>} \cup (IF cache = None THEN {} ELSE {<<cache, cache>>})

\* paths::load_cache and api::import_cache for a wallet restored from height: the
\* progress it starts with and what becomes of the file.  A file that cannot be
\* read or is no state of this wallet is moved aside, which may fail too.
Loaded(height) ==
  IF cache = None THEN {<<height, None>>}
  ELSE {<<height, None>>, <<height, cache>>}
         \cup (IF cache \in Heights THEN {<<cache, cache>>} ELSE {})

\* open_with_mnemonic past its guard and the native open: the address cannot be
\* derived; or the gap limit is refused and one close is tried; or the session
\* opens, its scan started or not, polled at once, a journalled send relayed or not.
OpenWithMnemonic(height) ==
  /\ ~Blocked
  /\ removed' = FALSE
  /\ \/ /\ slot' = "open" /\ running' = FALSE /\ scanned' = height
        /\ UNCHANGED <<opened, busy, marks, suppressed, job_node, cache>>
     \/ /\ \E from \in Loaded(height) : scanned' = from[1] /\ cache' = from[2]
        /\ slot' \in {"closed", "open"} /\ running' = FALSE
        /\ suppressed' = FALSE
        /\ last_exported' = None /\ scan_was_running' = FALSE
        /\ UNCHANGED <<opened, busy, job_node>>
     \/ /\ slot' = "open" /\ opened' = TRUE
        /\ StartFastScan("open", FALSE)
        /\ suppressed' = FALSE
        /\ busy' \in BOOLEAN
        /\ \E from \in Loaded(height) :
             /\ scanned' = from[1]
             /\ PollCore(running', from[1], FALSE, None, FALSE, from[2])
  /\ UNCHANGED <<native_background_sync, native_close_failed, fields, waits, closing>>

\* run_preview, or run_confirmed_send.
StartOperation ==
  /\ opened /\ ~busy /\ ~running
  /\ busy' = TRUE
  /\ UNCHANGED <<opened, native_background_sync, native_close_failed, fields, marks,
                 suppressed, waits, closing, native, cache, removed>>

\* The completion of a preview, a send or a recovery.  Behind a lock it tears the
\* wallet down; a send that was relayed starts a scan; all but a preview poll.
FinishOperation ==
  /\ busy /\ busy' = FALSE
  /\ \/ /\ ~opened
        /\ CloseLockedWallet(suppressed)
        /\ UNCHANGED <<marks, native, cache>>
     \/ /\ opened
        /\ UNCHANGED <<marks, native, cache>>
        /\ UNCHANGED <<native_background_sync, native_close_failed, closing>>
     \/ /\ opened /\ slot # "closed"
        /\ StartFastScan(slot, running)
        /\ PollCore(running', scanned, scan_was_running, last_exported, suppressed, cache)
        /\ UNCHANGED <<slot, scanned>>
        /\ UNCHANGED <<native_background_sync, native_close_failed, closing>>
  /\ UNCHANGED <<opened, fields, suppressed, waits, removed>>

\* The process ends and starts again: prepare_wallet_shutdown exports what the
\* native wallet has committed, a crash does not.  Addresses not applied are lost,
\* an edited policy was saved at once: the node is then any the settings yield.
Restart ==
  /\ \/ UNCHANGED cache
     \/ slot # "closed" /\ ~suppressed /\ cache' = scanned
  /\ opened' = FALSE /\ busy' = FALSE
  /\ node' \in IF node = applied THEN {node} ELSE Nodes
  /\ scan_was_running' = FALSE /\ last_exported' = None /\ suppressed' = FALSE
  /\ native_background_sync' = FALSE /\ native_close_failed' = FALSE
  /\ restarts' = {} /\ clears' = 0
  /\ teardown' = "none" /\ persist_cache' = FALSE /\ seal_node' = node'
  /\ slot' = "closed" /\ running' = FALSE /\ scanned' = 0 /\ job_node' = node'
  /\ UNCHANGED <<applied, removed>>

UserNext ==
  \/ EditNode \/ ApplyNetwork \/ ClearScanCache \/ RetryRefresh
  \/ \E h \in Heights : Rescan(h) \/ OpenWithMnemonic(h)
  \/ IncreaseScanLookahead
  \/ Lock \/ LockForInactivity \/ RetryCleanup \/ RemoveStoredWallet
  \/ StartOperation

TaskNext ==
  \/ Poll \/ ScanAdvances \/ ScanStops
  \/ \E w \in restarts : RestartResolves(w)
  \/ ClearResolves
  \/ Join \/ Export \/ NativeCloses \/ CloseCompletes \/ SealCompletes
  \/ FinishOperation

Next == UserNext \/ TaskNext \/ Restart

Spec == Init /\ [][Next]_vars

\* The poll runs every half second, and a disk asked again and again takes a
\* checkpoint at last.
SavingPoll == Poll /\ cache' = scanned /\ last_exported' = scanned

FairSpec == Spec /\ WF_vars(SavingPoll)

--------------------------------------------------------------------------------
(* What the scan and its cache promise *)

Writes == cache' # cache /\ cache' \in Heights

\* Behind a lock the only scan that starts is the view-only one that ends the seal
\* of a checkpointed wallet, on the node of the lock: no task left over from an
\* apply or a rescan starts one beside the seal (main.rs:1399, 1568, 3193).
LockedScanIsTheSealedOne ==
  [][(~opened' /\ ~running /\ running') =>
       /\ slot = "sealed" /\ teardown = "checkpointed"
       /\ teardown' = "none" /\ job_node' = seal_node]_vars

OnCheckpoint == cache \in Heights /\ cache <= scanned

\* A scan that goes on behind the lock is ahead of a checkpoint on disk
\* (main.rs:3245): a seal whose checkpoint failed closes instead.  The one way to
\* lose it is a clear confirmed before the lock: its task, still waiting, deletes
\* the file under the seal (main.rs:1502), and the completion resumes the scan
\* without looking.  Then nothing is on disk and persistence is off.
BackgroundScanKeepsCheckpoint ==
  (~opened /\ native_background_sync /\ teardown = "none") =>
    OnCheckpoint \/ (cache = None /\ suppressed)

\* Of all the applies and rescans waiting for the scan to stop, at most one still
\* takes effect (main.rs:1397).
OneRestart == \A v, w \in restarts : v.current /\ w.current => v = w

\* The checkpoint of a teardown holds the batch the cancelled scan committed last
\* (session_lock.rs:28); a clear confirmed before may have deleted it.
FinalBatchKept == teardown = "saved" => cache \in {scanned, None}

\* After a removal no close, waiting task or quit brings the cache back
\* (main.rs:3276).
RemovedStaysRemoved == [][(removed /\ removed') => ~Writes]_vars

\* While a session's persistence is suppressed, no poll, look-ahead or completion
\* writes the cache the user cleared (main.rs:1523).
ClearedInSession ==
  [][(opened /\ opened' /\ suppressed /\ suppressed') => ~Writes]_vars

\* With the scan idle, the marker moves to a height only when that height is in
\* the file: a write that failed is due again (main.rs:984).
IdleMarkerIsOnDisk ==
  [][(~running /\ ~running' /\ last_exported' # last_exported /\ last_exported' # None)
       => cache' = last_exported']_vars

\* An open session that saves, its scan idle.
Settled == opened /\ slot # "closed" /\ ~running /\ ~suppressed

\* The height of an idle scan that is not the marker's reaches the file, through
\* refused writes and also when no poll saw that scan running (main.rs:3956),
\* unless another command moves the scan first.  A scan that ends at the height of
\* the first poll that saw it running is not among them: that poll takes the height
\* for the marker without writing it (main.rs:3826), and no later one saves it.
MovedScanIsSaved ==
  \A h \in Heights :
    (Settled /\ scanned = h /\ last_exported # h) ~> (cache = h \/ scanned # h \/ ~Settled)

\* What main.rs:1523 says of clearing: "Persistence remains suppressed until the
\* wallet is reopened or a deliberate rescan starts."  The seal of a background
\* scan writes the cache all the same.
SuppressedNeverWrites == [][(suppressed /\ suppressed') => ~Writes]_vars

\* What README.md:91 says of the connection fields: edits are staged until "Use
\* this node" is chosen.  A retry, rescan or open scans on the edited node.
ScanUsesAppliedNode ==
  [][(opened' /\ ~running /\ running') => job_node' = applied']_vars
================================================================================
