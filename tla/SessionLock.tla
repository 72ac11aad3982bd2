------------------------------ MODULE SessionLock ------------------------------
(***************************************************************************)
(* The lock/unlock life cycle of NexaWal's single native wallet slot.      *)
(*                                                                         *)
(* Three kinds of actor share the state.  Home's handlers (src/src/main.rs) *)
(* run one at a time on the UI thread, so each is one action.  WalletCore  *)
(* (external) owns the native slot: which wallet is open, with which        *)
(* authority, and whether its scan job runs.  Background tasks call        *)
(* WalletCore off the UI thread and post a completion that a later handler *)
(* picks up: a credential read (wallet_store::load), a send, preview or     *)
(* recovery (SessionOperation), and a teardown or a seal (session_lock.rs). *)
(*                                                                         *)
(* The Terms are accepted and a seed in the form has passed its backup      *)
(* challenge; without either the handlers return before they touch state.  *)
(***************************************************************************)
EXTENDS Naturals, FiniteSets

CONSTANTS
  Wallets,    \* the wallets a user may restore or unlock
  NoWallet,   \* no wallet: an empty seed, store or native slot
  Tokens      \* session generations; finite, see FreeTokens

\* What an unlock attempt holds: nothing, an unfinished read, an error, a wallet.
LoadStates == {"none", "reading", "failed"}

ASSUME WalletsAssumption ==
  /\ NoWallet \notin Wallets
  /\ NoWallet \notin LoadStates
  /\ Wallets \cap LoadStates = {}

ASSUME TokensAssumption ==
  /\ IsFiniteSet(Tokens)
  /\ Tokens # {}

VARIABLES
  (* Home, the UI session *)
  opened,                         \* the wallet screens are shown
  unlocking, unlock_started,      \* a stored-wallet unlock is under way
  seed,                           \* the wallet in the restore form
  mnemonic,                       \* the seed phrase the open session keeps
  generation,                     \* SessionPolicy's token
  idle,                           \* five minutes without interaction
  active,                         \* the platform reports an active window
  send_operation,                 \* SessionOperation
  native_background_sync, native_background_started,
  native_close_pending, native_close_failed,
  unlock_after_background_close,
  (* background tasks *)
  attempt,                        \* the credential read started under a token
  teardown,                       \* the close or seal task and how far it is
  (* WalletCore and the secure store *)
  authority,                      \* keys resident in the native slot
  wallet,                         \* whose keys they are
  scanning,                       \* the refresh job is Running
  stored,                         \* the wallet in the OS secure store
  (* auxiliary: no code reads it *)
  late_failure                    \* an open failed after the native open

ui      == <<opened, unlocking, unlock_started, seed, mnemonic>>
policy  == <<generation, idle, active>>
closing == <<native_background_sync, native_background_started,
             native_close_pending, native_close_failed, teardown>>
native  == <<authority, wallet, scanning, late_failure>>

vars == <<ui, policy, closing, native, send_operation,
          unlock_after_background_close, attempt, stored>>

Flags ==
  /\ opened \in BOOLEAN /\ unlocking \in BOOLEAN /\ unlock_started \in BOOLEAN
  /\ idle \in BOOLEAN /\ active \in BOOLEAN
  /\ native_background_sync \in BOOLEAN
  /\ native_close_pending \in BOOLEAN /\ native_close_failed \in BOOLEAN
  /\ unlock_after_background_close \in BOOLEAN
  /\ scanning \in BOOLEAN /\ late_failure \in BOOLEAN

Values ==
  /\ seed \in Wallets \cup {NoWallet}
  /\ mnemonic \in Wallets \cup {NoWallet}
  /\ generation \in Tokens
  /\ send_operation \in {"Idle", "Active", "LockedActive"}
  /\ native_background_started \in {"never", "recent", "limit"}
  /\ attempt \in [Tokens -> LoadStates \cup Wallets]
  /\ teardown \in {"none", "closing", "stripped", "closed", "close_error",
                   "sealing", "seal_saved", "seal_unsaved", "seal_error"}
  /\ authority \in {"none", "view", "spend"}
  /\ wallet \in Wallets \cup {NoWallet}
  /\ stored \in Wallets \cup {NoWallet}

\* The flags are Booleans and the rest is of its kind.
TypeOK == Flags /\ Values

Init ==
  /\ opened = FALSE
  /\ stored \in Wallets \cup {NoWallet}
  /\ unlocking = (stored # NoWallet)      \* should_auto_unlock_stored
  /\ unlock_started = FALSE
  /\ seed = NoWallet /\ mnemonic = NoWallet
  /\ generation \in Tokens
  /\ idle = FALSE /\ active = TRUE
  /\ send_operation = "Idle"
  /\ native_background_sync = FALSE /\ native_background_started = "never"
  /\ native_close_pending = FALSE /\ native_close_failed = FALSE
  /\ unlock_after_background_close = FALSE
  /\ attempt = [t \in Tokens |-> "none"]
  /\ teardown = "none"
  /\ authority = "none" /\ wallet = NoWallet /\ scanning = FALSE
  /\ late_failure = FALSE

\* Mutant: only an operation that outlived its session counts.
Busy_locked_only == send_operation = "LockedActive"

Busy == send_operation # "Idle"

--------------------------------------------------------------------------------
(* Teardown and locking *)

\* close_locked_wallet: one teardown task at a time; a second call only cancels
\* the background scan's claim on the slot.
CloseLockedWallet ==
  /\ native_background_sync' = FALSE
  /\ native_background_started' = "never"
  /\ \/ /\ native_close_pending
        /\ UNCHANGED <<native_close_pending, native_close_failed, teardown>>
     \/ /\ ~native_close_pending
        /\ native_close_pending' = TRUE
        /\ native_close_failed' = FALSE
        /\ teardown' = "closing"

\* seal_background_scan, called by a lock that keeps the scan.
SealBackgroundScan ==
  /\ native_background_sync' = TRUE
  /\ native_background_started' = "recent"
  /\ UNCHANGED native_close_failed
  /\ \/ /\ native_close_pending
        /\ UNCHANGED <<native_close_pending, teardown>>
     \/ /\ ~native_close_pending
        /\ native_close_pending' = TRUE
        /\ teardown' = "sealing"

\* SessionPolicy counts generations in a u64.  A lock takes a value that neither
\* the session nor a read still in flight holds: 2^64 locks never pass in between.
FreeTokens == {t \in Tokens : t # generation /\ attempt[t] = "none"}

\* lock_wallet: hide and wipe now, then hand the native slot to a task, unless an
\* operation still uses it; the operation's completion cleans up in that case.
LockWallet(keep_scan) ==
  /\ opened' = FALSE /\ unlocking' = FALSE /\ unlock_started' = FALSE
  /\ seed' = NoWallet /\ mnemonic' = NoWallet
  /\ generation' \in FreeTokens
  /\ unlock_after_background_close' = FALSE
  /\ \/ /\ Busy
        /\ send_operation' = "LockedActive"
        /\ native_background_sync' = keep_scan
        /\ native_background_started' = IF keep_scan THEN "recent" ELSE "never"
        /\ UNCHANGED <<native_close_pending, native_close_failed, teardown,
                       late_failure>>
     \/ /\ ~Busy
        /\ late_failure' = FALSE
        /\ UNCHANGED send_operation
        /\ IF keep_scan THEN SealBackgroundScan ELSE CloseLockedWallet
  /\ UNCHANGED <<authority, wallet, scanning>>

\* lock_for_inactivity: only an idle open session with a running scan keeps it.
LockForInactivity == LockWallet(opened /\ ~Busy /\ scanning)

\* Mutant: only a task under way blocks, not its failure or a scan it left.
Blocked_by_task_only == Busy \/ native_close_pending

\* blocked_by_locked_operation: a teardown that failed, or a background scan,
\* is torn down (again) before anything else may use the slot.
Blocked ==
  Busy \/ native_close_pending \/ native_background_sync \/ native_close_failed

RetryCleanup ==
  \/ /\ native_background_sync \/ (native_close_failed /\ ~native_close_pending)
     /\ CloseLockedWallet
     /\ late_failure' = FALSE
  \/ /\ ~native_background_sync
     /\ native_close_pending \/ ~native_close_failed
     /\ UNCHANGED <<closing, late_failure>>

--------------------------------------------------------------------------------
(* Opening *)

\* The native slot after a successful api::open_from_mnemonic.
NativeOpens(w) ==
  /\ authority' = "spend"
  /\ wallet' = w

\* open_with_mnemonic past its guard.  The returns in order: the receive book or
\* the native open fails; the address cannot be derived and the native wallet
\* stays; the gap limit fails and one bounded close is tried, its error dropped;
\* or the session opens, its scan and its save to the secure store succeeding or
\* not, and a pending send journal occupying the operation or not.
OpenFails == UNCHANGED <<opened, mnemonic, native, send_operation, stored>>

OpenFailsLate(w) ==
  /\ \/ NativeOpens(w)
     \/ authority' = "none" /\ wallet' = NoWallet
  /\ scanning' = FALSE
  /\ late_failure' = (~opened /\ authority' = "spend")
  /\ UNCHANGED <<opened, mnemonic, send_operation, stored>>

\* Mutant: the session is not shown.
OpenSucceeds_hidden(w) ==
  /\ NativeOpens(w)
  /\ scanning' \in BOOLEAN /\ late_failure' = FALSE
  /\ UNCHANGED <<opened, mnemonic, send_operation, stored>>

OpenSucceeds(w) ==
  /\ NativeOpens(w)
  /\ opened' = TRUE /\ mnemonic' = w
  /\ scanning' \in BOOLEAN
  /\ late_failure' = FALSE
  /\ send_operation' \in {"Idle", "Active"}
  /\ stored' \in {stored, w}

OpenWithMnemonic(w, saved) ==
  \/ OpenFails /\ ~saved
  \/ OpenFailsLate(w) /\ ~saved
  \/ OpenSucceeds(w) /\ (saved => stored' = w)

\* open_from_form (the Open button or the menu).  A save to the secure store
\* that succeeds clears the form; any other outcome leaves the seed in it.
OpenFromForm ==
  /\ seed # NoWallet
  /\ UNCHANGED <<unlocking, unlock_started, policy, attempt,
                 unlock_after_background_close>>
  /\ \/ /\ Blocked
        /\ RetryCleanup
        /\ UNCHANGED <<ui, authority, wallet, scanning, send_operation, stored>>
     \/ /\ ~Blocked
        /\ \E saved \in BOOLEAN :
             /\ OpenWithMnemonic(seed, saved)
             /\ seed' = IF saved THEN NoWallet ELSE seed
        /\ UNCHANGED closing

\* A seed pasted into, or created in, the restore form (create_seed).
EnterSeed(w) ==
  /\ ~opened /\ ~unlocking
  /\ \/ /\ Blocked
        /\ RetryCleanup
        /\ UNCHANGED seed
     \/ /\ seed' = w
        /\ UNCHANGED <<closing, late_failure>>
  /\ UNCHANGED <<opened, unlocking, unlock_started, mnemonic, policy, authority,
                 wallet, scanning, send_operation, attempt, stored,
                 unlock_after_background_close>>

--------------------------------------------------------------------------------
(* Unlocking the stored wallet *)

\* try_unlock_stored past its guards: either nothing can be unlocked (no stored
\* wallet, an environment mnemonic, device authentication unavailable), or a
\* credential read starts under the current token.  MaxReads bounds the reads in
\* flight so that a lock always finds a fresh token.
InFlight == {t \in Tokens : attempt[t] # "none"}
MaxReads == Cardinality(Tokens) - 2

BeginUnlock ==
  IF opened \/ unlock_started
  THEN UNCHANGED <<unlocking, unlock_started, attempt>>
  ELSE \/ /\ unlocking' = FALSE
          /\ UNCHANGED <<unlock_started, attempt>>
       \/ /\ stored # NoWallet
          /\ Cardinality(InFlight) < MaxReads
          /\ unlocking' = TRUE /\ unlock_started' = TRUE
          /\ attempt' = [attempt EXCEPT ![generation] = "reading"]

\* try_unlock_stored: a background scan, or its seal still under way, is closed
\* first and the unlock is remembered.
TryUnlockStored ==
  /\ \/ /\ \/ native_background_sync
           \/ native_close_pending /\ native_background_started # "never"
        /\ unlock_after_background_close' = TRUE
        /\ CloseLockedWallet
        /\ late_failure' = FALSE
        /\ UNCHANGED <<unlocking, unlock_started, attempt>>
     \/ /\ ~native_background_sync
        /\ ~native_close_pending \/ native_background_started = "never"
        /\ UNCHANGED unlock_after_background_close
        /\ \/ Blocked /\ RetryCleanup /\ UNCHANGED <<unlocking, unlock_started, attempt>>
           \/ ~Blocked /\ BeginUnlock /\ UNCHANGED <<closing, late_failure>>
  /\ UNCHANGED <<opened, seed, mnemonic, policy, authority, wallet, scanning,
                 send_operation, stored>>

\* Mutant: an empty store is read as a wallet.
StoreRead_empty(t) ==
  /\ attempt[t] = "reading"
  /\ \E result \in {"failed", stored} : attempt' = [attempt EXCEPT ![t] = result]
  /\ UNCHANGED <<ui, policy, closing, native, send_operation, stored,
                 unlock_after_background_close>>

\* wallet_store::load on its background thread: denied, unreadable, or read.
StoreRead(t) ==
  /\ attempt[t] = "reading"
  /\ \E result \in {"failed"} \cup ({stored} \ {NoWallet}) :
       attempt' = [attempt EXCEPT ![t] = result]
  /\ UNCHANGED <<ui, policy, closing, native, send_operation, stored,
                 unlock_after_background_close>>

\* The completion of try_unlock_stored for the read started under token t: dropped
\* when a lock came in between, a visible error, a lock when no window is active
\* any more, or an open.  The form's seed is wiped whatever the open did.
DropStaleUnlock(t) ==
  /\ t # generation
  /\ UNCHANGED <<ui, policy, closing, native, send_operation, stored,
                 unlock_after_background_close>>

\* Mutant: an error is reported whatever the token.
ReportUnlockError_any_token(t) ==
  /\ attempt[t] = "failed"
  /\ unlocking' = FALSE /\ unlock_started' = FALSE
  /\ UNCHANGED <<opened, seed, mnemonic, policy, closing, native, send_operation,
                 stored, unlock_after_background_close>>

ReportUnlockError(t) ==
  /\ t = generation /\ attempt[t] = "failed"
  /\ unlocking' = FALSE /\ unlock_started' = FALSE
  /\ UNCHANGED <<opened, seed, mnemonic, policy, closing, native, send_operation,
                 stored, unlock_after_background_close>>

LockInsteadOfUnlock(t) ==
  /\ t = generation /\ attempt[t] \in Wallets
  /\ ~active
  /\ LockWallet(FALSE)
  /\ UNCHANGED <<idle, active, stored>>

OpenUnlocked(t) ==
  /\ t = generation /\ attempt[t] \in Wallets
  /\ active
  /\ unlocking' = FALSE /\ unlock_started' = FALSE
  /\ idle' = FALSE
  /\ seed' = NoWallet
  /\ \/ /\ Blocked
        /\ RetryCleanup
        /\ UNCHANGED <<opened, mnemonic, authority, wallet, scanning,
                       send_operation, stored>>
     \/ /\ ~Blocked
        /\ \E saved \in BOOLEAN : OpenWithMnemonic(attempt[t], saved)
        /\ UNCHANGED closing
  /\ UNCHANGED <<generation, active, unlock_after_background_close>>

UnlockCompletes(t) ==
  /\ attempt[t] \in {"failed"} \cup Wallets
  /\ attempt' = [attempt EXCEPT ![t] = "none"]
  /\ \/ DropStaleUnlock(t)
     \/ ReportUnlockError(t)
     \/ LockInsteadOfUnlock(t)
     \/ OpenUnlocked(t)

--------------------------------------------------------------------------------
(* Locking, removal and the user's other actions *)

\* The Lock button of the side rail (forget), which only an open session shows.
LockNow ==
  /\ opened
  /\ LockWallet(FALSE)
  /\ UNCHANGED <<idle, active, attempt, stored>>

\* remove_stored_wallet past its two confirmations: refused while a teardown is
\* pending or failed, a plain lock while an operation runs, stopped when the
\* pending-send journal cannot be archived, and otherwise a lock followed by the
\* deletion, which may fail before or after the store forgot the wallet.
RemoveStoredWallet ==
  /\ UNCHANGED <<idle, active, attempt>>
  /\ \/ /\ native_close_pending \/ native_close_failed
        /\ RetryCleanup
        /\ UNCHANGED <<ui, generation, authority, wallet, scanning, send_operation,
                       stored, unlock_after_background_close>>
     \/ /\ ~native_close_pending /\ ~native_close_failed
        /\ LockWallet(FALSE)
        /\ IF Busy THEN UNCHANGED stored ELSE stored' \in {stored, NoWallet}

\* run_preview, or run_confirmed_send once authenticated.
StartOperation ==
  /\ opened /\ ~Busy /\ ~scanning
  /\ send_operation' = "Active"
  /\ UNCHANGED <<ui, policy, closing, native, attempt, stored,
                 unlock_after_background_close>>

\* Retry, apply network, rescan, lookahead: the open session starts a scan, which
\* api::refresh_async refuses without a native wallet.
StartScan ==
  /\ opened /\ ~scanning /\ authority # "none"
  /\ scanning' = TRUE
  /\ UNCHANGED <<ui, policy, closing, authority, wallet, late_failure,
                 send_operation, attempt, stored, unlock_after_background_close>>

\* A key, a click or the wheel anywhere in the window.
Touch ==
  /\ idle
  /\ idle' = FALSE
  /\ UNCHANGED <<ui, generation, active, closing, native, send_operation, attempt,
                 stored, unlock_after_background_close>>

\* Mutant: a completion behind a lock forgets the teardown it owes.
OperationCompletes_no_cleanup ==
  /\ Busy
  /\ send_operation' = "Idle"
  /\ UNCHANGED <<ui, policy, closing, native, attempt, stored,
                 unlock_after_background_close>>

\* The preview, send or recovery posts its result (finish_send_operation): a
\* locked session tears the slot down now; an open one may rescan after a send.
OperationCompletes ==
  /\ Busy
  /\ send_operation' = "Idle"
  /\ \/ /\ send_operation = "LockedActive"
        /\ CloseLockedWallet
        /\ UNCHANGED scanning
     \/ /\ send_operation = "Active"
        /\ scanning' \in {scanning, authority # "none"}
        /\ UNCHANGED closing
  /\ UNCHANGED <<ui, policy, authority, wallet, late_failure, attempt, stored,
                 unlock_after_background_close>>

--------------------------------------------------------------------------------
(* Time and the platform *)

IdleElapses ==
  /\ ~idle
  /\ idle' = TRUE
  /\ UNCHANGED <<ui, generation, active, closing, native, send_operation, attempt,
                 stored, unlock_after_background_close>>

BackgroundLimitElapses ==
  /\ native_background_started = "recent"
  /\ native_background_started' = "limit"
  /\ UNCHANGED <<ui, policy, native_background_sync, native_close_pending,
                 native_close_failed, teardown, native, send_operation, attempt,
                 stored, unlock_after_background_close>>

\* Mutant: no limit on a running background scan.
BackgroundSyncShouldClose_no_limit ==
  native_background_sync /\ ~native_close_pending /\ ~scanning

\* security_tick, once a second.  When both halves apply the lock's own teardown
\* is the one the first half starts, so one disjunct per effect is enough.
BackgroundSyncShouldClose ==
  /\ native_background_sync /\ ~native_close_pending
  /\ native_background_started # "never"
  /\ native_background_started = "limit" \/ ~scanning

SessionExpired == idle /\ (opened \/ unlocking \/ seed # NoWallet)

TickClosesBackground ==
  /\ BackgroundSyncShouldClose /\ ~SessionExpired
  /\ CloseLockedWallet
  /\ UNCHANGED <<ui, policy, native, send_operation, attempt, stored,
                 unlock_after_background_close>>

TickLocks ==
  /\ SessionExpired
  /\ LockForInactivity
  /\ UNCHANGED <<idle, active, attempt, stored>>

SecurityTick == TickClosesBackground \/ TickLocks

\* main's activation observer.  The authentication sheet of an unlock under way
\* takes the focus too, so that deactivation does not lock.
WindowDeactivated ==
  /\ active
  /\ active' = FALSE
  /\ \/ /\ ~unlocking /\ (opened \/ seed # NoWallet)
        /\ LockForInactivity
        /\ UNCHANGED <<idle, attempt, stored>>
     \/ /\ unlocking \/ (~opened /\ seed = NoWallet)
        /\ UNCHANGED <<ui, generation, idle, closing, native, send_operation,
                       attempt, stored, unlock_after_background_close>>

WindowActivated ==
  /\ ~active
  /\ active' = TRUE
  /\ UNCHANGED <<ui, generation, idle, closing, native, send_operation, attempt,
                 stored, unlock_after_background_close>>

--------------------------------------------------------------------------------
(* The native scan and the teardown task *)

ScanEnds ==
  /\ scanning
  /\ scanning' = FALSE
  /\ UNCHANGED <<ui, policy, closing, authority, wallet, late_failure,
                 send_operation, attempt, stored, unlock_after_background_close>>

\* The task leaves everything of the UI alone until its completion runs.
TaskStep ==
  UNCHANGED <<ui, policy, native_background_sync, native_background_started,
              native_close_pending, native_close_failed, late_failure,
              send_operation, attempt, stored, unlock_after_background_close>>

\* api::seal joins the scan and drops the spend key.  A lifecycle timeout (-31)
\* changes nothing and is retried by retry_until_stopped: a stuttering step.
Seal ==
  /\ authority # "none"
  /\ authority' = "view"
  /\ scanning' = FALSE
  /\ UNCHANGED wallet

\* Mutant: a lifecycle timeout passes for an empty slot.
CloseSeals_on_timeout ==
  /\ teardown = "closing"
  /\ teardown' = "closed"
  /\ UNCHANGED <<authority, wallet, scanning>>
  /\ TaskStep

\* session_lock::close, its first half; -13 means the slot is closed already.
CloseSeals ==
  /\ teardown = "closing"
  /\ \/ Seal /\ teardown' = "stripped"
     \/ /\ authority = "none"
        /\ teardown' = "closed"
        /\ UNCHANGED <<authority, wallet, scanning>>
  /\ TaskStep

\* Its second half, after the final cache export.
CloseEnds ==
  /\ teardown = "stripped"
  /\ teardown' = "closed"
  /\ authority' = "none" /\ wallet' = NoWallet /\ scanning' = FALSE
  /\ TaskStep

\* A timeout of the second half starts the whole close over.
CloseRetries ==
  /\ teardown = "stripped"
  /\ teardown' = "closing"
  /\ UNCHANGED <<authority, wallet, scanning>>
  /\ TaskStep

CloseErrs ==
  /\ teardown \in {"closing", "stripped"}
  /\ teardown' = "close_error"
  /\ UNCHANGED <<authority, wallet, scanning>>
  /\ TaskStep

\* session_lock::seal_for_background; a checkpoint that cannot be saved is
\* reported apart from one that was.
SealEnds ==
  /\ teardown = "sealing"
  /\ \/ Seal /\ teardown' \in {"seal_saved", "seal_unsaved"}
     \/ /\ authority = "none"
        /\ teardown' = "seal_error"
        /\ UNCHANGED <<authority, wallet, scanning>>
  /\ TaskStep

SealErrs ==
  /\ teardown = "sealing"
  /\ teardown' = "seal_error"
  /\ UNCHANGED <<authority, wallet, scanning>>
  /\ TaskStep

\* Mutant: with no active window the wish stays.
CloseCompletes_keeps_wish ==
  /\ teardown \in {"closed", "close_error"}
  /\ teardown' = "none"
  /\ native_close_pending' = FALSE
  /\ native_close_failed' = (native_close_failed \/ teardown = "close_error")
  /\ IF unlock_after_background_close /\ ~native_close_failed' /\ active /\ ~Busy
     THEN unlock_after_background_close' = FALSE /\ BeginUnlock
     ELSE UNCHANGED <<unlocking, unlock_started, attempt, unlock_after_background_close>>
  /\ UNCHANGED <<opened, seed, mnemonic, policy, native_background_sync,
                 native_background_started, native, send_operation, stored>>

\* The completion of close_locked_wallet.  Only a clean teardown honours an
\* unlock that was waiting for it; with no active window the wish is dropped.
CloseCompletes ==
  /\ teardown \in {"closed", "close_error"}
  /\ teardown' = "none"
  /\ native_close_pending' = FALSE
  /\ native_close_failed' = (native_close_failed \/ teardown = "close_error")
  /\ \/ /\ native_close_failed' \/ ~unlock_after_background_close
        /\ UNCHANGED <<unlocking, unlock_started, attempt,
                       unlock_after_background_close>>
     \/ /\ ~native_close_failed' /\ unlock_after_background_close
        /\ unlock_after_background_close' = FALSE
        /\ IF active /\ ~Busy
           THEN BeginUnlock
           ELSE UNCHANGED <<unlocking, unlock_started, attempt>>
  /\ UNCHANGED <<opened, seed, mnemonic, policy, native_background_sync,
                 native_background_started, native, send_operation, stored>>

\* Mutant: the scan goes on whatever the seal reported.
SealCompletes_unchecked ==
  /\ teardown \in {"seal_saved", "seal_unsaved", "seal_error"}
  /\ scanning' = TRUE /\ native_close_pending' = FALSE /\ teardown' = "none"
  /\ UNCHANGED <<ui, policy, native_background_sync, native_background_started,
                 native_close_failed, authority, wallet, late_failure, send_operation,
                 attempt, stored, unlock_after_background_close>>

\* Mutant: a seal that went wrong is left as it is.
SealCompletes_only_saved ==
  /\ teardown = "seal_saved"
  /\ scanning' = TRUE /\ native_close_pending' = FALSE /\ teardown' = "none"
  /\ UNCHANGED <<ui, policy, native_background_sync, native_background_started,
                 native_close_failed, authority, wallet, late_failure, send_operation,
                 attempt, stored, unlock_after_background_close>>

\* The completion of seal_background_scan: go on view-only, or close.
SealCompletes ==
  /\ teardown \in {"seal_saved", "seal_unsaved", "seal_error"}
  /\ \/ /\ teardown = "seal_saved"
        /\ native_background_sync /\ ~unlock_after_background_close
        /\ scanning' = TRUE
        /\ native_close_pending' = FALSE
        /\ teardown' = "none"
        /\ UNCHANGED <<native_background_sync, native_background_started,
                       native_close_failed>>
     \/ /\ native_background_sync' = FALSE
        /\ native_background_started' = "never"
        /\ native_close_pending' = TRUE
        /\ native_close_failed' = FALSE
        /\ teardown' = "closing"
        /\ UNCHANGED scanning
  /\ UNCHANGED <<ui, policy, authority, wallet, late_failure, send_operation,
                 attempt, stored, unlock_after_background_close>>

Task ==
  CloseSeals \/ CloseEnds \/ CloseRetries \/ CloseErrs \/ SealEnds \/ SealErrs

Next ==
  \/ OpenFromForm \/ TryUnlockStored \/ LockNow \/ RemoveStoredWallet
  \/ \E w \in Wallets : EnterSeed(w)
  \/ StartOperation \/ StartScan \/ Touch
  \/ IdleElapses \/ BackgroundLimitElapses \/ SecurityTick
  \/ WindowDeactivated \/ WindowActivated
  \/ ScanEnds \/ OperationCompletes
  \/ \E t \in Tokens : StoreRead(t) \/ UnlockCompletes(t)
  \/ Task \/ CloseCompletes \/ SealCompletes

Spec == Init /\ [][Next]_vars

\* What the runtime keeps running: posted completions, background tasks and the
\* one-second security timer.  A close times out only while a cancelled request
\* is still unwinding, so one retried forever ends at last (strong fairness).
\* Nothing is assumed of the user, of credential prompts or of task errors.
Fairness ==
  /\ WF_vars(CloseSeals) /\ SF_vars(CloseEnds) /\ WF_vars(SealEnds)
  /\ WF_vars(CloseCompletes) /\ WF_vars(SealCompletes)
  /\ WF_vars(OperationCompletes)
  /\ WF_vars(SecurityTick) /\ WF_vars(BackgroundLimitElapses)

FairSpec == Spec /\ Fairness

--------------------------------------------------------------------------------
(* Properties *)

\* Locking drops spend authority: when no session is open the native slot holds a
\* spend key only while somebody owes its removal (a teardown or seal under way, a
\* teardown that failed and blocks reopening, an operation still finishing), or
\* after an open that failed once the native wallet existed (see TeardownOwed).
SpendAuthorityIsOwed ==
  ~opened /\ authority = "spend" =>
    \/ native_close_pending \/ native_close_failed
    \/ send_operation = "LockedActive"
    \/ late_failure

\* The view key outlives a lock only for the background scan, or with a teardown
\* owed; and a scan that continues behind a locked window never runs with spend
\* authority once its seal has finished.
LockedScanIsSealed ==
  ~opened =>
    /\ authority = "view" =>
         native_background_sync \/ native_close_pending \/ native_close_failed
    /\ native_background_sync /\ ~native_close_pending => authority = "view"

\* No teardown or seal runs under an operation that still signs or previews with
\* the wallet, and none runs under an open session.
TeardownNeverUnderUse ==
  teardown # "none" => send_operation = "Idle" /\ ~opened

\* A hidden wallet leaves no seed phrase behind, and what an open session keeps is
\* the phrase of a wallet, never an empty one.
PhraseIffOpen == opened <=> mnemonic # NoWallet

\* At most one unlock speaks for the current session: a read carries its token
\* exactly while unlock_started says so.
OneLiveUnlock == unlock_started <=> attempt[generation] # "none"

\* How Home's flags, the teardown task and the native slot go together: the flags
\* that block reopening are exactly right for the task behind them, and only one of
\* session, operation and teardown holds the slot.  The other invariants rest on it.
Bookkeeping ==
  /\ opened \/ Busy => ~native_close_pending /\ ~native_close_failed
                       /\ ~native_background_sync /\ ~late_failure
                       /\ authority # "view"
  /\ send_operation = "Active" => opened
  /\ send_operation = "LockedActive" => ~opened
  /\ native_close_pending <=> teardown # "none"
  /\ native_close_failed => ~native_close_pending /\ ~native_background_sync
  /\ late_failure => /\ ~native_close_pending /\ ~native_close_failed
                     /\ ~native_background_sync
  /\ teardown \in {"closing", "stripped", "closed", "close_error"} =>
       ~native_background_sync
  /\ teardown \in {"stripped", "seal_saved", "seal_unsaved"} => authority = "view"
  /\ teardown = "closed" => authority = "none"

\* An unlock remembered for the end of a teardown has one to wait for, or a failed one
\* that will be tried again: through failures, lost windows and further locks none is
\* left behind, to start when some later session is torn down (main.rs:3113).
RememberedUnlockIsAnswered ==
  unlock_after_background_close =>
    ~opened /\ ~Busy /\ (native_close_pending \/ native_close_failed)

\* An unlock overtaken by a lock has no effect when its credential read arrives.
StaleUnlockIsInert ==
  [][\A t \in Tokens :
       attempt[t] # "none" /\ attempt'[t] = "none" /\ t # generation =>
         UNCHANGED <<ui, native, stored, send_operation, closing>>]_vars

\* A wallet enters the native slot only when no teardown is pending or failed, no
\* background scan runs and no operation uses the slot: "Reopening stays blocked
\* while an in-flight signing operation or native teardown still owns the wallet".
ReopenWaitsForTeardown ==
  [][authority' = "spend" /\ (authority # "spend" \/ wallet' # wallet) =>
       ~Busy /\ ~native_close_pending /\ ~native_close_failed /\ teardown = "none"
       /\ ~native_background_sync]_vars

\* An open session never passes from one wallet to another behind the user's back:
\* without a lock in between only an unlock begun before it opened can do that.
SessionKeepsItsWallet ==
  [][opened /\ opened' /\ mnemonic' # mnemonic => unlock_started]_vars

\* Behind a lock keys only go away: no step of a session that is and stays locked
\* raises the authority, except an open that fails after the native open.
LockedAuthorityOnlyFalls ==
  [][~opened /\ ~opened' /\ ~late_failure' =>
       /\ authority' = "spend" => authority = "spend"
       /\ authority' = "view" => authority # "none"]_vars

\* Who holds the native slot, the abstraction of Home's flags that SlotLease names.
lease ==
  IF opened THEN "session"
  ELSE IF Busy THEN "operation"
  ELSE IF native_close_pending \/ native_close_failed \/ native_background_sync
       THEN "teardown"
  ELSE IF late_failure THEN "orphan" ELSE "free"

Lease == INSTANCE SlotLease

\* Every handler, task step and completion is a step of the lease: keys enter only
\* an available slot, only leave a hidden one, and a teardown frees only an empty
\* slot, however locks, unlocks, operations and teardown errors interleave.
LeaseSpec == Lease!Spec

\* README: "Teardown timeouts automatically retry while reopening remains blocked;
\* unexpected errors fail closed and Open retries cleanup".  Keys without an open
\* session always have someone who will remove them or who blocks reopening.
TeardownOwed ==
  ~opened /\ authority # "none" =>
    \/ native_close_pending \/ native_close_failed
    \/ native_background_sync \/ send_operation = "LockedActive"

\* A teardown or a seal comes to an end.
TeardownEnds == native_close_pending ~> ~native_close_pending

\* "A two-hour background limit closes the native wallet": no scan stays in the
\* background, and the view key it needs is gone or its teardown has failed.
BackgroundScanEnds ==
  native_background_sync ~> (opened \/ authority = "none" \/ native_close_failed)

\* A lock is followed by the removal of the spend key, a reported failure, or the
\* next session, even when it found an operation in flight.
SpendKeyGoes ==
  (~opened /\ authority = "spend" /\ ~late_failure) ~>
    (opened \/ authority # "spend" \/ native_close_failed)

================================================================================
