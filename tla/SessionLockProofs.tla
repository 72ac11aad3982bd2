--------------------------- MODULE SessionLockProofs ---------------------------
(***************************************************************************)
(* Proofs about SessionLock for every set of wallets and of tokens: type    *)
(* correctness, the invariants its runs check; then what its steps may do:   *)
(* what a stale unlock may, when a wallet may enter the native slot, which   *)
(* wallet a session keeps, and that every step is one of the slot lease.    *)
(***************************************************************************)
EXTENDS SessionLock, TLAPS

\* The tuples a handler leaves alone, and how an open wallet and a teardown come
\* about, are expanded in every step below.
USE DEF ui, policy, closing, native, LoadStates, Busy

--------------------------------------------------------------------------------
(* Type correctness.  Zenon takes the Boolean flags, SMT the other values. *)

LEMMA LockFlags ==
  ASSUME Flags, NEW keep \in BOOLEAN, LockWallet(keep)
  PROVE  /\ opened' \in BOOLEAN /\ unlocking' \in BOOLEAN
         /\ unlock_started' \in BOOLEAN
         /\ native_background_sync' \in BOOLEAN
         /\ native_close_pending' \in BOOLEAN /\ native_close_failed' \in BOOLEAN
         /\ unlock_after_background_close' \in BOOLEAN
         /\ scanning' \in BOOLEAN /\ late_failure' \in BOOLEAN
  BY ZenonT(30) DEF LockWallet, SealBackgroundScan, CloseLockedWallet, Flags

LEMMA LockValues ==
  ASSUME Values, NEW keep, LockWallet(keep)
  PROVE  /\ seed' = NoWallet /\ mnemonic' = NoWallet
         /\ generation' \in Tokens
         /\ send_operation' \in {"Idle", "Active", "LockedActive"}
         /\ native_background_started' \in {"never", "recent", "limit"}
         /\ teardown' \in {"none", "closing", "stripped", "closed", "close_error",
                           "sealing", "seal_saved", "seal_unsaved", "seal_error"}
         /\ authority' = authority /\ wallet' = wallet
  BY DEF LockWallet, SealBackgroundScan, CloseLockedWallet, FreeTokens, Values

LEMMA NextFlags == Flags /\ [Next]_vars => Flags'
<1> SUFFICES ASSUME Flags, [Next]_vars PROVE Flags'
  OBVIOUS
<1> USE DEF Flags, Blocked, RetryCleanup, CloseLockedWallet
<1>1. ASSUME OpenFromForm PROVE Flags'
  BY <1>1, ZenonT(30) DEF OpenFromForm, OpenWithMnemonic, OpenFails, OpenFailsLate,
     OpenSucceeds, NativeOpens
<1>2. ASSUME TryUnlockStored PROVE Flags'
  BY <1>2, ZenonT(30) DEF TryUnlockStored, BeginUnlock
<1>3. ASSUME LockNow PROVE Flags'
  BY <1>3, LockFlags, Zenon DEF LockNow
<1>4. ASSUME RemoveStoredWallet PROVE Flags'
  BY <1>4, LockFlags, ZenonT(30) DEF RemoveStoredWallet
<1>5. ASSUME NEW w \in Wallets, EnterSeed(w) PROVE Flags'
  BY <1>5, ZenonT(30) DEF EnterSeed
<1>6. ASSUME StartOperation \/ StartScan \/ Touch \/ IdleElapses
             \/ BackgroundLimitElapses \/ WindowActivated \/ ScanEnds PROVE Flags'
  <2>1. CASE StartOperation BY <2>1, Zenon DEF StartOperation
  <2>2. CASE StartScan BY <2>2, Zenon DEF StartScan
  <2>3. CASE Touch BY <2>3, Zenon DEF Touch
  <2>4. CASE IdleElapses BY <2>4, Zenon DEF IdleElapses
  <2>5. CASE BackgroundLimitElapses BY <2>5, Zenon DEF BackgroundLimitElapses
  <2>6. CASE WindowActivated BY <2>6, Zenon DEF WindowActivated
  <2>7. CASE ScanEnds BY <2>7, Zenon DEF ScanEnds
  <2> QED BY <1>6, <2>6, <2>7, <2>3, <2>4, <2>5, <2>1, <2>2
<1>7. ASSUME SecurityTick PROVE Flags'
  BY <1>7, LockFlags, ZenonT(30) DEF SecurityTick, TickClosesBackground, TickLocks,
     LockForInactivity
<1>8. ASSUME WindowDeactivated PROVE Flags'
  BY <1>8, LockFlags, ZenonT(30) DEF WindowDeactivated, LockForInactivity
<1>9. ASSUME OperationCompletes PROVE Flags'
  BY <1>9, ZenonT(30) DEF OperationCompletes
<1>10. ASSUME NEW t \in Tokens, StoreRead(t) PROVE Flags'
  BY <1>10, ZenonT(30) DEF StoreRead
<1>11. ASSUME NEW t \in Tokens, UnlockCompletes(t) PROVE Flags'
  <2>1. CASE DropStaleUnlock(t)
    BY <2>1, ZenonT(30) DEF DropStaleUnlock
  <2>2. CASE ReportUnlockError(t)
    BY <2>2, ZenonT(30) DEF ReportUnlockError
  <2>3. CASE LockInsteadOfUnlock(t)
    BY <2>3, LockFlags, ZenonT(30) DEF LockInsteadOfUnlock
  <2>4. CASE OpenUnlocked(t)
    BY <2>4, ZenonT(60) DEF OpenUnlocked, OpenWithMnemonic, OpenFails, OpenFailsLate,
       OpenSucceeds, NativeOpens
  <2> QED BY <1>11, <2>1, <2>2, <2>3, <2>4, Zenon DEF UnlockCompletes
<1>12. ASSUME Task PROVE Flags'
  BY <1>12, ZenonT(60) DEF Task, CloseSeals, CloseEnds, CloseRetries, CloseErrs, SealEnds,
     SealErrs, Seal, TaskStep
<1>13. ASSUME CloseCompletes PROVE Flags'
  BY <1>13, ZenonT(60) DEF CloseCompletes, BeginUnlock
<1>14. ASSUME SealCompletes PROVE Flags'
  BY <1>14, ZenonT(30) DEF SealCompletes
<1>15. CASE UNCHANGED vars
  BY <1>15, Zenon DEF vars
<1> QED
  BY <1>1, <1>2, <1>3, <1>4, <1>5, <1>6, <1>7, <1>8, <1>9, <1>10, <1>11, <1>12,
     <1>13, <1>14, <1>15, Zenon DEF Next

LEMMA NextValues == Values /\ [Next]_vars => Values'
<1> SUFFICES ASSUME Values, [Next]_vars PROVE Values'
  OBVIOUS
<1> USE DEF Values, Blocked, RetryCleanup, CloseLockedWallet
<1>1. ASSUME OpenFromForm PROVE Values'
  BY <1>1 DEF OpenFromForm, OpenWithMnemonic, OpenFails, OpenFailsLate,
     OpenSucceeds, NativeOpens
<1>2. ASSUME TryUnlockStored PROVE Values'
  BY <1>2 DEF TryUnlockStored, BeginUnlock
<1>3. ASSUME LockNow PROVE Values'
  BY <1>3, LockValues DEF LockNow
<1>4. ASSUME RemoveStoredWallet PROVE Values'
  BY <1>4, LockValues DEF RemoveStoredWallet
<1>5. ASSUME NEW w \in Wallets, EnterSeed(w) PROVE Values'
  BY <1>5 DEF EnterSeed
<1>6. ASSUME StartOperation \/ StartScan \/ Touch \/ IdleElapses
             \/ BackgroundLimitElapses \/ WindowActivated \/ ScanEnds PROVE Values'
  BY <1>6 DEF StartOperation, StartScan, Touch, IdleElapses,
     BackgroundLimitElapses, WindowActivated, ScanEnds
<1>7. ASSUME SecurityTick PROVE Values'
  BY <1>7, LockValues DEF SecurityTick, TickClosesBackground, TickLocks,
     LockForInactivity
<1>8. ASSUME WindowDeactivated PROVE Values'
  BY <1>8, LockValues DEF WindowDeactivated, LockForInactivity
<1>9. ASSUME OperationCompletes PROVE Values'
  BY <1>9 DEF OperationCompletes
<1>10. ASSUME NEW t \in Tokens, StoreRead(t) PROVE Values'
  BY <1>10 DEF StoreRead
<1>11. ASSUME NEW t \in Tokens, UnlockCompletes(t) PROVE Values'
  <2>1. attempt' = [attempt EXCEPT ![t] = "none"]
    BY <1>11 DEF UnlockCompletes
  <2>2. CASE DropStaleUnlock(t)
    BY <2>1, <2>2 DEF DropStaleUnlock
  <2>3. CASE ReportUnlockError(t)
    BY <2>1, <2>3 DEF ReportUnlockError
  <2>4. CASE LockInsteadOfUnlock(t)
    BY <2>1, <2>4, LockValues DEF LockInsteadOfUnlock
  <2>5. CASE OpenUnlocked(t)
    BY <2>1, <2>5 DEF OpenUnlocked, OpenWithMnemonic, OpenFails, OpenFailsLate,
       OpenSucceeds, NativeOpens
  <2> QED BY <1>11, <2>2, <2>3, <2>4, <2>5 DEF UnlockCompletes
<1>12. ASSUME Task PROVE Values'
  BY <1>12 DEF Task, CloseSeals, CloseEnds, CloseRetries, CloseErrs, SealEnds,
     SealErrs, Seal, TaskStep
<1>13. ASSUME CloseCompletes PROVE Values'
  BY <1>13 DEF CloseCompletes, BeginUnlock
<1>14. ASSUME SealCompletes PROVE Values'
  BY <1>14 DEF SealCompletes
<1>15. CASE UNCHANGED vars
  BY <1>15 DEF vars
<1> QED
  BY <1>1, <1>2, <1>3, <1>4, <1>5, <1>6, <1>7, <1>8, <1>9, <1>10, <1>11, <1>12,
     <1>13, <1>14, <1>15 DEF Next

\* Every variable keeps its type in every reachable state.
THEOREM TypeCorrect == Spec => []TypeOK
<1>1. Init => Values
  BY DEF Init, Values
<1>2. Init => Flags
  BY Zenon DEF Init, Flags
<1>3. TypeOK /\ [Next]_vars => TypeOK'
  BY NextFlags, NextValues DEF TypeOK
<1> QED BY <1>1, <1>2, <1>3, PTL DEF Spec, TypeOK

--------------------------------------------------------------------------------
(* Who owns the native slot *)

\* The four invariants about the slot are only inductive together: Bookkeeping says
\* which task stands behind each of Home's flags, the others what it leaves there.
SlotInv ==
  Bookkeeping /\ SpendAuthorityIsOwed /\ LockedScanIsSealed /\ TeardownNeverUnderUse

LEMMA SlotInit == Init => SlotInv
  BY DEF Init, SlotInv, Bookkeeping, SpendAuthorityIsOwed, LockedScanIsSealed,
     TeardownNeverUnderUse

LEMMA SlotLock ==
  ASSUME Values, SlotInv, NEW keep \in BOOLEAN, keep => opened /\ ~Busy, LockWallet(keep)
  PROVE  SlotInv'
<1> USE DEF Values, SlotInv, Bookkeeping, SpendAuthorityIsOwed, LockedScanIsSealed,
            TeardownNeverUnderUse
<1>1. CASE Busy
  BY <1>1 DEF LockWallet
<1>2. CASE ~Busy /\ keep
  BY <1>2 DEF LockWallet, SealBackgroundScan
<1>3. CASE ~Busy /\ ~keep
  BY <1>3 DEF LockWallet, CloseLockedWallet
<1> QED BY <1>1, <1>2, <1>3

\* An open, whatever its outcome, of a slot that nothing blocks.
LEMMA SlotOpen ==
  ASSUME Values, SlotInv, ~Blocked, UNCHANGED closing,
         NEW w, NEW saved, OpenWithMnemonic(w, saved)
  PROVE  SlotInv'
<1> USE DEF Values, SlotInv, Bookkeeping, SpendAuthorityIsOwed, LockedScanIsSealed,
            TeardownNeverUnderUse, Blocked
<1>1. CASE OpenFails
  BY <1>1 DEF OpenFails
<1>2. CASE OpenFailsLate(w)
  BY <1>2 DEF OpenFailsLate, NativeOpens
<1>3. CASE OpenSucceeds(w)
  BY <1>3 DEF OpenSucceeds, NativeOpens
<1> QED BY <1>1, <1>2, <1>3 DEF OpenWithMnemonic

LEMMA SlotNext == Values /\ SlotInv /\ [Next]_vars => SlotInv'
<1> SUFFICES ASSUME Values, SlotInv, [Next]_vars PROVE SlotInv'
  OBVIOUS
<1> USE DEF Values, SlotInv, Bookkeeping, SpendAuthorityIsOwed, LockedScanIsSealed,
            TeardownNeverUnderUse, Blocked, RetryCleanup, CloseLockedWallet
<1>1. ASSUME OpenFromForm PROVE SlotInv'
  <2>1. CASE Blocked
    BY <1>1, <2>1 DEF OpenFromForm
  <2>2. CASE ~Blocked
    BY <1>1, <2>2, SlotOpen DEF OpenFromForm
  <2> QED BY <2>1, <2>2
<1>2. ASSUME TryUnlockStored PROVE SlotInv'
  BY <1>2 DEF TryUnlockStored
<1>3. ASSUME LockNow PROVE SlotInv'
  BY <1>3, SlotLock DEF LockNow
<1>4. ASSUME RemoveStoredWallet PROVE SlotInv'
  <2>1. CASE native_close_pending \/ native_close_failed
    <3>1. RetryCleanup /\ UNCHANGED <<opened, authority, send_operation>>
      BY <1>4, <2>1 DEF RemoveStoredWallet
    <3>2. CASE CloseLockedWallet /\ late_failure' = FALSE
      BY <2>1, <3>1, <3>2
    <3>3. CASE UNCHANGED <<closing, late_failure>>
      BY <2>1, <3>1, <3>3
    <3> QED BY <3>1, <3>2, <3>3
  <2>2. CASE ~native_close_pending /\ ~native_close_failed
    BY <1>4, <2>2, SlotLock DEF RemoveStoredWallet
  <2> QED BY <2>1, <2>2
<1>5. ASSUME NEW w \in Wallets, EnterSeed(w) PROVE SlotInv'
  BY <1>5 DEF EnterSeed
<1>6. ASSUME StartOperation \/ StartScan \/ Touch \/ IdleElapses
             \/ BackgroundLimitElapses \/ WindowActivated \/ ScanEnds PROVE SlotInv'
  BY <1>6 DEF StartOperation, StartScan, Touch, IdleElapses,
     BackgroundLimitElapses, WindowActivated, ScanEnds
<1>7. ASSUME SecurityTick PROVE SlotInv'
  <2>1. CASE TickClosesBackground
    BY <2>1 DEF TickClosesBackground, BackgroundSyncShouldClose
  <2>2. CASE TickLocks
    BY <2>2, SlotLock DEF TickLocks, LockForInactivity
  <2> QED BY <1>7, <2>1, <2>2 DEF SecurityTick
<1>8. ASSUME WindowDeactivated PROVE SlotInv'
  <2>1. CASE LockForInactivity
    BY <2>1, SlotLock DEF LockForInactivity
  <2>2. CASE UNCHANGED <<opened, closing, native, send_operation>>
    BY <2>2
  <2> QED BY <1>8, <2>1, <2>2 DEF WindowDeactivated
<1>9. ASSUME OperationCompletes PROVE SlotInv'
  BY <1>9 DEF OperationCompletes
<1>10. ASSUME NEW t \in Tokens, StoreRead(t) PROVE SlotInv'
  BY <1>10 DEF StoreRead
<1>11. ASSUME NEW t \in Tokens, UnlockCompletes(t) PROVE SlotInv'
  <2>1. CASE DropStaleUnlock(t)
    BY <2>1 DEF DropStaleUnlock
  <2>2. CASE ReportUnlockError(t)
    BY <2>2 DEF ReportUnlockError
  <2>3. CASE LockInsteadOfUnlock(t)
    BY <2>3, SlotLock DEF LockInsteadOfUnlock
  <2>4. CASE OpenUnlocked(t)
    <3>1. CASE Blocked
      BY <2>4, <3>1 DEF OpenUnlocked
    <3>2. CASE ~Blocked
      BY <2>4, <3>2, SlotOpen DEF OpenUnlocked
    <3> QED BY <3>1, <3>2
  <2> QED BY <1>11, <2>1, <2>2, <2>3, <2>4 DEF UnlockCompletes
<1>12. ASSUME Task PROVE SlotInv'
  BY <1>12 DEF Task, CloseSeals, CloseEnds, CloseRetries, CloseErrs, SealEnds,
     SealErrs, Seal, TaskStep
<1>13. ASSUME CloseCompletes PROVE SlotInv'
  BY <1>13 DEF CloseCompletes
<1>14. ASSUME SealCompletes PROVE SlotInv'
  BY <1>14 DEF SealCompletes
<1>15. CASE UNCHANGED vars
  BY <1>15 DEF vars
<1> QED
  BY <1>1, <1>2, <1>3, <1>4, <1>5, <1>6, <1>7, <1>8, <1>9, <1>10, <1>11, <1>12,
     <1>13, <1>14, <1>15 DEF Next

\* No spend key stays behind a lock without somebody who owes its removal, a locked
\* scan runs view-only, and no teardown starts under a session or an operation.
THEOREM SlotOwned ==
  Spec => [](Bookkeeping /\ SpendAuthorityIsOwed /\ LockedScanIsSealed
             /\ TeardownNeverUnderUse)
<1>1. Init => SlotInv BY SlotInit
<1>2. Values /\ SlotInv /\ [Next]_vars => SlotInv' BY SlotNext
<1>3. Spec => []Values BY TypeCorrect, PTL DEF TypeOK
<1> QED BY <1>1, <1>2, <1>3, PTL DEF Spec, SlotInv

\* A view key outlives a lock only for the background scan or a teardown owed, and a
\* background scan never has spend authority once its seal has ended.
THEOREM ScanSealed == Spec => []LockedScanIsSealed
<1> QED BY SlotOwned, PTL

\* No close and no seal runs under an open session or an operation on the native wallet.
THEOREM TeardownAlone == Spec => []TeardownNeverUnderUse
<1> QED BY SlotOwned, PTL

--------------------------------------------------------------------------------
(* The remembered unlock *)

\* Only try_unlock_stored remembers an unlock, and it has a close under way by then;
\* only a clean close ends one, and its completion takes the unlock with it.
LEMMA RememberedNext ==
  Values /\ Bookkeeping /\ RememberedUnlockIsAnswered /\ [Next]_vars
    => RememberedUnlockIsAnswered'
<1> SUFFICES ASSUME Values, Bookkeeping, RememberedUnlockIsAnswered, [Next]_vars
             PROVE  RememberedUnlockIsAnswered'
  OBVIOUS
<1> USE DEF RememberedUnlockIsAnswered, Bookkeeping, Values, Busy
<1> DEFINE Wish == unlock_after_background_close
<1>1. ASSUME NEW keep, LockWallet(keep) PROVE ~Wish'
  BY <1>1 DEF LockWallet
<1>2. ASSUME Blocked, RetryCleanup, UNCHANGED <<opened, send_operation, Wish>>
      PROVE  RememberedUnlockIsAnswered'
  BY <1>2 DEF Blocked, RetryCleanup, CloseLockedWallet
<1>3. ASSUME ~Blocked, UNCHANGED Wish PROVE RememberedUnlockIsAnswered'
  BY <1>3 DEF Blocked
<1>4. CASE OpenFromForm
  BY <1>2, <1>3, <1>4 DEF OpenFromForm
<1>5. CASE TryUnlockStored
  BY <1>2, <1>3, <1>5 DEF TryUnlockStored, CloseLockedWallet
<1>6. CASE LockNow \/ TickLocks
  BY <1>1, <1>6 DEF LockNow, TickLocks, LockForInactivity
<1>7. CASE RemoveStoredWallet
  <2>1. CASE native_close_pending \/ native_close_failed
    BY <1>2, <1>7, <2>1 DEF RemoveStoredWallet, Blocked
  <2>2. CASE ~native_close_pending /\ ~native_close_failed
    BY <1>1, <1>7, <2>2 DEF RemoveStoredWallet
  <2> QED BY <2>1, <2>2
<1>8. ASSUME NEW w \in Wallets, EnterSeed(w) PROVE RememberedUnlockIsAnswered'
  BY <1>2, <1>8 DEF EnterSeed
<1>9. CASE StartOperation
  BY <1>9 DEF StartOperation
<1>10. CASE StartScan \/ Touch \/ IdleElapses \/ BackgroundLimitElapses
            \/ WindowActivated \/ ScanEnds \/ Task
  <2> UNCHANGED <<opened, send_operation, native_close_pending, native_close_failed, Wish>>
    BY <1>10 DEF StartScan, Touch, IdleElapses, BackgroundLimitElapses,
       WindowActivated, ScanEnds, Task, CloseSeals, CloseEnds, CloseRetries, CloseErrs,
       SealEnds, SealErrs, TaskStep, ui, closing
  <2> QED OBVIOUS
<1>11. CASE TickClosesBackground
  BY <1>11 DEF TickClosesBackground, CloseLockedWallet
<1>12. CASE WindowDeactivated
  <2>1. CASE LockForInactivity
    BY <1>1, <2>1 DEF LockForInactivity
  <2>2. CASE UNCHANGED <<opened, native_close_pending, native_close_failed,
                        send_operation, Wish>>
    BY <2>2
  <2> QED BY <1>12, <2>1, <2>2 DEF WindowDeactivated, ui, closing
<1>13. CASE OperationCompletes
  BY <1>13 DEF OperationCompletes, CloseLockedWallet
<1>14. ASSUME NEW t \in Tokens, StoreRead(t) PROVE RememberedUnlockIsAnswered'
  BY <1>14 DEF StoreRead
<1>15. ASSUME NEW t \in Tokens, UnlockCompletes(t) PROVE RememberedUnlockIsAnswered'
  <2>1. CASE DropStaleUnlock(t) \/ ReportUnlockError(t)
    BY <2>1 DEF DropStaleUnlock, ReportUnlockError
  <2>2. CASE LockInsteadOfUnlock(t)
    BY <1>1, <2>2 DEF LockInsteadOfUnlock
  <2>3. CASE OpenUnlocked(t)
    BY <1>2, <1>3, <2>3 DEF OpenUnlocked
  <2> QED BY <1>15, <2>1, <2>2, <2>3 DEF UnlockCompletes
<1>16. CASE CloseCompletes
  BY <1>16 DEF CloseCompletes
<1>17. CASE SealCompletes
  BY <1>17 DEF SealCompletes
<1>18. CASE UNCHANGED vars
  BY <1>18 DEF vars
<1> QED
  BY <1>4, <1>5, <1>6, <1>7, <1>8, <1>9, <1>10, <1>11, <1>12, <1>13, <1>14, <1>15,
     <1>16, <1>17, <1>18 DEF Next, SecurityTick

\* An unlock that was put off is answered by the teardown it waits for or cancelled
\* by a lock; it never survives into another session (main.rs:3113, 3151).
THEOREM RememberedAnswered == Spec => []RememberedUnlockIsAnswered
<1>1. Init => RememberedUnlockIsAnswered
  BY DEF Init, RememberedUnlockIsAnswered
<1>2. Spec => [](Values /\ Bookkeeping)
  BY TypeCorrect, SlotOwned, PTL DEF TypeOK
<1> QED BY <1>1, <1>2, RememberedNext, PTL DEF Spec

--------------------------------------------------------------------------------
(* The seed phrase, the unlock and its token *)

LEMMA PhraseNext == Values /\ PhraseIffOpen /\ [Next]_vars => PhraseIffOpen'
<1> SUFFICES ASSUME Values, PhraseIffOpen, [Next]_vars PROVE PhraseIffOpen'
  OBVIOUS
<1> USE DEF PhraseIffOpen
<1> DEFINE Same == UNCHANGED <<opened, mnemonic>>
           Hidden == opened' = FALSE /\ mnemonic' = NoWallet
<1>1. ASSUME NEW w \in Wallets, NEW saved, OpenWithMnemonic(w, saved)
      PROVE  Same \/ (opened' = TRUE /\ mnemonic' = w)
  BY <1>1 DEF OpenWithMnemonic, OpenFails, OpenFailsLate, OpenSucceeds
<1>2. ASSUME NEW keep, LockWallet(keep) PROVE Hidden
  BY <1>2 DEF LockWallet
<1>3. CASE OpenFromForm
  <2>1. Same \/ \E saved : OpenWithMnemonic(seed, saved)
    BY <1>3 DEF OpenFromForm
  <2>2. seed \in Wallets
    BY <1>3 DEF OpenFromForm, Values
  <2> QED BY <1>1, <2>1, <2>2, WalletsAssumption
<1>4. CASE LockNow \/ TickLocks
  BY <1>2, <1>4 DEF LockNow, TickLocks, LockForInactivity
<1>5. CASE RemoveStoredWallet \/ WindowDeactivated
  <2>1. Same \/ Hidden
    BY <1>2, <1>5 DEF RemoveStoredWallet, WindowDeactivated, LockForInactivity
  <2> QED BY <2>1
<1>6. ASSUME NEW t \in Tokens, UnlockCompletes(t) PROVE PhraseIffOpen'
  <2>1. CASE DropStaleUnlock(t) \/ ReportUnlockError(t)
    BY <2>1 DEF DropStaleUnlock, ReportUnlockError
  <2>2. CASE LockInsteadOfUnlock(t)
    BY <1>2, <2>2 DEF LockInsteadOfUnlock
  <2>3. CASE OpenUnlocked(t)
    <3>1. attempt[t] \in Wallets
      BY <2>3 DEF OpenUnlocked
    <3>2. Same \/ \E saved : OpenWithMnemonic(attempt[t], saved)
      BY <2>3 DEF OpenUnlocked
    <3> QED BY <1>1, <3>1, <3>2, WalletsAssumption
  <2> QED BY <1>6, <2>1, <2>2, <2>3 DEF UnlockCompletes
<1>7. CASE TryUnlockStored \/ TickClosesBackground \/ OperationCompletes
           \/ \E w \in Wallets : EnterSeed(w)
  BY <1>7 DEF TryUnlockStored, TickClosesBackground, OperationCompletes, EnterSeed
<1>8. CASE StartOperation \/ StartScan \/ Touch \/ IdleElapses
           \/ BackgroundLimitElapses \/ WindowActivated \/ ScanEnds
  BY <1>8 DEF StartOperation, StartScan, Touch, IdleElapses,
     BackgroundLimitElapses, WindowActivated, ScanEnds
<1>9. CASE (\E t \in Tokens : StoreRead(t)) \/ CloseCompletes \/ SealCompletes
  BY <1>9 DEF StoreRead, CloseCompletes, SealCompletes
<1>10. CASE Task
  BY <1>10 DEF Task, CloseSeals, CloseEnds, CloseRetries, CloseErrs, SealEnds,
     SealErrs, TaskStep
<1>11. CASE UNCHANGED vars
  BY <1>11 DEF vars
<1> QED
  BY <1>3, <1>4, <1>5, <1>6, <1>7, <1>8, <1>9, <1>10, <1>11 DEF Next, SecurityTick

\* A hidden session keeps no seed phrase, and an open one keeps a wallet's.
THEOREM PhraseHidden == Spec => []PhraseIffOpen
<1>1. Init => PhraseIffOpen
  BY DEF Init, PhraseIffOpen
<1>2. Spec => []Values
  BY TypeCorrect, PTL DEF TypeOK
<1> QED BY <1>1, <1>2, PhraseNext, PTL DEF Spec

LEMMA UnlockNext == Values /\ OneLiveUnlock /\ [Next]_vars => OneLiveUnlock'
<1> SUFFICES ASSUME Values, OneLiveUnlock, [Next]_vars PROVE OneLiveUnlock'
  OBVIOUS
<1> USE DEF OneLiveUnlock, Values
<1> DEFINE Same == UNCHANGED <<unlock_started, generation, attempt>>
<1>1. ASSUME NEW keep, LockWallet(keep), UNCHANGED attempt PROVE OneLiveUnlock'
  BY <1>1 DEF LockWallet, FreeTokens
<1>2. ASSUME BeginUnlock, UNCHANGED generation PROVE OneLiveUnlock'
  BY <1>2 DEF BeginUnlock
<1>3. CASE LockNow \/ TickLocks
  BY <1>1, <1>3 DEF LockNow, TickLocks, LockForInactivity
<1>4. CASE RemoveStoredWallet \/ WindowDeactivated
  <2>1. Same \/ \E keep : LockWallet(keep) /\ UNCHANGED attempt
    BY <1>4 DEF RemoveStoredWallet, WindowDeactivated, LockForInactivity
  <2> QED BY <1>1, <2>1
<1>5. CASE TryUnlockStored \/ CloseCompletes
  <2>1. Same \/ (BeginUnlock /\ UNCHANGED generation)
    BY <1>5 DEF TryUnlockStored, CloseCompletes
  <2> QED BY <1>2, <2>1
<1>6. ASSUME NEW t \in Tokens, StoreRead(t) PROVE OneLiveUnlock'
  BY <1>6, WalletsAssumption DEF StoreRead
<1>7. ASSUME NEW t \in Tokens, UnlockCompletes(t) PROVE OneLiveUnlock'
  <2>1. attempt' = [attempt EXCEPT ![t] = "none"]
    BY <1>7 DEF UnlockCompletes
  <2>2. CASE DropStaleUnlock(t)
    BY <2>1, <2>2 DEF DropStaleUnlock
  <2>3. CASE ReportUnlockError(t)
    BY <2>1, <2>3 DEF ReportUnlockError
  <2>4. CASE LockInsteadOfUnlock(t)
    BY <2>1, <2>4 DEF LockInsteadOfUnlock, LockWallet, FreeTokens
  <2>5. CASE OpenUnlocked(t)
    BY <2>1, <2>5 DEF OpenUnlocked
  <2> QED BY <1>7, <2>2, <2>3, <2>4, <2>5 DEF UnlockCompletes
<1>8. CASE OpenFromForm \/ TickClosesBackground \/ OperationCompletes \/ SealCompletes
           \/ \E w \in Wallets : EnterSeed(w)
  BY <1>8 DEF OpenFromForm, TickClosesBackground, OperationCompletes, SealCompletes,
     EnterSeed
<1>9. CASE StartOperation \/ StartScan \/ Touch \/ IdleElapses
           \/ BackgroundLimitElapses \/ WindowActivated \/ ScanEnds
  BY <1>9 DEF StartOperation, StartScan, Touch, IdleElapses,
     BackgroundLimitElapses, WindowActivated, ScanEnds
<1>10. CASE Task
  BY <1>10 DEF Task, CloseSeals, CloseEnds, CloseRetries, CloseErrs, SealEnds,
     SealErrs, TaskStep
<1>11. CASE UNCHANGED vars
  BY <1>11 DEF vars
<1> QED
  BY <1>3, <1>4, <1>5, <1>6, <1>7, <1>8, <1>9, <1>10, <1>11 DEF Next, SecurityTick

\* At most one unlock speaks for the session, whatever locks came in between.
THEOREM UnlockUnique == Spec => []OneLiveUnlock
<1>1. Init => OneLiveUnlock
  BY DEF Init, OneLiveUnlock
<1>2. Spec => []Values
  BY TypeCorrect, PTL DEF TypeOK
<1> QED BY <1>1, <1>2, UnlockNext, PTL DEF Spec

--------------------------------------------------------------------------------
(* Stale unlocks *)

\* Only its own completion ends a credential read.
LEMMA ReadEnds ==
  ASSUME Values, Next, NEW t \in Tokens, attempt[t] # "none", attempt'[t] = "none"
  PROVE  UnlockCompletes(t)
<1> USE DEF Values
<1>1. ASSUME UNCHANGED attempt PROVE FALSE
  BY <1>1
<1>2. ASSUME BeginUnlock PROVE FALSE
  BY <1>2 DEF BeginUnlock
<1>3. ASSUME NEW u \in Tokens, StoreRead(u) PROVE FALSE
  <2>1. PICK result \in {"failed"} \cup Wallets :
             attempt' = [attempt EXCEPT ![u] = result]
    BY <1>3 DEF StoreRead
  <2>2. result # "none"
    BY WalletsAssumption
  <2> QED BY <2>1, <2>2
<1>4. ASSUME NEW u \in Tokens, UnlockCompletes(u), u # t PROVE FALSE
  BY <1>4 DEF UnlockCompletes
<1>5. ASSUME OpenFromForm \/ LockNow \/ RemoveStoredWallet \/ SecurityTick
             \/ WindowDeactivated \/ OperationCompletes \/ SealCompletes
             \/ \E w \in Wallets : EnterSeed(w)
      PROVE  FALSE
  BY <1>1, <1>5 DEF OpenFromForm, LockNow, RemoveStoredWallet, SecurityTick, TickLocks,
     TickClosesBackground, WindowDeactivated, OperationCompletes, SealCompletes, EnterSeed
<1>6. ASSUME TryUnlockStored \/ CloseCompletes PROVE FALSE
  BY <1>1, <1>2, <1>6 DEF TryUnlockStored, CloseCompletes
<1>7. ASSUME StartOperation \/ StartScan \/ Touch \/ IdleElapses
             \/ BackgroundLimitElapses \/ WindowActivated \/ ScanEnds PROVE FALSE
  BY <1>1, <1>7 DEF StartOperation, StartScan, Touch, IdleElapses,
     BackgroundLimitElapses, WindowActivated, ScanEnds
<1>8. ASSUME Task PROVE FALSE
  BY <1>1, <1>8 DEF Task, CloseSeals, CloseEnds, CloseRetries, CloseErrs, SealEnds,
     SealErrs, TaskStep
<1> QED BY <1>3, <1>4, <1>5, <1>6, <1>7, <1>8 DEF Next

\* An unlock that a lock has overtaken changes nothing when its read arrives.
THEOREM StaleInert == Spec => StaleUnlockIsInert
<1> DEFINE Inert == \A t \in Tokens :
             attempt[t] # "none" /\ attempt'[t] = "none" /\ t # generation =>
               UNCHANGED <<ui, native, stored, send_operation, closing>>
<1>1. Values /\ [Next]_vars => [Inert]_vars
  <2> SUFFICES ASSUME Values, Next, NEW t \in Tokens, t # generation,
                      attempt[t] # "none", attempt'[t] = "none"
               PROVE  UNCHANGED <<ui, native, stored, send_operation, closing>>
    OBVIOUS
  <2>1. UnlockCompletes(t)
    BY ReadEnds
  <2>2. DropStaleUnlock(t)
    BY <2>1 DEF UnlockCompletes, ReportUnlockError, LockInsteadOfUnlock, OpenUnlocked
  <2> QED BY <2>2 DEF DropStaleUnlock
<1>2. Spec => []Values
  BY TypeCorrect, PTL DEF TypeOK
<1> QED BY <1>1, <1>2, PTL DEF Spec, StaleUnlockIsInert

--------------------------------------------------------------------------------
(* Opening *)

Keys == <<authority, wallet>>

\* An attempt to open a wallet, whatever becomes of it.
Opening ==
  /\ ~Blocked
  /\ UNCHANGED closing
  /\ \E w \in Wallets, saved \in BOOLEAN : OpenWithMnemonic(w, saved)

\* Every other step leaves the keys alone or takes the spend key away.
LEMMA OnlyOpeningsFill ==
  ASSUME Values, Next, ~Opening
  PROVE  UNCHANGED Keys \/ (authority # "none" /\ authority' # "spend") \/ authority' = "none"
<1> USE DEF Keys
<1>1. ASSUME NEW keep, LockWallet(keep) PROVE UNCHANGED Keys
  BY <1>1 DEF LockWallet
<1>2. ASSUME OpenFromForm PROVE UNCHANGED Keys
  BY <1>2 DEF OpenFromForm, Opening, Values
<1>3. ASSUME LockNow \/ RemoveStoredWallet \/ SecurityTick \/ WindowDeactivated
      PROVE  UNCHANGED Keys
  BY <1>1, <1>3 DEF LockNow, RemoveStoredWallet, SecurityTick, TickLocks,
     TickClosesBackground, WindowDeactivated, LockForInactivity
<1>4. ASSUME TryUnlockStored \/ CloseCompletes \/ OperationCompletes \/ SealCompletes
             \/ \E w \in Wallets : EnterSeed(w)
      PROVE  UNCHANGED Keys
  BY <1>4 DEF TryUnlockStored, CloseCompletes, OperationCompletes, SealCompletes, EnterSeed
<1>5. ASSUME StartOperation \/ StartScan \/ Touch \/ IdleElapses
             \/ BackgroundLimitElapses \/ WindowActivated \/ ScanEnds
             \/ \E t \in Tokens : StoreRead(t)
      PROVE  UNCHANGED Keys
  BY <1>5 DEF StartOperation, StartScan, Touch, IdleElapses, BackgroundLimitElapses,
     WindowActivated, ScanEnds, StoreRead
<1>6. ASSUME NEW t \in Tokens, UnlockCompletes(t) PROVE UNCHANGED Keys
  <2>1. CASE DropStaleUnlock(t) \/ ReportUnlockError(t)
    BY <2>1 DEF DropStaleUnlock, ReportUnlockError
  <2>2. CASE LockInsteadOfUnlock(t)
    BY <1>1, <2>2 DEF LockInsteadOfUnlock
  <2>3. CASE OpenUnlocked(t)
    BY <2>3 DEF OpenUnlocked, Opening
  <2> QED BY <1>6, <2>1, <2>2, <2>3 DEF UnlockCompletes
<1>7. ASSUME Task
      PROVE  UNCHANGED Keys \/ (authority # "none" /\ authority' # "spend") \/ authority' = "none"
  BY <1>7 DEF Task, CloseSeals, CloseEnds, CloseRetries, CloseErrs, SealEnds, SealErrs, Seal
<1> QED BY <1>2, <1>3, <1>4, <1>5, <1>6, <1>7 DEF Next

\* A wallet enters the slot only when no teardown, scan or operation holds it.
THEOREM ReopenWaits == Spec => ReopenWaitsForTeardown
<1> DEFINE Waits ==
      authority' = "spend" /\ (authority # "spend" \/ wallet' # wallet) =>
        ~Busy /\ ~native_close_pending /\ ~native_close_failed /\ teardown = "none"
        /\ ~native_background_sync
<1>1. Values /\ Bookkeeping /\ [Next]_vars => [Waits]_vars
  <2> SUFFICES ASSUME Values, Bookkeeping, Next, authority' = "spend",
                      authority # "spend" \/ wallet' # wallet
               PROVE  ~Busy /\ ~native_close_pending /\ ~native_close_failed
                      /\ teardown = "none" /\ ~native_background_sync
    OBVIOUS
  <2>1. Opening
    BY OnlyOpeningsFill DEF Keys
  <2> QED BY <2>1 DEF Opening, Blocked, Bookkeeping
<1>2. Spec => []Values
  BY TypeCorrect, PTL DEF TypeOK
<1>3. Spec => []Bookkeeping
  BY SlotOwned, PTL
<1> QED BY <1>1, <1>2, <1>3, PTL DEF Spec, ReopenWaitsForTeardown

\* Behind a lock keys only go away, but for an open that failed half way.
THEOREM AuthorityFalls == Spec => LockedAuthorityOnlyFalls
<1> DEFINE Falls ==
      ~opened /\ ~opened' /\ ~late_failure' =>
        /\ authority' = "spend" => authority = "spend"
        /\ authority' = "view" => authority # "none"
<1>1. Values /\ [Next]_vars => [Falls]_vars
  <2> SUFFICES ASSUME Values, Next, ~opened, ~opened', ~late_failure' PROVE Falls
    OBVIOUS
  <2>1. CASE Opening
    <3>1. PICK w \in Wallets, saved \in BOOLEAN : OpenWithMnemonic(w, saved)
      BY <2>1 DEF Opening
    <3>2. OpenFails \/ OpenFailsLate(w)
      BY <3>1 DEF OpenWithMnemonic, OpenSucceeds
    <3> QED BY <3>2 DEF OpenFails, OpenFailsLate, NativeOpens
  <2>2. CASE ~Opening
    <3>1. authority' = "spend" => authority = "spend"
      BY <2>2, OnlyOpeningsFill DEF Keys
    <3>2. authority' = "view" => authority # "none"
      BY <2>2, OnlyOpeningsFill DEF Keys
    <3> QED BY <3>1, <3>2
  <2> QED BY <2>1, <2>2
<1>2. Spec => []Values
  BY TypeCorrect, PTL DEF TypeOK
<1> QED BY <1>1, <1>2, PTL DEF Spec, LockedAuthorityOnlyFalls

--------------------------------------------------------------------------------
(* The session's wallet *)

\* A seed still in the form of an open session is the seed it was opened with: its
\* save to the secure store failed.
FormSeed == opened /\ seed # NoWallet => seed = mnemonic

\* What each handler does to the session's phrase.
LEMMA PhraseSteps ==
  ASSUME Values, Next
  PROVE  \/ UNCHANGED <<opened, seed, mnemonic>>
         \/ ~opened'
         \/ ~opened /\ UNCHANGED <<opened, mnemonic>>
         \/ seed # NoWallet /\ opened' /\ mnemonic' = seed /\ seed' \in {seed, NoWallet}
         \/ UNCHANGED <<opened, mnemonic>> /\ seed' \in {seed, NoWallet}
         \/ seed' = NoWallet /\ attempt[generation] # "none"
<1>1. ASSUME NEW keep, LockWallet(keep) PROVE ~opened'
  BY <1>1 DEF LockWallet
<1>2. CASE LockNow \/ RemoveStoredWallet \/ SecurityTick \/ WindowDeactivated
  BY <1>1, <1>2 DEF LockNow, RemoveStoredWallet, SecurityTick, TickLocks,
     TickClosesBackground, WindowDeactivated, LockForInactivity
<1>3. CASE OpenFromForm
  <2>1. CASE UNCHANGED <<opened, seed, mnemonic>>
    BY <2>1
  <2>2. ASSUME NEW saved \in BOOLEAN, OpenWithMnemonic(seed, saved), seed # NoWallet,
               seed' = IF saved THEN NoWallet ELSE seed
        PROVE  \/ opened' /\ mnemonic' = seed /\ seed' \in {seed, NoWallet}
               \/ UNCHANGED <<opened, mnemonic>> /\ seed' \in {seed, NoWallet}
    BY <2>2 DEF OpenWithMnemonic, OpenFails, OpenFailsLate, OpenSucceeds
  <2>3. QED
    BY <1>3, <2>1, <2>2 DEF OpenFromForm
<1>4. CASE \E w \in Wallets : EnterSeed(w)
  BY <1>4 DEF EnterSeed
<1>5. ASSUME NEW t \in Tokens, UnlockCompletes(t)
      PROVE  \/ UNCHANGED <<opened, seed, mnemonic>> \/ ~opened'
             \/ seed' = NoWallet /\ attempt[generation] # "none"
  <2>1. CASE DropStaleUnlock(t) \/ ReportUnlockError(t)
    BY <2>1 DEF DropStaleUnlock, ReportUnlockError
  <2>2. CASE LockInsteadOfUnlock(t)
    BY <1>1, <2>2 DEF LockInsteadOfUnlock
  <2>3. CASE OpenUnlocked(t)
    BY <2>3, WalletsAssumption DEF OpenUnlocked
  <2>4. QED
    BY <1>5, <2>1, <2>2, <2>3 DEF UnlockCompletes
<1>6. CASE TryUnlockStored \/ CloseCompletes \/ OperationCompletes \/ SealCompletes
  BY <1>6 DEF TryUnlockStored, CloseCompletes, OperationCompletes, SealCompletes
<1>7. CASE StartOperation \/ StartScan \/ Touch \/ IdleElapses
           \/ BackgroundLimitElapses \/ WindowActivated \/ ScanEnds
           \/ \E t \in Tokens : StoreRead(t)
  BY <1>7 DEF StartOperation, StartScan, Touch, IdleElapses, BackgroundLimitElapses,
     WindowActivated, ScanEnds, StoreRead
<1>8. CASE Task
  BY <1>8 DEF Task, CloseSeals, CloseEnds, CloseRetries, CloseErrs, SealEnds, SealErrs,
     TaskStep
<1>9. QED
  BY <1>2, <1>3, <1>4, <1>5, <1>6, <1>7, <1>8 DEF Next

\* An open session changes its wallet only for an unlock begun before it opened.
THEOREM KeepsItsWallet == Spec => SessionKeepsItsWallet
<1>1. Init => FormSeed
  BY DEF Init, FormSeed
<1>2. Values /\ FormSeed /\ [Next]_vars => FormSeed'
  BY PhraseSteps DEF FormSeed, vars
<1>3. Values /\ FormSeed /\ OneLiveUnlock /\ [Next]_vars =>
        [opened /\ opened' /\ mnemonic' # mnemonic => unlock_started]_vars
  BY PhraseSteps DEF FormSeed, OneLiveUnlock
<1>4. Spec => []Values
  BY TypeCorrect, PTL DEF TypeOK
<1>5. Spec => []OneLiveUnlock
  BY UnlockUnique, PTL
<1> QED BY <1>1, <1>2, <1>3, <1>4, <1>5, PTL DEF Spec, SessionKeepsItsWallet

--------------------------------------------------------------------------------
(* The slot lease *)

LEMMA LockLease ==
  ASSUME Values, Bookkeeping, NEW keep, LockWallet(keep)
  PROVE  Lease!Hide \/ Lease!Reclaim \/ UNCHANGED Lease!vars
  BY DEF Values, Bookkeeping, LockWallet, SealBackgroundScan, CloseLockedWallet, lease,
     Lease!Hide, Lease!Reclaim, Lease!vars, Lease!keys

LEMMA OpenLease ==
  ASSUME Values, Bookkeeping, Opening
  PROVE  [Lease!Next]_(Lease!vars)
<1>1. PICK w \in Wallets, saved \in BOOLEAN : OpenWithMnemonic(w, saved)
  BY DEF Opening
<1> USE DEF Opening, Blocked, Bookkeeping, lease, NativeOpens, Lease!Next, Lease!Open,
            Lease!AbandonOpen, Lease!Available, Lease!Fill, Lease!Empty, Lease!vars
<1>2. CASE OpenFails
  BY <1>2 DEF OpenFails
<1>3. CASE OpenFailsLate(w)
  BY <1>3 DEF OpenFailsLate
<1>4. CASE OpenSucceeds(w)
  BY <1>4 DEF OpenSucceeds
<1> QED BY <1>1, <1>2, <1>3, <1>4 DEF OpenWithMnemonic

\* close_locked_wallet reclaims a slot no session shows, or finds it reclaimed.
LEMMA CloseLease ==
  ASSUME Values, Bookkeeping, ~opened, send_operation' = "Idle", CloseLockedWallet,
         UNCHANGED <<opened, authority, wallet>>
  PROVE  Lease!Reclaim \/ UNCHANGED Lease!vars
  BY DEF Values, Bookkeeping, CloseLockedWallet, lease, Lease!Reclaim, Lease!vars,
     Lease!keys

\* With the flags of Home, the task and the keys unchanged the lease stands still.
LEMMA SameLease ==
  ASSUME UNCHANGED <<opened, send_operation, native_background_sync,
                     native_close_pending, native_close_failed, late_failure,
                     authority, wallet>>
  PROVE  UNCHANGED Lease!vars
  BY DEF lease, Lease!vars

LEMMA StepLease ==
  ASSUME Values, SlotInv, SlotInv', [Next]_vars
  PROVE  [Lease!Next]_(Lease!vars)
<1> USE DEF Values, SlotInv
<1> DEFINE Stutter == UNCHANGED Lease!vars
           Locks == \E keep : LockWallet(keep)
           Closes == /\ ~opened /\ send_operation' = "Idle" /\ CloseLockedWallet
                     /\ UNCHANGED <<opened, authority, wallet>>
           Stays == UNCHANGED <<opened, send_operation, native_background_sync,
                                native_close_pending, native_close_failed,
                                late_failure, authority, wallet>>
<1>1. Locks \/ Closes \/ Stays \/ Opening => [Lease!Next]_(Lease!vars)
  BY LockLease, CloseLease, SameLease, OpenLease DEF Lease!Next
<1> HIDE DEF Locks, Closes, Stays
<1>2. RetryCleanup /\ ~opened /\ ~Busy
      /\ UNCHANGED <<opened, send_operation, authority, wallet>> => Closes \/ Stays
  BY DEF RetryCleanup, Closes, Stays
<1>3. RetryCleanup /\ (opened \/ Busy)
      /\ UNCHANGED <<opened, send_operation, authority, wallet>> => Stays
  BY DEF RetryCleanup, Bookkeeping, Stays
<1>4. CASE OpenFromForm
  <2>1. Opening \/ (RetryCleanup /\ UNCHANGED <<opened, send_operation, authority, wallet>>)
    BY <1>4 DEF OpenFromForm, Opening
  <2> QED BY <1>1, <1>2, <1>3, <2>1
<1>5. CASE TryUnlockStored
  <2>1. UNCHANGED <<opened, send_operation, authority, wallet>>
    BY <1>5 DEF TryUnlockStored
  <2>2. CASE native_background_sync \/ native_close_pending
    <3>1. ~opened /\ ~Busy
      BY <2>2 DEF Bookkeeping
    <3>2. CloseLockedWallet \/ RetryCleanup
      BY <1>5, <2>2 DEF TryUnlockStored, Blocked
    <3>3. CloseLockedWallet => Closes
      BY <2>1, <3>1 DEF Closes
    <3> QED BY <1>1, <1>2, <2>1, <3>1, <3>2, <3>3
  <2>3. CASE ~native_background_sync /\ ~native_close_pending
    <3>1. RetryCleanup \/ UNCHANGED <<closing, late_failure>>
      BY <1>5, <2>3 DEF TryUnlockStored
    <3> QED BY <1>1, <1>2, <1>3, <2>1, <3>1 DEF Stays
  <2> QED BY <2>2, <2>3
<1>6. CASE LockNow \/ TickLocks
  BY <1>1, <1>6 DEF LockNow, TickLocks, LockForInactivity, Locks
<1>7. CASE RemoveStoredWallet
  <2>1. Locks \/ (RetryCleanup /\ UNCHANGED <<opened, send_operation, authority, wallet>>)
    BY <1>7 DEF RemoveStoredWallet, Locks
  <2> QED BY <1>1, <1>2, <1>3, <2>1
<1>8. CASE WindowDeactivated
  BY <1>1, <1>8 DEF WindowDeactivated, LockForInactivity, Locks, Stays
<1>9. CASE \E w \in Wallets : EnterSeed(w)
  <2>1. UNCHANGED <<opened, send_operation, authority, wallet>>
    BY <1>9 DEF EnterSeed
  <2>2. RetryCleanup \/ UNCHANGED <<closing, late_failure>>
    BY <1>9 DEF EnterSeed
  <2> QED BY <1>1, <1>2, <1>3, <2>1, <2>2 DEF Stays
<1>10. CASE StartOperation
  BY <1>10 DEF StartOperation, lease, Lease!vars
<1>11. CASE TickClosesBackground
  BY <1>1, <1>11 DEF TickClosesBackground, BackgroundSyncShouldClose, Bookkeeping, Closes
<1>12. CASE OperationCompletes
  <2>1. CASE send_operation = "LockedActive"
    BY <1>1, <1>12, <2>1 DEF OperationCompletes, Bookkeeping, Closes
  <2>2. CASE send_operation = "Active"
    BY <1>12, <2>2 DEF OperationCompletes, Bookkeeping, lease, Lease!vars
  <2> QED BY <1>12, <2>1, <2>2 DEF OperationCompletes
<1>13. ASSUME NEW t \in Tokens, UnlockCompletes(t) PROVE [Lease!Next]_(Lease!vars)
  <2>1. CASE DropStaleUnlock(t) \/ ReportUnlockError(t)
    BY <1>1, <2>1 DEF DropStaleUnlock, ReportUnlockError, Stays
  <2>2. CASE LockInsteadOfUnlock(t)
    BY <1>1, <2>2 DEF LockInsteadOfUnlock, Locks
  <2>3. CASE OpenUnlocked(t)
    <3>1. Opening \/ (RetryCleanup /\ UNCHANGED <<opened, send_operation, authority, wallet>>)
      BY <2>3 DEF OpenUnlocked, Opening
    <3> QED BY <1>1, <1>2, <1>3, <3>1
  <2> QED BY <1>13, <2>1, <2>2, <2>3 DEF UnlockCompletes
<1>14. CASE StartScan \/ Touch \/ IdleElapses \/ BackgroundLimitElapses
            \/ WindowActivated \/ ScanEnds \/ \E t \in Tokens : StoreRead(t)
  BY <1>1, <1>14 DEF StartScan, Touch, IdleElapses, BackgroundLimitElapses,
     WindowActivated, ScanEnds, StoreRead, Stays
<1>15. CASE Task
  <2>1. lease = "teardown" /\ UNCHANGED lease
    BY <1>15 DEF Task, CloseSeals, CloseEnds, CloseRetries, CloseErrs, SealEnds,
       SealErrs, TaskStep, Bookkeeping, TeardownNeverUnderUse, lease
  <2>2. \/ UNCHANGED <<authority, wallet>>
        \/ authority # "none" /\ authority' = "view" /\ UNCHANGED wallet
        \/ authority # "none" /\ authority' = "none" /\ wallet' = NoWallet
    BY <1>15 DEF Task, CloseSeals, CloseEnds, CloseRetries, CloseErrs, SealEnds,
       SealErrs, Seal, Bookkeeping
  <2> QED BY <2>1, <2>2 DEF Lease!Next, Lease!Strip, Lease!Empty, Lease!vars
<1>16. CASE CloseCompletes
  <2>1. CASE native_close_failed'
    BY <1>16, <2>1 DEF CloseCompletes, Bookkeeping, TeardownNeverUnderUse, lease, Lease!vars
  <2>2. CASE ~native_close_failed'
    BY <1>16, <2>2 DEF CloseCompletes, Bookkeeping, TeardownNeverUnderUse, lease,
       Lease!Next, Lease!Release, Lease!keys
  <2> QED BY <2>1, <2>2
<1>17. CASE SealCompletes
  BY <1>17 DEF SealCompletes, Bookkeeping, TeardownNeverUnderUse, lease, Lease!vars
<1>18. CASE UNCHANGED vars
  BY <1>1, <1>18 DEF vars, Stays
<1> QED
  BY <1>4, <1>5, <1>6, <1>7, <1>8, <1>9, <1>10, <1>11, <1>12, <1>13, <1>14, <1>15,
     <1>16, <1>17, <1>18 DEF Next, SecurityTick

\* SessionLock implements the slot lease: keys enter only an available slot, only
\* leave a hidden one, and a teardown gives back only an empty slot.
THEOREM ImplementsLease == Spec => LeaseSpec
<1>1. Init => Lease!Init
  BY DEF Init, Lease!Init, lease
<1>2. SlotInv /\ SlotInv' /\ Values /\ [Next]_vars => [Lease!Next]_(Lease!vars)
  BY StepLease
<1>3. Spec => []Values
  BY TypeCorrect, PTL DEF TypeOK
<1>4. Spec => []SlotInv
  BY SlotOwned, PTL DEF SlotInv
<1> QED BY <1>1, <1>2, <1>3, <1>4, PTL DEF Spec, LeaseSpec, Lease!Spec

================================================================================
