--------------------------- MODULE ScanControlProofs ---------------------------
(* What ScanControl promises of the scan and of the resume cache, for any chain, *)
(* any nodes and any number of waiting tasks.                                     *)
EXTENDS ScanControl, TLAPS

(* Facts about the waiting tasks *)

\* A superseded task is a task, and takes no effect.
LEMMA SupersededType ==
  ASSUME restarts \subseteq Waits
  PROVE  /\ Superseded \subseteq Waits
         /\ \A w \in Superseded : ~w.current
<1>1. ASSUME NEW w \in Waits
      PROVE  /\ [w EXCEPT !.current = FALSE] \in Waits
             /\ ~[w EXCEPT !.current = FALSE].current
  BY DEF Waits
<1> QED
  BY <1>1 DEF Superseded

\* The fields of a task.
LEMMA WaitFields ==
  ASSUME NEW w \in Waits
  PROVE  w.height \in Heights /\ w.current \in BOOLEAN
BY DEF Waits

\* What a command starts is a task.
LEMMA NewWait ==
  ASSUME NEW kind \in {"apply", "rescan"}, NEW height \in Heights
  PROVE  [kind |-> kind, height |-> height, current |-> TRUE] \in Waits
BY DEF Waits

--------------------------------------------------------------------------------
(* Type correctness *)

\* The flags stay Booleans.
LEMMA FlagsStep == TypeOK /\ [Next]_vars => Flags'
<1> SUFFICES ASSUME TypeOK, [Next]_vars PROVE Flags'
  OBVIOUS
<1> USE DEF TypeOK, Flags
<1>1. CASE EditNode \/ ScanAdvances
  <2> UNCHANGED <<opened, busy, scan_was_running, suppressed, native_background_sync,
                 native_close_failed, persist_cache, running, removed>>
    BY <1>1 DEF EditNode, ScanAdvances, session, fields, marks, waits, closing, native
  <2> QED
    BY Zenon
<1>2. CASE ApplyNetwork
  BY <1>2, Zenon DEF ApplyNetwork, StartFastScan, Wait, session, marks, closing,
     native
<1>3. CASE ClearScanCache
  BY <1>3, Zenon DEF ClearScanCache, FinishClear, session, fields, marks, closing,
     native
<1>4. CASE RetryRefresh
  BY <1>4, Zenon DEF RetryRefresh, StartFastScan, session, fields, marks, waits,
     closing
<1>5. ASSUME NEW h \in Heights, Rescan(h) PROVE Flags'
  BY <1>5, Zenon DEF Rescan, Wait, FinishRescan, StartFastScan, session, fields,
     marks, closing, native
<1>6. ASSUME NEW h \in Heights, OpenWithMnemonic(h) PROVE Flags'
  BY <1>6, Zenon DEF OpenWithMnemonic, Loaded, PollCore, Persist, StartFastScan,
     fields, marks, waits, closing
<1>7. CASE IncreaseScanLookahead
  BY <1>7, Zenon DEF IncreaseScanLookahead, Persist, StartFastScan, session, fields,
     waits, closing
<1>8. CASE Lock
  BY <1>8, Zenon DEF Lock, LockWallet, CloseLockedWallet, fields, closing, native
<1>9. CASE LockForInactivity
  BY <1>9, Zenon DEF LockForInactivity, LockWallet, CloseLockedWallet, fields,
     closing, native
<1>10. CASE RetryCleanup
  BY <1>10, Zenon DEF RetryCleanup, CloseLockedWallet, fields, marks, waits, closing,
     native
<1>11. CASE RemoveStoredWallet
  BY <1>11, Zenon DEF RemoveStoredWallet, LockWallet, CloseLockedWallet, fields,
     closing, native
<1>12. CASE StartOperation
  BY <1>12, Zenon DEF StartOperation, fields, marks, waits, closing, native
<1>13. CASE Poll
  BY <1>13, Zenon DEF Poll, PollCore, Persist, session, fields, waits, closing, native
<1>14. CASE ScanStops
  BY <1>14, Zenon DEF ScanStops, session, fields, marks, waits, closing
<1>15. ASSUME NEW w \in restarts, RestartResolves(w) PROVE Flags'
  BY <1>15, Zenon DEF RestartResolves, FinishRescan, StartFastScan, session, fields,
     marks, closing, native
<1>16. CASE ClearResolves
  BY <1>16, Zenon DEF ClearResolves, FinishClear, session, fields, marks, closing,
     native
<1>17. CASE Join
  BY <1>17, Zenon DEF Join, session, fields, marks, waits, closing
<1>18. CASE Export
  BY <1>18, Zenon DEF Export, session, fields, marks, waits, native
<1>19. CASE NativeCloses
  BY <1>19, Zenon DEF NativeCloses, session, fields, marks, waits, closing
<1>20. CASE CloseCompletes
  BY <1>20, Zenon DEF CloseCompletes, fields, marks, waits, native
<1>21. CASE SealCompletes
  BY <1>21, Zenon DEF SealCompletes, fields, marks, waits, closing
<1>22. CASE FinishOperation
  BY <1>22, Zenon DEF FinishOperation, CloseLockedWallet, StartFastScan, PollCore,
     Persist, fields, marks, waits, closing, native
<1>23. CASE Restart
  BY <1>23, Zenon DEF Restart
<1>24. CASE UNCHANGED vars
  BY <1>24 DEF vars, session, fields, marks, waits, closing, native
<1>25. QED
  BY <1>1, <1>2, <1>3, <1>4, <1>5, <1>6, <1>7, <1>8, <1>9, <1>10, <1>11, <1>12, <1>13,
     <1>14, <1>15, <1>16, <1>17, <1>18, <1>19, <1>20, <1>21, <1>22, <1>23, <1>24 DEF
     Next, UserNext, TaskNext

\* The rest stays of its kind.
LEMMA ValuesStep == TypeOK /\ [Next]_vars => Values'
<1> SUFFICES ASSUME TypeOK, [Next]_vars PROVE Values'
  OBVIOUS
<1> USE DEF TypeOK, Flags, Values, Heights, Files
<1>1. CASE EditNode
  BY <1>1, BoundsAssumption DEF EditNode, session, marks, waits, closing, native
<1>2. CASE ApplyNetwork
  BY <1>2, SupersededType, NewWait, BoundsAssumption DEF ApplyNetwork, StartFastScan,
     Wait, session, marks, closing, native
<1>3. CASE ClearScanCache
  BY <1>3, BoundsAssumption DEF ClearScanCache, FinishClear, session, fields, marks,
     closing, native
<1>4. CASE RetryRefresh
  BY <1>4, BoundsAssumption DEF RetryRefresh, StartFastScan, session, fields, marks,
     waits, closing
<1>5. ASSUME NEW h \in Heights, Rescan(h) PROVE Values'
  BY <1>5, SupersededType, NewWait, BoundsAssumption DEF Rescan, Wait, FinishRescan,
     StartFastScan, session, fields, marks, closing, native
<1>6. ASSUME NEW h \in Heights, OpenWithMnemonic(h) PROVE Values'
  BY <1>6, BoundsAssumption DEF OpenWithMnemonic, Loaded, PollCore, Persist,
     StartFastScan, fields, marks, waits, closing
<1>7. CASE IncreaseScanLookahead
  BY <1>7, BoundsAssumption DEF IncreaseScanLookahead, Persist, StartFastScan,
     session, fields, waits, closing
<1>8. CASE Lock
  BY <1>8, SupersededType, BoundsAssumption DEF Lock, LockWallet, CloseLockedWallet,
     fields, closing, native
<1>9. CASE LockForInactivity
  BY <1>9, SupersededType, BoundsAssumption DEF LockForInactivity, LockWallet,
     CloseLockedWallet, fields, closing, native
<1>10. CASE RetryCleanup
  BY <1>10, BoundsAssumption DEF RetryCleanup, CloseLockedWallet, fields, marks,
     waits, closing, native
<1>11. CASE RemoveStoredWallet
  BY <1>11, SupersededType, BoundsAssumption DEF RemoveStoredWallet, LockWallet,
     CloseLockedWallet, fields, closing, native
<1>12. CASE StartOperation
  BY <1>12, BoundsAssumption DEF StartOperation, fields, marks, waits, closing, native
<1>13. CASE Poll
  BY <1>13, BoundsAssumption DEF Poll, PollCore, Persist, session, fields, waits,
     closing, native
<1>14. CASE ScanAdvances
  BY <1>14, BoundsAssumption DEF ScanAdvances, session, fields, marks, waits, closing
<1>15. CASE ScanStops
  BY <1>15, BoundsAssumption DEF ScanStops, session, fields, marks, waits, closing
<1>16. ASSUME NEW w \in restarts, RestartResolves(w) PROVE Values'
  BY <1>16, WaitFields, BoundsAssumption DEF RestartResolves, FinishRescan,
     StartFastScan, session, fields, marks, closing, native
<1>17. CASE ClearResolves
  BY <1>17, BoundsAssumption DEF ClearResolves, FinishClear, session, fields, marks,
     closing, native
<1>18. CASE Join
  BY <1>18, BoundsAssumption DEF Join, session, fields, marks, waits, closing
<1>19. CASE Export
  BY <1>19, BoundsAssumption DEF Export, session, fields, marks, waits, native
<1>20. CASE NativeCloses
  BY <1>20, BoundsAssumption DEF NativeCloses, session, fields, marks, waits, closing
<1>21. CASE CloseCompletes
  BY <1>21, BoundsAssumption DEF CloseCompletes, fields, marks, waits, native
<1>22. CASE SealCompletes
  BY <1>22, BoundsAssumption DEF SealCompletes, fields, marks, waits, closing
<1>23. CASE FinishOperation
  BY <1>23, BoundsAssumption DEF FinishOperation, CloseLockedWallet, StartFastScan,
     PollCore, Persist, fields, marks, waits, closing, native
<1>24. CASE Restart
  BY <1>24, BoundsAssumption DEF Restart
<1>25. CASE UNCHANGED vars
  BY <1>25 DEF vars, session, fields, marks, waits, closing, native
<1>26. QED
  BY <1>1, <1>2, <1>3, <1>4, <1>5, <1>6, <1>7, <1>8, <1>9, <1>10, <1>11, <1>12, <1>13,
     <1>14, <1>15, <1>16, <1>17, <1>18, <1>19, <1>20, <1>21, <1>22, <1>23, <1>24,
     <1>25 DEF Next, UserNext, TaskNext

LEMMA InitType == Init => TypeOK
<1>1. Init => Flags
  BY DEF Init, Flags
<1>2. Init => Values
  BY BoundsAssumption DEF Init, Values, Heights, Files
<1> QED
  BY <1>1, <1>2 DEF TypeOK

\* Every variable stays of its kind.
THEOREM TypeCorrect == Spec => []TypeOK
<1>1. TypeOK /\ [Next]_vars => TypeOK'
  BY FlagsStep, ValuesStep DEF TypeOK
<1> QED
  BY InitType, <1>1, PTL DEF Spec

--------------------------------------------------------------------------------
(* The inductive invariant *)

\* An open session, or an operation, has the native slot to itself, and only in
\* an open session does a waiting task still take effect.
OpenInv ==
  /\ opened \/ busy =>
       teardown = "none" /\ ~native_background_sync /\ ~native_close_failed
  /\ \A w \in restarts : w.current => opened

\* Past its join a teardown has the slot sealed and the scan stopped.
JoinInv ==
  teardown \in {"joined", "saved", "unsaved", "sealed", "checkpointed"} =>
    slot = "sealed" /\ ~running

\* A clear that outlived its session took the checkpoint, and said so in the flag.
Cleared == cache = None /\ suppressed

\* How far each step of a seal has come; a waiting clear may undo its checkpoint.
SealInv ==
  native_background_sync =>
    /\ teardown \in {"none", "sealing", "sealed", "checkpointed", "seal_error"}
    /\ teardown = "checkpointed" => cache = scanned \/ Cleared
    /\ teardown = "none" => slot = "sealed" /\ (OnCheckpoint \/ Cleared)

\* A removed wallet that is still loaded is one whose teardown does not export.
RemovedInv ==
  removed =>
    /\ ~opened /\ ~busy /\ ~native_background_sync
    /\ slot # "closed" => suppressed
    /\ teardown \in {"none", "closing", "joined", "unsaved", "closed", "error"}
    /\ teardown # "none" /\ slot # "closed" => ~persist_cache

IInv ==
  TypeOK /\ OpenInv /\ JoinInv /\ SealInv /\ RemovedInv /\ FinalBatchKept /\ OneRestart

\* An open session, or an operation, has the slot to itself.
LEMMA OpenInvStep == IInv /\ [Next]_vars => OpenInv'
<1> SUFFICES ASSUME IInv, [Next]_vars PROVE OpenInv'
  OBVIOUS
<1> USE DEF IInv, TypeOK, OpenInv, Values, Flags, Blocked
<1>1. CASE EditNode \/ ClearScanCache \/ RetryRefresh \/ IncreaseScanLookahead \/ Poll
          \/ ScanAdvances \/ ScanStops \/ ClearResolves
  <2> UNCHANGED <<opened, busy, teardown, native_background_sync, native_close_failed,
                 restarts>>
    BY <1>1 DEF EditNode, ClearScanCache, FinishClear, RetryRefresh, StartFastScan,
     IncreaseScanLookahead, Persist, Poll, PollCore, ScanAdvances, ScanStops,
     ClearResolves, session, fields, marks, waits, closing, native
  <2> QED
    OBVIOUS
<1>2. CASE ApplyNetwork
  BY <1>2, SupersededType DEF ApplyNetwork, StartFastScan, Wait, session, marks,
     closing, native
<1>3. ASSUME NEW h \in Heights, Rescan(h) PROVE OpenInv'
  BY <1>3, SupersededType DEF Rescan, Wait, FinishRescan, StartFastScan, session,
     fields, marks, closing, native
<1>4. ASSUME NEW h \in Heights, OpenWithMnemonic(h) PROVE OpenInv'
  BY <1>4 DEF OpenWithMnemonic, Loaded, PollCore, Persist, StartFastScan, fields,
     marks, waits, closing
<1>5. CASE Lock
  BY <1>5, SupersededType DEF Lock, LockWallet, CloseLockedWallet, fields, closing,
     native
<1>6. CASE LockForInactivity
  BY <1>6, SupersededType DEF LockForInactivity, LockWallet, CloseLockedWallet,
     fields, closing, native
<1>7. CASE RetryCleanup
  BY <1>7 DEF RetryCleanup, CloseLockedWallet, fields, marks, waits, closing, native
<1>8. CASE RemoveStoredWallet
  BY <1>8, SupersededType DEF RemoveStoredWallet, LockWallet, CloseLockedWallet,
     fields, closing, native
<1>9. CASE StartOperation
  BY <1>9 DEF StartOperation, fields, marks, waits, closing, native
<1>10. ASSUME NEW w \in restarts, RestartResolves(w) PROVE OpenInv'
  BY <1>10, WaitFields DEF RestartResolves, FinishRescan, StartFastScan, session,
     fields, marks, closing, native
<1>11. CASE Join
  BY <1>11 DEF Join, session, fields, marks, waits, closing
<1>12. CASE Export
  BY <1>12 DEF Export, session, fields, marks, waits, native
<1>13. CASE NativeCloses
  BY <1>13 DEF NativeCloses, session, fields, marks, waits, closing
<1>14. CASE CloseCompletes
  BY <1>14 DEF CloseCompletes, fields, marks, waits, native
<1>15. CASE SealCompletes
  BY <1>15 DEF SealCompletes, fields, marks, waits, closing
<1>16. CASE FinishOperation
  BY <1>16 DEF FinishOperation, CloseLockedWallet, StartFastScan, PollCore, Persist,
     fields, marks, waits, closing, native
<1>17. CASE Restart
  BY <1>17 DEF Restart
<1>18. CASE UNCHANGED vars
  BY <1>18 DEF vars, session, fields, marks, waits, closing, native
<1>19. QED
  BY <1>1, <1>2, <1>3, <1>4, <1>5, <1>6, <1>7, <1>8, <1>9, <1>10, <1>11, <1>12, <1>13,
     <1>14, <1>15, <1>16, <1>17, <1>18 DEF Next, UserNext, TaskNext

\* Past its join a teardown has the slot sealed and the scan stopped.
LEMMA JoinInvStep == IInv /\ [Next]_vars => JoinInv'
<1> SUFFICES ASSUME IInv, [Next]_vars PROVE JoinInv'
  OBVIOUS
<1> USE DEF IInv, TypeOK, JoinInv, OpenInv, Flags, Blocked
<1>1. CASE EditNode \/ ClearScanCache \/ StartOperation \/ Poll \/ ScanAdvances \/
          ClearResolves
  <2> UNCHANGED <<teardown, slot, running>>
    BY <1>1 DEF EditNode, ClearScanCache, FinishClear, StartOperation, Poll, PollCore,
     Persist, ScanAdvances, ClearResolves, session, fields, marks, waits, closing,
     native
  <2> QED
    OBVIOUS
<1>2. CASE ApplyNetwork
  BY <1>2 DEF ApplyNetwork, StartFastScan, Wait, session, marks, closing, native
<1>3. CASE RetryRefresh
  BY <1>3 DEF RetryRefresh, StartFastScan, session, fields, marks, waits, closing
<1>4. ASSUME NEW h \in Heights, Rescan(h) PROVE JoinInv'
  BY <1>4 DEF Rescan, Wait, FinishRescan, StartFastScan, session, fields, marks,
     closing, native
<1>5. ASSUME NEW h \in Heights, OpenWithMnemonic(h) PROVE JoinInv'
  BY <1>5 DEF OpenWithMnemonic, Loaded, PollCore, Persist, StartFastScan, fields,
     marks, waits, closing
<1>6. CASE IncreaseScanLookahead
  BY <1>6 DEF IncreaseScanLookahead, Persist, StartFastScan, session, fields, waits,
     closing
<1>7. CASE Lock
  BY <1>7 DEF Lock, LockWallet, CloseLockedWallet, fields, closing, native
<1>8. CASE LockForInactivity
  BY <1>8 DEF LockForInactivity, LockWallet, CloseLockedWallet, fields, closing,
     native
<1>9. CASE RetryCleanup
  BY <1>9 DEF RetryCleanup, CloseLockedWallet, fields, marks, waits, closing, native
<1>10. CASE RemoveStoredWallet
  BY <1>10 DEF RemoveStoredWallet, LockWallet, CloseLockedWallet, fields, closing,
     native
<1>11. CASE ScanStops
  BY <1>11 DEF ScanStops, session, fields, marks, waits, closing
<1>12. ASSUME NEW w \in restarts, RestartResolves(w) PROVE JoinInv'
  BY <1>12, WaitFields DEF RestartResolves, FinishRescan, StartFastScan, session,
     fields, marks, closing, native
<1>13. CASE Join
  BY <1>13 DEF Join, session, fields, marks, waits, closing
<1>14. CASE Export
  BY <1>14 DEF Export, session, fields, marks, waits, native
<1>15. CASE NativeCloses
  BY <1>15 DEF NativeCloses, session, fields, marks, waits, closing
<1>16. CASE CloseCompletes
  BY <1>16 DEF CloseCompletes, fields, marks, waits, native
<1>17. CASE SealCompletes
  BY <1>17 DEF SealCompletes, fields, marks, waits, closing
<1>18. CASE FinishOperation
  BY <1>18 DEF FinishOperation, CloseLockedWallet, StartFastScan, PollCore, Persist,
     fields, marks, waits, closing, native
<1>19. CASE Restart
  BY <1>19 DEF Restart
<1>20. CASE UNCHANGED vars
  BY <1>20 DEF vars, session, fields, marks, waits, closing, native
<1>21. QED
  BY <1>1, <1>2, <1>3, <1>4, <1>5, <1>6, <1>7, <1>8, <1>9, <1>10, <1>11, <1>12, <1>13,
     <1>14, <1>15, <1>16, <1>17, <1>18, <1>19, <1>20 DEF Next, UserNext, TaskNext

\* A background scan goes on from its checkpoint, or from one that was cleared.
LEMMA SealInvStep == IInv /\ [Next]_vars => SealInv'
<1> SUFFICES ASSUME IInv, [Next]_vars PROVE SealInv'
  OBVIOUS
<1> USE DEF IInv, TypeOK, SealInv, Cleared, OnCheckpoint, OpenInv, JoinInv, Values,
            Heights, Flags, Blocked
<1>1. CASE EditNode \/ StartOperation \/ ScanStops
  <2> UNCHANGED <<native_background_sync, teardown, cache, scanned, slot, suppressed>>
    BY <1>1 DEF EditNode, StartOperation, ScanStops, session, fields, marks, waits,
     closing, native
  <2> QED
    OBVIOUS
<1>2. CASE ApplyNetwork
  BY <1>2, BoundsAssumption DEF ApplyNetwork, StartFastScan, Wait, session, marks,
     closing, native
<1>3. CASE ClearScanCache
  BY <1>3, BoundsAssumption DEF ClearScanCache, FinishClear, session, fields, marks,
     closing, native
<1>4. CASE RetryRefresh
  BY <1>4, BoundsAssumption DEF RetryRefresh, StartFastScan, session, fields, marks,
     waits, closing
<1>5. ASSUME NEW h \in Heights, Rescan(h) PROVE SealInv'
  BY <1>5, BoundsAssumption DEF Rescan, Wait, FinishRescan, StartFastScan, session,
     fields, marks, closing, native
<1>6. ASSUME NEW h \in Heights, OpenWithMnemonic(h) PROVE SealInv'
  BY <1>6, BoundsAssumption DEF OpenWithMnemonic, Loaded, PollCore, Persist,
     StartFastScan, fields, marks, waits, closing
<1>7. CASE IncreaseScanLookahead
  BY <1>7, BoundsAssumption DEF IncreaseScanLookahead, Persist, StartFastScan,
     session, fields, waits, closing
<1>8. CASE Lock
  BY <1>8, BoundsAssumption DEF Lock, LockWallet, CloseLockedWallet, fields, closing,
     native
<1>9. CASE LockForInactivity
  BY <1>9, BoundsAssumption DEF LockForInactivity, LockWallet, CloseLockedWallet,
     fields, closing, native
<1>10. CASE RetryCleanup
  BY <1>10, BoundsAssumption DEF RetryCleanup, CloseLockedWallet, fields, marks,
     waits, closing, native
<1>11. CASE RemoveStoredWallet
  BY <1>11, BoundsAssumption DEF RemoveStoredWallet, LockWallet, CloseLockedWallet,
     fields, closing, native
<1>12. CASE Poll
  BY <1>12, BoundsAssumption DEF Poll, PollCore, Persist, session, fields, waits,
     closing, native
<1>13. CASE ScanAdvances
  BY <1>13, BoundsAssumption DEF ScanAdvances, session, fields, marks, waits, closing
<1>14. ASSUME NEW w \in restarts, RestartResolves(w) PROVE SealInv'
  BY <1>14, WaitFields, BoundsAssumption DEF RestartResolves, FinishRescan,
     StartFastScan, session, fields, marks, closing, native
<1>15. CASE ClearResolves
  BY <1>15, BoundsAssumption DEF ClearResolves, FinishClear, session, fields, marks,
     closing, native
<1>16. CASE Join
  BY <1>16, BoundsAssumption DEF Join, session, fields, marks, waits, closing
<1>17. CASE Export
  BY <1>17, BoundsAssumption DEF Export, session, fields, marks, waits, native
<1>18. CASE NativeCloses
  BY <1>18, BoundsAssumption DEF NativeCloses, session, fields, marks, waits, closing
<1>19. CASE CloseCompletes
  BY <1>19, BoundsAssumption DEF CloseCompletes, fields, marks, waits, native
<1>20. CASE SealCompletes
  BY <1>20, BoundsAssumption DEF SealCompletes, fields, marks, waits, closing
<1>21. CASE FinishOperation
  BY <1>21, BoundsAssumption DEF FinishOperation, CloseLockedWallet, StartFastScan,
     PollCore, Persist, fields, marks, waits, closing, native
<1>22. CASE Restart
  BY <1>22, BoundsAssumption DEF Restart
<1>23. CASE UNCHANGED vars
  BY <1>23 DEF vars, session, fields, marks, waits, closing, native
<1>24. QED
  BY <1>1, <1>2, <1>3, <1>4, <1>5, <1>6, <1>7, <1>8, <1>9, <1>10, <1>11, <1>12, <1>13,
     <1>14, <1>15, <1>16, <1>17, <1>18, <1>19, <1>20, <1>21, <1>22, <1>23 DEF Next,
     UserNext, TaskNext

\* After a removal nothing is left that would write the cache.
LEMMA RemovedInvStep == IInv /\ [Next]_vars => RemovedInv'
<1> SUFFICES ASSUME IInv, [Next]_vars PROVE RemovedInv'
  OBVIOUS
<1> USE DEF IInv, TypeOK, RemovedInv, OpenInv, JoinInv, Flags, Blocked
<1>1. CASE EditNode \/ ApplyNetwork \/ ScanAdvances \/ ScanStops
  <2> UNCHANGED <<removed, opened, busy, native_background_sync, slot, suppressed,
                 teardown, persist_cache>>
    BY <1>1 DEF EditNode, ApplyNetwork, StartFastScan, Wait, ScanAdvances, ScanStops,
     session, fields, marks, waits, closing, native
  <2> QED
    OBVIOUS
<1>2. CASE ClearScanCache
  BY <1>2 DEF ClearScanCache, FinishClear, session, fields, marks, closing, native
<1>3. CASE RetryRefresh
  BY <1>3 DEF RetryRefresh, StartFastScan, session, fields, marks, waits, closing
<1>4. ASSUME NEW h \in Heights, Rescan(h) PROVE RemovedInv'
  BY <1>4 DEF Rescan, Wait, FinishRescan, StartFastScan, session, fields, marks,
     closing, native
<1>5. ASSUME NEW h \in Heights, OpenWithMnemonic(h) PROVE RemovedInv'
  BY <1>5 DEF OpenWithMnemonic, Loaded, PollCore, Persist, StartFastScan, fields,
     marks, waits, closing
<1>6. CASE IncreaseScanLookahead
  BY <1>6 DEF IncreaseScanLookahead, Persist, StartFastScan, session, fields, waits,
     closing
<1>7. CASE Lock
  BY <1>7 DEF Lock, LockWallet, CloseLockedWallet, fields, closing, native
<1>8. CASE LockForInactivity
  BY <1>8 DEF LockForInactivity, LockWallet, CloseLockedWallet, fields, closing,
     native
<1>9. CASE RetryCleanup
  BY <1>9 DEF RetryCleanup, CloseLockedWallet, fields, marks, waits, closing, native
<1>10. CASE RemoveStoredWallet
  BY <1>10 DEF RemoveStoredWallet, LockWallet, CloseLockedWallet, fields, closing,
     native
<1>11. CASE StartOperation
  BY <1>11 DEF StartOperation, fields, marks, waits, closing, native
<1>12. CASE Poll
  BY <1>12 DEF Poll, PollCore, Persist, session, fields, waits, closing, native
<1>13. ASSUME NEW w \in restarts, RestartResolves(w) PROVE RemovedInv'
  BY <1>13, WaitFields DEF RestartResolves, FinishRescan, StartFastScan, session,
     fields, marks, closing, native
<1>14. CASE ClearResolves
  BY <1>14 DEF ClearResolves, FinishClear, session, fields, marks, closing, native
<1>15. CASE Join
  BY <1>15 DEF Join, session, fields, marks, waits, closing
<1>16. CASE Export
  BY <1>16 DEF Export, session, fields, marks, waits, native
<1>17. CASE NativeCloses
  BY <1>17 DEF NativeCloses, session, fields, marks, waits, closing
<1>18. CASE CloseCompletes
  BY <1>18 DEF CloseCompletes, fields, marks, waits, native
<1>19. CASE SealCompletes
  BY <1>19 DEF SealCompletes, fields, marks, waits, closing
<1>20. CASE FinishOperation
  BY <1>20 DEF FinishOperation, CloseLockedWallet, StartFastScan, PollCore, Persist,
     fields, marks, waits, closing, native
<1>21. CASE Restart
  BY <1>21 DEF Restart
<1>22. CASE UNCHANGED vars
  BY <1>22 DEF vars, session, fields, marks, waits, closing, native
<1>23. QED
  BY <1>1, <1>2, <1>3, <1>4, <1>5, <1>6, <1>7, <1>8, <1>9, <1>10, <1>11, <1>12, <1>13,
     <1>14, <1>15, <1>16, <1>17, <1>18, <1>19, <1>20, <1>21, <1>22 DEF Next, UserNext,
     TaskNext

\* Nothing but a clear touches the checkpoint of a teardown.
LEMMA FinalBatchKeptStep == IInv /\ [Next]_vars => FinalBatchKept'
<1> SUFFICES ASSUME IInv, [Next]_vars PROVE FinalBatchKept'
  OBVIOUS
<1> USE DEF IInv, TypeOK, FinalBatchKept, OpenInv, JoinInv, Flags, Blocked
<1>1. CASE EditNode \/ StartOperation \/ ScanStops
  <2> UNCHANGED <<teardown, cache, scanned>>
    BY <1>1 DEF EditNode, StartOperation, ScanStops, session, fields, marks, waits,
     closing, native
  <2> QED
    OBVIOUS
<1>2. CASE ApplyNetwork
  BY <1>2 DEF ApplyNetwork, StartFastScan, Wait, session, marks, closing, native
<1>3. CASE ClearScanCache
  BY <1>3 DEF ClearScanCache, FinishClear, session, fields, marks, closing, native
<1>4. CASE RetryRefresh
  BY <1>4 DEF RetryRefresh, StartFastScan, session, fields, marks, waits, closing
<1>5. ASSUME NEW h \in Heights, Rescan(h) PROVE FinalBatchKept'
  BY <1>5 DEF Rescan, Wait, FinishRescan, StartFastScan, session, fields, marks,
     closing, native
<1>6. ASSUME NEW h \in Heights, OpenWithMnemonic(h) PROVE FinalBatchKept'
  BY <1>6 DEF OpenWithMnemonic, Loaded, PollCore, Persist, StartFastScan, fields,
     marks, waits, closing
<1>7. CASE IncreaseScanLookahead
  BY <1>7 DEF IncreaseScanLookahead, Persist, StartFastScan, session, fields, waits,
     closing
<1>8. CASE Lock
  BY <1>8 DEF Lock, LockWallet, CloseLockedWallet, fields, closing, native
<1>9. CASE LockForInactivity
  BY <1>9 DEF LockForInactivity, LockWallet, CloseLockedWallet, fields, closing,
     native
<1>10. CASE RetryCleanup
  BY <1>10 DEF RetryCleanup, CloseLockedWallet, fields, marks, waits, closing, native
<1>11. CASE RemoveStoredWallet
  BY <1>11 DEF RemoveStoredWallet, LockWallet, CloseLockedWallet, fields, closing,
     native
<1>12. CASE Poll
  BY <1>12 DEF Poll, PollCore, Persist, session, fields, waits, closing, native
<1>13. CASE ScanAdvances
  BY <1>13 DEF ScanAdvances, session, fields, marks, waits, closing
<1>14. ASSUME NEW w \in restarts, RestartResolves(w) PROVE FinalBatchKept'
  BY <1>14, WaitFields DEF RestartResolves, FinishRescan, StartFastScan, session,
     fields, marks, closing, native
<1>15. CASE ClearResolves
  BY <1>15 DEF ClearResolves, FinishClear, session, fields, marks, closing, native
<1>16. CASE Join
  BY <1>16 DEF Join, session, fields, marks, waits, closing
<1>17. CASE Export
  BY <1>17 DEF Export, session, fields, marks, waits, native
<1>18. CASE NativeCloses
  BY <1>18 DEF NativeCloses, session, fields, marks, waits, closing
<1>19. CASE CloseCompletes
  BY <1>19 DEF CloseCompletes, fields, marks, waits, native
<1>20. CASE SealCompletes
  BY <1>20 DEF SealCompletes, fields, marks, waits, closing
<1>21. CASE FinishOperation
  BY <1>21 DEF FinishOperation, CloseLockedWallet, StartFastScan, PollCore, Persist,
     fields, marks, waits, closing, native
<1>22. CASE Restart
  BY <1>22 DEF Restart
<1>23. CASE UNCHANGED vars
  BY <1>23 DEF vars, session, fields, marks, waits, closing, native
<1>24. QED
  BY <1>1, <1>2, <1>3, <1>4, <1>5, <1>6, <1>7, <1>8, <1>9, <1>10, <1>11, <1>12, <1>13,
     <1>14, <1>15, <1>16, <1>17, <1>18, <1>19, <1>20, <1>21, <1>22, <1>23 DEF Next,
     UserNext, TaskNext

\* A new command supersedes the ones that wait.
LEMMA OneRestartStep == IInv /\ [Next]_vars => OneRestart'
<1> SUFFICES ASSUME IInv, [Next]_vars PROVE OneRestart'
  OBVIOUS
<1> USE DEF IInv, TypeOK, OneRestart, Values, Flags, Blocked
<1>1. CASE EditNode \/ ClearScanCache \/ RetryRefresh \/ (\E h \in Heights :
          OpenWithMnemonic(h)) \/ IncreaseScanLookahead \/ RetryCleanup \/
          StartOperation \/ Poll \/ ScanAdvances \/ ScanStops \/ ClearResolves \/ Join
          \/ Export \/ NativeCloses \/ CloseCompletes \/ SealCompletes \/
          FinishOperation
  <2> UNCHANGED restarts
    BY <1>1 DEF EditNode, ClearScanCache, FinishClear, RetryRefresh, StartFastScan,
     OpenWithMnemonic, Loaded, PollCore, Persist, IncreaseScanLookahead, RetryCleanup,
     CloseLockedWallet, StartOperation, Poll, ScanAdvances, ScanStops, ClearResolves,
     Join, Export, NativeCloses, CloseCompletes, SealCompletes, FinishOperation,
     session, fields, marks, waits, closing, native
  <2> QED
    OBVIOUS
<1>2. CASE ApplyNetwork
  BY <1>2, SupersededType DEF ApplyNetwork, StartFastScan, Wait, session, marks,
     closing, native
<1>3. ASSUME NEW h \in Heights, Rescan(h) PROVE OneRestart'
  BY <1>3, SupersededType DEF Rescan, Wait, FinishRescan, StartFastScan, session,
     fields, marks, closing, native
<1>4. CASE Lock
  BY <1>4, SupersededType DEF Lock, LockWallet, CloseLockedWallet, fields, closing,
     native
<1>5. CASE LockForInactivity
  BY <1>5, SupersededType DEF LockForInactivity, LockWallet, CloseLockedWallet,
     fields, closing, native
<1>6. CASE RemoveStoredWallet
  BY <1>6, SupersededType DEF RemoveStoredWallet, LockWallet, CloseLockedWallet,
     fields, closing, native
<1>7. ASSUME NEW w \in restarts, RestartResolves(w) PROVE OneRestart'
  BY <1>7 DEF RestartResolves, FinishRescan, StartFastScan, session, fields, marks,
     closing, native
<1>8. CASE Restart
  BY <1>8 DEF Restart
<1>9. CASE UNCHANGED vars
  BY <1>9 DEF vars, session, fields, marks, waits, closing, native
<1>10. QED
  BY <1>1, <1>2, <1>3, <1>4, <1>5, <1>6, <1>7, <1>8, <1>9 DEF Next, UserNext, TaskNext

LEMMA InitIInv == Init => IInv
BY InitType DEF Init, IInv, OpenInv, JoinInv, SealInv, RemovedInv, FinalBatchKept, OneRestart

LEMMA StepIInv == IInv /\ [Next]_vars => IInv'
<1>1. IInv /\ [Next]_vars => TypeOK'
  BY FlagsStep, ValuesStep DEF IInv, TypeOK
<1> QED
  BY <1>1, OpenInvStep, JoinInvStep, SealInvStep, RemovedInvStep, FinalBatchKeptStep,
     OneRestartStep DEF IInv

LEMMA KeepsIInv == Spec => []IInv
BY InitIInv, StepIInv, PTL DEF Spec

\* A scan that goes on behind the lock has a checkpoint on disk that it only adds
\* to, or a clear has deleted that one and turned persistence off
\* (seal_background_scan's completion, main.rs:3238-3247).
THEOREM BackgroundCheckpointed == Spec => []BackgroundScanKeepsCheckpoint
<1>1. IInv => BackgroundScanKeepsCheckpoint
  BY DEF IInv, SealInv, Cleared, BackgroundScanKeepsCheckpoint
<1> QED
  BY KeepsIInv, <1>1, PTL

\* However many applies and rescans are confirmed while a scan stops, at most one
\* of them takes effect (scan_restart_generation).
THEOREM RestartsCollapse == Spec => []OneRestart
<1>1. IInv => OneRestart
  BY DEF IInv
<1> QED
  BY KeepsIInv, <1>1, PTL

\* The checkpoint of session_lock::close is the last batch the scan committed.
THEOREM FinalBatch == Spec => []FinalBatchKept
<1>1. IInv => FinalBatchKept
  BY DEF IInv
<1> QED
  BY KeepsIInv, <1>1, PTL

--------------------------------------------------------------------------------
(* What a step may never do *)

\* The only steps that put a checkpoint on disk.
LEMMA Writers ==
  ASSUME Next, Writes
  PROVE  \/ IncreaseScanLookahead \/ Poll \/ Export \/ FinishOperation
         \/ Restart
         \/ \E h \in Heights : OpenWithMnemonic(h)
<1>1. CASE EditNode
  BY <1>1, DataAssumption DEF Writes, EditNode, session, marks, waits, closing, native
<1>2. CASE ApplyNetwork
  BY <1>2, DataAssumption DEF Writes, ApplyNetwork, StartFastScan, Wait, session, marks,
     closing, native
<1>3. CASE ClearScanCache
  BY <1>3, DataAssumption DEF Writes, ClearScanCache, FinishClear, session, fields, marks,
     closing, native
<1>4. CASE RetryRefresh
  BY <1>4, DataAssumption DEF Writes, RetryRefresh, StartFastScan, session, fields, marks,
     waits, closing
<1>5. ASSUME NEW h \in Heights, Rescan(h) PROVE FALSE
  BY <1>5, DataAssumption DEF Writes, Rescan, Wait, FinishRescan, StartFastScan, session,
     fields, marks, closing, native
<1>6. CASE Lock
  BY <1>6, DataAssumption DEF Writes, Lock, LockWallet, CloseLockedWallet, fields, closing,
     native
<1>7. CASE LockForInactivity
  BY <1>7, DataAssumption DEF Writes, LockForInactivity, LockWallet, CloseLockedWallet,
     fields, closing, native
<1>8. CASE RetryCleanup
  BY <1>8, DataAssumption DEF Writes, RetryCleanup, CloseLockedWallet, fields, marks, waits,
     closing, native
<1>9. CASE RemoveStoredWallet
  BY <1>9, DataAssumption DEF Writes, RemoveStoredWallet, LockWallet, CloseLockedWallet,
     fields, closing, native
<1>10. CASE StartOperation
  BY <1>10, DataAssumption DEF Writes, StartOperation, fields, marks, waits, closing, native
<1>11. CASE ScanAdvances
  BY <1>11, DataAssumption DEF Writes, ScanAdvances, session, fields, marks, waits, closing
<1>12. CASE ScanStops
  BY <1>12, DataAssumption DEF Writes, ScanStops, session, fields, marks, waits, closing
<1>13. ASSUME NEW w \in restarts, RestartResolves(w) PROVE FALSE
  BY <1>13, DataAssumption DEF Writes, RestartResolves, FinishRescan, StartFastScan, session,
     fields, marks, closing, native
<1>14. CASE ClearResolves
  BY <1>14, DataAssumption DEF Writes, ClearResolves, FinishClear, session, fields, marks,
     closing, native
<1>15. CASE Join
  BY <1>15, DataAssumption DEF Writes, Join, session, fields, marks, waits, closing
<1>16. CASE NativeCloses
  BY <1>16, DataAssumption DEF Writes, NativeCloses, session, fields, marks, waits, closing
<1>17. CASE CloseCompletes
  BY <1>17, DataAssumption DEF Writes, CloseCompletes, fields, marks, waits, native
<1>18. CASE SealCompletes
  BY <1>18, DataAssumption DEF Writes, SealCompletes, fields, marks, waits, closing
<1>19. QED
  BY <1>1, <1>2, <1>3, <1>4, <1>5, <1>6, <1>7, <1>8, <1>9, <1>10, <1>11, <1>12, <1>13,
     <1>14, <1>15, <1>16, <1>17, <1>18 DEF Next, UserNext, TaskNext

\* The only steps that start a scan.
LEMMA Starters ==
  ASSUME Next, ~running, running'
  PROVE  \/ ApplyNetwork \/ RetryRefresh \/ IncreaseScanLookahead \/ SealCompletes
         \/ FinishOperation
         \/ \E h \in Heights : Rescan(h)
         \/ \E h \in Heights : OpenWithMnemonic(h)
         \/ \E w \in restarts : RestartResolves(w)
<1>1. CASE EditNode
  BY <1>1 DEF EditNode, session, marks, waits, closing, native
<1>2. CASE ClearScanCache
  BY <1>2 DEF ClearScanCache, FinishClear, session, fields, marks, closing, native
<1>3. CASE Lock
  BY <1>3 DEF Lock, LockWallet, CloseLockedWallet, fields, closing, native
<1>4. CASE LockForInactivity
  BY <1>4 DEF LockForInactivity, LockWallet, CloseLockedWallet, fields, closing,
     native
<1>5. CASE RetryCleanup
  BY <1>5 DEF RetryCleanup, CloseLockedWallet, fields, marks, waits, closing, native
<1>6. CASE RemoveStoredWallet
  BY <1>6 DEF RemoveStoredWallet, LockWallet, CloseLockedWallet, fields, closing,
     native
<1>7. CASE StartOperation
  BY <1>7 DEF StartOperation, fields, marks, waits, closing, native
<1>8. CASE Poll
  BY <1>8 DEF Poll, PollCore, Persist, session, fields, waits, closing, native
<1>9. CASE ScanAdvances
  BY <1>9 DEF ScanAdvances, session, fields, marks, waits, closing
<1>10. CASE ScanStops
  BY <1>10 DEF ScanStops, session, fields, marks, waits, closing
<1>11. CASE ClearResolves
  BY <1>11 DEF ClearResolves, FinishClear, session, fields, marks, closing, native
<1>12. CASE Join
  BY <1>12 DEF Join, session, fields, marks, waits, closing
<1>13. CASE Export
  BY <1>13 DEF Export, session, fields, marks, waits, native
<1>14. CASE NativeCloses
  BY <1>14 DEF NativeCloses, session, fields, marks, waits, closing
<1>15. CASE CloseCompletes
  BY <1>15 DEF CloseCompletes, fields, marks, waits, native
<1>16. CASE Restart
  BY <1>16 DEF Restart
<1>17. QED
  BY <1>1, <1>2, <1>3, <1>4, <1>5, <1>6, <1>7, <1>8, <1>9, <1>10, <1>11, <1>12, <1>13,
     <1>14, <1>15, <1>16 DEF Next, UserNext, TaskNext

\* The only steps that move the marker to a height.
LEMMA Markers ==
  ASSUME Next, last_exported' # last_exported, last_exported' # None
  PROVE  \/ IncreaseScanLookahead \/ Poll \/ FinishOperation
         \/ \E h \in Heights : OpenWithMnemonic(h)
<1>1. CASE EditNode
  BY <1>1 DEF EditNode, session, marks, waits, closing, native
<1>2. CASE ApplyNetwork
  BY <1>2 DEF ApplyNetwork, StartFastScan, Wait, session, marks, closing, native
<1>3. CASE ClearScanCache
  BY <1>3 DEF ClearScanCache, FinishClear, session, fields, marks, closing, native
<1>4. CASE RetryRefresh
  BY <1>4 DEF RetryRefresh, StartFastScan, session, fields, marks, waits, closing
<1>5. ASSUME NEW h \in Heights, Rescan(h) PROVE FALSE
  BY <1>5 DEF Rescan, Wait, FinishRescan, StartFastScan, session, fields, marks,
     closing, native
<1>6. CASE Lock
  BY <1>6 DEF Lock, LockWallet, CloseLockedWallet, fields, closing, native
<1>7. CASE LockForInactivity
  BY <1>7 DEF LockForInactivity, LockWallet, CloseLockedWallet, fields, closing,
     native
<1>8. CASE RetryCleanup
  BY <1>8 DEF RetryCleanup, CloseLockedWallet, fields, marks, waits, closing, native
<1>9. CASE RemoveStoredWallet
  BY <1>9 DEF RemoveStoredWallet, LockWallet, CloseLockedWallet, fields, closing,
     native
<1>10. CASE StartOperation
  BY <1>10 DEF StartOperation, fields, marks, waits, closing, native
<1>11. CASE ScanAdvances
  BY <1>11 DEF ScanAdvances, session, fields, marks, waits, closing
<1>12. CASE ScanStops
  BY <1>12 DEF ScanStops, session, fields, marks, waits, closing
<1>13. ASSUME NEW w \in restarts, RestartResolves(w) PROVE FALSE
  BY <1>13 DEF RestartResolves, FinishRescan, StartFastScan, session, fields, marks,
     closing, native
<1>14. CASE ClearResolves
  BY <1>14 DEF ClearResolves, FinishClear, session, fields, marks, closing, native
<1>15. CASE Join
  BY <1>15 DEF Join, session, fields, marks, waits, closing
<1>16. CASE Export
  BY <1>16 DEF Export, session, fields, marks, waits, native
<1>17. CASE NativeCloses
  BY <1>17 DEF NativeCloses, session, fields, marks, waits, closing
<1>18. CASE CloseCompletes
  BY <1>18 DEF CloseCompletes, fields, marks, waits, native
<1>19. CASE SealCompletes
  BY <1>19 DEF SealCompletes, fields, marks, waits, closing
<1>20. CASE Restart
  BY <1>20 DEF Restart
<1>21. QED
  BY <1>1, <1>2, <1>3, <1>4, <1>5, <1>6, <1>7, <1>8, <1>9, <1>10, <1>11, <1>12, <1>13,
     <1>14, <1>15, <1>16, <1>17, <1>18, <1>19, <1>20 DEF Next, UserNext, TaskNext

\* A removed wallet's cache comes back through no teardown, waiting task or quit
\* (remove_stored_wallet sets the flag before it locks).
THEOREM RemovalHolds == Spec => RemovedStaysRemoved
<1>1. ASSUME IInv, [Next]_vars PROVE [(removed /\ removed') => ~Writes]_vars
  <2> SUFFICES ASSUME Next, removed, removed', Writes PROVE FALSE
    BY <1>1
  <2>1. ASSUME NEW h \in Heights, OpenWithMnemonic(h) PROVE FALSE
    BY <2>1, <1>1 DEF OpenWithMnemonic, Loaded, PollCore, Persist, StartFastScan,
     fields, marks, waits, closing, IInv, RemovedInv, OpenInv, JoinInv, Writes
  <2>2. CASE IncreaseScanLookahead
    BY <2>2, <1>1 DEF IncreaseScanLookahead, Persist, StartFastScan, session, fields,
     waits, closing, IInv, RemovedInv, OpenInv, JoinInv, Writes
  <2>3. CASE Poll
    BY <2>3, <1>1 DEF Poll, PollCore, Persist, session, fields, waits, closing, native,
     IInv, RemovedInv, OpenInv, JoinInv, Writes
  <2>4. CASE Export
    BY <2>4, <1>1 DEF Export, session, fields, marks, waits, native, IInv, RemovedInv,
     OpenInv, JoinInv, Writes
  <2>5. CASE FinishOperation
    BY <2>5, <1>1 DEF FinishOperation, CloseLockedWallet, StartFastScan, PollCore,
     Persist, fields, marks, waits, closing, native, IInv, RemovedInv, OpenInv,
     JoinInv, Writes
  <2>6. CASE Restart
    BY <2>6, <1>1 DEF Restart, IInv, RemovedInv, OpenInv, JoinInv, Writes
  <2> QED
    BY Writers, <1>1, <2>4, <2>5, <2>6, <2>1, <2>2, <2>3 DEF IInv
<1> QED
  BY KeepsIInv, <1>1, PTL DEF Spec, RemovedStaysRemoved

\* A session that cleared its cache does not write it again (persist_scan_cache_at).
THEOREM ClearHolds == Spec => ClearedInSession
<1>1. ASSUME IInv, [Next]_vars
      PROVE [(opened /\ opened' /\ suppressed /\ suppressed') => ~Writes]_vars
  <2> SUFFICES ASSUME Next, opened, opened', suppressed, suppressed', Writes PROVE FALSE
    BY <1>1
  <2>1. ASSUME NEW h \in Heights, OpenWithMnemonic(h) PROVE FALSE
    BY <2>1, <1>1 DEF OpenWithMnemonic, Loaded, PollCore, Persist, StartFastScan,
     fields, marks, waits, closing, IInv, OpenInv, JoinInv, Writes
  <2>2. CASE IncreaseScanLookahead
    BY <2>2, <1>1 DEF IncreaseScanLookahead, Persist, StartFastScan, session, fields,
     waits, closing, IInv, OpenInv, JoinInv, Writes
  <2>3. CASE Poll
    BY <2>3, <1>1 DEF Poll, PollCore, Persist, session, fields, waits, closing, native,
     IInv, OpenInv, JoinInv, Writes
  <2>4. CASE Export
    BY <2>4, <1>1 DEF Export, session, fields, marks, waits, native, IInv, OpenInv,
     JoinInv, Writes
  <2>5. CASE FinishOperation
    BY <2>5, <1>1 DEF FinishOperation, CloseLockedWallet, StartFastScan, PollCore,
     Persist, fields, marks, waits, closing, native, IInv, OpenInv, JoinInv, Writes
  <2>6. CASE Restart
    BY <2>6, <1>1 DEF Restart, IInv, OpenInv, JoinInv, Writes
  <2> QED
    BY Writers, <1>1, <2>4, <2>5, <2>1, <2>2, <2>3, <2>6 DEF IInv
<1> QED
  BY KeepsIInv, <1>1, PTL DEF Spec, ClearedInSession

\* Behind a lock only the sealed wallet's scan starts: a task an apply or a rescan
\* left finds another scan_restart_generation.
THEOREM LockedScanSealed == Spec => LockedScanIsTheSealedOne
<1> DEFINE Resumed == /\ slot = "sealed" /\ teardown = "checkpointed"
                      /\ teardown' = "none" /\ job_node' = seal_node
<1>1. ASSUME IInv, [Next]_vars PROVE [(~opened' /\ ~running /\ running') => Resumed]_vars
  <2> SUFFICES ASSUME Next, ~opened', ~running, running'
               PROVE  Resumed
    BY <1>1
  <2>1. CASE ApplyNetwork
    BY <2>1, <1>1 DEF ApplyNetwork, StartFastScan, Wait, session, marks, closing,
     native, IInv, OpenInv, JoinInv
  <2>2. CASE RetryRefresh
    BY <2>2, <1>1 DEF RetryRefresh, StartFastScan, session, fields, marks, waits,
     closing, IInv, OpenInv, JoinInv
  <2>3. ASSUME NEW h \in Heights, Rescan(h)
        PROVE  Resumed
    BY <2>3, <1>1 DEF Rescan, Wait, FinishRescan, StartFastScan, session, fields, marks,
     closing, native, IInv, OpenInv, JoinInv
  <2>4. ASSUME NEW h \in Heights, OpenWithMnemonic(h)
        PROVE  Resumed
    BY <2>4, <1>1 DEF OpenWithMnemonic, Loaded, PollCore, Persist, StartFastScan,
     fields, marks, waits, closing, IInv, OpenInv, JoinInv
  <2>5. CASE IncreaseScanLookahead
    BY <2>5, <1>1 DEF IncreaseScanLookahead, Persist, StartFastScan, session, fields,
     waits, closing, IInv, OpenInv, JoinInv
  <2>6. ASSUME NEW w \in restarts, RestartResolves(w)
        PROVE  Resumed
    BY <2>6, <1>1 DEF RestartResolves, FinishRescan, StartFastScan, session, fields,
     marks, closing, native, IInv, OpenInv, JoinInv
  <2>7. CASE SealCompletes
    BY <2>7, <1>1 DEF SealCompletes, fields, marks, waits, closing, IInv, OpenInv,
     JoinInv
  <2>8. CASE FinishOperation
    BY <2>8, <1>1 DEF FinishOperation, CloseLockedWallet, StartFastScan, PollCore,
     Persist, fields, marks, waits, closing, native, IInv, OpenInv, JoinInv
  <2> QED
    BY Starters, <1>1, <2>4, <2>5, <2>1, <2>2, <2>3, <2>6, <2>7, <2>8 DEF IInv
<1> QED
  BY KeepsIInv, <1>1, PTL DEF Spec, LockedScanIsTheSealedOne

\* With the scan idle a write that failed leaves the marker where it was, so the
\* next poll tries again (persist_scan_cache_at).
THEOREM MarkerOnDisk == Spec => IdleMarkerIsOnDisk
<1>1. ASSUME IInv, [Next]_vars
      PROVE [(~running /\ ~running' /\ last_exported' # last_exported
                 /\ last_exported' # None)
               => cache' = last_exported']_vars
  <2> SUFFICES ASSUME Next, ~running, ~running',
                      last_exported' # last_exported, last_exported' # None
               PROVE  cache' = last_exported'
    BY <1>1
  <2>1. ASSUME NEW h \in Heights, OpenWithMnemonic(h) PROVE cache' = last_exported'
    BY <2>1, <1>1 DEF OpenWithMnemonic, Loaded, PollCore, Persist, StartFastScan,
     fields, marks, waits, closing, IInv, TypeOK, Flags
  <2>2. CASE IncreaseScanLookahead
    BY <2>2, <1>1 DEF IncreaseScanLookahead, Persist, StartFastScan, session, fields,
     waits, closing, IInv, TypeOK, Flags
  <2>3. CASE Poll
    BY <2>3, <1>1 DEF Poll, PollCore, Persist, session, fields, waits, closing, native,
     IInv, TypeOK, Flags
  <2>4. CASE FinishOperation
    BY <2>4, <1>1 DEF FinishOperation, CloseLockedWallet, StartFastScan, PollCore,
     Persist, fields, marks, waits, closing, native, IInv, TypeOK, Flags
  <2> QED
    BY Markers, <1>1, <2>1, <2>2, <2>3, <2>4 DEF IInv
<1> QED
  BY KeepsIInv, <1>1, PTL DEF Spec, IdleMarkerIsOnDisk
================================================================================
