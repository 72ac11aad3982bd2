------------------------------ MODULE DeskProofs ------------------------------
(***************************************************************************)
(* What the desk does is what each of its components does: a behaviour of     *)
(* MCDesk is, seen through the variables of a component, a behaviour of that *)
(* component.  So what StoredSeedProofs, FormProofs, HistoryProofs and       *)
(* SyncAuditProofs say of the components holds of the desk, for every value  *)
(* of the constants.                                                       *)
(***************************************************************************)
EXTENDS MCDesk, StoredSeedProofs, FormProofs, HistoryProofs, SyncAuditProofs, TLAPS

\* The components that are idle rest in one of their own first states.
LEMMA FirstStates ==
  DeskInit => /\ StoreInit /\ BookInit /\ RestoreInit /\ HistoryInit /\ ExportInit
              /\ ExplorerInit /\ EditInit /\ AuditInit
              /\ (subject = "amount" => AmountInit)
  BY DEF DeskInit

\* A step of the desk is a step of one component, and no other sees it.
LEMMA ComponentSteps ==
  ASSUME [DeskNext]_vars
  PROVE  /\ [StoreNext]_storeVars /\ [BookNext]_bookVars /\ [RestoreNext]_restoreVars
         /\ [HistoryNext]_historyVars /\ [ExportNext]_exportVars
         /\ [ExplorerNext]_explorerVars /\ [AmountNext]_amountVars
         /\ [EditNext]_editVars /\ [AuditNext]_auditVars /\ UNCHANGED subject
  BY DEF DeskNext, vars

\* Whatever component a behaviour is of, it is a behaviour of every component;
\* the amounts start as AmountForm says only while they are the subject.
THEOREM DeskImplementsComponents ==
  DeskSpec => /\ StoreSpec /\ BookSpec /\ RestoreSpec /\ HistorySpec /\ ExportSpec
              /\ ExplorerSpec /\ EditSpec /\ AuditSpec
              /\ (subject = "amount" => AmountSpec)
<1>1. /\ [DeskNext]_vars => [StoreNext]_storeVars
      /\ [DeskNext]_vars => [BookNext]_bookVars
      /\ [DeskNext]_vars => [RestoreNext]_restoreVars
      /\ [DeskNext]_vars => [HistoryNext]_historyVars
      /\ [DeskNext]_vars => [ExportNext]_exportVars
      /\ [DeskNext]_vars => [ExplorerNext]_explorerVars
      /\ [DeskNext]_vars => [AmountNext]_amountVars
      /\ [DeskNext]_vars => [EditNext]_editVars
      /\ [DeskNext]_vars => [AuditNext]_auditVars
  BY ComponentSteps
<1> QED
  BY FirstStates, <1>1, PTL DEF DeskSpec, StoreSpec, BookSpec, RestoreSpec, HistorySpec,
     ExportSpec, ExplorerSpec, EditSpec, AuditSpec, AmountSpec

\* The amounts are what AmountForm says while they are the subject.
LEMMA Amounts ==
  DeskSpec => [](subject = "amount" => AmountTypeOK /\ AmountsKeepTheirUnit)
<1> DEFINE Other == ~(subject = "amount")
<1>1. DeskSpec => Other \/ [](AmountTypeOK /\ AmountsKeepTheirUnit)
  BY DeskImplementsComponents, AmountTypeCorrect, UnitsKept, PTL
<1>2. Other /\ [DeskNext]_vars => Other'
  BY ComponentSteps
<1>3. DeskSpec => ~Other \/ []Other
  BY <1>2, PTL DEF DeskSpec
<1> QED BY <1>1, <1>3, PTL

\* Every component of the desk keeps its types together, the amounts while they are
\* the subject.
THEOREM DeskTypeCorrect == DeskSpec => []DeskTypeOK
<1>1. StoreTypeOK /\ BookTypeOK /\ RestoreTypeOK /\ HistoryTypeOK /\ ExportTypeOK
      /\ ExplorerTypeOK /\ EditTypeOK /\ AuditTypeOK
      /\ (subject = "amount" => AmountTypeOK /\ AmountsKeepTheirUnit)
      => DeskTypeOK
  BY DEF DeskTypeOK
<1> QED
  BY <1>1, Amounts, DeskImplementsComponents, TypeCorrect, BookTypeCorrect,
     RestoreTypeCorrect, HistoryTypeCorrect, ExportTypeCorrect, ExplorerTypeCorrect,
     EditTypeCorrect, AuditTypeCorrect, PTL

\* The safety invariants of the components, that a created seed opens a wallet only once
\* it is confirmed, and that the stored seed is a vault, hold of the desk as a whole.
THEOREM DeskSafe ==
  DeskSpec => /\ [](/\ MarkedSeedLoads /\ StoredWalletKept /\ RemovalLeavesNoSeed
                    /\ BookScanned /\ BookIsFile /\ FreshBalanceIsOfSource
                    /\ HistoryOfOneLedger /\ ExportIsOneLedger
                    /\ ExplorerAnswersItsLookup /\ EditsSlice /\ PassIsEarned)
              /\ [](subject = "amount" => AmountsKeepTheirUnit)
              /\ CreatedSeedConfirmed /\ VaultSpec
<1> QED
  BY Amounts, DeskImplementsComponents, SeedLoads, WalletKept, RemovalComplete,
     ImplementsVault, CreatedIsConfirmed, BookAlwaysScanned, BookAlwaysFile, FreshBalances, OneLedger,
     FileIsOneLedger, PanelCorrect, EditsAlwaysSlice, PassesAreEarned, PTL

================================================================================
