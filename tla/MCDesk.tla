-------------------------------- MODULE MCDesk --------------------------------
(***************************************************************************)
(* The components beside the session, the send and the scan, for TLC: the    *)
(* secure store, the subaddress book, the form that opens a wallet, the      *)
(* history and its export, the explorer, the amounts, the text fields and    *)
(* the audits of the scan.                                                 *)
(*                                                                         *)
(* They share no state: they meet where a wallet is opened, locked or        *)
(* removed, which each module has as steps of its own that may come at any   *)
(* time, so what all of them do together is what each does alone.  A         *)
(* behaviour is one of one component, its subject.                          *)
(***************************************************************************)
EXTENDS StoredSeed, ReceiveBook, RestoreForm, HistoryPager, HistoryExport, ExplorerLookup,
        AmountForm, TextEdit, SyncAudit, TLC

VARIABLE subject

vars == <<subject, storeVars, bookVars, restoreVars, historyVars, exportVars,
          explorerVars, amountVars, editVars, auditVars>>

Subjects ==
  {"store", "receive", "restore", "history", "export", "explorer", "amount", "text", "audit"}

\* A component that is not the subject rests in one of its first states; the rates and
\* amounts are those of an installation that has never chosen a currency.
IdlePlan ==
  [chains |-> [node \in 1..2 |-> <<"empty">>], target |-> Nothing, torture |-> FALSE]
DeskInit ==
  /\ subject \in Subjects
  /\ StoreInit /\ (subject # "store" => past.saved = NoSeed)
  /\ RestoreInit /\ (subject # "restore" => form.height = "zero")
  /\ ExportInit
  /\ ExplorerInit /\ (subject # "explorer" => ~saved)
  /\ BookInit /\ (subject # "receive" => book_file = Missing /\ scan_gap_limit = Min(GapSteps))
  /\ HistoryInit /\ (subject # "history" => filter \in BadFilters)
  /\ EditInit /\ (subject # "text" => field = "free")
  /\ subject = "audit" \/ plan = IdlePlan
  /\ AuditInit
  /\ IF subject = "amount" THEN AmountInit
     ELSE /\ settings = NoRate /\ fiat = [enabled |-> FALSE, rate |-> NoRate]
          /\ fiat_fetching = NoRate /\ opened = FALSE /\ scanning = FALSE
          /\ sending = FALSE /\ send = Empty /\ recv = Empty

DeskNext ==
  \/ /\ subject = "store" /\ StoreNext
     /\ UNCHANGED <<subject, bookVars, restoreVars, historyVars, exportVars,
                     explorerVars, amountVars, editVars, auditVars>>
  \/ /\ subject = "receive" /\ BookNext
     /\ UNCHANGED <<subject, storeVars, restoreVars, historyVars, exportVars,
                     explorerVars, amountVars, editVars, auditVars>>
  \/ /\ subject = "restore" /\ RestoreNext
     /\ UNCHANGED <<subject, storeVars, bookVars, historyVars, exportVars,
                     explorerVars, amountVars, editVars, auditVars>>
  \/ /\ subject = "history" /\ HistoryNext
     /\ UNCHANGED <<subject, storeVars, bookVars, restoreVars, exportVars,
                     explorerVars, amountVars, editVars, auditVars>>
  \/ /\ subject = "export" /\ ExportNext
     /\ UNCHANGED <<subject, storeVars, bookVars, restoreVars, historyVars,
                     explorerVars, amountVars, editVars, auditVars>>
  \/ /\ subject = "explorer" /\ ExplorerNext
     /\ UNCHANGED <<subject, storeVars, bookVars, restoreVars, historyVars,
                     exportVars, amountVars, editVars, auditVars>>
  \/ /\ subject = "amount" /\ AmountNext
     /\ UNCHANGED <<subject, storeVars, bookVars, restoreVars, historyVars,
                     exportVars, explorerVars, editVars, auditVars>>
  \/ /\ subject = "text" /\ EditNext
     /\ UNCHANGED <<subject, storeVars, bookVars, restoreVars, historyVars,
                     exportVars, explorerVars, amountVars, auditVars>>
  \/ /\ subject = "audit" /\ AuditNext
     /\ UNCHANGED <<subject, storeVars, bookVars, restoreVars, historyVars,
                     exportVars, explorerVars, amountVars, editVars>>

DeskSpec == DeskInit /\ [][DeskNext]_vars

\* Values of one kind are only ever compared, and the kinds share two names.
Interchangeable == Permutations(Seeds)

(* ------------------------------ properties ------------------------------ *)

\* Type correctness of every component, as each module says.
DeskTypeOK ==
  /\ StoreTypeOK /\ BookTypeOK /\ RestoreTypeOK /\ HistoryTypeOK /\ ExportTypeOK
  /\ ExplorerTypeOK /\ EditTypeOK /\ AuditTypeOK
  /\ subject = "amount" => AmountTypeOK
================================================================================
