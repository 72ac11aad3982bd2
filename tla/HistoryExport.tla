---------------------------- MODULE HistoryExport ----------------------------
(***************************************************************************)
(* "Export matching transactions" (Home::export_transfer_history in          *)
(* src/src/main.rs): a save dialog, a loop of queries on a background thread  *)
(* and the write of the file, while the ledger moves, the listing is reset    *)
(* and sessions end and begin.  WalletCore answers as HistoryPager says, and  *)
(* two wallets may number their revisions alike.                             *)
(***************************************************************************)
EXTENDS Naturals, Sequences

CONSTANTS
  Accounts,     \* wallets that may be opened
  MaxRevision,  \* bound: ledger changes in a session
  MaxPages,     \* bound: pages of an export
  NoAccount

ASSUME ExportAssumption == MaxRevision \in Nat \ {0} /\ MaxPages \in Nat

VARIABLES
  ledger,     \* WalletCore's: whose, and which revision
  export,     \* the task: its step, whether its generation still holds, the pages
              \* it has read
  asked       \* auxiliary: whose history was on the screen when it was asked for

exportVars == <<ledger, export, asked>>

Sources == [account : Accounts, revision : 1..MaxRevision]
NoExport == [step |-> "none", live |-> FALSE, read |-> <<>>]
NoLedger == [account |-> NoAccount, revision |-> 0]

ExportInit == ledger = NoLedger /\ export = NoExport /\ asked = NoAccount

Opened == ledger.account # NoAccount

Open(a) ==
  /\ ~Opened
  /\ \E v \in 1..MaxRevision : ledger' = [account |-> a, revision |-> v]
  /\ UNCHANGED <<export, asked>>

\* Whatever clears the pager: a lock; a rescan, a reload or another filter.
Invalidate ==
  /\ Opened /\ ledger' \in {ledger, NoLedger}
  /\ export' = [export EXCEPT !.live = FALSE]
  /\ UNCHANGED asked

Advance ==
  /\ Opened /\ ledger.revision < MaxRevision
  /\ ledger' = [ledger EXCEPT !.revision = @ + 1]
  /\ UNCHANGED <<export, asked>>

StartExport ==
  /\ Opened /\ export.step \in {"none", "written"}
  /\ export' = [step |-> "dialog", live |-> TRUE, read |-> <<>>]
  /\ asked' = ledger.account
  /\ UNCHANGED ledger

\* Mutant: an open session is enough.
Check_opened(step, next) ==
  /\ export.step = step
  /\ export' = IF Opened THEN [export EXCEPT !.step = next] ELSE NoExport
  /\ UNCHANGED <<ledger, asked>>

\* The two checks on the UI thread, after the dialog and after the loop.
Check(step, next) ==
  /\ export.step = step
  /\ export' = IF export.live /\ Opened THEN [export EXCEPT !.step = next] ELSE NoExport
  /\ UNCHANGED <<ledger, asked>>

\* A query of the loop: the first fixes the revision, the others name it, and an
\* answer of another one ends the export, like any failure.
ReadPage ==
  /\ export.step = "loop" /\ Len(export.read) < MaxPages
  /\ \/ /\ Opened
        /\ \A i \in DOMAIN export.read : export.read[i].revision = ledger.revision
        /\ \E step \in {"loop", "read"} :
             export' = [export EXCEPT !.step = step, !.read = Append(@, ledger)]
     \/ export' = NoExport
  /\ UNCHANGED <<ledger, asked>>

\* The file is written beside its destination and appears whole, or not at all.
WriteFile ==
  /\ export.step = "write"
  /\ export' \in {NoExport, [export EXCEPT !.step = "written"]}
  /\ UNCHANGED <<ledger, asked>>

ExportNext ==
  \/ \E a \in Accounts : Open(a)
  \/ Invalidate \/ Advance \/ StartExport
  \/ Check("dialog", "loop") \/ ReadPage \/ Check("read", "write") \/ WriteFile

ExportSpec == ExportInit /\ [][ExportNext]_exportVars

(* ------------------------------ properties ------------------------------ *)

\* Type correctness.
ExportTypeOK ==
  /\ ledger \in [account : Accounts, revision : 1..MaxRevision] \cup {NoLedger}
  /\ export.step \in {"none", "dialog", "loop", "read", "write", "written"}
  /\ export.live \in BOOLEAN /\ asked \in Accounts \cup {NoAccount}
  /\ export.read \in Seq(Sources) /\ Len(export.read) <= MaxPages

\* A file that appears is one revision of one ledger, the one that was on the screen
\* when the export was asked for, though the ledger moves and a session of another
\* wallet, whose revisions are numbered alike, may begin under the loop.
ExportIsOneLedger ==
  export.step = "written" =>
    \E v \in 1..MaxRevision : \A i \in DOMAIN export.read :
      export.read[i] = [account |-> asked, revision |-> v]
================================================================================
