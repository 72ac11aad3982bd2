------------------------------- MODULE SendFlow -------------------------------
(***************************************************************************)
(* Preview, review, authentication, send and crash recovery of a payment.  *)
(*                                                                         *)
(* Home's handlers (src/src/main.rs) run one at a time on the UI thread.    *)
(* One background task at a time (preview, send or recovery, guarded by     *)
(* SessionOperation) calls WalletCore and the journal file through          *)
(* src/src/send_flow.rs; its steps interleave with every handler, and the   *)
(* process may die between any two of them.                                 *)
(*                                                                         *)
(* The session is SessionLock's seen from here: a lock hides everything at  *)
(* once, and the native slot is empty as soon as no task uses it any more.  *)
(* PreviewEpoch is a u64 only ever compared with a captured value, and it   *)
(* does not wrap in between: "current" holds the captures it still equals.  *)
(***************************************************************************)
EXTENDS Naturals

CONSTANTS
  Wallets,    \* the wallets a user may open
  Payees,     \* destinations, each with the subaddress spent from
  Amounts,    \* piconero amounts, never 0
  Fees,       \* network fees
  Routes,     \* a broadcast node and the proxy to reach it, two routes differing in both
  Payments,   \* bound: one name per send that may be started
  None

Forms == [payee : Payees \cup {None}, amount : Amounts \cup {0}, max : BOOLEAN]

\* What the user reviews (Confirmation); the wallet stands for the session.
Intents == [payee : Payees, amount : Amounts, fee : Fees, max : BOOLEAN,
            route : Routes, wallet : Wallets]

\* A prepared, signed transaction: all of the journal file.
Transactions == [payment : Payments, wallet : Wallets, amount : Amounts, fee : Fees]

\* A preview on display; a confirmation waiting for its prompt; and what a preview
\* and a send capture.
Previews == [amount : Amounts, fee : Fees, payee : Payees, max : BOOLEAN]
Prompts == [intent : Intents, locked : BOOLEAN]
Questions == [form : Forms, route : Routes]
Reviews == [intent : Intents, payment : Payments]

ASSUME DataAssumption ==
  /\ Amounts \subseteq Nat \ {0} /\ Fees \subseteq Nat
  /\ None \notin Wallets \cup Payees \cup Routes \cup Payments
  /\ None \notin Intents /\ None \notin Transactions /\ None \notin Previews
  /\ None \notin Prompts /\ None \notin Questions /\ None \notin Reviews

VARIABLES
  (* Home *)
  opened,           \* a session is open
  form,             \* send_dest and source, send_amount, send_max
  route,            \* broadcast_node_url() and broadcast_proxy() as edited
  preview,          \* send_preview_amount and send_fee
  current,          \* which captures send_preview_epoch still equals
  confirmation,     \* send_confirmation, the review on display
  prompt,           \* the confirmation waiting for device authentication
  send_operation,   \* SessionOperation
  (* the background task *)
  task,             \* its next step
  asked,            \* what a preview captured from the form
  review,           \* what a send captured from the confirmation
  tx,               \* the transaction in its hands
  (* WalletCore *)
  wallet,           \* whose keys the native slot holds
  core_route,       \* the route whose proxy set_i2p_http_proxy set last
  (* disk *)
  journal,          \* the pending-send journal
  archived,         \* journals moved aside by a wallet removal
  (* auxiliary: no code reads them *)
  started,          \* payments whose send began
  relayed,          \* payments the network may have
  paid,             \* payments a node's answer has confirmed
  touched           \* the form was edited, or the session locked, under the prompt

home == <<opened, form, route, preview, current, confirmation, prompt>>
job  == <<send_operation, task, asked, review, tx>>
core == <<wallet, core_route>>
disk == <<journal, archived>>
past == <<started, relayed, paid>>
vars == <<home, touched, job, core, disk, past>>

Running == {"load", "resend", "clear_old", "prepare", "persist", "relay", "clear_new"}

\* Every variable holds a value of its kind.
TypeOK ==
  /\ opened \in BOOLEAN
  /\ form \in Forms
  /\ route \in Routes /\ core_route \in Routes
  /\ preview \in Previews \cup {None}
  /\ confirmation \in Intents \cup {None}
  /\ prompt \in Prompts \cup {None}
  /\ current \subseteq {"preview", "prompt"}
  /\ send_operation \in {"Idle", "Active", "LockedActive"}
  /\ task \in Running \cup {"none", "preview", "failed", "sent"}
  /\ asked \in Questions \cup {None}
  /\ review \in Reviews \cup {None}
  /\ tx \in Transactions \cup {None} /\ journal \in Transactions \cup {None}
  /\ archived \subseteq Transactions
  /\ wallet \in Wallets \cup {None}
  /\ started \subseteq Payments /\ relayed \subseteq Payments /\ paid \subseteq Payments
  /\ touched \in BOOLEAN

EmptyForm == [payee |-> None, amount |-> 0, max |-> FALSE]

Init ==
  /\ opened = FALSE
  /\ form = EmptyForm
  /\ route \in Routes /\ core_route = route
  /\ preview = None /\ confirmation = None /\ prompt = None /\ current = {}
  /\ send_operation = "Idle" /\ task = "none"
  /\ asked = None /\ review = None /\ tx = None
  /\ wallet = None
  /\ journal = None /\ archived = {}
  /\ started = {} /\ relayed = {} /\ paid = {} /\ touched = FALSE

Busy == send_operation # "Idle"

--------------------------------------------------------------------------------
(* The form and its preview *)

\* clear_send_preview, and the captures of the new epoch made right after it.
ClearSendPreview(captures) ==
  /\ confirmation' = None /\ preview' = None
  /\ current' = captures

\* Every way to edit the send form clears the preview: a destination typed or
\* scanned, an amount typed or coerced, a payment URI or another source (both), a
\* change of the amount's currency, and, when no task runs, Send max.
EditForm ==
  /\ opened
  /\ \/ \E p \in Payees \cup {None} : form' = [form EXCEPT !.payee = p]
     \/ \E p \in Payees \cup {None}, a \in Amounts \cup {0} :
          form' = [payee |-> p, amount |-> a, max |-> FALSE]
     \/ \E a \in Amounts \cup {0} : form' = [form EXCEPT !.amount = a]
     \/ /\ ~Busy
        /\ \E a \in Amounts \cup {0} : form' = [form EXCEPT !.amount = a, !.max = TRUE]
  /\ ClearSendPreview({})
  /\ touched' = (prompt # None)
  /\ UNCHANGED <<opened, route, prompt, job, core, disk, past>>

\* A fiat amount stops being an amount when its rate expires or is dropped; the
\* preview stays until the next poll coerces the field.  Send max is in XMR.
RateLost ==
  /\ opened /\ ~form.max /\ form.amount # 0
  /\ form' = [form EXCEPT !.amount = 0]
  /\ touched' = (prompt # None)
  /\ UNCHANGED <<opened, route, preview, current, confirmation, prompt, job, core, disk, past>>

\* Node, mode and proxy fields: live at once, and they do not clear the preview.
EditRoute ==
  /\ \E r \in Routes \ {route} : route' = r
  /\ UNCHANGED <<opened, form, preview, current, confirmation, prompt, job, core, disk, past, touched>>

\* Apply, Retry, Rescan: an open session starts a scan through the edited proxy.
ScanRoute ==
  /\ opened /\ core_route # route
  /\ core_route' = route
  /\ UNCHANGED <<home, job, wallet, disk, past, touched>>

\* Mutant: an amount that does not parse is previewed as 0.
RunPreview_unparsed ==
  /\ opened /\ ~Busy /\ form.payee # None
  /\ send_operation' = "Active" /\ task' = "preview"
  /\ ClearSendPreview({"preview"})
  /\ asked' = [form |-> form, route |-> route]
  /\ core_route' = route
  /\ UNCHANGED <<review, tx, opened, form, route, prompt, wallet, disk, past, touched>>

\* run_preview: the proxy of an invalid route is refused after the preview is cleared.
RunPreview ==
  /\ opened /\ ~Busy
  /\ form.payee # None /\ (form.max \/ form.amount # 0)
  /\ \/ ClearSendPreview({}) /\ UNCHANGED <<job, core_route>>
     \/ /\ send_operation' = "Active" /\ task' = "preview"
        /\ ClearSendPreview({"preview"})
        /\ asked' = [form |-> form, route |-> route]
        /\ core_route' = route
        /\ UNCHANGED <<review, tx>>
  /\ UNCHANGED <<opened, form, route, prompt, wallet, disk, past, touched>>

\* Mutant: an operation that outlived its session is never taken back.
FinishSendOperation_locked_stays ==
  /\ send_operation' = IF send_operation = "LockedActive" THEN "LockedActive" ELSE "Idle"
  /\ task' = "none" /\ asked' = None /\ review' = None /\ tx' = None
  /\ UNCHANGED wallet

\* finish_send_operation: a locked session's slot is torn down, nothing published.
FinishSendOperation ==
  /\ send_operation' = "Idle" /\ task' = "none"
  /\ asked' = None /\ review' = None /\ tx' = None
  /\ wallet' = IF send_operation = "LockedActive" THEN None ELSE wallet

\* Mutant: the epoch is not compared.
AskedStillHolds_no_epoch ==
  route = asked.route /\ (asked.form.max \/ form.amount = asked.form.amount)

\* The values a preview's completion compares; the source cannot change meanwhile.
AskedStillHolds ==
  /\ "preview" \in current /\ route = asked.route
  /\ asked.form.max \/ form.amount = asked.form.amount

\* The preview's completion: late ones are dropped, a failed one clears again, and
\* the sweep of a Send max fills the amount in.
PreviewCompletes ==
  /\ task = "preview"
  /\ FinishSendOperation
  /\ \/ /\ send_operation = "LockedActive" \/ ~AskedStillHolds
        /\ current' = current \ {"preview"}
        /\ UNCHANGED <<form, preview, confirmation>>
     \/ /\ send_operation = "Active" /\ AskedStillHolds
        /\ \/ ClearSendPreview({}) /\ UNCHANGED form
           \/ \E a \in IF asked.form.max THEN Amounts ELSE {asked.form.amount}, f \in Fees :
                /\ preview' = [amount |-> a, fee |-> f,
                               payee |-> asked.form.payee, max |-> asked.form.max]
                /\ form' = [form EXCEPT !.max = asked.form.max, !.amount = a]
                /\ current' = current \ {"preview"}
                /\ UNCHANGED confirmation
  /\ UNCHANGED <<opened, route, prompt, core_route, disk, past, touched>>

--------------------------------------------------------------------------------
(* Review and authentication *)

\* send_confirmation_snapshot.
Snapshot ==
  IF /\ preview # None /\ form.payee # None
     /\ form.max \/ form.amount = preview.amount
  THEN [payee |-> form.payee, amount |-> preview.amount, fee |-> preview.fee,
        max |-> form.max, route |-> route, wallet |-> wallet]
  ELSE None

\* run_send: show the review; the button needs a previewed fee.
RunSend ==
  /\ opened /\ ~Busy /\ preview # None
  /\ confirmation' = Snapshot
  /\ UNCHANGED <<opened, form, route, preview, current, prompt, job, core, disk, past, touched>>

CancelReview ==
  /\ confirmation # None
  /\ confirmation' = None
  /\ UNCHANGED <<opened, form, route, preview, current, prompt, job, core, disk, past, touched>>

\* confirm_send, and run_confirmed_send up to the authentication: a review that no
\* longer matches is cleared; a task or scan under way or a short balance drops it;
\* else the platform prompts (a session without device authentication passes at once).
ConfirmSend ==
  /\ confirmation # None /\ prompt = None
  /\ \/ /\ Snapshot # confirmation
        /\ ClearSendPreview({})
        /\ UNCHANGED <<prompt, touched>>
     \/ /\ Snapshot = confirmation
        /\ confirmation' = None
        /\ UNCHANGED preview
        /\ \/ UNCHANGED <<current, prompt, touched>>
           \/ /\ opened /\ ~Busy
              /\ prompt' = [intent |-> confirmation, locked |-> FALSE]
              /\ current' = current \cup {"prompt"}
              /\ touched' = FALSE
  /\ UNCHANGED <<opened, form, route, job, core, disk, past>>

\* The code expects a prompt to run a nested event loop, so every handler may run
\* while one is up, except that the platform shows one prompt at a time.  This one:
\* refused, no active window, or the session it was asked in is gone.
AuthDenied ==
  /\ prompt # None
  /\ prompt' = None
  /\ current' = current \ {"prompt"} /\ touched' = FALSE
  /\ UNCHANGED <<opened, form, route, preview, confirmation, job, core, disk, past>>

\* Mutant: equal values are enough, whatever happened in between.
IntentUnchanged_by_value == Snapshot = prompt.intent

\* The full review is checked again after the prompt.
IntentUnchanged == Snapshot = prompt.intent /\ "prompt" \in current

AuthTooLate ==
  /\ prompt # None /\ opened /\ ~prompt.locked
  /\ ~IntentUnchanged
  /\ prompt' = None
  /\ ClearSendPreview({})
  /\ touched' = FALSE
  /\ UNCHANGED <<opened, form, route, job, core, disk, past>>

\* run_confirmed_send after the prompt.  SessionOperation::start asserts ~Busy.
\* An invalid route ends the operation at once, as a denial does.
StartSend ==
  /\ prompt # None /\ opened /\ ~prompt.locked
  /\ IntentUnchanged
  /\ prompt' = None
  /\ send_operation' = "Active" /\ task' = "load"
  /\ \E p \in Payments \ started :
       /\ review' = [intent |-> prompt.intent, payment |-> p]
       /\ started' = started \cup {p}
  /\ core_route' = route
  /\ current' = current \ {"prompt"} /\ touched' = FALSE
  /\ UNCHANGED <<opened, form, route, preview, confirmation, asked, tx, wallet,
                 disk, relayed, paid>>

--------------------------------------------------------------------------------
(* send_exact, send_max and recover_pending on their background thread *)

WorkerStep == UNCHANGED <<home, send_operation, asked, review, core, started, touched>>

\* Mutant: a journal that cannot be read counts as absent.
LoadJournal_unread_is_absent ==
  /\ task = "load"
  /\ \/ task' = "prepare" /\ review # None /\ UNCHANGED tx
     \/ task' = "resend" /\ journal # None /\ tx' = journal
     \/ task' = "failed" /\ review = None /\ UNCHANGED tx
  /\ UNCHANGED <<disk, relayed, paid>>
  /\ WorkerStep

\* recover_pending: an absent journal lets a send go on, a readable one is resent
\* first, and one that cannot be read or parsed stops everything.
LoadJournal ==
  /\ task = "load"
  /\ \/ /\ journal = None
        /\ task' = IF review = None THEN "failed" ELSE "prepare"
        /\ UNCHANGED tx
     \/ /\ journal # None
        /\ task' = "resend" /\ tx' = journal
     \/ task' = "failed" /\ UNCHANGED tx
  /\ UNCHANGED <<disk, relayed, paid>>
  /\ WorkerStep

\* Mutant: the network's fee is accepted whatever was approved.
Prepare_any_fee ==
  /\ task = "prepare"
  /\ \E a \in Amounts, f \in Fees :
       /\ review.intent.max \/ a = review.intent.amount
       /\ tx' = [payment |-> review.payment, wallet |-> wallet, amount |-> a, fee |-> f]
  /\ task' = "persist"
  /\ UNCHANGED <<disk, relayed, paid>>
  /\ WorkerStep

\* prepare_send_filtered or prepare_sweep_filtered, and with_approved_fee.
Prepare ==
  /\ task = "prepare"
  /\ \/ task' = "failed" /\ UNCHANGED tx
     \/ \E a \in IF review.intent.max THEN Amounts ELSE {review.intent.amount}, f \in Fees :
          /\ f <= review.intent.fee
          /\ tx' = [payment |-> review.payment, wallet |-> wallet,
                    amount |-> a, fee |-> f]
          /\ task' = "persist"
  /\ UNCHANGED <<disk, relayed, paid>>
  /\ WorkerStep

\* Mutant: a failed write is only reported.
Persist_unchecked ==
  /\ task = "persist"
  /\ journal' \in {journal, tx} /\ task' = "relay"
  /\ UNCHANGED <<tx, archived, relayed, paid>>
  /\ WorkerStep

\* save_pending_send replaces the file by a rename; an error after the rename
\* (the directory's fsync) is reported although the journal is written.
Persist ==
  /\ task = "persist"
  /\ \/ journal' = tx /\ task' \in {"relay", "failed"}
     \/ UNCHANGED journal /\ task' = "failed"
  /\ UNCHANGED <<tx, archived, relayed, paid>>
  /\ WorkerStep

\* relay_prepared, of an old journal or of the new one: accepted, accepted with the
\* answer lost, or not accepted.
Relay ==
  /\ task \in {"resend", "relay"}
  /\ \/ /\ relayed' = relayed \cup {tx.payment} /\ paid' = paid \cup {tx.payment}
        /\ task' = IF task = "resend" THEN "clear_old" ELSE "clear_new"
     \/ /\ relayed' \in {relayed, relayed \cup {tx.payment}}
        /\ task' = "failed"
        /\ UNCHANGED paid
  /\ UNCHANGED <<tx, disk>>
  /\ WorkerStep

\* clear_pending_send ignores an error.  A send that found an old journal stops.
ClearJournal ==
  /\ task \in {"clear_old", "clear_new"}
  /\ journal' \in {None, journal}
  /\ task' = IF task = "clear_old" THEN "failed" ELSE "sent"
  /\ UNCHANGED <<tx, archived, relayed, paid>>
  /\ WorkerStep

\* The completion of a send or a recovery; a sent payment also starts a scan.
OperationCompletes ==
  /\ task \in {"failed", "sent"}
  /\ FinishSendOperation
  /\ \/ /\ send_operation = "LockedActive" \/ review = None
        /\ UNCHANGED <<form, preview, current, confirmation, core_route>>
     \/ /\ send_operation = "Active" /\ review # None
        /\ ClearSendPreview({})
        /\ IF task = "sent"
           THEN /\ form' = [form EXCEPT !.max = FALSE]
                /\ core_route' \in {core_route, route}
           ELSE UNCHANGED <<form, core_route>>
  /\ UNCHANGED <<opened, route, prompt, disk, past, touched>>

--------------------------------------------------------------------------------
(* The session *)

\* recover_pending_send, at the end of every open.
RecoverPendingSend ==
  \/ UNCHANGED job
  \/ /\ journal # None
     /\ send_operation' = "Active" /\ task' = "load"
     /\ UNCHANGED <<asked, review, tx>>

\* open_with_mnemonic, of the stored wallet or of any seed in the restore form.
OpenWallet(w) ==
  /\ ~opened /\ ~Busy
  /\ opened' = TRUE /\ wallet' = w
  /\ core_route' \in {core_route, route}
  /\ RecoverPendingSend
  /\ UNCHANGED <<form, route, preview, current, confirmation, prompt, disk, past, touched>>

\* lock_wallet.
LockWallet ==
  /\ opened' = FALSE
  /\ form' = EmptyForm
  /\ ClearSendPreview({})
  /\ prompt' = IF prompt = None THEN None
               ELSE [prompt EXCEPT !.locked = TRUE]
  /\ touched' = (prompt # None)
  /\ send_operation' = IF Busy THEN "LockedActive" ELSE "Idle"
  /\ wallet' = IF Busy THEN wallet ELSE None
  /\ UNCHANGED <<route, task, asked, review, tx, core_route, past>>

Lock ==
  /\ opened
  /\ LockWallet
  /\ UNCHANGED disk

\* remove_stored_wallet: a lock only while a task runs; stopped when the journal
\* cannot be archived; else the journal is moved aside before anything is deleted.
RemoveStoredWallet ==
  /\ LockWallet
  /\ \/ Busy /\ UNCHANGED disk
     \/ /\ ~Busy
        /\ journal' = None
        /\ archived' = archived \cup ({journal} \ {None})

\* The process dies and is started again; unsaved route edits are lost.
Crash ==
  /\ opened' = FALSE /\ form' = EmptyForm
  /\ route' \in Routes /\ core_route' = route'
  /\ preview' = None /\ confirmation' = None /\ prompt' = None
  /\ send_operation' = "Idle" /\ task' = "none"
  /\ asked' = None /\ review' = None /\ tx' = None /\ wallet' = None
  /\ current' = {} /\ touched' = FALSE
  /\ UNCHANGED <<disk, past>>

Worker == LoadJournal \/ Prepare \/ Persist \/ Relay \/ ClearJournal

Next ==
  \/ EditForm \/ RateLost \/ EditRoute \/ ScanRoute
  \/ RunPreview \/ PreviewCompletes
  \/ RunSend \/ CancelReview \/ ConfirmSend \/ AuthDenied \/ AuthTooLate \/ StartSend
  \/ Worker \/ OperationCompletes
  \/ \E w \in Wallets : OpenWallet(w)
  \/ Lock \/ RemoveStoredWallet \/ Crash

Spec == Init /\ [][Next]_vars

\* Background tasks run and their completions are delivered; the network answers
\* or times out.  Nothing is assumed of the user.
FairSpec ==
  Spec /\ WF_vars(Worker) /\ WF_vars(PreviewCompletes) /\ WF_vars(OperationCompletes)

--------------------------------------------------------------------------------
(* Properties *)

\* A transaction that a send is about to write or relay is signed by the wallet the
\* review showed, for no more than its fee and, unless Send max, for its amount
\* (main.rs:2413-2500, send_flow.rs:72-136), whatever was edited, locked or opened
\* since the review.
AsReviewed ==
  (task \in {"persist", "relay", "clear_new"} /\ review # None) =>
    /\ tx.wallet = review.intent.wallet
    /\ tx.fee <= review.intent.fee
    /\ review.intent.max \/ tx.amount = review.intent.amount

\* Whatever the network may have taken without the app knowing is still on disk, in
\* the journal or archived with its wallet, through crashes, lost answers and failed
\* deletions (send_flow.rs:146-164).
Kept == {t.payment : t \in archived \cup ({journal} \ {None})}
PaymentRecoverable == relayed \subseteq paid \cup Kept

\* A fee on display was computed for the destination and amount now in the form:
\* a late completion never prices an edited payment (main.rs:2343-2352).
PreviewOfThisForm ==
  preview # None =>
    /\ form.payee = preview.payee /\ form.max = preview.max
    /\ form.max \/ form.amount \in {0, preview.amount}

\* A send starts only for a review nothing has touched since the user confirmed it,
\* edits under the authentication prompt, A to B to A edits and locks included, and
\* in the wallet and through the route reviewed (main.rs:2468-2478).
SendStarts == review = None /\ review' # None
ReviewHeldAtStart ==
  [][SendStarts => /\ ~touched
                   /\ review'.intent.wallet = wallet /\ review'.intent.route = route]_vars

\* The assertion of SessionOperation::start never fires (send_flow.rs:35-38): no send
\* begins over a preview or a recovery that began under its prompt.
SendStartsIdle == [][SendStarts => ~Busy]_vars

\* SendFlow keeps PaymentLedger's promise.
ledger ==
  [p \in Payments |->
     IF p \in paid THEN "paid" ELSE IF p \in Kept THEN "journalled"
     ELSE IF p \in started THEN "confirmed" ELSE "none"]
Ledger == INSTANCE PaymentLedger
  WITH Reviews <- Payments, payment <- ledger,
       held <- IF journal = None THEN None ELSE journal.payment
LedgerSpec == Ledger!Spec

\* Every preview, send and recovery ends, locked or not, so that a wallet can be
\* opened again (send_flow.rs:48-51).
OperationEnds == Busy ~> ~Busy

\* README.md:39 and the amount the review shows (main.rs:5629): a Send max, too, sends
\* the amount reviewed.
SweepAsReviewed ==
  (task \in {"persist", "relay"} /\ review # None) => tx.amount = review.intent.amount

\* main.rs:2471-2472: a send never adopts newly edited routing; what relays it still
\* has the proxy of the route reviewed.
RoutedAsReviewed ==
  (task = "relay" /\ review # None) => core_route = review.intent.route

\* README.md:41: a pending-send journal is never rebound to a replacement wallet.
JournalNotRebound == task = "resend" => tx.wallet = wallet
===============================================================================
