----------------------------- MODULE SendFlowProofs -----------------------------
(***************************************************************************)
(* Theorems about SendFlow: type correctness, that only what was reviewed   *)
(* is signed and relayed, that a payment the network may have is never      *)
(* forgotten, and that SendFlow implements PaymentLedger.                   *)
(***************************************************************************)
EXTENDS SendFlow, TLAPS

Sending == {"prepare", "persist", "relay", "clear_new", "sent"}
Fresh == {"load", "resend", "clear_old", "prepare", "persist"}

\* The operation, its task and what they captured go together; the session has a
\* wallet, and an operation keeps the one it started with.
JobInv ==
  /\ Busy <=> task # "none"
  /\ send_operation = "Active" => opened
  /\ send_operation = "LockedActive" => ~opened
  /\ opened => wallet # None
  /\ review # None => task \notin {"none", "preview"} /\ review.intent.wallet = wallet
  /\ task \in Sending => review # None

\* What a preview asks for is a payment.
AskedInv ==
  /\ task = "preview" => asked # None
  /\ asked # None => /\ asked.form.payee # None
                     /\ asked.form.max \/ asked.form.amount # 0

\* The transaction in hand and the journal: the journal holds what is relayed, and
\* nothing while a new transaction is prepared.
TxInv ==
  /\ task \in {"resend", "clear_old", "relay", "clear_new"} => tx # None /\ journal = tx
  /\ task \in {"prepare", "persist"} => journal = None
  /\ task \in {"clear_old", "clear_new"} => tx.payment \in paid
  /\ task \in {"persist", "relay", "clear_new"} =>
       tx # None /\ tx.payment = review.payment
  /\ AsReviewed

\* Payments: a send's own is fresh until its journal is written.
PayInv ==
  /\ PaymentRecoverable
  /\ paid \subseteq started
  /\ Kept \subseteq started
  /\ review # None => review.payment \in started
  /\ task \in Fresh /\ review # None => review.payment \notin paid \cup Kept

\* Captures that are still current: a preview's is of the payee now in the form, and
\* a prompt's belongs to an idle open session whose form only lost its rate.
FormInv ==
  /\ PreviewOfThisForm
  /\ "preview" \in current => task = "preview" /\ asked.form.payee = form.payee
  /\ "prompt" \in current =>
       /\ prompt # None /\ opened /\ ~Busy
       /\ touched => form.amount = 0 /\ ~form.max

IInv == TypeOK /\ JobInv /\ AskedInv /\ TxInv /\ PayInv /\ FormInv

--------------------------------------------------------------------------------
(* What the user does to the form, the route and the review, and what the worker  *)
(* does, leave the rest alone.                                                    *)

UserStep ==
  \/ EditForm \/ RateLost \/ EditRoute \/ ScanRoute
  \/ RunSend \/ CancelReview \/ ConfirmSend \/ AuthDenied \/ AuthTooLate

\* Editing and reviewing leave the session, the task, the disk and the payments alone.
LEMMA UserFrame ==
  ASSUME UserStep
  PROVE  UNCHANGED <<opened, job, wallet, disk, past>>
BY DEF UserStep, EditForm, RateLost, EditRoute, ScanRoute, RunSend, CancelReview,
       ConfirmSend, AuthDenied, AuthTooLate, home, job, core, disk, past

\* A step of the background task leaves Home and its own captures alone.
LEMMA WorkerFrame ==
  ASSUME Worker
  PROVE  UNCHANGED <<home, touched, send_operation, asked, review, core, started>>
BY DEF Worker, LoadJournal, Prepare, Persist, Relay, ClearJournal, WorkerStep

\* The cases of Next, with what the user edits and reviews as one.
LEMMA Steps ==
  ASSUME Next
  PROVE  \/ UserStep \/ RunPreview \/ PreviewCompletes \/ StartSend
         \/ Worker \/ OperationCompletes
         \/ \E w \in Wallets : OpenWallet(w)
         \/ Lock \/ RemoveStoredWallet \/ Crash
BY DEF Next, UserStep

--------------------------------------------------------------------------------
(* Type correctness *)

\* Every edit of a form is a form.
LEMMA FormEdits ==
  ASSUME NEW f \in Forms, NEW p \in Payees \cup {None}, NEW a \in Amounts \cup {0},
         NEW m \in BOOLEAN
  PROVE  /\ [f EXCEPT !.payee = p] \in Forms
         /\ [f EXCEPT !.amount = a] \in Forms
         /\ [f EXCEPT !.max = m, !.amount = a] \in Forms
         /\ [f EXCEPT !.amount = a, !.max = m] \in Forms
         /\ [payee |-> p, amount |-> a, max |-> m] \in Forms
BY DEF Forms

\* A confirmation that starts to wait is one that waits.
LEMMA PromptType ==
  ASSUME NEW i \in Intents
  PROVE  [intent |-> i, locked |-> FALSE] \in Prompts
BY DEF Prompts

\* TypeOK, for an edit of the form.
LEMMA EditFormType ==
  ASSUME TypeOK, EditForm
  PROVE  TypeOK'
<1>1. touched' \in BOOLEAN
  BY Zenon DEF EditForm
<1>2. form \in Forms
  BY DEF TypeOK
<1>3. form' \in Forms
  BY <1>2, FormEdits DEF EditForm
<1>4. QED
  BY <1>1, <1>3 DEF TypeOK, EditForm, ClearSendPreview, job, core, disk, past

\* TypeOK, for a preview's completion: what was asked is a payment.
LEMMA PreviewCompletesType ==
  ASSUME TypeOK, JobInv, AskedInv, PreviewCompletes
  PROVE  TypeOK'
<1>1. wallet' \in Wallets \cup {None}
  BY DEF TypeOK, PreviewCompletes, FinishSendOperation
<1>2. /\ form' \in Forms /\ preview' \in Previews \cup {None}
      /\ confirmation' \in Intents \cup {None}
      /\ current' \subseteq {"preview", "prompt"}
  <2>1. CASE UNCHANGED <<form, preview, confirmation>> /\ current' = current \ {"preview"}
    BY <2>1 DEF TypeOK
  <2>2. CASE ClearSendPreview({}) /\ UNCHANGED form
    BY <2>2 DEF TypeOK, ClearSendPreview
  <2>3. ASSUME NEW a \in IF asked.form.max THEN Amounts ELSE {asked.form.amount},
               NEW f \in Fees,
               preview' = [amount |-> a, fee |-> f,
                           payee |-> asked.form.payee, max |-> asked.form.max],
               form' = [form EXCEPT !.max = asked.form.max, !.amount = a],
               current' = current \ {"preview"},
               UNCHANGED confirmation
        PROVE  /\ form' \in Forms /\ preview' \in Previews \cup {None}
               /\ confirmation' \in Intents \cup {None}
               /\ current' \subseteq {"preview", "prompt"}
    <3>1. asked \in Questions /\ asked.form.payee \in Payees
      BY DEF TypeOK, AskedInv, PreviewCompletes, Questions, Forms
    <3>2. asked.form \in Forms /\ asked # None
      BY <3>1, DataAssumption DEF Questions
    <3>3. asked.form.max \in BOOLEAN /\ asked.form.amount \in Amounts \cup {0}
      BY <3>2 DEF Forms
    <3>4. a \in Amounts
      BY <3>2, <3>3 DEF AskedInv
    <3>5. form' \in Forms
      BY <2>3, <3>3, <3>4, FormEdits DEF TypeOK
    <3>6. preview' \in Previews
      BY <2>3, <3>1, <3>3, <3>4 DEF Previews
    <3>7. QED
      BY <2>3, <3>5, <3>6 DEF TypeOK
  <2>4. QED
    BY <2>1, <2>2, <2>3 DEF PreviewCompletes
<1>3. QED
  BY <1>1, <1>2 DEF TypeOK, PreviewCompletes, FinishSendOperation, disk, past

\* A snapshot of an open session is a review, or none.
LEMMA SnapshotType ==
  ASSUME TypeOK, JobInv, opened
  PROVE  Snapshot \in Intents \cup {None}
BY DEF TypeOK, JobInv, Snapshot, Intents, Forms, Previews

\* TypeOK, for a confirmation.
LEMMA ConfirmSendType ==
  ASSUME TypeOK, ConfirmSend
  PROVE  TypeOK'
<1>1. touched' \in BOOLEAN
  BY Zenon DEF TypeOK, ConfirmSend
<1>2. confirmation \in Intents
  BY DEF TypeOK, ConfirmSend
<1>3. prompt' \in Prompts \cup {None}
  BY <1>2, PromptType DEF TypeOK, ConfirmSend
<1>4. /\ preview' \in Previews \cup {None}
      /\ confirmation' \in Intents \cup {None}
      /\ current' \subseteq {"preview", "prompt"}
  BY DEF TypeOK, ConfirmSend, ClearSendPreview
<1>5. QED
  BY <1>1, <1>3, <1>4 DEF TypeOK, ConfirmSend, job, core, disk, past

\* TypeOK, for a prompt refused.
LEMMA AuthDeniedType ==
  ASSUME TypeOK, AuthDenied
  PROVE  TypeOK'
<1>1. touched' \in BOOLEAN
  BY Zenon DEF AuthDenied
<1>2. QED
  BY <1>1 DEF TypeOK, AuthDenied, job, core, disk, past

\* TypeOK, for a prompt that answers a changed review.
LEMMA AuthTooLateType ==
  ASSUME TypeOK, AuthTooLate
  PROVE  TypeOK'
<1>1. touched' \in BOOLEAN
  BY Zenon DEF AuthTooLate
<1>2. QED
  BY <1>1 DEF TypeOK, AuthTooLate, ClearSendPreview, job, core, disk, past

\* TypeOK, for the start of a send.
LEMMA StartSendType ==
  ASSUME TypeOK, StartSend
  PROVE  TypeOK'
<1>1. touched' \in BOOLEAN
  BY Zenon DEF StartSend
<1>2. prompt.intent \in Intents
  BY DEF TypeOK, StartSend, Prompts
<1>3. review' \in Reviews /\ started' \subseteq Payments
  BY <1>2 DEF TypeOK, StartSend, Reviews
<1>4. QED
  BY <1>1, <1>3 DEF TypeOK, StartSend, Running, disk

\* TypeOK, for the completion of a send or a recovery.
LEMMA OperationCompletesType ==
  ASSUME TypeOK, OperationCompletes
  PROVE  TypeOK'
<1>1. form' \in Forms
  BY DEF TypeOK, OperationCompletes, Forms
<1>2. /\ wallet' \in Wallets \cup {None} /\ core_route' \in Routes
      /\ preview' \in Previews \cup {None}
      /\ confirmation' \in Intents \cup {None}
      /\ current' \subseteq {"preview", "prompt"}
  BY DEF TypeOK, OperationCompletes, FinishSendOperation, ClearSendPreview
<1>3. QED
  BY <1>1, <1>2 DEF TypeOK, OperationCompletes, FinishSendOperation, disk, past

\* TypeOK, for the loss of a rate.
LEMMA RateLostType ==
  ASSUME TypeOK, RateLost
  PROVE  TypeOK'
<1>1. touched' \in BOOLEAN
  BY Zenon DEF RateLost
<1>2. form' \in Forms
  BY DEF TypeOK, RateLost, Forms
<1>3. QED
  BY <1>1, <1>2 DEF TypeOK, RateLost, job, core, disk, past

\* TypeOK, for the start of a preview.
LEMMA RunPreviewType ==
  ASSUME TypeOK, RunPreview
  PROVE  TypeOK'
<1>1. [form |-> form, route |-> route] \in Questions
  BY DEF TypeOK, Questions
<1>2. asked' \in Questions \cup {None} /\ core_route' \in Routes
  BY <1>1 DEF TypeOK, RunPreview, job
<1>3. QED
  BY <1>2 DEF TypeOK, RunPreview, ClearSendPreview, Running, job, disk, past

\* TypeOK, for the background task: it signs with the wallet of its review.
LEMMA WorkerType ==
  ASSUME TypeOK, JobInv, TxInv, Worker
  PROVE  TypeOK'
<1>1. UNCHANGED <<home, touched, send_operation, asked, review, core, started>>
  BY WorkerFrame
<1>2. task' \in Running \cup {"failed", "sent"}
  BY DEF Worker, LoadJournal, Prepare, Persist, Relay, ClearJournal, Running
<1>3. tx' \in Transactions \cup {None}
  <2>1. CASE Prepare
    <3>1. review \in Reviews /\ wallet \in Wallets
      BY <2>1, DataAssumption
      DEF Prepare, JobInv, Sending, TypeOK, Reviews, Intents
    <3>2. review.payment \in Payments /\ review.intent.amount \in Amounts
      BY <3>1 DEF Reviews, Intents
    <3>3. QED
      BY <2>1, <3>1, <3>2 DEF Prepare, TypeOK, Transactions
  <2>2. CASE LoadJournal \/ Persist \/ Relay \/ ClearJournal
    BY <2>2 DEF LoadJournal, Persist, Relay, ClearJournal, TypeOK
  <2>3. QED
    BY <2>1, <2>2 DEF Worker
<1>4. journal' \in Transactions \cup {None} /\ archived' = archived
  BY DEF Worker, LoadJournal, Prepare, Persist, Relay, ClearJournal, TypeOK, disk
<1>5. relayed' \subseteq Payments /\ paid' \subseteq Payments
  <2>1. CASE Relay
    <3>1. tx \in Transactions
      BY <2>1 DEF Relay, TxInv, TypeOK
    <3>2. QED
      BY <2>1, <3>1 DEF Relay, TypeOK, Transactions
  <2>2. CASE LoadJournal \/ Prepare \/ Persist \/ ClearJournal
    BY <2>2 DEF LoadJournal, Prepare, Persist, ClearJournal, TypeOK
  <2>3. QED
    BY <2>1, <2>2 DEF Worker
<1>6. QED
  BY <1>1, <1>2, <1>3, <1>4, <1>5 DEF TypeOK, home, core

\* TypeOK, for a lock and a removal.
LEMMA LockType ==
  ASSUME TypeOK, Lock \/ RemoveStoredWallet
  PROVE  TypeOK'
<1>1. LockWallet
  BY DEF Lock, RemoveStoredWallet
<1>2. touched' \in BOOLEAN
  BY <1>1, Zenon DEF LockWallet
<1>3. prompt' \in Prompts \cup {None}
  BY <1>1 DEF LockWallet, TypeOK, Prompts
<1>4. form' \in Forms
  BY <1>1 DEF LockWallet, EmptyForm, Forms
<1>5. journal' \in Transactions \cup {None} /\ archived' \subseteq Transactions
  BY DEF Lock, RemoveStoredWallet, TypeOK, disk
<1>6. QED
  BY <1>1, <1>2, <1>3, <1>4, <1>5 DEF LockWallet, ClearSendPreview, TypeOK, past

\* TypeOK is kept by every step.
LEMMA TypeStep ==
  ASSUME TypeOK, JobInv, AskedInv, TxInv, [Next]_vars
  PROVE  TypeOK'
<1>1. CASE EditForm
  BY <1>1, EditFormType
<1>2. CASE RateLost
  BY <1>2, RateLostType
<1>3. CASE EditRoute \/ ScanRoute
  BY <1>3 DEF EditRoute, ScanRoute, TypeOK, home, job, core, disk, past
<1>4. CASE RunPreview
  BY <1>4, RunPreviewType
<1>5. CASE PreviewCompletes
  BY <1>5, PreviewCompletesType
<1>6. CASE RunSend
  BY <1>6, SnapshotType DEF RunSend, TypeOK, job, core, disk, past
<1>7. CASE CancelReview
  BY <1>7 DEF CancelReview, TypeOK, job, core, disk, past
<1>8. CASE ConfirmSend
  BY <1>8, ConfirmSendType
<1>9. CASE AuthDenied
  BY <1>9, AuthDeniedType
<1>10. CASE AuthTooLate
  BY <1>10, AuthTooLateType
<1>11. CASE StartSend
  BY <1>11, StartSendType
<1>12. CASE Worker
  BY <1>12, WorkerType
<1>13. CASE OperationCompletes
  BY <1>13, OperationCompletesType
<1>14. ASSUME NEW w \in Wallets, OpenWallet(w) PROVE TypeOK'
  BY <1>14 DEF OpenWallet, RecoverPendingSend, TypeOK, Running, job, disk, past
<1>15. CASE Lock \/ RemoveStoredWallet
  BY <1>15, LockType
<1>16. CASE Crash
  BY <1>16 DEF Crash, EmptyForm, TypeOK, Forms, disk, past
<1>17. CASE UNCHANGED vars
  BY <1>17 DEF vars, TypeOK, home, job, core, disk, past
<1> QED
  BY <1>1, <1>2, <1>3, <1>4, <1>5, <1>6, <1>7, <1>8, <1>9, <1>10, <1>11, <1>12,
         <1>13, <1>14, <1>15, <1>16, <1>17
     DEF Next, Worker

--------------------------------------------------------------------------------
(* The steps of the other parts of the invariant *)

\* JobInv is kept by every step.
LEMMA JobStep ==
  ASSUME TypeOK, JobInv, FormInv, [Next]_vars
  PROVE  JobInv'
<1>1. CASE UserStep
  BY <1>1, UserFrame DEF JobInv, Busy, Sending, TypeOK, job, disk, past
<1>2. CASE RunPreview
  BY <1>2
     DEF RunPreview, ClearSendPreview, JobInv, Busy, Sending, TypeOK, job, disk, past
<1>3. CASE PreviewCompletes
  BY <1>3
     DEF PreviewCompletes, FinishSendOperation, JobInv, Busy, Sending, TypeOK, disk,
         past
<1>4. CASE StartSend
  BY <1>4, DataAssumption
     DEF StartSend, IntentUnchanged, Snapshot, FormInv, JobInv, Busy, Sending, TypeOK,
         Prompts, Reviews
<1>5. CASE Worker
  BY <1>5, WorkerFrame
     DEF Worker, LoadJournal, Prepare, Persist, Relay, ClearJournal, JobInv, Busy,
         Sending, TypeOK, home, core, disk
<1>6. CASE OperationCompletes
  BY <1>6
     DEF OperationCompletes, FinishSendOperation, JobInv, Busy, Sending, TypeOK, disk,
         past
<1>7. ASSUME NEW w \in Wallets, OpenWallet(w) PROVE JobInv'
  BY <1>7, DataAssumption
     DEF OpenWallet, RecoverPendingSend, JobInv, Busy, Sending, TypeOK, job, disk,
         past
<1>8. CASE Lock \/ RemoveStoredWallet
  BY <1>8
     DEF Lock, RemoveStoredWallet, LockWallet, ClearSendPreview, JobInv, Busy,
         Sending, TypeOK, disk, past
<1>9. CASE Crash
  BY <1>9 DEF Crash, JobInv, Busy, Sending, TypeOK, disk, past
<1>10. CASE UNCHANGED vars
  BY <1>10 DEF vars, JobInv, Busy, Sending, TypeOK, home, job, core, disk, past
<1> QED
  BY <1>1, <1>2, <1>3, <1>4, <1>5, <1>6, <1>7, <1>8, <1>9, <1>10, Steps

\* AskedInv is kept by every step.
LEMMA AskedStep ==
  ASSUME TypeOK, JobInv, AskedInv, [Next]_vars
  PROVE  AskedInv'
<1>1. CASE UserStep
  BY <1>1, UserFrame DEF AskedInv, Busy, JobInv, TypeOK, job, disk, past
<1>2. CASE RunPreview
  BY <1>2, DataAssumption
     DEF RunPreview, ClearSendPreview, AskedInv, Questions, TypeOK, job
<1>3. CASE PreviewCompletes
  BY <1>3
     DEF PreviewCompletes, FinishSendOperation, AskedInv, Busy, JobInv, TypeOK, disk,
         past
<1>4. CASE StartSend
  BY <1>4 DEF StartSend, AskedInv, Busy, JobInv, TypeOK, disk
<1>5. CASE Worker
  BY <1>5, WorkerFrame
     DEF Worker, LoadJournal, Prepare, Persist, Relay, ClearJournal, AskedInv, Busy,
         JobInv, TypeOK, home, core, disk
<1>6. CASE OperationCompletes
  BY <1>6 DEF OperationCompletes, FinishSendOperation, AskedInv
<1>7. ASSUME NEW w \in Wallets, OpenWallet(w) PROVE AskedInv'
  BY <1>7
     DEF OpenWallet, RecoverPendingSend, AskedInv, Busy, JobInv, TypeOK, job, disk,
         past
<1>8. CASE Lock \/ RemoveStoredWallet
  BY <1>8
     DEF Lock, RemoveStoredWallet, LockWallet, ClearSendPreview, AskedInv, Busy,
         JobInv, TypeOK, disk, past
<1>9. CASE Crash
  BY <1>9 DEF Crash, AskedInv, Busy, JobInv, TypeOK, disk, past
<1>10. CASE UNCHANGED vars
  BY <1>10 DEF vars, AskedInv, Busy, JobInv, TypeOK, home, job, core, disk, past
<1> QED
  BY <1>1, <1>2, <1>3, <1>4, <1>5, <1>6, <1>7, <1>8, <1>9, <1>10, Steps

\* TxInv is kept by every step.
LEMMA TxStep ==
  ASSUME TypeOK, JobInv, TxInv, PayInv, [Next]_vars
  PROVE  TxInv'
<1>1. CASE UserStep
  BY <1>1, UserFrame DEF TxInv, AsReviewed, JobInv, Busy, Sending, job, disk, past
<1>2. CASE RunPreview
  BY <1>2
     DEF RunPreview, ClearSendPreview, TxInv, AsReviewed, JobInv, Busy, Sending, job,
         disk, past
<1>3. CASE PreviewCompletes
  BY <1>3
     DEF PreviewCompletes, FinishSendOperation, TxInv, AsReviewed, JobInv, Busy,
         Sending, disk, past
<1>4. CASE StartSend
  BY <1>4 DEF StartSend, TxInv, AsReviewed, JobInv, Busy, Sending, disk
<1>5. CASE Worker
  BY <1>5, DataAssumption
     DEF Worker, LoadJournal, Prepare, Persist, Relay, ClearJournal, WorkerStep,
         TxInv, AsReviewed, JobInv, Sending, TypeOK, Reviews, Intents, Transactions, disk,
         core
<1>6. CASE OperationCompletes
  BY <1>6
     DEF OperationCompletes, FinishSendOperation, TxInv, AsReviewed, JobInv, Busy,
         Sending, disk, past
<1>7. ASSUME NEW w \in Wallets, OpenWallet(w) PROVE TxInv'
  BY <1>7
     DEF OpenWallet, RecoverPendingSend, TxInv, AsReviewed, JobInv, Busy, Sending,
         job, disk, past
<1>8. CASE Lock \/ RemoveStoredWallet
  BY <1>8
     DEF Lock, RemoveStoredWallet, LockWallet, ClearSendPreview, TxInv, AsReviewed,
         JobInv, Busy, Sending, disk, past
<1>9. CASE Crash
  BY <1>9 DEF Crash, TxInv, AsReviewed, JobInv, Busy, Sending, disk, past
<1>10. CASE UNCHANGED vars
  BY <1>10
     DEF vars, TxInv, AsReviewed, JobInv, Busy, Sending, home, job, core, disk, past
<1> QED
  BY <1>1, <1>2, <1>3, <1>4, <1>5, <1>6, <1>7, <1>8, <1>9, <1>10, Steps

\* PayInv is kept by every step.
LEMMA PayStep ==
  ASSUME TypeOK, JobInv, TxInv, PayInv, [Next]_vars
  PROVE  PayInv'
<1>1. CASE UserStep
  BY <1>1, UserFrame
     DEF PayInv, PaymentRecoverable, Kept, Fresh, TxInv, JobInv, Busy, job, disk, past
<1>2. CASE RunPreview
  BY <1>2
     DEF RunPreview, ClearSendPreview, PayInv, PaymentRecoverable, Kept, Fresh, TxInv,
         JobInv, Busy, job, disk, past
<1>3. CASE PreviewCompletes
  BY <1>3
     DEF PreviewCompletes, FinishSendOperation, PayInv, PaymentRecoverable, Kept,
         Fresh, TxInv, JobInv, Busy, disk, past
<1>4. CASE StartSend
  BY <1>4, DataAssumption
     DEF StartSend, PayInv, PaymentRecoverable, Kept, Fresh, TypeOK, Prompts, Reviews,
         disk
<1>5. CASE Worker
  BY <1>5, DataAssumption
     DEF Worker, LoadJournal, Prepare, Persist, Relay, ClearJournal, WorkerStep,
         PayInv, PaymentRecoverable, Kept, Fresh, TxInv, JobInv, Sending, TypeOK,
         Transactions, disk
<1>6. CASE OperationCompletes
  BY <1>6
     DEF OperationCompletes, FinishSendOperation, PayInv, PaymentRecoverable, Kept,
         Fresh, TxInv, JobInv, Busy, disk, past
<1>7. ASSUME NEW w \in Wallets, OpenWallet(w) PROVE PayInv'
  BY <1>7
     DEF OpenWallet, RecoverPendingSend, PayInv, PaymentRecoverable, Kept, Fresh,
         TxInv, JobInv, Busy, job, disk, past
<1>8. CASE Lock \/ RemoveStoredWallet
  BY <1>8
     DEF Lock, RemoveStoredWallet, LockWallet, ClearSendPreview, PayInv,
         PaymentRecoverable, Kept, Fresh, TxInv, JobInv, Busy, disk, past
<1>9. CASE Crash
  BY <1>9
     DEF Crash, PayInv, PaymentRecoverable, Kept, Fresh, TxInv, JobInv, Busy, disk,
         past
<1>10. CASE UNCHANGED vars
  BY <1>10
     DEF vars, PayInv, PaymentRecoverable, Kept, Fresh, TxInv, JobInv, Busy, home,
         job, core, disk, past
<1> QED
  BY <1>1, <1>2, <1>3, <1>4, <1>5, <1>6, <1>7, <1>8, <1>9, <1>10, Steps

\* FormInv, for a confirmation: its prompt starts untouched in an idle session.
LEMMA ConfirmSendForm ==
  ASSUME TypeOK, FormInv, ConfirmSend
  PROVE  FormInv'
<1>1. confirmation \in Intents
  BY DEF TypeOK, ConfirmSend
<1>2. [intent |-> confirmation, locked |-> FALSE] \in Prompts
  BY <1>1, PromptType
<1>3. "prompt" \notin current
  BY DEF ConfirmSend, FormInv
<1>4. PreviewOfThisForm'
  BY DEF ConfirmSend, ClearSendPreview, FormInv, PreviewOfThisForm
<1>5. "prompt" \in current' =>
        /\ opened' /\ ~Busy' /\ prompt' \in Prompts /\ ~touched'
  BY <1>2, <1>3 DEF ConfirmSend, ClearSendPreview, Busy, job
<1>6. "preview" \in current' => "preview" \in current /\ UNCHANGED <<task, asked, form>>
  BY DEF ConfirmSend, ClearSendPreview, job
<1>7. QED
  BY <1>4, <1>5, <1>6, DataAssumption DEF FormInv

\* FormInv, for a preview's completion: the price is of the form it was asked for.
LEMMA PreviewCompletesForm ==
  ASSUME TypeOK, JobInv, AskedInv, FormInv, PreviewCompletes
  PROVE  FormInv'
<1>1. "prompt" \notin current
  BY DEF PreviewCompletes, JobInv, FormInv
<1>2. current' = {}
  BY <1>1 DEF PreviewCompletes, ClearSendPreview, TypeOK
<1>3. PreviewOfThisForm'
  <2>1. CASE UNCHANGED <<form, preview, confirmation>>
    BY <2>1 DEF FormInv, PreviewOfThisForm
  <2>2. CASE ClearSendPreview({})
    BY <2>2 DEF ClearSendPreview, PreviewOfThisForm
  <2>3. ASSUME AskedStillHolds, NEW a, NEW f,
               preview' = [amount |-> a, fee |-> f,
                           payee |-> asked.form.payee, max |-> asked.form.max],
               form' = [form EXCEPT !.max = asked.form.max, !.amount = a]
        PROVE  PreviewOfThisForm'
    BY <2>3 DEF AskedStillHolds, FormInv, PreviewOfThisForm, TypeOK, Forms
  <2>4. QED
    BY <2>1, <2>2, <2>3 DEF PreviewCompletes
<1>4. QED
  BY <1>2, <1>3 DEF FormInv

\* FormInv is kept by every step.
LEMMA FormStep ==
  ASSUME TypeOK, JobInv, AskedInv, FormInv, [Next]_vars
  PROVE  FormInv'
<1>1. CASE EditForm
  BY <1>1 DEF EditForm, ClearSendPreview, FormInv, PreviewOfThisForm
<1>2. CASE RateLost
  BY <1>2 DEF RateLost, FormInv, PreviewOfThisForm, Busy, TypeOK, Forms, job
<1>3. CASE EditRoute \/ ScanRoute
  BY <1>3 DEF EditRoute, ScanRoute, FormInv, PreviewOfThisForm, Busy, home, job
<1>4. CASE RunPreview
  BY <1>4 DEF RunPreview, ClearSendPreview, FormInv, PreviewOfThisForm, Busy, job
<1>5. CASE PreviewCompletes
  BY <1>5, PreviewCompletesForm
<1>6. CASE RunSend \/ CancelReview
  BY <1>6 DEF RunSend, CancelReview, FormInv, PreviewOfThisForm, Busy, job
<1>7. CASE ConfirmSend
  BY <1>7, ConfirmSendForm
<1>8. CASE AuthDenied
  BY <1>8 DEF AuthDenied, FormInv, PreviewOfThisForm, Busy, job
<1>9. CASE AuthTooLate
  BY <1>9 DEF AuthTooLate, ClearSendPreview, FormInv, PreviewOfThisForm, Busy, job
<1>10. CASE StartSend
  BY <1>10 DEF StartSend, IntentUnchanged, FormInv, JobInv, PreviewOfThisForm, Busy
<1>11. CASE Worker
  BY <1>11, WorkerFrame
     DEF Worker, LoadJournal, Prepare, Persist, Relay, ClearJournal, FormInv,
         PreviewOfThisForm, Busy, home
<1>12. CASE OperationCompletes
  BY <1>12
     DEF OperationCompletes, FinishSendOperation, ClearSendPreview, FormInv, JobInv,
         PreviewOfThisForm, Busy, TypeOK, Forms
<1>13. ASSUME NEW w \in Wallets, OpenWallet(w) PROVE FormInv'
  BY <1>13
     DEF OpenWallet, RecoverPendingSend, FormInv, JobInv, PreviewOfThisForm, Busy, job
<1>14. CASE Lock \/ RemoveStoredWallet
  BY <1>14
     DEF Lock, RemoveStoredWallet, LockWallet, ClearSendPreview, FormInv,
         PreviewOfThisForm
<1>15. CASE Crash
  BY <1>15 DEF Crash, FormInv, PreviewOfThisForm
<1>16. CASE UNCHANGED vars
  BY <1>16 DEF vars, FormInv, PreviewOfThisForm, Busy, home, job
<1> QED
  BY <1>1, <1>2, <1>3, <1>4, <1>5, <1>6, <1>7, <1>8, <1>9, <1>10, <1>11, <1>12,
         <1>13, <1>14, <1>15, <1>16
     DEF Next

--------------------------------------------------------------------------------
(* Theorems *)

\* The inductive invariant holds in every state.
LEMMA Invariant == Spec => []IInv
<1>1. Init => IInv
  <2> SUFFICES ASSUME Init PROVE IInv
    OBVIOUS
  <2>1. form \in Forms
    BY DEF Init, EmptyForm, Forms
  <2>2. TypeOK
    BY <2>1 DEF Init, TypeOK
  <2>3. JobInv /\ AskedInv /\ TxInv
    BY DEF Init, JobInv, Busy, Sending, AskedInv, TxInv, AsReviewed
  <2>4. PayInv
    BY DEF Init, PayInv, PaymentRecoverable, Kept, Fresh
  <2>5. FormInv
    BY DEF Init, FormInv, PreviewOfThisForm
  <2>6. QED
    BY <2>2, <2>3, <2>4, <2>5 DEF IInv
<1>2. IInv /\ [Next]_vars => IInv'
  BY TypeStep, JobStep, AskedStep, TxStep, PayStep, FormStep DEF IInv
<1>3. QED
  BY <1>1, <1>2, PTL DEF Spec

\* Every variable keeps its kind, for any wallets, routes, amounts and payments.
THEOREM TypeCorrect == Spec => []TypeOK
BY Invariant, PTL DEF IInv

\* What a send signs and relays is what was reviewed (main.rs:2413-2500).
THEOREM SignsReviewed == Spec => []AsReviewed
BY Invariant, PTL DEF IInv, TxInv

\* A payment the network may have is on disk until it is known to be paid
\* (send_flow.rs:146-164), through crashes and failures of every kind modelled.
THEOREM NeverForgotten == Spec => []PaymentRecoverable
BY Invariant, PTL DEF IInv, PayInv

\* A fee on display belongs to the form it is shown with (main.rs:2343-2352).
THEOREM PreviewFits == Spec => []PreviewOfThisForm
BY Invariant, PTL DEF IInv, FormInv

\* Only the prompt's positive answer starts a send.
LEMMA OnlyStartSendStarts ==
  ASSUME IInv, [Next]_vars, SendStarts
  PROVE  StartSend
<1>1. review # review'
  BY DEF SendStarts
<1>2. ~UserStep
  BY <1>1, UserFrame DEF job
<1>3. ~Worker
  BY <1>1, WorkerFrame
<1>4. ~RunPreview /\ ~PreviewCompletes /\ ~OperationCompletes /\ ~Crash
  BY <1>1 DEF SendStarts, RunPreview, PreviewCompletes, OperationCompletes,
              FinishSendOperation, Crash, job
<1>5. ~Lock /\ ~RemoveStoredWallet /\ ~(\E w \in Wallets : OpenWallet(w))
  BY <1>1 DEF Lock, RemoveStoredWallet, LockWallet, OpenWallet, RecoverPendingSend, job
<1>6. ~UNCHANGED vars
  BY <1>1 DEF vars, job
<1>7. QED
  BY <1>2, <1>3, <1>4, <1>5, <1>6, Steps

\* What the prompt's answer finds when a send starts.
LEMMA StartFindsReview ==
  ASSUME IInv, StartSend
  PROVE  /\ ~touched /\ ~Busy
         /\ review'.intent.wallet = wallet /\ review'.intent.route = route
<1>1. prompt \in Prompts /\ prompt.intent \in Intents
  BY DEF IInv, TypeOK, StartSend, Prompts
<1>2. /\ preview # None
      /\ form.max \/ form.amount = preview.amount
      /\ prompt.intent.wallet = wallet /\ prompt.intent.route = route
  BY <1>1, DataAssumption DEF StartSend, IntentUnchanged, Snapshot
<1>3. preview.amount # 0
  <2>1. preview.amount \in Amounts
    BY <1>2 DEF IInv, TypeOK, Previews
  <2>2. QED
    BY <2>1, DataAssumption
<1>4. review'.intent = prompt.intent
  BY DEF StartSend
<1>5. QED
  BY <1>2, <1>3, <1>4 DEF StartSend, IntentUnchanged, IInv, FormInv

\* A send starts only for an untouched review, in its wallet and through its route
\* (main.rs:2468-2478).
THEOREM ReviewHolds == Spec => ReviewHeldAtStart
<1>1. IInv /\ [Next]_vars =>
        [SendStarts => /\ ~touched
                       /\ review'.intent.wallet = wallet
                       /\ review'.intent.route = route]_vars
  BY OnlyStartSendStarts, StartFindsReview
<1>2. QED
  BY <1>1, Invariant, PTL DEF Spec, ReviewHeldAtStart

\* The assertion of SessionOperation::start holds when a send starts
\* (send_flow.rs:35-38).
THEOREM StartsIdle == Spec => SendStartsIdle
<1>1. IInv /\ [Next]_vars => [SendStarts => ~Busy]_vars
  BY OnlyStartSendStarts, StartFindsReview
<1>2. QED
  BY <1>1, Invariant, PTL DEF Spec, SendStartsIdle

--------------------------------------------------------------------------------
(* Refinement *)

held == IF journal = None THEN None ELSE journal.payment

\* Steps that touch neither the disk nor the payments.
LEMMA LedgerStutters ==
  ASSUME UNCHANGED <<journal, archived, started, paid>>
  PROVE  UNCHANGED <<ledger, held>>
BY DEF ledger, Kept, held

\* The start of a send confirms a payment in the ledger.
LEMMA LedgerStart ==
  ASSUME IInv, StartSend
  PROVE  \E p \in Payments : Ledger!Confirm(p)
<1>1. PICK p \in Payments \ started :
         started' = started \cup {p} /\ UNCHANGED <<disk, paid>>
  BY DEF StartSend
<1>2. ledger[p] = "none" /\ p \notin paid \cup Kept
  BY <1>1 DEF ledger, IInv, PayInv
<1>3. ledger' = [ledger EXCEPT ![p] = "confirmed"]
  BY <1>1, <1>2 DEF ledger, Kept, disk
<1>4. QED
  BY <1>1, <1>2, <1>3 DEF Ledger!Confirm, Ledger!Becomes, disk

\* Writing the journal journals the payment, if it was written.
LEMMA LedgerPersist ==
  ASSUME IInv, Persist
  PROVE  \/ \E p \in Payments : Ledger!Journal(p)
         \/ UNCHANGED <<ledger, held>>
<1>1. CASE UNCHANGED journal
  BY <1>1, LedgerStutters DEF Persist, WorkerStep
<1>2. CASE journal' = tx
  <2> DEFINE p == tx.payment
  <2>1. /\ tx \in Transactions /\ tx # None /\ p \in Payments
        /\ journal = None /\ review # None /\ p = review.payment
    BY DEF IInv, TypeOK, TxInv, JobInv, Sending, Persist, Transactions
  <2>2. p \in started /\ p \notin paid \cup Kept
    BY <2>1 DEF IInv, PayInv, Fresh, Persist
  <2>3. Kept' = Kept \cup {p} /\ UNCHANGED <<paid, started>>
    BY <1>2, <2>1 DEF Kept, Persist, WorkerStep
  <2>4. ledger[p] = "confirmed"
    BY <2>1, <2>2 DEF ledger
  <2>5. ledger' = [ledger EXCEPT ![p] = "journalled"]
    BY <2>1, <2>2, <2>3 DEF ledger
  <2>6. Ledger!Journal(p)
    BY <1>2, <2>1, <2>4, <2>5, DataAssumption DEF Ledger!Journal, Ledger!Becomes
  <2>7. QED
    BY <2>1, <2>6
<1>3. QED
  BY <1>1, <1>2 DEF Persist

\* An acknowledged relay pays, any other changes nothing the ledger sees.
LEMMA LedgerRelay ==
  ASSUME IInv, Relay
  PROVE  \/ \E p \in Payments : Ledger!Pay(p)
         \/ UNCHANGED <<ledger, held>>
<1>1. CASE UNCHANGED paid
  BY <1>1, LedgerStutters DEF Relay, WorkerStep, disk
<1>2. CASE paid' = paid \cup {tx.payment}
  <2>1. tx # None /\ journal = tx /\ tx.payment \in Payments
    BY DEF IInv, TxInv, Relay, TypeOK, Transactions
  <2>2. ledger' = [ledger EXCEPT ![tx.payment] = "paid"]
    BY <1>2, <2>1 DEF ledger, Kept, Relay, WorkerStep, disk
  <2>3. QED
    BY <2>1, <2>2 DEF Ledger!Pay, Ledger!Becomes, Relay, disk
<1>3. QED
  BY <1>1, <1>2 DEF Relay

\* A journal is cleared only after its payment is paid.
LEMMA LedgerClear ==
  ASSUME IInv, ClearJournal
  PROVE  Ledger!Forget \/ UNCHANGED <<ledger, held>>
<1>1. CASE UNCHANGED journal
  BY <1>1, LedgerStutters DEF ClearJournal, WorkerStep
<1>2. CASE journal' = None
  <2>1. tx # None /\ journal = tx /\ tx.payment \in Payments \cap paid
    BY DEF IInv, TxInv, ClearJournal, TypeOK, Transactions
  <2>2. Kept \subseteq Kept' \cup {tx.payment} /\ Kept' \subseteq Kept
    BY <1>2, <2>1 DEF Kept, ClearJournal
  <2>3. UNCHANGED ledger
    BY <2>1, <2>2 DEF ledger, ClearJournal, WorkerStep
  <2>4. ledger[tx.payment] = "paid" /\ tx.payment # None
    BY <2>1, DataAssumption DEF ledger
  <2>5. QED
    BY <1>2, <2>1, <2>3, <2>4 DEF Ledger!Forget
<1>3. QED
  BY <1>1, <1>2 DEF ClearJournal

\* A removal moves the journal aside and the ledger lets go of it.
LEMMA LedgerArchive ==
  ASSUME IInv, RemoveStoredWallet
  PROVE  Ledger!Archive \/ UNCHANGED <<ledger, held>>
<1>1. UNCHANGED <<started, paid>>
  BY DEF RemoveStoredWallet, LockWallet, past
<1>2. CASE UNCHANGED disk
  BY <1>1, <1>2, LedgerStutters DEF disk
<1>3. CASE journal' = None /\ archived' = archived \cup ({journal} \ {None})
  <2>1. Kept' = Kept
    BY <1>3 DEF Kept
  <2>2. UNCHANGED ledger
    BY <1>1, <2>1 DEF ledger
  <2>3. CASE journal = None
    BY <1>3, <2>2, <2>3 DEF held
  <2>4. CASE journal # None
    <3>1. journal.payment # None
      BY <2>4, DataAssumption DEF IInv, TypeOK, Transactions
    <3>2. QED
      BY <1>3, <2>2, <2>4, <3>1 DEF Ledger!Archive
  <2>5. QED
    BY <2>3, <2>4
<1>4. QED
  BY <1>2, <1>3 DEF RemoveStoredWallet

\* SendFlow implements PaymentLedger: a payment is journalled before it can be paid,
\* one at a time, and is forgotten only when it is paid or moved with its wallet.
THEOREM ImplementsLedger == Spec => LedgerSpec
<1>1. Init => Ledger!Init
  BY DEF Init, Ledger!Init, ledger, Kept
<1>2. IInv /\ [Next]_vars => [Ledger!Next]_(Ledger!vars)
  <2> SUFFICES ASSUME IInv, [Next]_vars
               PROVE  Ledger!Next \/ UNCHANGED <<ledger, held>>
    BY DEF Ledger!vars, held
  <2>1. CASE UserStep \/ RunPreview \/ PreviewCompletes \/ OperationCompletes \/ Lock
             \/ Crash \/ UNCHANGED vars \/ (\E w \in Wallets : OpenWallet(w))
    <3>1. UNCHANGED <<journal, archived, started, paid>>
      BY <2>1, UserFrame DEF RunPreview, PreviewCompletes, OperationCompletes, Lock,
         LockWallet, Crash, OpenWallet, vars, disk, past
    <3>2. QED
      BY <3>1, LedgerStutters
  <2>2. CASE StartSend
    BY <2>2, LedgerStart DEF Ledger!Next
  <2>3. CASE Persist
    BY <2>3, LedgerPersist DEF Ledger!Next
  <2>4. CASE Relay
    BY <2>4, LedgerRelay DEF Ledger!Next
  <2>5. CASE ClearJournal
    BY <2>5, LedgerClear DEF Ledger!Next
  <2>6. CASE LoadJournal \/ Prepare
    BY <2>6, LedgerStutters DEF LoadJournal, Prepare, WorkerStep, disk
  <2>7. CASE RemoveStoredWallet
    BY <2>7, LedgerArchive DEF Ledger!Next
  <2>8. QED
    BY Steps, <2>1, <2>2, <2>6, <2>3, <2>4, <2>5, <2>7 DEF Worker
<1>3. QED
  BY <1>1, <1>2, Invariant, PTL DEF Spec, LedgerSpec, Ledger!Spec
===============================================================================
