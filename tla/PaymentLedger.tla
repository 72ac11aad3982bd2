----------------------------- MODULE PaymentLedger -----------------------------
(***************************************************************************)
(* What SendFlow promises about payments.  A payment belongs to one review  *)
(* the user confirmed; it is written to the journal before it can reach the *)
(* network, only one payment is in the journal at a time, and it leaves it   *)
(* only when a node has accepted it or with the wallet it belongs to.        *)
(***************************************************************************)
CONSTANTS Reviews, None

VARIABLES
  payment,  \* per review: "none", "confirmed", "journalled" or "paid"
  held      \* the review whose payment the journal holds

vars == <<payment, held>>

Init ==
  /\ payment = [r \in Reviews |-> "none"]
  /\ held = None

Becomes(r, state) == payment' = [payment EXCEPT ![r] = state]

Confirm(r) == payment[r] = "none" /\ Becomes(r, "confirmed") /\ UNCHANGED held

Journal(r) ==
  /\ held = None /\ payment[r] = "confirmed"
  /\ held' = r /\ Becomes(r, "journalled")

Pay(r) == held = r /\ Becomes(r, "paid") /\ UNCHANGED held

Forget == held # None /\ payment[held] = "paid" /\ held' = None /\ UNCHANGED payment

Archive == held # None /\ held' = None /\ UNCHANGED payment

Next ==
  \/ \E r \in Reviews : Confirm(r) \/ Journal(r) \/ Pay(r)
  \/ Forget \/ Archive

Spec == Init /\ [][Next]_vars
================================================================================
