------------------------------- MODULE SlotLease -------------------------------
(***************************************************************************)
(* What SessionLock promises about the one native wallet slot, told as a    *)
(* lease.  Whoever holds the lease may touch the keys: the open session, an *)
(* operation that outlived its session, or the teardown.  A wallet enters   *)
(* only a slot no operation and no teardown holds; while the session is     *)
(* hidden keys only leave; and the teardown gives the slot back only empty. *)
(* "orphan" is a slot that an open left filled when it failed half way.     *)
(***************************************************************************)
CONSTANTS Wallets, NoWallet

VARIABLES lease, authority, wallet

vars == <<lease, authority, wallet>>
keys == <<authority, wallet>>

Init == lease = "free" /\ authority = "none" /\ wallet = NoWallet

Fill == authority' = "spend" /\ \E w \in Wallets : wallet' = w
Empty == authority' = "none" /\ wallet' = NoWallet

Available == lease \in {"free", "orphan", "session"}

Open == Available /\ Fill /\ lease' = "session"

AbandonOpen ==
  /\ Available
  /\ \/ Fill /\ lease' = (IF lease = "session" THEN "session" ELSE "orphan")
     \/ Empty /\ lease' = (IF lease = "session" THEN "session" ELSE "free")

Hide == lease = "session" /\ lease' \in {"operation", "teardown"} /\ UNCHANGED keys

Reclaim ==
  lease \in {"free", "orphan", "operation"} /\ lease' = "teardown" /\ UNCHANGED keys

Strip ==
  /\ lease = "teardown" /\ lease' = lease
  /\ authority # "none"
  /\ (authority' = "view" /\ wallet' = wallet) \/ Empty

Release ==
  lease = "teardown" /\ authority = "none" /\ lease' = "free" /\ UNCHANGED keys

Next == Open \/ AbandonOpen \/ Hide \/ Reclaim \/ Strip \/ Release

Spec == Init /\ [][Next]_vars
================================================================================
