------------------------------- MODULE SeedVault -------------------------------
(***************************************************************************)
(* What StoredSeed promises about the recovery phrases on this computer,     *)
(* told as a vault that holds a set of them.  A phrase enters the vault only *)
(* as that of the wallet being open; it leaves only for such a phrase, which *)
(* is then inside, or in a removal; a reported removal leaves the vault      *)
(* empty, and empty it stays until a wallet is stored.  Which of the two     *)
(* Keychain items holds a phrase, and any move between them, is not seen.    *)
(* A handler that changes the items under a migrating unlock voids all this. *)
(***************************************************************************)
CONSTANTS Seeds, NoSeed

VARIABLES
  held,      \* the phrases inside
  session,   \* that of the open wallet
  removed,   \* the user was told that the wallet is removed
  raced      \* the promise is void

vars == <<held, session, removed, raced>>

Init ==
  /\ \E s \in Seeds \cup {NoSeed} : held = {s} \ {NoSeed}
  /\ session = NoSeed /\ removed = FALSE /\ raced = FALSE

\* An opened wallet is stored, or stored anew, with at most one other phrase left
\* beside it by a write that failed; or nothing was written.
Store(s) ==
  /\ session' = s /\ UNCHANGED raced
  /\ \/ UNCHANGED <<held, removed>>
     \/ held' \in {{s}} \cup {{s, t} : t \in held} /\ removed' = FALSE

Close == session' = NoSeed /\ UNCHANGED <<held, removed, raced>>

\* A removal, reported only when it is complete.
Remove ==
  /\ session' = NoSeed /\ UNCHANGED raced
  /\ held' \subseteq held /\ removed' \in BOOLEAN /\ (removed' => held' = {})

Void ==
  /\ raced' = TRUE
  /\ held' \subseteq Seeds /\ session' \in Seeds \cup {NoSeed} /\ removed' \in BOOLEAN

Next == (\E s \in Seeds : Store(s)) \/ Close \/ Remove \/ Void

Spec == Init /\ [][Next]_vars
================================================================================
