---------------------------- MODULE MCSessionLock ----------------------------
(* Small instances of SessionLock for TLC. *)
EXTENDS SessionLock

CONSTANTS w1, w2, t1, t2, t3, t4

TwoWallets == {w1, w2}
OneWallet == {w1}
FourTokens == {t1, t2, t3, t4}
ThreeTokens == {t1, t2, t3}

\* A lock takes one of the free tokens, and nothing tells those apart: whichever it
\* takes, the behaviours that follow differ in names only.
OneFreeToken ==
  generation' # generation => generation' = CHOOSE t \in FreeTokens : TRUE

\* One wallet is stored and the other one typed, so that every confusion of the two
\* is one of a stored and a typed wallet.
TypedIsNotStored == seed # w1 /\ stored # w2
================================================================================
