----------------------------- MODULE RestoreForm -----------------------------
(***************************************************************************)
(* The form that opens a wallet from a phrase (src/src/main.rs): creating a  *)
(* seed behind the backup check of src/src/seed_backup.rs, importing one,    *)
(* and the restore height, which a background request to the node            *)
(* (src/src/daemon.rs) may fill in while the user goes on editing.           *)
(*                                                                         *)
(* Phrases are whole; a phrase being typed is an imported one.  The height   *)
(* field holds 0, the fast height near the node's tip, or any other number.  *)
(***************************************************************************)
EXTENDS FiniteSets

CONSTANTS
  Fresh,      \* phrases the application generates
  Owned,      \* phrases the user already has
  NoPhrase

ASSUME PhraseAssumption == NoPhrase \notin Fresh \cup Owned /\ Fresh \cap Owned = {}

VARIABLES
  form,       \* seed, created_seed, wrote_seed_down, the phrase whose words are
              \* answered, restore_height_text
  fetching,   \* height_fetching
  session,    \* the open wallet's phrase and restore height
  edited      \* auxiliary: the generated phrases that went through the seed field

restoreVars == <<form, fetching, session, edited>>

Phrases == Fresh \cup Owned
Heights == {"zero", "tip", "other"}
Forms == [seed : Phrases \cup {NoPhrase}, created : BOOLEAN, wrote : BOOLEAN,
          answered : Phrases \cup {NoPhrase}, height : Heights]
Closed == [seed |-> NoPhrase, height |-> "zero"]

RestoreInit ==
  /\ \E h \in {"zero", "other"} :   \* the stored wallet's height, if there is one
       form = [seed |-> NoPhrase, created |-> FALSE, wrote |-> FALSE,
               answered |-> NoPhrase, height |-> h]
  /\ fetching = FALSE /\ session = Closed /\ edited = {}

IsOpen == session.seed # NoPhrase

\* mark_imported_seed.
Imported(p) == [form EXCEPT !.seed = p, !.created = FALSE, !.wrote = FALSE,
                            !.answered = NoPhrase]

\* Mutant: the check box is enough.
SeedBackupPassed_by_checkbox == form.created => form.wrote

\* answers_match, for the three words pick_indices chose of this very phrase.
SeedBackupPassed ==
  form.created => form.wrote /\ form.answered = form.seed

\* create_seed: three new words to confirm, and a suggested height to fetch unless
\* an earlier request is still out.
CreateSeed(p) ==
  /\ ~IsOpen
  /\ form' = [form EXCEPT !.seed = p, !.created = TRUE, !.wrote = FALSE,
                          !.answered = NoPhrase]
  /\ fetching' = TRUE
  /\ edited' = edited \ {p}
  /\ UNCHANGED session

\* paste_seed_button and every edit of the seed field.
EnterSeed(p) ==
  /\ ~IsOpen
  /\ form' = Imported(p)
  /\ edited' = edited \cup ({p} \cap Fresh)
  /\ UNCHANGED <<fetching, session>>

EnterHeight(h) ==
  /\ ~IsOpen /\ h # "tip"
  /\ form' = [form EXCEPT !.height = h]
  /\ UNCHANGED <<fetching, session, edited>>

\* The check box, and the three answers under it, right or wrong.
ToggleWrote ==
  /\ ~IsOpen /\ form.created
  /\ form' = [form EXCEPT !.wrote = ~@]
  /\ UNCHANGED <<fetching, session, edited>>
Answer(p) ==
  /\ ~IsOpen /\ form.created /\ form.wrote
  /\ form' = [form EXCEPT !.answered = p]
  /\ UNCHANGED <<fetching, session, edited>>

\* fetch_suggested_height's completion, with or without a height, whoever is looking:
\* a node above block 10 suggests its tip less 10, any other 0.
FetchedHeight(h) ==
  /\ fetching /\ h \in {"tip", "zero"}
  /\ fetching' = FALSE
  /\ form' = IF form.created \/ form.height = "zero" THEN [form EXCEPT !.height = h] ELSE form
  /\ UNCHANGED <<session, edited>>
FetchFails ==
  /\ fetching /\ fetching' = FALSE
  /\ UNCHANGED <<form, session, edited>>

\* open_from_form; saved is whether the secure store took the phrase.
OpenFromForm(saved) ==
  /\ ~IsOpen /\ form.seed # NoPhrase /\ SeedBackupPassed
  /\ session' = [seed |-> form.seed, height |-> form.height]
  /\ form' = Imported(IF saved THEN NoPhrase ELSE form.seed)
  /\ UNCHANGED <<fetching, edited>>

\* try_unlock_stored's completion: the height read with the seed replaces the field's.
UnlockStored(p, h) ==
  /\ ~IsOpen
  /\ session' = [seed |-> p, height |-> h]
  /\ form' = [Imported(NoPhrase) EXCEPT !.height = h]
  /\ UNCHANGED <<fetching, edited>>

\* forget, and a removal, which also resets the height; a rescan sets it.
LockForm(removed) ==
  /\ session' = Closed
  /\ form' = [Imported(NoPhrase) EXCEPT !.height = IF removed THEN "zero" ELSE @]
  /\ UNCHANGED <<fetching, edited>>
RescanFrom(h) ==
  /\ IsOpen
  /\ form' = [form EXCEPT !.height = h] /\ session' = [session EXCEPT !.height = h]
  /\ UNCHANGED <<fetching, edited>>

RestoreNext ==
  \/ \E p \in Fresh : CreateSeed(p)
  \/ \E p \in Phrases : EnterSeed(p) \/ Answer(p)
  \/ \E h \in Heights : EnterHeight(h) \/ FetchedHeight(h) \/ RescanFrom(h)
  \/ \E p \in Owned, h \in Heights : UnlockStored(p, h)
  \/ ToggleWrote \/ FetchFails
  \/ \E b \in BOOLEAN : OpenFromForm(b) \/ LockForm(b)

RestoreSpec == RestoreInit /\ [][RestoreNext]_restoreVars

(* ------------------------------ properties ------------------------------ *)

\* Type correctness.
RestoreTypeOK ==
  /\ form \in Forms /\ fetching \in BOOLEAN /\ edited \subseteq Fresh
  /\ session \in [seed : Phrases \cup {NoPhrase}, height : Heights]

\* A phrase the application made opens a wallet only after its own three words were
\* confirmed, however many phrases were made, abandoned and answered before; unless
\* the user put it through the seed field as a phrase of his own.
CreatedSeedConfirmed ==
  [][session' # session /\ session'.seed \in Fresh \ edited /\ ~IsOpen
       => form.answered = session'.seed /\ form.wrote]_restoreVars
================================================================================
