------------------------------ MODULE StoredSeed ------------------------------
(***************************************************************************)
(* The seed in the OS secure store, the marker and restore height beside   *)
(* it, and the device-authentication preference (src/src/wallet_store.rs,   *)
(* src/src/paths.rs and their callers in src/src/main.rs), as built for      *)
(* macOS, the one platform with two Keychain items.                        *)
(*                                                                         *)
(* Handlers run one at a time on the UI thread; an unlock reads, and may    *)
(* migrate, the Keychain on a background thread between them.  Every write  *)
(* may fail, and the process may die at any point: a handler that died      *)
(* after its n-th write is one that failed there, followed by Quit.         *)
(* The gates before an unlock or an opening are SessionLock's.              *)
(***************************************************************************)
EXTENDS Naturals

CONSTANTS
  Seeds,      \* recovery phrases
  NoSeed,
  Unlocks     \* bound: unlock tasks alive at once, one of them live

ASSUME SeedAssumption == NoSeed \notin Seeds

VARIABLES
  items,      \* the Keychain: the legacy item and the one behind user presence
  files,      \* wallet slot marker, whose height the height file holds, preference
  home,       \* Home: running, the open session's seed, require_device_auth, has_stored
  unlock,     \* the unlock tasks
  past        \* auxiliary: what the user was told, read by no code

storeVars == <<items, files, home, unlock, past>>

Maybe == Seeds \cup {NoSeed}
Items == [plain : Maybe, guarded : Maybe]
Preferences == {"unset", "on", "off"}
Files == [marker : BOOLEAN, height : Maybe, preference : Preferences]
Homes == [up : BOOLEAN, opened : Maybe, required : BOOLEAN, has_stored : BOOLEAN]
Steps == {"none", "read", "plain", "write", "retire", "done"}
Tasks == [step : Steps, guarded : BOOLEAN, live : BOOLEAN, seed : Maybe, height : Maybe]
\* saved: the wallet the last completed save stored, unless removed since;
\* mixed: a write for another wallet may have left parts of both;
\* raced: a handler changed the Keychain under a migrating unlock;
\* gone: a removal was begun, and nothing stored since;  removed: one was reported.
Pasts == [saved : Maybe, mixed : BOOLEAN, raced : BOOLEAN,
          gone : BOOLEAN, removed : BOOLEAN]

NoTask == [step |-> "none", guarded |-> FALSE, live |-> FALSE,
           seed |-> NoSeed, height |-> NoSeed]

\* A first launch, or the first one of this version over the store of an older one.
StoreInit ==
  \E s \in Maybe :
    /\ items = [plain |-> s, guarded |-> NoSeed]
    /\ files = [marker |-> s # NoSeed, height |-> s, preference |-> "unset"]
    /\ home = [up |-> FALSE, opened |-> NoSeed, required |-> FALSE, has_stored |-> FALSE]
    /\ unlock = [u \in Unlocks |-> NoTask]
    /\ past = [saved |-> s, mixed |-> FALSE, raced |-> FALSE,
               gone |-> FALSE, removed |-> FALSE]

\* A preference write, whose failure stops nothing else.
Written(on, preference) == {preference, IF on THEN "on" ELSE "off"}

\* A task that is about to write what it read, or reads, on the other thread.
Migrating == \E u \in Unlocks : unlock[u].step \in {"plain", "write", "retire"}

(* ---------------------------- wallet_store.rs --------------------------- *)

\* Mutant: the old item is retired before its replacement is committed.
Protected_retires_first(s, on, n) ==
  IF on THEN [plain |-> IF n >= 1 THEN NoSeed ELSE items.plain,
              guarded |-> IF n >= 2 THEN s ELSE items.guarded]
        ELSE [plain |-> IF n >= 2 THEN s ELSE items.plain,
              guarded |-> IF n >= 1 THEN NoSeed ELSE items.guarded]

\* Mutant: the protected item is never retired.
Protected_keeps_guarded(s, on, n) ==
  IF on THEN [plain |-> IF n >= 2 THEN NoSeed ELSE items.plain,
              guarded |-> IF n >= 1 THEN s ELSE items.guarded]
        ELSE [plain |-> IF n >= 1 THEN s ELSE items.plain, guarded |-> items.guarded]

\* The Keychain after the first n of set_protection's two writes: the replacement
\* is committed before the old item is retired.
Protected(s, on, n) ==
  IF on THEN [plain |-> IF n >= 2 THEN NoSeed ELSE items.plain,
              guarded |-> IF n >= 1 THEN s ELSE items.guarded]
        ELSE [plain |-> IF n >= 1 THEN s ELSE items.plain,
              guarded |-> IF n >= 2 THEN NoSeed ELSE items.guarded]

\* What n writes for wallet s, and for the height of h, mean for the user.
Marks(s, h, n) ==
  [past EXCEPT !.mixed = @ \/ (n >= 1 /\ s # past.saved) \/ (n >= 3 /\ s # h),
               !.raced = @ \/ (n >= 1 /\ Migrating),
               !.gone = @ /\ n = 0, !.removed = @ /\ n = 0]

\* save: set_protection, then mark_wallet_stored's height and marker; n = 4 is success.
Save(s, h, on, n, preference) ==
  /\ items' = Protected(s, on, n)
  /\ files' = [marker |-> files.marker \/ n = 4,
               height |-> IF n >= 3 THEN h ELSE files.height,
               preference |-> preference]
  /\ past' = IF n = 4 THEN [Marks(s, h, n) EXCEPT !.saved = s, !.mixed = h # s]
                      ELSE Marks(s, h, n)

\* Mutant: only the item of the preference is deleted.
Delete_preferred_only(n, marker, height) ==
  /\ items' = [plain |-> IF n = 2 /\ ~home.required THEN NoSeed ELSE items.plain,
               guarded |-> IF n >= 1 /\ home.required THEN NoSeed ELSE items.guarded]
  /\ files' = [files EXCEPT !.marker = @ /\ (n = 2 => marker),
                            !.height = IF n = 2 /\ ~height THEN NoSeed ELSE @]
  /\ past' = [past EXCEPT !.saved = NoSeed, !.gone = TRUE, !.removed = n = 2,
                          !.raced = @ \/ (n >= 1 /\ Migrating)]

\* delete: the protected item, the legacy item (n = 2 is success), then
\* clear_wallet_slot, which leaves what it cannot remove and reports nothing.
Delete(n, marker, height) ==
  /\ items' = [plain |-> IF n = 2 THEN NoSeed ELSE items.plain,
               guarded |-> IF n >= 1 THEN NoSeed ELSE items.guarded]
  /\ files' = [files EXCEPT !.marker = @ /\ (n = 2 => marker),
                            !.height = IF n = 2 /\ ~height THEN NoSeed ELSE @]
  /\ past' = [past EXCEPT !.saved = NoSeed, !.gone = TRUE, !.removed = n = 2,
                          !.raced = @ \/ (n >= 1 /\ Migrating)]

(* ------------------------- load, on its own thread ---------------------- *)

TaskFails(u) == unlock' = [unlock EXCEPT ![u].step = "done", ![u].seed = NoSeed]

TaskSucceeds(u, s, guarded) ==
  unlock' = [unlock EXCEPT ![u] = [@ EXCEPT !.step = "done", !.seed = s,
                                    !.guarded = guarded, !.height = files.height]]

ReadGuarded(u) ==
  /\ unlock[u].step = "read" /\ files.marker /\ unlock[u].guarded
  /\ IF items.guarded # NoSeed
       THEN TaskSucceeds(u, items.guarded, TRUE)
       \* errSecItemNotFound: authenticate, then look for the legacy item
       ELSE unlock' = [unlock EXCEPT ![u].step = "plain"]
  /\ UNCHANGED <<items, files, home, past>>

ReadPlain(u) ==
  /\ \/ unlock[u].step = "read" /\ files.marker /\ ~unlock[u].guarded
     \/ unlock[u].step = "plain"
  /\ \/ /\ items.plain # NoSeed /\ unlock[u].guarded
        /\ unlock' = [unlock EXCEPT ![u].step = "write", ![u].seed = items.plain]
     \/ items.plain # NoSeed /\ ~unlock[u].guarded /\ TaskSucceeds(u, items.plain, FALSE)
     \* may_recover_protected_item
     \/ /\ items.plain = NoSeed /\ ~unlock[u].guarded /\ items.guarded # NoSeed
        /\ TaskSucceeds(u, items.guarded, TRUE)
  /\ UNCHANGED <<items, files, home, past>>

\* The migration's set_protection(phrase, true), a write at a time.
MigrateWrite(u) ==
  /\ unlock[u].step = "write"
  /\ items' = [items EXCEPT !.guarded = unlock[u].seed]
  /\ unlock' = [unlock EXCEPT ![u].step = "retire"]
  /\ UNCHANGED <<files, home, past>>

MigrateRetire(u) ==
  /\ unlock[u].step = "retire"
  /\ items' = [items EXCEPT !.plain = NoSeed]
  /\ TaskSucceeds(u, unlock[u].seed, TRUE)
  /\ UNCHANGED <<files, home, past>>

\* No marker, no item, a refused prompt or a Keychain error, at any step.
LoadFails(u) ==
  /\ unlock[u].step \notin {"none", "done"}
  /\ TaskFails(u)
  /\ UNCHANGED <<items, files, home, past>>

(* ------------------------------- main.rs -------------------------------- *)

\* new: without a preference, a wallet stored by an older version is protected
\* where that is possible.
Start(available) ==
  /\ ~home.up
  /\ LET required == IF files.preference = "unset" THEN files.marker /\ available
                                                   ELSE files.preference = "on"
     IN /\ home' = [up |-> TRUE, opened |-> NoSeed,
                    required |-> required, has_stored |-> files.marker]
        /\ \E p \in IF files.preference = "unset" /\ required
                       THEN Written(TRUE, files.preference) ELSE {files.preference} :
             files' = [files EXCEPT !.preference = p]
  /\ UNCHANGED <<items, unlock, past>>

\* The process ends, or dies; its threads die with it.
Quit ==
  /\ home.up
  /\ home' = [home EXCEPT !.up = FALSE, !.opened = NoSeed]
  /\ unlock' = [u \in Unlocks |-> NoTask]
  /\ UNCHANGED <<items, files, past>>

\* forget: what it says of the store, and the token every unlock captured.
Stale == [u \in Unlocks |-> [unlock[u] EXCEPT !.live = FALSE]]
Lock ==
  /\ home.up
  /\ home' = [home EXCEPT !.opened = NoSeed, !.has_stored = files.marker]
  /\ unlock' = Stale
  /\ UNCHANGED <<items, files, past>>

\* try_unlock_stored.
StartUnlock(u) ==
  /\ home.up /\ home.opened = NoSeed /\ files.marker
  /\ unlock[u] = NoTask /\ \A v \in Unlocks : ~unlock[v].live
  /\ unlock' = [unlock EXCEPT ![u] =
                 [NoTask EXCEPT !.step = "read", !.guarded = home.required, !.live = TRUE]]
  /\ UNCHANGED <<items, files, home, past>>

\* open_with_mnemonic, once WalletCore has opened, and the save at its end: n of its
\* four writes happen, and a write may happen and still be reported as failed.
OpenAndSave(s, h, required, preference, available, n, ok) ==
  LET unset == preference = "unset" /\ available
      on == required \/ unset
  IN /\ ok => n = 4
     /\ \E p \in IF ok /\ unset THEN Written(TRUE, preference) ELSE {preference} :
          Save(s, h, on, n, p)
     /\ home' = [home EXCEPT !.opened = s,
                             !.required = IF ok THEN on ELSE required,
                             !.has_stored = @ \/ ok]

\* open_from_form: any seed may be typed, over any stored wallet.
OpenTyped(s, available, n, ok) ==
  /\ home.up /\ home.opened = NoSeed
  /\ OpenAndSave(s, s, home.required, files.preference, available, n, ok)
  /\ UNCHANGED unlock

\* The unlock's completion: "the actual Keychain item wins".
Deliver(u, available, n, ok) ==
  /\ unlock[u].step = "done" /\ unlock[u].live /\ unlock[u].seed # NoSeed
  /\ unlock' = [unlock EXCEPT ![u] = NoTask]
  /\ \E p \in Written(unlock[u].guarded, files.preference) :
       OpenAndSave(unlock[u].seed, unlock[u].height, unlock[u].guarded, p,
                   available, n, ok)

\* WalletCore refuses to open.
OpenFails(u) ==
  /\ unlock[u].step = "done" /\ unlock[u].live /\ unlock[u].seed # NoSeed
  /\ unlock' = [unlock EXCEPT ![u] = NoTask]
  /\ home' = [home EXCEPT !.required = unlock[u].guarded]
  /\ \E p \in Written(unlock[u].guarded, files.preference) :
       files' = [files EXCEPT !.preference = p]
  /\ UNCHANGED <<items, past>>

\* A failed load, a stale one, and one that ends with no window on the screen,
\* which only locks again.
Dismiss(u) ==
  /\ unlock[u].step = "done"
  /\ \/ /\ ~unlock[u].live /\ unlock' = [unlock EXCEPT ![u] = NoTask]
        /\ UNCHANGED home
     \/ /\ unlock[u].live /\ unlock[u].seed = NoSeed
        /\ unlock' = [unlock EXCEPT ![u] = NoTask]
        /\ home' = [home EXCEPT !.has_stored = TRUE]
     \/ /\ unlock[u].live /\ unlock[u].seed # NoSeed
        /\ unlock' = [Stale EXCEPT ![u] = NoTask]
        /\ home' = [home EXCEPT !.opened = NoSeed, !.has_stored = files.marker]
  /\ UNCHANGED <<items, files, past>>

\* toggle_device_auth, authentication given: n of set_protection's two writes succeed.
ToggleDeviceAuth(n) ==
  LET on == ~home.required
  IN /\ home.up /\ home.opened # NoSeed
     /\ items' = Protected(home.opened, on, n)
     /\ home' = [home EXCEPT !.required = IF n = 2 THEN on ELSE @]
     /\ \E p \in IF n = 2 THEN Written(on, files.preference) ELSE {files.preference} :
          files' = [files EXCEPT !.preference = p]
     /\ past' = Marks(home.opened, home.opened, n)
     /\ UNCHANGED unlock

\* finish_rescan_from_height: only the height file, if that.
Rescan ==
  /\ home.up /\ home.opened # NoSeed
  /\ files' = [files EXCEPT !.height = home.opened]
  /\ past' = [past EXCEPT !.mixed = @ \/ home.opened # past.saved]
  /\ UNCHANGED <<items, home, unlock>>

\* remove_stored_wallet, confirmed, with no teardown or send in its way.
RemoveStored(n, marker, height) ==
  /\ home.up
  /\ Delete(n, marker, height)
  /\ unlock' = Stale
  /\ home' = [home EXCEPT !.opened = NoSeed, !.has_stored = n < 2 /\ files.marker]

StoreNext ==
  \/ \E a \in BOOLEAN : Start(a)
  \/ Quit \/ Lock \/ Rescan
  \/ \E u \in Unlocks :
       \/ StartUnlock(u) \/ ReadGuarded(u) \/ ReadPlain(u) \/ MigrateWrite(u)
       \/ MigrateRetire(u) \/ LoadFails(u) \/ OpenFails(u) \/ Dismiss(u)
       \/ \E a, ok \in BOOLEAN, n \in 0..4 : Deliver(u, a, n, ok)
  \/ \E s \in Seeds, a, ok \in BOOLEAN, n \in 0..4 : OpenTyped(s, a, n, ok)
  \/ \E n \in 0..2 : ToggleDeviceAuth(n)
  \/ \E n \in 0..2, m, h \in BOOLEAN : RemoveStored(n, m, h)

StoreSpec == StoreInit /\ [][StoreNext]_storeVars

(* ------------------------------ properties ------------------------------ *)

\* Type correctness.
StoreTypeOK ==
  /\ items \in Items /\ files \in Files /\ home \in Homes
  /\ unlock \in [Unlocks -> Tasks] /\ past \in Pasts

\* What load would find under a preference.
Finds(on) ==
  IF on THEN IF items.guarded # NoSeed THEN items.guarded ELSE items.plain
        ELSE IF items.plain # NoSeed THEN items.plain ELSE items.guarded

\* "Failed migration never loses the seed": whichever writes of a save, a switch of
\* protection or a migration fail, and wherever the process dies, a marked wallet
\* has a seed to open with, under either preference, until its removal begins.
\* Only a handler that changes the Keychain under a migrating unlock escapes it.
MarkedSeedLoads ==
  files.marker /\ ~past.gone /\ ~past.raced => \A on \in BOOLEAN : Finds(on) # NoSeed

\* Failed switches, migrations, re-saves, preference writes, crashes and restarts in
\* any order leave the stored wallet what it was: either preference finds its seed,
\* and the height file is its own, until a write for another wallet is cut short.
StoredWalletKept ==
  past.saved # NoSeed /\ ~past.mixed /\ ~past.raced =>
    /\ files.marker /\ files.height = past.saved
    /\ \A on \in BOOLEAN : Finds(on) = past.saved

\* After "Removed the stored wallet from this computer" the Keychain holds no seed,
\* however many switches had left a second item behind, unless an unlock was
\* migrating it just then.
RemovalLeavesNoSeed ==
  past.removed /\ ~past.raced => items.plain = NoSeed /\ items.guarded = NoSeed

\* The two items are a vault: whatever is written, cut short, migrated or restarted, a
\* phrase enters them only from an open wallet and leaves only for one or in a removal.
Vault == INSTANCE SeedVault WITH
  held <- {items.plain, items.guarded} \ {NoSeed},
  session <- home.opened, removed <- past.removed, raced <- past.raced
VaultSpec == Vault!Spec
================================================================================
