--------------------------- MODULE StoredSeedProofs ---------------------------
(***************************************************************************)
(* Proofs about StoredSeed for every set of seeds and any number of unlock   *)
(* tasks: type correctness, and that no write that fails, no crash and no     *)
(* migration on the other thread loses, changes or resurrects a stored seed.  *)
(***************************************************************************)
EXTENDS StoredSeed, TLAPS

--------------------------------------------------------------------------------
(* Type correctness *)

LEMMA TypeInit == StoreInit => StoreTypeOK
  BY DEF StoreInit, StoreTypeOK, Items, Maybe, Files, Preferences, Homes, Tasks, Steps,
     Pasts, NoTask

LEMMA NoTaskType == NoTask \in Tasks
  BY DEF NoTask, Tasks, Steps, Maybe

LEMMA MarksType ==
  ASSUME StoreTypeOK, NEW s, NEW h, NEW n \in 0..4
  PROVE  /\ Marks(s, h, n) \in Pasts
         /\ Marks(s, h, n).saved = past.saved
         /\ Marks(s, h, n).mixed =
              (past.mixed \/ (n >= 1 /\ s # past.saved) \/ (n >= 3 /\ s # h))
         /\ Marks(s, h, n).raced = (past.raced \/ (n >= 1 /\ Migrating))
         /\ Marks(s, h, n).gone = (past.gone /\ n = 0)
         /\ Marks(s, h, n).removed = (past.removed /\ n = 0)
<1> DEFINE mixed == past.mixed \/ (n >= 1 /\ s # past.saved) \/ (n >= 3 /\ s # h)
           raced == past.raced \/ (n >= 1 /\ Migrating)
           gone == past.gone /\ n = 0
           removed == past.removed /\ n = 0
<1>1. past \in Pasts /\ past.mixed \in BOOLEAN /\ past.raced \in BOOLEAN
      /\ past.gone \in BOOLEAN /\ past.removed \in BOOLEAN
  BY DEF StoreTypeOK, Pasts
<1>2. mixed \in BOOLEAN /\ raced \in BOOLEAN /\ gone \in BOOLEAN /\ removed \in BOOLEAN
  BY <1>1, Zenon
<1>3. Marks(s, h, n) = [past EXCEPT !.mixed = mixed, !.raced = raced, !.gone = gone,
                                    !.removed = removed]
  BY Zenon DEF Marks
<1> HIDE DEF mixed, raced, gone, removed
<1>4. Marks(s, h, n) \in Pasts
  BY <1>1, <1>2, <1>3 DEF Pasts
<1>5. /\ Marks(s, h, n).saved = past.saved
      /\ Marks(s, h, n).mixed = mixed /\ Marks(s, h, n).raced = raced
      /\ Marks(s, h, n).gone = gone /\ Marks(s, h, n).removed = removed
  BY <1>1, <1>3 DEF Pasts
<1> USE DEF mixed, raced, gone, removed
<1> QED BY <1>4, <1>5

\* The same as implications, with the number of writes apart from what was told.
LEMMA MarksTold ==
  ASSUME StoreTypeOK, NEW s, NEW h, NEW n \in 0..4
  PROVE  /\ past.mixed => Marks(s, h, n).mixed
         /\ past.raced => Marks(s, h, n).raced
         /\ Marks(s, h, n).gone => past.gone
         /\ Marks(s, h, n).removed => past.removed
         /\ n = 0 => (past.gone => Marks(s, h, n).gone)
         /\ n # 0 => ~Marks(s, h, n).removed
         /\ n # 0 /\ ~Marks(s, h, n).mixed => s = past.saved
         /\ n >= 3 /\ ~Marks(s, h, n).mixed => s = h
<1> DEFINE none == n = 0
           some == n >= 1
           most == n >= 3
           told == Marks(s, h, n)
<1>1. /\ told.mixed = (past.mixed \/ (some /\ s # past.saved) \/ (most /\ s # h))
      /\ told.raced = (past.raced \/ (some /\ Migrating))
      /\ told.gone = (past.gone /\ none)
      /\ told.removed = (past.removed /\ none)
  BY MarksType
<1>2. some <=> ~none
  OBVIOUS
<1> HIDE DEF none, some, most, told
<1>3. /\ past.mixed => told.mixed
      /\ past.raced => told.raced
      /\ told.gone => past.gone
      /\ told.removed => past.removed
      /\ none => (past.gone => told.gone)
      /\ ~none => ~told.removed
      /\ ~none /\ ~told.mixed => s = past.saved
      /\ most /\ ~told.mixed => s = h
  BY <1>1, <1>2, Zenon
<1> QED BY <1>3, Zenon DEF none, most, told

LEMMA SucceedsType ==
  ASSUME StoreTypeOK, NEW u \in Unlocks, NEW s \in Maybe, NEW g \in BOOLEAN,
         TaskSucceeds(u, s, g)
  PROVE  unlock' \in [Unlocks -> Tasks]
<1> DEFINE task == [unlock[u] EXCEPT !.step = "done", !.seed = s, !.guarded = g,
                                     !.height = files.height]
<1>1. task \in Tasks
  BY DEF StoreTypeOK, Tasks, Steps, Files
<1>2. unlock' = [unlock EXCEPT ![u] = task]
  BY DEF TaskSucceeds
<1> HIDE DEF task
<1> QED BY <1>1, <1>2 DEF StoreTypeOK

\* The Keychain after any number of writes, the files and what was told.
LEMMA SaveType ==
  ASSUME StoreTypeOK, NEW s \in Seeds, NEW h \in Maybe, NEW on \in BOOLEAN,
         NEW n \in 0..4, NEW p \in Preferences, Save(s, h, on, n, p)
  PROVE  items' \in Items /\ files' \in Files /\ past' \in Pasts
<1>1. items' \in Items
  BY DEF Save, Protected, StoreTypeOK, Items, Maybe
<1>2. files' \in Files
  BY DEF Save, StoreTypeOK, Files, Maybe
<1>3. past' \in Pasts
  <2>1. Marks(s, h, n) \in Pasts
    BY MarksType
  <2>2. (h # s) \in BOOLEAN /\ s \in Maybe
    BY DEF Maybe
  <2>3. [Marks(s, h, n) EXCEPT !.saved = s, !.mixed = h # s] \in Pasts
    BY <2>1, <2>2 DEF Pasts
  <2> QED BY <2>1, <2>3 DEF Save
<1> QED BY <1>1, <1>2, <1>3

LEMMA WrittenType ==
  ASSUME NEW on \in BOOLEAN, NEW p \in Preferences, NEW q \in Written(on, p)
  PROVE  q \in Preferences
  BY DEF Written, Preferences

LEMMA OpenType ==
  ASSUME StoreTypeOK, NEW s \in Seeds, NEW h \in Maybe, NEW required \in BOOLEAN,
         NEW p \in Preferences, NEW a \in BOOLEAN, NEW n \in 0..4, NEW ok \in BOOLEAN,
         OpenAndSave(s, h, required, p, a, n, ok)
  PROVE  items' \in Items /\ files' \in Files /\ past' \in Pasts /\ home' \in Homes
<1> DEFINE unset == p = "unset" /\ a
           on == required \/ unset
<1>1. on \in BOOLEAN
  OBVIOUS
<1>2. PICK q \in IF ok /\ unset THEN Written(TRUE, p) ELSE {p} : Save(s, h, on, n, q)
  BY DEF OpenAndSave
<1>3. q \in Preferences
  BY <1>2, WrittenType
<1>4. home' \in Homes
  BY DEF OpenAndSave, StoreTypeOK, Homes, Maybe
<1> QED BY <1>1, <1>2, <1>3, <1>4, SaveType

LEMMA TypeNext == StoreTypeOK /\ [StoreNext]_storeVars => StoreTypeOK'
<1> SUFFICES ASSUME StoreTypeOK, [StoreNext]_storeVars PROVE StoreTypeOK'
  OBVIOUS
<1>1. ASSUME NEW a \in BOOLEAN, Start(a) PROVE StoreTypeOK'
  <2> DEFINE required == IF files.preference = "unset" THEN files.marker /\ a
                                                       ELSE files.preference = "on"
  <2>1. files.preference \in Preferences /\ files.marker \in BOOLEAN
    BY DEF StoreTypeOK, Files
  <2>2. required \in BOOLEAN
    BY <2>1
  <2>3. PICK p \in IF files.preference = "unset" /\ required
                     THEN Written(TRUE, files.preference) ELSE {files.preference} :
          files' = [files EXCEPT !.preference = p]
    BY <1>1 DEF Start
  <2>4. p \in Preferences
    BY <2>1, <2>3, WrittenType
  <2>5. files' \in Files
    BY <2>3, <2>4 DEF StoreTypeOK, Files
  <2>6. home' = [up |-> TRUE, opened |-> NoSeed, required |-> required,
                 has_stored |-> files.marker]
    BY <1>1 DEF Start
  <2> HIDE DEF required
  <2>7. home' \in Homes
    BY <2>1, <2>2, <2>6 DEF Homes, Maybe
  <2> QED BY <1>1, <2>5, <2>7 DEF Start, StoreTypeOK
<1>2. CASE Quit
  BY <1>2, NoTaskType DEF Quit, StoreTypeOK, Homes, Maybe
<1>3. Stale \in [Unlocks -> Tasks]
  BY DEF Stale, StoreTypeOK, Tasks
<1>4. CASE Lock
  BY <1>3, <1>4 DEF Lock, StoreTypeOK, Homes, Maybe, Files
<1>5. CASE Rescan
  BY <1>5 DEF Rescan, StoreTypeOK, Files, Pasts, Homes
<1>6. ASSUME NEW u \in Unlocks, StartUnlock(u) PROVE StoreTypeOK'
  BY <1>6 DEF StartUnlock, StoreTypeOK, Tasks, Steps, NoTask, Homes, Maybe
<1>7. ASSUME NEW u \in Unlocks, ReadGuarded(u) PROVE StoreTypeOK'
  <2>1. items.guarded \in Maybe
    BY DEF StoreTypeOK, Items
  <2>2. unlock' \in [Unlocks -> Tasks]
    BY <1>7, <2>1, SucceedsType DEF ReadGuarded, StoreTypeOK, Tasks, Steps
  <2> QED BY <1>7, <2>2 DEF ReadGuarded, StoreTypeOK
<1>8. ASSUME NEW u \in Unlocks, ReadPlain(u) PROVE StoreTypeOK'
  <2>1. items.guarded \in Maybe /\ items.plain \in Maybe
    BY DEF StoreTypeOK, Items
  <2>2. ASSUME unlock' = [unlock EXCEPT ![u].step = "write", ![u].seed = items.plain]
        PROVE  unlock' \in [Unlocks -> Tasks]
    BY <2>1, <2>2 DEF StoreTypeOK, Tasks, Steps
  <2>3. unlock' \in [Unlocks -> Tasks]
    BY <1>8, <2>1, <2>2, SucceedsType DEF ReadPlain
  <2> QED BY <1>8, <2>3 DEF ReadPlain, StoreTypeOK
<1>9. ASSUME NEW u \in Unlocks, MigrateWrite(u) \/ MigrateRetire(u) PROVE StoreTypeOK'
  <2>1. unlock[u].seed \in Maybe
    BY DEF StoreTypeOK, Tasks
  <2>2. items' \in Items
    BY <1>9, <2>1 DEF MigrateWrite, MigrateRetire, StoreTypeOK, Items, Maybe
  <2>3. CASE MigrateWrite(u)
    BY <2>2, <2>3 DEF MigrateWrite, StoreTypeOK, Tasks, Steps
  <2>4. CASE MigrateRetire(u)
    BY <2>1, <2>2, <2>4, SucceedsType DEF MigrateRetire, StoreTypeOK
  <2> QED BY <1>9, <2>3, <2>4
<1>10. ASSUME NEW u \in Unlocks, LoadFails(u) PROVE StoreTypeOK'
  BY <1>10 DEF LoadFails, TaskFails, StoreTypeOK, Tasks, Steps, Maybe
<1>11. ASSUME NEW u \in Unlocks, OpenFails(u) PROVE StoreTypeOK'
  BY <1>11, NoTaskType, WrittenType DEF OpenFails, StoreTypeOK, Homes, Files, Tasks
<1>12. ASSUME NEW u \in Unlocks, Dismiss(u) PROVE StoreTypeOK'
  <2>1. unlock' \in [Unlocks -> Tasks]
    BY <1>3, <1>12, NoTaskType DEF Dismiss, StoreTypeOK
  <2>2. home' \in Homes
    BY <1>12 DEF Dismiss, StoreTypeOK, Homes, Maybe, Files
  <2> QED BY <1>12, <2>1, <2>2 DEF Dismiss, StoreTypeOK
<1>13. ASSUME NEW u \in Unlocks, NEW a \in BOOLEAN, NEW ok \in BOOLEAN, NEW n \in 0..4,
              Deliver(u, a, n, ok)
       PROVE  StoreTypeOK'
  <2>1. unlock[u] \in Tasks /\ unlock[u].seed # NoSeed
    BY <1>13 DEF Deliver, StoreTypeOK
  <2>2. unlock[u].seed \in Seeds /\ unlock[u].height \in Maybe /\ unlock[u].guarded \in BOOLEAN
    BY <2>1 DEF Tasks, Maybe
  <2>3. PICK p \in Written(unlock[u].guarded, files.preference) :
          OpenAndSave(unlock[u].seed, unlock[u].height, unlock[u].guarded, p, a, n, ok)
    BY <1>13 DEF Deliver
  <2>4. p \in Preferences
    BY <2>2, WrittenType DEF StoreTypeOK, Files
  <2>5. unlock' \in [Unlocks -> Tasks]
    BY <1>13, NoTaskType DEF Deliver, StoreTypeOK
  <2> QED BY <2>2, <2>3, <2>4, <2>5, OpenType DEF StoreTypeOK
<1>14. ASSUME NEW s \in Seeds, NEW a \in BOOLEAN, NEW ok \in BOOLEAN, NEW n \in 0..4,
              OpenTyped(s, a, n, ok)
       PROVE  StoreTypeOK'
  <2>1. s \in Maybe /\ home.required \in BOOLEAN /\ files.preference \in Preferences
    BY DEF Maybe, StoreTypeOK, Homes, Files
  <2> QED BY <1>14, <2>1, OpenType DEF OpenTyped, StoreTypeOK
<1>15. ASSUME NEW n \in 0..2, ToggleDeviceAuth(n) PROVE StoreTypeOK'
  <2>1. items' \in Items
    BY <1>15 DEF ToggleDeviceAuth, Protected, StoreTypeOK, Items, Homes, Maybe
  <2>2. home' \in Homes
    BY <1>15 DEF ToggleDeviceAuth, StoreTypeOK, Homes
  <2>3. files' \in Files
    BY <1>15, WrittenType DEF ToggleDeviceAuth, StoreTypeOK, Homes, Files
  <2>4. past' \in Pasts
    BY <1>15, MarksType DEF ToggleDeviceAuth
  <2> QED BY <1>15, <2>1, <2>2, <2>3, <2>4 DEF ToggleDeviceAuth, StoreTypeOK
<1>16. ASSUME NEW n \in 0..2, NEW m \in BOOLEAN, NEW h \in BOOLEAN, RemoveStored(n, m, h)
       PROVE  StoreTypeOK'
  <2>1. items' \in Items
    <3>1. items.plain \in Maybe /\ items.guarded \in Maybe /\ NoSeed \in Maybe
      BY DEF StoreTypeOK, Items, Maybe
    <3>2. items' = [plain |-> IF n = 2 THEN NoSeed ELSE items.plain,
                    guarded |-> IF n >= 1 THEN NoSeed ELSE items.guarded]
      BY <1>16 DEF RemoveStored, Delete
    <3> QED BY <3>1, <3>2 DEF Items
  <2>2. files' \in Files
    BY <1>16 DEF RemoveStored, Delete, StoreTypeOK, Files, Maybe
  <2>3. past' \in Pasts
    BY <1>16 DEF RemoveStored, Delete, StoreTypeOK, Pasts, Maybe
  <2>4. home' \in Homes
    BY <1>16 DEF RemoveStored, StoreTypeOK, Homes, Files, Maybe
  <2> QED BY <1>3, <1>16, <2>1, <2>2, <2>3, <2>4 DEF RemoveStored, StoreTypeOK
<1>17. CASE UNCHANGED storeVars
  BY <1>17 DEF storeVars, StoreTypeOK
<1> QED
  BY <1>1, <1>2, <1>4, <1>5, <1>6, <1>7, <1>8, <1>9, <1>10, <1>11, <1>12, <1>13, <1>14,
     <1>15, <1>16, <1>17 DEF StoreNext

\* Every variable keeps its type: the Keychain, the files beside it, the session, the
\* unlock tasks and what the user was told.
THEOREM TypeCorrect == StoreSpec => []StoreTypeOK
<1> QED BY TypeInit, TypeNext, PTL DEF StoreSpec

--------------------------------------------------------------------------------
(* What the Keychain holds.  Loads, Kept and RemovalLeavesNoSeed are not inductive by *)
(* themselves: a migration retires an item that nothing says has been replaced. So    *)
(* the invariant also says what a task that is writing carries.                       *)

Writing(u) == unlock[u].step \in {"write", "retire"}
Carried ==
  ~past.raced => \A u \in Unlocks :
    /\ Writing(u) => /\ unlock[u].seed \in Seeds
                     /\ items.plain \in {unlock[u].seed, NoSeed}
    /\ unlock[u].step = "write" =>
         items.plain = unlock[u].seed \/ items.guarded = unlock[u].seed
    /\ unlock[u].step = "retire" => items.guarded = unlock[u].seed

Loads ==
  files.marker /\ ~past.gone /\ ~past.raced =>
    items.plain # NoSeed \/ items.guarded # NoSeed
Kept ==
  past.saved # NoSeed /\ ~past.mixed /\ ~past.raced =>
    /\ files.marker /\ files.height = past.saved
    /\ items.plain \in {past.saved, NoSeed} /\ items.guarded \in {past.saved, NoSeed}
    /\ items.plain = past.saved \/ items.guarded = past.saved
Holds == Loads /\ Kept /\ RemovalLeavesNoSeed
StoreInv == Carried /\ Holds

LEMMA InvInit ==
  ASSUME StoreInit PROVE StoreInv
<1> PICK s \in Maybe :
      /\ items = [plain |-> s, guarded |-> NoSeed]
      /\ files = [marker |-> s # NoSeed, height |-> s, preference |-> "unset"]
      /\ unlock = [u \in Unlocks |-> NoTask]
      /\ past = [saved |-> s, mixed |-> FALSE, raced |-> FALSE, gone |-> FALSE,
                 removed |-> FALSE]
  BY DEF StoreInit
<1>1. Carried
  BY DEF Carried, Writing, NoTask
<1>2. Loads /\ Kept /\ RemovalLeavesNoSeed
  BY DEF Loads, Kept, RemovalLeavesNoSeed
<1> QED BY <1>1, <1>2 DEF StoreInv, Holds

\* A step that leaves the Keychain, the marker, the height and the words of the user's
\* promises alone, and starts no migration, keeps them all.
QuietTasks == \A u \in Unlocks : Writing(u)' => Writing(u) /\ unlock'[u].seed = unlock[u].seed
                                   /\ unlock'[u].step = unlock[u].step
LEMMA Quiet ==
  ASSUME Holds, items' = items, past'.saved = past.saved,
         past'.mixed \/ ~past.mixed, past'.raced \/ ~past.raced,
         past'.gone \/ ~past.gone, past.removed \/ ~past'.removed,
         files'.marker = files.marker, files'.height = files.height
  PROVE  Holds'
  BY DEF Holds, Loads, Kept, RemovalLeavesNoSeed
LEMMA QuietCarried ==
  ASSUME Carried, items' = items, past'.raced = past.raced, QuietTasks
  PROVE  Carried'
  BY DEF Carried, QuietTasks, Writing

\* A handler's write under a migration is remembered, so what the tasks carry need not
\* be followed; without a migration none carries anything.
LEMMA HandlerCarried ==
  ASSUME Carried, QuietTasks, NEW n \in Nat, n = 0 => items' = items,
         past'.raced = (past.raced \/ (n >= 1 /\ Migrating))
  PROVE  Carried'
<1>1. CASE n = 0
  <2>1. past'.raced = (past.raced \/ FALSE)
    BY <1>1
  <2>2. past.raced => past'.raced
    BY <2>1
  <2>3. ~past'.raced => ~past.raced
    BY <2>2
  <2> QED BY <1>1, <2>3 DEF Carried, QuietTasks, Writing
<1>2. CASE n >= 1 /\ Migrating
  <2>1. past'.raced
    BY <1>2
  <2> QED BY <2>1 DEF Carried
<1>3. CASE ~Migrating
  <2>1. \A u \in Unlocks : ~Writing(u)
    BY <1>3 DEF Migrating, Writing
  <2>2. \A u \in Unlocks : ~Writing(u)'
    BY <2>1 DEF QuietTasks
  <2> QED BY <2>2 DEF Carried, Writing
<1> QED BY <1>1, <1>2, <1>3

\* n writes of a save.
LEMMA SaveHolds ==
  ASSUME StoreTypeOK, Holds, NEW s \in Seeds, NEW h \in Maybe,
         NEW on \in BOOLEAN, NEW n \in 0..4, NEW p \in Preferences, Save(s, h, on, n, p)
  PROVE  Holds'
<1>1. items' = Protected(s, on, n)
  BY DEF Save
<1>2. CASE n = 0
  <2>1. items' = items
    BY <1>1, <1>2 DEF Protected, StoreTypeOK, Items
  <2>2. files'.marker = files.marker /\ files'.height = files.height
    BY <1>2 DEF Save, StoreTypeOK, Files
  <2>3. past' = Marks(s, h, n)
    BY <1>2 DEF Save
  <2>4. /\ past'.saved = past.saved
        /\ past'.mixed \/ ~past.mixed
        /\ past'.raced \/ ~past.raced
        /\ past'.gone \/ ~past.gone
        /\ past.removed \/ ~past'.removed
    BY <1>2, <2>3, MarksType, MarksTold
  <2> QED BY <2>1, <2>2, <2>4, Quiet
<1>3. CASE n = 4
  <2>1. items' = IF on THEN [plain |-> NoSeed, guarded |-> s]
                       ELSE [plain |-> s, guarded |-> NoSeed]
    BY <1>1, <1>3 DEF Protected
  <2>2. files'.height = h /\ files'.marker
    <3>1. files' = [marker |-> files.marker \/ n = 4,
                    height |-> IF n >= 3 THEN h ELSE files.height, preference |-> p]
      BY DEF Save
    <3>2. files'.height = (IF n >= 3 THEN h ELSE files.height)
          /\ files'.marker = (files.marker \/ n = 4)
      BY <3>1
    <3>3. files'.height = h
      BY <1>3, <3>2
    <3> DEFINE all == n = 4
    <3>4. all
      BY <1>3
    <3> HIDE DEF all
    <3>5. files'.marker = (files.marker \/ all)
      BY <3>2 DEF all
    <3> QED BY <3>3, <3>4, <3>5, Zenon
  <2>3. past'.saved = s /\ (past'.mixed <=> h # s) /\ ~past'.removed
    <3> DEFINE told == Marks(s, h, n)
    <3>1. past' = [told EXCEPT !.saved = s, !.mixed = h # s]
      BY <1>3 DEF Save
    <3>2. told \in Pasts
      BY MarksType
    <3>3. n # 0
      BY <1>3
    <3>4. ~told.removed
      BY <3>3, MarksTold
    <3> HIDE DEF told
    <3> QED BY <3>1, <3>2, <3>4 DEF Pasts
  <2> QED BY SeedAssumption, <2>1, <2>2, <2>3 DEF Holds, Loads, Kept, RemovalLeavesNoSeed
<1>4. CASE n \in 1..3
  <2>1. items'.plain \in {items.plain, s, NoSeed} /\ items'.guarded \in {items.guarded, s, NoSeed}
        /\ (items'.plain = s \/ items'.guarded = s)
    BY <1>1, <1>4 DEF Protected
  <2>2. /\ past'.saved = past.saved /\ ~past'.removed
        /\ past'.raced \/ ~past.raced
        /\ past'.mixed \/ (~past.mixed /\ s = past.saved /\ (n >= 3 => s = h))
    <3>1. past' = Marks(s, h, n)
      BY <1>4 DEF Save
    <3>2. n # 0
      BY <1>4
    <3> QED BY <3>1, <3>2, MarksType, MarksTold
  <2>3. files'.marker = files.marker /\ files'.height = IF n >= 3 THEN h ELSE files.height
    BY <1>4 DEF Save, StoreTypeOK, Files
  <2>4. Loads'
    BY SeedAssumption, <2>1 DEF Loads
  <2>5. Kept'
    BY <2>1, <2>2, <2>3 DEF Holds, Kept
  <2> QED BY <2>2, <2>4, <2>5 DEF Holds, RemovalLeavesNoSeed
<1> QED BY <1>2, <1>3, <1>4

\* What a save does to a task that is migrating.
LEMMA SaveCarried ==
  ASSUME StoreTypeOK, Carried, QuietTasks, NEW s \in Seeds, NEW h \in Maybe,
         NEW on \in BOOLEAN, NEW n \in 0..4, NEW p \in Preferences, Save(s, h, on, n, p)
  PROVE  Carried'
<1>1. n = 0 => items' = items
  BY DEF Save, Protected, StoreTypeOK, Items
<1>2. past'.raced = (past.raced \/ (n >= 1 /\ Migrating))
  <2> DEFINE told == Marks(s, h, n)
  <2>1. told \in Pasts /\ told.raced = (past.raced \/ (n >= 1 /\ Migrating))
    BY MarksType
  <2>2. past' = told \/ past' = [told EXCEPT !.saved = s, !.mixed = h # s]
    BY DEF Save
  <2> HIDE DEF told
  <2> QED BY <2>1, <2>2 DEF Pasts
<1> QED BY <1>1, <1>2, HandlerCarried

LEMMA OpenInv ==
  ASSUME StoreTypeOK, StoreInv, QuietTasks, NEW s \in Seeds,
         NEW h \in Maybe, NEW required \in BOOLEAN, NEW p \in Preferences,
         NEW a \in BOOLEAN, NEW n \in 0..4, NEW ok \in BOOLEAN,
         OpenAndSave(s, h, required, p, a, n, ok)
  PROVE  StoreInv'
<1> DEFINE unset == p = "unset" /\ a
           on == required \/ unset
<1>1. on \in BOOLEAN
  OBVIOUS
<1>2. PICK q \in IF ok /\ unset THEN Written(TRUE, p) ELSE {p} : Save(s, h, on, n, q)
  BY DEF OpenAndSave
<1>3. q \in Preferences
  BY <1>2, WrittenType
<1> QED BY <1>1, <1>2, <1>3, SaveHolds, SaveCarried DEF StoreInv

LEMMA InvNext ==
  ASSUME StoreTypeOK, StoreInv, [StoreNext]_storeVars
  PROVE  StoreInv'
<1> USE DEF StoreInv
<1>1. ASSUME NEW a \in BOOLEAN, Start(a) PROVE StoreInv'
  <2>1. files'.marker = files.marker /\ files'.height = files.height
    BY <1>1 DEF Start, StoreTypeOK, Files
  <2> QED BY <1>1, <2>1, Quiet, QuietCarried DEF Start, QuietTasks, Writing
<1>2. CASE Quit
  BY <1>2, Quiet, QuietCarried DEF Quit, QuietTasks, Writing, NoTask
<1>3. \A u \in Unlocks : Stale[u].step = unlock[u].step /\ Stale[u].seed = unlock[u].seed
  BY DEF Stale, StoreTypeOK, Tasks
<1>4. CASE Lock
  BY <1>3, <1>4, Quiet, QuietCarried DEF Lock, QuietTasks, Writing
<1>5. CASE Rescan
  <2>1. files'.marker = files.marker /\ files'.height = home.opened
    BY <1>5 DEF Rescan, StoreTypeOK, Files
  <2>2. /\ past'.saved = past.saved /\ past'.raced = past.raced
        /\ past'.gone = past.gone /\ past'.removed = past.removed
        /\ past'.mixed = (past.mixed \/ home.opened # past.saved)
    <3> DEFINE mixed == past.mixed \/ home.opened # past.saved
    <3>1. past' = [past EXCEPT !.mixed = mixed]
      BY <1>5 DEF Rescan
    <3> HIDE DEF mixed
    <3>2. past'.mixed = mixed /\ past'.saved = past.saved /\ past'.raced = past.raced
          /\ past'.gone = past.gone /\ past'.removed = past.removed
      BY <3>1 DEF StoreTypeOK, Pasts
    <3> QED BY <3>2 DEF mixed
  <2>3. Carried'
    BY <1>5, <2>2, QuietCarried DEF Rescan, QuietTasks, Writing
  <2>4. Holds'
    <3>1. past'.mixed \/ (~past.mixed /\ home.opened = past.saved)
      BY <2>2
    <3>2. items' = items
      BY <1>5 DEF Rescan
    <3> QED BY <2>1, <2>2, <3>1, <3>2 DEF Holds, Loads, Kept, RemovalLeavesNoSeed
  <2> QED BY <2>3, <2>4
<1>6. ASSUME NEW u \in Unlocks,
             StartUnlock(u) \/ ReadGuarded(u) \/ LoadFails(u) \/ OpenFails(u) \/ Dismiss(u)
      PROVE  StoreInv'
  <2>1. items' = items /\ past' = past
    BY <1>6 DEF StartUnlock, ReadGuarded, LoadFails, OpenFails, Dismiss
  <2>2. files'.marker = files.marker /\ files'.height = files.height
    BY <1>6 DEF StartUnlock, ReadGuarded, LoadFails, OpenFails, Dismiss, StoreTypeOK, Files
  <2>3. QuietTasks
    <3>1. unlock \in [Unlocks -> Tasks]
      BY DEF StoreTypeOK
    <3>2. CASE StartUnlock(u) \/ LoadFails(u)
      BY <3>1, <3>2 DEF StartUnlock, LoadFails, TaskFails, QuietTasks, Writing, NoTask, Tasks
    <3>3. CASE ReadGuarded(u)
      BY <3>1, <3>3 DEF ReadGuarded, TaskSucceeds, QuietTasks, Writing, Tasks
    <3>4. CASE OpenFails(u)
      BY <3>1, <3>4 DEF OpenFails, QuietTasks, Writing, NoTask
    <3>5. CASE Dismiss(u)
      <4>1. Stale \in [Unlocks -> Tasks]
        BY <3>1 DEF Stale, Tasks
      <4>2. unlock' = [unlock EXCEPT ![u] = NoTask] \/ unlock' = [Stale EXCEPT ![u] = NoTask]
        BY <3>5 DEF Dismiss
      <4> QED BY <1>3, <3>1, <4>1, <4>2 DEF QuietTasks, Writing, NoTask
    <3> QED BY <1>6, <3>2, <3>3, <3>4, <3>5
  <2> QED BY <2>1, <2>2, <2>3, Quiet, QuietCarried
<1>7. ASSUME NEW u \in Unlocks, ReadPlain(u) PROVE StoreInv'
  <2>1. Holds'
    BY <1>7, Quiet DEF ReadPlain
  <2>2. CASE items.plain # NoSeed /\ unlock[u].guarded
             /\ unlock' = [unlock EXCEPT ![u].step = "write", ![u].seed = items.plain]
    <3>1. items.plain \in Seeds
      BY <2>2 DEF StoreTypeOK, Items, Maybe
    <3>2. unlock'[u].step = "write" /\ unlock'[u].seed = items.plain
      BY <2>2 DEF StoreTypeOK, Tasks
    <3>3. \A v \in Unlocks \ {u} : unlock'[v] = unlock[v]
      BY <2>2 DEF StoreTypeOK
    <3> QED BY <1>7, <2>1, <3>1, <3>2, <3>3 DEF ReadPlain, Carried, Writing
  <2>3. CASE \E s \in Maybe, g \in BOOLEAN : TaskSucceeds(u, s, g)
    <3>1. QuietTasks
      BY <2>3 DEF TaskSucceeds, QuietTasks, Writing, StoreTypeOK, Tasks
    <3> QED BY <1>7, <2>1, <3>1, QuietCarried DEF ReadPlain
  <2>4. items.plain \in Maybe /\ items.guarded \in Maybe
    BY DEF StoreTypeOK, Items
  <2> QED BY <1>7, <2>2, <2>3, <2>4 DEF ReadPlain
<1>8. ASSUME NEW u \in Unlocks, MigrateWrite(u) PROVE StoreInv'
  <2>1. items'.plain = items.plain /\ items'.guarded = unlock[u].seed
    BY <1>8 DEF MigrateWrite, StoreTypeOK, Items
  <2>2. unlock'[u].step = "retire" /\ unlock'[u].seed = unlock[u].seed
    BY <1>8 DEF MigrateWrite, StoreTypeOK, Tasks
  <2>3. \A v \in Unlocks \ {u} : unlock'[v] = unlock[v]
    BY <1>8 DEF MigrateWrite, StoreTypeOK
  <2>4. files' = files /\ past' = past
    BY <1>8 DEF MigrateWrite
  <2>5. ~past.raced => /\ unlock[u].seed \in Seeds
                       /\ items.plain \in {unlock[u].seed, NoSeed}
                       /\ items.plain = unlock[u].seed \/ items.guarded = unlock[u].seed
    BY <1>8 DEF MigrateWrite, Carried, Writing
  <2>6. Carried'
    <3> SUFFICES ASSUME ~past.raced, NEW v \in Unlocks
                 PROVE  /\ Writing(v)' => unlock'[v].seed \in Seeds
                                          /\ items'.plain \in {unlock'[v].seed, NoSeed}
                        /\ (unlock'[v].step = "write" =>
                             items'.plain = unlock'[v].seed \/ items'.guarded = unlock'[v].seed)
                        /\ (unlock'[v].step = "retire" => items'.guarded = unlock'[v].seed)
      BY <2>4 DEF Carried
    <3>1. CASE v = u
      BY <2>1, <2>2, <2>5, <3>1 DEF Writing
    <3>2. CASE v # u
      BY SeedAssumption, <2>1, <2>3, <2>5, <3>2 DEF Carried, Writing
    <3> QED BY <3>1, <3>2
  <2>7. Holds'
    BY SeedAssumption, <2>1, <2>4, <2>5 DEF Holds, Loads, Kept, RemovalLeavesNoSeed
  <2> QED BY <2>6, <2>7
<1>9. ASSUME NEW u \in Unlocks, MigrateRetire(u) PROVE StoreInv'
  <2>1. items'.plain = NoSeed /\ items'.guarded = items.guarded
    BY <1>9 DEF MigrateRetire, StoreTypeOK, Items
  <2>2. unlock'[u].step = "done"
    BY <1>9 DEF MigrateRetire, TaskSucceeds, StoreTypeOK, Tasks
  <2>3. \A v \in Unlocks \ {u} : unlock'[v] = unlock[v]
    BY <1>9 DEF MigrateRetire, TaskSucceeds, StoreTypeOK
  <2>4. files' = files /\ past' = past
    BY <1>9 DEF MigrateRetire
  <2>5. ~past.raced => /\ unlock[u].seed \in Seeds
                       /\ items.plain \in {unlock[u].seed, NoSeed}
                       /\ items.guarded = unlock[u].seed
    BY <1>9 DEF MigrateRetire, Carried, Writing
  <2>6. Carried'
    <3> SUFFICES ASSUME ~past.raced, NEW v \in Unlocks, v # u
                 PROVE  /\ Writing(v)' => unlock'[v].seed \in Seeds
                                          /\ items'.plain \in {unlock'[v].seed, NoSeed}
                        /\ (unlock'[v].step = "write" =>
                             items'.plain = unlock'[v].seed \/ items'.guarded = unlock'[v].seed)
                        /\ (unlock'[v].step = "retire" => items'.guarded = unlock'[v].seed)
      BY <2>2, <2>4 DEF Carried, Writing
    <3> QED BY <2>1, <2>3, <2>5 DEF Carried, Writing
  <2>7. Holds'
    BY <2>1, <2>4, <2>5 DEF Holds, Loads, Kept, RemovalLeavesNoSeed
  <2> QED BY <2>6, <2>7
<1>10. ASSUME NEW u \in Unlocks, NEW a \in BOOLEAN, NEW ok \in BOOLEAN, NEW n \in 0..4,
              Deliver(u, a, n, ok)
       PROVE  StoreInv'
  <2>1. unlock[u] \in Tasks /\ unlock[u].seed # NoSeed
    BY <1>10 DEF Deliver, StoreTypeOK
  <2>2. unlock[u].seed \in Seeds /\ unlock[u].height \in Maybe /\ unlock[u].guarded \in BOOLEAN
    BY <2>1 DEF Tasks, Maybe
  <2>3. PICK p \in Written(unlock[u].guarded, files.preference) :
          OpenAndSave(unlock[u].seed, unlock[u].height, unlock[u].guarded, p, a, n, ok)
    BY <1>10 DEF Deliver
  <2>4. p \in Preferences
    BY <2>2, WrittenType DEF StoreTypeOK, Files
  <2>5. QuietTasks
    BY <1>10 DEF Deliver, QuietTasks, Writing, NoTask, StoreTypeOK
  <2> QED BY <2>2, <2>3, <2>4, <2>5, OpenInv
<1>11. ASSUME NEW s \in Seeds, NEW a \in BOOLEAN, NEW ok \in BOOLEAN, NEW n \in 0..4,
              OpenTyped(s, a, n, ok)
       PROVE  StoreInv'
  <2>1. s \in Maybe /\ home.required \in BOOLEAN /\ files.preference \in Preferences
    BY DEF Maybe, StoreTypeOK, Homes, Files
  <2>2. QuietTasks
    BY <1>11 DEF OpenTyped, QuietTasks, Writing
  <2> QED BY <1>11, <2>1, <2>2, OpenInv DEF OpenTyped
<1>12. ASSUME NEW n \in 0..2, ToggleDeviceAuth(n) PROVE StoreInv'
  <2> DEFINE s == home.opened
             on == ~home.required
  <2>1. s \in Seeds /\ on \in BOOLEAN
    BY <1>12 DEF ToggleDeviceAuth, StoreTypeOK, Homes, Maybe
  <2>2. items' = Protected(s, on, n) /\ past' = Marks(s, s, n) /\ unlock' = unlock
    BY <1>12 DEF ToggleDeviceAuth
  <2>3. files'.marker = files.marker /\ files'.height = files.height
    BY <1>12 DEF ToggleDeviceAuth, StoreTypeOK, Files
  <2>4. /\ past'.saved = past.saved
        /\ past'.mixed = (past.mixed \/ (n >= 1 /\ s # past.saved) \/ (n >= 3 /\ s # s))
        /\ past'.raced = (past.raced \/ (n >= 1 /\ Migrating))
        /\ past'.gone = (past.gone /\ n = 0) /\ past'.removed = (past.removed /\ n = 0)
    BY <2>2, MarksType
  <2> HIDE DEF s, on
  <2>5. n = 0 => items' = items
    BY <2>2 DEF Protected, StoreTypeOK, Items
  <2>6. Carried'
    BY <2>2, <2>4, <2>5, HandlerCarried DEF QuietTasks, Writing
  <2>7. CASE n = 0
    BY <2>3, <2>4, <2>5, <2>6, <2>7, Quiet
  <2>8. CASE n # 0
    <3>1. items'.plain \in {items.plain, s, NoSeed} /\ items'.guarded \in {items.guarded, s, NoSeed}
          /\ (items'.plain = s \/ items'.guarded = s)
      BY <2>2, <2>8 DEF Protected
    <3>2. /\ past'.raced \/ ~past.raced
          /\ past'.mixed \/ (~past.mixed /\ s = past.saved)
          /\ ~past'.removed
      BY <2>2, <2>8, MarksTold
    <3>3. Loads'
      BY SeedAssumption, <2>1, <3>1 DEF Loads
    <3>4. Kept'
      BY <2>1, <2>3, <2>4, <3>1, <3>2 DEF Holds, Kept
    <3> QED BY <2>6, <3>2, <3>3, <3>4 DEF Holds, RemovalLeavesNoSeed
  <2> QED BY <2>7, <2>8
<1>13. ASSUME NEW n \in 0..2, NEW m \in BOOLEAN, NEW h \in BOOLEAN, RemoveStored(n, m, h)
       PROVE  StoreInv'
  <2>1. items' = [plain |-> IF n = 2 THEN NoSeed ELSE items.plain,
                  guarded |-> IF n >= 1 THEN NoSeed ELSE items.guarded]
    BY <1>13 DEF RemoveStored, Delete
  <2>2. /\ past'.saved = NoSeed /\ past'.gone /\ past'.removed = (n = 2)
        /\ past'.raced = (past.raced \/ (n >= 1 /\ Migrating))
    <3> DEFINE raced == past.raced \/ (n >= 1 /\ Migrating)
    <3>1. past' = [past EXCEPT !.saved = NoSeed, !.gone = TRUE, !.removed = n = 2,
                               !.raced = raced]
      BY <1>13 DEF RemoveStored, Delete
    <3> HIDE DEF raced
    <3>2. past'.saved = NoSeed /\ past'.gone = TRUE /\ past'.removed = (n = 2)
          /\ past'.raced = raced
      BY <3>1 DEF StoreTypeOK, Pasts
    <3> QED BY <3>2 DEF raced
  <2>3. n = 0 => items' = items
    BY <2>1 DEF StoreTypeOK, Items
  <2>4. Carried'
    <3>1. unlock' = Stale
      BY <1>13 DEF RemoveStored
    <3> QED BY <1>3, <2>2, <2>3, <3>1, HandlerCarried DEF QuietTasks, Writing
  <2>5. Holds'
    BY <2>1, <2>2 DEF Holds, Loads, Kept, RemovalLeavesNoSeed
  <2> QED BY <2>4, <2>5
<1>14. CASE UNCHANGED storeVars
  BY <1>14, Quiet, QuietCarried DEF storeVars, QuietTasks, Writing
<1> QED
  BY <1>1, <1>2, <1>4, <1>5, <1>6, <1>7, <1>8, <1>9, <1>10, <1>11, <1>12, <1>13, <1>14
     DEF StoreNext

LEMMA InvCorrect == StoreSpec => []StoreInv
<1>1. StoreInit => StoreInv BY InvInit
<1>2. StoreTypeOK /\ StoreInv /\ [StoreNext]_storeVars => StoreInv' BY InvNext
<1> QED BY <1>1, <1>2, TypeCorrect, PTL DEF StoreSpec

\* Whichever Keychain write fails and wherever the process dies, a marked wallet has a
\* seed to open with under either preference.
THEOREM SeedLoads == StoreSpec => []MarkedSeedLoads
<1>1. StoreInv => MarkedSeedLoads
  BY DEF StoreInv, Holds, Loads, MarkedSeedLoads, Finds
<1> QED BY <1>1, InvCorrect, PTL

\* The stored wallet, its height and its marker stay what they were through switches of
\* protection, migrations and re-saves that fail half way.
THEOREM WalletKept == StoreSpec => []StoredWalletKept
<1>1. StoreInv => StoredWalletKept
  BY DEF StoreInv, Holds, Kept, StoredWalletKept, Finds
<1> QED BY <1>1, InvCorrect, PTL

\* A reported removal left no seed under either item.
THEOREM RemovalComplete ==
  StoreSpec => []RemovalLeavesNoSeed
<1>1. StoreInv => RemovalLeavesNoSeed
  BY DEF StoreInv, Holds
<1> QED BY <1>1, InvCorrect, PTL

--------------------------------------------------------------------------------
(* The two items are a vault.  That a migration moves a phrase and loses none needs to *)
(* be said of a task before it writes, too: nothing else is behind user presence.      *)

Undisturbed ==
  ~past.raced => \A u \in Unlocks :
    /\ unlock[u].step = "plain" => items.guarded = NoSeed \/ items.plain \in {items.guarded, NoSeed}
    /\ unlock[u].step = "write" => items.guarded \in {unlock[u].seed, NoSeed}

Held == {items.plain, items.guarded} \ {NoSeed}

\* No task begins to look for the legacy item.
QuietReads ==
  \A u \in Unlocks : unlock'[u].step \in {"plain", "write"} =>
    unlock'[u].step = unlock[u].step /\ unlock'[u].seed = unlock[u].seed

LEMMA QuietUndisturbed ==
  ASSUME Undisturbed, QuietReads, items' = items, past'.raced = past.raced
  PROVE  Undisturbed'
  BY DEF Undisturbed, QuietReads

LEMMA HandlerUndisturbed ==
  ASSUME Undisturbed, QuietReads, NEW n \in Nat, n = 0 => items' = items,
         past.raced \/ (n >= 1 /\ Migrating) => past'.raced
  PROVE  Undisturbed'
<1>1. CASE past'.raced
  BY <1>1 DEF Undisturbed
<1>2. CASE ~past'.raced /\ n = 0
  BY <1>2 DEF Undisturbed, QuietReads
<1>3. CASE ~past'.raced /\ n # 0
  <2>1. \A u \in Unlocks : unlock[u].step \notin {"plain", "write"}
    BY <1>3 DEF Migrating
  <2> QED BY <2>1 DEF Undisturbed, QuietReads
<1> QED BY <1>1, <1>2, <1>3

LEMMA UndisturbedInit ==
  ASSUME StoreInit PROVE Undisturbed
  BY DEF StoreInit, Undisturbed, NoTask

LEMMA QuietTask ==
  ASSUME StoreTypeOK, NEW u \in Unlocks, NEW t, t.step \notin {"plain", "write"},
         unlock' = [unlock EXCEPT ![u] = t] \/ unlock' = [Stale EXCEPT ![u] = t]
  PROVE  QuietReads
<1>1. /\ unlock \in [Unlocks -> Tasks] /\ Stale \in [Unlocks -> Tasks]
      /\ \A v \in Unlocks : Stale[v].step = unlock[v].step /\ Stale[v].seed = unlock[v].seed
  BY DEF StoreTypeOK, Stale, Tasks
<1>2. \A v \in Unlocks \ {u} : unlock'[v].step = unlock[v].step /\ unlock'[v].seed = unlock[v].seed
  BY <1>1
<1>3. unlock'[u] = t
  BY <1>1
<1> QED BY <1>2, <1>3 DEF QuietReads

\* The tasks of every step but those of the migration itself.
LEMMA QuietSteps ==
  ASSUME StoreTypeOK, NEW u \in Unlocks,
         \/ StartUnlock(u) \/ LoadFails(u) \/ OpenFails(u) \/ Dismiss(u) \/ MigrateRetire(u)
         \/ \E s, g : TaskSucceeds(u, s, g)
         \/ \E a, n, ok : Deliver(u, a, n, ok)
  PROVE  QuietReads
<1>1. NoTask.step = "none" /\ unlock[u] \in Tasks
  BY DEF NoTask, StoreTypeOK
<1>2. CASE StartUnlock(u)
  <2> DEFINE t == [NoTask EXCEPT !.step = "read", !.guarded = home.required, !.live = TRUE]
  <2>1. t.step = "read"
    BY DEF NoTask
  <2>2. unlock' = [unlock EXCEPT ![u] = t]
    BY <1>2 DEF StartUnlock
  <2> HIDE DEF t
  <2> QED BY <2>1, <2>2, QuietTask
<1>3. CASE LoadFails(u)
  <2> DEFINE t == [unlock[u] EXCEPT !.step = "done", !.seed = NoSeed]
  <2>1. t.step = "done"
    BY <1>1 DEF Tasks
  <2>2. unlock' = [unlock EXCEPT ![u] = t]
    BY <1>3 DEF LoadFails, TaskFails, StoreTypeOK
  <2> HIDE DEF t
  <2> QED BY <2>1, <2>2, QuietTask
<1>4. CASE OpenFails(u) \/ Dismiss(u) \/ \E a, n, ok : Deliver(u, a, n, ok)
  <2>1. unlock' = [unlock EXCEPT ![u] = NoTask] \/ unlock' = [Stale EXCEPT ![u] = NoTask]
    BY <1>4 DEF OpenFails, Dismiss, Deliver
  <2> QED BY <1>1, <2>1, QuietTask
<1>5. ASSUME NEW s, NEW g, TaskSucceeds(u, s, g) PROVE QuietReads
  <2> DEFINE t == [unlock[u] EXCEPT !.step = "done", !.seed = s, !.guarded = g,
                                    !.height = files.height]
  <2>1. t.step = "done"
    BY <1>1 DEF Tasks
  <2>2. unlock' = [unlock EXCEPT ![u] = t]
    BY <1>5 DEF TaskSucceeds
  <2> HIDE DEF t
  <2> QED BY <2>1, <2>2, QuietTask
<1> QED BY <1>2, <1>3, <1>4, <1>5 DEF MigrateRetire

\* What the marks of a handler's n writes say of a migration.
LEMMA SaveRaced ==
  ASSUME StoreTypeOK, NEW s \in Seeds, NEW h, NEW on, NEW n \in 0..4, NEW p,
         Save(s, h, on, n, p)
  PROVE  past'.raced = (past.raced \/ (n >= 1 /\ Migrating))
<1> DEFINE told == Marks(s, h, n)
<1>1. told \in Pasts /\ told.raced = (past.raced \/ (n >= 1 /\ Migrating))
  BY MarksType
<1>2. past' = told \/ past' = [told EXCEPT !.saved = s, !.mixed = h # s]
  BY DEF Save
<1> HIDE DEF told
<1> QED BY <1>1, <1>2 DEF Pasts

LEMMA ProtectedHolds ==
  ASSUME StoreTypeOK, NEW s \in Seeds, NEW on \in BOOLEAN, NEW n \in 0..4,
         items' = Protected(s, on, n)
  PROVE  /\ n = 0 => items' = items
         /\ n >= 1 => Held' \in {{s}} \cup {{s, t} : t \in Held}
<1>1. n = 0 => items' = items
  BY DEF Protected, StoreTypeOK, Items
<1>2. ASSUME n >= 1 PROVE Held' \in {{s}} \cup {{s, t} : t \in Held}
  <2>1. PICK t \in {items.plain, items.guarded, s, NoSeed} :
          \/ items'.plain = s /\ items'.guarded = t
          \/ items'.plain = t /\ items'.guarded = s
    BY <1>2 DEF Protected
  <2>2. Held' = {s, t} \ {NoSeed}
    BY <2>1 DEF Held
  <2>3. CASE t \in {s, NoSeed}
    BY SeedAssumption, <2>2, <2>3
  <2>4. CASE t \notin {s, NoSeed}
    <3>1. t \in Held /\ Held' = {s, t}
      BY SeedAssumption, <2>1, <2>2, <2>4 DEF Held
    <3> QED BY <3>1
  <2> QED BY <2>3, <2>4
<1> QED BY <1>1, <1>2

LEMMA OpenStores ==
  ASSUME StoreTypeOK, Undisturbed, QuietReads, NEW s \in Seeds, NEW h \in Maybe,
         NEW required \in BOOLEAN, NEW p \in Preferences, NEW a \in BOOLEAN,
         NEW n \in 0..4, NEW ok \in BOOLEAN, OpenAndSave(s, h, required, p, a, n, ok)
  PROVE  /\ Undisturbed'
         /\ past'.raced \/ Vault!Store(s)
<1> DEFINE unset == p = "unset" /\ a
           on == required \/ unset
<1>1. on \in BOOLEAN
  OBVIOUS
<1>2. PICK q \in IF ok /\ unset THEN Written(TRUE, p) ELSE {p} : Save(s, h, on, n, q)
  BY DEF OpenAndSave
<1>3. items' = Protected(s, on, n)
  BY <1>2 DEF Save
<1>4. home'.opened = s
  BY DEF OpenAndSave, StoreTypeOK, Homes
<1> HIDE DEF on, unset
<1>5. /\ n = 0 => items' = items
      /\ n >= 1 => Held' \in {{s}} \cup {{s, t} : t \in Held}
  BY <1>1, <1>3, ProtectedHolds
<1>6. past'.raced = (past.raced \/ (n >= 1 /\ Migrating))
  BY <1>2, SaveRaced
<1>7. Undisturbed' /\ (past'.raced \/ past'.raced = past.raced)
  <2> DEFINE writes == n >= 1 /\ Migrating
  <2>1. past'.raced = (past.raced \/ writes) /\ past.raced \in BOOLEAN
    BY <1>6 DEF StoreTypeOK, Pasts
  <2> HIDE DEF writes
  <2>2. (past.raced \/ writes => past'.raced) /\ (past'.raced \/ past'.raced = past.raced)
    BY <2>1, Zenon
  <2> USE DEF writes
  <2> QED BY <1>5, <2>2, HandlerUndisturbed
<1>8. /\ n = 0 => past'.removed = past.removed
      /\ n >= 1 => past'.removed = FALSE
  <2> DEFINE told == Marks(s, h, n)
  <2>1. told \in Pasts /\ told.removed = (past.removed /\ n = 0) /\ past.removed \in BOOLEAN
    BY MarksType DEF StoreTypeOK, Pasts
  <2>2. past' = told \/ past' = [told EXCEPT !.saved = s, !.mixed = h # s]
    BY <1>2 DEF Save
  <2> HIDE DEF told
  <2>3. past'.removed = (past.removed /\ n = 0)
    BY <2>1, <2>2 DEF Pasts
  <2>4. CASE n = 0
    BY <2>1, <2>3, <2>4
  <2>5. CASE n >= 1
    <3>1. past'.removed = (past.removed /\ FALSE) /\ n # 0
      BY <2>3, <2>5
    <3>2. past'.removed = FALSE
      BY <3>1, Zenon
    <3> QED BY <3>1, <3>2
  <2> QED BY <2>4, <2>5
<1>9. ASSUME past'.raced = past.raced PROVE Vault!Store(s)
  <2>1. CASE n = 0
    BY <1>4, <1>5, <1>8, <1>9, <2>1 DEF Vault!Store
  <2>2. CASE n >= 1
    BY <1>4, <1>5, <1>8, <1>9, <2>2 DEF Vault!Store, Held
  <2> QED BY <2>1, <2>2
<1> QED BY <1>7, <1>9

\* What the vault sees is left as it was.
Unseen == Held' = Held /\ home'.opened = home.opened /\ past' = past

LEMMA UnseenStutters == Unseen => UNCHANGED Vault!vars
  BY DEF Unseen, Held, Vault!vars

VaultStep == past'.raced \/ UNCHANGED Vault!vars \/ Vault!Close \/ Vault!Remove
             \/ \E s \in Seeds : Vault!Store(s)

\* Each step of the store keeps Undisturbed and is one of the vault, or none of its
\* affair; a step that races a migration is told apart here and dealt with below.
LEMMA StoreStep ==
  ASSUME StoreTypeOK, StoreInv, Undisturbed, [StoreNext]_storeVars
  PROVE  Undisturbed' /\ VaultStep
<1>1. /\ unlock \in [Unlocks -> Tasks] /\ Stale \in [Unlocks -> Tasks]
      /\ \A v \in Unlocks : Stale[v].step = unlock[v].step /\ Stale[v].seed = unlock[v].seed
  BY DEF StoreTypeOK, Stale, Tasks
<1>2. ASSUME NEW a \in BOOLEAN, Start(a) PROVE Undisturbed' /\ VaultStep
  <2>1. home'.opened = NoSeed /\ items' = items /\ past' = past /\ unlock' = unlock
    BY <1>2 DEF Start
  <2>2. Undisturbed'
    BY <2>1, QuietUndisturbed DEF QuietReads
  <2> QED BY <2>1, <2>2 DEF VaultStep, Vault!Close
<1>3. CASE Quit \/ Lock
  <2>1. home'.opened = NoSeed /\ items' = items /\ past' = past
    BY <1>3 DEF Quit, Lock, StoreTypeOK, Homes
  <2>2. QuietReads
    BY <1>1, <1>3 DEF Quit, Lock, QuietReads, NoTask
  <2> QED BY <2>1, <2>2, QuietUndisturbed DEF VaultStep, Vault!Close
<1>4. CASE Rescan
  <2>1. home' = home /\ items' = items /\ unlock' = unlock
    BY <1>4 DEF Rescan
  <2>2. past'.raced = past.raced /\ past'.removed = past.removed
    <3> DEFINE mixed == past.mixed \/ home.opened # past.saved
    <3>1. past' = [past EXCEPT !.mixed = mixed]
      BY <1>4 DEF Rescan
    <3> HIDE DEF mixed
    <3> QED BY <3>1 DEF StoreTypeOK, Pasts
  <2> QED BY <2>1, <2>2, QuietUndisturbed DEF QuietReads, VaultStep, Vault!vars
<1>5. ASSUME NEW u \in Unlocks, StartUnlock(u) \/ LoadFails(u) \/ OpenFails(u)
      PROVE  Undisturbed' /\ VaultStep
  <2>1. items' = items /\ past' = past /\ home'.opened = home.opened
    BY <1>5 DEF StartUnlock, LoadFails, OpenFails, StoreTypeOK, Homes
  <2> QED BY <1>5, <2>1, QuietSteps, QuietUndisturbed, UnseenStutters
          DEF Unseen, Held, VaultStep
<1>6. ASSUME NEW u \in Unlocks, Dismiss(u) PROVE Undisturbed' /\ VaultStep
  <2>1. items' = items /\ past' = past /\ home'.opened \in {home.opened, NoSeed}
    BY <1>6 DEF Dismiss, StoreTypeOK, Homes
  <2>2. Undisturbed'
    BY <1>6, <2>1, QuietSteps, QuietUndisturbed
  <2>3. CASE home'.opened = home.opened
    BY <2>1, <2>2, <2>3, UnseenStutters DEF Unseen, Held, VaultStep
  <2>4. CASE home'.opened = NoSeed
    BY <2>1, <2>2, <2>4 DEF VaultStep, Vault!Close
  <2> QED BY <2>1, <2>3, <2>4
<1>7. ASSUME NEW u \in Unlocks, ReadGuarded(u) PROVE Undisturbed' /\ VaultStep
  <2>1. items' = items /\ past' = past /\ home' = home
    BY <1>7 DEF ReadGuarded
  <2>2. Undisturbed'
    <3>1. CASE items.guarded # NoSeed
      BY <1>7, <2>1, <3>1, QuietSteps, QuietUndisturbed DEF ReadGuarded
    <3>2. CASE items.guarded = NoSeed
      <4>1. unlock' = [unlock EXCEPT ![u].step = "plain"]
        BY <1>7, <3>2 DEF ReadGuarded
      <4>2. \A v \in Unlocks : unlock'[v].seed = unlock[v].seed
                               /\ (unlock'[v].step = "write" => unlock[v].step = "write")
        BY <1>1, <4>1 DEF Tasks
      <4> QED BY <2>1, <3>2, <4>2 DEF Undisturbed
    <3> QED BY <3>1, <3>2
  <2> QED BY <2>1, <2>2, UnseenStutters DEF Unseen, Held, VaultStep
<1>8. ASSUME NEW u \in Unlocks, ReadPlain(u) PROVE Undisturbed' /\ VaultStep
  <2>1. items' = items /\ past' = past /\ home' = home
    BY <1>8 DEF ReadPlain
  <2>2. CASE \E s, g : TaskSucceeds(u, s, g)
    BY <2>1, <2>2, QuietSteps, QuietUndisturbed, UnseenStutters
       DEF Unseen, Held, VaultStep
  <2>3. CASE /\ items.plain # NoSeed /\ unlock[u].guarded
             /\ unlock' = [unlock EXCEPT ![u].step = "write", ![u].seed = items.plain]
    <3>1. unlock[u].step = "plain"
      BY <1>8, <2>3 DEF ReadPlain
    <3>2. unlock'[u].step = "write" /\ unlock'[u].seed = items.plain
          /\ \A v \in Unlocks \ {u} : unlock'[v] = unlock[v]
      BY <1>1, <2>3 DEF Tasks
    <3>3. Undisturbed'
      BY <2>1, <2>3, <3>1, <3>2 DEF Undisturbed
    <3> QED BY <2>1, <3>3, UnseenStutters DEF Unseen, Held, VaultStep
  <2> QED BY <1>8, <2>2, <2>3 DEF ReadPlain
<1>9. ASSUME NEW u \in Unlocks, MigrateWrite(u) PROVE Undisturbed' /\ VaultStep
  <2>1. items'.plain = items.plain /\ items'.guarded = unlock[u].seed
    BY <1>9 DEF MigrateWrite, StoreTypeOK, Items
  <2>2. unlock'[u].step = "retire" /\ \A v \in Unlocks \ {u} : unlock'[v] = unlock[v]
    BY <1>1, <1>9 DEF MigrateWrite, Tasks
  <2>3. home' = home /\ past' = past /\ unlock[u].step = "write"
    BY <1>9 DEF MigrateWrite
  <2>4. CASE past.raced
    BY <2>3, <2>4 DEF Undisturbed, VaultStep
  <2>5. CASE ~past.raced
    <3> DEFINE s == unlock[u].seed
    <3>1. /\ s \in Seeds /\ items.plain \in {s, NoSeed} /\ items.guarded \in {s, NoSeed}
          /\ items.plain = s \/ items.guarded = s
      BY <2>3, <2>5 DEF StoreInv, Carried, Writing, Undisturbed
    <3> HIDE DEF s
    <3>2. Held = {s} /\ Held' = {s}
      BY SeedAssumption, <2>1, <3>1 DEF Held, s
    <3>3. Undisturbed'
      <4> SUFFICES ASSUME NEW v \in Unlocks, v # u
                   PROVE  /\ unlock[v].step = "plain" => items.plain \in {s, NoSeed}
                          /\ unlock[v].step = "write" => s = unlock[v].seed
        BY <2>1, <2>2 DEF Undisturbed, s
      <4>1. unlock[v].step = "write" => s = unlock[v].seed
        BY SeedAssumption, <2>5, <3>1 DEF StoreInv, Carried, Writing, Undisturbed
      <4> QED BY <3>1, <4>1
    <3> QED BY <2>3, <3>2, <3>3, UnseenStutters DEF Unseen, VaultStep
  <2> QED BY <2>4, <2>5
<1>10. ASSUME NEW u \in Unlocks, MigrateRetire(u) PROVE Undisturbed' /\ VaultStep
  <2>1. items'.plain = NoSeed /\ items'.guarded = items.guarded
    BY <1>10 DEF MigrateRetire, StoreTypeOK, Items
  <2>2. home' = home /\ past' = past /\ unlock[u].step = "retire"
    BY <1>10 DEF MigrateRetire
  <2>3. CASE past.raced
    BY <2>2, <2>3 DEF Undisturbed, VaultStep
  <2>4. CASE ~past.raced
    <3> DEFINE s == unlock[u].seed
    <3>1. s \in Seeds /\ items.plain \in {s, NoSeed} /\ items.guarded = s
      BY <2>2, <2>4 DEF StoreInv, Carried, Writing
    <3>2. Held = {s} /\ Held' = {s}
      BY SeedAssumption, <2>1, <3>1 DEF Held
    <3>3. QuietReads
      BY <1>10, QuietSteps
    <3>4. Undisturbed'
      BY <2>1, <2>4, <3>3 DEF Undisturbed, QuietReads
    <3> QED BY <2>2, <3>2, <3>4, UnseenStutters DEF Unseen, VaultStep
  <2> QED BY <2>3, <2>4
<1>11. ASSUME NEW u \in Unlocks, NEW a \in BOOLEAN, NEW ok \in BOOLEAN, NEW n \in 0..4,
              Deliver(u, a, n, ok)
       PROVE  Undisturbed' /\ VaultStep
  <2>1. unlock[u] \in Tasks /\ unlock[u].seed # NoSeed
    BY <1>11 DEF Deliver, StoreTypeOK
  <2>2. unlock[u].seed \in Seeds /\ unlock[u].height \in Maybe /\ unlock[u].guarded \in BOOLEAN
    BY <2>1 DEF Tasks, Maybe
  <2>3. PICK p \in Written(unlock[u].guarded, files.preference) :
          OpenAndSave(unlock[u].seed, unlock[u].height, unlock[u].guarded, p, a, n, ok)
    BY <1>11 DEF Deliver
  <2>4. p \in Preferences
    BY <2>2, WrittenType DEF StoreTypeOK, Files
  <2>5. QuietReads
    BY <1>11, QuietSteps
  <2>6. Undisturbed' /\ (past'.raced \/ Vault!Store(unlock[u].seed))
    BY <2>2, <2>3, <2>4, <2>5, OpenStores
  <2> QED BY <2>2, <2>6 DEF VaultStep
<1>12. ASSUME NEW s \in Seeds, NEW a \in BOOLEAN, NEW ok \in BOOLEAN, NEW n \in 0..4,
              OpenTyped(s, a, n, ok)
       PROVE  Undisturbed' /\ VaultStep
  <2>1. s \in Maybe /\ home.required \in BOOLEAN /\ files.preference \in Preferences
    BY DEF Maybe, StoreTypeOK, Homes, Files
  <2>2. QuietReads
    BY <1>12 DEF OpenTyped, QuietReads
  <2>3. Undisturbed' /\ (past'.raced \/ Vault!Store(s))
    BY <1>12, <2>1, <2>2, OpenStores DEF OpenTyped
  <2> QED BY <2>3 DEF VaultStep
<1>13. ASSUME NEW n \in 0..2, ToggleDeviceAuth(n) PROVE Undisturbed' /\ VaultStep
  <2> DEFINE s == home.opened
             on == ~home.required
             writes == n >= 1 /\ Migrating
             none == n = 0
  <2>1. s \in Seeds /\ on \in BOOLEAN
    BY <1>13 DEF ToggleDeviceAuth, StoreTypeOK, Homes, Maybe
  <2>2. items' = Protected(s, on, n) /\ past' = Marks(s, s, n) /\ unlock' = unlock
    BY <1>13 DEF ToggleDeviceAuth
  <2>3. home'.opened = s
    BY <1>13 DEF ToggleDeviceAuth, StoreTypeOK, Homes
  <2>4. past'.raced = (past.raced \/ writes) /\ past'.removed = (past.removed /\ none)
        /\ past.raced \in BOOLEAN /\ past.removed \in BOOLEAN
    BY <2>2, MarksType DEF StoreTypeOK, Pasts
  <2>5. /\ n = 0 => items' = items
        /\ n >= 1 => Held' \in {{s}} \cup {{s, t} : t \in Held}
    <3> HIDE DEF s, on
    <3>1. n \in 0..4
      OBVIOUS
    <3> QED BY <2>1, <2>2, <3>1, ProtectedHolds
  <2> HIDE DEF s, on, writes, none
  <2>6. /\ past.raced \/ writes => past'.raced
        /\ past'.raced \/ past'.raced = past.raced
        /\ none => past'.removed = past.removed
        /\ ~none => past'.removed = FALSE
    BY <2>4, Zenon
  <2>7. Undisturbed'
    BY <2>2, <2>5, <2>6, HandlerUndisturbed DEF QuietReads, writes
  <2>8. CASE n = 0 /\ past'.raced = past.raced
    <3>1. Vault!Store(s)
      BY <2>3, <2>5, <2>6, <2>8 DEF Vault!Store, none
    <3> QED BY <2>1, <2>7, <3>1 DEF VaultStep
  <2>9. CASE n >= 1 /\ past'.raced = past.raced
    <3>1. Vault!Store(s)
      BY <2>3, <2>5, <2>6, <2>9 DEF Vault!Store, Held, none
    <3> QED BY <2>1, <2>7, <3>1 DEF VaultStep
  <2> QED BY <2>6, <2>7, <2>8, <2>9 DEF VaultStep
<1>14. ASSUME NEW n \in 0..2, NEW m \in BOOLEAN, NEW h \in BOOLEAN, RemoveStored(n, m, h)
       PROVE  Undisturbed' /\ VaultStep
  <2> DEFINE writes == n >= 1 /\ Migrating
             all == n = 2
  <2>1. items' = [plain |-> IF n = 2 THEN NoSeed ELSE items.plain,
                  guarded |-> IF n >= 1 THEN NoSeed ELSE items.guarded]
    BY <1>14 DEF RemoveStored, Delete
  <2>2. past'.removed = all /\ past'.raced = (past.raced \/ writes) /\ past.raced \in BOOLEAN
    <3>1. past' = [past EXCEPT !.saved = NoSeed, !.gone = TRUE, !.removed = all,
                               !.raced = @ \/ writes]
      BY <1>14 DEF RemoveStored, Delete
    <3> DEFINE raced == past.raced \/ writes
    <3>2. past' = [past EXCEPT !.saved = NoSeed, !.gone = TRUE, !.removed = all,
                               !.raced = raced]
      BY <3>1
    <3> HIDE DEF writes, all, raced
    <3>3. past'.removed = all /\ past'.raced = raced /\ past.raced \in BOOLEAN
      BY <3>2 DEF StoreTypeOK, Pasts
    <3> QED BY <3>3 DEF raced
  <2>3. home'.opened = NoSeed /\ unlock' = Stale
    BY <1>14 DEF RemoveStored, StoreTypeOK, Homes
  <2>4. /\ n = 0 => items' = items
        /\ Held' \subseteq Held /\ (n = 2 => Held' = {})
    BY <2>1 DEF StoreTypeOK, Items, Held
  <2> HIDE DEF writes, all
  <2>5. /\ past.raced \/ writes => past'.raced
        /\ past'.raced \/ past'.raced = past.raced
    BY <2>2, Zenon
  <2>6. Undisturbed'
    <3>1. QuietReads
      BY <1>1, <2>3 DEF QuietReads
    <3> QED BY <2>4, <2>5, <3>1, HandlerUndisturbed DEF writes
  <2>7. past'.removed \in BOOLEAN /\ (past'.removed => Held' = {})
    BY <2>2, <2>4 DEF all
  <2>8. ASSUME past'.raced = past.raced PROVE Vault!Remove
    BY <2>3, <2>4, <2>7, <2>8 DEF Vault!Remove, Held
  <2> QED BY <2>5, <2>6, <2>8 DEF VaultStep
<1>15. CASE UNCHANGED storeVars
  <2>1. QuietReads /\ items' = items /\ past' = past /\ home' = home
    BY <1>15 DEF storeVars, QuietReads
  <2> QED BY <2>1, QuietUndisturbed, UnseenStutters DEF Unseen, Held, VaultStep
<1> QED
  BY <1>2, <1>3, <1>4, <1>5, <1>6, <1>7, <1>8, <1>9, <1>10, <1>11, <1>12, <1>13, <1>14,
     <1>15 DEF StoreNext

LEMMA UndisturbedCorrect == StoreSpec => []Undisturbed
<1>1. StoreInit => Undisturbed BY UndisturbedInit
<1>2. StoreTypeOK /\ StoreInv /\ Undisturbed /\ [StoreNext]_storeVars => Undisturbed'
  BY StoreStep
<1> QED BY <1>1, <1>2, TypeCorrect, InvCorrect, PTL DEF StoreSpec

\* The stored seed implements the vault: through every failed write, crash, restart and
\* migration the phrases of the two Keychain items enter only from an open wallet, leave
\* only for one or in a removal, and a reported removal leaves none.
THEOREM ImplementsVault == StoreSpec => VaultSpec
<1>1. StoreInit => Vault!Init
  <2> SUFFICES ASSUME StoreInit PROVE Vault!Init
    OBVIOUS
  <2>1. PICK s \in Maybe :
          /\ items = [plain |-> s, guarded |-> NoSeed]
          /\ past = [saved |-> s, mixed |-> FALSE, raced |-> FALSE, gone |-> FALSE,
                     removed |-> FALSE]
    BY DEF StoreInit
  <2>2. home.opened = NoSeed
    BY DEF StoreInit
  <2>3. {items.plain, items.guarded} \ {NoSeed} = {s} \ {NoSeed}
    BY <2>1
  <2> QED BY <2>1, <2>2, <2>3 DEF Vault!Init, Maybe
<1>2. StoreTypeOK /\ StoreInv /\ Undisturbed /\ [StoreNext]_storeVars
        => [Vault!Next]_(Vault!vars)
  <2> SUFFICES ASSUME StoreTypeOK, StoreInv, Undisturbed, [StoreNext]_storeVars
               PROVE  [Vault!Next]_(Vault!vars)
    OBVIOUS
  <2>1. VaultStep
    BY StoreStep
  <2>2. CASE past'.raced
    <3>1. StoreTypeOK'
      BY TypeNext
    <3>2. past'.raced = TRUE /\ past'.removed \in BOOLEAN
      BY <2>2, <3>1 DEF StoreTypeOK, Pasts
    <3>3. home'.opened \in Seeds \cup {NoSeed}
      BY <3>1 DEF StoreTypeOK, Homes, Maybe
    <3>4. ({items.plain, items.guarded} \ {NoSeed})' \subseteq Seeds
      BY <3>1 DEF StoreTypeOK, Items, Maybe
    <3> QED BY <3>2, <3>3, <3>4 DEF Vault!Next, Vault!Void
  <2> QED BY <2>1, <2>2 DEF VaultStep, Vault!Next
<1> QED
  BY <1>1, <1>2, TypeCorrect, InvCorrect, UndisturbedCorrect, PTL
     DEF StoreSpec, VaultSpec, Vault!Spec
================================================================================
