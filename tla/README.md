# NexaWal: TLA+ models, checks and proofs

NexaWal (`src/src/*.rs`, Rust, GPUI) is a desktop Monero wallet. One process
shows one window; the native wallet (`nexawal-core`, here *WalletCore*, an
external crate) holds at most one open wallet in a single *native slot*. All
handlers of the window's state `Home` (`src/src/main.rs`) run one at a time on
the UI thread; everything slow is a background task that calls WalletCore and
posts a completion back to `Home`. The hard behaviour is in the interleaving of
handlers, background tasks, completions and crashes, and that is what the
models are about.

## Inventory

| Component | State | Operations | What makes it correct |
|---|---|---|---|
| Session lock and native slot (`main.rs`, `session_lock.rs`, `session_policy.rs`) | session flags, seed phrase, token, teardown flags, native keys | open, unlock, lock, seal, close, idle and background limits | keys never outlive the session unowned; a stale completion is inert; locks and teardowns end |
| Send flow (`main.rs`, `send_flow.rs`, `paths.rs`) | form, preview, review, prompt, operation, journal file | preview, review, authenticate, send, send max, relay, recover | what is signed is what was reviewed; a payment that may be on the network is never forgotten or doubled |
| Scan control and cache (`main.rs`, `paths.rs`) | refresh job, restart generation, cache file, suppression flag | clear, rescan, apply node, retry, poll | the last request wins; a deleted cache stays deleted; one session's task never touches another's |
| Receive book (`receive_book.rs`) | entries, selected, next index, file | allocate, select, relabel, load, save | indices unique and covered by the scan; memory equals disk after every edit |
| Stored wallet (`wallet_store.rs`) | two secure items, marker, restore height, preference | save, load, change protection, migrate, delete | no failed write loses the only seed or pairs it with another height; a removal removes both items |
| Restore form (`main.rs`, `seed_backup.rs`, `daemon.rs`) | phrase, check box, three words, restore height | create, import, confirm, fetch height, open | a created seed opens only after its own words were confirmed |
| History (`history.rs`, `main.rs`) | pages, revision, generation, in-flight offsets, export task | reload, page, preview, select, export | pages on display, and an exported file, are of one revision of one wallet |
| Explorer (`explorer*.rs`) | lookup, generation, cancel flag | start, page, clear | an answer is shown only for the lookup that asked |
| Fiat and amounts (`fiat*.rs`, `amount.rs`, `uri.rs`) | enabled, currency, rate, fetching, settings files, the two amounts and their units | toggle, cycle, fetch, swap, fill from a URI or QR code, Send max | a rate is of the chosen currency; a number keeps the unit it was typed in |
| Files (`paths.rs`) | marker, cache, journal, settings | atomic write, quarantine, archive | a reader sees the old or the new file |
| Text fields (`text_field.rs`, `main.rs`) | one text, selection, marked range | keys, clicks, input method | every edit slices the text between characters |
| Pure code (`network.rs`, `sync_status.rs`, `scan_tuning.rs`) | none | route, estimate | not modelled |
| Benchmark and sync audit (`benchmark.rs`) | two scans, a killed worker's checkpoint files, the verdict | scan, kill, resume, compare | a pass has seen what it says |
| Views, localisation, camera, QR | none of protocol | render | not modelled |

Interactions: `Home` calls WalletCore directly for quick calls and from
background tasks for slow ones; the journal, the cache and the receive book are
files; the secure store is the operating system's; the platform reports window
focus and shows authentication prompts.

## Modules

| Module | What it is |
|---|---|
| `SessionLock` | the session, its teardown task, the credential read and the native slot |
| `SlotLease` | what `SessionLock` promises about the native slot, its abstract specification |
| `SessionLockProofs` | theorems about `SessionLock` |
| `SendFlow` | preview to relay, recovery, crash |
| `PaymentLedger` | what `SendFlow` promises about payments, its abstract specification |
| `SendFlowProofs` | theorems about `SendFlow` |
| `ScanControl` | who starts, stops and rewinds the scan, and the scan cache file |
| `ScanControlProofs` | theorems about `ScanControl` |
| `StoredSeed` | the seed in the secure store and the files beside it |
| `SeedVault` | what `StoredSeed` promises about the phrases in the store, its abstract specification |
| `StoredSeedProofs` | theorems about `StoredSeed` |
| `ReceiveBook` | the subaddress book, its file, the lookahead and the spending source |
| `RestoreForm` | creating, importing and opening a phrase |
| `AmountForm` | fiat rates and the amounts typed in XMR or fiat |
| `TextEdit` | cursor, selection and edits of a text field |
| `FormProofs` | theorems about `RestoreForm`, `AmountForm`, `ReceiveBook` and `TextEdit` |
| `HistoryPager` | the cache of history pages and its late answers |
| `HistoryExport` | the export of a history |
| `ExplorerLookup` | the opt-in explorer request |
| `HistoryProofs` | theorems about `HistoryPager`, `HistoryExport` and `ExplorerLookup` |
| `SyncAudit`, `SyncAuditProofs` | the audits that compare two scans, and the killed worker, and theorems |
| `MCDesk` | all components from `StoredSeed` on, composed for TLC |
| `DeskProofs` | that the composition is each of its components, and keeps what they keep |
| `MCSessionLock`, `MCSendFlow`, `MCScanControl` | constants for TLC |

### SessionLock

Variables carry the names of `Home`'s fields. A handler is one action
(`OpenFromForm`, `TryUnlockStored`, `LockNow`, `RemoveStoredWallet`,
`SecurityTick`, `WindowDeactivated`, ...); what handlers call is an operator
(`LockWallet`, `CloseLockedWallet`, `SealBackgroundScan`, `OpenWithMnemonic`).
The unlock's credential read is `attempt[token]`: it starts under the session
token, `StoreRead` answers it on its own thread, `UnlockCompletes` is the
completion. The teardown task is `teardown`, which names the step of
`session_lock.rs` it stands at; `CloseSeals`, `CloseEnds`, `CloseRetries`,
`CloseErrs`, `SealEnds`, `SealErrs` are its steps and `CloseCompletes`,
`SealCompletes` its completions. `authority`, `wallet` and `scanning` are
WalletCore's slot, modelled from its uses. Time is three facts: five idle
minutes have passed (`idle`), a background scan is younger or older than two
hours (`native_background_started`), the one-second timer fires
(`SecurityTick`).

Left out: the Terms and the backup challenge (they only return early), the scan
cache and its suppression flag and the shutdown on quit (both are in
`ScanControl`), the two confirmations of a removal, and the benchmark and
probes.

Abstractions: an open either fails without a native wallet, fails after it
opened, or succeeds (`OpenFails`, `OpenFailsLate`, `OpenSucceeds`). The save of
the seed to the secure store succeeds or fails. The session generation is a
`u64` that only ever grows; the model takes a token nobody holds
(`FreeTokens`), which is sound because 2^64 locks do not pass during a read.
`MaxReads` bounds the reads in flight by the number of tokens.

### SendFlow

The form, the edited route, the preview, the review and the prompt are `Home`'s;
`task` is the next step of the one background task. `asked` and `review` are
what its closure captured. `PreviewEpoch` is a `u64` that is only compared with
captured values: `current` holds the captures it still equals ("preview" for a
preview in flight, "prompt" for a confirmation). A lock renews the epoch too,
so a capture that is current also proves that the session is still the one it
was taken in. The background task takes one action per step that another actor
can observe: `LoadJournal`, `Relay` and `ClearJournal` of an old journal, then
`Prepare`, `Persist`, `Relay`, `ClearJournal` of the new one. `Crash` may happen
anywhere and keeps only the disk and what the network has.

A route is a node and its proxy. The node travels as an argument; the proxy is
process-wide state of WalletCore (`core_route`). Fees and amounts are numbers
because fees are compared; wallets, payees, routes and payments are names.

An authentication prompt may run a nested event loop (the comment at
`main.rs:2471` expects it), so every handler may run while one is up, except
that the platform shows one prompt at a time. A session without device
authentication is a prompt that is answered at once.

Left out: balances (a nondeterministic early return), the names of archived
journals, the power loss that undoes an unsynced deletion. The teardown that
`SessionLock` models step by step is instantaneous here.

### ScanControl

The handlers that command the scan (`ApplyNetwork`, `RetryRefresh`, `Rescan`,
`ClearScanCache`, `IncreaseScanLookahead`), the poll (`Poll`, `PollCore`), the
lock life cycle as far as it touches the scan (`LockWallet`, `CloseLockedWallet`,
`SealCompletes`, ...), and the cache file. A handler that finds the scan running
cancels it and leaves a task that waits for it to stop: `restarts` is the set of
such tasks of applies and rescans, `clears` the number of those of clears.
`scan_restart_generation` is a `u64` that is only compared with captured values,
so a task carries `current` instead: whether its capture is still equal.
`running`, `scanned` and `job_node` are WalletCore's refresh job; a cancel is
not recorded, because the job may stop at any time anyway (`ScanStops`).

`teardown` is the step the close or seal task stands at. `Join` is `api::seal`,
`Export` the cache write, `NativeCloses` is `api::close`; each may fail, and a
lifecycle timeout starts it over. `Restart` is a quit, which exports the cache,
or a crash, which does not. `removed` is an auxiliary variable.

Abstractions: heights are counted in steps, each more than the three blocks that
count as synced (`main.rs:3891`); the request and the confirmation of a
maintenance action are one action; when a checkpoint is periodically due is
nondeterministic (an interval and a block count, `main.rs:3946-3954`), that a
final one is due is not; a node stands for what `scan_node_url` yields from the
policy and the address fields. `LockForInactivity` is also the window losing the
focus, which locks at once (`main.rs:7160-7165`) and keeps a running scan: tasks of
applies, rescans and clears that wait for that scan may still wait beside its seal.
When a background scan has run for two hours is nondeterministic (`RetryCleanup`).

Left out: the status fields (`scan_needs_retry`, `scan_rate`, ...), the balance
and history snapshots a poll takes, the benchmark, the unlock that waits for a
teardown (in `SessionLock`; here a seal's completion may close instead), and a
deletion of the cache that fails.

### StoredSeed

`items` is the Keychain with its two items, `files` the marker, the height (named
by the wallet it belongs to) and the preference, `home` what `Home` keeps. A
handler is one action with the number `n` of its writes that happened: a handler
that fails at a write and one whose process dies there leave the same store, the
second followed by `Quit`. An unlock is a task of `unlock`, whose read and
migration are steps between the handlers (`ReadGuarded`, `ReadPlain`,
`MigrateWrite`, `MigrateRetire`). `past` is auxiliary: what the user was last told
is stored or removed, and whether a handler changed the Keychain under a migrating
unlock (`raced`).

`SeedVault` sees of all this the set of phrases the Keychain holds (`held`), the
open session's phrase, and what the user was told. `Vault` maps the two items to
that set, so a migration and the order of two writes are invisible, while a lost, a
foreign or a resurrected phrase is not a step of the vault.

### ReceiveBook

`book` is `Home`'s copy, `book_file` the file. Indices are small numbers with
`MaxIndex` for `u32::MAX`; a label is one of three kinds, because only a separator
in it makes the file differ from the copy. `UpdateAndSave` has the outcomes of an
edit: done, refused because the file changed, refused by the disk, and done on
disk but reported as failed. `gap` is the lookahead WalletCore was given. Anybody
may change the file (`ChangeFile`); `outside` is auxiliary and remembers it.

### RestoreForm

The phrase is whole; a phrase being typed is an imported one, as every edit
(`mark_imported_seed`) treats it. The three words are answered for some phrase
(`answered`). The height is 0, the suggested one, or another; the answer of the
node comes at any time, also after the form closed.

### HistoryPager and HistoryExport

A page is known by what it was read from: wallet, revision and filter. WalletCore
is external: it answers from the ledger as it is, or refuses a revision that is
over. A generation is only compared with captured ones, so a request carries
`live` instead. `Loaded` is `load_history_page`, `Insert` the cache with its least
recently used page. The export is one task: the dialog, the loop of queries on its
thread, the two checks of the generation and the file.

### ExplorerLookup

The consent, the detail on screen and the one last drawn (a click acts on what is
drawn), the lookup and its workers. The server is external and answers anything;
`Parse` keeps of it what the code compares: the transaction, the page and the page
count. `Reconciled` is `reconcile_explorer`, which every completion and every frame
runs first.

### AmountForm

A number is known by the unit it was meant in and by whether it parses there.
`Coerced` is `coerce_amount_modes`, `Swapped` the switch of units, `FetchEnds` the
fetch's completion, `FillFromUri` the amount of a URI or QR code, `FillSendMax`,
`MaxPreviewed` and `Sent` the handlers that switch the send form to XMR. The rate
ages in memory and in the file; a settings file may fail to be written.

### TextEdit

Texts are sequences of characters of one and two bytes and a combining accent;
offsets are bytes as in the code. `Replace`, `Backspace`, `DeleteForward`,
`ReplaceText` and `ReplaceAndMark` slice at the selection, the marked range or the
input method's range. `stale` is auxiliary: a handler set the text under the
selection, or lower-casing a search changed its length.

### SyncAudit

Each node has its own chain, block by block, and nothing says the two agree. A
sequence opens (the interruption audit: after its worker was killed), probes a dead
endpoint, scans and ends with a sample; `Reports` compares the two. The worker's
cache and state are two writes, and the kill may come between them.

### The desk

`MCDesk` composes the nine modules above for TLC. They share no state: they meet
only where a wallet is opened, locked or removed, and each module has those as
steps of its own that may come at any time, so any joint behaviour is one of each
module by itself. A behaviour therefore has one subject, chosen at the start, and
the others rest in one of their first states. `MCDesk` extends the modules, so
their definitions and the properties of the run go by the names they have there;
`DeskProofs` proves that a behaviour of the desk is one of every component.

## Runs

| Run | Instance | What it shows |
|---|---|---|
| `session` | 2 wallets, one stored and one typed, 4 tokens (2 reads in flight), fairness | all safety properties of the session, that it implements `SlotLease`, and that teardowns end, a locked scan ends and a hidden spend key goes |
| `send_review` | 2 wallets, 2 routes, 2 amounts, 2 fees, 1 payment, symmetry | what is signed and relayed is what was reviewed |
| `send_recovery` | 2 wallets, 2 payments, 1 amount, fee and route, fairness | crash recovery, `PaymentLedger`, every operation ends |
| `scan_checkpoint` | chain of 1 step, 2 nodes, 2 waiting restarts, 1 waiting clear, fairness of the poll | a lock lets go on only the scan it sealed, on its checkpoint unless a clear deleted it; a teardown saves the last batch; a removed cache stays away and a cleared one does in its session; a scan that outran the marker is saved |
| `desk` | two seeds, phrases, wallets, filters, transactions or currencies; the bounds below; symmetry | every property of the nine desk modules |
| `session_late_open`, `send_sweep`, `send_route`, `send_rebound`, `scan_suppressed`, `scan_staged`, `amount_unit` | smallest instance with the case | the disagreements listed below |

Why the bounds are enough. The session code compares wallets for equality only,
so two wallets show every confusion of one with another, and the run stores one
and types the other (`TypedIsNotStored`); four tokens allow the current session, a
read of an older one and of one before that, and a free token to lock to. A lock
takes a fixed one of the free tokens (`OneFreeToken`): nothing holds a free token,
so the behaviours that take another one differ in names only. Neither constraint
stops an action that fairness is assumed of: a lock always finds that token, and
only the form and an unlock type or store a wallet. A send concerns one review at a
time: two values of each field show every stale use, and `send_recovery` needs
two payments, one in the journal and one that finds it, but no differing amounts. The scan compares heights only for equality with a marker,
so a chain of one step (a height before and a height after) already has every
stale marker and every stale file; two waiting restarts are needed to supersede
one another, and clears do not look at each other.

The desk's bounds. `Unlocks` has one element: a second unlock task can only be a
stale one, whose writes `past.raced` sets aside anyway, and the proofs cover any
number. `MaxIndex = 4` stands for `u32::MAX`, with the largest lookahead WalletCore
accepts (`CoreGap = 2`) below it as in the code, and one step of Gap limit (`GapSteps`) above
it: a book reaches the largest one, is refused more, and so never comes to the end of the indices. A
`CacheSize` of 1 makes every second page an eviction; the listing has two pages,
two revisions and two queries out at once, the least in which answers of two
generations are reordered. An export has at most three pages. The text of two
characters has positions before, inside and after a character that lower-cases to
a longer one. The audit's chains have two blocks: one below the checkpoint
(`KillHeight`) and one above, and the target may be named or not. Symmetry is used
only in runs without liveness properties; the values exchanged are only compared.

Fairness. `session` assumes that background tasks run, that completions
are delivered, and that the one-second timer fires; `CloseEnds` is strongly fair
because a close that is retried on a lifecycle timeout (`session_lock.rs:6-21`)
is retried only while a cancelled request unwinds. `send_recovery` assumes that
the background task runs, that the network answers or times out, and that
completions are delivered. `scan_checkpoint` assumes of `SavingPoll` that the
poll runs every half second (`main.rs:3763`) and that a disk asked again and
again takes a checkpoint at last; nothing else. `desk` has no liveness and assumes
nothing. Nothing is assumed of the user, of credential prompts or of errors.

## Properties

Session: `SpendAuthorityIsOwed`, `LockedScanIsSealed` (keys behind a lock belong
to somebody), `TeardownNeverUnderUse` (no teardown while an operation signs),
`StaleUnlockIsInert`, `ReopenWaitsForTeardown`, `LockedAuthorityOnlyFalls`,
`LeaseSpec`, `RememberedUnlockIsAnswered` (an unlock put off by a
teardown has one that runs, or a failed one to be retried, to answer it, and never
meets an open session), and the liveness properties `TeardownEnds`, `BackgroundScanEnds`,
`SpendKeyGoes`. `PhraseIffOpen`, `OneLiveUnlock`, `Bookkeeping` and
`SessionKeepsItsWallet` are lemmas of these that are proved rather than run.

Send: `AsReviewed`, `PreviewOfThisForm`, `ReviewHeldAtStart`,
`PaymentRecoverable`, `LedgerSpec`, `OperationEnds`; `SendStartsIdle` is proved.

Scan: `LockedScanIsTheSealedOne` (behind a lock only the seal's completion starts
a scan, and on the node of the scan it sealed, whatever tasks still wait),
`BackgroundScanKeepsCheckpoint` (that scan is ahead of a checkpoint on disk, unless
a clear deleted it and persistence is off), `FinalBatchKept` (a teardown saves the
batch committed after the cancel), `RemovedStaysRemoved`, `ClearedInSession` (a
deleted cache is not written back), `MovedScanIsSaved` (a scan that ends at a height
other than the marker's has that height in the file at last); `OneRestart` (the last
request wins) and `IdleMarkerIsOnDisk` (the export marker tells the truth) are
proved. Two of these have an exception the code really meets: a checkpoint deleted
under the seal, and a scan that ends at the marker's height with the file behind
(both under the observations below).

Store: `MarkedSeedLoads` (a wallet that is marked as stored has a seed to open
with, whichever writes failed), `StoredWalletKept` (failed switches, migrations
and restarts leave the seed and the height of the stored wallet), `VaultSpec` (a
phrase enters the Keychain only from an open wallet, leaves only for one or in a
removal, and a reported removal leaves none); `RemovalLeavesNoSeed`, the part of it
about removals, is proved rather than run. Book: `BookScanned` (an open wallet scans every subaddress
it handed out, and can read its book again), `BookIsFile` (an edit is refused as
changed only when it was), `FreshBalanceIsOfSource`. Form: `CreatedSeedConfirmed`.
History: `HistoryOfOneLedger`, `ExportIsOneLedger`. Explorer:
`ExplorerAnswersItsLookup` (the panel shows what was asked for and waits only for
a request that is out). Amounts: `AmountsKeepTheirUnit`. Text: `EditsSlice`.
Audit: `PassIsEarned`. `DeskTypeOK` also bounds the page cache.

## Where code and documentation disagree

Each is a run that TLC finds violated; `PROJECT.json` quotes the lines.

1. `TeardownOwed` (`main.rs:2688`): an open that fails after the native open
   leaves the spend key in the slot without a teardown owed.
2. `SweepAsReviewed` (`send_flow.rs:130`): a Send max is prepared again at send
   time and only its fee is compared with the review.
3. `RoutedAsReviewed` (`main.rs:958`): a scan started during a send replaces the
   process-wide proxy the send is relayed through.
4. `JournalNotRebound` (`main.rs:2784`): opening another seed recovers, relays
   and clears the journal of the wallet before it.
5. `SuppressedNeverWrites` (`session_lock.rs:53`): the seal of a background scan
   writes the cache although Clear cache suppressed it.
6. `ScanUsesAppliedNode` (`main.rs:963`): an open, retry or rescan scans on an
   edited node that was never applied.
7. `FiatNumberStaysFiat` (`main.rs:2259`): Send max with the balance unknown, and
   a completed send, switch the send form to XMR and leave the number that was
   typed in fiat.

### Observations without a run

No text of the repository rules these out, or the model's properties except them
by name.

Session, scan and store
- Clear cache's waiting task captures no generation; it may delete the cache of a
  session opened meanwhile (`main.rs:1502`, `ClearResolves`). The same task can
  break the promise at `main.rs:3245` that no view-only scan relies on unsaved
  state: the window losing the focus keeps the scan the clear waits for, the seal
  joins it and exports, the task deletes the file and switches persistence off, and
  the seal's completion resumes the scan without looking at either
  (`main.rs:3239`). `BackgroundScanKeepsCheckpoint` excepts exactly this.
- The first poll that sees a scan running takes its height for exported
  (`main.rs:3826`). A scan that committed its last batch before that poll and ends
  after it is written only by a lock or a quit, although the comment at
  `main.rs:3955` says that the final checkpoint also catches short refreshes.
  `MovedScanIsSaved` starts from the marker for this reason.
- A handler that changes the Keychain under a migrating unlock races with it: a
  removal may be followed by the seed written back, and an item just written may
  be retired (`wallet_store.rs:71`, `past.raced`).
- Switching protection off while the preference write fails is undone by the next
  unlock, which migrates the seed back, although the comment at `main.rs:3354` says
  that the actual Keychain item wins.
- A failed switch of the stored wallet may leave the new seed with the old height,
  or the reverse (`wallet_store.rs:37`); `StoredWalletKept` excepts what is so mixed
  (`past.mixed`), so no property speaks of that case.
- Neither the book nor the height file names its wallet. The error of writing a
  rescan's height is dropped (`main.rs:1599`). When the deletion of a removal
  fails, the wallet stays stored and its journal is archived (`main.rs:3279`).
- A transaction that is already mined may be refused by the relay for ever, and
  its journal then stops every later send (`send_flow.rs:94`); what a node answers
  is external.

Forms
- An edit of the seed field, even a space, turns a created seed into an imported
  one and skips the backup check (`CreatedSeedConfirmed` excepts `edited`).
- A suggested height may replace the 0 of an imported phrase (`main.rs:720`).
- A label with `|` or a newline is saved with spaces, and every later edit is then
  refused until the wallet is reopened (`receive_book.rs:23`, `:176`).
- A stale spending balance shows the figure of another subaddress (marked stale).
- Changing the currency in fiat mode keeps the number, which the next rate reads
  in the new currency when it arrives before the poll; the XMR amount of a URI or
  QR code entered in fiat mode is read as fiat; the camera's completion does not
  ask whether its session is open; a launch loads a saved rate without comparing
  its currency (`main.rs:650`, `leftover`).
- An explorer opt-out whose save fails returns at restart, as documented.
- The selection is not clamped to a character when the text changes under it:
  `current[edit_selection]` of a later copy (`main.rs:2057`) or the slices of a
  later edit (`main.rs:1893`) may then fall inside a character or past the end
  (`stale`). A search text whose lower case has another length moves under its
  own cursor (`main.rs:1831`).
- The history's date filter uses local time; `docs/transaction-history.md:4` says
  UTC.

Audit
- README.md:226 says that the two ledgers must agree on balance; the balance is
  compared only when a target height is named.
- What survives the kill is judged from a snapshot taken after the import, so an
  import that loses something is not noticed. `forced_kill` is also set when the
  worker ended by itself just before. Blocks between the two checkpoints come
  from the same node in both sequences. A transfer list that cannot be read
  counts as empty, and two of them agree.

## Proofs

All constants are arbitrary: any set of wallets, payees, amounts, fees, routes
and payments, any finite set of tokens, any seeds, phrases, currencies,
transactions, pages and offsets, chains, texts and books of any size. The only
assumptions are the named ASSUMEs of the modules, which TLC evaluates in the
runs. Most say that the bounds are numbers and that a null value is none of the
values it stands beside. Three say more. `PhraseAssumption`: a phrase the
application generates is none the user had before. `HistoryAssumption`: offset 0,
the first page, is one that can be asked for. `BookAssumption`: the largest
lookahead WalletCore accepts lies below the end of the indices
(`CoreGap + 1 < MaxIndex`), the bound `BookScanned` rests on; it is of the external
crate, whose limit is far below `u32::MAX`.

`SessionLockProofs`: `TypeCorrect` splits `TypeOK` into `Flags` (Booleans, for
Zenon) and `Values` (for SMT). `SlotOwned` proves `Bookkeeping` together with
the three slot invariants: none of them is inductive alone, because a completion
that clears a flag is safe only when the flags still describe the task behind
them; `ScanSealed` and `TeardownAlone` are two of its parts. `PhraseHidden` and
`UnlockUnique` are inductive over `Values`. `RememberedAnswered` is inductive over
`Bookkeeping`: only a locked session with a teardown under way remembers an unlock, a teardown
that succeeds answers or drops it, one that fails is still owed, and the next lock
drops it.

In the same module `StaleInert`, `ReopenWaits`, `AuthorityFalls` and
`KeepsItsWallet` first find the only actions that can make the step in question
(a credential read ends only with its own completion, the slot is filled only by
an `Opening`), then use the invariants. `KeepsItsWallet` needs one more: a seed
left in the form of an open session is the session's own. `ImplementsLease` maps
every step to a step of `SlotLease` or a stutter.

`SendFlowProofs`: one inductive invariant `IInv`, in parts named for what they
keep together. `JobInv` ties the operation, its task and its captures to the
wallet; `AskedInv` says that what was asked is a payment; `TxInv` ties the
transaction in hand to the journal and to the review; `PayInv` says that a
send's own payment is fresh until it is journalled; `FormInv` says what a
capture that is still current guarantees. They need each other: that relaying
never loses a payment needs `TxInv` (the journal is the transaction relayed),
which needs `PayInv` and `JobInv`. `TypeCorrect`, `SignsReviewed`,
`NeverForgotten` and `PreviewFits` are its parts, `ReviewHolds` and `StartsIdle`
follow for the only action that starts a send, and `ImplementsLedger` maps every
step to `PaymentLedger`.

`ScanControlProofs`: the inductive invariant `IInv` is `TypeOK` and six parts.
`OpenInv` ties an open session to the absence of a teardown and of a background
scan; `JoinInv` says that after the join of a close the scan stands still, which
`FinalBatchKept` needs; `SealInv` says what each step of a seal has reached,
or that a clear has since deleted it and switched persistence off (`Cleared`),
which `BackgroundCheckpointed` needs; `RemovedInv` says that a
removed wallet still in the slot is suppressed and that its teardown does not
export, which `RemovalHolds` needs; `OneRestart` and `FinalBatchKept` are inductive beside
them. The action properties first name the only actions that can start a scan or
write the cache (`Starters`, `Writers`), then use `IInv`. The constants are
arbitrary; `BoundsAssumption` and `DataAssumption` say that the bounds are
numbers and that the null values are no heights.

`StoredSeedProofs`: what the store holds (`Loads`, `Kept`, `RemovalLeavesNoSeed`)
is not inductive alone, because a migration retires an item that nothing says has
been replaced; `Carried` says what a task that is writing carries and where it has
put it. `Finds`, which the properties use, is what the two items give under each
preference. `ImplementsVault` needs one more invariant, `Undisturbed`: a task that
looks for the old item, or is about to protect it, has no other phrase in the
protected item to write over. `ProtectedHolds` says what any number of
`set_protection`'s writes leaves in the vault, `StoreStep` maps every step of the
store to one of the vault or to a stutter, and a step that races a migration maps to
`Void`.

`FormProofs`, in four parts. `CreatedIsConfirmed` needs `KnownCreated`, that nothing
but an opening or an edit forgets that a phrase was created. `UnitsKept` has three
parts that need `AmountTypeOK` only: `RateOfCurrency`, `FiatByConsent` and
`InItsUnit`.

The book and the text fields compute with the largest and the smallest number of a
set. That a nonempty set of numbers has a least one follows from the well-founded
order of the numbers (`LeastNatural`), that a bounded one has a greatest from the
least of its bounds (`MaxOf`). `BookInv` is the type invariant with the three
properties of the book: `BookIsFile` is what lets an edit that finds its file
unchanged rewrite it, and needs `Valid`, a part of `BookScanned`, to know that the
file it writes reads as the copy (`Formats`, `LoadedBook`); that an index just
handed out is scanned needs that the required coverage bounds every index
(`Covered`). `EditInv` is `EditTypeOK` and `EditsSlice`. Offsets count bytes
and texts count characters: the boundary before a character is the number of
characters before it and of wide ones among them (`At`), which grows with the
position (`AtGrows`) and splits over a concatenation (`AtParts`). From that,
`Inserted` shows that what an edit puts together has a boundary at every offset
the handlers then set, and `PreviousIs` and `NextIs` that the keys stop at
boundaries.

`HistoryProofs`, in three parts. `HistoryOfOneLedger` alone is not inductive: a late
answer is added to the pages, so `HistoryInv` also says of every query under way
whose generation holds (`QueryKept`) that it asks for what the pager shows, that a
page it has read is of the open wallet, of that filter and of the pager's revision
if it has one, and that it is the only one for its page (`OnePerPage`); the query
without a revision is for the first page alone. `PagerKept` ties the order of use
to the pages (`UsedOnce`, `UsedAgain`, `InsertKeeps`), so that evicting the first
of one evicts one of the other. `ExportInv` says that an export whose generation
holds reads the wallet it was started for, that one past its second check has read
nothing else, and that all pages have one revision. `PanelInv`: an answer is
published for the lookup only if it is one of its own request's
(`AnswersItsRequest`) and only the live request may be published, which is
`LoadingIsAlive`; both with `ShownIsAsked`.

`SyncAuditProofs`: a report speaks of two samples and the samples of ledgers, so the
invariant `AuditInv` follows the ledger through the audit. `CheckpointKept`: the
killed worker's cache is a beginning of its node's chain and never behind the
height its state file names, between any two writes. `SequenceKept` and
`SamplesKept`: a resumed ledger is, block by block, what the checkpoint held and
then the chain of the node it resumed with (`Continues`), unless a scan went back
on its own. `PassesAreEarned` then follows from two samples that agree, without
another step of induction.

`DeskProofs`: `DeskImplementsComponents` shows that `DeskSpec` implies the
specification of each component, since a step of one leaves the variables of the
others alone. `DeskTypeCorrect` and `DeskSafe` follow from it and the theorems of
the components, which makes all of the invariants the run `desk` checks theorems of
the specification it checks.

Only model-checked: liveness (`TeardownEnds`, `BackgroundScanEnds`,
`SpendKeyGoes`, `OperationEnds`, `MovedScanIsSaved`), because the prover has no
ENABLED and so no fairness, and the runs that expect a violation. Every invariant
and every action property that a passing run checks is a theorem. What
`Lower` makes of a search text is a fold, which the provers cannot unfold: the
proofs use only that its result fits the field and that `stale` notes a change of
it.

## Not modelled

- Network routing, sync status and scan tuning: functions of their arguments
  without state, tested beside their code.
- The throughput benchmark and the offline report script: diagnostics that run by
  themselves.
- Device authentication, camera, QR, localisation, icons and views: platform
  calls and rendering; the prompt's outcomes are in `SendFlow`.
- WalletCore, nodes, the price server and the explorer: external; what the code
  relies on is in the modules that call them.
- The fiat snapshots that label the history, the digits of amounts, the syntax of
  URIs, files and responses: data no property tells apart.
- Of the modelled parts: the free-name loops of quarantined and archived files,
  what a power loss does to writes that were not synced, the status fields of a
  scan, and quit under a teardown beyond what `ScanControl` has.

## What could follow

1. The navigation of details and screens under locks, as one module with the
   explorer and the history.
2. The network policy as a state of its own: what is staged, saved, applied and
   process-wide, which `ScanControl` and `SendFlow` each have a part of.
