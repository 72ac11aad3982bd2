----------------------------- MODULE ReceiveBook -----------------------------
(***************************************************************************)
(* The receive subaddress book (src/src/receive_book.rs): the copy Home      *)
(* edits, the file it is reloaded from and compared with before every edit, *)
(* the lookahead WalletCore scans with, and the subaddress a send spends     *)
(* from, with the balance shown for it (src/src/main.rs).                    *)
(*                                                                         *)
(* Every operation is a handler on the UI thread.  WalletCore accepts any    *)
(* lookahead up to CoreGap, or refuses; somebody may replace or remove the   *)
(* file at any time, as the error messages expect.                          *)
(***************************************************************************)
EXTENDS Naturals, FiniteSetsExt

CONSTANTS
  MinGap,     \* 50, the smallest lookahead
  GapSteps,   \* the lookaheads "Gap limit" steps through
  CoreGap,    \* the largest lookahead WalletCore accepts
  MaxIndex,   \* u32::MAX
  Missing, Corrupt   \* no file; one that does not parse, or cannot be read

VARIABLES
  book,            \* Home's copy
  book_file,       \* the file
  wallet_open,          \* a session is open
  gap,             \* WalletCore's lookahead
  scan_gap_limit,  \* the one chosen in Settings
  spend,           \* send_from_subaddress, source index, whose balance is shown, stale
  outside          \* auxiliary: the file is not as the app's last report left it

bookVars == <<book, book_file, wallet_open, gap, scan_gap_limit, spend, outside>>

\* A label without a separator, one with '|' or a newline in it, what the file keeps
\* of that one, and none.
Labels == {"plain", "split", "blanked", "none"}
Nobody == MaxIndex + 1   \* no balance to show

\* A book has the primary address and an entry for the one selected.
Indices(b) == DOMAIN b.label
LabelMaps == UNION {[I -> Labels] : I \in SUBSET (0..MaxIndex)}
Books == {b \in [next : 1..MaxIndex, selected : 0..MaxIndex, label : LabelMaps] :
            {0, b.selected} \subseteq Indices(b)}

\* A lookahead is a number of addresses to derive: WalletCore accepts none whose book
\* could reach u32::MAX.
ASSUME BookAssumption ==
  /\ MaxIndex \in Nat /\ CoreGap \in Nat /\ MinGap \in Nat
  /\ 2 < MaxIndex /\ CoreGap + 1 < MaxIndex
  /\ GapSteps \subseteq Nat
  /\ Missing # Corrupt /\ {Missing, Corrupt} \cap Books = {}

Primary == [next |-> 1, selected |-> 0, label |-> [i \in {0} |-> "plain"]]

(* ---------------------------- receive_book.rs --------------------------- *)

\* format_book: the separators of the format become spaces.
Format(b) ==
  [b EXCEPT !.label = [i \in Indices(b) |-> IF b.label[i] = "split" THEN "blanked"
                                                                   ELSE b.label[i]]]

\* parse's demands, beyond the syntax and the unique indices a function has.
Valid(b) == b.next > Max(Indices(b)) /\ b.next # MaxIndex

\* load: only an absent file is a new book.
Load(f) == IF f = Missing THEN Primary
           ELSE IF f = Corrupt THEN Corrupt
           ELSE IF Valid(f) THEN f ELSE Corrupt

\* Mutant: only the selected subaddress counts.
RequiredCoverage_selected(b) == Max({b.selected, MinGap})

RequiredCoverage(b) == Max({Max(Indices(b)), b.next - 1, MinGap})

\* The entry before or after i, if there are two; an unknown i counts as the first.
Neighbour(b, i, forward) ==
  LET I == Indices(b)
      here == IF i \in I THEN i ELSE 0
      beyond == {j \in I : IF forward THEN j > here ELSE j < here}
  IN IF I = {0} THEN i
     ELSE IF beyond = {} THEN IF forward THEN 0 ELSE Max(I)
     ELSE IF forward THEN Min(beyond) ELSE Max(beyond)

Allocate(b) ==
  [next |-> b.next + 1, selected |-> b.next,
   label |-> [i \in Indices(b) \cup {b.next} |-> IF i = b.next THEN "none" ELSE b.label[i]]]

Unsaved == UNCHANGED <<book, book_file, outside>>

\* Mutant: the copy is edited first, and the file may then refuse.
UpdateAndSave_edits_first(b) ==
  /\ Load(book_file) = book /\ book' = b
  /\ book_file' \in {book_file, Format(b)} /\ UNCHANGED outside

\* update_and_save: refused unless the file is still the book; published only once
\* the file is replaced, which a failing directory sync reports as a failure.
UpdateAndSave(b) ==
  \/ Load(book_file) # book /\ Unsaved
  \/ /\ Load(book_file) = book
     /\ \/ book' = b /\ book_file' = Format(b) /\ UNCHANGED outside
        \/ Unsaved
        \/ book_file' = Format(b) /\ outside' = TRUE /\ UNCHANGED book

(* ------------------------------- main.rs -------------------------------- *)

NoSpend == [from |-> FALSE, index |-> 0, balance |-> Nobody, stale |-> FALSE]

BookInit ==
  /\ book = Primary /\ wallet_open = FALSE /\ gap = 0
  /\ book_file \in {Missing, Corrupt}
  /\ scan_gap_limit \in GapSteps
  /\ spend = NoSpend
  /\ outside = TRUE

\* open_with_mnemonic: an unreadable book stops it; WalletCore's refusal of the
\* lookahead the book needs closes what it opened, with the book already taken.
OpenWallet ==
  /\ ~wallet_open /\ Load(book_file) # Corrupt
  /\ book' = Load(book_file) /\ outside' = FALSE
  /\ LET coverage == Max({RequiredCoverage(book'), scan_gap_limit})
     IN \/ coverage <= CoreGap /\ wallet_open' = TRUE /\ gap' = coverage
        \/ UNCHANGED <<wallet_open, gap>>
  /\ UNCHANGED <<book_file, scan_gap_limit, spend>>

\* forget: the book stays, what was to be spent does not.
LockWallet ==
  /\ wallet_open' = FALSE /\ gap' = 0 /\ spend' = NoSpend
  /\ UNCHANGED <<book, book_file, scan_gap_limit, outside>>

\* remove_stored_wallet, once the seed is deleted: clear may fail and says nothing.
RemoveBook ==
  /\ wallet_open' = FALSE /\ gap' = 0 /\ spend' = NoSpend
  /\ book' = Primary
  /\ \/ book_file' = Missing /\ outside' = FALSE
     \/ outside' = TRUE /\ UNCHANGED book_file
  /\ UNCHANGED scan_gap_limit

\* persist_recv_label, at every edit of the label field.
SetSelectedLabel(l) ==
  /\ wallet_open
  /\ UpdateAndSave([book EXCEPT !.label[book.selected] = l])
  /\ UNCHANGED <<wallet_open, gap, scan_gap_limit, spend>>

\* cycle_receive_address.
CycleReceiveAddress(forward) ==
  /\ wallet_open
  /\ UpdateAndSave([book EXCEPT !.selected = Neighbour(book, book.selected, forward)])
  /\ UNCHANGED <<wallet_open, gap, scan_gap_limit, spend>>

\* create_receive_subaddress: the lookahead first, and only then the address.
CreateReceiveSubaddress ==
  /\ wallet_open
  /\ LET requested == Max({book.next, scan_gap_limit})
     IN /\ requested <= CoreGap
        /\ gap' = requested
        /\ UpdateAndSave(Allocate(book))
  /\ UNCHANGED <<wallet_open, scan_gap_limit, spend>>

\* increase_scan_lookahead: WalletCore, the settings file, then Home; without a
\* session only the last two.
IncreaseScanLookahead ==
  LET current == Max({scan_gap_limit, RequiredCoverage(book)})
      larger == {g \in GapSteps : g > current}
  IN /\ larger # {}
     /\ IF wallet_open THEN Min(larger) <= CoreGap /\ gap' = Min(larger) ELSE UNCHANGED gap
     /\ scan_gap_limit' \in {scan_gap_limit, Min(larger)}
     /\ UNCHANGED <<book, book_file, wallet_open, spend, outside>>

\* Mutant: a failed query leaves everything as it was.
Requeried_unmarked(s) ==
  IF ~s.from \/ ~wallet_open THEN {[s EXCEPT !.balance = Nobody, !.stale = FALSE]}
  ELSE {[s EXCEPT !.balance = s.index, !.stale = FALSE], s}

\* refresh_send_source_balance after a change to s: a failed query keeps the last
\* known balance, whichever subaddress it was of.
Requeried(s) ==
  IF ~s.from \/ ~wallet_open THEN {[s EXCEPT !.balance = Nobody, !.stale = FALSE]}
  ELSE {[s EXCEPT !.balance = s.index, !.stale = FALSE], [s EXCEPT !.stale = TRUE]}

SpendAction(s) ==
  /\ spend' \in Requeried(s)
  /\ UNCHANGED <<book, book_file, wallet_open, gap, scan_gap_limit, outside>>

\* toggle_send_from_subaddress, cycle_send_source, and the poll or the send screen.
ToggleSendFromSubaddress ==
  /\ wallet_open
  /\ SpendAction([spend EXCEPT !.from = ~@,
                               !.index = IF spend.from THEN @ ELSE book.selected])
CycleSendSource(forward) ==
  /\ wallet_open /\ spend.from
  /\ SpendAction([spend EXCEPT !.index = Neighbour(book, @, forward)])
RefreshBalance == wallet_open /\ SpendAction(spend)

\* Anybody else: a backup restored over the file, an editor, a disk.
ChangeFile(f) ==
  /\ book_file' = f /\ outside' = TRUE
  /\ UNCHANGED <<book, wallet_open, gap, scan_gap_limit, spend>>

Backup == [next |-> 3, selected |-> 2, label |-> [i \in {0, 2} |-> "plain"]]

BookNext ==
  \/ OpenWallet \/ LockWallet \/ RemoveBook
  \/ \E l \in {"plain", "split"} : SetSelectedLabel(l)
  \/ \E forward \in BOOLEAN : CycleReceiveAddress(forward) \/ CycleSendSource(forward)
  \/ CreateReceiveSubaddress \/ IncreaseScanLookahead
  \/ ToggleSendFromSubaddress \/ RefreshBalance
  \/ \E f \in {Missing, Corrupt, Backup} : ChangeFile(f)

BookSpec == BookInit /\ [][BookNext]_bookVars

(* ------------------------------ properties ------------------------------ *)

\* Type correctness.
BookTypeOK ==
  /\ book \in Books /\ book_file \in {Missing, Corrupt} \cup Books
  /\ wallet_open \in BOOLEAN /\ gap \in 0..MaxIndex /\ scan_gap_limit \in GapSteps
  /\ spend \in [from : BOOLEAN, index : 0..MaxIndex, balance : 0..Nobody, stale : BOOLEAN]
  /\ outside \in BOOLEAN

\* Whatever is created, saved, refused, restored or reopened, in whatever order, an
\* open wallet scans every subaddress it ever handed out, and a book it wrote is one
\* it can read again: the next index never reaches u32::MAX.
BookScanned ==
  wallet_open => Valid(book) /\ \A i \in Indices(book) : i <= gap

\* An edit is refused as changed by others only when it was: as long as nobody else
\* and no half-reported write has touched the file, the copy the app edits is what
\* the file reads as.  A label with a separator in it is the exception, and from
\* then on every edit is refused until the wallet is reopened.
BookIsFile ==
  wallet_open /\ ~outside /\ (\A i \in Indices(book) : book.label[i] # "split")
    => Load(book_file) = book

\* The unlocked amount beside a spending source, unless marked stale, is that
\* source's own, through failed queries, cycling and renewed switching.
FreshBalanceIsOfSource ==
  spend.from /\ ~spend.stale => spend.balance = spend.index
================================================================================
