----------------------------- MODULE HistoryPager -----------------------------
(***************************************************************************)
(* The transaction history (src/src/history.rs): a small cache of pages of   *)
(* one revision of WalletCore's ledger, filled by background queries that    *)
(* are answered late and in any order; the rows of the wallet screen, and the *)
(* detail of one transaction.                                                *)
(*                                                                         *)
(* WalletCore is external: it answers a query that names no revision from    *)
(* the ledger as it is, one that names the current revision alike, and any   *)
(* other with stale_history_cursor.  Two wallets may number theirs alike.    *)
(* A generation is only compared with a captured one, so a request carries   *)
(* instead whether it still holds: clear() ends that for all of them.        *)
(* Clicks act on what is drawn: a handler of the screen needs its filter     *)
(* drawn.  A frame that shows several pages is several Draw steps.           *)
(***************************************************************************)
EXTENDS Naturals, SequencesExt

CONSTANTS
  Wallets,       \* wallets that may be opened
  Filters,       \* what the search, direction and date fields may hold
  BadFilters,    \* those of them that history_query refuses
  Offsets,       \* 0..n, the pages of the longest listing
  CacheSize,     \* 4
  LastRevision,  \* bound: ledger changes in a session
  MaxQueries,    \* bound: queries out at once
  NoSource       \* no wallet, no filter, nothing read

ASSUME HistoryAssumption == LastRevision \in Nat /\ CacheSize \in Nat /\ 0 \in Offsets

VARIABLES
  core,       \* WalletCore's: whose, and which revision
  filter,     \* what the fields hold
  pager,      \* history_pages
  rows,       \* whose Home's transfers are, the wallet screen's ten rows
  requests    \* the queries under way

historyVars == <<core, filter, pager, rows, requests>>

\* What a page, a row or a detail was read from.
PageSources ==
  [account : Wallets, revision : 0..LastRevision, filter : Filters \cup {NoSource}]
\* pages: the cached ones; revision: 0 before the first; asked: the query_key drawn.
EmptyPager ==
  [pages |-> <<>>, recency |-> <<>>, in_flight |-> {}, failed |-> {}, revision |-> 0,
   asked |-> NoSource, error |-> FALSE, changed |-> FALSE, selected |-> NoSource,
   preview_running |-> FALSE]

HistoryInit ==
  /\ core = [account |-> NoSource, revision |-> 0]
  /\ filter \in Filters
  /\ pager = EmptyPager /\ rows = NoSource /\ requests = {}

CoreOpen == core.account # NoSource

(* -------------------------------- Pager --------------------------------- *)

\* Every answer still out is for a generation that is over.
Orphaned(rs) == {[r EXCEPT !.live = FALSE] : r \in rs}

\* An offset in recency is there once: retain, and push_back.
Used(recency, o) == Append(RemoveFirst(recency, o), o)

\* Mutant: nothing is evicted.
Insert_unbounded(p, o, source) ==
  LET all == [q \in DOMAIN p.pages \cup {o} |-> IF q = o THEN source ELSE p.pages[q]]
  IN [p EXCEPT !.pages = all, !.recency = Used(@, o), !.revision = source.revision]

\* insert: the least recently used page makes room.
Insert(p, o, source) ==
  LET used == Used(p.recency, o)
      kept == IF Len(used) > CacheSize THEN Tail(used) ELSE used
      all == [q \in DOMAIN p.pages \cup {o} |-> IF q = o THEN source ELSE p.pages[q]]
  IN [p EXCEPT !.pages = [q \in Range(kept) |-> all[q]], !.recency = kept,
               !.revision = source.revision]

Ask(kind, o, f, revision) ==
  [kind |-> kind, page |-> o, filter |-> f, revision |-> revision,
   live |-> TRUE, status |-> "asked", source |-> NoSource]

\* load_history_page for pages that are not cached, on a pager and the requests under
\* way: one that failed or is under way is passed over, and only the first page can be
\* asked for without a revision.
Loaded(offsets, s) ==
  LET p == s.pager
      missing == offsets \ (p.failed \cup p.in_flight)
      due == {o \in missing : o = 0 \/ p.revision # 0}
  IN IF p.changed THEN s
     ELSE IF filter \in BadFilters THEN [s EXCEPT !.pager.error = @ \/ missing # {}]
     ELSE [pager |-> [p EXCEPT !.in_flight = @ \cup due],
           requests |-> s.requests \cup {Ask("page", o, filter, p.revision) : o \in due}]

Becomes(s) ==
  /\ Cardinality(s.requests) <= MaxQueries
  /\ pager' = s.pager /\ requests' = s.requests

\* clear, keeping what was asked, and the first page again.
Restart(asked) ==
  /\ Becomes(Loaded({0}, [pager |-> [EmptyPager EXCEPT !.asked = asked],
                          requests |-> Orphaned(requests)]))
  /\ UNCHANGED <<core, filter, rows>>

(* ------------------------------- handlers ------------------------------- *)

Type(f) == CoreOpen /\ filter' = f
           /\ pager' = [pager EXCEPT !.selected = NoSource]
           /\ UNCHANGED <<core, rows, requests>>

\* screen: reset_history_query when the fields changed since it was last drawn.
Drawn == CoreOpen /\ pager.selected = NoSource /\ pager.asked = filter
DrawReset == CoreOpen /\ pager.selected = NoSource /\ pager.asked # filter /\ Restart(filter)

\* The list, which is as long as the first page said, draws a row of page o.
DrawRow(o) ==
  /\ Drawn /\ pager.revision # 0
  /\ IF o \in DOMAIN pager.pages
       THEN pager' = [pager EXCEPT !.recency = Used(@, o)] /\ UNCHANGED requests
       ELSE Becomes(Loaded({o}, [pager |-> pager, requests |-> requests]))
  /\ UNCHANGED <<core, filter, rows>>

\* "History changed", reload_history; and "Retry loading history".
Reload == Drawn /\ pager.changed /\ Restart(pager.asked)
Retry ==
  /\ Drawn /\ pager.error
  /\ Becomes(Loaded(pager.failed, [pager |-> [pager EXCEPT !.error = FALSE, !.failed = {}],
                                   requests |-> requests]))
  /\ UNCHANGED <<core, filter, rows>>

\* refresh_history_preview, every poll; select_history_transaction, a click on a row.
Preview ==
  /\ CoreOpen /\ ~pager.preview_running /\ Cardinality(requests) < MaxQueries
  /\ pager' = [pager EXCEPT !.preview_running = TRUE]
  /\ requests' = requests \cup {Ask("preview", 0, NoSource, 0)}
  /\ UNCHANGED <<core, filter, rows>>
SelectTransaction ==
  /\ CoreOpen /\ (rows # NoSource \/ pager.pages # <<>>) /\ Cardinality(requests) < MaxQueries
  /\ requests' = requests \cup {Ask("detail", 0, NoSource, 0)}
  /\ UNCHANGED <<core, filter, pager, rows>>
Deselect ==
  /\ pager.selected # NoSource
  /\ pager' = [pager EXCEPT !.selected = NoSource]
  /\ UNCHANGED <<core, filter, rows, requests>>

\* Opening; a lock and a rescan, which clear everything shown.
OpenHistory(a) ==
  /\ ~CoreOpen
  /\ \E v \in 1..LastRevision : core' = [account |-> a, revision |-> v]
  /\ UNCHANGED <<filter, pager, rows, requests>>
Cleared ==
  /\ pager' = EmptyPager /\ rows' = NoSource
  /\ requests' = Orphaned(requests)
  /\ UNCHANGED filter
LockHistory == CoreOpen /\ core' = [account |-> NoSource, revision |-> 0] /\ Cleared
RescanHistory == CoreOpen /\ UNCHANGED core /\ Cleared

(* ------------------------------- WalletCore ------------------------------ *)

AdvanceCore ==
  /\ CoreOpen /\ core.revision < LastRevision
  /\ core' = [core EXCEPT !.revision = @ + 1]
  /\ UNCHANGED <<filter, pager, rows, requests>>

\* What a query for f that names a revision reads now, NoSource for a stale cursor.
Reads(f, revision) ==
  IF CoreOpen /\ revision \in {0, core.revision}
  THEN [account |-> core.account, revision |-> core.revision, filter |-> f] ELSE NoSource

AnswerQuery(r) ==
  /\ r.status = "asked"
  /\ LET source == Reads(r.filter, r.revision)
         status == IF source # NoSource THEN "read" ELSE IF CoreOpen THEN "stale" ELSE "failed"
         answered == [r EXCEPT !.filter = NoSource, !.revision = 0]   \* no longer needed
     IN \E answer \in {[answered EXCEPT !.status = status, !.source = source],
                       [answered EXCEPT !.status = "failed"]} :
          requests' = (requests \ {r}) \cup {answer}
  /\ UNCHANGED <<core, filter, pager, rows>>

(* ------------------------------ completions ----------------------------- *)

PageAnswered(r) ==
  LET landed == [pager EXCEPT !.in_flight = @ \ {r.page}]
      failed == [landed EXCEPT !.failed = @ \cup {r.page}]
  IN /\ pager' = IF r.status = "read" THEN Insert(landed, r.page, r.source)
                 ELSE IF r.status = "stale" THEN [failed EXCEPT !.changed = TRUE]
                 ELSE [failed EXCEPT !.error = TRUE]
     /\ UNCHANGED rows

\* An empty answer while a scan is under way is passed over.
PreviewAnswered(r) ==
  LET ended == [pager EXCEPT !.preview_running = FALSE]
  IN \/ pager' = ended /\ UNCHANGED rows
     \/ /\ r.status = "read"
        /\ pager' = [ended EXCEPT !.changed =
                      @ \/ pager.revision \notin {0, r.source.revision}]
        /\ rows' = r.source.account

DetailAnswered(r) ==
  /\ \/ r.status = "read" /\ pager' = [pager EXCEPT !.selected = r.source.account]
     \/ r.status = "read" /\ pager' = [pager EXCEPT !.changed = TRUE]   \* none such
     \/ r.status # "read" /\ pager' = [pager EXCEPT !.error = TRUE]
  /\ UNCHANGED rows

\* Mutant: any generation accepts an answer.
Accepts_any_generation(r) == CoreOpen

\* Only the generation and the session that asked accept an answer.
Accepts(r) == r.live /\ CoreOpen

CompleteQuery(r) ==
  /\ r.status # "asked"
  /\ requests' = requests \ {r}
  /\ \/ ~Accepts(r) /\ UNCHANGED <<pager, rows>>
     \/ Accepts(r) /\ r.kind = "page" /\ PageAnswered(r)
     \/ Accepts(r) /\ r.kind = "preview" /\ PreviewAnswered(r)
     \/ Accepts(r) /\ r.kind = "detail" /\ DetailAnswered(r)
  /\ UNCHANGED <<core, filter>>

HistoryNext ==
  \/ \E f \in Filters : Type(f)
  \/ \E o \in Offsets : DrawRow(o)
  \/ DrawReset \/ Reload \/ Retry \/ Preview \/ SelectTransaction \/ Deselect
  \/ \E a \in Wallets : OpenHistory(a)
  \/ LockHistory \/ RescanHistory \/ AdvanceCore
  \/ \E r \in requests : AnswerQuery(r) \/ CompleteQuery(r)

HistorySpec == HistoryInit /\ [][HistoryNext]_historyVars

(* ------------------------------ properties ------------------------------ *)

\* Type correctness, and "four-page cache": the pages kept never exceed it, and the
\* order of use names exactly the pages kept, each once, so that each can be evicted.
HistoryTypeOK ==
  /\ core \in [account : Wallets \cup {NoSource}, revision : 0..LastRevision]
  /\ filter \in Filters /\ rows \in Wallets \cup {NoSource}
  /\ DOMAIN pager.pages \subseteq Offsets /\ Range(pager.pages) \subseteq PageSources
  /\ pager.in_flight \subseteq Offsets /\ pager.failed \subseteq Offsets
  /\ pager.revision \in 0..LastRevision /\ pager.asked \in Filters \cup {NoSource}
  /\ pager.selected \in Wallets \cup {NoSource}
  /\ {pager.error, pager.changed, pager.preview_running} \subseteq BOOLEAN
  /\ Len(pager.recency) <= CacheSize
  /\ IsInjective(pager.recency) /\ Range(pager.recency) = DOMAIN pager.pages

\* "A ledger revision prevents page gaps/duplication during sync": whatever answers
\* come late, repeated, refused or out of order across filter edits, reloads,
\* rescans and sessions, the cached pages are all of one revision, of the wallet
\* that is open and of the listing that was asked for; so are the rows and the detail
\* of the open wallet, and a closed one shows nothing.
HistoryOfOneLedger ==
  /\ \A o \in DOMAIN pager.pages :
       pager.pages[o] = [account |-> core.account, revision |-> pager.revision,
                         filter |-> pager.asked]
  /\ rows \in {NoSource, core.account}
  /\ pager.selected \in {NoSource, core.account}
================================================================================
