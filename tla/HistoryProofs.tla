----------------------------- MODULE HistoryProofs -----------------------------
(***************************************************************************)
(* Proofs about the History page, for every set of wallets, filters, offsets, *)
(* transactions and pages, any cache size and any number of queries: what    *)
(* HistoryPager lists is of one ledger, a file HistoryExport writes is one    *)
(* revision of the ledger that was on the screen when it was asked for, and  *)
(* the panel of ExplorerLookup shows what was asked for and waits only for a *)
(* request that is alive.                                                   *)
(***************************************************************************)
EXTENDS HistoryPager, HistoryExport, ExplorerLookup, SequenceTheorems, TLAPS

(* ---------------------------- the order of use -------------------------- *)

\* A sequence without repetitions loses one element and nothing else.
LEMMA Removed ==
  ASSUME NEW S, NEW s \in Seq(S), IsInjective(s), NEW e
  PROVE  /\ RemoveFirst(s, e) \in Seq(S) /\ IsInjective(RemoveFirst(s, e))
         /\ Range(RemoveFirst(s, e)) = Range(s) \ {e}
         /\ Len(RemoveFirst(s, e)) <= Len(s)
<1>1. CASE \A i \in 1..Len(s) : s[i] # e
  <2>1. RemoveFirst(s, e) = s
    BY <1>1 DEF RemoveFirst
  <2> QED BY <1>1, <2>1 DEF Range
<1>2. CASE \E i \in 1..Len(s) : s[i] = e
  <2>1. PICK k \in 1..Len(s) : s[k] = e
    BY <1>2
  <2>2. SelectInSeq(s, LAMBDA v : v = e) = k
    <3>1. {i \in 1..Len(s) : s[i] = e} = {k}
      BY <2>1 DEF IsInjective
    <3>2. Min({k}) = k
      BY DEF Min
    <3> QED BY <3>1, <3>2 DEF SelectInSeq
  <2>3. RemoveFirst(s, e) = SubSeq(s, 1, k - 1) \o SubSeq(s, k + 1, Len(s))
    BY <1>2, <2>2 DEF RemoveFirst, RemoveAt
  <2> DEFINE a == SubSeq(s, 1, k - 1)
             b == SubSeq(s, k + 1, Len(s))
             r == a \o b
  <2>4. /\ a \in Seq(S) /\ Len(a) = k - 1 /\ \A i \in 1..(k - 1) : a[i] = s[i]
        /\ b \in Seq(S) /\ Len(b) = Len(s) - k /\ \A i \in 1..(Len(s) - k) : b[i] = s[k + i]
    BY <2>1
  <2> HIDE DEF a, b
  <2>5. /\ r \in Seq(S) /\ Len(r) = Len(s) - 1 /\ DOMAIN r = 1..(Len(s) - 1)
        /\ \A i \in 1..(Len(s) - 1) : r[i] = s[IF i < k THEN i ELSE i + 1]
    <3>1. /\ r \in Seq(S) /\ Len(r) = Len(a) + Len(b)
          /\ \A i \in 1..(Len(a) + Len(b)) : r[i] = IF i <= Len(a) THEN a[i] ELSE b[i - Len(a)]
      BY <2>4, ConcatProperties
    <3>2. Len(a) + Len(b) = Len(s) - 1 /\ Len(s) \in Nat
      BY <2>1, <2>4
    <3> HIDE DEF r
    <3>3. ASSUME NEW i \in 1..(Len(s) - 1) PROVE r[i] = s[IF i < k THEN i ELSE i + 1]
      <4>1. CASE i < k
        <5>1. i \in 1..(k - 1) /\ i \in 1..(Len(a) + Len(b)) /\ i <= Len(a)
          BY <2>1, <2>4, <3>2, <4>1
        <5>2. r[i] = a[i] /\ a[i] = s[i]
          BY <2>4, <3>1, <5>1
        <5> QED BY <4>1, <5>2
      <4>2. CASE ~(i < k)
        <5>1. i - (k - 1) \in 1..(Len(s) - k) /\ k + (i - (k - 1)) = i + 1
          BY <2>1, <3>2, <4>2
        <5>2. b[i - (k - 1)] = s[i + 1]
          BY <2>4, <5>1
        <5>3. i \in 1..(Len(a) + Len(b)) /\ ~(i <= Len(a)) /\ Len(a) = k - 1
          BY <2>1, <2>4, <3>2, <4>2
        <5>4. r[i] = b[i - Len(a)]
          BY <3>1, <5>3
        <5> QED BY <4>2, <5>2, <5>3, <5>4
      <4> QED BY <4>1, <4>2
    <3> QED BY <3>1, <3>2, <3>3
  <2> HIDE DEF r
  <2>6. IsInjective(r)
    <3> SUFFICES ASSUME NEW i \in 1..(Len(s) - 1), NEW j \in 1..(Len(s) - 1), r[i] = r[j]
                 PROVE  i = j
      BY <2>5 DEF IsInjective
    <3> DEFINE m == IF i < k THEN i ELSE i + 1
               n == IF j < k THEN j ELSE j + 1
    <3>1. m \in DOMAIN s /\ n \in DOMAIN s /\ s[m] = s[n]
      BY <2>5
    <3>2. m = n
      BY <3>1 DEF IsInjective
    <3> QED BY <2>1, <3>2
  <2>7. ASSUME NEW x \in Range(r) PROVE x \in Range(s) \ {e}
    <3>1. PICK i \in 1..(Len(s) - 1) : x = r[i]
      BY <2>5 DEF Range
    <3> DEFINE m == IF i < k THEN i ELSE i + 1
    <3>2. m \in DOMAIN s /\ m # k /\ x = s[m]
      BY <2>1, <2>5, <3>1
    <3> QED BY <2>1, <3>2 DEF Range, IsInjective
  <2>8. ASSUME NEW x \in Range(s) \ {e} PROVE x \in Range(r)
    <3>1. PICK i \in 1..Len(s) : x = s[i] /\ i # k
      BY <2>1 DEF Range
    <3> DEFINE m == IF i < k THEN i ELSE i - 1
    <3>2. m \in 1..(Len(s) - 1) /\ r[m] = x
      BY <2>1, <2>5, <3>1
    <3> QED BY <2>5, <3>2 DEF Range
  <2>9. Len(s) \in Nat /\ RemoveFirst(s, e) = r
    BY <2>3 DEF a, b, r
  <2>10. Range(r) = Range(s) \ {e}
    BY <2>7, <2>8
  <2> QED BY <2>5, <2>6, <2>9, <2>10
<1> QED BY <1>1, <1>2

LEMMA UsedOnce ==
  ASSUME NEW S, NEW s \in Seq(S), IsInjective(s), NEW o \in S
  PROVE  /\ Used(s, o) \in Seq(S) /\ IsInjective(Used(s, o))
         /\ Range(Used(s, o)) = Range(s) \cup {o}
         /\ Len(Used(s, o)) <= Len(s) + 1
<1> DEFINE r == RemoveFirst(s, o)
           u == Append(r, o)
<1>1. /\ r \in Seq(S) /\ IsInjective(r) /\ Range(r) = Range(s) \ {o} /\ Len(r) <= Len(s)
      /\ Len(r) \in Nat
  BY Removed
<1>2. Used(s, o) = u
  BY DEF Used
<1> HIDE DEF r
<1>3. /\ u \in Seq(S) /\ Len(u) = Len(r) + 1 /\ DOMAIN u = 1..(Len(r) + 1)
      /\ DOMAIN r = 1..Len(r)
      /\ u[Len(r) + 1] = o /\ \A i \in 1..Len(r) : u[i] = r[i]
  BY <1>1
<1> HIDE DEF u
<1>4. \A i \in 1..Len(r) : r[i] # o
  BY <1>1, <1>3 DEF Range
<1>5. IsInjective(u)
  <2> SUFFICES ASSUME NEW i \in 1..(Len(r) + 1), NEW j \in 1..(Len(r) + 1), u[i] = u[j]
               PROVE  i = j
    BY <1>3 DEF IsInjective
  <2> QED BY <1>1, <1>3, <1>4 DEF IsInjective
<1>6. Range(u) = Range(r) \cup {o}
  <2>1. \A i \in 1..Len(r) : i \in 1..(Len(r) + 1)
    BY <1>1
  <2>2. Len(r) + 1 \in 1..(Len(r) + 1)
    BY <1>1
  <2>3. ASSUME NEW i \in 1..(Len(r) + 1) PROVE i \in 1..Len(r) \/ i = Len(r) + 1
    BY <1>1
  <2> QED BY <1>3, <2>1, <2>2, <2>3 DEF Range
<1>7. Len(s) \in Nat
  OBVIOUS
<1> QED BY <1>1, <1>2, <1>3, <1>5, <1>6, <1>7

\* An order of use named again keeps its length.
LEMMA UsedAgain ==
  ASSUME NEW S, NEW s \in Seq(S), IsInjective(s), NEW o \in Range(s)
  PROVE  Len(Used(s, o)) <= Len(s)
<1>1. PICK k \in 1..Len(s) : s[k] = o
  BY DEF Range
<1>2. SelectInSeq(s, LAMBDA v : v = o) = k
  <2>1. {i \in 1..Len(s) : s[i] = o} = {k}
    BY <1>1 DEF IsInjective
  <2>2. Min({k}) = k
    BY DEF Min
  <2> QED BY <2>1, <2>2 DEF SelectInSeq
<1>3. RemoveFirst(s, o) = SubSeq(s, 1, k - 1) \o SubSeq(s, k + 1, Len(s))
  BY <1>1, <1>2 DEF RemoveFirst, RemoveAt
<1>4. RemoveFirst(s, o) \in Seq(S) /\ Len(RemoveFirst(s, o)) = Len(s) - 1
  <2> DEFINE a == SubSeq(s, 1, k - 1)
             b == SubSeq(s, k + 1, Len(s))
  <2>1. a \in Seq(S) /\ Len(a) = k - 1 /\ b \in Seq(S) /\ Len(b) = Len(s) - k
    BY <1>1
  <2>2. RemoveFirst(s, o) = a \o b
    BY <1>3
  <2> HIDE DEF a, b
  <2> QED BY <1>1, <2>1, <2>2
<1> QED BY <1>4 DEF Used

(* ------------------------ the inductive invariant ----------------------- *)

PageMaps == UNION {[O -> PageSources] : O \in SUBSET Offsets}
Pagers ==
  [pages : PageMaps, recency : Seq(Offsets), in_flight : SUBSET Offsets,
   failed : SUBSET Offsets, revision : 0..LastRevision, asked : Filters \cup {NoSource},
   error : BOOLEAN, changed : BOOLEAN, selected : Wallets \cup {NoSource},
   preview_running : BOOLEAN]
Queries ==
  [kind : {"page", "preview", "detail"}, page : Offsets, filter : Filters \cup {NoSource},
   revision : 0..LastRevision, live : BOOLEAN, status : {"asked", "read", "stale", "failed"},
   source : PageSources \cup {NoSource}]

\* The pages of a pager are of its revision, of the open wallet and of what was asked.
PagerKept(p) ==
  /\ p \in Pagers
  /\ Len(p.recency) <= CacheSize /\ IsInjective(p.recency)
  /\ Range(p.recency) = DOMAIN p.pages
  /\ p.revision = 0 => DOMAIN p.pages = {}
  /\ \A o \in DOMAIN p.pages :
       p.pages[o] = [account |-> core.account, revision |-> p.revision, filter |-> p.asked]
  /\ p.selected \in {NoSource, core.account}

\* A query whose generation holds is for the open wallet; one for a page is the only
\* one for it, asks for what the pager shows, and names its revision if it has one.
QueryKept(r, p) ==
  r.live =>
    /\ CoreOpen
    /\ r.status = "read" =>
         /\ r.source \in PageSources
         /\ r.source.account = core.account /\ r.source.revision # 0
    /\ r.kind = "page" =>
         /\ r.page \in p.in_flight /\ (p.revision = 0 => r.page = 0)
         /\ r.status = "asked" => r.filter = p.asked /\ r.revision = p.revision
         /\ r.status = "read" =>
              r.source.filter = p.asked /\ p.revision \in {0, r.source.revision}
OnePerPage(rs) ==
  \A r, q \in rs :
    /\ r.live /\ q.live /\ r.kind = "page" /\ q.kind = "page"
    /\ r.page = q.page
    => r = q
QueriesKept(rs, p) == rs \subseteq Queries /\ OnePerPage(rs) /\ \A r \in rs : QueryKept(r, p)

HistoryInv ==
  /\ core \in [account : Wallets \cup {NoSource}, revision : 0..LastRevision]
  /\ CoreOpen => core.revision # 0
  /\ ~CoreOpen => pager.revision = 0
  /\ filter \in Filters /\ rows \in {NoSource, core.account}
  /\ PagerKept(pager) /\ QueriesKept(requests, pager)

\* What is kept of a query depends on three of the pager's fields.
LEMMA SameQueries ==
  ASSUME NEW p, NEW q, NEW rs, QueriesKept(rs, p), q.in_flight = p.in_flight,
         q.revision = p.revision, q.asked = p.asked
  PROVE  QueriesKept(rs, q)
  BY DEF QueriesKept, QueryKept

\* And of a pager, on none of its flags and of what is under way.
LEMMA SamePages ==
  ASSUME NEW p, NEW q \in Pagers, PagerKept(p), q.pages = p.pages, q.recency = p.recency,
         q.revision = p.revision, q.asked = p.asked, q.selected \in {NoSource, core.account}
  PROVE  PagerKept(q)
  BY DEF PagerKept

LEMMA FewerQueries ==
  ASSUME NEW p, NEW rs, QueriesKept(rs, p), NEW fewer, fewer \subseteq rs
  PROVE  QueriesKept(fewer, p)
  BY DEF QueriesKept, OnePerPage

LEMMA OverQueries ==
  ASSUME NEW p, NEW q, NEW rs, QueriesKept(rs, p)
  PROVE  QueriesKept(Orphaned(rs), q)
<1>1. \A r \in Orphaned(rs) : r \in Queries /\ r.live = FALSE
  BY DEF Orphaned, QueriesKept, Queries
<1> QED BY <1>1 DEF QueriesKept, QueryKept, OnePerPage

\* A pager that holds nothing, whatever it is asked for.
LEMMA FirstPager ==
  ASSUME NEW p \in Pagers, p.pages = <<>>, p.recency = <<>>, p.selected = NoSource
  PROVE  PagerKept(p)
<1>1. Len(<<>>) = 0 /\ DOMAIN <<>> = {} /\ IsInjective(<<>>) /\ Range(<<>>) = {}
  BY DEF IsInjective, Range
<1> QED BY <1>1, HistoryAssumption DEF PagerKept

LEMMA FirstPagers ==
  ASSUME NEW wanted \in Filters \cup {NoSource},
         NEW p \in {EmptyPager, [EmptyPager EXCEPT !.asked = wanted]}
  PROVE  /\ PagerKept(p) /\ p.revision = 0 /\ p.pages = <<>> /\ p.selected = NoSource
         /\ [EmptyPager EXCEPT !.asked = wanted].asked = wanted
<1>1. <<>> \in Seq(Offsets) /\ DOMAIN <<>> = {}
  OBVIOUS
<1>2. <<>> \in PageMaps
  <2>1. <<>> \in [{} -> PageSources] /\ {} \in SUBSET Offsets
    BY <1>1
  <2> QED BY <2>1 DEF PageMaps
<1>3. EmptyPager \in Pagers
  <2>1. 0 \in 0..LastRevision /\ {} \in SUBSET Offsets
    BY HistoryAssumption
  <2> QED BY <1>1, <1>2, <2>1 DEF EmptyPager, Pagers
<1>4. /\ EmptyPager.pages = <<>> /\ EmptyPager.recency = <<>>
      /\ EmptyPager.selected = NoSource /\ EmptyPager.revision = 0
  BY DEF EmptyPager
<1>5. /\ p \in Pagers /\ p.pages = <<>> /\ p.recency = <<>> /\ p.selected = NoSource
      /\ p.revision = 0 /\ [EmptyPager EXCEPT !.asked = wanted].asked = wanted
  BY <1>3, <1>4 DEF Pagers
<1> QED BY <1>5, FirstPager

\* The steps that leave WalletCore alone.
LEMMA StepKeeps ==
  ASSUME HistoryInv, core' = core, filter' \in Filters, rows' \in {NoSource, core.account},
         NEW p, pager' = p, PagerKept(p), NEW rs, requests' = rs, QueriesKept(rs, p),
         ~CoreOpen => p.revision = 0
  PROVE  HistoryInv'
<1>1. PagerKept(pager)'
  BY DEF PagerKept
<1>2. QueriesKept(requests, pager)'
  BY DEF QueriesKept, OnePerPage, QueryKept, CoreOpen
<1>3. CoreOpen' <=> CoreOpen
  BY DEF CoreOpen
<1> QED BY <1>1, <1>2, <1>3 DEF HistoryInv

\* Pages are asked for once each, and a page without a revision is the first.
LEMMA LoadedKeeps ==
  ASSUME HistoryInv, CoreOpen, NEW p, PagerKept(p), p.asked = filter,
         NEW rs, QueriesKept(rs, p), NEW offsets \in SUBSET Offsets
  PROVE  LET t == Loaded(offsets, [pager |-> p, requests |-> rs])
         IN PagerKept(t.pager) /\ QueriesKept(t.requests, t.pager)
<1> DEFINE s == [pager |-> p, requests |-> rs]
           t == Loaded(offsets, s)
           missing == offsets \ (p.failed \cup p.in_flight)
           due == {o \in missing : o = 0 \/ p.revision # 0}
           added == {Ask("page", o, filter, p.revision) : o \in due}
<1>1. t = IF p.changed THEN s
          ELSE IF filter \in BadFilters THEN [s EXCEPT !.pager.error = @ \/ missing # {}]
          ELSE [pager |-> [p EXCEPT !.in_flight = @ \cup due], requests |-> rs \cup added]
  BY DEF Loaded
<1>2. p \in Pagers
  BY DEF PagerKept
<1>3. CASE p.changed
  BY <1>1, <1>3
<1>4. CASE ~p.changed /\ filter \in BadFilters
  <2> DEFINE q == [p EXCEPT !.error = p.error \/ missing # {}]
  <2>1. t = [pager |-> q, requests |-> rs]
    BY <1>1, <1>4
  <2>2. q \in Pagers
    BY <1>2 DEF Pagers
  <2>3. /\ q.pages = p.pages /\ q.recency = p.recency /\ q.revision = p.revision
        /\ q.asked = p.asked /\ q.selected = p.selected /\ q.in_flight = p.in_flight
    BY <1>2 DEF Pagers
  <2> HIDE DEF q
  <2>4. PagerKept(q) /\ QueriesKept(rs, q)
    BY <2>2, <2>3, SamePages, SameQueries DEF PagerKept
  <2> QED BY <2>1, <2>4
<1>5. CASE ~p.changed /\ filter \notin BadFilters
  <2> DEFINE q == [p EXCEPT !.in_flight = p.in_flight \cup due]
  <2>1. t = [pager |-> q, requests |-> rs \cup added]
    BY <1>1, <1>5
  <2>2. due \subseteq Offsets
    OBVIOUS
  <2>3. q \in Pagers
    BY <1>2, <2>2 DEF Pagers
  <2>4. /\ q.pages = p.pages /\ q.recency = p.recency /\ q.revision = p.revision
        /\ q.asked = p.asked /\ q.selected = p.selected
        /\ q.in_flight = p.in_flight \cup due
    BY <1>2 DEF Pagers
  <2>5. \A o \in due : o \notin p.in_flight /\ (p.revision = 0 => o = 0)
    OBVIOUS
  <2>6. PagerKept(q)
    BY <2>3, <2>4, SamePages DEF PagerKept
  <2>7. ASSUME NEW r \in added
        PROVE  /\ r \in Queries /\ r.page \in due /\ r.kind = "page" /\ QueryKept(r, q)
               /\ r = Ask("page", r.page, filter, p.revision)
    <3>1. PICK o \in due : r = Ask("page", o, filter, p.revision)
      OBVIOUS
    <3>2. r = [kind |-> "page", page |-> o, filter |-> filter, revision |-> p.revision,
               live |-> TRUE, status |-> "asked", source |-> NoSource]
      BY <3>1 DEF Ask
    <3>3. filter \in Filters /\ p.revision \in 0..LastRevision
      BY <1>2 DEF HistoryInv, Pagers
    <3>4. r \in Queries
      BY <2>2, <3>2, <3>3 DEF Queries
    <3> HIDE DEF due, q
    <3>5. QueryKept(r, q)
      BY <2>4, <2>5, <3>2 DEF QueryKept
    <3> QED BY <3>1, <3>2, <3>4, <3>5
  <2> HIDE DEF added, due, q, missing
  <2>8. \A r \in rs : QueryKept(r, p) /\ r \in Queries
    BY DEF QueriesKept
  <2>9. \A r \in rs : QueryKept(r, q)
    BY <2>4, <2>8 DEF QueryKept
  <2>10. OnePerPage(rs \cup added)
    <3> SUFFICES ASSUME NEW a \in rs \cup added, NEW b \in rs \cup added,
                        a.live, b.live, a.kind = "page", b.kind = "page", a.page = b.page
                 PROVE  a = b
      BY DEF OnePerPage
    <3>1. CASE a \in rs /\ b \in rs
      BY <3>1 DEF QueriesKept, OnePerPage
    <3>2. \A r \in rs : r.live /\ r.kind = "page" => r.page \in p.in_flight
      BY <2>8 DEF QueryKept
    <3>3. CASE a \in added /\ b \in added
      BY <2>7, <3>3
    <3> QED BY <2>5, <2>7, <3>1, <3>2, <3>3
  <2>11. QueriesKept(rs \cup added, q)
    BY <2>7, <2>8, <2>9, <2>10 DEF QueriesKept
  <2>12. t.pager = q /\ t.requests = rs \cup added
    BY <2>1
  <2> QED BY <2>6, <2>11, <2>12
<1> QED BY <1>3, <1>4, <1>5

\* A page that lands on a pager of its revision, or of none yet.
LEMMA InsertKeeps ==
  ASSUME HistoryInv, NEW p, PagerKept(p), NEW o \in Offsets, NEW source \in PageSources,
         source.account = core.account, source.revision # 0, source.filter = p.asked,
         p.revision \in {0, source.revision}
  PROVE  /\ PagerKept(Insert(p, o, source))
         /\ Insert(p, o, source).in_flight = p.in_flight
         /\ Insert(p, o, source).asked = p.asked
         /\ Insert(p, o, source).revision = source.revision
<1> DEFINE used == Used(p.recency, o)
           kept == IF Len(used) > CacheSize THEN Tail(used) ELSE used
           all == [q \in DOMAIN p.pages \cup {o} |-> IF q = o THEN source ELSE p.pages[q]]
           pages == [q \in Range(kept) |-> all[q]]
           i == Insert(p, o, source)
<1>1. i = [p EXCEPT !.pages = pages, !.recency = kept, !.revision = source.revision]
  BY DEF Insert
<1>2. p \in Pagers /\ p.recency \in Seq(Offsets) /\ p.pages \in PageMaps
  BY DEF PagerKept, Pagers
<1>3. /\ used \in Seq(Offsets) /\ IsInjective(used) /\ Len(used) <= CacheSize + 1
      /\ Range(used) = DOMAIN p.pages \cup {o} /\ Len(used) \in Nat
  <2>1. /\ used \in Seq(Offsets) /\ IsInjective(used) /\ Len(used) <= Len(p.recency) + 1
        /\ Range(used) = Range(p.recency) \cup {o}
    BY <1>2, UsedOnce DEF PagerKept
  <2>2. Len(used) \in Nat /\ Len(p.recency) \in Nat
    BY <1>2, <2>1
  <2> HIDE DEF used
  <2> QED BY <2>1, <2>2, HistoryAssumption DEF PagerKept
<1> HIDE DEF used
<1>4. /\ kept \in Seq(Offsets) /\ IsInjective(kept) /\ Len(kept) <= CacheSize
      /\ Range(kept) \subseteq Range(used)
  <2>1. CASE Len(used) > CacheSize
    <3>1. used # <<>>
      BY <1>3, <2>1, HistoryAssumption
    <3>2. /\ Tail(used) \in Seq(Offsets) /\ Len(Tail(used)) = Len(used) - 1
          /\ \A k \in 1..(Len(used) - 1) : Tail(used)[k] = used[k + 1]
      BY <1>3, <3>1
    <3>3. DOMAIN Tail(used) = 1..(Len(used) - 1) /\ DOMAIN used = 1..Len(used)
      BY <1>3, <3>2
    <3>4. \A k \in 1..(Len(used) - 1) : k + 1 \in 1..Len(used)
      BY <1>3
    <3>5. IsInjective(Tail(used))
      <4> SUFFICES ASSUME NEW k \in 1..(Len(used) - 1), NEW m \in 1..(Len(used) - 1),
                          Tail(used)[k] = Tail(used)[m]
                   PROVE  k = m
        BY <3>3 DEF IsInjective
      <4>1. used[k + 1] = used[m + 1]
        BY <3>2
      <4>2. k + 1 = m + 1
        BY <1>3, <3>3, <3>4, <4>1 DEF IsInjective
      <4> QED BY <4>2
    <3>6. Range(Tail(used)) \subseteq Range(used)
      BY <3>2, <3>3, <3>4 DEF Range
    <3> QED BY <1>3, <2>1, <3>2, <3>5, <3>6, HistoryAssumption
  <2>2. CASE ~(Len(used) > CacheSize)
    BY <1>3, <2>2, HistoryAssumption
  <2> QED BY <2>1, <2>2
<1> HIDE DEF kept
<1>5. DOMAIN p.pages \subseteq Offsets
  BY <1>2 DEF PageMaps
<1>6. p.pages \in [DOMAIN p.pages -> PageSources]
  BY <1>2 DEF PageMaps
<1>7. /\ DOMAIN pages = Range(kept) /\ Range(kept) \subseteq DOMAIN p.pages \cup {o}
      /\ \A q \in Range(kept) : pages[q] = IF q = o THEN source ELSE p.pages[q]
  BY <1>3, <1>4
<1> HIDE DEF pages
<1>8. pages \in PageMaps
  <2>1. \A q \in Range(kept) : pages[q] \in PageSources
    BY <1>6, <1>7
  <2>2. pages = [q \in Range(kept) |-> pages[q]]
    BY <1>7 DEF pages
  <2>3. pages \in [Range(kept) -> PageSources] /\ Range(kept) \in SUBSET Offsets
    BY <1>5, <1>7, <2>1, <2>2
  <2> QED BY <2>3 DEF PageMaps
<1>9. source.revision \in 0..LastRevision
  BY DEF PageSources
<1>10. i \in Pagers
  BY <1>1, <1>2, <1>4, <1>8, <1>9 DEF Pagers
<1>11. /\ i.pages = pages /\ i.recency = kept /\ i.revision = source.revision
       /\ i.in_flight = p.in_flight /\ i.asked = p.asked /\ i.selected = p.selected
  BY <1>1, <1>2 DEF Pagers
<1> HIDE DEF i
<1>12. ASSUME NEW q \in DOMAIN pages
       PROVE  pages[q] = [account |-> core.account, revision |-> source.revision,
                          filter |-> p.asked]
  <2>1. CASE q = o
    BY <1>7, <1>12, <2>1 DEF PageSources
  <2>2. CASE q # o
    BY <1>7, <1>12, <2>2 DEF PagerKept
  <2> QED BY <2>1, <2>2
<1>13. PagerKept(i)
  BY <1>4, <1>7, <1>10, <1>11, <1>12 DEF PagerKept
<1> QED BY <1>11, <1>13 DEF i

(* --------------------------------- steps -------------------------------- *)

LEMMA RestartKeeps ==
  ASSUME HistoryInv, CoreOpen, NEW wanted, wanted = filter, Restart(wanted)
  PROVE  HistoryInv'
<1> DEFINE p == [EmptyPager EXCEPT !.asked = wanted]
           rs == Orphaned(requests)
           t == Loaded({0}, [pager |-> p, requests |-> rs])
<1>1. /\ UNCHANGED <<core, filter, rows>> /\ pager' = t.pager /\ requests' = t.requests
  BY DEF Restart, Becomes
<1>2. wanted \in Filters \cup {NoSource} /\ {0} \in SUBSET Offsets
  BY HistoryAssumption DEF HistoryInv
<1>3. PagerKept(p) /\ p.asked = filter
  BY <1>2, FirstPagers
<1>4. QueriesKept(rs, p)
  BY OverQueries DEF HistoryInv
<1> HIDE DEF p, rs
<1>5. PagerKept(t.pager) /\ QueriesKept(t.requests, t.pager)
  BY <1>2, <1>3, <1>4, LoadedKeeps
<1> HIDE DEF t
<1> QED BY <1>1, <1>5, StepKeeps DEF HistoryInv

LEMMA DrawRowKeeps == ASSUME HistoryInv, NEW o \in Offsets, DrawRow(o) PROVE HistoryInv'
<1>1. CoreOpen /\ pager.asked = filter /\ UNCHANGED <<core, filter, rows>>
  BY DEF DrawRow, Drawn
<1>2. CASE o \in DOMAIN pager.pages
  <2> DEFINE used == Used(pager.recency, o)
             p == [pager EXCEPT !.recency = used]
  <2>1. pager' = p /\ requests' = requests
    BY <1>2 DEF DrawRow
  <2>2. /\ pager \in Pagers /\ pager.recency \in Seq(Offsets) /\ IsInjective(pager.recency)
        /\ Range(pager.recency) = DOMAIN pager.pages /\ Len(pager.recency) <= CacheSize
        /\ PagerKept(pager)
    BY DEF HistoryInv, PagerKept, Pagers
  <2>3. /\ used \in Seq(Offsets) /\ IsInjective(used) /\ Range(used) = DOMAIN pager.pages
        /\ Len(used) <= CacheSize
    <3>1. /\ used \in Seq(Offsets) /\ IsInjective(used)
          /\ Range(used) = Range(pager.recency) \cup {o}
      BY <2>2, UsedOnce
    <3>2. Len(used) <= Len(pager.recency)
      BY <1>2, <2>2, UsedAgain
    <3>3. Len(used) \in Nat /\ Len(pager.recency) \in Nat
      BY <2>2, <3>1
    <3> HIDE DEF used
    <3> QED BY <1>2, <2>2, <3>1, <3>2, <3>3, HistoryAssumption
  <2> HIDE DEF used
  <2>4. /\ p \in Pagers /\ p.recency = used /\ p.pages = pager.pages
        /\ p.revision = pager.revision /\ p.asked = pager.asked
        /\ p.in_flight = pager.in_flight /\ p.selected = pager.selected
    BY <2>2, <2>3 DEF Pagers
  <2> HIDE DEF p
  <2>5. PagerKept(p)
    BY <2>2, <2>3, <2>4 DEF PagerKept
  <2>6. QueriesKept(requests, p)
    BY <2>4, SameQueries DEF HistoryInv
  <2> QED BY <1>1, <2>1, <2>5, <2>6, StepKeeps DEF HistoryInv
<1>3. CASE o \notin DOMAIN pager.pages
  <2> DEFINE t == Loaded({o}, [pager |-> pager, requests |-> requests])
  <2>1. pager' = t.pager /\ requests' = t.requests
    BY <1>3 DEF DrawRow, Becomes
  <2>2. PagerKept(t.pager) /\ QueriesKept(t.requests, t.pager)
    BY <1>1, LoadedKeeps DEF HistoryInv
  <2> HIDE DEF t
  <2> QED BY <1>1, <2>1, <2>2, StepKeeps DEF HistoryInv
<1> QED BY <1>2, <1>3

LEMMA RetryKeeps == ASSUME HistoryInv, Retry PROVE HistoryInv'
<1> DEFINE p == [pager EXCEPT !.error = FALSE, !.failed = {}]
           t == Loaded(pager.failed, [pager |-> p, requests |-> requests])
<1>1. /\ CoreOpen /\ pager.asked = filter /\ UNCHANGED <<core, filter, rows>>
      /\ pager' = t.pager /\ requests' = t.requests
  BY DEF Retry, Drawn, Becomes
<1>2. pager \in Pagers /\ PagerKept(pager) /\ QueriesKept(requests, pager)
  BY DEF HistoryInv, PagerKept
<1>3. /\ p \in Pagers /\ p.recency = pager.recency /\ p.pages = pager.pages
      /\ p.revision = pager.revision /\ p.asked = pager.asked
      /\ p.in_flight = pager.in_flight /\ p.selected = pager.selected
  BY <1>2 DEF Pagers
<1> HIDE DEF p
<1>4. PagerKept(p) /\ QueriesKept(requests, p) /\ pager.failed \in SUBSET Offsets
  BY <1>2, <1>3, SamePages, SameQueries DEF PagerKept, Pagers
<1>5. PagerKept(t.pager) /\ QueriesKept(t.requests, t.pager)
  BY <1>1, <1>3, <1>4, LoadedKeeps
<1> HIDE DEF t
<1> QED BY <1>1, <1>5, StepKeeps DEF HistoryInv

\* The steps that only set a flag of the pager, or the transaction selected.
LEMMA FlagKeeps ==
  ASSUME HistoryInv, core' = core, filter' \in Filters, rows' \in {NoSource, core.account},
         NEW error \in BOOLEAN, NEW changed \in BOOLEAN, NEW running \in BOOLEAN,
         NEW selected \in {NoSource, core.account},
         pager' = [pager EXCEPT !.error = error, !.changed = changed, !.selected = selected,
                                !.preview_running = running],
         QueriesKept(requests', pager)
  PROVE  HistoryInv'
<1> DEFINE p == [pager EXCEPT !.error = error, !.changed = changed, !.selected = selected,
                              !.preview_running = running]
<1>1. pager \in Pagers /\ PagerKept(pager) /\ selected \in Wallets \cup {NoSource}
  BY DEF HistoryInv, PagerKept
<1>2. /\ p \in Pagers /\ p.recency = pager.recency /\ p.pages = pager.pages
      /\ p.revision = pager.revision /\ p.asked = pager.asked
      /\ p.in_flight = pager.in_flight /\ p.selected = selected
  BY <1>1 DEF Pagers
<1>3. pager' = p
  OBVIOUS
<1> HIDE DEF p
<1>4. PagerKept(p) /\ QueriesKept(requests', p)
  BY <1>1, <1>2, SamePages, SameQueries
<1> QED BY <1>2, <1>3, <1>4, StepKeeps DEF HistoryInv

\* A query that is not for a page says nothing of the pages.
LEMMA OtherAsked ==
  ASSUME HistoryInv, CoreOpen, NEW kind \in {"preview", "detail"}
  PROVE  QueriesKept(requests \cup {Ask(kind, 0, NoSource, 0)}, pager)
<1> DEFINE a == Ask(kind, 0, NoSource, 0)
<1>1. a = [kind |-> kind, page |-> 0, filter |-> NoSource, revision |-> 0, live |-> TRUE,
           status |-> "asked", source |-> NoSource]
  BY DEF Ask
<1>2. a \in Queries /\ a.kind # "page" /\ QueryKept(a, pager)
  <2>1. 0 \in 0..LastRevision /\ 0 \in Offsets
    BY HistoryAssumption
  <2>2. a \in Queries
    <3>1. /\ kind \in {"page", "preview", "detail"} /\ TRUE \in BOOLEAN
          /\ "asked" \in {"asked", "read", "stale", "failed"}
          /\ NoSource \in Filters \cup {NoSource}
          /\ NoSource \in PageSources \cup {NoSource}
      OBVIOUS
    <3> HIDE DEF a
    <3> QED BY <1>1, <2>1, <3>1, Zenon DEF Queries
  <2>3. a.kind # "page" /\ a.status # "read"
    BY <1>1
  <2> QED BY <2>2, <2>3 DEF QueryKept
<1> HIDE DEF a
<1>3. QueriesKept(requests, pager)
  BY DEF HistoryInv
<1>4. OnePerPage(requests \cup {a})
  BY <1>2, <1>3 DEF QueriesKept, OnePerPage
<1>5. QueriesKept(requests \cup {a}, pager)
  BY <1>2, <1>3, <1>4 DEF QueriesKept
<1> QED BY <1>5 DEF a

LEMMA PreviewKeeps == ASSUME HistoryInv, Preview \/ SelectTransaction PROVE HistoryInv'
<1>1. pager \in Pagers /\ pager.selected \in {NoSource, core.account}
      /\ rows \in {NoSource, core.account} /\ filter \in Filters
  BY DEF HistoryInv, PagerKept
<1>2. CoreOpen /\ UNCHANGED <<core, filter, rows>>
  BY DEF Preview, SelectTransaction
<1>3. CASE Preview
  <2>1. pager' = [pager EXCEPT !.error = pager.error, !.changed = pager.changed,
                               !.selected = pager.selected, !.preview_running = TRUE]
    BY <1>1, <1>3 DEF Preview, Pagers
  <2>2. QueriesKept(requests', pager)
    BY <1>2, <1>3, OtherAsked DEF Preview
  <2> QED BY <1>1, <1>2, <2>1, <2>2, FlagKeeps DEF Pagers
<1>4. CASE SelectTransaction
  <2>1. QueriesKept(requests', pager) /\ pager' = pager
    BY <1>2, <1>4, OtherAsked DEF SelectTransaction
  <2> QED BY <1>1, <1>2, <2>1, StepKeeps DEF HistoryInv
<1> QED BY <1>3, <1>4

LEMMA SelectionKeeps ==
  ASSUME HistoryInv, (\E f \in Filters : Type(f)) \/ Deselect PROVE HistoryInv'
<1>1. pager \in Pagers /\ QueriesKept(requests, pager)
  BY DEF HistoryInv, PagerKept
<1>2. /\ core' = core /\ rows' = rows /\ requests' = requests /\ filter' \in Filters
      /\ pager' = [pager EXCEPT !.selected = NoSource]
  BY DEF Type, Deselect, HistoryInv
<1>3. pager' = [pager EXCEPT !.error = pager.error, !.changed = pager.changed,
                             !.selected = NoSource,
                             !.preview_running = pager.preview_running]
  BY <1>1, <1>2 DEF Pagers
<1> QED BY <1>1, <1>2, <1>3, FlagKeeps DEF HistoryInv, Pagers

\* Opening finds nothing shown; a lock and a rescan leave nothing and no generation.
LEMMA SessionKeeps ==
  ASSUME HistoryInv,
         \/ \E a \in Wallets : OpenHistory(a)
         \/ LockHistory \/ RescanHistory \/ AdvanceCore
  PROVE  HistoryInv'
<1>1. ASSUME NEW a \in Wallets, OpenHistory(a) PROVE HistoryInv'
  <2>1. PICK v \in 1..LastRevision : core' = [account |-> a, revision |-> v]
    BY <1>1 DEF OpenHistory
  <2>2. /\ ~CoreOpen /\ UNCHANGED <<filter, pager, rows, requests>>
        /\ core.account = NoSource /\ rows = NoSource
        /\ pager.revision = 0 /\ DOMAIN pager.pages = {} /\ pager.selected = NoSource
    BY <1>1 DEF OpenHistory, CoreOpen, HistoryInv, PagerKept
  <2>3. core' \in [account : Wallets \cup {NoSource}, revision : 0..LastRevision]
        /\ core'.revision # 0
    BY <2>1
  <2>4. PagerKept(pager)'
    BY <2>2 DEF PagerKept, HistoryInv
  <2>5. \A r \in requests : ~r.live
    BY <2>2 DEF HistoryInv, QueriesKept, QueryKept, Queries
  <2>6. QueriesKept(requests, pager)'
    BY <2>2, <2>5 DEF QueriesKept, OnePerPage, QueryKept, HistoryInv
  <2> QED BY <2>2, <2>3, <2>4, <2>6 DEF HistoryInv
<1>2. CASE LockHistory \/ RescanHistory
  <2>1. /\ core' \in {core, [account |-> NoSource, revision |-> 0]}
        /\ pager' = EmptyPager /\ rows' = NoSource /\ requests' = Orphaned(requests)
        /\ filter' = filter
    BY <1>2 DEF LockHistory, RescanHistory, Cleared
  <2>2. PagerKept(EmptyPager) /\ EmptyPager.revision = 0 /\ EmptyPager.selected = NoSource
        /\ EmptyPager.pages = <<>>
    BY FirstPagers
  <2>3. DOMAIN EmptyPager.pages = {}
    BY <2>2
  <2>5. PagerKept(pager)'
    BY <2>1, <2>2, <2>3 DEF PagerKept
  <2>6. \A r \in Orphaned(requests) : r \in Queries /\ r.live = FALSE
    BY DEF Orphaned, HistoryInv, QueriesKept, Queries
  <2>7. QueriesKept(requests, pager)'
    BY <2>1, <2>6 DEF QueriesKept, OnePerPage, QueryKept
  <2>8. core' \in [account : Wallets \cup {NoSource}, revision : 0..LastRevision]
        /\ (CoreOpen' => core'.revision # 0)
    BY <2>1, HistoryAssumption DEF CoreOpen, HistoryInv
  <2> QED BY <2>1, <2>2, <2>5, <2>7, <2>8 DEF HistoryInv
<1>3. CASE AdvanceCore
  <2>1. /\ CoreOpen /\ core.revision < LastRevision /\ core.revision # 0
        /\ core' = [core EXCEPT !.revision = @ + 1]
        /\ UNCHANGED <<filter, pager, rows, requests>>
        /\ core \in [account : Wallets \cup {NoSource}, revision : 0..LastRevision]
    BY <1>3 DEF AdvanceCore, HistoryInv
  <2>2. /\ core'.account = core.account /\ core'.revision = core.revision + 1
        /\ core'.revision # 0
        /\ core' \in [account : Wallets \cup {NoSource}, revision : 0..LastRevision]
    BY <2>1, HistoryAssumption
  <2>3. PagerKept(pager)' /\ QueriesKept(requests, pager)'
    <3>1. PagerKept(pager)'
      BY <2>1, <2>2 DEF PagerKept, HistoryInv
    <3>2. QueriesKept(requests, pager)'
      BY <2>1, <2>2 DEF QueriesKept, OnePerPage, QueryKept, HistoryInv, CoreOpen
    <3> QED BY <3>1, <3>2
  <2> QED BY <2>1, <2>2, <2>3 DEF HistoryInv, CoreOpen
<1> QED BY <1>1, <1>2, <1>3

\* An answer is read from the open wallet, and from the revision named if there is one.
LEMMA AnswerKeeps ==
  ASSUME HistoryInv, NEW r \in requests, AnswerQuery(r) PROVE HistoryInv'
<1> DEFINE source == Reads(r.filter, r.revision)
           status == IF source # NoSource THEN "read" ELSE IF CoreOpen THEN "stale" ELSE "failed"
           answered == [r EXCEPT !.filter = NoSource, !.revision = 0]
           read == [answered EXCEPT !.status = status, !.source = source]
           failed == [answered EXCEPT !.status = "failed"]
<1>1. PICK a \in {read, failed} : requests' = (requests \ {r}) \cup {a}
  BY DEF AnswerQuery
<1>2. r.status = "asked" /\ UNCHANGED <<core, filter, pager, rows>>
  BY DEF AnswerQuery
<1>3. r \in Queries /\ QueryKept(r, pager) /\ QueriesKept(requests, pager)
  BY DEF HistoryInv, QueriesKept
<1>4. ASSUME source # NoSource
      PROVE  /\ source \in PageSources /\ source.account = core.account
             /\ source.revision = core.revision /\ core.revision # 0
             /\ source.filter = r.filter /\ r.revision \in {0, source.revision}
  <2>1. /\ CoreOpen /\ r.revision \in {0, core.revision}
        /\ source = [account |-> core.account, revision |-> core.revision, filter |-> r.filter]
    BY <1>4 DEF Reads
  <2>2. core.account \in Wallets /\ core.revision \in 0..LastRevision /\ core.revision # 0
    BY <2>1 DEF HistoryInv, CoreOpen
  <2>3. r.filter \in Filters \cup {NoSource}
    BY <1>3 DEF Queries
  <2> HIDE DEF source
  <2> QED BY <2>1, <2>2, <2>3 DEF PageSources
<1> HIDE DEF source
<1>5. /\ a \in Queries /\ a.kind = r.kind /\ a.page = r.page /\ a.live = r.live
      /\ a.status # "asked" /\ (a.status = "read" => a.source = source /\ source # NoSource)
  <2>1. source \in PageSources \cup {NoSource}
    BY <1>4
  <2>2. status \in {"asked", "read", "stale", "failed"} /\ status # "asked"
        /\ (status = "read" => source # NoSource)
    OBVIOUS
  <2> HIDE DEF status
  <2>3. answered \in Queries /\ answered.kind = r.kind /\ answered.page = r.page
        /\ answered.live = r.live
    <3>1. 0 \in 0..LastRevision
      BY HistoryAssumption
    <3> QED BY <1>3, <3>1 DEF Queries
  <2> HIDE DEF answered
  <2>4. CASE a = read
    BY <2>1, <2>2, <2>3, <2>4 DEF Queries
  <2>5. CASE a = failed
    BY <2>3, <2>5 DEF Queries
  <2> QED BY <2>4, <2>5
<1> HIDE DEF read, failed, status, answered
<1>6. QueryKept(a, pager)
  BY <1>2, <1>3, <1>4, <1>5 DEF QueryKept
<1>7. QueriesKept((requests \ {r}) \cup {a}, pager)
  <2>1. OnePerPage((requests \ {r}) \cup {a})
    BY <1>3, <1>5 DEF QueriesKept, OnePerPage
  <2> QED BY <1>3, <1>5, <1>6, <2>1 DEF QueriesKept
<1> QED BY <1>1, <1>2, <1>7, StepKeeps DEF HistoryInv

LEMMA PageKeeps ==
  ASSUME HistoryInv, NEW r \in requests, CompleteQuery(r), r.live, CoreOpen, r.kind = "page",
         PageAnswered(r)
  PROVE  HistoryInv'
<1> DEFINE landed == [pager EXCEPT !.in_flight = @ \ {r.page}]
           failed == [landed EXCEPT !.failed = @ \cup {r.page}]
           left == requests \ {r}
<1>1. /\ r.status # "asked" /\ requests' = left /\ UNCHANGED <<core, filter, rows>>
      /\ pager' = IF r.status = "read" THEN Insert(landed, r.page, r.source)
                  ELSE IF r.status = "stale" THEN [failed EXCEPT !.changed = TRUE]
                  ELSE [failed EXCEPT !.error = TRUE]
  BY DEF CompleteQuery, PageAnswered
<1>2. pager \in Pagers /\ PagerKept(pager) /\ r \in Queries /\ QueriesKept(requests, pager)
      /\ QueryKept(r, pager)
  BY DEF HistoryInv, PagerKept, QueriesKept
<1>3. /\ landed \in Pagers /\ landed.recency = pager.recency /\ landed.pages = pager.pages
      /\ landed.revision = pager.revision /\ landed.asked = pager.asked
      /\ landed.in_flight = pager.in_flight \ {r.page} /\ landed.selected = pager.selected
      /\ r.page \in Offsets
  BY <1>2 DEF Pagers, Queries
<1> HIDE DEF landed
<1>4. PagerKept(landed)
  BY <1>2, <1>3, SamePages DEF PagerKept
<1>5. ASSUME NEW q \in left, q.live, q.kind = "page" PROVE q.page # r.page
  BY <1>2, <1>5 DEF QueriesKept, OnePerPage
<1>6. QueriesKept(left, landed)
  <2>1. QueriesKept(left, pager)
    BY <1>2, FewerQueries
  <2> HIDE DEF left
  <2>2. ASSUME NEW q \in left PROVE QueryKept(q, landed)
    BY <1>3, <1>5, <2>1, <2>2 DEF QueriesKept, QueryKept
  <2> QED BY <2>1, <2>2 DEF QueriesKept
<1>7. CASE r.status = "read"
  <2> DEFINE p == Insert(landed, r.page, r.source)
  <2>1. /\ r.source \in PageSources /\ r.source.account = core.account
        /\ r.source.revision # 0 /\ r.source.filter = landed.asked
        /\ landed.revision \in {0, r.source.revision}
        /\ (pager.revision = 0 => r.page = 0)
    BY <1>2, <1>3, <1>7 DEF QueryKept
  <2>2. /\ PagerKept(p) /\ p.in_flight = landed.in_flight /\ p.asked = landed.asked
        /\ p.revision = r.source.revision
    BY <1>3, <1>4, <2>1, InsertKeeps
  <2> HIDE DEF p
  <2>3. QueriesKept(left, p)
    <3>1. CASE landed.revision = r.source.revision
      BY <1>6, <2>2, <3>1, SameQueries
    <3>2. CASE landed.revision = 0
      <4>1. ASSUME NEW q \in left PROVE ~(q.live /\ q.kind = "page")
        <5> HIDE DEF left
        <5>1. q.live /\ q.kind = "page" => q.page = 0 /\ r.page = 0
          BY <1>3, <1>6, <2>1, <3>2 DEF QueriesKept, QueryKept
        <5> QED BY <1>5, <5>1
      <4> HIDE DEF left
      <4> QED BY <1>6, <4>1 DEF QueriesKept, QueryKept
    <3> QED BY <2>1, <3>1, <3>2
  <2>4. pager' = p
    BY <1>1, <1>7 DEF p
  <2> QED BY <1>1, <2>2, <2>3, <2>4, StepKeeps DEF HistoryInv
<1>8. CASE r.status # "read"
  <2>1. PICK e \in {[failed EXCEPT !.changed = TRUE], [failed EXCEPT !.error = TRUE]} : pager' = e
    BY <1>1, <1>8
  <2>2. failed \in Pagers /\ failed.recency = landed.recency /\ failed.pages = landed.pages
        /\ failed.revision = landed.revision /\ failed.asked = landed.asked
        /\ failed.in_flight = landed.in_flight /\ failed.selected = landed.selected
    BY <1>3 DEF Pagers
  <2> HIDE DEF failed
  <2>3. e \in Pagers /\ e.recency = landed.recency /\ e.pages = landed.pages
        /\ e.revision = landed.revision /\ e.asked = landed.asked
        /\ e.in_flight = landed.in_flight /\ e.selected = landed.selected
    BY <2>2 DEF Pagers
  <2>4. PagerKept(e) /\ QueriesKept(left, e)
    BY <1>4, <1>6, <2>3, SamePages, SameQueries DEF PagerKept
  <2> QED BY <1>1, <2>1, <2>4, StepKeeps DEF HistoryInv
<1> QED BY <1>7, <1>8

LEMMA CompleteKeeps ==
  ASSUME HistoryInv, NEW r \in requests, CompleteQuery(r) PROVE HistoryInv'
<1>1. /\ requests' = requests \ {r} /\ UNCHANGED <<core, filter>>
      /\ QueriesKept(requests', pager) /\ pager \in Pagers
      /\ pager.selected \in {NoSource, core.account} /\ filter \in Filters
      /\ rows \in {NoSource, core.account}
  BY FewerQueries DEF CompleteQuery, HistoryInv, PagerKept
<1>2. CASE UNCHANGED <<pager, rows>>
  BY <1>1, <1>2, StepKeeps DEF HistoryInv
<1>3. CASE Accepts(r) /\ r.kind = "page" /\ PageAnswered(r)
  BY <1>3, PageKeeps DEF Accepts
<1>4. Accepts(r) /\ r.status = "read" => r.source.account = core.account
  BY DEF HistoryInv, QueriesKept, QueryKept, Accepts
<1>5. CASE Accepts(r) /\ r.kind = "preview" /\ PreviewAnswered(r)
  <2> DEFINE ended == [pager EXCEPT !.preview_running = FALSE]
             differs == ended.changed \/ pager.revision \notin {0, r.source.revision}
  <2>1. \/ pager' = ended /\ rows' = rows
        \/ /\ r.status = "read" /\ rows' = r.source.account
           /\ pager' = [ended EXCEPT !.changed = differs]
    BY <1>5 DEF PreviewAnswered
  <2>2. rows' \in {NoSource, core.account}
    BY <1>1, <1>4, <1>5, <2>1
  <2>3. ended.changed = pager.changed /\ pager.changed \in BOOLEAN /\ pager.error \in BOOLEAN
    BY <1>1 DEF Pagers
  <2>4. differs \in BOOLEAN
    BY <2>3
  <2> HIDE DEF differs
  <2>5. \E changed \in BOOLEAN :
          pager' = [pager EXCEPT !.error = pager.error, !.changed = changed,
                                 !.selected = pager.selected, !.preview_running = FALSE]
    <3>1. CASE pager' = ended
      <4>1. pager' = [pager EXCEPT !.error = pager.error, !.changed = pager.changed,
                                   !.selected = pager.selected, !.preview_running = FALSE]
        BY <1>1, <3>1 DEF Pagers
      <4> QED BY <2>3, <4>1
    <3>2. CASE pager' = [ended EXCEPT !.changed = differs]
      <4>1. pager' = [pager EXCEPT !.error = pager.error, !.changed = differs,
                                   !.selected = pager.selected, !.preview_running = FALSE]
        BY <1>1, <3>2 DEF Pagers
      <4> QED BY <2>4, <4>1
    <3> QED BY <2>1, <3>1, <3>2
  <2> QED BY <1>1, <2>2, <2>3, <2>5, FlagKeeps
<1>6. CASE Accepts(r) /\ r.kind = "detail" /\ DetailAnswered(r)
  <2>1. /\ rows' = rows
        /\ \/ r.status = "read" /\ pager' = [pager EXCEPT !.selected = r.source.account]
           \/ pager' = [pager EXCEPT !.changed = TRUE]
           \/ pager' = [pager EXCEPT !.error = TRUE]
    BY <1>6 DEF DetailAnswered
  <2>2. pager.changed \in BOOLEAN /\ pager.error \in BOOLEAN /\ pager.preview_running \in BOOLEAN
    BY <1>1 DEF Pagers
  <2>3. CASE r.status = "read" /\ pager' = [pager EXCEPT !.selected = r.source.account]
    <3>1. r.source.account = core.account
      BY <1>4, <1>6, <2>3
    <3>2. pager' = [pager EXCEPT !.error = pager.error, !.changed = pager.changed,
                                 !.selected = core.account,
                                 !.preview_running = pager.preview_running]
      BY <1>1, <2>3, <3>1 DEF Pagers
    <3> QED BY <1>1, <2>1, <2>2, <3>2, FlagKeeps
  <2>4. CASE pager' = [pager EXCEPT !.changed = TRUE]
    <3>1. pager' = [pager EXCEPT !.error = pager.error, !.changed = TRUE,
                                 !.selected = pager.selected,
                                 !.preview_running = pager.preview_running]
      BY <1>1, <2>4 DEF Pagers
    <3> QED BY <1>1, <2>1, <2>2, <3>1, FlagKeeps
  <2>5. CASE pager' = [pager EXCEPT !.error = TRUE]
    <3>1. pager' = [pager EXCEPT !.error = TRUE, !.changed = pager.changed,
                                 !.selected = pager.selected,
                                 !.preview_running = pager.preview_running]
      BY <1>1, <2>5 DEF Pagers
    <3> QED BY <1>1, <2>1, <2>2, <3>1, FlagKeeps
  <2> QED BY <2>1, <2>3, <2>4, <2>5
<1> QED BY <1>2, <1>3, <1>5, <1>6 DEF CompleteQuery

LEMMA HistorySteps == ASSUME HistoryInv, [HistoryNext]_historyVars PROVE HistoryInv'
<1>1. CASE UNCHANGED historyVars
  BY <1>1, StepKeeps DEF historyVars, HistoryInv
<1>2. CASE DrawReset
  BY <1>2, RestartKeeps DEF DrawReset
<1>3. CASE Reload
  BY <1>3, RestartKeeps DEF Reload, Drawn
<1> QED BY <1>1, <1>2, <1>3, SelectionKeeps, DrawRowKeeps, RetryKeeps, PreviewKeeps,
           SessionKeeps, AnswerKeeps, CompleteKeeps DEF HistoryNext

LEMMA HistoryStarts == HistoryInit => HistoryInv
<1> SUFFICES ASSUME HistoryInit PROVE HistoryInv
  OBVIOUS
<1>1. /\ core = [account |-> NoSource, revision |-> 0] /\ filter \in Filters
      /\ pager = EmptyPager /\ rows = NoSource /\ requests = {}
  BY DEF HistoryInit
<1>2. PagerKept(EmptyPager) /\ EmptyPager.revision = 0
  BY FirstPagers
<1>3. PagerKept(pager)
  BY <1>1, <1>2
<1>4. QueriesKept({}, pager)
  BY DEF QueriesKept, OnePerPage
<1> QED BY <1>1, <1>2, <1>3, <1>4, HistoryAssumption DEF HistoryInv, CoreOpen

LEMMA HistoryStaysInv == HistorySpec => []HistoryInv
  BY HistoryStarts, HistorySteps, PTL DEF HistorySpec

(* ------------------------------- the theorems --------------------------- *)

\* The cache of history.rs never holds more pages than its size, and its order of use
\* names exactly those it holds, each once, through every insert and touch.
THEOREM HistoryTypeCorrect == HistorySpec => []HistoryTypeOK
<1>1. ASSUME HistoryInv PROVE HistoryTypeOK
  <2>1. /\ pager \in Pagers /\ PagerKept(pager) /\ pager.pages \in PageMaps
        /\ core.account \in Wallets \cup {NoSource}
    BY <1>1 DEF HistoryInv, PagerKept, Pagers
  <2>2. PICK O \in SUBSET Offsets : pager.pages \in [O -> PageSources]
    BY <2>1 DEF PageMaps
  <2>3. DOMAIN pager.pages \subseteq Offsets /\ Range(pager.pages) \subseteq PageSources
    BY <2>2 DEF Range
  <2>4. /\ pager.in_flight \subseteq Offsets /\ pager.failed \subseteq Offsets
        /\ pager.revision \in 0..LastRevision /\ pager.asked \in Filters \cup {NoSource}
        /\ pager.selected \in Wallets \cup {NoSource}
        /\ {pager.error, pager.changed, pager.preview_running} \subseteq BOOLEAN
    BY <2>1 DEF Pagers
  <2> QED BY <1>1, <2>1, <2>3, <2>4 DEF HistoryTypeOK, HistoryInv, PagerKept
<1> QED BY <1>1, HistoryStaysInv, PTL

\* clear() ends a generation and insert() takes the revision of the page: what is cached,
\* listed and selected is one revision of the open wallet's ledger and one listing.
THEOREM OneLedger == HistorySpec => []HistoryOfOneLedger
<1>1. HistoryInv => HistoryOfOneLedger
  BY DEF HistoryInv, PagerKept, HistoryOfOneLedger
<1> QED BY <1>1, HistoryStaysInv, PTL

--------------------------------------------------------------------------------
(* HistoryExport *)

\* What a query adds to the pages read.
LEMMA Appended ==
  ASSUME NEW S, NEW s \in Seq(S), NEW e \in S
  PROVE  /\ Append(s, e) \in Seq(S) /\ Len(Append(s, e)) = Len(s) + 1
         /\ \A i \in DOMAIN Append(s, e) :
              Append(s, e)[i] = e \/ (i \in DOMAIN s /\ Append(s, e)[i] = s[i])
  OBVIOUS

Exports == [step : {"none", "dialog", "loop", "read", "write", "written"}, live : BOOLEAN,
            read : Seq(Sources)]
ExportValues == ExportTypeOK /\ export \in Exports

LEMMA ExportTypeNext ==
  ASSUME ExportValues, [ExportNext]_exportVars PROVE ExportValues'
<1> USE DEF ExportValues, ExportTypeOK
<1>1. ASSUME NEW a \in Accounts, Open(a) PROVE ExportValues'
  BY <1>1 DEF Open, Sources
<1>2. CASE Invalidate
  BY <1>2 DEF Invalidate, Exports
<1>3. CASE Advance
  BY ExportAssumption, <1>3 DEF Advance, Opened, NoLedger
<1>4. NoExport \in Exports /\ NoExport.read = <<>> /\ Len(<<>>) = 0
  BY DEF NoExport, Exports
<1>5. CASE StartExport
  <2>1. ledger.account \in Accounts
    BY <1>5 DEF StartExport, Opened, NoLedger
  <2> QED BY ExportAssumption, <1>5, <2>1 DEF StartExport, Exports
<1>6. ASSUME NEW s, NEW n \in {"loop", "write"}, Check(s, n) PROVE ExportValues'
  BY ExportAssumption, <1>4, <1>6 DEF Check, Exports
<1>7. CASE ReadPage
  <2>1. CASE export' = NoExport
    BY ExportAssumption, <1>4, <1>7, <2>1 DEF ReadPage, Exports
  <2>2. ASSUME NEW n \in {"loop", "read"}, Opened,
               export' = [export EXCEPT !.step = n, !.read = Append(@, ledger)]
        PROVE  ExportValues'
    <3>1. ledger \in Sources
      BY <2>2 DEF Opened, NoLedger, Sources
    <3>2. Append(export.read, ledger) \in Seq(Sources)
          /\ Len(Append(export.read, ledger)) <= MaxPages
      BY ExportAssumption, <1>7, <3>1, Appended DEF ReadPage, Exports
    <3> QED BY <1>7, <2>2, <3>2 DEF ReadPage, Exports
  <2> QED BY <1>7, <2>1, <2>2 DEF ReadPage
<1>8. CASE WriteFile
  BY ExportAssumption, <1>4, <1>8 DEF WriteFile, Exports
<1>9. CASE UNCHANGED exportVars
  BY <1>9 DEF exportVars
<1> QED BY <1>1, <1>2, <1>3, <1>5, <1>6, <1>7, <1>8, <1>9 DEF ExportNext

LEMMA ExportTypeInit == ExportInit => ExportValues
  BY ExportAssumption DEF ExportInit, ExportValues, ExportTypeOK, Exports, NoExport, NoLedger

\* The ledger, the task and the pages it has read keep their types, within the bounds.
THEOREM ExportTypeCorrect == ExportSpec => []ExportTypeOK
<1>1. ExportInit => ExportValues BY ExportTypeInit
<1>2. ExportValues /\ [ExportNext]_exportVars => ExportValues' BY ExportTypeNext
<1> QED BY <1>1, <1>2, PTL DEF ExportSpec, ExportValues

(* A task whose generation holds reads the wallet it was started for; one that has     *)
(* passed its second check has read nothing else.                                    *)

OfAsked == \A i \in DOMAIN export.read : export.read[i].account = asked
OneRevision ==
  \A i, j \in DOMAIN export.read : export.read[i].revision = export.read[j].revision
ExportInv ==
  /\ export.live => Opened /\ ledger.account = asked /\ OfAsked
  /\ export.step \in {"write", "written"} => OfAsked
  /\ OneRevision

LEMMA ExportInvNext ==
  ASSUME ExportValues, ExportInv, [ExportNext]_exportVars PROVE ExportInv'
<1> USE DEF ExportInv, OfAsked, OneRevision
<1>1. export \in Exports
  BY DEF ExportValues
<1>2. ASSUME NEW a \in Accounts, Open(a) PROVE ExportInv'
  BY <1>2 DEF Open
<1>3. CASE Invalidate
  BY <1>1, <1>3 DEF Invalidate, Exports
<1>4. CASE Advance
  <2>1. ledger'.account = ledger.account
    BY <1>4 DEF Advance, ExportValues, ExportTypeOK, NoLedger
  <2> QED BY <1>4, <2>1 DEF Advance, Opened
<1>5. CASE StartExport
  BY <1>5 DEF StartExport, Opened
<1>6. ASSUME export' = NoExport, UNCHANGED <<ledger, asked>> PROVE ExportInv'
  BY <1>6 DEF NoExport
<1>7. ASSUME NEW s, NEW n \in {"loop", "write"}, Check(s, n) PROVE ExportInv'
  BY <1>1, <1>6, <1>7 DEF Check, Exports, Opened
<1>8. CASE ReadPage
  <2>1. ASSUME NEW n \in {"loop", "read"}, Opened,
               \A i \in DOMAIN export.read : export.read[i].revision = ledger.revision,
               export' = [export EXCEPT !.step = n, !.read = Append(@, ledger)]
        PROVE  ExportInv'
    <3>1. ledger \in Sources
      BY <2>1 DEF Opened, NoLedger, Sources, ExportValues, ExportTypeOK
    <3>2. \A i \in DOMAIN Append(export.read, ledger) :
            \/ Append(export.read, ledger)[i] = ledger
            \/ i \in DOMAIN export.read /\ Append(export.read, ledger)[i] = export.read[i]
      BY <1>1, <3>1, Appended DEF Exports
    <3>3. /\ export'.read = Append(export.read, ledger) /\ export'.live = export.live
          /\ export'.step = n /\ UNCHANGED <<ledger, asked>>
      BY <1>1, <1>8, <2>1 DEF Exports, ReadPage
    <3>4. \A i \in DOMAIN export'.read : export'.read[i].revision = ledger.revision
      BY <2>1, <3>2, <3>3
    <3>5. export.live => \A i \in DOMAIN export'.read : export'.read[i].account = asked
      BY <3>2, <3>3
    <3> QED BY <3>3, <3>4, <3>5 DEF Opened
  <2> QED BY <1>6, <1>8, <2>1 DEF ReadPage
<1>9. CASE WriteFile
  BY <1>1, <1>6, <1>9 DEF WriteFile, Exports, Opened
<1>10. CASE UNCHANGED exportVars
  BY <1>10 DEF exportVars, Opened
<1> QED BY <1>2, <1>3, <1>4, <1>5, <1>7, <1>8, <1>9, <1>10 DEF ExportNext

\* A file that appears holds one revision of one ledger, the one that was on the screen
\* when the export was asked for, whatever is opened, scanned or locked under the loop.
THEOREM FileIsOneLedger == ExportSpec => []ExportIsOneLedger
<1>1. ExportInit => ExportValues /\ ExportInv
  BY ExportTypeInit DEF ExportInit, ExportInv, OfAsked, OneRevision, NoExport
<1>2. ExportValues /\ ExportInv /\ [ExportNext]_exportVars => (ExportValues /\ ExportInv)'
  BY ExportTypeNext, ExportInvNext
<1>3. ASSUME ExportValues, ExportInv PROVE ExportIsOneLedger
  <2> SUFFICES ASSUME export.step = "written"
               PROVE  \E v \in 1..MaxRevision : \A i \in DOMAIN export.read :
                        export.read[i] = [account |-> asked, revision |-> v]
    BY DEF ExportIsOneLedger
  <2>1. \A i \in DOMAIN export.read : export.read[i] \in Sources /\ export.read[i].account = asked
    BY <1>3 DEF ExportInv, OfAsked, ExportValues, Exports
  <2>2. CASE DOMAIN export.read = {}
    BY <2>2, ExportAssumption
  <2>3. ASSUME NEW k \in DOMAIN export.read
        PROVE  \E v \in 1..MaxRevision : \A i \in DOMAIN export.read :
                 export.read[i] = [account |-> asked, revision |-> v]
    <3>1. export.read[k].revision \in 1..MaxRevision
      BY <2>1 DEF Sources
    <3>2. \A i \in DOMAIN export.read :
            export.read[i] = [account |-> asked, revision |-> export.read[k].revision]
      BY <1>3, <2>1 DEF ExportInv, OneRevision, Sources
    <3> QED BY <3>1, <3>2
  <2> QED BY <2>2, <2>3
<1> QED BY <1>1, <1>2, <1>3, PTL DEF ExportSpec

--------------------------------------------------------------------------------
(* ExplorerLookup: the types of the lookup, its requests and their answers *)

Lookups == [txid : Details, visible : BOOLEAN, loading : BOOLEAN, expanded : BOOLEAN,
            result : Results, page_error : BOOLEAN, asked : PagesAsked]

LEMMA ResultTypes ==
  /\ Absent \in Results /\ Failed \in Results
  /\ \A t \in Txids, p \in PagesAsked : Observed(t, p) \in Results
  /\ None \in Details /\ None \in PagesAsked
  BY DEF Results, Details, PagesAsked

LEMMA NoLookupType == NoLookup \in Lookups
  BY ResultTypes DEF NoLookup, Lookups

\* Cancelled requests are the same requests, and none is alive.
LEMMA CancelledType ==
  ASSUME NEW ws \in SUBSET Workers,
         NEW w \in {[v EXCEPT !.live = FALSE] : v \in ws}
  PROVE  /\ w \in Workers /\ ~w.live
         /\ \E v \in ws : w.txid = v.txid /\ w.page = v.page /\ w.answer = v.answer
<1>1. PICK v \in ws : w = [v EXCEPT !.live = FALSE]
  OBVIOUS
<1> QED BY <1>1 DEF Workers

LEMMA AnsweredType ==
  ASSUME NEW l \in Lookups, NEW w \in Workers
  PROVE  /\ Answered(l, w) \in Lookups
         /\ Answered(l, w).txid = l.txid /\ Answered(l, w).visible = l.visible
         /\ Answered(l, w).expanded = l.expanded /\ Answered(l, w).asked = l.asked
         /\ Answered(l, w).loading = FALSE
  BY DEF Answered, Lookups, Workers

LEMMA ExplorerTypeNext == ExplorerTypeOK /\ [ExplorerNext]_explorerVars => ExplorerTypeOK'
<1> SUFFICES ASSUME ExplorerTypeOK, [ExplorerNext]_explorerVars PROVE ExplorerTypeOK'
  OBVIOUS
<1> USE DEF ExplorerTypeOK
<1>0. lookup \in Lookups /\ Cancelled \subseteq Workers
  BY CancelledType DEF Lookups, Cancelled
<1>1. ASSUME lookup' \in Lookups, workers' \in SUBSET Workers, UNCHANGED <<view, saved>>
      PROVE  ExplorerTypeOK'
  BY <1>1 DEF Lookups
<1>2. Reconciled \in Lookups
  BY <1>0, NoLookupType DEF Reconciled
<1>3. CASE Render
  <2>1. workers' \subseteq Workers /\ lookup' \in Lookups
    BY <1>0, <1>2, <1>3 DEF Render
  <2>2. view' \in [enabled : BOOLEAN, opened : BOOLEAN, detail : Details, drawn : Details]
    BY <1>3, ResultTypes DEF Render
  <2> QED BY <1>3, <2>1, <2>2 DEF Render, Lookups
<1>4. CASE CollapseAdvanced \/ CloseExplorer
  <2>1. [NoLookup EXCEPT !.txid = lookup.txid, !.visible = TRUE, !.result = lookup.result]
          \in Lookups
    BY <1>0, NoLookupType DEF Lookups
  <2> QED BY <1>0, <1>1, <1>4, <2>1, NoLookupType DEF CollapseAdvanced, CloseExplorer
<1>5. ASSUME NEW b \in BOOLEAN, ToggleExplorer(b) PROVE ExplorerTypeOK'
  <2>1. saved' \in BOOLEAN
    BY <1>5 DEF ToggleExplorer
  <2>2. lookup' \in Lookups /\ workers' \subseteq Workers
    BY <1>0, <1>5, NoLookupType DEF ToggleExplorer
  <2>3. view' \in [enabled : BOOLEAN, opened : BOOLEAN, detail : Details, drawn : Details]
    BY <1>5 DEF ToggleExplorer
  <2> QED BY <2>1, <2>2, <2>3 DEF Lookups
<1>6. ASSUME NEW t \in Txids, NEW p \in PagesAsked, StartExplorerPage(t, p)
      PROVE  ExplorerTypeOK'
  <2> DEFINE kept == IF p # None /\ lookup.txid = t THEN lookup.result ELSE Absent
             begun == [NoLookup EXCEPT !.txid = t, !.visible = TRUE,
                                       !.expanded = p # None, !.result = kept, !.asked = p]
             asks == view.enabled /\ view.opened
  <2>1. kept \in Results /\ t \in Details /\ (p # None) \in BOOLEAN /\ asks \in BOOLEAN
    BY ResultTypes DEF Details
  <2>2. lookup' = [begun EXCEPT !.loading = asks]
    BY <1>6 DEF StartExplorerPage
  <2>3. workers' \subseteq
          Cancelled \cup {[txid |-> t, page |-> p, live |-> TRUE, answer |-> Absent]}
    BY <1>6 DEF StartExplorerPage
  <2> HIDE DEF kept, asks
  <2>4. begun \in Lookups
    BY <2>1, NoLookupType DEF Lookups
  <2> HIDE DEF begun
  <2>5. lookup' \in Lookups
    BY <2>1, <2>2, <2>4 DEF Lookups
  <2>6. workers' \subseteq Workers
    <3>1. [txid |-> t, page |-> p, live |-> TRUE, answer |-> Absent] \in Workers
      BY ResultTypes DEF Workers
    <3> QED BY <1>0, <2>3, <3>1
  <2> QED BY <1>1, <1>6, <2>5, <2>6 DEF StartExplorerPage
<1>7. ASSUME NEW t \in Details, Navigate(t) PROVE ExplorerTypeOK'
  BY <1>7 DEF Navigate
<1>8. CASE OpenSession
  BY <1>8 DEF OpenSession
<1>9. CASE EndSession
  <2>1. view' \in [enabled : BOOLEAN, opened : BOOLEAN, detail : Details, drawn : Details]
    BY <1>9, ResultTypes DEF EndSession
  <2> QED BY <1>0, <1>9, <2>1, NoLookupType DEF EndSession, Lookups
<1>10. CASE Relaunch
  <2>1. view' \in [enabled : BOOLEAN, opened : BOOLEAN, detail : Details, drawn : Details]
    BY <1>10, ResultTypes DEF Relaunch
  <2> QED BY <1>10, <2>1, NoLookupType DEF Relaunch, Lookups
<1>11. ASSUME NEW w \in workers, Fetched(w) PROVE ExplorerTypeOK'
  <2>1. w.txid \in Txids /\ w.page \in PagesAsked
    BY DEF Workers
  <2>2. PICK a \in {Failed} \cup {Parse(b, w.txid, w.page) : b \in Bodies} :
          workers' = (workers \ {w}) \cup {[w EXCEPT !.answer = a]}
    BY <1>11 DEF Fetched
  <2>3. a \in Results
    BY <2>1, <2>2, ResultTypes DEF Parse
  <2>4. [w EXCEPT !.answer = a] \in Workers
    BY <2>3 DEF Workers
  <2> QED BY <1>0, <1>1, <1>11, <2>2, <2>4 DEF Fetched
<1>12. ASSUME NEW w \in workers, Complete(w) PROVE ExplorerTypeOK'
  <2>1. lookup' \in Lookups
    BY <1>2, <1>12, AnsweredType DEF Complete
  <2>2. {[v EXCEPT !.live = FALSE] : v \in workers \ {w}} \subseteq Workers
    BY CancelledType
  <2>3. workers' \subseteq Workers
    BY <1>12, <2>2 DEF Complete
  <2> QED BY <1>1, <1>12, <2>1, <2>3 DEF Complete
<1>13. CASE UNCHANGED explorerVars
  BY <1>13 DEF explorerVars
<1> QED
  BY <1>3, <1>4, <1>5, <1>6, <1>7, <1>8, <1>9, <1>10, <1>11, <1>12, <1>13 DEF ExplorerNext

\* The lookup, the requests and the preference keep their types.
THEOREM ExplorerTypeCorrect == ExplorerSpec => []ExplorerTypeOK
<1>1. ExplorerInit => ExplorerTypeOK
  BY NoLookupType, ResultTypes DEF ExplorerInit, ExplorerTypeOK, Lookups
<1> QED BY <1>1, ExplorerTypeNext, PTL DEF ExplorerSpec

--------------------------------------------------------------------------------
(* What is shown, and what is waited for.  Neither is inductive alone: an answer that  *)
(* is published must be one of its own request's, and only the live request may be     *)
(* published.                                                                        *)

AnswersItsRequest ==
  \A w \in workers : w.answer \in {Absent, Failed, Observed(w.txid, w.page)}
PanelInv == AnswersItsRequest /\ ShownIsAsked /\ LoadingIsAlive

\* The lookup is cleared and every request cancelled, as wherever a generation ends.
LEMMA ClearedPanel ==
  ASSUME AnswersItsRequest', lookup' = NoLookup, \A w \in workers' : ~w.live
  PROVE  PanelInv'
  BY DEF PanelInv, ShownIsAsked, LoadingIsAlive, NoLookup, Absent

LEMMA CancelledAnswers ==
  ASSUME ExplorerTypeOK, AnswersItsRequest, NEW ws \in SUBSET workers,
         NEW w \in {[v EXCEPT !.live = FALSE] : v \in ws}
  PROVE  /\ w.answer \in {Absent, Failed, Observed(w.txid, w.page)}
         /\ ~w.live
<1>1. ws \in SUBSET Workers
  BY DEF ExplorerTypeOK
<1>2. PICK v \in ws : w.txid = v.txid /\ w.page = v.page /\ w.answer = v.answer
  BY <1>1, CancelledType
<1>3. ~w.live
  BY <1>1, CancelledType
<1> QED BY <1>2, <1>3 DEF AnswersItsRequest

LEMMA PanelNext ==
  ASSUME ExplorerTypeOK, PanelInv, [ExplorerNext]_explorerVars PROVE PanelInv'
<1> USE DEF PanelInv
<1>0. lookup \in Lookups
  BY DEF ExplorerTypeOK, Lookups
<1>1. \A w \in Cancelled :
        w.answer \in {Absent, Failed, Observed(w.txid, w.page)} /\ ~w.live
  BY CancelledAnswers DEF Cancelled
<1>2. ASSUME UNCHANGED <<lookup, workers>>, view'.enabled = view.enabled,
             view.opened => view'.opened
      PROVE  PanelInv'
  BY <1>2 DEF AnswersItsRequest, ShownIsAsked, LoadingIsAlive, ExplorerTypeOK
<1>3. ASSUME lookup' = NoLookup, workers' = Cancelled PROVE PanelInv'
  BY <1>1, <1>3, ClearedPanel DEF AnswersItsRequest
<1>4. CASE Render
  <2>1. view'.enabled = view.enabled /\ view'.opened = view.opened
    BY <1>4 DEF Render, ExplorerTypeOK
  <2> QED BY <1>2, <1>3, <1>4, <2>1 DEF Render, Reconciled
<1>5. CASE CloseExplorer \/ EndSession
  BY <1>3, <1>5 DEF CloseExplorer, EndSession
<1>6. CASE CollapseAdvanced
  <2> DEFINE l == [NoLookup EXCEPT !.txid = lookup.txid, !.visible = TRUE,
                                   !.result = lookup.result]
  <2>1. /\ l.txid = lookup.txid /\ l.visible /\ l.result = lookup.result
        /\ ~l.expanded /\ ~l.loading
    BY DEF NoLookup
  <2>2. lookup' = l /\ workers' = Cancelled /\ UNCHANGED view
    BY <1>6 DEF CollapseAdvanced
  <2> HIDE DEF l
  <2>3. AnswersItsRequest' /\ LoadingIsAlive'
    BY <1>1, <2>1, <2>2 DEF AnswersItsRequest, LoadingIsAlive
  <2> QED BY <2>1, <2>2, <2>3 DEF ShownIsAsked
<1>7. ASSUME NEW b \in BOOLEAN, ToggleExplorer(b) PROVE PanelInv'
  BY <1>2, <1>3, <1>7 DEF ToggleExplorer
<1>8. ASSUME NEW t \in Txids, NEW p \in PagesAsked, StartExplorerPage(t, p) PROVE PanelInv'
  <2> DEFINE kept == IF p # None /\ lookup.txid = t THEN lookup.result ELSE Absent
             begun == [NoLookup EXCEPT !.txid = t, !.visible = TRUE,
                                       !.expanded = p # None, !.result = kept, !.asked = p]
             asks == view.enabled /\ view.opened
             new == [txid |-> t, page |-> p, live |-> TRUE, answer |-> Absent]
  <2>1. /\ lookup' = [begun EXCEPT !.loading = asks]
        /\ workers' = Cancelled \cup IF asks THEN {new} ELSE {}
        /\ UNCHANGED view
    BY <1>8 DEF StartExplorerPage
  <2>2. /\ kept # Absent => kept = lookup.result /\ lookup.txid = t
        /\ kept.kind = "observed" => kept # Absent
    BY DEF Absent
  <2>3. /\ lookup'.txid = t /\ lookup'.visible /\ lookup'.result = kept
        /\ lookup'.loading = asks /\ lookup'.asked = p
    <3> HIDE DEF kept, asks
    <3> QED BY <2>1 DEF NoLookup
  <2>4. /\ new.txid = t /\ new.page = p /\ new.live /\ new.answer = Absent
    OBVIOUS
  <2> HIDE DEF kept, new, begun
  <2>5. AnswersItsRequest'
    BY <1>1, <2>1, <2>4 DEF AnswersItsRequest
  <2>6. LoadingIsAlive'
    <3>1. CASE asks
      <4>1. \A w \in workers' : w.live <=> w = new
        BY <1>1, <2>1, <2>4, <3>1
      <4>2. new \in workers'
        BY <2>1, <3>1
      <4>3. view'.enabled /\ view'.opened /\ lookup'.loading
        BY <2>1, <2>3, <3>1
      <4> QED BY <2>3, <2>4, <4>1, <4>2, <4>3 DEF LoadingIsAlive
    <3>2. CASE ~asks
      <4>1. ~lookup'.loading
        BY <2>3, <3>2
      <4>2. \A w \in workers' : ~w.live
        BY <1>1, <2>1, <3>2
      <4> QED BY <4>1, <4>2 DEF LoadingIsAlive
    <3> QED BY <3>1, <3>2
  <2>7. ShownIsAsked'
    <3>1. kept # Absent => view.enabled /\ view.opened
      BY <2>2 DEF ShownIsAsked
    <3>2. kept # Absent => lookup'.loading
      BY <2>3, <3>1
    <3> QED BY <2>1, <2>2, <2>3, <3>1, <3>2 DEF ShownIsAsked
  <2> QED BY <2>5, <2>6, <2>7
<1>9. ASSUME NEW t \in Details, Navigate(t) PROVE PanelInv'
  BY <1>2, <1>9 DEF Navigate, ExplorerTypeOK
<1>10. CASE OpenSession
  BY <1>2, <1>10 DEF OpenSession, ExplorerTypeOK
<1>11. CASE Relaunch
  BY <1>11, ClearedPanel DEF Relaunch, AnswersItsRequest
<1>12. ASSUME NEW w \in workers, Fetched(w) PROVE PanelInv'
  <2>1. PICK a \in {Failed} \cup {Parse(b, w.txid, w.page) : b \in Bodies} :
          workers' = (workers \ {w}) \cup {[w EXCEPT !.answer = a]}
    BY <1>12 DEF Fetched
  <2> DEFINE v == [w EXCEPT !.answer = a]
  <2>2. w \in Workers
    BY DEF ExplorerTypeOK
  <2>3. v.txid = w.txid /\ v.page = w.page /\ v.live = w.live /\ v.answer = a
    BY <2>2 DEF Workers
  <2>4. a \in {Failed, Observed(w.txid, w.page)}
    BY <2>1 DEF Parse
  <2>5. UNCHANGED <<view, lookup>>
    BY <1>12 DEF Fetched
  <2>6. workers' = (workers \ {w}) \cup {v}
    BY <2>1
  <2> HIDE DEF v
  <2>7. AnswersItsRequest'
    BY <2>3, <2>4, <2>6 DEF AnswersItsRequest
  <2>8. LoadingIsAlive'
    BY <2>3, <2>5, <2>6 DEF LoadingIsAlive
  <2> QED BY <2>5, <2>7, <2>8 DEF ShownIsAsked
<1>13. ASSUME NEW w \in workers, Complete(w) PROVE PanelInv'
  <2>1. CASE Unshown
    <3>1. lookup' = NoLookup
      BY <1>13, <2>1 DEF Complete, Publishes, Reconciled, NoLookup
    <3>2. workers' = {[v EXCEPT !.live = FALSE] : v \in workers \ {w}}
      BY <1>13, <2>1 DEF Complete
    <3>3. \A x \in workers' :
            x.answer \in {Absent, Failed, Observed(x.txid, x.page)} /\ ~x.live
      BY <3>2, CancelledAnswers
    <3> QED BY <3>1, <3>3, ClearedPanel DEF AnswersItsRequest
  <2>2. CASE ~Unshown
    <3>1. /\ workers' = workers \ {w} /\ UNCHANGED view
          /\ lookup' = IF Publishes(w) THEN Answered(lookup, w) ELSE lookup
      BY <1>13, <2>2 DEF Complete, Reconciled
    <3>2. AnswersItsRequest'
      BY <3>1 DEF AnswersItsRequest
    <3>3. CASE ~Publishes(w)
      <4>1. ~w.live
        BY <2>2, <3>3 DEF Publishes, Reconciled, LoadingIsAlive
      <4>2. LoadingIsAlive'
        BY <3>1, <3>3, <4>1 DEF LoadingIsAlive
      <4> QED BY <3>1, <3>2, <3>3, <4>2 DEF ShownIsAsked
    <3>4. CASE Publishes(w)
      <4>1. w.live /\ view.enabled /\ view.opened /\ lookup.visible
        BY <2>2, <3>4 DEF Publishes, Reconciled
      <4>2. w.txid = lookup.txid /\ w.page = lookup.asked /\ \A x \in workers' : ~x.live
        BY <3>1, <4>1 DEF LoadingIsAlive
      <4>3. lookup' = Answered(lookup, w)
        BY <3>1, <3>4
      <4>4. /\ lookup'.txid = lookup.txid /\ lookup'.visible = lookup.visible
            /\ lookup'.expanded = lookup.expanded /\ lookup'.asked = lookup.asked
            /\ lookup'.loading = FALSE
        BY <1>0, <4>3, AnsweredType DEF ExplorerTypeOK
      <4>5. LoadingIsAlive'
        BY <4>2, <4>4 DEF LoadingIsAlive
      <4>6. \/ lookup'.result = lookup.result /\ lookup'.page_error
            \/ lookup'.result = w.answer
        BY <1>0, <4>3 DEF Answered, Lookups
      <4>7. w.answer.kind = "observed" =>
              w.answer.txid = w.txid /\ w.answer.page = w.page
        BY DEF AnswersItsRequest, Observed, Failed, Absent
      <4>8. ShownIsAsked'
        BY <3>1, <4>1, <4>2, <4>4, <4>6, <4>7 DEF ShownIsAsked
      <4> QED BY <3>2, <4>5, <4>8
    <3> QED BY <3>3, <3>4
  <2> QED BY <2>1, <2>2
<1>14. CASE UNCHANGED explorerVars
  BY <1>2, <1>14 DEF explorerVars
<1> QED
  BY <1>4, <1>5, <1>6, <1>7, <1>8, <1>9, <1>10, <1>11, <1>12, <1>13, <1>14 DEF ExplorerNext

\* However late, reordered, mismatched or refused the answers are, the panel shows what
\* was asked for and never waits for a request that nobody will answer.
THEOREM PanelCorrect == ExplorerSpec => []ExplorerAnswersItsLookup
<1>1. ExplorerInit => PanelInv
  BY DEF ExplorerInit, PanelInv, AnswersItsRequest, ShownIsAsked, LoadingIsAlive, NoLookup,
     Absent
<1>2. ExplorerTypeOK /\ PanelInv /\ [ExplorerNext]_explorerVars => PanelInv'
  BY PanelNext
<1>3. PanelInv => ExplorerAnswersItsLookup
  BY DEF PanelInv, ExplorerAnswersItsLookup
<1> QED BY <1>1, <1>2, <1>3, ExplorerTypeCorrect, PTL DEF ExplorerSpec

================================================================================
