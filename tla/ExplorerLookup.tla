---------------------------- MODULE ExplorerLookup ----------------------------
(***************************************************************************)
(* "Explorer details" (src/src/explorer.rs, src/src/explorer_advanced.rs and *)
(* their handlers in src/src/main.rs): an opt-in request to a public server   *)
(* about the transaction whose detail is on the screen, its summary or one    *)
(* page of its inputs and outputs, answered late, out of order or not at all. *)
(*                                                                         *)
(* The server is external and answers anything.  A generation is only ever    *)
(* compared with a captured one, and the cancel flag is set wherever it moves, *)
(* so a request carries instead whether it still holds; clear() ends that for  *)
(* all of them, and a cancelled worker may answer or give up.                 *)
(***************************************************************************)
EXTENDS Naturals, FiniteSets

CONSTANTS
  Txids,        \* transactions whose details may be looked at
  Pages,        \* the pages that can be asked for, from 0
  MaxRequests,  \* bound: workers out at once
  None          \* no transaction; the page of a summary

VARIABLES
  view,     \* explorer_enabled, opened, the detail on the screen, the one last drawn
  saved,    \* the preference file
  lookup,   \* explorer_lookup; asked is auxiliary, the page last asked for
  workers   \* the requests under way

explorerVars == <<view, saved, lookup, workers>>

Details == Txids \cup {None}
PagesAsked == Pages \cup {None}
Absent == [kind |-> "absent", txid |-> None, page |-> None]
Failed == [kind |-> "failed", txid |-> None, page |-> None]
Observed(t, p) == [kind |-> "observed", txid |-> t, page |-> p]
Results == {Absent, Failed} \cup {Observed(t, p) : t \in Txids, p \in PagesAsked}

NoLookup == [txid |-> None, visible |-> FALSE, loading |-> FALSE, expanded |-> FALSE,
             result |-> Absent, page_error |-> FALSE, asked |-> None]

\* A first launch, or a later one.
ExplorerInit ==
  /\ saved \in BOOLEAN
  /\ view = [enabled |-> saved, opened |-> FALSE, detail |-> None, drawn |-> None]
  /\ lookup = NoLookup /\ workers = {}

\* Lookup::clear, on the workers.
Cancelled == {[w EXCEPT !.live = FALSE] : w \in workers}

(* ----------------------- explorer.rs, on the worker --------------------- *)

\* What the server may say: whose transaction, and which page of how many, if any;
\* sound is every other demand of parse_page and Advanced::parse.
Bodies ==
  [txid : Txids, page : PagesAsked, count : {0, Cardinality(Pages)}, sound : BOOLEAN]

\* parse_page, and Advanced::parse of its details.
Parse(body, t, p) ==
  LET accepted == /\ body.sound /\ body.txid = t /\ body.page = p
                  /\ p # None => p < body.count
  IN IF accepted THEN Observed(t, p) ELSE Failed

\* fetch_page ends: an answer, a failure, a timeout or the flag it polls.
Fetched(w) ==
  /\ w.answer = Absent
  /\ \E answer \in {Failed} \cup {Parse(b, w.txid, w.page) : b \in Bodies} :
       workers' = (workers \ {w}) \cup {[w EXCEPT !.answer = answer]}
  /\ UNCHANGED <<view, saved, lookup>>

(* ------------------------------- main.rs -------------------------------- *)

\* reconcile_explorer: the lookup of a detail that is no longer on the screen ends.
Unshown == lookup.visible /\ (~view.opened \/ view.detail # lookup.txid)
Reconciled == IF Unshown THEN NoLookup ELSE lookup
Render ==
  /\ lookup' = Reconciled
  /\ workers' = IF Unshown THEN Cancelled ELSE workers
  /\ view' = [view EXCEPT !.drawn = IF view.opened THEN view.detail ELSE None]
  /\ UNCHANGED saved

\* toggle_explorer: off at once, on only once it is saved.
ToggleExplorer(written) ==
  LET enabled == ~view.enabled
  IN /\ IF written \/ ~enabled
          THEN /\ view' = [view EXCEPT !.enabled = enabled]
               /\ lookup' = NoLookup /\ workers' = Cancelled
          ELSE UNCHANGED <<view, lookup, workers>>
     /\ saved' = IF written THEN enabled ELSE saved

\* start_explorer_page, a click on the detail last drawn: p is None for open_explorer.
StartExplorerPage(t, p) ==
  LET kept == IF p # None /\ lookup.txid = t THEN lookup.result ELSE Absent
      begun == [NoLookup EXCEPT !.txid = t, !.visible = TRUE, !.expanded = p # None,
                                !.result = kept, !.asked = p]
      asks == view.enabled /\ view.opened
  IN /\ t = view.drawn /\ t # None
     /\ asks => Cardinality(workers) < MaxRequests
     /\ lookup' = [begun EXCEPT !.loading = asks]
     /\ workers' = Cancelled \cup
          IF asks THEN {[txid |-> t, page |-> p, live |-> TRUE, answer |-> Absent]} ELSE {}
     /\ UNCHANGED <<view, saved>>

\* collapse_explorer_advanced, and "Close".
CollapseAdvanced ==
  /\ view.drawn # None /\ lookup.expanded
  /\ lookup' = [NoLookup EXCEPT !.txid = lookup.txid, !.visible = TRUE,
                                !.result = lookup.result]
  /\ workers' = Cancelled
  /\ UNCHANGED <<view, saved>>
CloseExplorer ==
  /\ view.drawn # None
  /\ lookup' = NoLookup /\ workers' = Cancelled
  /\ UNCHANGED <<view, saved>>

\* The completion: reconcile, and only then publish, if the lookup is still this one; a
\* page that failed leaves what was shown before it.
Answered(l, w) ==
  IF w.answer = Failed /\ w.page # None /\ l.result.kind = "observed"
    THEN [l EXCEPT !.loading = FALSE, !.page_error = TRUE]
    ELSE [l EXCEPT !.loading = FALSE, !.result = w.answer]

\* Mutant: an answer of an older generation is published.
Publishes_any_generation(w) == view.enabled /\ view.opened /\ Reconciled.visible

Publishes(w) ==
  view.enabled /\ view.opened /\ w.live /\ Reconciled.visible
Complete(w) ==
  /\ w.answer # Absent
  /\ lookup' = IF Publishes(w) THEN Answered(Reconciled, w) ELSE Reconciled
  /\ workers' = IF Unshown THEN {[v EXCEPT !.live = FALSE] : v \in workers \ {w}}
                           ELSE workers \ {w}
  /\ UNCHANGED <<view, saved>>

\* Another detail or screen, in this session; opening; forget, which clears the lookup.
Navigate(t) ==
  /\ view.opened
  /\ view' = [view EXCEPT !.detail = t]
  /\ UNCHANGED <<saved, lookup, workers>>
OpenSession ==
  /\ ~view.opened
  /\ view' = [view EXCEPT !.opened = TRUE]
  /\ UNCHANGED <<saved, lookup, workers>>
EndSession ==
  /\ view' = [view EXCEPT !.opened = FALSE, !.detail = None]
  /\ lookup' = NoLookup /\ workers' = Cancelled
  /\ UNCHANGED saved

\* The process ends, or dies, and is started again.
Relaunch ==
  /\ view' = [enabled |-> saved, opened |-> FALSE, detail |-> None, drawn |-> None]
  /\ lookup' = NoLookup /\ workers' = {}
  /\ UNCHANGED saved

ExplorerNext ==
  \/ Render \/ CollapseAdvanced \/ CloseExplorer \/ OpenSession \/ EndSession \/ Relaunch
  \/ \E b \in BOOLEAN : ToggleExplorer(b)
  \/ \E t \in Txids, p \in PagesAsked : StartExplorerPage(t, p)
  \/ \E t \in Details : Navigate(t)
  \/ \E w \in workers : Fetched(w) \/ Complete(w)

ExplorerSpec == ExplorerInit /\ [][ExplorerNext]_explorerVars

(* ------------------------------ properties ------------------------------ *)

\* Type correctness.
Workers == [txid : Txids, page : PagesAsked, live : BOOLEAN, answer : Results]
ExplorerTypeOK ==
  /\ view \in [enabled : BOOLEAN, opened : BOOLEAN, detail : Details, drawn : Details]
  /\ saved \in BOOLEAN /\ workers \subseteq Workers
  /\ lookup \in [txid : Details, visible : BOOLEAN, loading : BOOLEAN, expanded : BOOLEAN,
                 result : Results, page_error : BOOLEAN, asked : PagesAsked]

\* What is kept to show was observed of the transaction looked up, and it is the page
\* asked for unless an error or "Loading" says otherwise.
ShownIsAsked ==
  /\ lookup.result # Absent => view.enabled /\ view.opened /\ lookup.visible
  /\ lookup.result.kind = "observed" =>
       /\ lookup.result.txid = lookup.txid
       /\ lookup.expanded /\ ~lookup.loading /\ ~lookup.page_error =>
            lookup.result.page = lookup.asked

\* "Loading" is shown exactly while one request that can still end it is out, for
\* this transaction and page; every other request is dead.
LoadingIsAlive ==
  LET alive == {w \in workers : w.live}
  IN /\ lookup.loading <=> alive # {}
     /\ \A v, w \in alive : v = w
     /\ \A w \in alive :
          /\ view.enabled /\ view.opened /\ lookup.visible
          /\ w.txid = lookup.txid /\ w.page = lookup.asked

\* However late, reordered, mismatched or refused the answers are, and whatever is
\* paged, collapsed, closed, locked or switched off meanwhile, the panel shows what was
\* asked for, it never waits for a request nobody will answer, and no request is alive
\* without consent and an open session.
ExplorerAnswersItsLookup == ShownIsAsked /\ LoadingIsAlive
================================================================================
