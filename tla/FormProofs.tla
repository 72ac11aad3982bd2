------------------------------ MODULE FormProofs ------------------------------
(***************************************************************************)
(* Proofs about the pages the user fills in, for every set of phrases and    *)
(* currencies, subaddress indices, lookaheads and texts of any size:         *)
(* RestoreForm's check of a created seed, the units of AmountForm, the book  *)
(* of ReceiveBook and the ranges TextEdit slices a field at.                 *)
(***************************************************************************)
EXTENDS RestoreForm, AmountForm, ReceiveBook, TextEdit,
        FiniteSetTheorems, SequenceTheorems, WellFoundedInduction, TLAPS

--------------------------------------------------------------------------------
(* RestoreForm *)

LEMMA ImportedType ==
  ASSUME RestoreTypeOK, NEW p \in Phrases \cup {NoPhrase}
  PROVE  /\ Imported(p) \in Forms
         /\ Imported(p).seed = p /\ Imported(p).created = FALSE
  BY DEF Imported, RestoreTypeOK, Forms

LEMMA RestoreTypeNext == RestoreTypeOK /\ [RestoreNext]_restoreVars => RestoreTypeOK'
<1> SUFFICES ASSUME RestoreTypeOK, [RestoreNext]_restoreVars PROVE RestoreTypeOK'
  OBVIOUS
<1> USE DEF RestoreTypeOK
<1>1. ASSUME NEW p \in Fresh, CreateSeed(p) PROVE RestoreTypeOK'
  BY <1>1 DEF CreateSeed, Forms, Phrases
<1>2. ASSUME NEW p \in Phrases, EnterSeed(p) \/ Answer(p) PROVE RestoreTypeOK'
  <2>1. p \in Phrases \cup {NoPhrase}
    OBVIOUS
  <2>2. CASE EnterSeed(p)
    BY <2>1, <2>2, ImportedType DEF EnterSeed
  <2>3. CASE Answer(p)
    BY <2>1, <2>3 DEF Answer, Forms
  <2> QED BY <1>2, <2>2, <2>3
<1>3. ASSUME NEW h \in Heights, EnterHeight(h) \/ FetchedHeight(h) \/ RescanFrom(h)
      PROVE  RestoreTypeOK'
  BY <1>3 DEF EnterHeight, FetchedHeight, RescanFrom, Forms
<1>4. ASSUME NEW p \in Owned, NEW h \in Heights, UnlockStored(p, h) PROVE RestoreTypeOK'
  <2>1. [Imported(NoPhrase) EXCEPT !.height = h] \in Forms
    BY ImportedType DEF Forms
  <2> QED BY <1>4, <2>1 DEF UnlockStored, Phrases
<1>5. CASE ToggleWrote \/ FetchFails
  BY <1>5 DEF ToggleWrote, FetchFails, Forms
<1>6. ASSUME NEW b \in BOOLEAN, OpenFromForm(b) PROVE RestoreTypeOK'
  <2>1. form.seed \in Phrases \cup {NoPhrase} /\ form.height \in Heights
    BY DEF Forms
  <2> QED BY <1>6, <2>1, ImportedType DEF OpenFromForm
<1>7. ASSUME NEW b \in BOOLEAN, LockForm(b) PROVE RestoreTypeOK'
  <2>1. Imported(NoPhrase) \in Forms
    BY ImportedType
  <2> QED BY <1>7, <2>1 DEF LockForm, Closed, Forms, Heights
<1>8. CASE UNCHANGED restoreVars
  BY <1>8 DEF restoreVars
<1> QED BY <1>1, <1>2, <1>3, <1>4, <1>5, <1>6, <1>7, <1>8 DEF RestoreNext

\* The form, the request, the session and the words that went through the field keep
\* their types.
THEOREM RestoreTypeCorrect == RestoreSpec => []RestoreTypeOK
<1>1. RestoreInit => RestoreTypeOK
  <2> SUFFICES ASSUME RestoreInit PROVE RestoreTypeOK
    OBVIOUS
  <2>1. form \in Forms
    BY DEF RestoreInit, Forms, Heights
  <2>2. fetching \in BOOLEAN
    BY Zenon DEF RestoreInit
  <2>3. session \in [seed : Phrases \cup {NoPhrase}, height : Heights] /\ edited \subseteq Fresh
    BY DEF RestoreInit, Closed, Heights
  <2> QED BY <2>1, <2>2, <2>3 DEF RestoreTypeOK
<1> QED BY <1>1, RestoreTypeNext, PTL DEF RestoreSpec

\* Until a wallet is open, a phrase of the application's own that was not edited is
\* known to be one: nothing but an opening or an edit forgets it.
KnownCreated == ~IsOpen /\ form.seed \in Fresh \ edited => form.created

LEMMA KnownNext ==
  ASSUME RestoreTypeOK, KnownCreated, [RestoreNext]_restoreVars
  PROVE  KnownCreated'
<1> USE DEF KnownCreated, IsOpen
<1>1. ASSUME NEW p \in Fresh, CreateSeed(p) PROVE KnownCreated'
  BY <1>1 DEF CreateSeed, RestoreTypeOK, Forms
<1>2. ASSUME NEW p \in Phrases, EnterSeed(p) PROVE KnownCreated'
  <2>1. form'.seed = p /\ edited' = edited \cup ({p} \cap Fresh)
    BY <1>2, ImportedType DEF EnterSeed
  <2> QED BY <2>1
<1>3. ASSUME form'.seed = form.seed, form'.created = form.created, edited' = edited,
             session'.seed = session.seed
      PROVE  KnownCreated'
  BY <1>3
<1>4. ASSUME NEW h \in Heights, EnterHeight(h) \/ FetchedHeight(h) \/ RescanFrom(h)
      PROVE  KnownCreated'
  BY <1>3, <1>4 DEF EnterHeight, FetchedHeight, RescanFrom, RestoreTypeOK, Forms
<1>5. ASSUME NEW p \in Owned, NEW h \in Heights, UnlockStored(p, h) PROVE KnownCreated'
  BY PhraseAssumption, <1>5 DEF UnlockStored, Phrases
<1>6. ASSUME ToggleWrote \/ FetchFails \/ \E p \in Phrases : Answer(p) PROVE KnownCreated'
  BY <1>3, <1>6 DEF ToggleWrote, FetchFails, Answer, RestoreTypeOK, Forms
<1>7. ASSUME NEW b \in BOOLEAN, OpenFromForm(b) PROVE KnownCreated'
  BY <1>7 DEF OpenFromForm
<1>8. ASSUME NEW b \in BOOLEAN, LockForm(b) PROVE KnownCreated'
  <2>1. Imported(NoPhrase) \in Forms /\ Imported(NoPhrase).seed = NoPhrase
    BY ImportedType
  <2>2. form'.seed = NoPhrase
    BY <1>8, <2>1 DEF LockForm, Forms
  <2> QED BY PhraseAssumption, <2>2 DEF Phrases
<1>9. CASE UNCHANGED restoreVars
  BY <1>9 DEF restoreVars
<1> QED BY <1>1, <1>2, <1>4, <1>5, <1>6, <1>7, <1>8, <1>9 DEF RestoreNext

\* A phrase the application made opens a wallet only after its own three words were
\* confirmed, whatever was created, abandoned, answered or locked before.
THEOREM CreatedIsConfirmed == RestoreSpec => CreatedSeedConfirmed
<1> DEFINE Confirmed ==
      session' # session /\ session'.seed \in Fresh \ edited /\ ~IsOpen
        => form.answered = session'.seed /\ form.wrote
<1>1. RestoreInit => KnownCreated
  BY PhraseAssumption DEF RestoreInit, KnownCreated, Phrases
<1>2. RestoreTypeOK /\ KnownCreated /\ [RestoreNext]_restoreVars => KnownCreated'
  BY KnownNext
<1>3. ASSUME KnownCreated, [RestoreNext]_restoreVars PROVE [Confirmed]_restoreVars
  <2> SUFFICES ASSUME session' # session, session'.seed \in Fresh \ edited, ~IsOpen
               PROVE  form.answered = session'.seed /\ form.wrote
    OBVIOUS
  <2>1. ASSUME NEW b \in BOOLEAN, OpenFromForm(b)
        PROVE  form.answered = session'.seed /\ form.wrote
    BY <1>3, <2>1 DEF OpenFromForm, SeedBackupPassed, KnownCreated
  <2>2. ~\E p \in Owned, h \in Heights : UnlockStored(p, h)
    BY PhraseAssumption DEF UnlockStored
  <2>3. ~\E b \in BOOLEAN : LockForm(b)
    BY PhraseAssumption DEF LockForm, Closed, Phrases
  <2>4. ~\E h \in Heights : RescanFrom(h)
    BY DEF RescanFrom
  <2>5. \/ \E b \in BOOLEAN : OpenFromForm(b) \/ LockForm(b)
        \/ \E p \in Owned, h \in Heights : UnlockStored(p, h)
        \/ \E h \in Heights : RescanFrom(h)
    BY <1>3 DEF RestoreNext, restoreVars, CreateSeed, EnterSeed, Answer, EnterHeight,
       FetchedHeight, ToggleWrote, FetchFails
  <2> QED BY <2>5, <2>1, <2>2, <2>3, <2>4
<1> QED
  BY <1>1, <1>2, <1>3, RestoreTypeCorrect, PTL DEF RestoreSpec, CreatedSeedConfirmed

--------------------------------------------------------------------------------
(* AmountForm *)

LEMMA CoercedType ==
  ASSUME NEW f, NEW a \in AmountForms PROVE Coerced(a, f) \in AmountForms
  BY DEF Coerced, Empty, Blank, AmountForms, Texts, Modes, Units

LEMMA TypedType ==
  ASSUME AmountTypeOK, NEW a \in AmountForms, NEW b \in Typed(a)
  PROVE  b \in AmountForms /\ b.mode = a.mode
<1>1. PICK t \in {Blank} \cup [unit : {IF a.mode = "fiat" THEN fiat.currency ELSE "xmr"},
                               exact : BOOLEAN] :
        b = [a EXCEPT !.text = t]
  BY DEF Typed
<1>2. t \in Texts
  <2>1. Blank \in Texts
    BY DEF Blank, Texts, Units
  <2>2. fiat.currency \in Currencies
    BY DEF AmountTypeOK
  <2>3. [unit : {IF a.mode = "fiat" THEN fiat.currency ELSE "xmr"}, exact : BOOLEAN]
          \subseteq Texts
    BY <2>2 DEF Texts, Units
  <2> QED BY <1>1, <2>1, <2>3
<1> QED BY <1>1, <1>2 DEF AmountForms

LEMMA SwappedType ==
  ASSUME AmountTypeOK, IsLive(fiat), NEW a \in AmountForms
  PROVE  Swapped(a) \in AmountForms
<1>1. fiat.rate.currency \in Currencies
  BY DEF IsLive, AmountTypeOK, Rates
<1> QED BY <1>1 DEF Swapped, Exactly, AmountForms, Texts, Modes, Units

LEMMA SendInXmrType ==
  ASSUME AmountTypeOK, NEW t \in Texts, SendInXmr(t)
  PROVE  send' \in AmountForms
  BY DEF SendInXmr, AmountForms, Modes

LEMMA RefreshedType ==
  ASSUME AmountTypeOK, NEW f, f.currency \in Currencies
  PROVE  Refreshed(f) \subseteq Currencies \cup {NoRate}
  BY DEF Refreshed, AmountTypeOK

LEMMA AgedType ==
  ASSUME NEW r \in Rates \cup {NoRate}
  PROVE  /\ Aged(r) \in Rates \cup {NoRate}
         /\ Aged(r) # NoRate => r # NoRate /\ Aged(r).currency = r.currency
  BY DEF Aged, Rates

LEMMA AmountTypeNext == AmountTypeOK /\ [AmountNext]_amountVars => AmountTypeOK'
<1> SUFFICES ASSUME AmountTypeOK, [AmountNext]_amountVars PROVE AmountTypeOK'
  OBVIOUS
<1>0. /\ fiat.currency \in Currencies /\ settings.currency \in Currencies
      /\ fiat.rate \in Rates \cup {NoRate} /\ settings.rate \in Rates \cup {NoRate}
      /\ settings.enabled \in BOOLEAN /\ fiat.enabled \in BOOLEAN
  BY DEF AmountTypeOK
<1>1. CASE ToggleFiat
  <2> DEFINE on == [fiat EXCEPT !.enabled = TRUE]
             off == [fiat EXCEPT !.enabled = FALSE, !.rate = NoRate, !.leftover = FALSE]
  <2>1. PICK e \in {settings.enabled, ~fiat.enabled}, q \in {settings.rate, NoRate} :
          settings' = [settings EXCEPT !.enabled = e,
                                       !.rate = IF fiat.enabled THEN q ELSE @]
    BY <1>1 DEF ToggleFiat
  <2>2. e \in BOOLEAN /\ q \in Rates \cup {NoRate}
    BY <1>0, <2>1
  <2>3. settings' \in [enabled : BOOLEAN, currency : Currencies, rate : Rates \cup {NoRate}]
    BY <1>0, <2>1, <2>2 DEF AmountTypeOK
  <2>4. fiat' \in [enabled : BOOLEAN, currency : Currencies, rate : Rates \cup {NoRate},
                   leftover : BOOLEAN]
    BY <1>1 DEF ToggleFiat, AmountTypeOK
  <2>5. on.currency \in Currencies
    BY <1>0 DEF AmountTypeOK
  <2>6. fiat_fetching' \in Currencies \cup {NoRate}
    BY <1>1, <2>5, RefreshedType DEF ToggleFiat, AmountTypeOK
  <2>7. send' \in AmountForms /\ recv' \in AmountForms
    BY <1>1, CoercedType DEF ToggleFiat, AmountTypeOK
  <2> QED BY <1>1, <2>3, <2>4, <2>6, <2>7 DEF ToggleFiat, AmountTypeOK
<1>2. ASSUME NEW c \in Currencies, CycleCurrency(c) PROVE AmountTypeOK'
  <2> DEFINE f == [fiat EXCEPT !.currency = c, !.rate = NoRate, !.leftover = FALSE]
  <2>1. f \in [enabled : BOOLEAN, currency : Currencies, rate : Rates \cup {NoRate},
               leftover : BOOLEAN] /\ f.currency = c
    BY DEF AmountTypeOK
  <2>2. fiat_fetching' \in Currencies \cup {NoRate}
    BY <1>2, <2>1, RefreshedType DEF CycleCurrency
  <2>3. settings' \in [enabled : BOOLEAN, currency : Currencies, rate : Rates \cup {NoRate}]
    BY <1>0, <1>2 DEF CycleCurrency, AmountTypeOK
  <2> QED BY <1>2, <2>1, <2>2, <2>3 DEF CycleCurrency, AmountTypeOK
<1>3. CASE Poll
  <2>1. fiat_fetching' \in Currencies \cup {NoRate}
    BY <1>0, <1>3, RefreshedType DEF Poll
  <2>2. send' \in AmountForms /\ recv' \in AmountForms
    BY <1>3, CoercedType DEF Poll, AmountTypeOK
  <2> QED BY <1>3, <2>1, <2>2 DEF Poll, AmountTypeOK
<1>4. ASSUME NEW ok \in BOOLEAN, FetchEnds(ok) PROVE AmountTypeOK'
  <2> DEFINE new == [currency |-> fiat_fetching, live |-> TRUE]
  <2>1. new \in Rates
    BY <1>4 DEF FetchEnds, AmountTypeOK, Rates
  <2>2. /\ settings' = settings \/ \E q \in {settings.rate, new} :
                                     settings' = [settings EXCEPT !.rate = q]
        /\ \/ fiat' = fiat
           \/ \E q \in {NoRate, new, settings.rate} :
                fiat' = [[fiat EXCEPT !.leftover = FALSE] EXCEPT !.rate = q]
    BY <1>4 DEF FetchEnds
  <2> HIDE DEF new
  <2>3. settings' \in [enabled : BOOLEAN, currency : Currencies, rate : Rates \cup {NoRate}]
    BY <1>0, <2>1, <2>2 DEF AmountTypeOK
  <2>4. fiat' \in [enabled : BOOLEAN, currency : Currencies, rate : Rates \cup {NoRate},
                   leftover : BOOLEAN]
    <3>1. [fiat EXCEPT !.leftover = FALSE] \in
            [enabled : BOOLEAN, currency : Currencies, rate : Rates \cup {NoRate},
             leftover : BOOLEAN]
      BY DEF AmountTypeOK
    <3>2. \A q \in Rates \cup {NoRate} :
            [[fiat EXCEPT !.leftover = FALSE] EXCEPT !.rate = q] \in
              [enabled : BOOLEAN, currency : Currencies, rate : Rates \cup {NoRate},
               leftover : BOOLEAN]
      BY <3>1
    <3>3. fiat \in [enabled : BOOLEAN, currency : Currencies, rate : Rates \cup {NoRate},
                   leftover : BOOLEAN]
      BY DEF AmountTypeOK
    <3> QED BY <1>0, <2>1, <2>2, <3>2, <3>3
  <2> QED BY <1>4, <2>3, <2>4 DEF FetchEnds, AmountTypeOK
<1>5. CASE Age
  <2>1. Aged(settings.rate) \in Rates \cup {NoRate} /\ Aged(fiat.rate) \in Rates \cup {NoRate}
    BY <1>0, AgedType
  <2> QED BY <1>5, <2>1 DEF Age, AmountTypeOK
<1>6. CASE EditRecv \/ EditSend
  <2>1. \A a \in AmountForms : Typed(a) \subseteq AmountForms
    BY TypedType
  <2>2. IsLive(fiat) => \A a \in AmountForms : Swapped(a) \in AmountForms
    BY SwappedType
  <2>3. send \in AmountForms /\ recv \in AmountForms
    BY DEF AmountTypeOK
  <2>4. send' \in AmountForms /\ recv' \in AmountForms
    BY <1>6, <2>1, <2>2, <2>3 DEF EditRecv, EditSend
  <2> QED BY <1>6, <2>4 DEF EditRecv, EditSend, AmountTypeOK
<1>7. Exactly("xmr") \in Texts /\ send.text \in Texts
  BY DEF Exactly, Texts, Units, AmountTypeOK, AmountForms
<1>8. ASSUME NEW b \in BOOLEAN, FillFromUri(b) PROVE AmountTypeOK'
  BY <1>7, <1>8 DEF FillFromUri, AmountTypeOK, AmountForms
<1>9. CASE StartScanning \/ StartSend
  BY <1>9 DEF StartScanning, StartSend, AmountTypeOK
<1>10. ASSUME NEW t \in Texts, SendInXmr(t), UNCHANGED sending \/ sending' = FALSE
       PROVE  AmountTypeOK'
  BY <1>10, SendInXmrType DEF SendInXmr, AmountTypeOK
<1>11. ASSUME NEW b \in BOOLEAN, FillSendMax(b) PROVE AmountTypeOK'
  BY <1>7, <1>10, <1>11 DEF FillSendMax
<1>12. CASE MaxPreviewed \/ Sent
  BY <1>7, <1>10, <1>12 DEF MaxPreviewed, Sent
<1>13. CASE OpenForms
  <2>1. fiat_fetching' \in Currencies \cup {NoRate}
    BY <1>0, <1>13, RefreshedType DEF OpenForms
  <2> QED BY <1>13, <2>1 DEF OpenForms, AmountTypeOK
<1>14. CASE LockForms
  <2>1. Blank \in Texts
    BY DEF Blank, Texts, Units
  <2> QED BY <1>14, <2>1 DEF LockForms, AmountTypeOK, AmountForms
<1>15. CASE RelaunchForms
  <2>1. Empty \in AmountForms
    BY DEF Empty, Blank, AmountForms, Texts, Modes, Units
  <2> QED BY <1>0, <1>15, <2>1 DEF RelaunchForms, Launched, AmountTypeOK
<1>16. CASE UNCHANGED amountVars
  BY <1>16 DEF amountVars, AmountTypeOK
<1> QED
  BY <1>1, <1>2, <1>3, <1>4, <1>5, <1>6, <1>8, <1>9, <1>11, <1>12, <1>13, <1>14, <1>15,
     <1>16 DEF AmountNext

\* The rate, the fetch, the files and both amounts keep their types.
THEOREM AmountTypeCorrect == AmountSpec => []AmountTypeOK
<1>1. AmountInit => AmountTypeOK
  <2> SUFFICES ASSUME AmountInit PROVE AmountTypeOK
    OBVIOUS
  <2>1. Empty \in AmountForms
    BY DEF Empty, Blank, AmountForms, Texts, Modes, Units
  <2> QED BY <2>1 DEF AmountInit, Launched, AmountTypeOK
<1> QED BY <1>1, AmountTypeNext, PTL DEF AmountSpec

(* The units.  The rate is of the chosen currency, a form in fiat has the opt-in, and *)
(* the amount asked for is read in the unit it was meant in.                          *)

RateOfCurrency ==
  fiat.rate # NoRate /\ ~fiat.leftover => fiat.enabled /\ fiat.rate.currency = fiat.currency
FiatByConsent == ~fiat.enabled => send.mode = "xmr" /\ recv.mode = "xmr"
InItsUnit(a) ==
  a.text.unit # "none" /\ a.text.exact => (a.mode = "fiat" <=> a.text.unit \in Currencies)

LEMMA RateNext ==
  ASSUME AmountTypeOK, RateOfCurrency, [AmountNext]_amountVars PROVE RateOfCurrency'
<1> USE DEF RateOfCurrency
<1>1. ASSUME UNCHANGED fiat PROVE RateOfCurrency'
  BY <1>1
<1>2. CASE ToggleFiat
  BY <1>2 DEF ToggleFiat, AmountTypeOK
<1>3. ASSUME NEW c \in Currencies, CycleCurrency(c) PROVE RateOfCurrency'
  BY <1>3 DEF CycleCurrency, AmountTypeOK
<1>4. ASSUME NEW ok \in BOOLEAN, FetchEnds(ok) PROVE RateOfCurrency'
  <2> DEFINE new == [currency |-> fiat_fetching, live |-> TRUE]
  <2>1. \/ fiat' = fiat
        \/ /\ ~fiat.enabled
           /\ fiat' = [[fiat EXCEPT !.leftover = FALSE] EXCEPT !.rate = NoRate]
        \/ \E q \in {NoRate, new, settings.rate} :
             /\ fiat.enabled /\ (q # NoRate => q.currency = fiat.currency)
             /\ fiat' = [[fiat EXCEPT !.leftover = FALSE] EXCEPT !.rate = q]
    BY <1>4 DEF FetchEnds
  <2> HIDE DEF new
  <2>2. \A q : LET f == [[fiat EXCEPT !.leftover = FALSE] EXCEPT !.rate = q]
              IN f.rate = q /\ f.enabled = fiat.enabled /\ f.currency = fiat.currency
    BY DEF AmountTypeOK
  <2> QED BY <1>1, <2>1, <2>2
<1>5. CASE Age
  <2>1. Aged(fiat.rate) # NoRate =>
          fiat.rate # NoRate /\ Aged(fiat.rate).currency = fiat.rate.currency
    BY AgedType DEF AmountTypeOK
  <2>2. fiat' = fiat \/ fiat' = [fiat EXCEPT !.rate = Aged(@)]
    BY <1>5 DEF Age
  <2> QED BY <2>1, <2>2 DEF AmountTypeOK
<1>6. CASE RelaunchForms
  BY <1>6 DEF RelaunchForms, Launched
<1>7. CASE Poll \/ EditRecv \/ EditSend \/ StartScanning \/ StartSend \/ OpenForms \/ LockForms
  BY <1>1, <1>7 DEF Poll, EditRecv, EditSend, StartScanning, StartSend, OpenForms, LockForms
<1>8. CASE MaxPreviewed \/ Sent
  BY <1>1, <1>8 DEF MaxPreviewed, Sent, SendInXmr
<1>9. ASSUME NEW b \in BOOLEAN, FillFromUri(b) \/ FillSendMax(b) PROVE RateOfCurrency'
  BY <1>1, <1>9 DEF FillFromUri, FillSendMax, SendInXmr
<1>10. CASE UNCHANGED amountVars
  BY <1>1, <1>10 DEF amountVars
<1> QED
  BY <1>2, <1>3, <1>4, <1>5, <1>6, <1>7, <1>8, <1>9, <1>10 DEF AmountNext

LEMMA CoercedUnit ==
  ASSUME NEW f, NEW a \in AmountForms
  PROVE  /\ a.mode = "xmr" => Coerced(a, f).mode = "xmr"
         /\ ~f.enabled => Coerced(a, f).mode = "xmr"
         /\ InItsUnit(a) => InItsUnit(Coerced(a, f))
  BY DEF Coerced, IsLive, InItsUnit, Empty, Blank, AmountForms, Modes

LEMMA EditUnit ==
  ASSUME AmountTypeOK, NEW a \in AmountForms,
         NEW b \in Typed(a) \cup (IF IsLive(fiat) THEN {Swapped(a)} ELSE {})
  PROVE  /\ ~fiat.enabled => b.mode = a.mode
         /\ InItsUnit(a) => InItsUnit(b)
<1>1. CASE b \in Typed(a)
  <2>1. PICK t \in {Blank} \cup [unit : {IF a.mode = "fiat" THEN fiat.currency ELSE "xmr"},
                                 exact : BOOLEAN] :
          b = [a EXCEPT !.text = t]
    BY <1>1 DEF Typed
  <2>2. b.mode = a.mode /\ b.text = t
    BY <2>1 DEF AmountForms
  <2>3. t.unit = "none" \/ t.unit = IF a.mode = "fiat" THEN fiat.currency ELSE "xmr"
    BY <2>1 DEF Blank
  <2>4. fiat.currency \in Currencies
    BY DEF AmountTypeOK
  <2> QED BY CurrencyAssumption, <2>2, <2>3, <2>4 DEF InItsUnit
<1>2. CASE IsLive(fiat) /\ b = Swapped(a)
  <2>1. fiat.enabled /\ fiat.rate.currency \in Currencies
    BY <1>2 DEF IsLive, AmountTypeOK, Rates
  <2>2. /\ b.mode = (IF a.mode = "xmr" THEN "fiat" ELSE "xmr")
        /\ b.text = IF Parses(a) THEN Exactly(IF a.mode = "xmr" THEN fiat.rate.currency
                                                               ELSE "xmr")
                                 ELSE a.text
    BY <1>2 DEF Swapped
  <2>3. ~Parses(a) => a.text.unit = "none" \/ ~a.text.exact
    BY DEF Parses
  <2> QED BY CurrencyAssumption, <2>1, <2>2, <2>3 DEF InItsUnit, Exactly
<1> QED BY <1>1, <1>2

LEMMA ConsentNext ==
  ASSUME AmountTypeOK, FiatByConsent, [AmountNext]_amountVars PROVE FiatByConsent'
<1> USE DEF FiatByConsent
<1>0. send \in AmountForms /\ recv \in AmountForms
  BY DEF AmountTypeOK
<1>1. ASSUME fiat'.enabled = fiat.enabled, UNCHANGED <<send, recv>> PROVE FiatByConsent'
  BY <1>1
<1>2. CASE ToggleFiat
  <2> DEFINE off == [fiat EXCEPT !.enabled = FALSE, !.rate = NoRate, !.leftover = FALSE]
  <2>1. CASE fiat.enabled
    <3>1. ~off.enabled
      BY DEF AmountTypeOK
    <3>2. send' = Coerced(send, off) /\ recv' = Coerced(recv, off)
      BY <1>2, <2>1 DEF ToggleFiat
    <3> HIDE DEF off
    <3> QED BY <1>0, <3>1, <3>2, CoercedUnit
  <2>2. CASE ~fiat.enabled
    BY <1>2, <2>2 DEF ToggleFiat, AmountTypeOK
  <2> QED BY <2>1, <2>2
<1>3. ASSUME NEW c \in Currencies, CycleCurrency(c) PROVE FiatByConsent'
  BY <1>1, <1>3 DEF CycleCurrency, AmountTypeOK
<1>4. ASSUME NEW ok \in BOOLEAN, FetchEnds(ok) PROVE FiatByConsent'
  <2>1. fiat'.enabled = fiat.enabled
    BY <1>4 DEF FetchEnds, AmountTypeOK
  <2> QED BY <1>1, <1>4, <2>1 DEF FetchEnds
<1>5. CASE Age
  <2>1. fiat'.enabled = fiat.enabled
    BY <1>5 DEF Age, AmountTypeOK
  <2> QED BY <1>1, <1>5, <2>1 DEF Age
<1>6. CASE RelaunchForms
  BY <1>6 DEF RelaunchForms, Empty
<1>7. CASE Poll
  BY <1>0, <1>7, CoercedUnit DEF Poll
<1>8. CASE EditRecv \/ EditSend
  BY <1>0, <1>8, EditUnit DEF EditRecv, EditSend
<1>9. CASE LockForms
  BY <1>0, <1>9 DEF LockForms, AmountForms
<1>10. ASSUME NEW t, SendInXmr(t) PROVE FiatByConsent'
  BY <1>10 DEF SendInXmr
<1>11. CASE MaxPreviewed \/ Sent \/ \E b \in BOOLEAN : FillSendMax(b)
  BY <1>10, <1>11 DEF MaxPreviewed, Sent, FillSendMax
<1>12. ASSUME NEW b \in BOOLEAN, FillFromUri(b) PROVE FiatByConsent'
  BY <1>0, <1>12 DEF FillFromUri, AmountForms
<1>13. CASE StartScanning \/ StartSend \/ OpenForms \/ UNCHANGED amountVars
  BY <1>1, <1>13 DEF StartScanning, StartSend, OpenForms, amountVars
<1> QED
  BY <1>2, <1>3, <1>4, <1>5, <1>6, <1>7, <1>8, <1>9, <1>11, <1>12, <1>13 DEF AmountNext

LEMMA RecvNext ==
  ASSUME AmountTypeOK, InItsUnit(recv), [AmountNext]_amountVars
  PROVE  InItsUnit(recv')
<1>0. recv \in AmountForms
  BY DEF AmountTypeOK
<1>1. ASSUME UNCHANGED recv PROVE InItsUnit(recv')
  BY <1>1
<1>2. CASE ToggleFiat \/ Poll
  BY <1>0, <1>2, CoercedUnit DEF ToggleFiat, Poll
<1>3. CASE EditRecv
  BY <1>0, <1>3, EditUnit DEF EditRecv
<1>4. CASE LockForms \/ RelaunchForms
  BY <1>0, <1>4 DEF LockForms, RelaunchForms, Empty, Blank, InItsUnit, AmountForms
<1>5. CASE Age \/ EditSend \/ StartScanning \/ StartSend \/ OpenForms \/ UNCHANGED amountVars
  BY <1>1, <1>5 DEF Age, EditSend, StartScanning, StartSend, OpenForms, amountVars
<1>6. CASE MaxPreviewed \/ Sent
  BY <1>1, <1>6 DEF MaxPreviewed, Sent, SendInXmr
<1>7. ASSUME NEW c \in Currencies, CycleCurrency(c) PROVE InItsUnit(recv')
  BY <1>1, <1>7 DEF CycleCurrency
<1>8. ASSUME NEW b \in BOOLEAN, FetchEnds(b) \/ FillFromUri(b) \/ FillSendMax(b)
      PROVE  InItsUnit(recv')
  BY <1>1, <1>8 DEF FetchEnds, FillFromUri, FillSendMax, SendInXmr
<1> QED BY <1>2, <1>3, <1>4, <1>5, <1>6, <1>7, <1>8 DEF AmountNext

\* Through fetches that end too late, opt-outs, restarts and rates that age, the rate is
\* one of the chosen currency unless a launch found it, no field is in fiat without the
\* opt-in, and an amount asked for is read in the unit it was typed in.
THEOREM UnitsKept == AmountSpec => []AmountsKeepTheirUnit
<1> DEFINE Inv == RateOfCurrency /\ FiatByConsent /\ InItsUnit(recv)
<1>1. AmountInit => Inv
  BY DEF AmountInit, Launched, RateOfCurrency, FiatByConsent, InItsUnit, Empty, Blank
<1>2. AmountTypeOK /\ Inv /\ [AmountNext]_amountVars => Inv'
  BY RateNext, ConsentNext, RecvNext
<1>3. Inv => AmountsKeepTheirUnit
  BY DEF RateOfCurrency, FiatByConsent, InItsUnit, AmountsKeepTheirUnit
<1> QED BY <1>1, <1>2, <1>3, AmountTypeCorrect, PTL DEF AmountSpec

--------------------------------------------------------------------------------
(* Extrema of sets of numbers *)

LEMMA LeastNatural ==
  ASSUME NEW T \in SUBSET Nat, T # {}
  PROVE  \E n \in T : \A m \in T : n <= m
<1>1. PICK n \in T : \A m \in T : ~(<<m, n>> \in OpToRel(<, Nat))
  BY NatLessThanWellFounded, WFMin
<1>2. \A m \in T : ~(m < n)
  BY <1>1 DEF OpToRel
<1> QED BY <1>2

LEMMA GreatestNatural ==
  ASSUME NEW T \in SUBSET Nat, T # {}, NEW b \in Nat, \A m \in T : m <= b
  PROVE  \E n \in T : \A m \in T : m <= n
<1> DEFINE D == {k \in Nat : \A m \in T : m <= k}
<1>1. D # {} /\ D \in SUBSET Nat
  OBVIOUS
<1>2. PICK n \in D : \A k \in D : n <= k
  BY <1>1, LeastNatural
<1>3. n \in T
  <2> SUFFICES ASSUME n \notin T PROVE FALSE
    OBVIOUS
  <2>1. \A m \in T : m <= n - 1 /\ n - 1 \in Nat
    BY <1>2
  <2>2. n - 1 \in D
    BY <2>1
  <2> QED BY <2>2, <1>2
<1> QED BY <1>2, <1>3

\* Max and Min of FiniteSetsExt are what they say for a bounded set of naturals.
LEMMA MaxOf ==
  ASSUME NEW T \in SUBSET Nat, T # {}, NEW b \in Nat, \A m \in T : m <= b
  PROVE  Max(T) \in T /\ \A m \in T : m <= Max(T)
<1>1. \E n \in T : \A m \in T : n >= m
  BY GreatestNatural
<1> QED BY <1>1 DEF Max

LEMMA MinOf ==
  ASSUME NEW T \in SUBSET Nat, T # {}
  PROVE  Min(T) \in T /\ \A m \in T : Min(T) <= m
<1>1. \E n \in T : \A m \in T : n =< m
  BY LeastNatural
<1> QED BY <1>1 DEF Min

LEMMA MaxOfTwo ==
  ASSUME NEW x \in Nat, NEW y \in Nat
  PROVE  Max({x, y}) \in {x, y} /\ x <= Max({x, y}) /\ y <= Max({x, y})
         /\ Max({x, y}) \in Nat
<1>1. \E n \in {x, y} : \A m \in {x, y} : n >= m
  OBVIOUS
<1> QED BY <1>1 DEF Max

--------------------------------------------------------------------------------
(* ReceiveBook *)

(* -------------------------------- books --------------------------------- *)

LEMMA BookOf ==
  ASSUME NEW b \in Books
  PROVE  /\ b.next \in Nat /\ b.next \in 1..MaxIndex /\ b.selected \in Indices(b)
         /\ b.label \in [Indices(b) -> Labels] /\ 0 \in Indices(b)
         /\ Indices(b) \subseteq 0..MaxIndex /\ Indices(b) \in SUBSET Nat
         /\ b = [next |-> b.next, selected |-> b.selected, label |-> b.label]
<1>1. /\ b \in [next : 1..MaxIndex, selected : 0..MaxIndex, label : LabelMaps]
      /\ {0, b.selected} \subseteq Indices(b)
  BY DEF Books
<1>2. PICK I \in SUBSET (0..MaxIndex) : b.label \in [I -> Labels]
  BY <1>1 DEF LabelMaps
<1>3. Indices(b) = I
  BY <1>2 DEF Indices
<1> QED BY <1>1, <1>2, <1>3, BookAssumption

LEMMA BookFrom ==
  ASSUME NEW n \in 1..MaxIndex, NEW I \in SUBSET (0..MaxIndex), NEW l \in [I -> Labels],
         0 \in I, NEW s \in I
  PROVE  /\ [next |-> n, selected |-> s, label |-> l] \in Books
         /\ Indices([next |-> n, selected |-> s, label |-> l]) = I
<1>1. l \in LabelMaps
  BY DEF LabelMaps
<1> QED BY <1>1 DEF Books, Indices

LEMMA PrimaryBook ==
  Primary \in Books /\ Indices(Primary) = {0} /\ Valid(Primary) /\ Primary.next = 1
<1>1. [i \in {0} |-> "plain"] \in [{0} -> Labels]
  BY DEF Labels
<1>2. {0} \in SUBSET (0..MaxIndex) /\ 1 \in 1..MaxIndex /\ 0 \in {0}
  BY BookAssumption
<1>3. Primary \in Books /\ Indices(Primary) = {0} /\ Primary.next = 1
  BY <1>1, <1>2, BookFrom DEF Primary
<1>4. Max({0}) = 0
  BY DEF Max
<1> QED BY <1>3, <1>4, BookAssumption DEF Valid

\* The largest index handed out.
LEMMA Largest ==
  ASSUME NEW b \in Books
  PROVE  /\ Max(Indices(b)) \in Indices(b) /\ Max(Indices(b)) \in Nat
         /\ \A i \in Indices(b) : i \in Nat /\ i <= Max(Indices(b))
<1>1. Indices(b) \in SUBSET Nat /\ Indices(b) # {} /\ \A i \in Indices(b) : i <= MaxIndex
  BY BookOf
<1> QED BY <1>1, MaxOf, BookAssumption

\* What WalletCore is to scan with covers every index of the book.
LEMMA Covered ==
  ASSUME NEW b \in Books
  PROVE  /\ RequiredCoverage(b) \in Nat
         /\ \A i \in Indices(b) : i <= RequiredCoverage(b)
<1> DEFINE T == {Max(Indices(b)), b.next - 1, MinGap}
<1>1. Max(Indices(b)) \in Nat /\ b.next - 1 \in Nat /\ MinGap \in Nat
  BY BookOf, Largest, BookAssumption
<1> DEFINE bound == Max(Indices(b)) + b.next + MinGap
<1>2. T \in SUBSET Nat /\ T # {} /\ bound \in Nat /\ \A m \in T : m <= bound
  BY <1>1, BookOf
<1> HIDE DEF T, bound
<1>3. Max(T) \in T /\ \A m \in T : m <= Max(T)
  BY <1>2, MaxOf
<1>4. RequiredCoverage(b) = Max(T) /\ Max(Indices(b)) \in T
  BY DEF T, RequiredCoverage
<1>5. RequiredCoverage(b) \in Nat /\ Max(Indices(b)) <= RequiredCoverage(b)
  BY <1>2, <1>3, <1>4
<1>6. \A i \in Indices(b) : i \in Nat /\ i <= Max(Indices(b))
  BY Largest
<1> QED BY <1>1, <1>5, <1>6

LEMMA Neighbours ==
  ASSUME NEW b \in Books, NEW i, NEW forward \in BOOLEAN
  PROVE  Neighbour(b, i, forward) \in Indices(b) \cup {i}
<1> DEFINE I == Indices(b)
           here == IF i \in I THEN i ELSE 0
           beyond == {j \in I : IF forward THEN j > here ELSE j < here}
<1>1. I \in SUBSET Nat /\ 0 \in I /\ \A j \in I : j <= MaxIndex
  BY BookOf
<1>2. ASSUME beyond # {} PROVE Min(beyond) \in I /\ Max(beyond) \in I
  <2>1. beyond \in SUBSET I /\ beyond \in SUBSET Nat /\ \A j \in beyond : j <= MaxIndex
    BY <1>1
  <2> HIDE DEF beyond
  <2> QED BY <1>2, <2>1, MaxOf, MinOf, BookAssumption
<1>3. Max(I) \in I
  BY Largest
<1>4. Neighbour(b, i, forward) =
        IF I = {0} THEN i
        ELSE IF beyond = {} THEN IF forward THEN 0 ELSE Max(I)
        ELSE IF forward THEN Min(beyond) ELSE Max(beyond)
  BY DEF Neighbour
<1> HIDE DEF I, beyond
<1> QED BY <1>1, <1>2, <1>3, <1>4 DEF I

\* What is read back is a book or an error, and a book is read back unless it is refused.
LEMMA LoadedBook ==
  ASSUME NEW f \in {Missing, Corrupt} \cup Books
  PROVE  /\ Load(f) # Corrupt => Load(f) \in Books /\ Valid(Load(f))
         /\ f \in Books /\ Valid(f) => Load(f) = f
         /\ Load(f) \in Books \cup {Corrupt}
  BY PrimaryBook, BookAssumption DEF Load

\* format_book keeps everything but the separators in labels.
LEMMA Formats ==
  ASSUME NEW b \in Books
  PROVE  /\ Format(b) \in Books
         /\ (\A i \in Indices(b) : b.label[i] # "split") => Format(b) = b
<1> DEFINE l == [i \in Indices(b) |-> IF b.label[i] = "split" THEN "blanked"
                                                             ELSE b.label[i]]
<1>1. Format(b) = [next |-> b.next, selected |-> b.selected, label |-> l]
  BY BookOf DEF Format
<1>2. l \in [Indices(b) -> Labels]
  BY BookOf DEF Labels
<1>3. (\A i \in Indices(b) : b.label[i] # "split") => l = b.label
  BY BookOf
<1> HIDE DEF l
<1> QED BY <1>1, <1>2, <1>3, BookOf, BookFrom

(* ------------------------ the inductive invariant ----------------------- *)

BookInv == BookTypeOK /\ BookScanned /\ BookIsFile /\ FreshBalanceIsOfSource

\* The book an edit makes, and that the wallet scans it.
Edited(b) ==
  /\ b \in Books /\ (wallet_open => Valid(b) /\ \A i \in Indices(b) : i <= gap')

\* An edit is published with its file or not at all.
LEMMA UpdateKeeps ==
  ASSUME BookInv, NEW b, Edited(b), UpdateAndSave(b), wallet_open, wallet_open' = wallet_open,
         scan_gap_limit' = scan_gap_limit, spend' = spend, gap' \in 0..MaxIndex,
         \A i \in Indices(book) : i <= gap'
  PROVE  BookInv'
<1> USE DEF BookInv
<1>1. /\ book \in Books /\ book_file \in {Missing, Corrupt} \cup Books
      /\ b \in Books /\ Valid(b) /\ Valid(book) /\ outside \in BOOLEAN
  BY DEF BookTypeOK, Edited, BookScanned
<1>2. \/ book' = b /\ book_file' = Format(b) /\ outside' = outside
      \/ book' = book /\ book_file' = book_file /\ outside' = outside
      \/ book' = book /\ book_file' = Format(b) /\ outside' = TRUE
  BY DEF UpdateAndSave, Unsaved
<1>3. Format(b) \in Books
  BY <1>1, Formats
<1>4. BookTypeOK'
  BY <1>1, <1>2, <1>3 DEF BookTypeOK, Nobody
<1>5. Valid(book') /\ \A i \in Indices(book') : i <= gap'
  BY <1>1, <1>2 DEF Edited
<1>6. BookScanned'
  BY <1>5 DEF BookScanned, Valid, Indices
<1>7. BookIsFile'
  <2>1. CASE book' = b /\ book_file' = Format(b)
    <3>1. (\A i \in Indices(b) : b.label[i] # "split") => Load(book_file') = b
      BY <1>1, <2>1, Formats, LoadedBook
    <3> QED BY <2>1, <3>1 DEF BookIsFile, Indices, Load, Valid
  <2>2. CASE book' = book /\ book_file' = book_file /\ outside' = outside
    BY <2>2 DEF BookIsFile, Indices, Load, Valid
  <2>3. CASE outside' = TRUE
    BY <2>3 DEF BookIsFile
  <2> QED BY <1>2, <2>1, <2>2, <2>3
<1>8. FreshBalanceIsOfSource'
  BY DEF FreshBalanceIsOfSource
<1> QED BY <1>4, <1>6, <1>7, <1>8

\* A wallet without a session has nothing to scan.
LEMMA ClosedKeeps ==
  ASSUME BookInv, wallet_open' = FALSE, gap' = 0, spend' = NoSpend,
         book' \in Books, book_file' \in {Missing, Corrupt} \cup Books,
         outside' \in BOOLEAN, scan_gap_limit' = scan_gap_limit
  PROVE  BookInv'
<1>1. NoSpend \in [from : BOOLEAN, index : 0..MaxIndex, balance : 0..Nobody, stale : BOOLEAN]
  BY BookAssumption DEF NoSpend, Nobody
<1>2. BookTypeOK'
  <2>1. wallet_open' \in BOOLEAN /\ gap' \in 0..MaxIndex /\ scan_gap_limit' \in GapSteps
    <3>1. scan_gap_limit \in GapSteps
      BY DEF BookInv, BookTypeOK
    <3>2. 0 \in 0..MaxIndex
      BY BookAssumption
    <3> QED BY <3>1, <3>2
  <2>2. spend' \in [from : BOOLEAN, index : 0..MaxIndex, balance : 0..Nobody', stale : BOOLEAN]
    BY <1>1 DEF Nobody
  <2> QED BY <2>1, <2>2 DEF BookTypeOK
<1> QED BY <1>2 DEF BookInv, BookScanned, BookIsFile, FreshBalanceIsOfSource, NoSpend

LEMMA OpenKeeps == ASSUME BookInv, OpenWallet PROVE BookInv'
<1> DEFINE b == Load(book_file)
           coverage == Max({RequiredCoverage(b), scan_gap_limit})
<1>1. /\ ~wallet_open /\ b # Corrupt /\ book' = b /\ outside' = FALSE
      /\ \/ coverage <= CoreGap /\ wallet_open' = TRUE /\ gap' = coverage
         \/ UNCHANGED <<wallet_open, gap>>
      /\ UNCHANGED <<book_file, scan_gap_limit, spend>>
  BY DEF OpenWallet
<1>2. b \in Books /\ Valid(b)
  BY <1>1, LoadedBook DEF BookInv, BookTypeOK
<1>3. RequiredCoverage(b) \in Nat /\ scan_gap_limit \in Nat
      /\ \A i \in Indices(b) : i <= RequiredCoverage(b)
  BY <1>2, Covered, BookAssumption DEF BookInv, BookTypeOK
<1>4. coverage \in Nat /\ \A i \in Indices(b) : i <= coverage
  <2>1. coverage \in Nat /\ RequiredCoverage(b) <= coverage
    BY <1>3, MaxOfTwo
  <2>2. \A i \in Indices(b) : i \in Nat
    BY <1>2, BookOf
  <2> HIDE DEF b, coverage
  <2> QED BY <1>3, <2>1, <2>2
<1> HIDE DEF coverage
<1>5. gap' \in 0..MaxIndex /\ wallet_open' \in BOOLEAN
  <2>1. gap \in 0..MaxIndex /\ wallet_open \in BOOLEAN
    BY DEF BookInv, BookTypeOK
  <2>2. coverage <= CoreGap => coverage \in 0..MaxIndex
    BY <1>4, BookAssumption
  <2> QED BY <1>1, <2>1, <2>2
<1>6. BookTypeOK'
  BY <1>1, <1>2, <1>5 DEF BookInv, BookTypeOK, Nobody
<1>7. BookScanned'
  BY <1>1, <1>2, <1>4 DEF BookInv, BookScanned, Valid, Indices
<1>8. BookIsFile'
  BY <1>1 DEF BookInv, BookIsFile, Load, Valid, Indices
<1>9. FreshBalanceIsOfSource'
  BY <1>1 DEF BookInv, FreshBalanceIsOfSource
<1> QED BY <1>6, <1>7, <1>8, <1>9 DEF BookInv

LEMMA LabelKeeps ==
  ASSUME BookInv, NEW l \in {"plain", "split"}, SetSelectedLabel(l) PROVE BookInv'
<1> DEFINE b == [book EXCEPT !.label[book.selected] = l]
           labels == [book.label EXCEPT ![book.selected] = l]
<1>1. /\ wallet_open /\ UpdateAndSave(b) /\ UNCHANGED <<wallet_open, gap, scan_gap_limit, spend>>
      /\ book \in Books /\ Valid(book) /\ \A i \in Indices(book) : i <= gap
  BY DEF SetSelectedLabel, BookInv, BookTypeOK, BookScanned
<1>2. b = [next |-> book.next, selected |-> book.selected, label |-> labels]
  BY <1>1, BookOf
<1>3. labels \in [Indices(book) -> Labels]
  BY <1>1, BookOf DEF Labels
<1>4. b \in Books /\ Indices(b) = Indices(book) /\ b.next = book.next
  <2> HIDE DEF labels
  <2> QED BY <1>1, <1>2, <1>3, BookOf, BookFrom
<1> HIDE DEF b
<1>5. Edited(b)
  BY <1>1, <1>4 DEF Edited, Valid
<1> QED BY <1>1, <1>5, UpdateKeeps DEF BookInv, BookTypeOK

LEMMA CycleKeeps ==
  ASSUME BookInv, NEW forward \in BOOLEAN, CycleReceiveAddress(forward) PROVE BookInv'
<1> DEFINE s == Neighbour(book, book.selected, forward)
           b == [book EXCEPT !.selected = s]
<1>1. /\ wallet_open /\ UpdateAndSave(b) /\ UNCHANGED <<wallet_open, gap, scan_gap_limit, spend>>
      /\ book \in Books /\ Valid(book) /\ \A i \in Indices(book) : i <= gap
  BY DEF CycleReceiveAddress, BookInv, BookTypeOK, BookScanned
<1>2. s \in Indices(book)
  BY <1>1, BookOf, Neighbours
<1> HIDE DEF s
<1>3. b = [next |-> book.next, selected |-> s, label |-> book.label]
  BY <1>1, BookOf
<1>4. b \in Books /\ Indices(b) = Indices(book) /\ b.next = book.next
  BY <1>1, <1>2, <1>3, BookOf, BookFrom
<1> HIDE DEF b
<1>5. Edited(b)
  BY <1>1, <1>4 DEF Edited, Valid
<1> QED BY <1>1, <1>5, UpdateKeeps DEF BookInv, BookTypeOK

\* The next index is at most what WalletCore scans with, and below u32::MAX.
LEMMA CreateKeeps == ASSUME BookInv, CreateReceiveSubaddress PROVE BookInv'
<1> DEFINE requested == Max({book.next, scan_gap_limit})
           b == Allocate(book)
           n == book.next
           I == Indices(book) \cup {n}
           labels == [i \in I |-> IF i = n THEN "none" ELSE book.label[i]]
<1>1. /\ wallet_open /\ requested <= CoreGap /\ gap' = requested /\ UpdateAndSave(b)
      /\ UNCHANGED <<wallet_open, scan_gap_limit, spend>>
      /\ book \in Books /\ Valid(book) /\ scan_gap_limit \in Nat
  BY BookAssumption DEF CreateReceiveSubaddress, BookInv, BookTypeOK, BookScanned
<1>2. n \in Nat /\ requested \in Nat /\ n <= requested
  BY <1>1, BookOf, MaxOfTwo
<1> HIDE DEF requested
<1>3. n + 1 < MaxIndex /\ n + 1 \in 1..MaxIndex /\ n \in 0..MaxIndex /\ gap' \in 0..MaxIndex
  BY <1>1, <1>2, BookAssumption
<1>4. \A i \in Indices(book) : i \in Nat /\ i < n
  <2>1. n > Max(Indices(book))
    BY <1>1 DEF Valid
  <2> HIDE DEF n
  <2> QED BY <1>1, <1>2, <2>1, Largest
<1>5. labels \in [I -> Labels]
  BY <1>1, BookOf DEF Labels
<1>6. b = [next |-> n + 1, selected |-> n, label |-> labels]
  BY DEF Allocate
<1>7. I \in SUBSET (0..MaxIndex) /\ 0 \in I /\ n \in I
  BY <1>1, <1>3, BookOf
<1> HIDE DEF b, n, labels
<1>8. b \in Books /\ Indices(b) = I /\ b.next = n + 1
  <2> HIDE DEF I
  <2> QED BY <1>3, <1>5, <1>6, <1>7, BookFrom
<1>9. \A i \in I : i \in Nat /\ i <= n
  BY <1>2, <1>4
<1>10. Valid(b)
  <2>1. Max(I) \in I
    BY <1>8, Largest
  <2> QED BY <1>2, <1>3, <1>8, <1>9, <2>1 DEF Valid
<1>11. Edited(b)
  BY <1>1, <1>2, <1>8, <1>9, <1>10 DEF Edited
<1>12. \A i \in Indices(book) : i <= gap'
  BY <1>1, <1>2, <1>4
<1> QED BY <1>1, <1>3, <1>11, <1>12, UpdateKeeps

LEMMA IncreaseKeeps == ASSUME BookInv, IncreaseScanLookahead PROVE BookInv'
<1> DEFINE current == Max({scan_gap_limit, RequiredCoverage(book)})
           larger == {g \in GapSteps : g > current}
<1>1. /\ larger # {} /\ UNCHANGED <<book, book_file, wallet_open, spend, outside>>
      /\ IF wallet_open THEN Min(larger) <= CoreGap /\ gap' = Min(larger) ELSE UNCHANGED gap
      /\ scan_gap_limit' \in {scan_gap_limit, Min(larger)}
  BY DEF IncreaseScanLookahead
<1>2. book \in Books /\ scan_gap_limit \in Nat
  BY BookAssumption DEF BookInv, BookTypeOK
<1>3. RequiredCoverage(book) \in Nat /\ \A i \in Indices(book) : i <= RequiredCoverage(book)
  BY <1>2, Covered
<1>4. current \in Nat /\ RequiredCoverage(book) <= current
  BY <1>2, <1>3, MaxOfTwo
<1> HIDE DEF current
<1>5. larger \in SUBSET Nat
  BY BookAssumption
<1>6. Min(larger) \in GapSteps /\ Min(larger) \in Nat /\ Min(larger) > current
  <2>1. Min(larger) \in larger
    BY <1>1, <1>5, MinOf
  <2> QED BY <2>1, BookAssumption
<1> HIDE DEF larger
<1>7. \A i \in Indices(book) : i \in Nat /\ i <= Min(larger)
  BY <1>2, <1>3, <1>4, <1>6, BookOf
<1>8. gap' \in 0..MaxIndex /\ scan_gap_limit' \in GapSteps
  BY <1>1, <1>6, BookAssumption DEF BookInv, BookTypeOK
<1>9. BookTypeOK'
  BY <1>1, <1>8 DEF BookInv, BookTypeOK, Nobody
<1>10. BookScanned'
  BY <1>1, <1>7 DEF BookInv, BookScanned, Valid, Indices
<1> QED BY <1>1, <1>9, <1>10 DEF BookInv, BookIsFile, FreshBalanceIsOfSource, Load, Valid, Indices

\* A balance is queried for the source chosen, or is marked stale.
LEMMA SpendKeeps ==
  ASSUME BookInv, NEW s \in [from : BOOLEAN, index : 0..MaxIndex, balance : 0..Nobody,
                             stale : BOOLEAN],
         wallet_open, SpendAction(s)
  PROVE  BookInv'
<1> DEFINE shown == [s EXCEPT !.balance = s.index, !.stale = FALSE]
           cleared == [s EXCEPT !.balance = Nobody, !.stale = FALSE]
           unknown == [s EXCEPT !.stale = TRUE]
<1>1. /\ UNCHANGED <<book, book_file, wallet_open, gap, scan_gap_limit, outside>>
      /\ spend' \in IF ~s.from \/ ~wallet_open THEN {cleared} ELSE {shown, unknown}
  BY DEF SpendAction, Requeried
<1> DEFINE Spends == [from : BOOLEAN, index : 0..MaxIndex, balance : 0..Nobody, stale : BOOLEAN]
<1>2. spend' \in [from : BOOLEAN, index : 0..MaxIndex, balance : 0..Nobody, stale : BOOLEAN]
  <2>1. Nobody \in 0..Nobody /\ s.index \in 0..Nobody
    BY BookAssumption DEF Nobody
  <2> HIDE DEF Nobody
  <2>2. cleared \in Spends /\ shown \in Spends /\ unknown \in Spends
    BY <2>1
  <2> QED BY <1>1, <2>2
<1>3. BookTypeOK'
  BY <1>1, <1>2 DEF BookInv, BookTypeOK, Nobody
<1>4. s.from => FreshBalanceIsOfSource'
  BY <1>1 DEF FreshBalanceIsOfSource
<1>5. ~s.from => FreshBalanceIsOfSource'
  BY <1>1 DEF FreshBalanceIsOfSource
<1> QED BY <1>1, <1>3, <1>4, <1>5 DEF BookInv, BookScanned, BookIsFile, Load, Valid, Indices

LEMMA BookSteps == ASSUME BookInv, [BookNext]_bookVars PROVE BookInv'
<1> DEFINE Spends == [from : BOOLEAN, index : 0..MaxIndex, balance : 0..Nobody, stale : BOOLEAN]
<1>0. /\ book \in Books /\ book_file \in {Missing, Corrupt} \cup Books /\ spend \in Spends
      /\ outside \in BOOLEAN
  BY DEF BookInv, BookTypeOK
<1>1. CASE OpenWallet
  BY <1>1, OpenKeeps
<1>2. CASE LockWallet
  BY <1>0, <1>2, ClosedKeeps DEF LockWallet
<1>3. CASE RemoveBook
  BY <1>0, <1>3, ClosedKeeps, PrimaryBook DEF RemoveBook
<1>4. CASE \E l \in {"plain", "split"} : SetSelectedLabel(l)
  BY <1>4, LabelKeeps
<1>5. ASSUME NEW forward \in BOOLEAN, CycleReceiveAddress(forward) PROVE BookInv'
  BY <1>5, CycleKeeps
<1>6. ASSUME NEW forward \in BOOLEAN, CycleSendSource(forward) PROVE BookInv'
  <2>1. Neighbour(book, spend.index, forward) \in 0..MaxIndex
    BY <1>0, Neighbours, BookOf
  <2>2. [spend EXCEPT !.index = Neighbour(book, @, forward)] \in Spends
    BY <1>0, <2>1
  <2> QED BY <1>6, <2>2, SpendKeeps DEF CycleSendSource
<1>7. CASE CreateReceiveSubaddress
  BY <1>7, CreateKeeps
<1>8. CASE IncreaseScanLookahead
  BY <1>8, IncreaseKeeps
<1>9. CASE ToggleSendFromSubaddress
  <2>1. [spend EXCEPT !.from = ~@, !.index = IF spend.from THEN @ ELSE book.selected] \in Spends
    BY <1>0, BookOf
  <2> QED BY <1>9, <2>1, SpendKeeps DEF ToggleSendFromSubaddress
<1>10. CASE RefreshBalance
  BY <1>0, <1>10, SpendKeeps DEF RefreshBalance
<1>11. ASSUME NEW f \in {Missing, Corrupt, Backup}, ChangeFile(f) PROVE BookInv'
  <2>1. Backup \in Books
    <3>1. [i \in {0, 2} |-> "plain"] \in [{0, 2} -> Labels] /\ {0, 2} \in SUBSET (0..MaxIndex)
      BY BookAssumption DEF Labels
    <3>2. 3 \in 1..MaxIndex /\ 2 \in {0, 2} /\ 0 \in {0, 2}
      BY BookAssumption
    <3> QED BY <3>1, <3>2, BookFrom DEF Backup
  <2> QED BY <1>11, <2>1
          DEF ChangeFile, BookInv, BookTypeOK, BookScanned, BookIsFile, FreshBalanceIsOfSource,
              Valid, Indices, Nobody
<1>12. CASE UNCHANGED bookVars
  BY <1>12 DEF bookVars, BookInv, BookTypeOK, BookScanned, BookIsFile, FreshBalanceIsOfSource,
               Valid, Indices, Load, Nobody
<1> QED BY <1>1, <1>2, <1>3, <1>4, <1>5, <1>6, <1>7, <1>8, <1>9, <1>10, <1>11, <1>12
        DEF BookNext

LEMMA BookStarts == BookInit => BookInv
<1> SUFFICES ASSUME BookInit PROVE BookInv
  OBVIOUS
<1>1. NoSpend \in [from : BOOLEAN, index : 0..MaxIndex, balance : 0..Nobody, stale : BOOLEAN]
  BY BookAssumption DEF NoSpend, Nobody
<1>2. BookTypeOK
  <2>1. 0 \in 0..MaxIndex
    BY BookAssumption
  <2> QED BY <1>1, <2>1, PrimaryBook DEF BookInit, BookTypeOK
<1> QED BY <1>2 DEF BookInit, BookInv, BookScanned, BookIsFile, FreshBalanceIsOfSource, NoSpend

LEMMA BookStaysInv == BookSpec => []BookInv
  BY BookStarts, BookSteps, PTL DEF BookSpec

(* ------------------------------- the theorems --------------------------- *)

\* Home's copy, the file, the lookahead and the spending source keep their types: an
\* index never leaves u32, in whatever order addresses are created and books restored.
THEOREM BookTypeCorrect == BookSpec => []BookTypeOK
  BY BookStaysInv, PTL DEF BookInv

\* create_receive_subaddress raises the lookahead before it hands an index out, and
\* open_with_mnemonic to what the book needs: all that was handed out is scanned.
THEOREM BookAlwaysScanned == BookSpec => []BookScanned
  BY BookStaysInv, PTL DEF BookInv

\* update_and_save publishes what it wrote, and only after what it read was the copy.
THEOREM BookAlwaysFile == BookSpec => []BookIsFile
  BY BookStaysInv, PTL DEF BookInv

\* refresh_send_source_balance never leaves another source's balance unmarked.
THEOREM FreshBalances == BookSpec => []FreshBalanceIsOfSource
  BY BookStaysInv, PTL DEF BookInv

--------------------------------------------------------------------------------
(* TextEdit *)

(* ----------------------------- byte offsets ----------------------------- *)

Wide(t, i) == {j \in 1..i : t[j] # "a"}

LEMMA WideFinite ==
  ASSUME NEW t, NEW i \in Nat
  PROVE  IsFiniteSet(Wide(t, i)) /\ Cardinality(Wide(t, i)) \in Nat
         /\ Cardinality(Wide(t, i)) <= i
<1>1. IsFiniteSet(1..i) /\ Cardinality(1..i) = i
  BY FS_Interval
<1>2. Wide(t, i) \in SUBSET (1..i)
  BY DEF Wide
<1> QED BY <1>1, <1>2, FS_Subset, FS_CardinalityType

LEMMA AtBounds ==
  ASSUME NEW t, NEW i \in Nat
  PROVE  At(t, i) \in Nat /\ i <= At(t, i) /\ At(t, i) <= 2 * i
<1>1. At(t, i) = i + Cardinality(Wide(t, i))
  BY DEF At, Wide
<1> QED BY <1>1, WideFinite

\* A character further on is at least a byte further on.
LEMMA AtGrows ==
  ASSUME NEW t, NEW i \in Nat, NEW j \in Nat, i < j PROVE At(t, i) < At(t, j)
<1>1. Wide(t, i) \in SUBSET Wide(t, j)
  BY DEF Wide
<1>2. Cardinality(Wide(t, i)) <= Cardinality(Wide(t, j))
  BY <1>1, WideFinite, FS_Subset
<1>3. At(t, i) = i + Cardinality(Wide(t, i)) /\ At(t, j) = j + Cardinality(Wide(t, j))
  BY DEF At, Wide
<1> QED BY <1>2, <1>3, WideFinite

LEMMA AtInjective ==
  ASSUME NEW t, NEW i \in Nat, NEW j \in Nat, At(t, i) = At(t, j) PROVE i = j
<1>1. CASE i < j
  BY <1>1, AtGrows, AtBounds
<1>2. CASE j < i
  BY <1>2, AtGrows, AtBounds
<1> QED BY <1>1, <1>2

LEMMA AtSame ==
  ASSUME NEW t, NEW u, NEW i \in Nat, \A j \in 1..i : u[j] = t[j] PROVE At(u, i) = At(t, i)
<1>1. Wide(u, i) = Wide(t, i)
  BY DEF Wide
<1> QED BY <1>1 DEF At, Wide

\* A text holds another one behind its character i; the bytes of a text in two parts.
HeldAt(u, v, i, k) == \A j \in 1..k : u[i + j] = v[j]

LEMMA AtParts ==
  ASSUME NEW u, NEW v, NEW i \in Nat, NEW k \in Nat, NEW n \in Nat, n = i + k,
         HeldAt(u, v, i, k)
  PROVE  At(u, n) = At(u, i) + At(v, k)
<1> DEFINE S == Wide(v, k)
           T == {j \in (i + 1)..(i + k) : u[j] # "a"}
           f == [j \in S |-> i + j]
<1>0. \A j \in 1..k : u[i + j] = v[j]
  BY DEF HeldAt
<1>1. \A j \in S : j \in 1..k /\ i + j \in T /\ f[j] = i + j
  BY <1>0 DEF Wide
<1>2. \A m \in T : m - i \in S /\ f[m - i] = m
  <2> SUFFICES ASSUME NEW m \in T PROVE m - i \in S /\ f[m - i] = m
    OBVIOUS
  <2>1. m \in (i + 1)..(i + k) /\ u[m] # "a"
    OBVIOUS
  <2>2. m - i \in 1..k /\ i + (m - i) = m
    BY <2>1
  <2>3. v[m - i] # "a"
    BY <1>0, <2>1, <2>2
  <2>4. m - i \in S
    BY <2>2, <2>3 DEF Wide
  <2> QED BY <2>2, <2>4
<1>3. f \in [S -> T]
  BY <1>1
<1>4. IsInjective(f)
  BY <1>1 DEF IsInjective
<1> HIDE DEF f
<1>5. f \in Bijection(S, T)
  BY <1>2, <1>3, <1>4 DEF Bijection, Injection, Surjection
<1>6. IsFiniteSet(T) /\ Cardinality(T) = Cardinality(S)
  BY <1>5, WideFinite, FS_Bijection DEF ExistsBijection
<1>7. Wide(u, n) = Wide(u, i) \cup T /\ Wide(u, i) \cap T = {}
  BY DEF Wide
<1> HIDE DEF S, T
<1>8. Cardinality(Wide(u, n)) = Cardinality(Wide(u, i)) + Cardinality(S)
  <2> DEFINE W == Wide(u, i)
  <2>1. IsFiniteSet(W) /\ Cardinality(W) \in Nat
    BY WideFinite
  <2> HIDE DEF W
  <2>2. Cardinality(W \cup T) = Cardinality(W) + Cardinality(T) - Cardinality(W \cap T)
    BY <1>6, <2>1, FS_Union
  <2>3. Cardinality(W \cap T) = 0
    BY <1>7, FS_EmptySet DEF W
  <2>4. Cardinality(S) \in Nat
    BY WideFinite DEF S
  <2>5. Cardinality(W \cup T) = Cardinality(W) + Cardinality(S)
    BY <1>6, <2>1, <2>2, <2>3, <2>4
  <2> QED BY <1>7, <2>5 DEF W
<1>9. /\ At(u, n) = i + k + Cardinality(Wide(u, n))
      /\ At(u, i) = i + Cardinality(Wide(u, i)) /\ At(v, k) = k + Cardinality(S)
  BY DEF At, Wide, S
<1> QED BY <1>8, <1>9, WideFinite DEF S

Contents == Seq(Characters)

LEMMA StringsAre ==
  ASSUME NEW n \in Nat PROVE Strings(n) = {t \in Contents : Len(t) <= n}
<1>1. ASSUME NEW t \in Strings(n) PROVE t \in Contents /\ Len(t) <= n
  BY DEF Strings, Contents
<1>2. ASSUME NEW t \in Contents, Len(t) <= n PROVE t \in Strings(n)
  <2>1. t \in [1..Len(t) -> Characters] /\ Len(t) \in 0..n
    BY <1>2 DEF Contents
  <2> QED BY <2>1 DEF Strings
<1> QED BY <1>1, <1>2

LEMMA BoundaryOf ==
  ASSUME NEW t \in Contents
  PROVE  /\ 0 \in Boundaries(t) /\ Bytes(t) \in Boundaries(t) /\ Len(t) \in Nat
         /\ \A b \in Boundaries(t) : b \in Nat /\ b <= Bytes(t)
         /\ Bytes(t) \in Nat /\ Bytes(t) <= 2 * Len(t)
         /\ Graphemes(t) \subseteq Boundaries(t)
<1>1. Len(t) \in Nat
  BY DEF Contents
<1>2. At(t, 0) = 0
  BY AtBounds
<1>3. ASSUME NEW i \in 0..Len(t) PROVE At(t, i) \in Nat /\ At(t, i) <= At(t, Len(t))
  <2>1. CASE i = Len(t)
    BY <1>1, <2>1, AtBounds
  <2>2. CASE i < Len(t)
    BY <1>1, <2>2, AtBounds, AtGrows
  <2> QED BY <1>1, <2>1, <2>2
<1>4. 0 \in 0..Len(t) /\ Len(t) \in 0..Len(t)
  BY <1>1
<1>5. Bytes(t) \in Nat /\ Bytes(t) <= 2 * Len(t)
  BY <1>1, AtBounds DEF Bytes
<1>6. Graphemes(t) \subseteq Boundaries(t)
  BY DEF Graphemes, Boundaries
<1> QED BY <1>1, <1>2, <1>3, <1>4, <1>5, <1>6 DEF Boundaries, Bytes

LEMMA SlicesAre ==
  ASSUME NEW t \in Contents, NEW i \in 0..Len(t)
  PROVE  /\ Before(t, At(t, i)) = SubSeq(t, 1, i)
         /\ After(t, At(t, i)) = SubSeq(t, 1 + i, Len(t))
<1>1. Len(t) \in Nat
  BY DEF Contents
<1>2. \A j \in 0..Len(t) : At(t, j) = At(t, i) <=> j = i
  BY <1>1, AtInjective
<1>3. (CHOOSE j \in 0..Len(t) : At(t, j) = At(t, i)) = i
  BY <1>2
<1> QED BY <1>3 DEF Before, After

\* What is put between two boundaries of a text begins, ends and has its own
\* boundaries at boundaries of the text made.
LEMMA Inserted ==
  ASSUME NEW t \in Contents, NEW new \in Contents, NEW start \in Boundaries(t),
         NEW end \in Boundaries(t),
         NEW u, u = Before(t, start) \o new \o After(t, end)
  PROVE  u \in Contents /\ \A b \in Boundaries(new) : start + b \in Boundaries(u)
<1>1. PICK i \in 0..Len(t) : start = At(t, i)
  BY DEF Boundaries
<1>2. PICK j \in 0..Len(t) : end = At(t, j)
  BY DEF Boundaries
<1> DEFINE x == SubSeq(t, 1, i)
           y == SubSeq(t, 1 + j, Len(t))
           xn == x \o new
<1>3. u = xn \o y
  BY <1>1, <1>2, SlicesAre
<1>4. Len(t) \in Nat /\ Len(new) \in Nat /\ t \in Seq(Characters) /\ new \in Seq(Characters)
  BY DEF Contents
<1>5. x \in Seq(Characters) /\ Len(x) = i /\ \A k \in 1..i : x[k] = t[k]
  BY <1>1, <1>4
<1>6. y \in Seq(Characters) /\ Len(y) \in Nat
  BY <1>2, <1>4
<1> HIDE DEF x, y
<1>7. /\ xn \in Seq(Characters) /\ Len(xn) = i + Len(new)
      /\ \A k \in 1..(i + Len(new)) : xn[k] = IF k <= i THEN x[k] ELSE new[k - i]
  BY <1>4, <1>5, ConcatProperties
<1> HIDE DEF xn
<1>8. /\ u \in Seq(Characters) /\ Len(u) = i + Len(new) + Len(y)
      /\ \A k \in 1..(i + Len(new) + Len(y)) :
           u[k] = IF k <= i + Len(new) THEN xn[k] ELSE y[k - (i + Len(new))]
  BY <1>3, <1>6, <1>7, ConcatProperties
<1>9. \A k \in 1..i : u[k] = t[k]
  <2> SUFFICES ASSUME NEW k \in 1..i PROVE u[k] = t[k]
    OBVIOUS
  <2>1. k \in 1..(i + Len(new)) /\ k \in 1..(i + Len(new) + Len(y)) /\ k <= i
        /\ k <= i + Len(new)
    BY <1>1, <1>4, <1>6
  <2> QED BY <1>5, <1>7, <1>8, <2>1
<1>10. \A k \in 1..Len(new) : u[i + k] = new[k]
  <2> SUFFICES ASSUME NEW k \in 1..Len(new) PROVE u[i + k] = new[k]
    OBVIOUS
  <2>1. i + k \in 1..(i + Len(new)) /\ i + k \in 1..(i + Len(new) + Len(y)) /\ ~(i + k <= i)
        /\ i + k <= i + Len(new) /\ (i + k) - i = k
    BY <1>1, <1>4, <1>6
  <2>2. u[i + k] = xn[i + k] /\ xn[i + k] = new[(i + k) - i]
    BY <1>7, <1>8, <2>1
  <2> QED BY <2>1, <2>2
<1>11. ASSUME NEW b \in Boundaries(new) PROVE start + b \in Boundaries(u)
  <2>1. PICK k \in 0..Len(new) : b = At(new, k)
    BY DEF Boundaries
  <2>2. i \in Nat /\ k \in Nat /\ HeldAt(u, new, i, k)
    <3>1. i \in Nat /\ k \in Nat /\ \A m \in 1..k : m \in 1..Len(new)
      BY <1>1, <1>4, <2>1
    <3> QED BY <1>10, <3>1 DEF HeldAt
  <2>3. At(u, i + k) = At(u, i) + At(new, k)
    <3> DEFINE n == i + k
    <3>1. n = i + k /\ i \in Nat /\ k \in Nat /\ n \in Nat
      BY <2>2
    <3> HIDE DEF n
    <3>2. At(u, n) = At(u, i) + At(new, k)
      BY <2>2, <3>1, AtParts
    <3> QED BY <3>2 DEF n
  <2>4. At(u, i) = At(t, i)
    BY <1>9, <2>2, AtSame
  <2>5. i + k \in 0..Len(u)
    BY <1>1, <1>4, <1>6, <1>8, <2>1
  <2> QED BY <1>1, <2>1, <2>3, <2>4, <2>5 DEF Boundaries
<1> QED BY <1>8, <1>11 DEF Contents

(* ------------------------ the inductive invariant ----------------------- *)

EditInv == EditTypeOK /\ EditsSlice

Selections == [start : 0..MaxBytes, end : 0..MaxBytes, reversed : BOOLEAN]

\* A text of the field has at most MaxBytes of them.
LEMMA TextOf ==
  ASSUME NEW t \in Strings(MaxLength)
  PROVE  /\ t \in Contents /\ 0 \in Boundaries(t) /\ Bytes(t) \in Boundaries(t)
         /\ \A b \in Boundaries(t) : b \in Nat /\ b \in 0..MaxBytes /\ b <= Bytes(t)
         /\ Graphemes(t) \subseteq Boundaries(t) /\ MaxBytes \in Nat
<1>1. t \in Contents /\ Len(t) <= MaxLength /\ MaxLength \in Nat
  BY StringsAre, EditAssumption
<1> QED BY <1>1, BoundaryOf DEF MaxBytes

\* The key targets are boundaries whatever the cursor is.
LEMMA PreviousIs ==
  ASSUME text \in Strings(MaxLength), NEW offset PROVE Previous(offset) \in Boundaries(text)
<1> DEFINE T == {0} \cup {g \in Graphemes(text) : g < offset}
<1>1. T \subseteq Boundaries(text) /\ T # {} /\ T \in SUBSET Nat
      /\ \A b \in T : b <= MaxBytes
  BY TextOf
<1> HIDE DEF T
<1>2. Max(T) \in T
  BY <1>1, TextOf, MaxOf
<1> QED BY <1>1, <1>2 DEF Previous, T

LEMMA NextIs ==
  ASSUME text \in Strings(MaxLength), NEW offset PROVE NextBoundary(offset) \in Boundaries(text)
<1> DEFINE T == {g \in Graphemes(text) \ {Bytes(text)} : g > offset}
<1>1. T \subseteq Boundaries(text) /\ T \in SUBSET Nat
  BY TextOf
<1>2. NextBoundary(offset) = IF T = {} THEN Bytes(text) ELSE Min(T)
  BY DEF NextBoundary
<1> HIDE DEF T
<1>3. T # {} => Min(T) \in T
  BY <1>1, MinOf
<1> QED BY <1>1, <1>2, <1>3, TextOf

\* The steps that leave the text alone.
LEMMA CursorKeeps ==
  ASSUME EditInv, UNCHANGED <<field, text>>, stale' \in BOOLEAN,
         NEW from \in 0..MaxBytes, NEW to \in 0..MaxBytes, NEW reversed \in BOOLEAN,
         selection' = [start |-> from, end |-> to, reversed |-> reversed],
         marked' \in {marked, NoRange},
         ~stale' => from \in Boundaries(text) /\ to \in Boundaries(text) /\ from <= to,
         ~stale' => ~stale \/ marked' = NoRange
  PROVE  EditInv'
<1>1. selection' \in Selections /\ selection'.start = from /\ selection'.end = to
  BY DEF Selections
<1>2. EditTypeOK'
  BY <1>1 DEF EditInv, EditTypeOK, Selections, Spans, MaxBytes
<1>3. EditsSlice'
  BY <1>1 DEF EditInv, EditsSlice
<1> QED BY <1>2, <1>3 DEF EditInv

LEMMA MoveToKeeps ==
  ASSUME EditInv, NEW offset \in Boundaries(text), MoveTo(offset) PROVE EditInv'
<1>1. /\ UNCHANGED <<field, text>> /\ stale' = FALSE /\ marked' = NoRange
      /\ selection' = [start |-> offset, end |-> offset, reversed |-> FALSE]
  BY DEF MoveTo, At0
<1>2. offset \in 0..MaxBytes /\ offset <= offset
  BY TextOf DEF EditInv, EditTypeOK
<1> QED BY <1>1, <1>2, CursorKeeps

LEMMA SelectToKeeps ==
  ASSUME EditInv, NEW offset \in Boundaries(text), SelectTo(offset) PROVE EditInv'
<1> DEFINE s == IF selection.reversed THEN [selection EXCEPT !.start = offset]
                                      ELSE [selection EXCEPT !.end = offset]
<1>1. /\ UNCHANGED <<field, text, marked, stale>>
      /\ selection' = IF s.end < s.start
                        THEN [start |-> s.end, end |-> s.start, reversed |-> ~s.reversed]
                        ELSE s
  BY DEF SelectTo
<1>2. /\ selection \in Selections /\ offset \in 0..MaxBytes /\ MaxBytes \in Nat
      /\ stale \in BOOLEAN /\ offset \in Nat
  BY TextOf DEF EditInv, EditTypeOK, Selections
<1>3. s \in Selections
  BY <1>2 DEF Selections
<1>4. ~stale => s.start \in Boundaries(text) /\ s.end \in Boundaries(text)
  BY <1>2 DEF EditInv, EditsSlice, Selections
<1> HIDE DEF s
<1>5. /\ s.start \in 0..MaxBytes /\ s.end \in 0..MaxBytes /\ s.reversed \in BOOLEAN
      /\ s = [start |-> s.start, end |-> s.end, reversed |-> s.reversed]
  BY <1>3 DEF Selections
<1>6. CASE s.end < s.start
  <2>1. s.end <= s.start /\ (~s.reversed) \in BOOLEAN
    BY <1>2, <1>5, <1>6
  <2> QED BY <1>1, <1>2, <1>4, <1>5, <1>6, <2>1, CursorKeeps
<1>7. CASE ~(s.end < s.start)
  <2>1. s.start <= s.end
    BY <1>2, <1>5, <1>7
  <2> QED BY <1>1, <1>2, <1>4, <1>5, <1>7, <2>1, CursorKeeps
<1> QED BY <1>6, <1>7

LEMMA KeysKeep ==
  ASSUME EditInv, Move \/ SelectByKey \/ (\E extend \in BOOLEAN : Click(extend))
  PROVE  EditInv'
<1>1. text \in Strings(MaxLength) /\ selection \in Selections /\ stale \in BOOLEAN
  BY DEF EditInv, EditTypeOK, Selections
<1>2. KeyTargets \subseteq Boundaries(text)
  BY <1>1, TextOf, PreviousIs, NextIs DEF KeyTargets
<1>3. ASSUME NEW offset \in KeyTargets, MoveTo(offset) PROVE EditInv'
  BY <1>2, <1>3, MoveToKeeps
<1>4. ASSUME NEW offset \in {selection.start, selection.end}, Collapse(offset) PROVE EditInv'
  <2>1. /\ UNCHANGED <<field, text, stale>> /\ marked' = NoRange
        /\ selection' = [start |-> offset, end |-> offset, reversed |-> FALSE]
    BY <1>4 DEF Collapse, At0
  <2>2. offset \in 0..MaxBytes /\ offset \in Nat /\ offset <= offset
    BY <1>1, TextOf DEF Selections
  <2>3. ~stale => offset \in Boundaries(text)
    BY DEF EditInv, EditsSlice
  <2> QED BY <1>1, <2>1, <2>2, <2>3, CursorKeeps
<1>5. CASE Move
  BY <1>3, <1>4, <1>5 DEF Move, KeyTargets
<1>6. CASE SelectByKey
  BY <1>2, <1>6, SelectToKeeps DEF SelectByKey
<1>7. CASE \E extend \in BOOLEAN : Click(extend)
  BY <1>7, MoveToKeeps, SelectToKeeps DEF Click
<1> QED BY <1>5, <1>6, <1>7

\* A selection that covers everything, or a range of the text.
LEMMA SelectKeeps ==
  ASSUME EditInv, SelectAll \/ \E r \in Ranges(text) : SetSelectedRange(r) PROVE EditInv'
<1>1. text \in Strings(MaxLength) /\ stale \in BOOLEAN
  BY DEF EditInv, EditTypeOK
<1>2. ASSUME NEW from \in Boundaries(text), NEW to \in Boundaries(text), from <= to,
             selection' = [start |-> from, end |-> to, reversed |-> FALSE],
             stale' = (stale /\ marked # NoRange), UNCHANGED <<field, text, marked>>
      PROVE  EditInv'
  <2>1. from \in 0..MaxBytes /\ to \in 0..MaxBytes
    BY <1>1, TextOf
  <2>2. stale' \in BOOLEAN /\ (~stale' => ~stale \/ marked' = NoRange)
    BY <1>1, <1>2
  <2> QED BY <1>2, <2>1, <2>2, CursorKeeps
<1>3. CASE SelectAll
  BY <1>1, <1>2, <1>3, TextOf DEF SelectAll
<1>4. ASSUME NEW r \in Ranges(text), SetSelectedRange(r) PROVE EditInv'
  <2>1. r.start \in Boundaries(text) /\ r.end \in Boundaries(text) /\ r.start <= r.end
    BY DEF Ranges
  <2> QED BY <1>2, <1>4, <2>1 DEF SetSelectedRange
<1> QED BY <1>3, <1>4

\* The steps that slice the text: the ends of the new selection and mark are boundaries
\* of what was put together, unless lower case gave it another length.
LEMMA EditKeeps ==
  ASSUME EditInv, NEW new \in Contents, NEW start \in Boundaries(text), NEW end \in Boundaries(text),
         NEW u, u = Before(text, start) \o new \o After(text, end),
         {u, Stored(u)} \subseteq Strings(MaxLength),
         NEW from \in Boundaries(new), NEW to \in Boundaries(new), from <= to,
         field' = field, text' = Stored(u), stale' = (Stored(u) # u),
         selection' = [start |-> start + from, end |-> start + to, reversed |-> FALSE],
         \/ marked' = NoRange
         \/ marked' = [start |-> start, end |-> start + Bytes(new)]
  PROVE  EditInv'
<1>1. text \in Contents /\ start \in Nat
  BY TextOf DEF EditInv, EditTypeOK
<1>2. \A b \in Boundaries(new) : start + b \in Boundaries(u) /\ b \in Nat
  BY <1>1, Inserted, BoundaryOf
<1>3. 0 \in Boundaries(new) /\ Bytes(new) \in Boundaries(new)
  BY BoundaryOf
<1>4. start + 0 = start
  BY <1>1
<1>5. /\ start \in Boundaries(u) /\ start + Bytes(new) \in Boundaries(u)
      /\ start + from \in Boundaries(u) /\ start + to \in Boundaries(u)
      /\ start + from <= start + to
  <2>1. start \in Boundaries(u)
    BY <1>2, <1>3, <1>4
  <2>2. from \in Nat /\ to \in Nat
    BY <1>2
  <2>3. start + Bytes(new) \in Boundaries(u)
    BY <1>2, <1>3
  <2>4. start + from \in Boundaries(u) /\ start + to \in Boundaries(u)
    BY <1>2
  <2>5. start + from <= start + to
    BY ONLY <1>1, <2>2, from <= to
  <2> QED BY <2>1, <2>3, <2>4, <2>5
<1>6. \A b \in Boundaries(u) : b \in 0..MaxBytes
  BY TextOf
<1>7. /\ selection'.start = start + from /\ selection'.end = start + to
      /\ selection' \in Selections
  BY <1>5, <1>6 DEF Selections
<1>8. /\ marked' \in Spans \cup {NoRange}
      /\ marked' # NoRange => marked'.start = start /\ marked'.end = start + Bytes(new)
  BY <1>5, <1>6 DEF Spans
<1>9. EditTypeOK'
  <2>1. MaxBytes' = MaxBytes /\ Spans' = Spans
    BY DEF MaxBytes, Spans
  <2>2. (Stored(u) # u) \in BOOLEAN
    OBVIOUS
  <2>3. field' \in {"free", "search", "digits"} /\ text' \in Strings(MaxLength)
        /\ stale' \in BOOLEAN
    BY <2>2 DEF EditInv, EditTypeOK
  <2> QED BY <1>7, <1>8, <2>1, <2>3 DEF EditTypeOK, Selections
<1>10. EditsSlice'
  <2>1. ~stale' => text' = u
    OBVIOUS
  <2> QED BY <1>5, <1>7, <1>8, <2>1 DEF EditsSlice
<1> QED BY <1>9, <1>10 DEF EditInv

LEMMA InputTexts ==
  ASSUME NEW new \in Contents PROVE Sanitized(new) \in Contents
<1>1. DOMAIN new = 1..Len(new) /\ Len(new) \in Nat
  BY DEF Contents
<1> DEFINE D == {i \in DOMAIN new : new[i] = "a"}
<1>2. IsFiniteSet(1..Len(new)) /\ D \in SUBSET (1..Len(new))
  BY <1>1, FS_Interval
<1>3. Cardinality(D) \in Nat
  BY <1>2, FS_Subset, FS_CardinalityType
<1>4. Sanitized(new) = IF field = "digits" THEN [j \in 1..Cardinality(D) |-> "a"] ELSE new
  BY DEF Sanitized
<1> HIDE DEF D
<1>5. [j \in 1..Cardinality(D) |-> "a"] \in Contents
  BY <1>3 DEF Contents, Characters
<1> QED BY <1>4, <1>5

LEMMA ReplacedKeeps ==
  ASSUME EditInv, NEW start, NEW end, NEW new \in Contents, Replaced(start, end, new)
  PROVE  EditInv'
<1> DEFINE from == Clamp(start)
           to == Max({Clamp(start), Clamp(end)})
           put == Sanitized(new)
           u == Before(text, from) \o put \o After(text, to)
<1>1. /\ from \in Boundaries(text) /\ Clamp(end) \in Boundaries(text)
      /\ {u, Stored(u)} \subseteq Strings(MaxLength)
      /\ field' = field /\ text' = Stored(u) /\ stale' = (Stored(u) # u)
      /\ selection' = [start |-> from + Bytes(put), end |-> from + Bytes(put), reversed |-> FALSE]
      /\ marked' = NoRange
  BY DEF Replaced, Slice, Put, At0
<1> HIDE DEF from
<1>2. put \in Contents
  BY InputTexts
<1>3. to \in Boundaries(text)
  <2>1. from \in Nat /\ Clamp(end) \in Nat
    BY <1>1, TextOf DEF EditInv, EditTypeOK
  <2>2. Max({from, Clamp(end)}) \in {from, Clamp(end)}
    BY <2>1, MaxOfTwo
  <2> QED BY <1>1, <2>2 DEF from
<1>4. Bytes(put) \in Boundaries(put) /\ Bytes(put) <= Bytes(put)
  BY <1>2, BoundaryOf
<1> HIDE DEF to, put, u
<1>5. u = Before(text, from) \o put \o After(text, to)
  BY DEF u
<1> QED BY <1>1, <1>2, <1>3, <1>4, <1>5, EditKeeps

LEMMA InputsAreTexts == Inputs \subseteq Contents
  BY DEF Inputs, Contents, Characters

LEMMA ReplacementsKeep ==
  ASSUME EditInv, \/ \E new \in Inputs : Replace(new)
                  \/ \E r \in Meant, new \in Inputs : ReplaceText(r, new)
                  \/ Backspace \/ DeleteForward
  PROVE  EditInv'
<1>1. <<>> \in Contents
  BY DEF Contents
<1> QED BY <1>1, InputsAreTexts, ReplacedKeeps DEF Replace, ReplaceText, Backspace, DeleteForward

LEMMA MarkKeeps ==
  ASSUME EditInv, NEW r \in Meant, NEW new \in Inputs, NEW chosen \in Ranges(new),
         ReplaceAndMark(r, new, chosen)
  PROVE  EditInv'
<1> DEFINE from == Clamp(r.start)
           to == Max({from, Clamp(r.end)})
           u == Before(text, from) \o new \o After(text, to)
<1>1. /\ from \in Boundaries(text) /\ Clamp(r.end) \in Boundaries(text)
      /\ {u, Stored(u)} \subseteq Strings(MaxLength)
      /\ field' = field /\ text' = Stored(u) /\ stale' = (Stored(u) # u)
      /\ selection' = [start |-> from + chosen.start, end |-> from + chosen.end,
                       reversed |-> FALSE]
      /\ marked' = NoRange \/ marked' = [start |-> from, end |-> from + Bytes(new)]
  BY DEF ReplaceAndMark, Slice
<1> HIDE DEF from
<1>2. new \in Contents
  BY InputsAreTexts
<1>3. to \in Boundaries(text)
  <2>1. from \in Nat /\ Clamp(r.end) \in Nat
    BY <1>1, TextOf DEF EditInv, EditTypeOK
  <2>2. Max({from, Clamp(r.end)}) \in {from, Clamp(r.end)}
    BY <2>1, MaxOfTwo
  <2> QED BY <1>1, <2>2
<1>4. chosen.start \in Boundaries(new) /\ chosen.end \in Boundaries(new)
      /\ chosen.start <= chosen.end
  BY DEF Ranges
<1> HIDE DEF to, u
<1>5. u = Before(text, from) \o new \o After(text, to)
  BY DEF u
<1> QED BY <1>1, <1>2, <1>3, <1>4, <1>5, EditKeeps

\* Another text, with the cursor behind it or with the selection there was.
LEMMA TextKeeps ==
  ASSUME EditInv, \/ \E kind \in {"free", "search", "digits"}, t \in Strings(1) : Focus(kind, t)
                  \/ \E t \in Strings(1) : SetByHandler(t)
                  \/ Unmark
  PROVE  EditInv'
<1>1. ASSUME NEW t \in Strings(1) PROVE t \in Strings(MaxLength)
  <2>1. MaxLength \in Nat /\ 1 <= MaxLength
    BY EditAssumption
  <2>2. t \in Contents /\ Len(t) <= 1
    BY StringsAre
  <2>3. Len(t) \in Nat
    BY <2>2 DEF Contents
  <2> QED BY <2>1, <2>2, <2>3, StringsAre
<1>2. ASSUME NEW kind \in {"free", "search", "digits"}, NEW t \in Strings(1), Focus(kind, t)
      PROVE  EditInv'
  <2>1. /\ field' = kind /\ text' = t /\ marked' = NoRange /\ stale' = FALSE
        /\ selection' = [start |-> Bytes(t), end |-> Bytes(t), reversed |-> FALSE]
    BY <1>2 DEF Focus, At0
  <2>2. Bytes(t) \in Boundaries(t) /\ Bytes(t) \in 0..MaxBytes /\ Bytes(t) <= Bytes(t)
    BY <1>1, TextOf
  <2>3. EditTypeOK'
    BY <1>1, <2>1, <2>2 DEF EditTypeOK, Spans, MaxBytes
  <2>4. EditsSlice'
    BY <2>1, <2>2 DEF EditsSlice
  <2> QED BY <2>3, <2>4 DEF EditInv
<1>3. ASSUME NEW t \in Strings(1), SetByHandler(t) PROVE EditInv'
  BY <1>1, <1>3 DEF SetByHandler, EditInv, EditTypeOK, EditsSlice, Spans, MaxBytes
<1>4. CASE Unmark
  BY <1>4 DEF Unmark, EditInv, EditTypeOK, EditsSlice, Spans, MaxBytes
<1> QED BY <1>2, <1>3, <1>4

LEMMA EditSteps == ASSUME EditInv, [EditNext]_editVars PROVE EditInv'
<1>1. CASE UNCHANGED editVars
  BY <1>1 DEF editVars, EditInv, EditTypeOK, EditsSlice, Spans, MaxBytes
<1> QED BY <1>1, KeysKeep, SelectKeeps, ReplacementsKeep, MarkKeeps, TextKeeps DEF EditNext

LEMMA EditStarts == EditInit => EditInv
<1> SUFFICES ASSUME EditInit PROVE EditInv
  OBVIOUS
<1>1. <<>> \in Contents /\ Len(<<>>) = 0 /\ Len(<<>>) <= MaxLength /\ MaxLength \in Nat
  BY EditAssumption DEF Contents
<1>2. <<>> \in Strings(MaxLength)
  BY <1>1, StringsAre
<1>3. 0 \in Boundaries(<<>>) /\ 0 \in 0..MaxBytes
  BY <1>2, TextOf
<1>4. /\ text = <<>> /\ selection = [start |-> 0, end |-> 0, reversed |-> FALSE]
      /\ marked = NoRange /\ stale = FALSE /\ field \in {"free", "search", "digits"}
  BY DEF EditInit, At0
<1>5. EditTypeOK
  BY <1>2, <1>3, <1>4 DEF EditTypeOK
<1>6. EditsSlice
  BY <1>3, <1>4 DEF EditsSlice
<1> QED BY <1>5, <1>6 DEF EditInv

LEMMA EditStaysInv == EditSpec => []EditInv
  BY EditStarts, EditSteps, PTL DEF EditSpec

(* ------------------------------- the theorems --------------------------- *)

\* The field's text, the selection and the marked range stay within what the longest
\* text has, whatever the input method asks for.
THEOREM EditTypeCorrect == EditSpec => []EditTypeOK
  BY EditStaysInv, PTL DEF EditInv

\* No key, click, edit or input method leaves a selection or a mark that splits a
\* character, so replace_edit_selection and its like slice where Rust allows it, for
\* texts of any length; a text changed under the selection is the exception.
THEOREM EditsAlwaysSlice == EditSpec => []EditsSlice
  BY EditStaysInv, PTL DEF EditInv

================================================================================
