------------------------------ MODULE AmountForm ------------------------------
(***************************************************************************)
(* The amounts a user types, in XMR or in a fiat currency, and the opt-in     *)
(* rate they are converted with (src/src/main.rs, src/src/fiat.rs,           *)
(* src/src/amount.rs, src/src/paths.rs): switching units, rates that age,     *)
(* a background fetch that outlives a change of currency, an opt-out or a     *)
(* lock, payment URIs and QR codes, and what a restart finds in the files.     *)
(*                                                                         *)
(* A number is known by the unit it was meant in and by whether it parses     *)
(* there; its digits are left out, and with them the previews SendFlow has.   *)
(* The intervals between fetches are a choice.                               *)
(***************************************************************************)
CONSTANTS
  Currencies,   \* the supported ones
  NoRate        \* no rate, no fetch

ASSUME CurrencyAssumption == {"none", "xmr"} \cap Currencies = {}

VARIABLES
  fiat,           \* fiat_enabled, fiat_currency, fiat_rate; leftover is auxiliary:
                  \* the rate is the one the launch read
  fiat_fetching,  \* the currency asked for
  settings,       \* the three settings files
  opened,         \* a session is open
  scanning,       \* QR decoders at work, which may outlive a session
  sending,        \* a send is under way
  send,           \* send_amount_mode and send_amount
  recv            \* recv_amount_mode and recv_amount

amountVars == <<fiat, fiat_fetching, settings, opened, scanning, sending, send, recv>>

Modes == {"xmr", "fiat"}
Units == {"none", "xmr"} \cup Currencies
\* exact: it parses as a number of its unit; 13 decimals or two dots do not.
Texts == [unit : Units, exact : BOOLEAN]
Blank == [unit |-> "none", exact |-> TRUE]
Exactly(unit) == [unit |-> unit, exact |-> TRUE]
AmountForms == [mode : Modes, text : Texts]
Rates == [currency : Currencies, live : BOOLEAN]
Empty == [mode |-> "xmr", text |-> Blank]

\* new, on the files as they are: the rate is taken whatever its currency.
Launched(f) == [enabled |-> f.enabled, currency |-> f.currency, rate |-> f.rate,
                leftover |-> TRUE]

AmountInit ==
  /\ settings \in [enabled : BOOLEAN, currency : Currencies, rate : Rates \cup {NoRate}]
  /\ fiat = Launched(settings)
  /\ fiat_fetching = NoRate /\ opened = FALSE /\ scanning = FALSE /\ sending = FALSE
  /\ send = Empty /\ recv = Empty

(* ------------------------------ conversions ----------------------------- *)

\* live_rate.
IsLive(f) == f.enabled /\ f.rate # NoRate /\ f.rate.live

\* parse_piconero and piconero_from_fiat: an amount with too many decimals for XMR is
\* an amount in fiat.
Parses(form) ==
  /\ form.text.unit # "none"
  /\ form.text.exact \/ (form.mode = "fiat" /\ form.text.unit = "xmr")

\* coerce_amount_modes, after a change to f: a fiat form is emptied without a rate.
Coerced(form, f) ==
  IF ~IsLive(f) /\ form.mode = "fiat" THEN Empty ELSE form

(* ------------------------------- the rate ------------------------------- *)

\* maybe_refresh_fiat, after a change to f: one fetch at a time, if it is due.
Refreshed(f) ==
  IF f.enabled /\ fiat_fetching = NoRate THEN {NoRate, f.currency} ELSE {fiat_fetching}

\* toggle_fiat: the file of the rate and of the preference may stay as they were.
ToggleFiat ==
  LET on == [fiat EXCEPT !.enabled = TRUE]
      off == [fiat EXCEPT !.enabled = FALSE, !.rate = NoRate, !.leftover = FALSE]
  IN /\ \E e \in {settings.enabled, ~fiat.enabled}, r \in {settings.rate, NoRate} :
          settings' = [settings EXCEPT !.enabled = e,
                                       !.rate = IF fiat.enabled THEN r ELSE @]
     /\ fiat' = IF fiat.enabled THEN off ELSE on
     /\ fiat_fetching' \in IF fiat.enabled THEN {fiat_fetching} ELSE Refreshed(on)
     /\ send' = (IF fiat.enabled THEN Coerced(send, off) ELSE send)
     /\ recv' = (IF fiat.enabled THEN Coerced(recv, off) ELSE recv)
     /\ UNCHANGED <<opened, scanning, sending>>

\* cycle_fiat_currency, which leaves the forms to the next poll.
CycleCurrency(c) ==
  LET f == [fiat EXCEPT !.currency = c, !.rate = NoRate, !.leftover = FALSE]
  IN /\ fiat' = f
     /\ \E k \in {settings.currency, c} : settings' = [settings EXCEPT !.currency = k]
     /\ fiat_fetching' \in Refreshed(f)
     /\ UNCHANGED <<opened, scanning, sending, send, recv>>

\* poll_core and the refresh after it, twice a second in an open session; it leaves
\* the forms alone when WalletCore does not answer.
Poll ==
  /\ opened
  /\ \/ send' = Coerced(send, fiat) /\ recv' = Coerced(recv, fiat)
     \/ UNCHANGED <<send, recv>>
  /\ fiat_fetching' \in Refreshed(fiat)
  /\ UNCHANGED <<fiat, settings, opened, scanning, sending>>

\* Mutant: the rate is taken whatever currency was asked for.
FetchEnds_any_currency(ok) ==
  LET kept == [fiat EXCEPT !.leftover = FALSE]
      new == [currency |-> fiat_fetching, live |-> TRUE]
  IN /\ fiat_fetching # NoRate /\ fiat_fetching' = NoRate
     /\ fiat' = [kept EXCEPT !.rate = IF fiat.enabled /\ ok THEN new ELSE NoRate]
     /\ \E r \in {settings.rate, new} : settings' = [settings EXCEPT !.rate = r]
     /\ UNCHANGED <<opened, scanning, sending, send, recv>>

\* The fetch's completion: a rate of another currency is dropped, and a failure falls
\* back on the file's.
FetchEnds(ok) ==
  LET kept == [fiat EXCEPT !.leftover = FALSE]
      new == [currency |-> fiat_fetching, live |-> TRUE]
      ofFile == settings.rate # NoRate /\ settings.rate.currency = fiat.currency
  IN /\ fiat_fetching # NoRate /\ fiat_fetching' = NoRate
     /\ \/ /\ ~fiat.enabled
           /\ fiat' = [kept EXCEPT !.rate = NoRate] /\ UNCHANGED settings
        \/ /\ fiat.enabled /\ ok /\ fiat_fetching # fiat.currency
           /\ UNCHANGED <<fiat, settings>>
        \/ /\ fiat.enabled /\ ok /\ fiat_fetching = fiat.currency
           /\ fiat' = [kept EXCEPT !.rate = new]
           /\ \E r \in {settings.rate, new} : settings' = [settings EXCEPT !.rate = r]
        \/ /\ fiat.enabled /\ ~ok
           /\ fiat' = [kept EXCEPT !.rate = IF ofFile THEN settings.rate ELSE NoRate]
           /\ UNCHANGED settings
     /\ UNCHANGED <<opened, scanning, sending, send, recv>>

\* A rate reaches its age or its server's expiry, in memory and on disk alike.
Aged(rate) == IF rate = NoRate THEN NoRate ELSE [rate EXCEPT !.live = FALSE]
Age ==
  /\ fiat.rate # NoRate \/ settings.rate # NoRate
  /\ settings' = [settings EXCEPT !.rate = Aged(@)]
  /\ fiat' \in {fiat, [fiat EXCEPT !.rate = Aged(@)]}
  /\ UNCHANGED <<fiat_fetching, opened, scanning, sending, send, recv>>

(* ------------------------------- the forms ------------------------------ *)

\* An edit of the amount, in the unit its label names.
Typed(form) ==
  {[form EXCEPT !.text = t] :
     t \in {Blank} \cup [unit : {IF form.mode = "fiat" THEN fiat.currency ELSE "xmr"},
                        exact : BOOLEAN]}

\* swap_amount_mode: a number that does not parse stays as it is.
Swapped(form) ==
  LET unit == IF form.mode = "xmr" THEN fiat.rate.currency ELSE "xmr"
  IN [mode |-> IF form.mode = "xmr" THEN "fiat" ELSE "xmr",
      text |-> IF Parses(form) THEN Exactly(unit) ELSE form.text]

EditRecv ==
  /\ opened /\ recv' \in Typed(recv) \cup (IF IsLive(fiat) THEN {Swapped(recv)} ELSE {})
  /\ UNCHANGED <<fiat, fiat_fetching, settings, opened, scanning, sending, send>>
EditSend ==
  /\ opened /\ send' \in Typed(send) \cup (IF IsLive(fiat) THEN {Swapped(send)} ELSE {})
  /\ UNCHANGED <<fiat, fiat_fetching, settings, opened, scanning, sending, recv>>

\* A payment URI pasted, or a QR code decoded, by a task of which nobody asks whether
\* the session that started it is still open: its amount is in XMR.
FillFromUri(decoded) ==
  /\ IF decoded THEN scanning ELSE opened
  /\ scanning' \in IF decoded THEN BOOLEAN ELSE {scanning}
  /\ send' \in {send, [send EXCEPT !.text = Exactly("xmr")]}
  /\ UNCHANGED <<fiat, fiat_fetching, settings, opened, sending, recv>>
StartScanning ==
  /\ opened /\ scanning' = TRUE
  /\ UNCHANGED <<fiat, fiat_fetching, settings, opened, sending, send, recv>>

\* fill_send_max, with the unlocked balance known or not, and the preview of a
\* maximum, which writes its amount.
SendInXmr(text) ==
  /\ opened /\ send' = [mode |-> "xmr", text |-> text]
  /\ UNCHANGED <<fiat, fiat_fetching, settings, opened, scanning, recv>>
FillSendMax(known) ==
  SendInXmr(IF known THEN Exactly("xmr") ELSE send.text) /\ UNCHANGED sending
MaxPreviewed == SendInXmr(Exactly("xmr")) /\ UNCHANGED sending

\* A send, from its start with an amount that could be read to its success, which
\* leaves the number in the field.
StartSend ==
  /\ opened /\ ~sending /\ Parses(send) /\ (send.mode = "fiat" => IsLive(fiat))
  /\ sending' = TRUE
  /\ UNCHANGED <<fiat, fiat_fetching, settings, opened, scanning, send, recv>>
Sent == sending /\ sending' = FALSE /\ SendInXmr(send.text)

\* Opening; lock_wallet, which empties the fields and keeps their modes; a restart.
OpenForms ==
  /\ ~opened /\ opened' = TRUE /\ fiat_fetching' \in Refreshed(fiat)
  /\ UNCHANGED <<fiat, settings, scanning, sending, send, recv>>
LockForms ==
  /\ opened' = FALSE /\ sending' = FALSE
  /\ send' = [send EXCEPT !.text = Blank] /\ recv' = [recv EXCEPT !.text = Blank]
  /\ UNCHANGED <<fiat, fiat_fetching, settings, scanning>>
RelaunchForms ==
  /\ fiat' = Launched(settings)
  /\ fiat_fetching' \in IF settings.enabled THEN {NoRate, settings.currency} ELSE {NoRate}
  /\ opened' = FALSE /\ scanning' = FALSE /\ sending' = FALSE
  /\ send' = Empty /\ recv' = Empty
  /\ UNCHANGED settings

AmountNext ==
  \/ ToggleFiat \/ Poll \/ Age \/ EditRecv \/ EditSend \/ StartScanning
  \/ MaxPreviewed \/ StartSend \/ Sent \/ OpenForms \/ LockForms \/ RelaunchForms
  \/ \E c \in Currencies : CycleCurrency(c)
  \/ \E b \in BOOLEAN : FetchEnds(b) \/ FillFromUri(b) \/ FillSendMax(b)

AmountSpec == AmountInit /\ [][AmountNext]_amountVars

(* ------------------------------ properties ------------------------------ *)

\* Type correctness.
AmountTypeOK ==
  /\ fiat \in [enabled : BOOLEAN, currency : Currencies, rate : Rates \cup {NoRate},
               leftover : BOOLEAN]
  /\ fiat_fetching \in Currencies \cup {NoRate}
  /\ settings \in [enabled : BOOLEAN, currency : Currencies, rate : Rates \cup {NoRate}]
  /\ {opened, scanning, sending} \subseteq BOOLEAN
  /\ send \in AmountForms /\ recv \in AmountForms

\* Fetches that end after a change of currency, an opt-out or a restart, files that
\* were not written and rates that age never leave a rate of another currency than the
\* chosen one, except the one a launch found, nor any fiat field without the opt-in;
\* and an amount asked for keeps its unit: a number typed in fiat is read in fiat, one
\* in XMR in XMR, through every switch and every loss of the rate.
AmountsKeepTheirUnit ==
  /\ fiat.rate # NoRate /\ ~fiat.leftover =>
       fiat.enabled /\ fiat.rate.currency = fiat.currency
  /\ ~fiat.enabled => send.mode = "xmr" /\ recv.mode = "xmr"
  /\ recv.text.unit # "none" /\ recv.text.exact =>
       (recv.mode = "fiat" <=> recv.text.unit \in Currencies)

\* "Without a valid rate, a fiat number must never become an XMR amount"
\* (src/src/main.rs:1279), for the amount to send.
FiatNumberStaysFiat ==
  ~IsLive(fiat) /\ send.text.unit \in Currencies /\ send.text.exact => send.mode = "fiat"
================================================================================
