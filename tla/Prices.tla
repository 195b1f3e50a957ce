------------------------------- MODULE Prices -------------------------------
(***************************************************************************)
(* What a plan costs: shown on a page, asked for at a checkout.            *)
(*                                                                         *)
(* A price is the administrator's override or the default of the code, and *)
(* is read afresh wherever it is needed: when a page is rendered and again *)
(* when its button is pressed.  The currency is found anew as well: a page *)
(* takes it from the subscription's row if there is one, a checkout from   *)
(* the country of the request.  Where the provider keeps a price itself,   *)
(* that is the one it asks.                                                *)
(***************************************************************************)
EXTENDS Integers, FiniteSets

CONSTANTS
  Tab,        \* the buyer's tabs
  Item,       \* a paid plan and an interval
  Amount,     \* amounts an administrator may enter
  Default,    \* Default[i][c]: the price in the code
  ProviderPrice, \* ProviderPrice[i][c]: the price the provider keeps under its own code for i
  Coded,      \* items Paystack has a plan code for
  Priced,     \* items Polar has a price for; the others cannot be bought there
  MaxRender, MaxOverride, MaxMove    \* bounds

Currency == {"NGN", "USD"}
Country == {"NG", "US"}
None == -1

\* What the constants satisfy.
PricesAssumption ==
  /\ Amount \subseteq Nat /\ {MaxRender, MaxOverride, MaxMove} \subseteq Nat
  /\ Coded \cup Priced \subseteq Item
  /\ Default \in [Item -> [Currency -> Nat]] /\ ProviderPrice \in [Item -> [Currency -> Nat]]

VARIABLES
  override,    \* override[i][c]: the active row of plan_prices, or None
  country,     \* where the buyer's requests come from
  row,         \* currency of the buyer's subscription, "none" without one
  tab,         \* tab[t]: the page or the provider's checkout that is open in it
  renders, overrides, moves

vars == <<override, country, row, tab, renders, overrides, moves>>

Closed == [page |-> "closed"]

Init ==
  /\ override = [i \in Item |-> [c \in Currency |-> None]]
  /\ country \in Country /\ row = "none"
  /\ tab = [t \in Tab |-> Closed]
  /\ renders = 0 /\ overrides = 0 /\ moves = 0

-----------------------------------------------------------------------------
(* Prices and the administrator. *)

\* The cells the administrator's page has a form for.
Cell == Item \X Currency

\* Mutant of Effective: the override of any currency.
EffectiveOfItem(i, c) ==
  LET set == {d \in Currency : override[i][d] # None}
  IN  IF set # {} THEN override[i][CHOOSE d \in set : TRUE] ELSE Default[i][c]

\* effectivePrice: an override wins.
Effective(i, c) == IF override[i][c] # None THEN override[i][c] ELSE Default[i][c]

\* Every page that is open hears of an edit, to tell why a price differs.
Noted(i, c) ==
  tab' = [t \in Tab |-> IF tab[t].page \in {"pricing", "billing"}
                        THEN [tab[t] EXCEPT !.edited = @ \cup {<<i, c>>}] ELSE tab[t]]

Edit(i, c, amount) ==
  /\ overrides < MaxOverride /\ overrides' = overrides + 1
  /\ override' = [override EXCEPT ![i][c] = amount]
  /\ Noted(i, c)
  /\ UNCHANGED <<country, row, renders, moves>>

\* adminUpsertPlanPriceAction: an amount replaces the row of its cell, an empty
\* field deletes it.
SetOverride(i, c, amount) == Edit(i, c, amount)
ClearOverride(i, c) == override[i][c] # None /\ Edit(i, c, None)

-----------------------------------------------------------------------------
(* The buyer. *)

\* billingContext
CurrencyOf(place) == IF place = "NG" THEN "NGN" ELSE "USD"

Shows(kind, currency) ==
  [page |-> kind, currency |-> currency,
   price |-> [i \in Item |-> [c \in Currency |-> Effective(i, c)]],
   edited |-> {}, agrees |-> currency = CurrencyOf(country)]

Render(t, page) ==
  /\ renders < MaxRender /\ renders' = renders + 1
  /\ tab' = [tab EXCEPT ![t] = page]
  /\ UNCHANGED <<override, country, row, overrides, moves>>

\* The public page has the prices of both currencies and begins with the country's;
OpenPricing(t) == Render(t, Shows("pricing", CurrencyOf(country)))

\* its switch asks nobody.
Toggle(t, c) ==
  /\ tab[t].page = "pricing" /\ tab[t].currency # c
  /\ tab' = [tab EXCEPT ![t].currency = c]
  /\ UNCHANGED <<override, country, row, renders, overrides, moves>>

\* Its button leads to the billing page, which looks up everything again; that
\* page shows the currency of the subscription, if there is one.
OpenBilling(t) ==
  Render(t, Shows("billing", IF row # "none" THEN row ELSE CurrencyOf(country)))
Follow(t) == tab[t].page = "pricing" /\ OpenBilling(t)

\* The buyer travels, or the addresses are looked up in other databases.
Move ==
  /\ moves < MaxMove /\ moves' = moves + 1
  /\ \E place \in Country \ {country} : country' = place
  /\ tab' = [t \in Tab |-> IF tab[t].page \in {"pricing", "billing"}
                           THEN [tab[t] EXCEPT !.agrees = FALSE] ELSE tab[t]]
  /\ UNCHANGED <<override, row, renders, overrides>>

\* The provider's page asks its own price where the request names one.
Asks(i, c) ==
  IF (c = "NGN" /\ i \in Coded) \/ c = "USD"
  THEN [by |-> "provider", amount |-> ProviderPrice[i][c]]
  ELSE [by |-> "site", amount |-> Effective(i, c)]

\* startCheckoutAction, startCheckout: the country of this request decides the
\* currency and the provider; the price is read again.
Submit(t, i) ==
  /\ tab[t].page = "billing"
  /\ LET c == CurrencyOf(country)
         shown == tab[t]
     IN  /\ c = "USD" => i \in Priced
         /\ tab' = [tab EXCEPT ![t] =
              [page |-> "checkout", item |-> i, currency |-> c, asked |-> Asks(i, c),
               shownCurrency |-> shown.currency, shownAmount |-> shown.price[i][shown.currency],
               edited |-> <<i, c>> \in shown.edited, agreed |-> shown.agrees]]
  /\ UNCHANGED <<override, country, row, renders, overrides, moves>>

\* A provider that is down, or a price that is not configured: the billing page
\* is rendered again, with the error.
Refused(t) == tab[t].page = "billing" /\ OpenBilling(t)

\* The payment: its event writes the currency to the subscription.
Pay(t) ==
  /\ tab[t].page = "checkout"
  /\ row' = tab[t].currency
  /\ tab' = [tab EXCEPT ![t] = Closed]
  /\ UNCHANGED <<override, country, renders, overrides, moves>>

Next ==
  \/ \E cell \in Cell :
       ClearOverride(cell[1], cell[2]) \/ \E a \in Amount : SetOverride(cell[1], cell[2], a)
  \/ \E t \in Tab :
       \/ OpenPricing(t) \/ Follow(t) \/ OpenBilling(t) \/ Refused(t) \/ Pay(t)
       \/ \E c \in Currency : Toggle(t, c)
       \/ \E i \in Item : Submit(t, i)
  \/ Move

Spec == Init /\ [][Next]_vars

-----------------------------------------------------------------------------
(* Properties. *)

\* A buyer is asked for the amount the billing page showed, in its currency,
\* unless there is a reason: the currency of the subscription was not the
\* country's, or the country changed while the page was open
\* (billing/page.tsx:156); the price was edited meanwhile; or the provider keeps
\* the price itself, which nothing compares with the one shown
\* (subscription.ts:706).
AskedAsShown ==
  \A t \in Tab : tab[t].page = "checkout" =>
    LET k == tab[t]
    IN  /\ k.agreed => k.currency = k.shownCurrency
        /\ k.currency = k.shownCurrency /\ k.asked.by = "site" /\ ~k.edited
             => k.asked.amount = k.shownAmount
=============================================================================
