------------------------------ MODULE Checkout ------------------------------
(***************************************************************************)
(* What the providers hold of one user and what our row says of it: the    *)
(* checkout, the events that follow it, and the owner's forms that stop    *)
(* and resume the renewal at the provider and then in the row.             *)
(*                                                                         *)
(* Module Billing is about the row alone, statement by statement; here an  *)
(* event is applied in one step, and what matters is which subscription    *)
(* the row names and whether that one renews.                              *)
(***************************************************************************)
EXTENDS Integers, FiniteSets

CONSTANTS
  Form,         \* the owner's tabs with the billing page
  Configured,   \* providers with a real-looking key
  MaxCheckout,  \* bound: checkouts paid
  MaxForm,      \* bound: forms submitted
  MaxRenewal,   \* bound: renewals
  MaxFail       \* bound: provider calls that fail

Processor == {"paystack", "polar"}

\* What the constants satisfy.
CheckoutAssumption ==
  /\ Configured \subseteq Processor
  /\ {MaxCheckout, MaxForm, MaxRenewal, MaxFail} \subseteq Nat

Sub == 1..MaxCheckout
None == 0

VARIABLES
  page,       \* the buyer's browser: on a page of ours, at a provider, or back from it
  sub,        \* sub[s]: the subscription at the provider
  paid,       \* charges with an invoice
  row,        \* the subscriptions row
  sent,       \* events on their way
  form,       \* form[f]: a tab, what its page offers, and where its submission is
  forms, renewals, fails,
  overlapped, \* history: two forms were under way at once
  blind       \* history: a form read a row without ids while the event with them was on its way

bounds == <<forms, renewals, fails, overlapped, blind>>
vars == <<page, sub, paid, row, sent, form, bounds>>

NoSub == [by |-> "none", live |-> FALSE, renews |-> FALSE]
\* ahead: current_period_end lies in the future.
NoRow == [plan |-> "free", status |-> "active", atEnd |-> FALSE, ahead |-> FALSE, by |-> "none",
          paystack |-> None, token |-> None, polar |-> None]
Idle == [pc |-> "idle", kind |-> "none", seen |-> NoRow, offers |-> {}]
Ordered == {s \in Sub : sub[s] # NoSub}

\* ref is the reference of a charge.
Event(type, s, ref) == [type |-> type, of |-> s, ref |-> ref]

TypeOK ==
  /\ page \in {"ours"} \cup Processor \cup {"back"}
  /\ \A s \in Sub : sub[s].renews => sub[s].live
  /\ row.paystack \in 0..MaxCheckout /\ row.polar \in 0..MaxCheckout
  /\ \A f \in Form : form[f].pc \in {"idle", "call", "commit"}

Init ==
  /\ page = "ours" /\ sub = [s \in Sub |-> NoSub] /\ paid = {}
  /\ row = NoRow /\ sent = {} /\ form = [f \in Form |-> Idle]
  /\ forms = 0 /\ renewals = 0 /\ fails = 0
  /\ overlapped = FALSE /\ blind = FALSE

-----------------------------------------------------------------------------
(* What an event makes of the row. *)

\* Mutant of Names: an event without an id clears the column.
NamesOnlyThis(e, old) ==
  IF sub[e.of].by = "polar"
  THEN [old EXCEPT !.by = "polar", !.polar = e.of]
  ELSE [old EXCEPT !.by = "paystack",
                   !.paystack = IF e.type \in {"activate", "disable"} THEN e.of ELSE None,
                   !.token = IF e.type = "activate" THEN e.of ELSE None]

\* providerCols: the ids the event carries, and otherwise those of the row.
\* Paystack's charge and its notices name none, its disable lacks the token.
Names(e, old) ==
  IF sub[e.of].by = "polar"
  THEN [old EXCEPT !.by = "polar", !.polar = e.of]
  ELSE [old EXCEPT !.by = "paystack",
                   !.paystack = IF e.type \in {"activate", "disable"} THEN e.of ELSE @,
                   !.token = IF e.type = "activate" THEN e.of ELSE @]

\* A charge that has its invoice changes nothing.
Applied(e, old) ==
  CASE e.type = "charge" ->
         IF e.ref \in paid THEN old
         ELSE [Names(e, old) EXCEPT !.plan = "paid", !.status = "active", !.ahead = TRUE]
    [] e.type = "activate" ->
         [Names(e, old) EXCEPT !.plan = "paid", !.status = "active", !.ahead = TRUE, !.atEnd = FALSE]
    [] e.type = "not_renew" -> [Names(e, old) EXCEPT !.plan = "paid", !.status = "past_due"]
    [] e.type = "canceled" ->
         [Names(e, old) EXCEPT !.plan = "paid", !.status = "cancelled", !.atEnd = TRUE]
    [] e.type \in {"revoked", "disable"} ->
         [Names(e, old) EXCEPT !.plan = "paid", !.status = "cancelled", !.atEnd = FALSE]

Apply(e) ==
  /\ row' = Applied(e, row)
  /\ paid' = IF e.type = "charge" THEN paid \cup {e.ref} ELSE paid

\* verifyWebhookSignature: what the provider itself has signed, and nothing while
\* its key is missing.  Polar signs each attempt anew, so that none is too old.
SignedByPaystack(e) == e \in sent /\ sub[e.of].by = "paystack" /\ "paystack" \in Configured
SignedByPolar(e) == e \in sent /\ sub[e.of].by = "polar" /\ "polar" \in Configured

\* A webhook, applied by its route or later by the drain; another delivery of the
\* same event finds its row and ends.
Deliver(e) ==
  /\ SignedByPaystack(e) \/ SignedByPolar(e)
  /\ sent' = sent \ {e} /\ Apply(e)
  /\ UNCHANGED <<page, sub, form, bounds>>

\* The period the row knows of is over.
Lapse ==
  /\ row.ahead
  /\ row' = [row EXCEPT !.ahead = FALSE]
  /\ UNCHANGED <<page, sub, paid, sent, form, bounds>>

-----------------------------------------------------------------------------
(* The checkout. *)

\* billingContext
Routed(country) == IF country = "NG" THEN "paystack" ELSE "polar"

\* The provider makes a page for the order, which the browser is sent to.
InitializeTransaction == "paystack" \in Configured /\ page' = "paystack"
CreateCheckout == "polar" \in Configured /\ page' = "polar"

\* Without a key, a price or an answer of the provider the browser stays here.
StartCheckout(country) ==
  IF Routed(country) = "paystack" THEN InitializeTransaction ELSE CreateCheckout

\* The form of the billing page, which it has for any plan but the present one, for
\* subscribers too; nothing is stored.
Choose(country) ==
  /\ page = "ours" /\ StartCheckout(country)
  /\ UNCHANGED <<sub, paid, row, sent, form, bounds>>

\* The buyer pays, or comes back without.  A transaction without a plan code is one
\* charge and no subscription.
Pay ==
  /\ page \in Processor
  /\ \/ /\ Cardinality(Ordered) < MaxCheckout
        /\ \E plan \in {TRUE} \cup {page = "polar"} :
           LET s == 1 + Cardinality(Ordered)
           IN  /\ sub' = [sub EXCEPT ![s] = [by |-> page, live |-> plan, renews |-> plan]]
               /\ sent' = sent \cup {Event("charge", s, s)}
                          \cup {Event("activate", x, None) : x \in {y \in {s} : plan}}
        /\ page' = "back"
     \/ page' = "ours" /\ UNCHANGED <<sub, sent>>
  /\ UNCHANGED <<paid, row, form, bounds>>

\* A transaction is applied as its charge, a subscription as it stands.
VerifyTransaction(s) == sub[s].by = "paystack" /\ Apply(Event("charge", s, s))
GetSubscription(s) ==
  /\ sub[s].by = "polar" /\ sub[s].live
  /\ row' = [Applied(Event("activate", s, None), row) EXCEPT !.atEnd = ~sub[s].renews]
  /\ UNCHANGED paid

\* The page behind the checkout, if the buyer gets there and the provider answers.
Complete ==
  /\ page = "back" /\ page' = "ours"
  /\ \/ LET s == Cardinality(Ordered) IN VerifyTransaction(s) \/ GetSubscription(s)
     \/ UNCHANGED <<row, paid>>
  /\ UNCHANGED <<sub, sent, form, bounds>>

-----------------------------------------------------------------------------
(* The providers. *)

Renew(s) ==
  /\ sub[s].renews /\ renewals < MaxRenewal
  /\ renewals' = renewals + 1
  /\ sent' = sent \cup {Event("charge", s, MaxCheckout + renewals')}
  /\ UNCHANGED <<page, sub, paid, row, form, forms, fails, overlapped, blind>>

Ending(s) == Event(IF sub[s].by = "polar" THEN "revoked" ELSE "disable", s, None)

\* A subscription that does not renew ends with its period.
End(s) ==
  /\ sub[s].live /\ ~sub[s].renews
  /\ sub' = [sub EXCEPT ![s].live = FALSE] /\ sent' = sent \cup {Ending(s)}
  /\ UNCHANGED <<page, paid, row, form, bounds>>

\* Paystack's two calls, and Polar's one: with "at the period's end" it is a PATCH,
\* without a DELETE, which ends the subscription at once.
DisableSubscription(s) ==
  /\ sub' = [sub EXCEPT ![s].renews = FALSE] /\ sent' = sent \cup {Event("not_renew", s, None)}
EnableSubscription(s) == sub' = [sub EXCEPT ![s].renews = TRUE] /\ UNCHANGED sent
CancelSubscription(s, atEnd) ==
  /\ sub' = [sub EXCEPT ![s].renews = FALSE, ![s].live = atEnd]
  /\ sent' = sent \cup {IF atEnd THEN Event("canceled", s, None) ELSE Ending(s)}

\* polarFetch and paystackRequest never throw: no network, a refusal and an answer
\* that cannot be read are one outcome, which nobody looks at.
PolarFails == "polar" \in Configured /\ UNCHANGED <<sub, sent>>
PaystackFails == "paystack" \in Configured /\ UNCHANGED <<sub, sent>>

-----------------------------------------------------------------------------
(* The owner's forms, and the administrator's. *)

\* computePlan, with the two values of a plan.
Effective(r) == r.plan = "paid" /\ r.status # "past_due" /\ r.ahead

\* The billing page has one of the two buttons, and keeps it when the row changes.
Offers(r) ==
  IF ~Effective(r) THEN {} ELSE IF r.atEnd THEN {"resume"} ELSE {"cancel"}
BillingPage(f) ==
  /\ form[f].pc = "idle" /\ form[f].offers # Offers(row)
  /\ form' = [form EXCEPT ![f].offers = Offers(row)]
  /\ UNCHANGED <<page, sub, paid, row, sent, bounds>>

Cancellable(kind) ==
  row.plan = "paid" /\ (kind = "resume" => row.atEnd /\ row.ahead)

\* The subscription the row names; Paystack wants its token as well.
Named(r) ==
  IF r.by = "polar" THEN {r.polar} \ {None}
  ELSE IF r.token # None THEN {r.paystack} \ {None} ELSE {}

\* The row is read and looked at ...
Submit(f, kind) ==
  /\ form[f].pc = "idle" /\ kind \in form[f].offers
  /\ forms < MaxForm /\ Cancellable(kind)
  /\ form' = [form EXCEPT ![f] = [pc |-> "call", kind |-> kind, seen |-> row, offers |-> {}]]
  /\ forms' = forms + 1
  /\ overlapped' = (overlapped \/ \E g \in Form : form[g].pc # "idle")
  /\ blind' = (blind \/ (Named(row) = {} /\ \E e \in sent : e.type = "activate"))
  /\ UNCHANGED <<page, sub, paid, row, sent, renewals, fails>>

StopRenewal(s) ==
  IF sub[s].by = "polar" THEN CancelSubscription(s, TRUE) ELSE DisableSubscription(s)
ResumeRenewal(s) ==
  IF sub[s].by = "polar" THEN CancelSubscription(s, FALSE) ELSE EnableSubscription(s)

\* ... the provider is asked, and whatever it answers ...
CallProvider(f) ==
  /\ form[f].pc = "call"
  /\ form' = [form EXCEPT ![f].pc = "commit"]
  /\ LET asked == {s \in Named(form[f].seen) : sub[s].live /\ sub[s].by \in Configured} IN
     \/ asked = {} /\ UNCHANGED <<sub, sent, fails>>
     \/ /\ \E s \in asked : IF form[f].kind = "cancel" THEN StopRenewal(s) ELSE ResumeRenewal(s)
        /\ UNCHANGED fails
     \/ /\ asked # {} /\ (PolarFails \/ PaystackFails)
        /\ fails < MaxFail /\ fails' = fails + 1
  /\ UNCHANGED <<page, paid, row, forms, renewals, overlapped, blind>>

\* ... the row is written: a cancellation as an event of its provider, a resumption
\* in two columns.
CancelRow(r, seen) == [r EXCEPT !.plan = "paid", !.status = "cancelled", !.atEnd = TRUE, !.by = seen.by]
ResumeRow(r) == [r EXCEPT !.status = "active", !.atEnd = FALSE]

Commit(f) ==
  /\ form[f].pc = "commit"
  /\ row' = IF form[f].kind = "cancel" THEN CancelRow(row, form[f].seen) ELSE ResumeRow(row)
  /\ form' = [form EXCEPT ![f] = Idle]
  /\ UNCHANGED <<page, sub, paid, sent, bounds>>

\* adminCancelSubscriptionAction does not ask the provider.
AdminCancel ==
  /\ row.plan = "paid" /\ forms < MaxForm
  /\ row' = [row EXCEPT !.status = "cancelled", !.atEnd = FALSE]
  /\ forms' = forms + 1
  /\ UNCHANGED <<page, sub, paid, sent, form, renewals, fails, overlapped, blind>>

-----------------------------------------------------------------------------
Next ==
  \/ \E country \in {"NG", "other"} : Choose(country)
  \/ Pay \/ Complete \/ Lapse \/ AdminCancel
  \/ \E e \in sent : Deliver(e)
  \/ \E s \in Sub : Renew(s) \/ End(s)
  \/ \E f \in Form : BillingPage(f) \/ CallProvider(f) \/ Commit(f) \/ \E kind \in {"cancel", "resume"} : Submit(f, kind)

Spec == Init /\ [][Next]_vars

-----------------------------------------------------------------------------
(* Properties. *)

Quiet == sent = {} /\ \A f \in Form : form[f].pc = "idle"

\* "Your subscription will not renew" (page.tsx:107): once every event has arrived, a
\* row that is cancelled for the period's end means that the provider renews
\* nothing, in whatever order events and forms came.  Unless a call failed, two
\* forms overlapped, the form was sent before the event with the ids came, or a
\* second checkout made a second subscription, of which the row names only one
\* (subscription.ts:163).
CancelledIsStopped ==
  Quiet /\ row.status = "cancelled" /\ row.atEnd /\ (\E s \in Sub : sub[s].renews)
  => fails > 0 \/ overlapped \/ blind \/ Cardinality(Ordered) > 1

\* "Your subscription was resumed and will keep renewing" (page.tsx:109): when the
\* form ends, the subscription it found alive still is, whatever the provider
\* answered (actions.ts:178).
ResumeKeepsRenewing ==
  [][\A f \in Form : CallProvider(f) /\ form[f].kind = "resume" =>
       \A s \in Sub : sub[s].live => sub'[s].live]_vars
=============================================================================
