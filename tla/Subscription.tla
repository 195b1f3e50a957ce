---------------------------- MODULE Subscription ----------------------------
(***************************************************************************)
(* One user's row of the subscriptions table and what each normalized      *)
(* billing event makes of it: the switch of applyBillingEvent in           *)
(* packages/billing/src/subscription.ts and computePlan in plan.ts.        *)
(*                                                                         *)
(* Every statement of that code is keyed by user_id, so one user is the    *)
(* whole system.  Instants are numbers; the columns no decision reads      *)
(* (currency, interval, period start, provider ids) are left out, and      *)
(* every interval has the same length.                                     *)
(***************************************************************************)
EXTENDS Naturals

CONSTANTS
  PaidPlan,   \* the plans that are paid for (pro, business)
  Ref,        \* provider references of charges
  NoRef,      \* a charge without reference or amount
  Interval    \* length of a billing period

ASSUME SubscriptionAssumption ==
  /\ "free" \notin PaidPlan /\ "none" \notin PaidPlan
  /\ NoRef \notin Ref
  /\ Interval \in Nat \ {0}

Plan == PaidPlan \cup {"free"}
NoPlan == "none"    \* the payload's metadata names no plan
NoEnd == 0          \* a null current_period_end; the clock starts at 1

\* The enum sub_status, and "none" for a user who has no row.
Status == {"none", "active", "past_due", "cancelled", "expired"}

Row == [plan : Plan, status : Status, end : Nat, atEnd : BOOLEAN]

\* No row: the fields are what the code's `existing?.x ?? default` yields.
NoSub == [plan |-> "free", status |-> "none", end |-> NoEnd, atEnd |-> FALSE]

EventType == {"activate", "charge", "past_due", "cancel", "expire", "ignored"}

\* A NormalizedEvent. "ignored": normalize...Event returned null. known: the
\* users row its userId names still exists.
Body == [type : EventType, plan : Plan \cup {NoPlan}, ref : Ref \cup {NoRef},
         end : Nat, atEnd : BOOLEAN, known : BOOLEAN]

NoBody == [type |-> "ignored", plan |-> NoPlan, ref |-> NoRef, end |-> NoEnd,
           atEnd |-> FALSE, known |-> TRUE]

(***************************************************************************)
(* normalizePaystackEvent and normalizePolarEvent: the event named name    *)
(* whose metadata names the plan and a user; ref is the reference of its   *)
(* charge, end the period end Polar sends (Paystack sends none).           *)
(***************************************************************************)
PaystackType(name) ==
  CASE name = "subscription.create" -> "activate"
    [] name = "charge.success" -> "charge"
    [] name \in {"invoice.payment_failed", "subscription.not_renew"} -> "past_due"
    [] name = "subscription.disable" -> "cancel"
    [] OTHER -> "ignored"

PolarType(name) ==
  CASE name \in {"subscription.created", "subscription.active"} -> "activate"
    [] name \in {"order.paid", "order.created"} -> "charge"
    [] name = "subscription.past_due" -> "past_due"
    [] name \in {"subscription.canceled", "subscription.revoked"} -> "cancel"
    [] OTHER -> "ignored"

Paystack(name, plan, ref) ==
  IF PaystackType(name) = "ignored" THEN NoBody
  ELSE [NoBody EXCEPT !.type = PaystackType(name), !.plan = plan,
          !.ref = IF PaystackType(name) = "charge" THEN ref ELSE NoRef]

Polar(name, plan, ref, end) ==
  IF PolarType(name) = "ignored" THEN NoBody
  ELSE [NoBody EXCEPT !.type = PolarType(name), !.plan = plan, !.end = end,
          !.ref = IF PolarType(name) = "charge" THEN ref ELSE NoRef,
          !.atEnd = (name = "subscription.canceled")]

Target(b, old) == IF b.plan # NoPlan THEN b.plan ELSE old.plan

(***************************************************************************)
(* The row a handler writes for the event b when it read the row old and   *)
(* evaluates Date.now() as t.                                              *)
(***************************************************************************)
StackBase(old, t) == IF old.end > t THEN old.end ELSE t

\* Variant: an activation extends the running period.
ActivateRowStacks(b, old, t) ==
  [plan |-> Target(b, old), status |-> "active",
   end |-> StackBase(old, t) + Interval, atEnd |-> b.atEnd]

ActivateRow(b, old, t) ==
  [plan |-> Target(b, old), status |-> "active",
   end |-> IF b.end # NoEnd THEN b.end ELSE t + Interval,
   atEnd |-> b.atEnd]

ChargeRow(b, old, t) ==
  [plan |-> Target(b, old), status |-> "active",
   end |-> IF b.end # NoEnd THEN b.end ELSE StackBase(old, t) + Interval,
   atEnd |-> old.atEnd]

SuspendRow(b, old, status) ==
  [plan |-> Target(b, old), status |-> status, end |-> old.end, atEnd |-> old.atEnd]

CancelRow(b, old) ==
  [plan |-> Target(b, old), status |-> "cancelled",
   end |-> IF b.end # NoEnd THEN b.end ELSE old.end,
   atEnd |-> b.atEnd]

NewRow(b, old, t) ==
  CASE b.type = "activate" -> ActivateRow(b, old, t)
    [] b.type = "charge"   -> ChargeRow(b, old, t)
    [] b.type = "past_due" -> SuspendRow(b, old, "past_due")
    [] b.type = "expire"   -> SuspendRow(b, old, "expired")
    [] OTHER               -> CancelRow(b, old)

\* Whether a cancellation leaves the paid features on until the period ends.
StillActive(b, old, t) == b.atEnd /\ CancelRow(b, old).end > t

\* Variant: past_due is treated like a scheduled cancellation.
DegradesOnlyOnCancel(b, old, t) ==
  \/ b.type = "expire"
  \/ b.type = "cancel" /\ ~StillActive(b, old, t)

\* Whether the event restores the paid routing, suspends it, or leaves it.
Restores(b) == b.type \in {"activate", "charge"}
Degrades(b, old, t) ==
  \/ b.type \in {"past_due", "expire"}
  \/ b.type = "cancel" /\ ~StillActive(b, old, t)

(***************************************************************************)
(* The plan a row grants at the instant t.                                 *)
(***************************************************************************)
Granted(row, t) ==
  IF \/ row.status \in {"none", "expired", "past_due"}
     \/ row.end # NoEnd /\ row.end <= t
  THEN "free"
  ELSE row.plan
=============================================================================
