----------------------------- MODULE MCBilling ------------------------------
(***************************************************************************)
(* Small instances of Billing: what the providers send, in any order.      *)
(***************************************************************************)
EXTENDS Billing

\* A Polar order is announced by order.created and by order.paid: two rows, one
\* reference. The charge of a user purged meanwhile can never be applied.
RacePayload ==
  [order_created |-> Polar("order.created", "pro", "r1", NoEnd),
   order_paid    |-> Polar("order.paid", "pro", "r1", NoEnd),
   orphan        |-> [Paystack("charge.success", NoPlan, "r2") EXCEPT !.known = FALSE]]

\* Two renewals, an activation, a failed payment, an immediate cancellation.
SerialPayload ==
  [renewal1       |-> Paystack("charge.success", "pro", "r1"),
   renewal2       |-> Paystack("charge.success", NoPlan, "r2"),
   created        |-> Paystack("subscription.create", "pro", NoRef),
   payment_failed |-> Paystack("invoice.payment_failed", NoPlan, NoRef),
   disable        |-> Paystack("subscription.disable", NoPlan, NoRef)]
=============================================================================
