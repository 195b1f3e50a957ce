---------------------------- MODULE ChargeLedger ----------------------------
(***************************************************************************)
(* What the billing core promises about a charge, whoever reports it and   *)
(* however often: a paid invoice is written for it at most once, and the   *)
(* paid period is extended for it at most once, after the invoice.         *)
(***************************************************************************)
EXTENDS Naturals

CONSTANT Charge

VARIABLES
  invoiced,   \* charges with a paid invoice
  credits     \* credits[c]: how often c extended the period

vars == <<invoiced, credits>>

Init ==
  /\ invoiced = {}
  /\ credits = [c \in Charge |-> 0]

Invoice(c) ==
  /\ c \notin invoiced
  /\ invoiced' = invoiced \cup {c}
  /\ UNCHANGED credits

Credit(c) ==
  /\ c \in invoiced /\ credits[c] = 0
  /\ credits' = [credits EXCEPT ![c] = 1]
  /\ UNCHANGED invoiced

Next == \E c \in Charge : Invoice(c) \/ Credit(c)

Spec == Init /\ [][Next]_vars
=============================================================================
