----------------------------- MODULE MCDomains -----------------------------
(* Two hosts under the control of a user each, and one nobody may add. *)
EXTENDS Domains
CONSTANTS u1, u2, h1, h2
MCHolder == [h \in Host |-> IF h = h1 THEN u1 ELSE u2]
=============================================================================
