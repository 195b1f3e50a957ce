------------------------------ MODULE MCVisits ------------------------------
(* A small instance of Visits by itself. *)
EXTENDS Visits, MCValues
=============================================================================
