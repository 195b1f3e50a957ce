----------------------------- MODULE MCRedirect -----------------------------
(* What a redirect comes to in the end: the entries of one link while others   *)
(* than its owner work on it, and a visitor's way under its present and under  *)
(* an old code.  Which part moves is chosen in the beginning, and the other    *)
(* rests.                                                                      *)
EXTENDS LinkCache, MCValues

CONSTANTS Tab, Reached, Current, Form, Here, Turned, MaxStart, MaxEdit, MaxSlip

VARIABLES part, mode, rules, settings, protected, interstitial, payload, flushing, tab,
  proof, variant, told, starts, edits, slips

\* The operations of administrators, visitors and the worker, and a rename.
WatchOp == {"rename", "apiDelete", "adminDisable", "malicious", "clean",
            "dismiss", "report", "rescan"}

Visits == INSTANCE Visits WITH Code <- Reached, cache <- payload, flush <- flushing

ASSUME MCRedirectAssumption == Visits!VisitsAssumption

redirects == <<mode, rules, settings, protected, interstitial, payload, flushing, tab, proof,
               variant, told, starts, edits, slips>>

RedirectInit ==
  /\ part \in {"link", "visits"}
  /\ Init /\ Visits!Init
  /\ link.rules = IF part = "link" THEN 1 ELSE 0     \* a routed link, the longer lookup
  /\ part # "visits" => ~interstitial

OnlyLink(A) == part = "link" /\ A /\ UNCHANGED <<part, redirects>>
OnlyVisits(A) == part = "visits" /\ A /\ UNCHANGED <<part, vars>>

RedirectNext ==
  \/ part = "link" /\ Next /\ UNCHANGED <<part, redirects>>
  \/ part = "visits" /\ Visits!Next /\ UNCHANGED <<part, vars>>

all == <<part, vars, redirects>>

RedirectFairness ==
  /\ \A v \in Visitor : WF_all(OnlyLink(Visit(v)))
  /\ \A e \in Editor : WF_all(OnlyLink(WriteRow(e))) /\ WF_all(OnlyLink(Flush(e)))
  /\ \A k \in Key : WF_all(OnlyLink(Expire(k)))
  /\ \A t \in Tab : WF_all(OnlyVisits(Visits!Answer(t))) /\ WF_all(OnlyVisits(Visits!GoesOn(t)))
  /\ \A c \in Reached : WF_all(OnlyVisits(Visits!Flush(c))) /\ WF_all(OnlyVisits(Visits!Expire(c)))

RedirectSpec == RedirectInit /\ [][RedirectNext]_all /\ RedirectFairness

\* That a visitor arrives, stated and explained in Visits.
VisitorArrives == Visits!VisitorArrives
=============================================================================
