------------------------------ MODULE MCLinks ------------------------------
(* The codes of several links and the checks of their destinations, which are *)
(* MCCodes, and one link with the entries that its owner's operations flush.  *)
(* Which part moves is chosen in the beginning, and the others rest.          *)
EXTENDS MCCodes

CONSTANTS Back, FirstBack, Default, Site, Visitor, Editor, Used, Threshold, MaxOpen, MaxLost

VARIABLES link, cache, fill, edit, opened, lost, unflushed

One == INSTANCE LinkCache WITH Code <- Back, First <- FirstBack, Host <- Site,
  Op <- Used, late <- unflushed

ASSUME MCLinksAssumption == One!LinkCacheAssumption

one == <<link, cache, fill, edit, opened, lost, unflushed>>

LinksInit ==
  /\ part \in {"codes", "safety", "link"}
  /\ Init /\ Safety!Init /\ One!Init
  /\ part # "codes" => prev[1] = <<>>
  /\ part # "safety" => \A v \in Value : row[v] = Safety!NoEntry
  /\ part # "link" => link.rules = 0

LinksNext ==
  \/ PartNext /\ UNCHANGED one
  \/ part = "link" /\ One!Next /\ UNCHANGED <<part, vars, safety>>

LinksSpec == LinksInit /\ [][LinksNext]_<<part, vars, safety, one>>

\* That the entry of the current code is stale for a named reason only, stated and
\* explained in LinkCache.
StaleOnlyByOverlap == One!StaleOnlyByOverlap
=============================================================================
