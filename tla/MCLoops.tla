------------------------------ MODULE MCLoops ------------------------------
(* Three loops of the worker that share no state with each other: which of    *)
(* them moves is chosen in the beginning, and the others rest.                *)
EXTENDS Integers, FiniteSets, MCValues

CONSTANTS Worker, Total, Custom, ImportBatch, MaxAttempts, MaxImportFail,
          Links, Threshold, LinkBatch, MaxClicks, MaxPassFail,
          Editions, City, Tried, Web, Week, MaxAge, MaxRun, MaxTime, MaxGeoFail

VARIABLES loop,
  upload, progress, missed, delivered, acked, fetch, todo, step, attempts, links, dead, fails, again, cut,
  clicks, owned, cursor, emits, batch, seen, at, passing, failures, slipped, beside,
  now, up, due, job, file, reader, web, troubles, slack

Bulk == INSTANCE BulkImport WITH Batch <- ImportBatch, MaxFail <- MaxImportFail
Mile == INSTANCE Milestones WITH Batch <- LinkBatch, MaxFail <- MaxPassFail, step <- at, lock <- passing
Geo == INSTANCE GeoRefresh WITH MaxFail <- MaxGeoFail, fails <- troubles

ASSUME MCLoopsAssumption ==
  Bulk!BulkAssumption /\ Mile!MilestonesAssumption /\ Geo!GeoAssumption

bulk == <<upload, progress, missed, delivered, acked, fetch, todo, step, attempts, links, dead, fails, again, cut>>
mile == <<clicks, owned, cursor, emits, batch, seen, at, passing, failures, slipped, beside>>
geo == <<now, up, due, job, file, reader, web, troubles, slack>>
loops == <<loop, bulk, mile, geo>>

LoopsInit ==
  /\ loop \in {"bulk", "milestones", "geo"}
  /\ Bulk!Init /\ Mile!Init /\ Geo!Init
  /\ loop # "milestones" => owned = {}
  /\ loop # "geo" => file = [e \in Geo!Edition |-> Geo!NoFile]

OnlyBulk(A) == loop = "bulk" /\ A /\ UNCHANGED <<loop, mile, geo>>
OnlyMile(A) == loop = "milestones" /\ A /\ UNCHANGED <<loop, bulk, geo>>

LoopsNext ==
  \/ loop = "bulk" /\ Bulk!Next /\ UNCHANGED <<loop, mile, geo>>
  \/ loop = "milestones" /\ Mile!Next /\ UNCHANGED <<loop, bulk, geo>>
  \/ loop = "geo" /\ Geo!Next /\ UNCHANGED <<loop, bulk, mile>>

LoopsFairness ==
  /\ WF_loops(OnlyBulk(Bulk!AppendEntry)) /\ WF_loops(OnlyMile(Mile!Expire))
  /\ \A w \in Worker : WF_loops(OnlyBulk(Bulk!Work(w))) /\ WF_loops(OnlyMile(Mile!Pass(w)))

LoopsSpec == LoopsInit /\ [][LoopsNext]_loops /\ LoopsFairness

\* The properties of the three modules, stated and explained there: what is said of
\* a row, and that the import ends; announced once, and at least once; databases
\* that are whole, read and never too old.
RowsAccounted == Bulk!RowsAccounted
ImportEnds == Bulk!ImportEnds
AnnouncedOnce == Mile!AnnouncedOnce
EventuallyAnnounced == Mile!EventuallyAnnounced
GeoStaysFresh == Geo!GeoStaysFresh
=============================================================================
