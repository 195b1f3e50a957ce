CONSTANTS
  Worker = {w1, w2}
  Total = 2
  Custom = {1}
  ImportBatch = 2
  MaxAttempts = 2
  MaxImportFail = 2
  Links = 2
  Threshold = {1, 2}
  LinkBatch = 1
  MaxClicks = 2
  MaxPassFail = 1
  Editions <- MCEditions
  Tried <- MCEditions
  City = "city"
  Web = {s1}
  Week = 3
  MaxAge = 3
  MaxRun = 2
  MaxTime = 10
  MaxGeoFail = 1
SPECIFICATION LoopsSpec
INVARIANTS RowsAccounted AnnouncedOnce GeoStaysFresh
PROPERTIES ImportEnds EventuallyAnnounced
