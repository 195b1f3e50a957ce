CONSTANTS
  Code = {"a", "b", "c"}
  First = "a"
  Default = "clip.al"
  Host = {"clip.al", "brand"}
  Visitor = {v1}
  Editor = {e1}
  Op <- WatchOp
  HistoryMax = 1
  Threshold = 2
  MaxOpen = 2
  MaxLost = 1
  Tab = {t1, t2}
  Reached = {"now", "old"}
  Current = "now"
  Form <- MCForms
  Here <- MCHere
  Turned = TRUE
  MaxStart = 2
  MaxEdit = 2
  MaxSlip = 1
SPECIFICATION RedirectSpec
CHECK_DEADLOCK FALSE
PROPERTIES EventuallyFresh VisitorArrives
