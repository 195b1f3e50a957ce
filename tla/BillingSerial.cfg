CONSTANTS
  PaidPlan = {"pro"}
  Ref = {"r1", "r2"}
  NoRef = "no_ref"
  Interval = 2
  Web = {h1}
  Drain = {}
  Return = {}
  Owner = {h1}
  Admin = {h1}
  Event = {"renewal1", "renewal2", "created", "payment_failed", "disable"}
  Payload <- SerialPayload
  NoEvent = no_event
  Link = {l1}
  Choice = {"single", "geo", "ab"}
  Batch = 2
  MaxNow = 3
  MaxFail = 0
SPECIFICATION Spec
\* Every bounded input is used up in the end: the system may stop.
CHECK_DEADLOCK FALSE
INVARIANTS NoFreeTime
PROPERTIES RoutingFollowsEvent
