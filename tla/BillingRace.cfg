CONSTANTS
  PaidPlan = {"pro"}
  Ref = {"r1", "r2"}
  NoRef = "no_ref"
  Interval = 2
  Web = {w1}
  Drain = {d1}
  Return = {p1}
  Owner = {}
  Admin = {}
  Event = {"order_created", "order_paid", "orphan"}
  Payload <- RacePayload
  NoEvent = no_event
  Link = {l1}
  Choice = {"geo"}
  Batch = 2
  MaxNow = 1
  MaxFail = 1
SPECIFICATION Spec
\* Every bounded input is used up in the end: the system may stop.
CHECK_DEADLOCK FALSE
INVARIANTS ReceiptOncePerCredit ChargeLostOnlyByFailure
PROPERTIES LedgerSpec EventuallyProcessed
