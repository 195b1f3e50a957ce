CONSTANTS
  Worker = {w1, w2}
  Endpoint = {e1}
  Batch = 2
  MaxAttempts = 2
  MaxDelivery = 2
  MaxForm = 1
  MaxTrouble = 1
SPECIFICATION Spec
\* Every bounded input is used up in the end: the system may stop.
CHECK_DEADLOCK FALSE
INVARIANTS RepeatsBounded GivenUpAfterAttempts
PROPERTIES EventuallySettled
