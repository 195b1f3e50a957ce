CONSTANTS
  Tab = {t1}
  Code = {"now", "old"}
  Current = "now"
  Form <- MCForms
  Here <- MCHere
  Turned = FALSE
  MaxStart = 1
  MaxEdit = 1
  MaxSlip = 0
SPECIFICATION Spec
CHECK_DEADLOCK FALSE
PROPERTIES OldCodeArrives
