CONSTANTS
  Form = {f1}
  Configured = {"paystack", "polar"}
  MaxCheckout = 1
  MaxForm = 2
  MaxRenewal = 0
  MaxFail = 0
SPECIFICATION Spec
CHECK_DEADLOCK FALSE
PROPERTIES ResumeKeepsRenewing
