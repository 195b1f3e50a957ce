CONSTANTS
  Proc = {p1, p2}
  MaxAttempts = 2
  LockThreshold = 1
  MaxCode = 2
  MaxSubmit = 3
  MaxOp = 1
  MaxFail = 1
SPECIFICATION Spec
INVARIANTS GuessesBounded RevokedIsRefused
PROPERTIES RightsFollowRow EventuallyUnlocked
CHECK_DEADLOCK FALSE
