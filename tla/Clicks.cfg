CONSTANTS
  Worker = {w1, w2}
  Code = {k1}
  Cap = 1
  Batch = 2
  MaxAttempts = 2
  MaxClick = 2
  MaxFail = 3
SPECIFICATION Spec
INVARIANTS LostOnlyByMisroute CountedOnlyIfStored RepeatsAreExplained OverrunBounded
PROPERTIES EventuallySettled
