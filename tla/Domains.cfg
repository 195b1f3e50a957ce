CONSTANTS
  u1 = u1
  u2 = u2
  h1 = h1
  h2 = h2
  User = {u1, u2}
  Host = {h1, h2, h3}
  Holder <- MCHolder
  Request = {r1}
  Verifier = {v1, v2}
  Reserved = {h3}
  Cap = 1
  Batch = 1
  MaxRow = 2
  MaxExtra = 1
SPECIFICATION Spec
INVARIANTS ProvedByHolder
PROPERTIES DemotedOnlyByOverlap EventuallyDecided
