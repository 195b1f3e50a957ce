CONSTANTS
  Proc = {p1, p2}
  Code = {a, b, c, www}
  Reserved = {www}
  First = a
  Retries = 1
  HistoryMax = 1
  Quota = 1
  MaxIds = 1
  MaxLink = 3
  MaxStart = 2
  MaxFail = 1
  Value = {"v"}
  Brand = {"v"}
  Host = {"own"}
  Domain <- MCDomain
  Contains <- MCContains
  Admin = {d1, d2}
  Server = {s1}
  Check = {k1}
  MaxEntry = 2
  MaxBoot = 1
  MaxSafetyFail = 1
  Back = {"a", "b"}
  FirstBack = "a"
  Default = "clip.al"
  Site = {"clip.al"}
  Visitor = {v1}
  Editor = {e1, e2}
  Used <- MCOwnerOp
  Threshold = 2
  MaxOpen = 3
  MaxLost = 0
SPECIFICATION LinksSpec
SYMMETRY MCSymmetry
INVARIANTS CreationBounded CodesAnswerForOne RowsDecide StaleOnlyByOverlap
