CONSTANTS
  Handler = {h1}
  Call = {c1}
  Prefix = {"a0"}
  MaxActive = 1
  MonthlyCap = 1
  MaxKey = 2
  MaxCall = 1
  MaxChange = 2
  MaxKeyFail = 1
  Tab = {t1, t2}
  Code = {"now"}
  Current = "now"
  Form <- MCForm
  Here <- MCHere
  Turned = TRUE
  MaxStart = 2
  MaxEdit = 2
  MaxSlip = 1
  Page = {p1, p2}
  Placement = {a1}
  AdSense = TRUE
  MaxVisit = 3
  MaxAdForm = 1
  MaxCount = 1
  Owner = {f1}
  Configured = {"paystack", "polar"}
  MaxCheckout = 1
  MaxOwner = 3
  MaxRenewal = 1
  MaxOutage = 1
  Dialog = {g1, g2}
  Grouped = {l1, l2}
  Cap = 1
  MaxCampaign = 3
  MaxDialog = 5
  Screen = {b1}
  Item = {"pro", "business"}
  Amount = {1, 2}
  Default <- MCDefault
  ProviderPrice <- MCProviderPrice
  Coded = {"business"}
  Priced = {"pro"}
  MaxRender = 2
  MaxOverride = 2
  MaxMove = 1
  Caller = {"one", "other"}
  Ahead <- MCAhead
  Route = {"shorten"}
  Bucket = {"hour", "day"}
  Hits <- MCHits
  Limit <- MCLimit
  Window <- MCWindow
  Delay = 1
  MaxTime = 4
  MaxRequest = 2
  MaxFailure = 1
  Id = {1, 2, 3}
  Part = 2
  Behind = {0, 2}
  PageSize = 2
  MaxInstant = 3
  MaxWrite = 3
  MaxPage = 3
SPECIFICATION Spec
CHECK_DEADLOCK FALSE
INVARIANTS StalePlanExplained SentAsConfigured AdsFollowConsent CancelledIsStopped CampaignsKept AskedAsShown LimitKept ListedOrMoved
