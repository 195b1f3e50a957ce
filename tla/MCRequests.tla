----------------------------- MODULE MCRequests -----------------------------
(* Eight parts of the web application that share no state with each other:    *)
(* which of them moves is chosen in the beginning, and the others rest.      *)
EXTENDS Integers, Sequences, FiniteSets, MCValues

CONSTANTS
  Handler, Call, Prefix, MaxActive, MonthlyCap, MaxKey, MaxCall, MaxChange, MaxKeyFail,
  Tab, Code, Current, Form, Here, Turned, MaxStart, MaxEdit, MaxSlip,
  Page, Placement, AdSense, MaxVisit, MaxAdForm, MaxCount,
  Owner, Configured, MaxCheckout, MaxOwner, MaxRenewal, MaxOutage,
  Dialog, Grouped, Cap, MaxCampaign, MaxDialog,
  Screen, Item, Amount, Default, ProviderPrice, Coded, Priced, MaxRender, MaxOverride, MaxMove,
  Caller, Ahead, Route, Bucket, Hits, Limit, Window, Delay, MaxTime, MaxRequest, MaxFailure,
  Id, Part, Behind, PageSize, MaxInstant, MaxWrite, MaxPage

VARIABLES part,
  key, dashboard, call, granted, billing, cached, month, changes, keyfails, stale,
  mode, rules, settings, protected, interstitial, cache, flush, tab, proof, variant, told,
  starts, edits, slips,
  strict, human, jar, choice, page, placement, impressions, clicks, visits, adforms,
  browser, sub, paid, row, sent, submitted, submits, renewals, outages, overlapped, blind,
  live, made, there, group, dialog, dialogs, crowd, moved, lost,
  override, country, paidIn, screen, renders, overrides, moves,
  time, log, due, hitting, hits, refused, requests, failures,
  instant, stamped, write, list, writes, pages

Keys == INSTANCE ApiKeys WITH form <- dashboard, fails <- keyfails, MaxFail <- MaxKeyFail
Visits == INSTANCE Visits
Ads == INSTANCE Ads WITH Tab <- Page, tab <- page, row <- placement, forms <- adforms, MaxForm <- MaxAdForm
Checkout == INSTANCE Checkout WITH Form <- Owner, MaxForm <- MaxOwner, MaxFail <- MaxOutage,
  page <- browser, form <- submitted, forms <- submits, fails <- outages
Campaigns == INSTANCE Campaigns WITH Form <- Dialog, Link <- Grouped, MaxForm <- MaxDialog,
  form <- dialog, forms <- dialogs
Prices == INSTANCE Prices WITH Tab <- Screen, tab <- screen, row <- paidIn
Limits == INSTANCE RateLimits WITH call <- hitting, MaxFail <- MaxFailure
Listing == INSTANCE Listing WITH Limit <- PageSize, MaxTime <- MaxInstant,
  time <- instant, row <- stamped

ASSUME MCRequestsAssumption ==
  /\ Keys!ApiKeysAssumption /\ Visits!VisitsAssumption /\ Ads!AdsAssumption
  /\ Checkout!CheckoutAssumption /\ Campaigns!CampaignsAssumption
  /\ Prices!PricesAssumption /\ Limits!RateLimitsAssumption
  /\ Listing!ListingAssumption

keys == <<key, dashboard, call, granted, billing, cached, month, changes, keyfails, stale>>
redirects == <<mode, rules, settings, protected, interstitial, cache, flush, tab, proof, variant,
               told, starts, edits, slips>>
ads == <<strict, human, jar, choice, page, placement, impressions, clicks, visits, adforms>>
checkout == <<browser, sub, paid, row, sent, submitted, submits, renewals, outages, overlapped, blind>>
campaigns == <<live, made, there, group, dialog, dialogs, crowd, moved, lost>>
prices == <<override, country, paidIn, screen, renders, overrides, moves>>
limits == <<time, log, due, hitting, hits, refused, requests, failures>>
listing == <<instant, stamped, write, list, writes, pages>>
vars == <<part, keys, redirects, ads, checkout, campaigns, prices, limits, listing>>

Init ==
  /\ part \in {"keys", "visits", "ads", "checkout", "campaigns", "prices", "limits", "listing"}
  /\ Keys!Init /\ Visits!Init /\ Ads!Init /\ Checkout!Init
  /\ Campaigns!Init /\ Prices!Init /\ Limits!Init /\ Listing!Init
  /\ part # "visits" => ~interstitial
  /\ part # "ads" => ~strict /\ ~human /\ \A p \in Placement : ~placement[p].there
  /\ part # "prices" => country = "NG"
  /\ part # "listing" => \A i \in Id : stamped[i] = Listing!Absent

Next ==
  \/ /\ part = "keys" /\ Keys!Next
     /\ UNCHANGED <<part, redirects, ads, checkout, campaigns, prices, limits, listing>>
  \/ /\ part = "visits" /\ Visits!Next
     /\ UNCHANGED <<part, keys, ads, checkout, campaigns, prices, limits, listing>>
  \/ /\ part = "ads" /\ Ads!Next
     /\ UNCHANGED <<part, keys, redirects, checkout, campaigns, prices, limits, listing>>
  \/ /\ part = "checkout" /\ Checkout!Next
     /\ UNCHANGED <<part, keys, redirects, ads, campaigns, prices, limits, listing>>
  \/ /\ part = "campaigns" /\ Campaigns!Next
     /\ UNCHANGED <<part, keys, redirects, ads, checkout, prices, limits, listing>>
  \/ /\ part = "prices" /\ Prices!Next
     /\ UNCHANGED <<part, keys, redirects, ads, checkout, campaigns, limits, listing>>
  \/ /\ part = "limits" /\ Limits!Next
     /\ UNCHANGED <<part, keys, redirects, ads, checkout, campaigns, prices, listing>>
  \/ /\ part = "listing" /\ Listing!Next
     /\ UNCHANGED <<part, keys, redirects, ads, checkout, campaigns, prices, limits>>

Spec == Init /\ [][Next]_vars

\* The properties of the eight modules, stated and explained there: why a cached plan
\* may differ, where a visitor is sent and that it is the same place again, who may
\* see an advertisement, that a cancelled subscription is stopped, what the caps and
\* the deletions of campaigns keep, that a buyer is asked for what was shown, how far
\* a limit may be passed, that a listing is complete.
StalePlanExplained == Keys!StalePlanExplained
SentAsConfigured == Visits!SentAsConfigured
AdsFollowConsent == Ads!AdsFollowConsent
CancelledIsStopped == Checkout!CancelledIsStopped
CampaignsKept == Campaigns!CampaignsKept
AskedAsShown == Prices!AskedAsShown
LimitKept == Limits!LimitKept
ListedOrMoved == Listing!ListedOrMoved
=============================================================================
