-------------------------------- MODULE Ads --------------------------------
(***************************************************************************)
(* Advertisements on the page before a redirect: the visitor's choice in   *)
(* the consent banner, the gate, the placement that is drawn, its beacons  *)
(* and clicks, and the administrator's forms.                              *)
(*                                                                         *)
(* The choice lives in cookies of one name.  The route sets one for the    *)
(* whole domain; if it fails, the banner sets one for the host.  The       *)
(* server reads the last of them, the banner the first; a browser sends    *)
(* them in the order in which they were created.                           *)
(***************************************************************************)
EXTENDS Integers, Sequences, FiniteSets

CONSTANTS
  Tab,            \* tabs of the visitor's browser
  Placement,      \* rows of ads_placements
  AdSense,        \* ADSENSE_CLIENT_ID is set
  MaxVisit,       \* bound: pages
  MaxForm,        \* bound: the administrator's forms
  MaxCount        \* bound: impressions and clicks of a placement

\* What the constants satisfy.
AdsAssumption == AdSense \in BOOLEAN /\ {MaxVisit, MaxForm, MaxCount} \subseteq Nat

VARIABLES
  strict,        \* the visitor's country asks for an explicit opt-in
  human,         \* no sign of a bot, and ADS_ENABLED
  jar,           \* the consent cookies, oldest first
  choice,        \* history: the visitor's last choice
  tab,           \* tab[t]: the page it asks for or shows
  row,           \* row[p]: the placement
  impressions, clicks,
  visits, forms

visitor == <<strict, human>>
consent == <<jar, choice>>
counts == <<impressions, clicks>>
vars == <<visitor, consent, tab, row, counts, visits, forms>>

NoRow == [there |-> FALSE, active |-> FALSE, due |-> FALSE, weight |-> 0]
Gone == [NoRow EXCEPT !.weight = -1]     \* deleted: no placement gets its id again
Row == [there : {TRUE}, active : BOOLEAN, due : BOOLEAN, weight : {0, 1}]
Blank == [at |-> "blank"]

-----------------------------------------------------------------------------
(* lib/consent.ts *)

\* getConsent: "none" before any choice.
FirstCookie == IF jar = <<>> THEN "none" ELSE jar[1].ads
LastCookie == IF jar = <<>> THEN "none" ELSE jar[Len(jar)].ads

ConsentIfNotRefused(cookie) == cookie = "yes" \/ ~strict

\* hasAdsConsent: a choice wins; without one, the country decides.
HasAdsConsent(cookie) == IF cookie = "none" THEN ~strict ELSE cookie = "yes"

\* A cookie of one kind is replaced where it is, or comes last.
Kinds == {jar[i].kind : i \in DOMAIN jar}
Set(kind, ads) ==
  jar' = IF kind \in Kinds
         THEN [i \in DOMAIN jar |-> IF jar[i].kind = kind THEN [kind |-> kind, ads |-> ads] ELSE jar[i]]
         ELSE Append(jar, [kind |-> kind, ads |-> ads])

-----------------------------------------------------------------------------
Init ==
  /\ strict \in BOOLEAN /\ human \in BOOLEAN
  /\ jar = <<>> /\ choice = "none"
  /\ tab = [t \in Tab |-> Blank]
  /\ row \in [Placement -> {NoRow} \cup {r \in Row : r.active}]
  /\ impressions = [p \in Placement |-> 0] /\ clicks = [p \in Placement |-> 0]
  /\ visits = 0 /\ forms = 0

\* The page is asked for, with the cookies of now.
Ask(t) ==
  /\ tab[t].at = "blank" /\ visits < MaxVisit
  /\ visits' = visits + 1
  /\ tab' = [tab EXCEPT ![t] =
       [at |-> "asked", cookie |-> LastCookie, chosen |-> choice, both |-> Len(jar) > 1]]
  /\ UNCHANGED <<visitor, consent, row, counts, forms>>

Shows(t, ad) ==
  tab' = [tab EXCEPT ![t] = [at |-> "page", ad |-> ad, banner |-> FirstCookie = "none",
                             chosen |-> @.chosen, both |-> @.both]]

\* shouldRenderAds closes the page to advertisements,
NoAds(t) ==
  /\ tab[t].at = "asked" /\ ~(human /\ HasAdsConsent(tab[t].cookie))
  /\ Shows(t, "none")
  /\ UNCHANGED <<visitor, consent, row, counts, visits, forms>>

\* weightedPick among the active rows whose time it is: any with a weight, or any
\* if none has one.
Eligible == {p \in Placement : row[p].there /\ row[p].active /\ row[p].due}
Weighted == {p \in Eligible : row[p].weight > 0}
Pick == IF Weighted # {} THEN Weighted ELSE Eligible

\* or lets selectAd find one; a failing query counts as an empty inventory.
SelectAd(t) ==
  /\ tab[t].at = "asked" /\ human /\ HasAdsConsent(tab[t].cookie)
  /\ \/ \E p \in Pick : Shows(t, p)
     \/ Shows(t, IF AdSense THEN "adsense" ELSE "none")
  /\ UNCHANGED <<visitor, consent, row, counts, visits, forms>>

Rendered(t) == tab[t].at = "page" /\ tab[t].ad \in Placement

\* The beacons: an image and sendBeacon, each of which records what it arrives
\* for, active or not.
Beacon(t) ==
  /\ Rendered(t) /\ impressions[tab[t].ad] < MaxCount
  /\ impressions' = [impressions EXCEPT ![tab[t].ad] = IF row[tab[t].ad].there THEN @ + 1 ELSE @]
  /\ UNCHANGED <<visitor, consent, tab, row, clicks, visits, forms>>

\* The click, in a tab of its own, counts while the placement is active, and leads
\* home otherwise.
Click(t) ==
  /\ Rendered(t) /\ clicks[tab[t].ad] < MaxCount
  /\ clicks' = [clicks EXCEPT ![tab[t].ad] =
       IF row[tab[t].ad].there /\ row[tab[t].ad].active THEN @ + 1 ELSE @]
  /\ UNCHANGED <<visitor, consent, tab, row, impressions, visits, forms>>

\* The banner's answer: the route stores it, or the banner does.
Choose(t, ads) ==
  /\ tab[t].at = "page" /\ tab[t].banner
  /\ tab' = [tab EXCEPT ![t].banner = FALSE]
  /\ \E kind \in {"domain", "host"} : Set(kind, ads)
  /\ choice' = ads
  /\ UNCHANGED <<visitor, row, counts, visits, forms>>

Leave(t) ==
  /\ tab[t].at = "page" /\ tab' = [tab EXCEPT ![t] = Blank]
  /\ UNCHANGED <<visitor, consent, row, counts, visits, forms>>

-----------------------------------------------------------------------------
(* The administrator. *)

Submit(p, r) ==
  /\ forms < MaxForm /\ forms' = forms + 1
  /\ row' = [row EXCEPT ![p] = r]
  /\ UNCHANGED <<visitor, consent, tab, visits>>

\* readAdFields: a form has a weight of at least 1; 0 is left to rows written
\* otherwise.
Fields == {r \in Row : r.weight = 1}
CreatePlacement(p) ==
  /\ row[p] = NoRow /\ \E r \in Fields : Submit(p, r)
  /\ UNCHANGED counts
UpdatePlacement(p) ==
  /\ row[p].there /\ \E r \in Fields : Submit(p, r)
  /\ UNCHANGED counts
Toggle(p) ==
  /\ row[p].there /\ \E on \in BOOLEAN : Submit(p, [row[p] EXCEPT !.active = on])
  /\ UNCHANGED counts
Delete(p) ==
  /\ row[p].there /\ Submit(p, Gone)
  /\ impressions' = [impressions EXCEPT ![p] = 0] /\ clicks' = [clicks EXCEPT ![p] = 0]

\* Its time begins or ends.
DatePasses(p) ==
  /\ row[p].there /\ row' = [row EXCEPT ![p].due = ~@]
  /\ UNCHANGED <<visitor, consent, tab, counts, visits, forms>>

Next ==
  \/ \E t \in Tab : Ask(t) \/ NoAds(t) \/ SelectAd(t) \/ Beacon(t) \/ Click(t) \/ Leave(t)
                      \/ \E ads \in {"yes", "no"} : Choose(t, ads)
  \/ \E p \in Placement : CreatePlacement(p) \/ UpdatePlacement(p) \/ Toggle(p) \/ Delete(p) \/ DatePasses(p)

Spec == Init /\ [][Next]_vars

-----------------------------------------------------------------------------
(* Properties. *)

\* A page with an advertisement was asked for after the visitor had accepted, or
\* before any choice from a country that allows it: tabs and failing routes do
\* not bring back what was refused (consent.ts:149).  Two cookies of the two kinds
\* may disagree; then the older kind, which a later answer replaces in place, loses.
AdsFollowConsent ==
  \A t \in Tab : tab[t].at = "page" /\ tab[t].ad # "none" =>
    \/ tab[t].chosen = "yes"
    \/ tab[t].chosen = "none" /\ ~strict
    \/ tab[t].both
=============================================================================
