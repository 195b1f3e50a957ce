--------------------------- MODULE RequestProofs ----------------------------
(***************************************************************************)
(* Proofs about the parts of the web application that MCRequests composes, *)
(* for any value of their constants: why a cached plan may differ, whom    *)
(* advertisements are shown to, what a cap and a deletion do to campaigns, *)
(* what a buyer is asked for, that rate limits hold, that a listing is     *)
(* complete, that a cancelled subscription no longer renews, and where a   *)
(* visitor is sent.                                                        *)
(***************************************************************************)
EXTENDS MCRequests, FiniteSetTheorems, TLAPS

-----------------------------------------------------------------------------
(***************************************************************************)
(* The cached plan: a request that has computed the plan and was not       *)
(* overtaken by a change has the plan that the row grants.                 *)
(***************************************************************************)
CallRecord == [pc : {"idle", "plan", "fill", "count"},
               plan : {"none"} \cup Keys!Plan, began : BOOLEAN]

ComputedHolds ==
  \A c \in Call : call[c].pc = "fill" /\ ~call[c].began => call[c].plan = granted

PlanInv ==
  /\ call \in [Call -> CallRecord] /\ granted \in Keys!Plan /\ cached \in {"none"} \cup Keys!Plan
  /\ billing \in BOOLEAN /\ stale \in BOOLEAN
  /\ ComputedHolds /\ StalePlanExplained

LEMMA PlanInit == Keys!Init => PlanInv
<1> SUFFICES ASSUME Keys!Init PROVE PlanInv
  OBVIOUS
<1>1. call \in [Call -> CallRecord] /\ \A c \in Call : call[c].pc = "idle"
  BY DEF Keys!Init, Keys!NoCall, CallRecord
<1>2. granted = "paid" /\ cached = "none" /\ billing = FALSE /\ stale = FALSE
  BY DEF Keys!Init
<1> QED
  BY <1>1, <1>2 DEF PlanInv, ComputedHolds, Keys!Plan, StalePlanExplained, Keys!StalePlanExplained

\* A step of a request.
LEMMA CallKeepsPlan ==
  ASSUME PlanInv, NEW c \in Call,
         Keys!Resolve(c) \/ Keys!Fill(c) \/ Keys!Count(c) \/ \E k \in Keys!Key : Keys!Present(c, k)
  PROVE  PlanInv'
<1> USE DEF StalePlanExplained, Keys!StalePlanExplained
<1>0. call \in [Call -> CallRecord] /\ call[c] \in CallRecord
  BY DEF PlanInv
<1>1. CASE \E k \in Keys!Key : Keys!Present(c, k)
  BY <1>0, <1>1 DEF PlanInv, ComputedHolds, CallRecord, Keys!Present, Keys!plans
<1>2. CASE Keys!Resolve(c)
  BY <1>0, <1>2 DEF PlanInv, ComputedHolds, CallRecord, Keys!Resolve, Keys!plans
<1>3. CASE Keys!Fill(c)
  BY <1>0, <1>3 DEF PlanInv, ComputedHolds, CallRecord, Keys!Fill
<1>4. CASE Keys!Count(c)
  BY <1>0, <1>4 DEF PlanInv, ComputedHolds, CallRecord, Keys!Count, Keys!plans, Keys!NoCall
<1> QED
  BY <1>1, <1>2, <1>3, <1>4

\* A step of the plan: every request that has computed it learns of a change.
LEMMA PlanChanges ==
  ASSUME PlanInv, Keys!Change \/ Keys!Lapse \/ Keys!Bust \/ Keys!Expire
  PROVE  PlanInv'
<1> USE DEF StalePlanExplained, Keys!StalePlanExplained
<1>1. ASSUME call' = Keys!Overtaken PROVE call' \in [Call -> CallRecord] /\ ComputedHolds'
  <2>1. \A c \in Call : call'[c] = IF call[c].pc = "fill" THEN [call[c] EXCEPT !.began = TRUE] ELSE call[c]
    BY <1>1 DEF Keys!Overtaken, Keys!Filling
  <2>2. \A c \in Call : call[c] \in CallRecord
    BY DEF PlanInv
  <2>3. \A c \in Call : call'[c] \in CallRecord
    BY <2>1, <2>2 DEF CallRecord
  <2>4. \A c \in Call : call'[c].pc = "fill" => call'[c].began
    BY <2>1, <2>2 DEF CallRecord
  <2>5. call' = [c \in Call |-> call'[c]]
    BY <1>1 DEF Keys!Overtaken
  <2> QED
    BY <2>3, <2>4, <2>5 DEF ComputedHolds
<1>2. CASE Keys!Change
  BY <1>1, <1>2 DEF PlanInv, Keys!Change
<1>3. CASE Keys!Lapse
  BY <1>1, <1>3 DEF PlanInv, Keys!Lapse, Keys!Plan
<1>4. CASE Keys!Bust
  BY <1>4 DEF PlanInv, ComputedHolds, Keys!Bust
<1>5. CASE Keys!Expire
  BY <1>5 DEF PlanInv, ComputedHolds, Keys!Expire
<1> QED
  BY <1>2, <1>3, <1>4, <1>5

LEMMA DashboardKeepsPlan ==
  ASSUME PlanInv, Keys!Dashboard \/ \E k \in Keys!Key : Keys!Revoke(k)
  PROVE  PlanInv'
<1> USE DEF StalePlanExplained, Keys!StalePlanExplained
<1>1. UNCHANGED <<call, granted, billing, stale>> /\ (cached' = cached \/ cached' = Keys!Known)
  BY DEF Keys!Dashboard, Keys!CreateCheck, Keys!RotateRead, Keys!RotateRevoke, Keys!Mint,
         Keys!Revoke, Keys!plans
<1> QED
  BY <1>1 DEF PlanInv, ComputedHolds, Keys!Known

LEMMA PlanStep == PlanInv /\ [Next]_vars => PlanInv'
<1> SUFFICES ASSUME PlanInv, [Next]_vars PROVE PlanInv'
  OBVIOUS
<1>1. CASE Keys!Next
  BY <1>1, CallKeepsPlan, PlanChanges, DashboardKeepsPlan DEF Keys!Next
<1>2. CASE UNCHANGED keys
  BY <1>2 DEF keys, PlanInv, ComputedHolds, StalePlanExplained, Keys!StalePlanExplained
<1>3. Keys!Next \/ UNCHANGED keys
  BY DEF Next, vars
<1> QED
  BY <1>1, <1>2, <1>3

\* The cached plan differs from what the subscription grants only before the
\* deletion that a change is followed by, after that deletion failed, after the end
\* of a period, or if a request was overtaken by the change (plan.ts:30).
THEOREM StalePlanHasACause == Spec => []StalePlanExplained
<1>1. Init => PlanInv
  BY PlanInit DEF Init
<1>2. PlanInv => StalePlanExplained
  BY DEF PlanInv
<1> QED
  BY <1>1, <1>2, PlanStep, PTL DEF Spec

-----------------------------------------------------------------------------
(***************************************************************************)
(* Advertisements: a single consent cookie says what the visitor chose     *)
(* last, and a page was asked for with it.                                 *)
(***************************************************************************)
Answers == {"none", "yes", "no"}
Cookie == [kind : {"domain", "host"}, ads : Answers]

JarTellsChoice ==
  /\ jar \in Seq(Cookie) /\ choice \in Answers
  /\ Len(jar) = 0 => choice = "none"
  /\ Len(jar) = 1 => jar[1].ads = choice

Asked == [at : {"asked"}, cookie : Answers, chosen : Answers, both : BOOLEAN]
Opened == [at : {"page"}, ad : Placement \cup {"none", "adsense"}, banner : BOOLEAN,
           chosen : Answers, both : BOOLEAN]

AskedWithChoice ==
  \A t \in Page : page[t].at = "asked" /\ ~page[t].both => page[t].cookie = page[t].chosen

ConsentInv ==
  /\ JarTellsChoice /\ strict \in BOOLEAN
  /\ page \in [Page -> {Ads!Blank} \cup Asked \cup Opened]
  /\ AskedWithChoice /\ AdsFollowConsent

LEMMA ConsentInit == Ads!Init => ConsentInv
<1> SUFFICES ASSUME Ads!Init PROVE ConsentInv
  OBVIOUS
<1>1. jar = << >> /\ choice = "none" /\ strict \in BOOLEAN
  BY DEF Ads!Init
<1>2. JarTellsChoice
  BY <1>1 DEF JarTellsChoice, Answers
<1>3. page \in [Page -> {Ads!Blank}] /\ \A t \in Page : page[t].at = "blank"
  BY DEF Ads!Init, Ads!Blank
<1> QED
  BY <1>1, <1>2, <1>3 DEF ConsentInv, AskedWithChoice, AdsFollowConsent, Ads!AdsFollowConsent

\* A cookie is replaced where it is, or comes last.
LEMMA SetTells ==
  ASSUME JarTellsChoice, NEW kind \in {"domain", "host"}, NEW says \in {"yes", "no"},
         Ads!Set(kind, says), choice' = says
  PROVE  JarTellsChoice'
<1> DEFINE c == [kind |-> kind, ads |-> says]
<1>0. c \in Cookie /\ c.ads = says /\ jar \in Seq(Cookie) /\ Len(jar) \in Nat /\ DOMAIN jar = 1..Len(jar)
  BY DEF Cookie, Answers, JarTellsChoice
<1>1. CASE kind \in Ads!Kinds
  <2>1. jar' = [i \in DOMAIN jar |-> IF jar[i].kind = kind THEN c ELSE jar[i]]
    BY <1>1 DEF Ads!Set
  <2> HIDE DEF c
  <2>2. jar' \in [1..Len(jar) -> Cookie]
    <3>1. \A i \in 1..Len(jar) : jar[i] \in Cookie
      BY <1>0
    <3> QED
      BY <1>0, <2>1, <3>1
  <2>3. jar' \in Seq(Cookie) /\ Len(jar') = Len(jar)
    BY <1>0, <2>2
  <2>4. PICK i \in DOMAIN jar : jar[i].kind = kind
    BY <1>1 DEF Ads!Kinds
  <2>5. Len(jar) # 0
    BY <1>0, <2>4
  <2>6. ASSUME Len(jar) = 1 PROVE jar'[1] = c
    <3>1. i = 1
      BY <1>0, <2>4, <2>6
    <3> QED
      BY <1>0, <2>1, <2>4, <2>6, <3>1
  <2> QED
    BY <1>0, <2>3, <2>5, <2>6 DEF JarTellsChoice, Answers
<1>2. CASE kind \notin Ads!Kinds
  <2>1. jar' = Append(jar, c)
    BY <1>2 DEF Ads!Set
  <2> HIDE DEF c
  <2>2. jar' \in Seq(Cookie) /\ Len(jar') = Len(jar) + 1 /\ jar'[Len(jar) + 1] = c
    BY <1>0, <2>1
  <2> QED
    BY <1>0, <2>2 DEF JarTellsChoice, Answers
<1> QED
  BY <1>1, <1>2

\* A step of a tab.
LEMMA TabKeepsConsent ==
  ASSUME ConsentInv, NEW t \in Page,
         \/ Ads!Ask(t) \/ Ads!NoAds(t) \/ Ads!SelectAd(t) \/ Ads!Beacon(t) \/ Ads!Click(t)
         \/ Ads!Leave(t) \/ \E says \in {"yes", "no"} : Ads!Choose(t, says)
  PROVE  ConsentInv'
<1> USE DEF AdsFollowConsent, Ads!AdsFollowConsent, Ads!consent, Ads!visitor
<1>0. /\ page[t] \in {Ads!Blank} \cup Asked \cup Opened /\ JarTellsChoice /\ strict \in BOOLEAN
      /\ page \in [Page -> {Ads!Blank} \cup Asked \cup Opened]
  BY DEF ConsentInv
<1>b. Ads!Blank.at = "blank" /\ (\A a \in Asked : a.at = "asked") /\ (\A a \in Opened : a.at = "page")
  BY DEF Ads!Blank, Asked, Opened
<1>1. ASSUME NEW p \in {Ads!Blank} \cup Asked \cup Opened, page' = [page EXCEPT ![t] = p],
             p.at = "asked" /\ ~p.both => p.cookie = p.chosen,
             p.at = "page" /\ p.ad # "none" =>
               p.chosen = "yes" \/ (p.chosen = "none" /\ ~strict) \/ p.both,
             JarTellsChoice', strict' = strict
      PROVE  ConsentInv'
  BY <1>1 DEF ConsentInv, AskedWithChoice
<1>2. CASE Ads!Ask(t)
  <2> DEFINE p == [at |-> "asked", cookie |-> Ads!LastCookie, chosen |-> choice, both |-> Len(jar) > 1]
  <2>1. page' = [page EXCEPT ![t] = p] /\ UNCHANGED <<jar, choice, strict>>
    BY <1>2 DEF Ads!Ask
  <2>2. JarTellsChoice'
    BY <1>0, <2>1 DEF JarTellsChoice
  <2>3. Ads!LastCookie \in Answers /\ (~(Len(jar) > 1) => Ads!LastCookie = choice)
    <3>1. jar \in Seq(Cookie) /\ Len(jar) \in Nat
      BY <1>0 DEF JarTellsChoice
    <3>2. CASE jar = << >>
      BY <1>0, <3>2 DEF JarTellsChoice, Ads!LastCookie, Answers
    <3>3. CASE jar # << >>
      <4>1. Len(jar) # 0 /\ jar[Len(jar)] \in Cookie /\ Ads!LastCookie = jar[Len(jar)].ads
        BY <3>1, <3>3 DEF Ads!LastCookie
      <4>2. Len(jar) = 1 => jar[1].ads = choice
        BY <1>0 DEF JarTellsChoice
      <4>3. Ads!LastCookie \in Answers
        BY <4>1 DEF Cookie, Answers
      <4>4. ~(Len(jar) > 1) => Len(jar) = 1
        <5>1. Len(jar) \in Nat /\ Len(jar) # 0
          BY <3>1, <4>1
        <5>2. \A n \in Nat : n # 0 /\ ~(n > 1) => n = 1
          OBVIOUS
        <5> QED
          BY ONLY <5>1, <5>2
      <4>5. ~(Len(jar) > 1) => Ads!LastCookie = choice
        BY <4>1, <4>2, <4>4
      <4> QED
        BY <4>3, <4>5
    <3> QED
      BY <3>2, <3>3
  <2>4. p \in Asked /\ p.at = "asked" /\ (~p.both => p.cookie = p.chosen)
    <3>1. choice \in Answers /\ (Len(jar) > 1) \in BOOLEAN
      BY <1>0 DEF JarTellsChoice
    <3>2. p.at = "asked" /\ p.cookie = Ads!LastCookie /\ p.chosen = choice /\ p.both = (Len(jar) > 1)
      OBVIOUS
    <3>3. p \in Asked
      BY <2>3, <3>1 DEF Asked
    <3> QED
      BY <2>3, <3>2, <3>3
  <2> HIDE DEF p
  <2> QED
    BY <1>1, <2>1, <2>2, <2>4
<1>3. ASSUME NEW ad \in Placement \cup {"none", "adsense"}, Ads!Shows(t, ad), page[t].at = "asked",
             ad # "none" => Ads!HasAdsConsent(page[t].cookie),
             UNCHANGED <<jar, choice, strict>>
      PROVE  ConsentInv'
  <2> DEFINE p == [at |-> "page", ad |-> ad, banner |-> Ads!FirstCookie = "none",
                   chosen |-> page[t].chosen, both |-> page[t].both]
  <2>1. page' = [page EXCEPT ![t] = p]
    BY <1>3 DEF Ads!Shows
  <2>2. page[t] \in Asked
    BY <1>0, <1>3, <1>b
  <2>3. p \in Opened /\ p.at = "page" /\ p.ad = ad /\ p.chosen = page[t].chosen /\ p.both = page[t].both
    BY <2>2 DEF Asked, Opened
  <2>4. ~page[t].both => page[t].cookie = page[t].chosen
    BY <1>3 DEF ConsentInv, AskedWithChoice
  <2>5. ad # "none" => page[t].chosen = "yes" \/ (page[t].chosen = "none" /\ ~strict) \/ page[t].both
    BY <1>3, <2>2, <2>4 DEF Ads!HasAdsConsent, Asked
  <2>6. JarTellsChoice'
    BY <1>0, <1>3 DEF JarTellsChoice
  <2> HIDE DEF p
  <2> QED
    BY <1>1, <1>3, <2>1, <2>3, <2>5, <2>6
<1>4. CASE Ads!NoAds(t)
  BY <1>3, <1>4 DEF Ads!NoAds
<1>5. CASE Ads!SelectAd(t)
  <2>1. Ads!Pick \subseteq Placement
    BY DEF Ads!Pick, Ads!Weighted, Ads!Eligible
  <2> QED
    BY <1>3, <1>5, <2>1 DEF Ads!SelectAd
<1>6. CASE Ads!Beacon(t) \/ Ads!Click(t)
  BY <1>6 DEF Ads!Beacon, Ads!Click, ConsentInv, JarTellsChoice, AskedWithChoice
<1>7. CASE Ads!Leave(t)
  <2>1. page' = [page EXCEPT ![t] = Ads!Blank] /\ UNCHANGED <<jar, choice, strict>>
    BY <1>7 DEF Ads!Leave
  <2>2. JarTellsChoice'
    BY <1>0, <2>1 DEF JarTellsChoice
  <2> QED
    BY <1>1, <1>b, <2>1, <2>2
<1>8. CASE \E says \in {"yes", "no"} : Ads!Choose(t, says)
  <2>1. PICK says \in {"yes", "no"} : Ads!Choose(t, says)
    BY <1>8
  <2> DEFINE p == [page[t] EXCEPT !.banner = FALSE]
  <2>2. page[t] \in Opened /\ page' = [page EXCEPT ![t] = p] /\ strict' = strict
    BY <1>0, <1>b, <2>1 DEF Ads!Choose
  <2>3. p \in Opened /\ p.at = "page" /\ p.ad = page[t].ad /\ p.chosen = page[t].chosen
        /\ p.both = page[t].both
    BY <2>2 DEF Opened
  <2>4. JarTellsChoice'
    BY <1>0, <2>1, SetTells DEF Ads!Choose
  <2> HIDE DEF p
  <2> QED
    BY <1>0, <1>1, <1>b, <2>2, <2>3, <2>4 DEF ConsentInv
<1> QED
  BY <1>2, <1>4, <1>5, <1>6, <1>7, <1>8

LEMMA ConsentStep == ConsentInv /\ [Next]_vars => ConsentInv'
<1> SUFFICES ASSUME ConsentInv, [Next]_vars PROVE ConsentInv'
  OBVIOUS
<1>1. ASSUME NEW p \in Placement,
             \/ Ads!CreatePlacement(p) \/ Ads!UpdatePlacement(p) \/ Ads!Toggle(p)
             \/ Ads!Delete(p) \/ Ads!DatePasses(p)
      PROVE  UNCHANGED <<strict, jar, choice, page>>
  BY <1>1 DEF Ads!CreatePlacement, Ads!UpdatePlacement, Ads!Toggle, Ads!Delete, Ads!DatePasses,
              Ads!Submit, Ads!consent, Ads!visitor
<1>2. CASE UNCHANGED <<strict, jar, choice, page>>
  BY <1>2 DEF ConsentInv, JarTellsChoice, AskedWithChoice, AdsFollowConsent, Ads!AdsFollowConsent
<1>3. CASE Ads!Next
  BY <1>1, <1>2, <1>3, TabKeepsConsent DEF Ads!Next
<1>4. Ads!Next \/ UNCHANGED <<strict, jar, choice, page>>
  BY DEF Next, vars, ads
<1> QED
  BY <1>2, <1>3, <1>4

\* A page with an advertisement was asked for after the visitor had accepted, or
\* before any choice where that is allowed, or with cookies of both kinds, for any
\* tabs and placements.
THEOREM ConsentIsFollowed == Spec => []AdsFollowConsent
<1>1. Init => ConsentInv
  BY ConsentInit DEF Init
<1>2. ConsentInv => AdsFollowConsent
  BY DEF ConsentInv
<1> QED
  BY <1>1, <1>2, ConsentStep, PTL DEF Spec
-----------------------------------------------------------------------------
(***************************************************************************)
(* Campaigns: a creation under way has a place kept for it, and what a     *)
(* deletion will take out unasked was put there after its count.           *)
(***************************************************************************)
Creating == {f \in Dialog : dialog[f].kind = "create"}
Passed == IF crowd > 0 THEN crowd - 1 ELSE 0

Job == {Campaigns!Idle} \cup [kind : {"create"}]
       \cup [kind : {"delete"}, campaign : Campaigns!Campaign, detach : BOOLEAN]
       \cup [kind : {"assign"}, link : Grouped, campaign : Campaigns!Campaign \cup {0}]

PlacesKept ==
  /\ IsFiniteSet(Creating) /\ Cardinality(Creating) <= crowd
  /\ IsFiniteSet(live) /\ Cardinality(live) + Cardinality(Creating) <= Cap + Passed

MovedSince ==
  \A f \in Dialog : dialog[f].kind = "delete" /\ ~dialog[f].detach =>
    Campaigns!In(dialog[f].campaign) \subseteq moved[f]

CampaignInv ==
  /\ made \in Nat /\ crowd \in Nat /\ live \subseteq 1..made
  /\ dialog \in [Dialog -> Job] /\ group \in [Grouped -> Nat] /\ moved \in [Dialog -> SUBSET Grouped]
  /\ PlacesKept /\ MovedSince /\ lost = {}

\* Campaigns counts with the cardinality of FiniteSets.
LEMMA SameCount == ASSUME NEW S PROVE Campaigns!Cardinality(S) = Cardinality(S)
BY DEF Campaigns!Cardinality, Cardinality

LEMMA JobKinds ==
  /\ \A j \in Job : j.kind = "create" => j \in [kind : {"create"}]
  /\ \A j \in Job : j.kind = "delete" =>
       j \in [kind : {"delete"}, campaign : Campaigns!Campaign, detach : BOOLEAN]
  /\ \A j \in Job : j.kind = "assign" =>
       j \in [kind : {"assign"}, link : Grouped, campaign : Campaigns!Campaign \cup {0}]
  /\ Campaigns!Idle \in Job /\ Campaigns!Idle.kind = "idle"
BY DEF Job, Campaigns!Idle

LEMMA CampaignInit == Campaigns!Init => CampaignInv
<1> SUFFICES ASSUME Campaigns!Init PROVE CampaignInv
  OBVIOUS
<1>1. dialog = [f \in Dialog |-> Campaigns!Idle] /\ made = 0 /\ crowd = 0 /\ live = {} /\ lost = {}
  BY DEF Campaigns!Init
<1>2. Creating = {}
  BY <1>1, JobKinds DEF Creating
<1>3. Cap \in Nat
  BY MCRequestsAssumption DEF Campaigns!CampaignsAssumption
<1>4. PlacesKept
  BY <1>1, <1>2, <1>3, FS_EmptySet DEF PlacesKept, Passed
<1>5. MovedSince
  BY <1>1, JobKinds DEF MovedSince
<1>6. group \in [Grouped -> Nat] /\ moved \in [Dialog -> SUBSET Grouped]
  BY DEF Campaigns!Init, Campaigns!NoCampaign
<1> QED
  BY <1>1, <1>4, <1>5, <1>6, JobKinds DEF CampaignInv

\* What a form that begins or ends leaves of the others.
LEMMA OthersKeep ==
  ASSUME CampaignInv, NEW f \in Dialog, NEW j \in Job, dialog' = [dialog EXCEPT ![f] = j]
  PROVE  /\ dialog' \in [Dialog -> Job] /\ dialog'[f] = j
         /\ \A g \in Dialog : g # f => dialog'[g] = dialog[g]
         /\ Creating' = IF j.kind = "create" THEN Creating \cup {f} ELSE Creating \ {f}
<1>1. dialog \in [Dialog -> Job]
  BY DEF CampaignInv
<1>2. dialog' \in [Dialog -> Job] /\ dialog'[f] = j /\ \A g \in Dialog : g # f => dialog'[g] = dialog[g]
  BY <1>1
<1> QED
  BY <1>2 DEF Creating

\* A place is given up, or was never kept.
LEMMA PlaceFreed ==
  ASSUME CampaignInv, NEW f \in Dialog, Creating' = Creating \ {f}, crowd' = crowd,
         live' \subseteq live
  PROVE  PlacesKept'
<1>0. Cap \in Nat /\ crowd \in Nat /\ IsFiniteSet(Creating) /\ IsFiniteSet(live) /\ Passed' = Passed
  BY MCRequestsAssumption DEF Campaigns!CampaignsAssumption, CampaignInv, PlacesKept, Passed
<1>1. IsFiniteSet(Creating') /\ Cardinality(Creating') <= Cardinality(Creating)
  BY <1>0, FS_Subset
<1>2. IsFiniteSet(live') /\ Cardinality(live') <= Cardinality(live)
  BY <1>0, FS_Subset
<1>3. /\ Cardinality(Creating) \in Nat /\ Cardinality(Creating') \in Nat
      /\ Cardinality(live) \in Nat /\ Cardinality(live') \in Nat
  BY <1>0, <1>1, <1>2, FS_CardinalityType
<1>4. Passed \in Nat
  BY <1>0 DEF Passed
<1>5. Cardinality(Creating) <= crowd /\ Cardinality(live) + Cardinality(Creating) <= Cap + Passed
  BY DEF CampaignInv, PlacesKept
<1> QED
  BY <1>0, <1>1, <1>2, <1>3, <1>4, <1>5 DEF PlacesKept

\* createCampaignAction.
LEMMA CreationKeeps ==
  ASSUME CampaignInv, NEW f \in Dialog, Campaigns!CreateCheck(f) \/ Campaigns!Create(f)
  PROVE  CampaignInv'
<1>0. /\ Cap \in Nat /\ crowd \in Nat /\ made \in Nat /\ IsFiniteSet(Creating) /\ IsFiniteSet(live)
      /\ dialog \in [Dialog -> Job] /\ Cardinality(Creating) <= crowd /\ live \subseteq 1..made
      /\ Cardinality(live) + Cardinality(Creating) <= Cap + Passed /\ MovedSince
      /\ group \in [Grouped -> Nat] /\ moved \in [Dialog -> SUBSET Grouped] /\ lost = {}
  BY MCRequestsAssumption DEF Campaigns!CampaignsAssumption, CampaignInv, PlacesKept
<1>n. Cardinality(Creating) \in Nat /\ Cardinality(live) \in Nat
  BY <1>0, FS_CardinalityType
<1>1. CASE Campaigns!CreateCheck(f)
  <2>1. /\ Cardinality(live) < Cap /\ dialog[f] = Campaigns!Idle
        /\ dialog' = [dialog EXCEPT ![f] = [kind |-> "create"]]
        /\ UNCHANGED <<live, made, group, moved, lost>>
    BY <1>1, SameCount DEF Campaigns!CreateCheck, Campaigns!UnderCap, Campaigns!Begins
  <2>2. [kind |-> "create"] \in Job
    BY DEF Job
  <2>3. /\ dialog' \in [Dialog -> Job] /\ dialog'[f] = [kind |-> "create"]
        /\ \A g \in Dialog : g # f => dialog'[g] = dialog[g]
        /\ Creating' = Creating \cup {f}
    BY <2>1, <2>2, OthersKeep
  <2>4. f \notin Creating
    BY <2>1, JobKinds DEF Creating
  <2>5. IsFiniteSet(Creating') /\ Cardinality(Creating') = Cardinality(Creating) + 1
    BY <1>0, <2>3, <2>4, FS_AddElement
  <2>6. crowd' = IF Cardinality(Creating') > crowd THEN Cardinality(Creating') ELSE crowd
    <3>1. Creating' = {g \in Dialog : dialog'[g].kind = "create"}
      BY DEF Creating
    <3>2. Campaigns!Cardinality(Creating') = Cardinality(Creating')
      BY SameCount
    <3> QED
      BY <1>1, <3>1, <3>2 DEF Campaigns!CreateCheck
  <2>7. crowd' \in Nat /\ Cardinality(Creating') <= crowd' /\ Passed' = crowd' - 1
    BY <1>0, <1>n, <2>5, <2>6 DEF Passed
  <2>8. Cardinality(live) + Cardinality(Creating') <= Cap + Passed'
    BY <1>0, <1>n, <2>1, <2>5, <2>7
  <2>9. PlacesKept'
    BY <1>0, <2>1, <2>5, <2>7, <2>8 DEF PlacesKept
  <2>10. MovedSince'
    BY <1>0, <2>1, <2>3 DEF MovedSince, Campaigns!In
  <2> QED
    BY <1>0, <2>1, <2>3, <2>7, <2>9, <2>10 DEF CampaignInv
<1>2. CASE Campaigns!Create(f)
  <2>1. /\ f \in Creating /\ made' = made + 1 /\ live' = live \cup {made + 1}
        /\ dialog' = [dialog EXCEPT ![f] = Campaigns!Idle]
        /\ UNCHANGED <<group, crowd, moved, lost>>
    BY <1>2 DEF Campaigns!Create, Campaigns!Ends, Creating
  <2>3. /\ dialog' \in [Dialog -> Job] /\ dialog'[f] = Campaigns!Idle
        /\ \A g \in Dialog : g # f => dialog'[g] = dialog[g]
        /\ Creating' = Creating \ {f}
    BY <2>1, OthersKeep, JobKinds
  <2>4. IsFiniteSet(Creating') /\ Cardinality(Creating') = Cardinality(Creating) - 1
    BY <1>0, <2>1, <2>3, FS_RemoveElement
  <2>5. IsFiniteSet(live') /\ Cardinality(live') = Cardinality(live) + 1
    <3>1. made + 1 \notin live
      BY <1>0
    <3> QED
      BY <1>0, <2>1, <3>1, FS_AddElement
  <2>6. live' \subseteq 1..made' /\ made' \in Nat
    BY <1>0, <2>1
  <2>7. Passed' = Passed /\ Passed \in Nat
    BY <1>0, <2>1 DEF Passed
  <2>8. PlacesKept'
    BY <1>0, <1>n, <2>1, <2>4, <2>5, <2>7 DEF PlacesKept
  <2>9. MovedSince'
    BY <1>0, <2>1, <2>3, JobKinds DEF MovedSince, Campaigns!In
  <2> QED
    BY <1>0, <2>1, <2>3, <2>6, <2>8, <2>9 DEF CampaignInv
<1> QED
  BY <1>1, <1>2

\* deleteCampaignAction.
LEMMA DeletionKeeps ==
  ASSUME CampaignInv, NEW f \in Dialog,
         \/ Campaigns!Delete(f)
         \/ \E k \in Campaigns!Campaign, detach \in BOOLEAN : Campaigns!DeleteCheck(f, k, detach)
  PROVE  CampaignInv'
<1>0. /\ crowd \in Nat /\ made \in Nat /\ dialog \in [Dialog -> Job] /\ live \subseteq 1..made
      /\ MovedSince /\ group \in [Grouped -> Nat] /\ moved \in [Dialog -> SUBSET Grouped] /\ lost = {}
  BY DEF CampaignInv
<1>1. ASSUME NEW k \in Campaigns!Campaign, NEW detach \in BOOLEAN, Campaigns!DeleteCheck(f, k, detach)
      PROVE  CampaignInv'
  <2> DEFINE j == [kind |-> "delete", campaign |-> k, detach |-> detach]
  <2>1. /\ Campaigns!In(k) = {} \/ detach
        /\ dialog' = [dialog EXCEPT ![f] = j] /\ moved' = [moved EXCEPT ![f] = {}]
        /\ UNCHANGED <<live, made, group, crowd, lost>>
    BY <1>1 DEF Campaigns!DeleteCheck, Campaigns!Begins
  <2>2. j \in Job /\ j.kind = "delete" /\ j.campaign = k /\ j.detach = detach
    BY DEF Job
  <2> HIDE DEF j
  <2>3. /\ dialog' \in [Dialog -> Job] /\ dialog'[f] = j
        /\ \A g \in Dialog : g # f => dialog'[g] = dialog[g]
        /\ Creating' = Creating \ {f}
    BY <2>1, <2>2, OthersKeep
  <2>4. PlacesKept'
    BY <2>1, <2>3, PlaceFreed
  <2>5. moved' \in [Dialog -> SUBSET Grouped] /\ \A g \in Dialog : g # f => moved'[g] = moved[g]
    BY <1>0, <2>1
  <2>6. MovedSince'
    <3> SUFFICES ASSUME NEW g \in Dialog, dialog'[g].kind = "delete", ~dialog'[g].detach
                 PROVE  Campaigns!In(dialog'[g].campaign) \subseteq moved'[g]
      BY <2>1 DEF MovedSince, Campaigns!In
    <3>1. CASE g = f
      BY <2>1, <2>2, <2>3, <3>1
    <3>2. CASE g # f
      BY <1>0, <2>3, <2>5, <3>2 DEF MovedSince
    <3> QED
      BY <3>1, <3>2
  <2> QED
    BY <1>0, <2>1, <2>3, <2>4, <2>5, <2>6 DEF CampaignInv
<1>2. CASE Campaigns!Delete(f)
  <2> DEFINE k == dialog[f].campaign
  <2>1. /\ dialog[f].kind = "delete" /\ live' = live \ {k}
        /\ group' = [l \in Grouped |-> IF group[l] = k THEN 0 ELSE group[l]]
        /\ lost' = IF dialog[f].detach THEN lost ELSE lost \cup (Campaigns!In(k) \ moved[f])
        /\ dialog' = [dialog EXCEPT ![f] = Campaigns!Idle]
        /\ UNCHANGED <<made, crowd, moved>>
    BY <1>2 DEF Campaigns!Delete, Campaigns!Ends, Campaigns!NoCampaign
  <2>2. lost' = {}
    <3>1. ~dialog[f].detach => Campaigns!In(k) \subseteq moved[f]
      BY <1>0, <2>1 DEF MovedSince
    <3> QED
      BY <1>0, <2>1, <3>1
  <2> HIDE DEF k
  <2>3. /\ dialog' \in [Dialog -> Job] /\ dialog'[f] = Campaigns!Idle
        /\ \A g \in Dialog : g # f => dialog'[g] = dialog[g]
        /\ Creating' = Creating \ {f}
    BY <2>1, OthersKeep, JobKinds
  <2>4. PlacesKept' /\ live' \subseteq 1..made
    BY <1>0, <2>1, <2>3, PlaceFreed
  <2>5. group' \in [Grouped -> Nat]
    BY <1>0, <2>1
  <2>6. MovedSince'
    <3> SUFFICES ASSUME NEW g \in Dialog, dialog'[g].kind = "delete", ~dialog'[g].detach,
                        NEW l \in Grouped, group'[l] = dialog'[g].campaign
                 PROVE  l \in moved[g]
      BY <2>1 DEF MovedSince, Campaigns!In
    <3>1. g # f /\ dialog'[g] = dialog[g]
      BY <2>3, JobKinds
    <3>2. dialog[g].campaign # 0
      <4>1. dialog[g].campaign \in Campaigns!Campaign
        BY <1>0, <3>1, JobKinds
      <4> QED
        BY <4>1 DEF Campaigns!Campaign
    <3>3. group[l] = dialog[g].campaign
      BY <2>1, <3>1, <3>2
    <3> QED
      BY <1>0, <3>1, <3>3 DEF MovedSince, Campaigns!In
  <2> QED
    BY <1>0, <2>1, <2>2, <2>3, <2>4, <2>5, <2>6 DEF CampaignInv
<1> QED
  BY <1>1, <1>2

\* A link put into a campaign is noted by every form.
LEMMA PutKeeps ==
  ASSUME CampaignInv, NEW l \in Grouped, NEW k \in Nat,
         group' = [group EXCEPT ![l] = k], Campaigns!Puts(l),
         \A g \in Dialog : dialog'[g].kind = "delete" => dialog'[g] = dialog[g]
  PROVE  group' \in [Grouped -> Nat] /\ moved' \in [Dialog -> SUBSET Grouped] /\ MovedSince'
<1>0. MovedSince /\ group \in [Grouped -> Nat] /\ moved \in [Dialog -> SUBSET Grouped]
  BY DEF CampaignInv
<1>1. group' \in [Grouped -> Nat] /\ moved' \in [Dialog -> SUBSET Grouped]
  BY <1>0 DEF Campaigns!Puts
<1>2. MovedSince'
  <2> SUFFICES ASSUME NEW g \in Dialog, dialog'[g].kind = "delete", ~dialog'[g].detach,
                      NEW m \in Grouped, group'[m] = dialog'[g].campaign
               PROVE  m \in moved'[g]
    BY DEF MovedSince, Campaigns!In
  <2>1. moved'[g] = moved[g] \cup {l}
    BY DEF Campaigns!Puts
  <2>2. CASE m = l
    BY <2>1, <2>2
  <2>3. CASE m # l
    <3>1. group[m] = dialog[g].campaign
      BY <1>0, <2>3
    <3> QED
      BY <1>0, <2>1, <3>1 DEF MovedSince, Campaigns!In
  <2> QED
    BY <2>2, <2>3
<1> QED
  BY <1>1, <1>2

\* assignLinkCampaignAction and createPowerLinkAction.
LEMMA AssignmentKeeps ==
  ASSUME CampaignInv,
         \/ \E f \in Dialog : Campaigns!Assign(f)
         \/ \E f \in Dialog, l \in Grouped, k \in Campaigns!Campaign \cup {0} :
              Campaigns!AssignCheck(f, l, k)
         \/ \E l \in Grouped, k \in Campaigns!Campaign \cup {0} : Campaigns!NewLink(l, k)
  PROVE  CampaignInv'
<1>0. /\ crowd \in Nat /\ made \in Nat /\ dialog \in [Dialog -> Job] /\ live \subseteq 1..made
      /\ PlacesKept /\ MovedSince /\ group \in [Grouped -> Nat]
      /\ moved \in [Dialog -> SUBSET Grouped] /\ lost = {}
  BY DEF CampaignInv
<1>c. Campaigns!Campaign \cup {0} \subseteq Nat
  BY DEF Campaigns!Campaign
<1>1. ASSUME NEW f \in Dialog, Campaigns!Assign(f) PROVE CampaignInv'
  <2>1. /\ dialog[f] \in [kind : {"assign"}, link : Grouped, campaign : Campaigns!Campaign \cup {0}]
        /\ dialog' = [dialog EXCEPT ![f] = Campaigns!Idle]
        /\ UNCHANGED <<live, made, crowd, lost>>
    BY <1>0, <1>1, JobKinds DEF Campaigns!Assign, Campaigns!Ends
  <2>2. dialog[f].link \in Grouped /\ dialog[f].campaign \in Nat
    BY <1>c, <2>1
  <2>3. /\ dialog' \in [Dialog -> Job] /\ dialog'[f] = Campaigns!Idle
        /\ \A g \in Dialog : g # f => dialog'[g] = dialog[g]
        /\ Creating' = Creating \ {f}
    BY <2>1, OthersKeep, JobKinds
  <2>4. PlacesKept'
    BY <2>1, <2>3, PlaceFreed
  <2>5. \A g \in Dialog : dialog'[g].kind = "delete" => dialog'[g] = dialog[g]
    BY <2>3, JobKinds
  <2>6. \/ /\ group' = [group EXCEPT ![dialog[f].link] = dialog[f].campaign]
           /\ Campaigns!Puts(dialog[f].link)
        \/ UNCHANGED <<group, moved>>
    BY <1>1 DEF Campaigns!Assign
  <2>7. CASE UNCHANGED <<group, moved>>
    <3>1. MovedSince'
      BY <1>0, <2>5, <2>7 DEF MovedSince, Campaigns!In
    <3> QED
      BY <1>0, <2>1, <2>3, <2>4, <2>7, <3>1 DEF CampaignInv
  <2>8. CASE group' = [group EXCEPT ![dialog[f].link] = dialog[f].campaign]
             /\ Campaigns!Puts(dialog[f].link)
    <3>1. group' \in [Grouped -> Nat] /\ moved' \in [Dialog -> SUBSET Grouped] /\ MovedSince'
      BY <2>2, <2>5, <2>8, PutKeeps
    <3> QED
      BY <1>0, <2>1, <2>3, <2>4, <3>1 DEF CampaignInv
  <2> QED
    BY <2>6, <2>7, <2>8
<1>2. ASSUME NEW f \in Dialog, NEW l \in Grouped, NEW k \in Campaigns!Campaign \cup {0},
             Campaigns!AssignCheck(f, l, k)
      PROVE  CampaignInv'
  <2> DEFINE j == [kind |-> "assign", link |-> l, campaign |-> k]
  <2>1. dialog' = [dialog EXCEPT ![f] = j] /\ UNCHANGED <<live, made, group, crowd, moved, lost>>
    BY <1>2 DEF Campaigns!AssignCheck, Campaigns!Begins
  <2>2. j \in Job /\ j.kind = "assign"
    BY DEF Job
  <2> HIDE DEF j
  <2>3. /\ dialog' \in [Dialog -> Job] /\ dialog'[f] = j
        /\ \A g \in Dialog : g # f => dialog'[g] = dialog[g]
        /\ Creating' = Creating \ {f}
    BY <2>1, <2>2, OthersKeep
  <2>4. PlacesKept'
    BY <2>1, <2>3, PlaceFreed
  <2>5. MovedSince'
    BY <1>0, <2>1, <2>2, <2>3 DEF MovedSince, Campaigns!In
  <2> QED
    BY <1>0, <2>1, <2>3, <2>4, <2>5 DEF CampaignInv
<1>3. ASSUME NEW l \in Grouped, NEW k \in Campaigns!Campaign \cup {0}, Campaigns!NewLink(l, k)
      PROVE  CampaignInv'
  <2>1. /\ group' = [group EXCEPT ![l] = k] /\ Campaigns!Puts(l)
        /\ UNCHANGED <<live, made, dialog, crowd, lost>>
    BY <1>3 DEF Campaigns!NewLink
  <2>2. group' \in [Grouped -> Nat] /\ moved' \in [Dialog -> SUBSET Grouped] /\ MovedSince'
    BY <1>c, <2>1, PutKeeps
  <2>3. PlacesKept'
    BY <1>0, <2>1 DEF PlacesKept, Passed, Creating
  <2> QED
    BY <1>0, <2>1, <2>2, <2>3 DEF CampaignInv
<1> QED
  BY <1>1, <1>2, <1>3

LEMMA CampaignStep == CampaignInv /\ [Next]_vars => CampaignInv'
<1> SUFFICES ASSUME CampaignInv, [Next]_vars PROVE CampaignInv'
  OBVIOUS
<1>1. CASE UNCHANGED campaigns
  BY <1>1 DEF campaigns, CampaignInv, PlacesKept, Passed, Creating, MovedSince, Campaigns!In
<1>2. CASE Campaigns!Next
  BY <1>2, CreationKeeps, DeletionKeeps, AssignmentKeeps DEF Campaigns!Next, Campaigns!NoCampaign
<1>3. Campaigns!Next \/ UNCHANGED campaigns
  BY DEF Next, vars
<1> QED
  BY <1>1, <1>2, <1>3

\* The cap of a plan is passed by no more creations than were under way together
\* with another, and a deletion takes no link out unasked that was in the campaign
\* when the links were counted, for any cap and any number of forms.
THEOREM CampaignsAreKept == Spec => []CampaignsKept
<1>1. Init => CampaignInv
  BY CampaignInit DEF Init
<1>2. CampaignInv => CampaignsKept
  <2> SUFFICES ASSUME CampaignInv PROVE CampaignsKept
    OBVIOUS
  <2>1. /\ Cap \in Nat /\ crowd \in Nat /\ IsFiniteSet(Creating) /\ IsFiniteSet(live)
        /\ Cardinality(live) + Cardinality(Creating) <= Cap + Passed /\ lost = {}
    BY MCRequestsAssumption DEF Campaigns!CampaignsAssumption, CampaignInv, PlacesKept
  <2>2. Cardinality(Creating) \in Nat /\ Cardinality(live) \in Nat
    BY <2>1, FS_CardinalityType
  <2> QED
    BY <2>1, <2>2, SameCount DEF CampaignsKept, Campaigns!CampaignsKept, Passed
<1> QED
  BY <1>1, <1>2, CampaignStep, PTL DEF Spec
-----------------------------------------------------------------------------
(***************************************************************************)
(* Prices: an open page shows what is asked, but for the cells edited      *)
(* since, and the billing page in the currency of the country unless told  *)
(* otherwise.                                                              *)
(***************************************************************************)
Closed == [page : {"closed"}]
Open == [page : {"pricing", "billing"}, currency : Prices!Currency,
         price : [Item -> [Prices!Currency -> Int]], edited : SUBSET (Item \X Prices!Currency),
         agrees : BOOLEAN]
Paying == [page : {"checkout"}, item : Item, currency : Prices!Currency,
           asked : [by : {"site", "provider"}, amount : Int],
           shownCurrency : Prices!Currency, shownAmount : Int, edited : BOOLEAN, agreed : BOOLEAN]

ShownHolds(s) ==
  s \in Open =>
    /\ \A i \in Item, c \in Prices!Currency :
         <<i, c>> \notin s.edited => s.price[i][c] = Prices!Effective(i, c)
    /\ s.page = "billing" /\ s.agrees => s.currency = Prices!CurrencyOf(country)

AskedHolds(s) ==
  s \in Paying =>
    /\ s.agreed => s.currency = s.shownCurrency
    /\ s.currency = s.shownCurrency /\ s.asked.by = "site" /\ ~s.edited
         => s.asked.amount = s.shownAmount

PriceInv ==
  /\ override \in [Item -> [Prices!Currency -> Int]]
  /\ country \in Prices!Country /\ paidIn \in {"none"} \cup Prices!Currency
  /\ screen \in [Screen -> Closed \cup Open \cup Paying]
  /\ \A t \in Screen : ShownHolds(screen[t]) /\ AskedHolds(screen[t])

LEMMA PriceTypes ==
  /\ \A i \in Item, c \in Prices!Currency :
       override \in [Item -> [Prices!Currency -> Int]] => Prices!Effective(i, c) \in Int
  /\ \A place : Prices!CurrencyOf(place) \in Prices!Currency
  /\ \A i \in Item, c \in Prices!Currency : Default[i][c] \in Int /\ ProviderPrice[i][c] \in Int
  /\ \A s \in Closed : s.page = "closed"
  /\ \A s \in Open : s.page \in {"pricing", "billing"}
  /\ \A s \in Paying : s.page = "checkout"
<1>1. \A i \in Item, c \in Prices!Currency : Default[i][c] \in Int /\ ProviderPrice[i][c] \in Int
  BY MCRequestsAssumption DEF Prices!PricesAssumption
<1>2. \A i \in Item, c \in Prices!Currency :
        override \in [Item -> [Prices!Currency -> Int]] => Prices!Effective(i, c) \in Int
  BY <1>1 DEF Prices!Effective
<1>3. \A place : Prices!CurrencyOf(place) \in Prices!Currency
  BY DEF Prices!CurrencyOf, Prices!Currency
<1> QED
  BY <1>1, <1>2, <1>3 DEF Closed, Open, Paying

LEMMA PriceInit == Prices!Init => PriceInv
<1> SUFFICES ASSUME Prices!Init PROVE PriceInv
  OBVIOUS
<1>1. screen \in [Screen -> Closed]
  BY DEF Prices!Init, Prices!Closed, Closed
<1>2. \A t \in Screen : ShownHolds(screen[t]) /\ AskedHolds(screen[t])
  BY <1>1, PriceTypes DEF ShownHolds, AskedHolds
<1>3. override \in [Item -> [Prices!Currency -> Int]] /\ country \in Prices!Country /\ paidIn = "none"
  BY DEF Prices!Init, Prices!None
<1> QED
  BY <1>1, <1>2, <1>3 DEF PriceInv

\* One tab changes, and neither a price nor the country.
LEMMA ScreenChanges ==
  ASSUME PriceInv, NEW t \in Screen, NEW s \in Closed \cup Open \cup Paying,
         screen' = [screen EXCEPT ![t] = s], ShownHolds(s), AskedHolds(s),
         UNCHANGED <<override, country>>, paidIn' \in {"none"} \cup Prices!Currency
  PROVE  PriceInv'
<1>1. /\ override' = override /\ country' = country
      /\ \A u \in Screen : screen'[u] = s \/ screen'[u] = screen[u]
  BY DEF PriceInv
<1>2. \A u \in Screen : ShownHolds(screen'[u]) /\ AskedHolds(screen'[u])
  BY <1>1 DEF PriceInv
<1>3. \A u \in Screen : ShownHolds(screen[u])' /\ AskedHolds(screen[u])'
  BY <1>1, <1>2 DEF ShownHolds, AskedHolds, Prices!Effective
<1> QED
  BY <1>1, <1>3 DEF PriceInv

\* A page is rendered with what holds.
LEMMA RenderKeeps ==
  ASSUME PriceInv, NEW t \in Screen, NEW kind \in {"pricing", "billing"}, NEW c \in Prices!Currency,
         Prices!Render(t, Prices!Shows(kind, c))
  PROVE  PriceInv'
<1> DEFINE price == [i \in Item |-> [d \in Prices!Currency |-> Prices!Effective(i, d)]]
           s == Prices!Shows(kind, c)
<1>0. override \in [Item -> [Prices!Currency -> Int]]
  BY DEF PriceInv
<1>1. price \in [Item -> [Prices!Currency -> Int]]
  BY <1>0, PriceTypes
<1>2. \A i \in Item, d \in Prices!Currency : price[i][d] = Prices!Effective(i, d)
  OBVIOUS
<1>3. s = [page |-> kind, currency |-> c, price |-> price, edited |-> {},
           agrees |-> c = Prices!CurrencyOf(country)]
  BY DEF Prices!Shows
<1> HIDE DEF price, s
<1>4. /\ s.page = kind /\ s.currency = c /\ s.price = price /\ s.edited = {}
      /\ s.agrees = (c = Prices!CurrencyOf(country)) /\ s \in Open
  BY <1>1, <1>3 DEF Open
<1>5. ShownHolds(s)
  BY <1>2, <1>4 DEF ShownHolds
<1>6. AskedHolds(s)
  BY <1>4, PriceTypes DEF AskedHolds
<1>7. screen' = [screen EXCEPT ![t] = s] /\ UNCHANGED <<override, country, paidIn>>
  BY DEF Prices!Render, s
<1> QED
  BY <1>4, <1>5, <1>6, <1>7, ScreenChanges DEF PriceInv

\* startCheckoutAction asks for what its page showed.
LEMMA SubmitKeeps ==
  ASSUME PriceInv, NEW t \in Screen, NEW i \in Item, Prices!Submit(t, i)
  PROVE  PriceInv'
<1> DEFINE c == Prices!CurrencyOf(country)
           shown == screen[t]
           s == [page |-> "checkout", item |-> i, currency |-> c, asked |-> Prices!Asks(i, c),
                 shownCurrency |-> shown.currency, shownAmount |-> shown.price[i][shown.currency],
                 edited |-> <<i, c>> \in shown.edited, agreed |-> shown.agrees]
<1>0. /\ shown \in Open /\ shown.page = "billing" /\ ShownHolds(shown)
      /\ override \in [Item -> [Prices!Currency -> Int]]
  BY PriceTypes DEF PriceInv, Prices!Submit
<1>1. screen' = [screen EXCEPT ![t] = s] /\ UNCHANGED <<override, country, paidIn>>
  BY DEF Prices!Submit
<1>c. c \in Prices!Currency
  BY PriceTypes
<1>2. /\ shown.currency \in Prices!Currency /\ shown.price \in [Item -> [Prices!Currency -> Int]]
      /\ shown.agrees \in BOOLEAN
      /\ shown.agrees => shown.currency = c
      /\ <<i, c>> \notin shown.edited => shown.price[i][c] = Prices!Effective(i, c)
  BY <1>0, <1>c DEF Open, ShownHolds
<1>3. /\ Prices!Asks(i, c) \in [by : {"site", "provider"}, amount : Int]
      /\ Prices!Asks(i, c).by = "site" => Prices!Asks(i, c).amount = Prices!Effective(i, c)
  BY <1>0, <1>c, PriceTypes DEF Prices!Asks
<1>4. /\ s.asked = Prices!Asks(i, c) /\ s.currency = c /\ s.shownCurrency = shown.currency
      /\ s.shownAmount = shown.price[i][shown.currency] /\ s.agreed = shown.agrees
      /\ s.edited = (<<i, c>> \in shown.edited)
  OBVIOUS
<1>5. s \in Paying
  <2>1. (<<i, c>> \in shown.edited) \in BOOLEAN /\ shown.price[i][shown.currency] \in Int
    BY <1>2
  <2> QED
    BY <1>2, <1>3, <1>c, <2>1 DEF Paying
<1> HIDE DEF s, shown, c
<1>6. AskedHolds(s)
  BY <1>2, <1>3, <1>4 DEF AskedHolds
<1>7. ShownHolds(s)
  BY <1>5, PriceTypes DEF ShownHolds
<1> QED
  BY <1>1, <1>5, <1>6, <1>7, ScreenChanges DEF PriceInv

\* The switch of the public page, and the payment.
LEMMA ToggleAndPayKeep ==
  ASSUME PriceInv, NEW t \in Screen,
         Prices!Pay(t) \/ \E c \in Prices!Currency : Prices!Toggle(t, c)
  PROVE  PriceInv'
<1>0. screen[t] \in Closed \cup Open \cup Paying /\ ShownHolds(screen[t])
  BY DEF PriceInv
<1>1. CASE Prices!Pay(t)
  <2>1. screen[t] \in Paying /\ Prices!Closed \in Closed
    BY <1>0, <1>1, PriceTypes DEF Prices!Pay, Prices!Closed, Closed
  <2>2. /\ screen' = [screen EXCEPT ![t] = Prices!Closed] /\ paidIn' \in Prices!Currency
        /\ UNCHANGED <<override, country>>
    BY <1>1, <2>1 DEF Prices!Pay, Paying
  <2>3. ShownHolds(Prices!Closed) /\ AskedHolds(Prices!Closed)
    BY <2>1, PriceTypes DEF ShownHolds, AskedHolds
  <2> QED
    BY <2>1, <2>2, <2>3, ScreenChanges
<1>2. ASSUME NEW c \in Prices!Currency, Prices!Toggle(t, c) PROVE PriceInv'
  <2> DEFINE s == [screen[t] EXCEPT !.currency = c]
  <2>1. screen[t] \in Open /\ screen[t].page = "pricing"
    BY <1>0, <1>2, PriceTypes DEF Prices!Toggle
  <2>2. s \in Open /\ s.page = "pricing" /\ s.price = screen[t].price /\ s.edited = screen[t].edited
    BY <2>1 DEF Open
  <2>3. screen' = [screen EXCEPT ![t] = s] /\ UNCHANGED <<override, country, paidIn>>
    BY <1>2 DEF Prices!Toggle
  <2> HIDE DEF s
  <2>4. ShownHolds(s)
    BY <1>0, <2>1, <2>2 DEF ShownHolds
  <2>5. AskedHolds(s)
    BY <2>2, PriceTypes DEF AskedHolds
  <2> QED
    BY <2>2, <2>3, <2>4, <2>5, ScreenChanges DEF PriceInv
<1> QED
  BY <1>1, <1>2

\* adminUpsertPlanPriceAction: one cell changes, and every open page notes it.
LEMMA EditKeeps ==
  ASSUME PriceInv, NEW i \in Item, NEW c \in Prices!Currency, NEW a \in Int, Prices!Edit(i, c, a)
  PROVE  PriceInv'
<1>0. /\ override \in [Item -> [Prices!Currency -> Int]] /\ country' = country /\ paidIn' = paidIn
      /\ country \in Prices!Country /\ paidIn \in {"none"} \cup Prices!Currency
      /\ override' = [override EXCEPT ![i][c] = a]
  BY DEF PriceInv, Prices!Edit
<1>1. /\ override' \in [Item -> [Prices!Currency -> Int]]
      /\ \A j \in Item, d \in Prices!Currency : <<j, d>> # <<i, c>> => override'[j][d] = override[j][d]
  BY <1>0
<1>2. \A j \in Item, d \in Prices!Currency :
        <<j, d>> # <<i, c>> => Prices!Effective(j, d)' = Prices!Effective(j, d)
  BY <1>1 DEF Prices!Effective
<1>3. \A t \in Screen : /\ screen'[t] \in Closed \cup Open \cup Paying
                        /\ ShownHolds(screen[t])' /\ AskedHolds(screen[t])'
  <2> SUFFICES ASSUME NEW t \in Screen
               PROVE  /\ screen'[t] \in Closed \cup Open \cup Paying
                      /\ ShownHolds(screen[t])' /\ AskedHolds(screen[t])'
    OBVIOUS
  <2>0. screen[t] \in Closed \cup Open \cup Paying /\ ShownHolds(screen[t]) /\ AskedHolds(screen[t])
    BY DEF PriceInv
  <2>1. CASE screen[t] \in Open
    <3> DEFINE s == [screen[t] EXCEPT !.edited = @ \cup {<<i, c>>}]
    <3>1. screen'[t] = s
      BY <2>1, PriceTypes DEF Prices!Edit, Prices!Noted
    <3>2. /\ s \in Open /\ s.page = screen[t].page /\ s.price = screen[t].price
          /\ s.currency = screen[t].currency /\ s.agrees = screen[t].agrees
          /\ s.edited = screen[t].edited \cup {<<i, c>>}
      BY <2>1 DEF Open
    <3> HIDE DEF s
    <3>3. \A j \in Item, d \in Prices!Currency :
            <<j, d>> \notin s.edited => s.price[j][d] = Prices!Effective(j, d)'
      BY <1>2, <2>0, <2>1, <3>2 DEF ShownHolds
    <3>4. s.page = "billing" /\ s.agrees => s.currency = Prices!CurrencyOf(country)'
      BY <1>0, <2>0, <2>1, <3>2 DEF ShownHolds
    <3>5. s.page # "checkout"
      BY <3>2, PriceTypes
    <3> QED
      BY <3>1, <3>2, <3>3, <3>4, <3>5, PriceTypes DEF ShownHolds, AskedHolds
  <2>2. CASE screen[t] \notin Open
    <3>1. screen'[t] = screen[t]
      BY <2>0, <2>2, PriceTypes DEF Prices!Edit, Prices!Noted
    <3> QED
      BY <2>0, <2>2, <3>1 DEF ShownHolds, AskedHolds
  <2> QED
    BY <2>1, <2>2
<1>4. screen' \in [Screen -> Closed \cup Open \cup Paying]
  BY <1>3 DEF Prices!Edit, Prices!Noted
<1> QED
  BY <1>0, <1>1, <1>3, <1>4 DEF PriceInv

\* The country changes, and every open page notes it.
LEMMA MoveKeeps == ASSUME PriceInv, Prices!Move PROVE PriceInv'
<1>0. /\ override' = override /\ paidIn' = paidIn /\ country' \in Prices!Country
      /\ override \in [Item -> [Prices!Currency -> Int]] /\ paidIn \in {"none"} \cup Prices!Currency
  BY DEF PriceInv, Prices!Move
<1>1. \A t \in Screen : /\ screen'[t] \in Closed \cup Open \cup Paying
                        /\ ShownHolds(screen[t])' /\ AskedHolds(screen[t])'
  <2> SUFFICES ASSUME NEW t \in Screen
               PROVE  /\ screen'[t] \in Closed \cup Open \cup Paying
                      /\ ShownHolds(screen[t])' /\ AskedHolds(screen[t])'
    OBVIOUS
  <2>0. screen[t] \in Closed \cup Open \cup Paying /\ ShownHolds(screen[t]) /\ AskedHolds(screen[t])
    BY DEF PriceInv
  <2>1. CASE screen[t] \in Open
    <3> DEFINE s == [screen[t] EXCEPT !.agrees = FALSE]
    <3>1. screen'[t] = s
      BY <2>1, PriceTypes DEF Prices!Move
    <3>2. s \in Open /\ s.price = screen[t].price /\ s.edited = screen[t].edited /\ s.agrees = FALSE
      BY <2>1 DEF Open
    <3> HIDE DEF s
    <3>3. s \notin Paying
      BY <3>2, PriceTypes
    <3> QED
      BY <1>0, <2>0, <2>1, <3>1, <3>2, <3>3 DEF ShownHolds, AskedHolds, Prices!Effective
  <2>2. CASE screen[t] \notin Open
    <3>1. screen'[t] = screen[t]
      BY <2>0, <2>2, PriceTypes DEF Prices!Move
    <3> QED
      BY <2>0, <2>2, <3>1 DEF ShownHolds, AskedHolds
  <2> QED
    BY <2>1, <2>2
<1>2. screen' \in [Screen -> Closed \cup Open \cup Paying]
  BY <1>1 DEF Prices!Move
<1> QED
  BY <1>0, <1>1, <1>2 DEF PriceInv

LEMMA PriceStep == PriceInv /\ [Next]_vars => PriceInv'
<1> SUFFICES ASSUME PriceInv, [Next]_vars PROVE PriceInv'
  OBVIOUS
<1>1. CASE UNCHANGED prices
  BY <1>1 DEF prices, PriceInv, ShownHolds, AskedHolds, Prices!Effective
<1>2. ASSUME NEW i \in Item, NEW c \in Prices!Currency,
             Prices!ClearOverride(i, c) \/ \E a \in Amount : Prices!SetOverride(i, c, a)
      PROVE  PriceInv'
  <2>1. Amount \subseteq Int /\ Prices!None \in Int
    BY MCRequestsAssumption DEF Prices!PricesAssumption, Prices!None
  <2> QED
    BY <1>2, <2>1, EditKeeps DEF Prices!ClearOverride, Prices!SetOverride
<1>3. ASSUME NEW t \in Screen,
             Prices!OpenPricing(t) \/ Prices!Follow(t) \/ Prices!OpenBilling(t) \/ Prices!Refused(t)
      PROVE  PriceInv'
  <2>1. \A k : Prices!CurrencyOf(k) \in Prices!Currency
    BY PriceTypes
  <2>2. (IF paidIn # "none" THEN paidIn ELSE Prices!CurrencyOf(country)) \in Prices!Currency
    BY <2>1 DEF PriceInv
  <2> QED
    BY <1>3, <2>1, <2>2, RenderKeeps
    DEF Prices!OpenPricing, Prices!Follow, Prices!OpenBilling, Prices!Refused
<1>4. CASE Prices!Next
  <2>1. \A cell \in Prices!Cell : cell[1] \in Item /\ cell[2] \in Prices!Currency
    BY DEF Prices!Cell
  <2> QED
    BY <1>2, <1>3, <1>4, <2>1, SubmitKeeps, ToggleAndPayKeep, MoveKeeps DEF Prices!Next
<1>5. Prices!Next \/ UNCHANGED prices
  BY DEF Next, vars
<1> QED
  BY <1>1, <1>4, <1>5

\* What a buyer is asked for differs from what the billing page showed only for a
\* reason: a subscription in another currency, a country or a price that changed
\* while the page was open, or a price that the provider keeps, for any items, prices
\* and tabs.
THEOREM AskedIsShown == Spec => []AskedAsShown
<1>1. Init => PriceInv
  BY PriceInit DEF Init
<1>2. PriceInv => AskedAsShown
  BY PriceTypes DEF PriceInv, AskedHolds, AskedAsShown, Prices!AskedAsShown
<1> QED
  BY <1>1, <1>2, PriceStep, PTL DEF Spec
-----------------------------------------------------------------------------
(***************************************************************************)
(* Limits: every hit let through is still logged, under a score that tells *)
(* its time but for clocks and delay, or lies a window back less that much.*)
(***************************************************************************)
Slack == Limits!Skew + Delay

\* A script that is under way was sent not long ago, and carries its clock.
SentLately ==
  \A c \in Caller : \A b \in DOMAIN hitting[c] : hitting[c][b].step = "sent" =>
    LET sent_ == hitting[c][b]
    IN  sent_.at \in Nat /\ sent_.at <= time /\ time - sent_.at <= Delay /\ sent_.now = sent_.at + Ahead[c]

InOrder(b) ==
  /\ hits[b] \in Seq(Nat)
  /\ \A k \in 1..Len(hits[b]) : hits[b][k] <= time /\ hits[b][k] + Window[b] <= due[b]
  /\ \A j, k \in 1..Len(hits[b]) : j <= k => hits[b][j] <= hits[b][k]

LoggedOnce(b) ==
  /\ IsFiniteSet(log[b]) /\ log[b] \subseteq [score : Int, of : 1..Len(hits[b])]
  /\ \A m, n \in log[b] : m.of = n.of => m = n
  /\ \A m \in log[b] : hits[b][m.of] <= m.score + Delay /\ m.score <= hits[b][m.of] + Limits!Skew

LoggedOrOld(b) ==
  \A k \in 1..Len(hits[b]) :
    (\E m \in log[b] : m.of = k) \/ time - hits[b][k] >= Window[b] - Slack

Spaced(b) ==
  \A n \in 1..Len(hits[b]) - Limit[b] : hits[b][n + Limit[b]] - hits[b][n] >= Window[b] - Slack

RefusedFor(b) ==
  refused[b] # Limits!Never =>
    LET last == refused[b]
    IN  /\ last \in [at : Nat, of : Limit[b]..Len(hits[b])]
        /\ last.at - hits[b][last.of - Limit[b] + 1] < Window[b] + Slack

LimitInv ==
  /\ time \in Nat /\ DOMAIN hitting = Caller /\ SentLately
  /\ log \in [Bucket -> SUBSET [score : Int, of : Nat]] /\ due \in [Bucket -> Nat]
  /\ DOMAIN hits = Bucket /\ DOMAIN refused = Bucket
  /\ \A b \in Bucket : InOrder(b) /\ LoggedOnce(b) /\ LoggedOrOld(b) /\ Spaced(b) /\ RefusedFor(b)

LEMMA LimitConstants ==
  /\ Limits!Skew \in Nat /\ Delay \in Nat /\ Slack \in Nat
  /\ \A c \in Caller : Ahead[c] \in Nat /\ Ahead[c] <= Limits!Skew
  /\ \A b \in Bucket : Limit[b] \in Nat /\ Limit[b] > 0 /\ Window[b] \in Nat /\ Window[b] > 0
<1>1. Limits!RateLimitsAssumption
  BY MCRequestsAssumption
<1>2. \E s \in {Ahead[c] : c \in Caller} : \A c \in Caller : Ahead[c] <= s
  BY <1>1 DEF Limits!RateLimitsAssumption
<1>3. Limits!Skew \in {Ahead[c] : c \in Caller} /\ \A c \in Caller : Ahead[c] <= Limits!Skew
  BY <1>2 DEF Limits!Skew
<1>4. Limits!Skew \in Nat /\ Delay \in Nat /\ \A c \in Caller : Ahead[c] \in Nat
  BY <1>1, <1>3 DEF Limits!RateLimitsAssumption
<1>5. \A b \in Bucket : Limit[b] \in Nat /\ Limit[b] > 0 /\ Window[b] \in Nat /\ Window[b] > 0
  BY <1>1 DEF Limits!RateLimitsAssumption
<1> QED
  BY <1>3, <1>4, <1>5 DEF Slack

\* RateLimits counts with the cardinality of FiniteSets.
LEMMA SameHitCount == ASSUME NEW S PROVE Limits!Cardinality(S) = Cardinality(S)
BY DEF Limits!Cardinality, Cardinality

\* A set with a member for each of L numbers is not smaller than L.
LEMMA OneForEach ==
  ASSUME NEW S, IsFiniteSet(S), NEW N \in Nat, NEW L \in Nat, Cardinality(S) < L,
         \A k \in (N - L + 1)..N : \E m \in S : m.of = k
  PROVE  FALSE
<1> DEFINE f == [k \in (N - L + 1)..N |-> CHOOSE m \in S : m.of = k]
<1>1. IsFiniteSet((N - L + 1)..N) /\ Cardinality((N - L + 1)..N) = L
  <2>1. N - L + 1 \in Int /\ N \in Int
    OBVIOUS
  <2>2. ~(N - L + 1 > N) /\ N - (N - L + 1) + 1 = L
    BY FS_CardinalityType
  <2> HIDE DEF f
  <2> QED
    BY <2>1, <2>2, FS_Interval
<1>2. \A k \in (N - L + 1)..N : f[k] \in S /\ f[k].of = k
  OBVIOUS
<1>3. f \in [(N - L + 1)..N -> S]
  BY <1>2
<1> HIDE DEF f
<1>4. \E x, y \in (N - L + 1)..N : x # y /\ f[x] = f[y]
  BY <1>1, <1>3, FS_PigeonHole
<1> QED
  BY <1>2, <1>4

\* Of L different numbers up to N one is at most N - L + 1.
LEMMA OneIsOld ==
  ASSUME NEW S, IsFiniteSet(S), NEW N \in Nat, NEW L \in Nat, L > 0, Cardinality(S) >= L,
         \A m \in S : m.of \in 1..N, \A m, n \in S : m.of = n.of => m = n
  PROVE  N >= L /\ \E m \in S : m.of <= N - L + 1
<1>1. ASSUME \A m \in S : ~(m.of <= N - L + 1) PROVE FALSE
  <2> DEFINE T == (N - L + 2)..N
             f == [m \in S |-> m.of]
  <2>1. f \in [S -> T]
    BY <1>1
  <2>2. IsFiniteSet(T) /\ Cardinality(T) = L - 1
    <3>1. N - L + 2 \in Int /\ N \in Int
      OBVIOUS
    <3> QED
      BY <3>1, FS_Interval
  <2>3. Cardinality(T) < Cardinality(S)
    BY <2>2, FS_CardinalityType
  <2>4. \A m \in S : f[m] = m.of
    OBVIOUS
  <2> HIDE DEF f, T
  <2>5. \E x, y \in S : x # y /\ f[x] = f[y]
    BY <2>1, <2>2, <2>3, FS_PigeonHole
  <2> QED
    BY <2>4, <2>5
<1>2. PICK m \in S : m.of <= N - L + 1
  BY <1>1
<1> QED
  BY <1>2

LEMMA LimitInit == Limits!Init => LimitInv
<1> SUFFICES ASSUME Limits!Init PROVE LimitInv
  OBVIOUS
<1>1. /\ time = 0 /\ log = [b \in Bucket |-> {}] /\ due = [b \in Bucket |-> 0]
      /\ hitting = [c \in Caller |-> <<>>]
      /\ hits = [b \in Bucket |-> <<>>] /\ refused = [b \in Bucket |-> Limits!Never]
  BY DEF Limits!Init, Limits!Idle
<1>2. SentLately
  BY <1>1 DEF SentLately
<1>3. ASSUME NEW b \in Bucket
      PROVE  InOrder(b) /\ LoggedOnce(b) /\ LoggedOrOld(b) /\ Spaced(b) /\ RefusedFor(b)
  <2>1. hits[b] = <<>> /\ Len(hits[b]) = 0 /\ log[b] = {} /\ refused[b] = Limits!Never
    BY <1>1
  <2>2. IsFiniteSet(log[b])
    BY <2>1, FS_EmptySet
  <2>3. Limit[b] \in Nat
    BY LimitConstants
  <2> QED
    BY <2>1, <2>2, <2>3 DEF InOrder, LoggedOnce, LoggedOrOld, Spaced, RefusedFor
<1> QED
  BY <1>1, <1>2, <1>3 DEF LimitInv

\* No script runs: time may pass.
LEMMA QuietKeeps ==
  ASSUME LimitInv, time' \in {time, time + 1}, UNCHANGED <<log, due, hits, refused>>,
         DOMAIN hitting' = Caller, SentLately'
  PROVE  LimitInv'
<1>1. time \in Nat /\ time' \in Nat /\ time' >= time
  BY DEF LimitInv
<1>2. ASSUME NEW b \in Bucket
      PROVE  InOrder(b)' /\ LoggedOnce(b)' /\ LoggedOrOld(b)' /\ Spaced(b)' /\ RefusedFor(b)'
  <2>1. InOrder(b) /\ LoggedOnce(b) /\ LoggedOrOld(b) /\ Spaced(b) /\ RefusedFor(b)
    BY DEF LimitInv
  <2>2. \A k \in 1..Len(hits[b]) : hits[b][k] \in Nat
    BY <2>1 DEF InOrder
  <2>3. InOrder(b)'
    BY <1>1, <2>1, <2>2 DEF InOrder
  <2>4. LoggedOrOld(b)'
    BY <1>1, <2>1, <2>2, LimitConstants DEF LoggedOrOld
  <2> QED
    BY <2>1, <2>3, <2>4 DEF LoggedOnce, Spaced, RefusedFor
<1> QED
  BY <1>1, <1>2 DEF LimitInv

\* One answer of a request changes.
LEMMA EntryKeeps ==
  ASSUME LimitInv, NEW c \in Caller, NEW b \in DOMAIN hitting[c], NEW e,
         hitting' = [hitting EXCEPT ![c][b] = e], time' = time,
         e.step = "sent" => e.at \in Nat /\ e.at <= time /\ time - e.at <= Delay /\ e.now = e.at + Ahead[c]
  PROVE  DOMAIN hitting' = Caller /\ SentLately'
<1>1. DOMAIN hitting = Caller /\ SentLately
  BY DEF LimitInv
<1>2. DOMAIN hitting' = Caller
  BY <1>1
<1>3. \A d \in Caller : /\ DOMAIN hitting'[d] = DOMAIN hitting[d]
                        /\ \A a \in DOMAIN hitting[d] :
                             hitting'[d][a] = IF d = c /\ a = b THEN e ELSE hitting[d][a]
  BY <1>1
<1> QED
  BY <1>1, <1>2, <1>3 DEF SentLately

\* A step that runs no script.
LEMMA NoScriptKeeps ==
  ASSUME LimitInv,
         \/ Limits!Tick
         \/ \E c \in Caller : \/ Limits!Answer(c) \/ Limits!Unreachable(c)
                              \/ \E r \in Route : Limits!Request(c, r)
                              \/ \E b \in Bucket : Limits!Send(c, b)
  PROVE  LimitInv'
<1>0. DOMAIN hitting = Caller /\ SentLately /\ time \in Nat
  BY DEF LimitInv
<1>1. CASE Limits!Tick
  <2>1. time' = time + 1 /\ UNCHANGED <<log, due, hits, refused, hitting>>
    BY <1>1 DEF Limits!Tick
  <2>2. ASSUME NEW c \in Caller, NEW b \in DOMAIN hitting[c], hitting[c][b].step = "sent"
        PROVE  time - hitting[c][b].at < Delay
    BY <1>1, <2>2 DEF Limits!Tick, Limits!Pending
  <2>3. SentLately'
    BY <1>0, <2>1, <2>2, LimitConstants DEF SentLately
  <2> QED
    BY <1>0, <2>1, <2>3, QuietKeeps
<1>2. ASSUME NEW c \in Caller, Limits!Answer(c) \/ Limits!Unreachable(c) PROVE LimitInv'
  <2>1. /\ hitting' = [hitting EXCEPT ![c] = <<>>] /\ time' = time
        /\ UNCHANGED <<log, due, hits, refused>>
    BY <1>2 DEF Limits!Answer, Limits!Unreachable, Limits!Idle
  <2>2. DOMAIN hitting' = Caller /\ SentLately'
    BY <1>0, <2>1 DEF SentLately
  <2> QED
    BY <2>1, <2>2, QuietKeeps
<1>3. ASSUME NEW c \in Caller, NEW r \in Route, Limits!Request(c, r) PROVE LimitInv'
  <2>1. /\ hitting' = [hitting EXCEPT ![c] = [b \in Hits[r] |-> Limits!Waiting]] /\ time' = time
        /\ UNCHANGED <<log, due, hits, refused>>
    BY <1>3 DEF Limits!Request
  <2>2. Limits!Waiting.step # "sent"
    BY DEF Limits!Waiting
  <2>3. DOMAIN hitting' = Caller /\ SentLately'
    BY <1>0, <2>1, <2>2 DEF SentLately
  <2> QED
    BY <2>1, <2>3, QuietKeeps
<1>4. ASSUME NEW c \in Caller, NEW b \in Bucket, Limits!Send(c, b) PROVE LimitInv'
  <2> DEFINE e == [step |-> "sent", now |-> time + Ahead[c], at |-> time]
  <2>1. /\ b \in DOMAIN hitting[c] /\ hitting' = [hitting EXCEPT ![c][b] = e] /\ time' = time
        /\ UNCHANGED <<log, due, hits, refused>>
    BY <1>4 DEF Limits!Send, Limits!Pending
  <2>2. e.at \in Nat /\ e.at <= time /\ time - e.at <= Delay /\ e.now = e.at + Ahead[c]
    BY <1>0, LimitConstants
  <2> HIDE DEF e
  <2>3. DOMAIN hitting' = Caller /\ SentLately'
    BY <2>1, <2>2, EntryKeeps
  <2> QED
    BY <2>1, <2>3, QuietKeeps
<1> QED
  BY <1>1, <1>2, <1>3, <1>4
\* What expired, or was dropped, lies a window back but for clocks and calls.
LEMMA DroppedIsOld ==
  ASSUME NEW x \in Int, NEW t \in Int, NEW n \in Int, NEW s \in Int, NEW u \in Int,
         NEW w \in Int, NEW k \in Int, NEW d \in Int, k >= 0, d >= 0,
         x <= s + d, u <= t \/ s <= n - w, x + w <= u, n <= t + k
  PROVE  t - x >= w - (k + d)
OBVIOUS

\* The script: a hit is logged, and what it drops lies a window back.
LEMMA RunKeeps ==
  ASSUME LimitInv, NEW c \in Caller, NEW b \in Bucket, Limits!Run(c, b)
  PROVE  LimitInv'
<1> DEFINE now == hitting[c][b].now
           h == hits[b]
           N == Len(hits[b])
           S == Limits!Live(b, now)
<1>0. /\ time \in Nat /\ DOMAIN hitting = Caller /\ SentLately
      /\ log \in [Bucket -> SUBSET [score : Int, of : Nat]] /\ due \in [Bucket -> Nat]
      /\ DOMAIN hits = Bucket /\ DOMAIN refused = Bucket
      /\ InOrder(b) /\ LoggedOnce(b) /\ LoggedOrOld(b) /\ Spaced(b) /\ RefusedFor(b)
  BY DEF LimitInv
<1>k. /\ Limits!Skew \in Nat /\ Delay \in Nat /\ Slack = Limits!Skew + Delay /\ Slack \in Nat
      /\ Limit[b] \in Nat /\ Limit[b] > 0 /\ Window[b] \in Nat /\ Window[b] > 0
  BY LimitConstants DEF Slack
<1>1. b \in DOMAIN hitting[c] /\ now \in Nat /\ time - Delay <= now /\ now <= time + Limits!Skew
  <2>1. b \in DOMAIN hitting[c] /\ hitting[c][b].step = "sent"
    BY DEF Limits!Run, Limits!Pending
  <2>2. Ahead[c] \in Nat /\ Ahead[c] <= Limits!Skew
    BY LimitConstants
  <2> QED
    BY <1>0, <1>k, <2>1, <2>2 DEF SentLately
<1>2. /\ time' = time /\ due' = [due EXCEPT ![b] = time + Window[b]]
      /\ \/ /\ Cardinality(S) < Limit[b]
            /\ hits' = [hits EXCEPT ![b] = Append(h, time)]
            /\ log' = [log EXCEPT ![b] = S \cup {[score |-> now, of |-> N + 1]}]
            /\ hitting' = [hitting EXCEPT ![c][b] = [step |-> "yes"]]
            /\ refused' = refused
         \/ /\ ~(Cardinality(S) < Limit[b])
            /\ log' = [log EXCEPT ![b] = S]
            /\ refused' = [refused EXCEPT ![b] = [at |-> time, of |-> N]]
            /\ hitting' = [hitting EXCEPT ![c][b] = [step |-> "no"]]
            /\ hits' = hits
  BY SameHitCount DEF Limits!Run, Limits!Room
<1>3. DOMAIN hitting' = Caller /\ SentLately'
  <2>1. PICK e \in {[step |-> "yes"], [step |-> "no"]} : hitting' = [hitting EXCEPT ![c][b] = e]
    BY <1>2
  <2>2. e.step # "sent"
    OBVIOUS
  <2> QED
    BY <1>1, <1>2, <2>1, <2>2, EntryKeeps
<1>t. time \in Nat
  BY <1>0
<1>4. /\ h \in Seq(Nat) /\ N \in Nat /\ \A k \in 1..N : h[k] \in Nat /\ h[k] <= time
      /\ \A j, k \in 1..N : j <= k => h[j] <= h[k]
  BY <1>0 DEF InOrder
<1>5. /\ S \subseteq log[b] /\ IsFiniteSet(S)
      /\ S \subseteq [score : Int, of : 1..N]
      /\ \A m, n \in S : m.of = n.of => m = n
      /\ \A m \in S : m.score > now - Window[b]
      /\ \A m \in S : h[m.of] <= m.score + Delay /\ m.score <= h[m.of] + Limits!Skew
  <2>1. S \subseteq log[b] /\ \A m \in S : m.score > now - Window[b]
    BY DEF Limits!Live
  <2>2. IsFiniteSet(S)
    BY <1>0, <2>1, FS_Subset DEF LoggedOnce
  <2> HIDE DEF S
  <2> QED
    BY <1>0, <2>1, <2>2 DEF LoggedOnce
<1>6. \A k \in 1..N : (\E m \in S : m.of = k) \/ time - h[k] >= Window[b] - Slack
  <2> SUFFICES ASSUME NEW k \in 1..N, ~(\E m \in S : m.of = k)
               PROVE  time - h[k] >= Window[b] - Slack
    OBVIOUS
  <2>1. CASE \E m \in log[b] : m.of = k
    <3>1. PICK m \in log[b] : m.of = k
      BY <2>1
    <3>2. m.score \in Int /\ h[k] <= m.score + Delay
      BY <1>0, <3>1 DEF LoggedOnce
    <3>3. due[b] <= time \/ m.score <= now - Window[b]
      BY <1>1, <1>k, <3>1, <3>2 DEF Limits!Live
    <3>4. h[k] + Window[b] <= due[b] /\ due[b] \in Nat
      BY <1>0 DEF InOrder
    <3> HIDE DEF h, now
    <3>5. h[k] \in Int /\ time \in Int /\ now \in Int /\ due[b] \in Int /\ Window[b] \in Int
      BY <1>0, <1>1, <1>4, <1>k, <3>4
    <3>6. Limits!Skew \in Int /\ Delay \in Int /\ Limits!Skew >= 0 /\ Delay >= 0
      BY <1>k
    <3>7. now <= time + Limits!Skew
      BY <1>1
    <3>8. time - h[k] >= Window[b] - (Limits!Skew + Delay)
      BY <3>2, <3>3, <3>4, <3>5, <3>6, <3>7, DroppedIsOld
    <3> QED
      BY <1>k, <3>8
  <2>2. CASE ~ \E m \in log[b] : m.of = k
    BY <1>0, <2>2 DEF LoggedOrOld
  <2> QED
    BY <2>1, <2>2
<1>7. ASSUME NEW d \in Bucket, d # b
      PROVE  InOrder(d)' /\ LoggedOnce(d)' /\ LoggedOrOld(d)' /\ Spaced(d)' /\ RefusedFor(d)'
  <2>1. /\ hits'[d] = hits[d] /\ log'[d] = log[d] /\ due'[d] = due[d] /\ refused'[d] = refused[d]
        /\ time' = time
    BY <1>0, <1>2, <1>7
  <2>2. InOrder(d) /\ LoggedOnce(d) /\ LoggedOrOld(d) /\ Spaced(d) /\ RefusedFor(d)
    BY DEF LimitInv
  <2> QED
    BY <2>1, <2>2 DEF InOrder, LoggedOnce, LoggedOrOld, Spaced, RefusedFor
<1>8. /\ due' \in [Bucket -> Nat] /\ due'[b] = time + Window[b]
      /\ log' \in [Bucket -> SUBSET [score : Int, of : Nat]]
      /\ DOMAIN hits' = Bucket /\ DOMAIN refused' = Bucket
  <2>1. due' \in [Bucket -> Nat] /\ due'[b] = time + Window[b]
    BY <1>0, <1>2, <1>k
  <2>2. DOMAIN hits' = Bucket /\ DOMAIN refused' = Bucket
    BY <1>0, <1>2
  <2>3. S \in SUBSET [score : Int, of : Nat]
    BY <1>0, <1>5
  <2>4. [score |-> now, of |-> N + 1] \in [score : Int, of : Nat]
    BY <1>1, <1>4
  <2> HIDE DEF S, now, N
  <2>5. log' \in [Bucket -> SUBSET [score : Int, of : Nat]]
    BY <1>0, <1>2, <2>3, <2>4, SMTT(30)
  <2> QED
    BY <2>1, <2>2, <2>5
<1> DEFINE Kept == InOrder(b)' /\ LoggedOnce(b)' /\ LoggedOrOld(b)' /\ Spaced(b)' /\ RefusedFor(b)'
<1>9. ASSUME Cardinality(S) < Limit[b] PROVE Kept
  <2> DEFINE new == [score |-> now, of |-> N + 1]
  <2>1. hits'[b] = Append(h, time) /\ log'[b] = S \cup {new} /\ refused'[b] = refused[b]
    BY <1>0, <1>2, <1>9
  <2>2. new.score = now /\ new.of = N + 1
    OBVIOUS
  <2> HIDE DEF S, now, h, new
  <2>3. /\ hits'[b] \in Seq(Nat) /\ Len(hits'[b]) = N + 1 /\ hits'[b][N + 1] = time
        /\ \A k \in 1..N : hits'[b][k] = h[k]
    BY <1>0, <1>4, <2>1 DEF h
  <2>n. N \in Nat
    BY <1>4
  <2> HIDE DEF N
  <2>4. \A k \in 1..N + 1 : k \in 1..N \/ k = N + 1
    BY <2>n
  <2>5. InOrder(b)'
    <3>1. \A k \in 1..N + 1 : hits'[b][k] <= time /\ hits'[b][k] + Window[b] <= due'[b]
      BY <1>0, <1>4, <1>8, <1>k, <2>3, <2>4, SMTT(30)
    <3>2. \A j, k \in 1..N + 1 : j <= k => hits'[b][j] <= hits'[b][k]
      <4> SUFFICES ASSUME NEW j \in 1..N + 1, NEW k \in 1..N + 1, j <= k
                   PROVE  hits'[b][j] <= hits'[b][k]
        OBVIOUS
      <4>1. CASE k \in 1..N
        <5>1. j \in 1..N
          BY <2>n, <4>1
        <5> QED
          BY <1>4, <2>3, <4>1, <5>1
      <4>2. CASE k = N + 1
        <5>1. hits'[b][j] <= time
          BY <3>1
        <5> QED
          BY <2>3, <4>2, <5>1
      <4> QED
        BY <2>4, <4>1, <4>2
    <3> QED
      BY <1>2, <2>3, <3>1, <3>2 DEF InOrder
  <2>6. LoggedOnce(b)'
    <3>1. IsFiniteSet(log'[b])
      BY <1>5, <2>1, FS_AddElement
    <3>2. new \in [score : Int, of : {N + 1}]
      BY <1>1 DEF new
    <3>3. \A m \in S : m.of \in 1..N
      BY <1>5
    <3>4. log'[b] \subseteq [score : Int, of : 1..N + 1]
      BY <1>5, <2>1, <2>n, <3>2
    <3>5. \A m, n \in log'[b] : m.of = n.of => m = n
      BY <1>5, <2>1, <2>2, <2>n, <3>3
    <3>6. \A m \in log'[b] :
            hits'[b][m.of] <= m.score + Delay /\ m.score <= hits'[b][m.of] + Limits!Skew
      <4>1. ASSUME NEW m \in S
            PROVE  hits'[b][m.of] <= m.score + Delay /\ m.score <= hits'[b][m.of] + Limits!Skew
        BY <1>5, <2>3, <3>3
      <4>2. hits'[b][new.of] <= new.score + Delay /\ new.score <= hits'[b][new.of] + Limits!Skew
        BY <1>1, <1>k, <1>t, <2>2, <2>3
      <4> QED
        BY <2>1, <4>1, <4>2
    <3> QED
      BY <2>3, <3>1, <3>4, <3>5, <3>6 DEF LoggedOnce
  <2>7. LoggedOrOld(b)'
    <3>1. \A k \in 1..N : (\E m \in log'[b] : m.of = k) \/ time - hits'[b][k] >= Window[b] - Slack
      BY <1>6, <2>1, <2>3
    <3>2. \E m \in log'[b] : m.of = N + 1
      BY <2>1, <2>2
    <3> QED
      BY <1>2, <2>3, <2>4, <3>1, <3>2 DEF LoggedOrOld
  <2>8. Spaced(b)'
    <3>1. ASSUME N + 1 - Limit[b] >= 1 PROVE time - h[N + 1 - Limit[b]] >= Window[b] - Slack
      <4>1. PICK k \in (N - Limit[b] + 1)..N : ~ \E m \in S : m.of = k
        BY <1>5, <1>9, <1>k, <2>n, OneForEach
      <4>2. k \in 1..N /\ N + 1 - Limit[b] \in 1..N /\ N + 1 - Limit[b] <= k
        BY <1>k, <2>n, <3>1, <4>1
      <4>3. time - h[k] >= Window[b] - Slack
        BY <1>6, <4>1, <4>2
      <4>4. h[N + 1 - Limit[b]] <= h[k] /\ h[k] \in Nat /\ h[N + 1 - Limit[b]] \in Nat
        BY <1>4, <4>2
      <4> QED
        BY <1>0, <1>k, <4>3, <4>4
    <3>2. \A n \in 1..N + 1 - Limit[b] :
            hits'[b][n + Limit[b]] - hits'[b][n] >= Window[b] - Slack
      <4> SUFFICES ASSUME NEW n \in 1..N + 1 - Limit[b]
                   PROVE  hits'[b][n + Limit[b]] - hits'[b][n] >= Window[b] - Slack
        OBVIOUS
      <4>0. n \in Int /\ 1 <= n /\ n <= N + 1 - Limit[b] /\ n \in 1..N
        BY <1>k, <2>n
      <4>1. CASE n = N + 1 - Limit[b]
        <5>1. n + Limit[b] = N + 1
          BY <1>k, <2>n, <4>1
        <5> QED
          BY <2>3, <3>1, <4>0, <4>1, <5>1
      <4>2. CASE n # N + 1 - Limit[b]
        <5>1. n \in 1..N - Limit[b] /\ n + Limit[b] \in 1..N
          BY <1>k, <2>n, <4>0, <4>2
        <5>2. h[n + Limit[b]] - h[n] >= Window[b] - Slack
          BY <1>0, <5>1 DEF Spaced, h, N
        <5> QED
          BY <2>3, <4>0, <5>1, <5>2
      <4> QED
        BY <4>1, <4>2
    <3>3. Len(hits'[b]) = N + 1
      BY <2>3
    <3> QED
      BY <1>k, <2>n, <3>2, <3>3 DEF Spaced
  <2>9. RefusedFor(b)'
    <3> SUFFICES ASSUME refused[b] # Limits!Never
                 PROVE  LET last == refused[b]
                        IN  /\ last \in [at : Nat, of : Limit[b]..N + 1]
                            /\ last.at - hits'[b][last.of - Limit[b] + 1] < Window[b] + Slack
      BY <2>1, <2>3 DEF RefusedFor
    <3>1. /\ refused[b] \in [at : Nat, of : Limit[b]..N]
          /\ refused[b].at - h[refused[b].of - Limit[b] + 1] < Window[b] + Slack
      BY <1>0 DEF RefusedFor, h, N
    <3>2. Limit[b]..N \subseteq Limit[b]..N + 1
      BY <1>k, <2>n
    <3>3. refused[b].of - Limit[b] + 1 \in 1..N
      BY <1>k, <2>n, <3>1
    <3> QED
      BY <2>3, <3>1, <3>2, <3>3
  <2> QED
    BY <2>5, <2>6, <2>7, <2>8, <2>9
<1>10. ASSUME ~(Cardinality(S) < Limit[b]) PROVE Kept
  <2>1. hits'[b] = h /\ log'[b] = S /\ refused'[b] = [at |-> time, of |-> N]
    BY <1>0, <1>2, <1>10
  <2> HIDE DEF S, now, h
  <2>n. N \in Nat /\ Len(h) = N
    BY <1>4 DEF h
  <2> HIDE DEF N
  <2>2. InOrder(b)'
    <3>1. \A k \in 1..N : h[k] + Window[b] <= due'[b]
      BY <1>4, <1>8, <1>k, <1>t
    <3> QED
      BY <1>2, <1>4, <2>1, <2>n, <3>1 DEF InOrder
  <2>3. LoggedOnce(b)'
    BY <1>5, <2>1, <2>n DEF LoggedOnce
  <2>4. LoggedOrOld(b)'
    BY <1>2, <1>6, <2>1, <2>n DEF LoggedOrOld
  <2>5. Spaced(b)'
    BY <1>0, <2>1 DEF Spaced, h
  <2>6. RefusedFor(b)'
    <3>1. Cardinality(S) \in Nat
      BY <1>5, FS_CardinalityType
    <3>2. \A m \in S : m.of \in 1..N
      BY <1>5
    <3>3. N >= Limit[b] /\ \E m \in S : m.of <= N - Limit[b] + 1
      BY <1>5, <1>10, <1>k, <2>n, <3>1, <3>2, OneIsOld
    <3>4. PICK m \in S : m.of <= N - Limit[b] + 1
      BY <3>3
    <3>5. m.of \in 1..N /\ N - Limit[b] + 1 \in 1..N
      BY <1>k, <2>n, <3>2, <3>3
    <3>6. h[m.of] <= h[N - Limit[b] + 1] /\ h[m.of] \in Nat /\ h[N - Limit[b] + 1] \in Nat
      BY <1>4, <3>4, <3>5
    <3>7. m.score \in Int /\ m.score > now - Window[b] /\ m.score <= h[m.of] + Limits!Skew
      BY <1>5
    <3>8. time - h[N - Limit[b] + 1] < Window[b] + Slack
      BY <1>0, <1>1, <1>k, <3>6, <3>7
    <3>9. N \in Limit[b]..N
      BY <1>k, <2>n, <3>3
    <3> QED
      BY <1>0, <2>1, <2>n, <3>8, <3>9 DEF RefusedFor
  <2> QED
    BY <2>2, <2>3, <2>4, <2>5, <2>6
<1>11. Kept
  BY <1>9, <1>10
<1> QED
  BY <1>0, <1>2, <1>3, <1>7, <1>8, <1>11 DEF LimitInv

LEMMA LimitStep == LimitInv /\ [Next]_vars => LimitInv'
<1> SUFFICES ASSUME LimitInv, [Next]_vars PROVE LimitInv'
  OBVIOUS
<1>1. CASE UNCHANGED limits
  <2>1. /\ time' = time /\ UNCHANGED <<log, due, hits, refused>>
        /\ hitting' = hitting
    BY <1>1 DEF limits
  <2>2. DOMAIN hitting' = Caller /\ SentLately'
    BY <2>1 DEF LimitInv, SentLately
  <2> QED
    BY <2>1, <2>2, QuietKeeps
<1>2. CASE Limits!Next
  BY <1>2, NoScriptKeeps, RunKeeps DEF Limits!Next
<1>3. Limits!Next \/ UNCHANGED limits
  BY DEF Next, vars
<1> QED
  BY <1>1, <1>2, <1>3

\* Of any Limit + 1 hits let through in a row the last is a window later than the
\* first, and a refusal has Limit hits within a window before it, both but for what
\* clocks differ and calls take (rate-limit.ts:55): for any buckets, windows, limits,
\* clocks and delay, and whatever is dropped or lost meanwhile.
THEOREM LimitIsKept == Spec => []LimitKept
<1>1. Init => LimitInv
  BY LimitInit DEF Init
<1>2. LimitInv => LimitKept
  <2> SUFFICES ASSUME LimitInv, NEW b \in Bucket
               PROVE  /\ \A n \in 1..Len(hits[b]) - Limit[b] :
                           hits[b][n + Limit[b]] - hits[b][n] >= Window[b] - Limits!Skew - Delay
                      /\ LET last == refused[b]
                         IN  last # Limits!Never =>
                               /\ last.of >= Limit[b]
                               /\ last.at - hits[b][last.of - Limit[b] + 1]
                                    < Window[b] + Limits!Skew + Delay
    BY DEF LimitKept, Limits!LimitKept
  <2>1. InOrder(b) /\ Spaced(b) /\ RefusedFor(b)
    BY DEF LimitInv
  <2>2. /\ Limits!Skew \in Nat /\ Delay \in Nat /\ Slack = Limits!Skew + Delay
        /\ Limit[b] \in Nat /\ Limit[b] > 0 /\ Window[b] \in Nat
    BY LimitConstants DEF Slack
  <2>3. Window[b] - Slack = Window[b] - Limits!Skew - Delay
        /\ Window[b] + Slack = Window[b] + Limits!Skew + Delay
    BY <2>2
  <2>4. refused[b] # Limits!Never => refused[b].of >= Limit[b]
    BY <2>1, <2>2 DEF RefusedFor
  <2> QED
    BY <2>1, <2>3, <2>4 DEF Spaced, RefusedFor
<1> QED
  BY <1>1, <1>2, LimitStep, PTL DEF Spec
-----------------------------------------------------------------------------
(***************************************************************************)
(* The listing: a link that was there in the beginning is seen, or comes   *)
(* after the cursor, or was moved behind it.                               *)
(***************************************************************************)
Listed == [at : {"open", "done"}, cursor : [ms : Int, id : Int], seen : SUBSET Id, moved : SUBSET Id,
           stuck : BOOLEAN, due : SUBSET Id]
Stamp == Nat \cup {-1}

StillToCome ==
  list.at = "open" =>
    \A i \in list.due : \/ i \in list.seen \cup list.moved
                        \/ stamped[i] # -1 /\ Listing!After(list.cursor, stamped[i], i)

ListInv ==
  /\ instant \in Nat /\ stamped \in [Id -> Stamp]
  /\ write \in [Id -> {Listing!NoWrite} \cup [kind : {"insert", "update"}, stamp : Nat]]
  /\ list \in {Listing!Unbegun} \cup Listed
  /\ StillToCome /\ ListedOrMoved

\* A set of naturals has a least one.
LEMMA LeastOf ==
  ASSUME NEW T, T \subseteq Nat, T # {}
  PROVE  \E x \in T : \A y \in T : x <= y
<1>1. \E R : /\ \A x, y \in Nat : y < x => <<y, x>> \in R
             /\ \E x \in T : \A y \in T : ~ (<<y, x>> \in R)
  <2>1. \E x \in T : \A y \in T : ~ (<<y, x>> \in OpToRel(<, Nat))
    BY WFMin, NatLessThanWellFounded
  <2>2. \A x, y \in Nat : y < x => <<y, x>> \in OpToRel(<, Nat)
    BY DEF OpToRel
  <2> QED
    BY <2>1, <2>2, Zenon
<1>2. PICK R : /\ \A x, y \in Nat : y < x => <<y, x>> \in R
               /\ \E x \in T : \A y \in T : ~ (<<y, x>> \in R)
  BY <1>1
<1>3. PICK x \in T : \A y \in T : ~ (<<y, x>> \in R)
  BY <1>2
<1>4. ASSUME NEW y \in T PROVE ~(y < x)
  BY <1>2, <1>3, Zenon
<1>5. \A y \in T : x <= y
  BY <1>4
<1> QED
  BY <1>5

\* What is left of a number when its remainder is taken away.
LEMMA Rounded ==
  ASSUME NEW P \in Nat \ {0}, NEW t \in Nat
  PROVE  t - (t % P) \in Nat /\ t - (t % P) <= t
OBVIOUS

LEMMA SameRounded ==
  ASSUME NEW P \in Nat \ {0}, NEW t \in Nat, NEW u \in Nat, t <= u, u - (u % P) <= t
  PROVE  t - (t % P) = u - (u % P)
<1>1. PICK q \in Nat : u % P = u - P * q
  <2>1. (u % P) = u - P * (u \div P) /\ u \div P \in Nat
    OBVIOUS
  <2> QED
    BY <2>1
<1>2. P * q \in Int /\ (u % P) \in 0..(P - 1)
  OBVIOUS
<1>3. \A k \in Int, r \in 0..(P - 1) : k = P * q => (k + r) % P = r
  OBVIOUS
<1> DEFINE m == P * q
<1>4. m \in Int /\ u - (u % P) = m
  BY <1>1, <1>2
<1>5. \A r \in 0..(P - 1) : (m + r) % P = r
  BY <1>2, <1>3
<1> HIDE DEF m
<1>6. t - m \in 0..(P - 1)
  BY <1>2, <1>4
<1>7. (m + (t - m)) % P = t - m
  BY <1>5, <1>6
<1>8. m + (t - m) = t
  BY <1>4
<1> QED
  BY <1>4, <1>7, <1>8

\* What a Date keeps of a time, and what that leaves open.
LEMMA MilliTypes ==
  /\ \A t \in Nat : Listing!Milli(t) \in Nat /\ Listing!Milli(t) <= t
  /\ \A t, u \in Nat : t <= u /\ Listing!Milli(u) <= t => Listing!Milli(t) = Listing!Milli(u)
<1>1. Part \in Nat \ {0}
  BY MCRequestsAssumption DEF Listing!ListingAssumption
<1>2. ASSUME NEW t \in Nat PROVE Listing!Milli(t) \in Nat /\ Listing!Milli(t) <= t
  <2>1. t - (t % Part) \in Nat /\ t - (t % Part) <= t
    BY ONLY <1>1, t \in Nat, Rounded
  <2> QED
    BY <2>1 DEF Listing!Milli
<1>3. ASSUME NEW t \in Nat, NEW u \in Nat, t <= u, Listing!Milli(u) <= t
      PROVE  Listing!Milli(t) = Listing!Milli(u)
  <2>1. u - (u % Part) <= t
    BY <1>3 DEF Listing!Milli
  <2>2. t - (t % Part) = u - (u % Part)
    BY <1>1, <1>3, <2>1, SameRounded
  <2> QED
    BY <2>2 DEF Listing!Milli
<1> QED
  BY <1>2, <1>3

\* Listing counts with the cardinality of FiniteSets.
LEMMA SameRowCount == ASSUME NEW S PROVE Listing!Cardinality(S) = Cardinality(S)
BY DEF Listing!Cardinality, Cardinality

Before(rows, i) == {j \in rows : Listing!Earlier(j, i)}

\* Of two rows one comes earlier, and has fewer before it.
LEMMA RowOrder ==
  ASSUME stamped \in [Id -> Stamp], NEW rows \in SUBSET Id
  PROVE  /\ IsFiniteSet(rows)
         /\ \A i, j \in rows : i # j => Listing!Earlier(i, j) \/ Listing!Earlier(j, i)
         /\ \A i, j \in rows : ~(Listing!Earlier(i, j) /\ Listing!Earlier(j, i))
         /\ \A i \in rows : Cardinality(Before(rows, i)) \in Nat
         /\ \A i, j \in rows : Listing!Earlier(j, i) =>
              Cardinality(Before(rows, j)) < Cardinality(Before(rows, i))
<1>1. Id \subseteq Nat /\ IsFiniteSet(Id)
  BY MCRequestsAssumption DEF Listing!ListingAssumption, Listing!IsFiniteSet, IsFiniteSet
<1>2. IsFiniteSet(rows)
  BY <1>1, FS_Subset
<1>3. \A i \in rows : i \in Nat /\ stamped[i] \in Int
  BY <1>1 DEF Stamp
<1>4. \A i, j \in rows : i # j => Listing!Earlier(i, j) \/ Listing!Earlier(j, i)
  BY <1>3 DEF Listing!Earlier
<1>5. \A i, j \in rows : ~(Listing!Earlier(i, j) /\ Listing!Earlier(j, i))
  BY <1>3 DEF Listing!Earlier
<1>6. \A i, j, k \in rows : Listing!Earlier(k, j) /\ Listing!Earlier(j, i) => Listing!Earlier(k, i)
  BY <1>3 DEF Listing!Earlier
<1>7. \A i \in rows : IsFiniteSet(Before(rows, i)) /\ Cardinality(Before(rows, i)) \in Nat
  BY <1>2, FS_Subset, FS_CardinalityType DEF Before
<1>8. ASSUME NEW i \in rows, NEW j \in rows, Listing!Earlier(j, i)
      PROVE  Cardinality(Before(rows, j)) < Cardinality(Before(rows, i))
  <2>1. Before(rows, j) \subseteq Before(rows, i)
    BY <1>6, <1>8 DEF Before
  <2>2. j \in Before(rows, i) /\ j \notin Before(rows, j)
    BY <1>5, <1>8 DEF Before
  <2>3. Cardinality(Before(rows, j)) <= Cardinality(Before(rows, i))
        /\ Cardinality(Before(rows, i)) # Cardinality(Before(rows, j))
    BY <1>7, <2>1, <2>2, FS_Subset
  <2> QED
    BY <1>7, <2>3
<1> QED
  BY <1>2, <1>4, <1>5, <1>7, <1>8

\* A page that leaves rows behind has a last row, and they come after it.
LEMMA PageHasLast ==
  ASSUME stamped \in [Id -> Stamp], NEW rows \in SUBSET Id, NEW shown, shown = Listing!Shown(rows),
         shown # rows
  PROVE  \E last \in shown :
           /\ Listing!CursorAt(shown) = [ms |-> Listing!Milli(stamped[last]), id |-> last]
           /\ \A j \in shown \ {last} : Listing!Earlier(j, last)
           /\ \A i \in rows \ shown : Listing!Earlier(last, i)
<1> DEFINE c(i) == Cardinality(Before(rows, i))
<1>1. PageSize \in Nat /\ PageSize > 0
  BY MCRequestsAssumption DEF Listing!ListingAssumption
<1>2. shown = {i \in rows : c(i) < PageSize}
  BY SameRowCount DEF Listing!Shown, Before
<1>3. /\ \A i, j \in rows : i # j => Listing!Earlier(i, j) \/ Listing!Earlier(j, i)
      /\ \A i, j \in rows : ~(Listing!Earlier(i, j) /\ Listing!Earlier(j, i))
      /\ \A i \in rows : c(i) \in Nat
      /\ \A i, j \in rows : Listing!Earlier(j, i) => c(j) < c(i)
  BY RowOrder
<1> HIDE DEF c
<1>4. shown # {}
  <2>1. {c(i) : i \in rows} \subseteq Nat /\ {c(i) : i \in rows} # {}
    BY <1>2, <1>3
  <2>2. PICK i \in rows : \A j \in rows : c(i) <= c(j)
    <3>1. \E x \in {c(k) : k \in rows} : \A y \in {c(k) : k \in rows} : x <= y
      BY <2>1, LeastOf
    <3> QED
      BY <3>1
  <2>3. \A j \in rows : ~Listing!Earlier(j, i)
    BY <1>3, <2>2
  <2>4. Before(rows, i) = {}
    BY <2>3 DEF Before
  <2>5. c(i) = 0
    BY <2>4, FS_EmptySet DEF c
  <2> QED
    BY <1>1, <1>2, <2>5
<1>5. \E last \in shown : \A j \in shown \ {last} : Listing!Earlier(j, last)
  <2> DEFINE T == {PageSize - c(i) : i \in shown}
  <2>1. T \subseteq Nat /\ T # {}
    BY <1>1, <1>2, <1>3, <1>4
  <2>2. \E x \in T : \A y \in T : x <= y
    BY <2>1, LeastOf
  <2>3. PICK i \in shown : \A j \in shown : PageSize - c(i) <= PageSize - c(j)
    BY <2>2
  <2>4. \A j \in shown \ {i} : ~Listing!Earlier(i, j)
    BY <1>1, <1>2, <1>3, <2>3
  <2> QED
    BY <1>2, <1>3, <2>4
<1> DEFINE last == CHOOSE i \in shown : \A j \in shown \ {i} : Listing!Earlier(j, i)
<1>6. last \in shown /\ \A j \in shown \ {last} : Listing!Earlier(j, last)
  BY <1>5
<1>7. Listing!CursorAt(shown) = [ms |-> Listing!Milli(stamped[last]), id |-> last]
  BY DEF Listing!CursorAt
<1> HIDE DEF last
<1>8. \A i \in rows \ shown : Listing!Earlier(last, i)
  BY <1>1, <1>2, <1>3, <1>6
<1> QED
  BY <1>6, <1>7, <1>8

LEMMA ListInit == Listing!Init => ListInv
<1> SUFFICES ASSUME Listing!Init PROVE ListInv
  OBVIOUS
<1>1. /\ instant = 0 /\ stamped \in [Id -> {-1, 0}] /\ write = [i \in Id |-> Listing!NoWrite]
      /\ list = Listing!Unbegun
  BY DEF Listing!Init, Listing!Absent
<1>2. stamped \in [Id -> Stamp]
  BY <1>1 DEF Stamp
<1>3. list.at = "unbegun"
  BY <1>1 DEF Listing!Unbegun
<1> QED
  BY <1>1, <1>2, <1>3 DEF ListInv, StillToCome, ListedOrMoved, Listing!ListedOrMoved

LEMMA ListKinds ==
  /\ Listing!Unbegun.at = "unbegun" /\ \A k \in Listed : k.at \in {"open", "done"}
  /\ Listing!Unbegun \notin Listed
<1>1. Listing!Unbegun.at = "unbegun" /\ \A k \in Listed : k.at \in {"open", "done"}
  BY DEF Listing!Unbegun, Listed
<1> QED
  BY <1>1

\* Time passes, or a write begins.
LEMMA BeginsKeep ==
  ASSUME ListInv,
         Listing!Tick \/ \E i \in Id : Listing!Insert(i) \/ \E b \in Behind : Listing!Update(i, b)
  PROVE  ListInv'
<1>0. /\ instant \in Nat /\ stamped \in [Id -> Stamp] /\ Behind \subseteq Nat
      /\ write \in [Id -> {Listing!NoWrite} \cup [kind : {"insert", "update"}, stamp : Nat]]
  BY MCRequestsAssumption DEF ListInv, Listing!ListingAssumption
<1>1. ASSUME UNCHANGED <<stamped, list>>, instant' \in Nat,
             write' \in [Id -> {Listing!NoWrite} \cup [kind : {"insert", "update"}, stamp : Nat]]
      PROVE  ListInv'
  BY <1>1 DEF ListInv, StillToCome, ListedOrMoved, Listing!ListedOrMoved, Listing!After
<1>2. CASE Listing!Tick
  BY <1>0, <1>1, <1>2 DEF Listing!Tick
<1>3. ASSUME NEW i \in Id, NEW w \in [kind : {"insert", "update"}, stamp : Nat], Listing!Starts(i, w)
      PROVE  ListInv'
  BY <1>0, <1>1, <1>3 DEF Listing!Starts
<1>4. ASSUME NEW i \in Id, Listing!Insert(i) PROVE ListInv'
  <2>1. [kind |-> "insert", stamp |-> instant] \in [kind : {"insert", "update"}, stamp : Nat]
    BY <1>0
  <2> QED
    BY <1>3, <1>4, <2>1 DEF Listing!Insert
<1>5. ASSUME NEW i \in Id, NEW b \in Behind, Listing!Update(i, b) PROVE ListInv'
  <2>1. instant - b \in Nat
    BY <1>0, <1>5 DEF Listing!Update
  <2>2. [kind |-> "update", stamp |-> Listing!Milli(instant - b)] \in
          [kind : {"insert", "update"}, stamp : Nat]
    BY <2>1, MilliTypes
  <2> QED
    BY <1>3, <1>5, <2>2 DEF Listing!Update
<1> QED
  BY <1>2, <1>4, <1>5

\* A row gets its time: behind the cursor it is noted.
LEMMA WrittenKeeps ==
  ASSUME ListInv, NEW i \in Id, Listing!Written(i)
  PROVE  ListInv'
<1>0. /\ instant \in Nat /\ stamped \in [Id -> Stamp]
      /\ write \in [Id -> {Listing!NoWrite} \cup [kind : {"insert", "update"}, stamp : Nat]]
      /\ list \in {Listing!Unbegun} \cup Listed /\ StillToCome /\ ListedOrMoved
  BY DEF ListInv
<1> DEFINE stamp == write[i].stamp
<1>1. /\ stamp \in Nat /\ stamped' = [stamped EXCEPT ![i] = stamp] /\ instant' = instant
      /\ write' = [write EXCEPT ![i] = Listing!NoWrite]
      /\ list' = IF list.at = "open" /\ ~Listing!After(list.cursor, stamp, i)
                 THEN [list EXCEPT !.moved = @ \cup {i}] ELSE list
  BY <1>0 DEF Listing!Written
<1> HIDE DEF stamp
<1>2. /\ stamped' \in [Id -> Stamp] /\ stamped'[i] = stamp /\ stamp # -1
      /\ \A j \in Id : j # i => stamped'[j] = stamped[j]
      /\ write' \in [Id -> {Listing!NoWrite} \cup [kind : {"insert", "update"}, stamp : Nat]]
  BY <1>0, <1>1 DEF Stamp
<1>3. CASE list.at = "open"
  <2>1. list \in Listed
    BY <1>0, <1>3, ListKinds
  <2>2. /\ list' \in Listed /\ list'.at = list.at /\ list'.cursor = list.cursor
        /\ list'.seen = list.seen /\ list'.due = list.due /\ list'.stuck = list.stuck
        /\ list.moved \subseteq list'.moved
        /\ ~Listing!After(list.cursor, stamp, i) => i \in list'.moved
    BY <1>1, <1>3, <2>1 DEF Listed
  <2>3. StillToCome'
    <3> SUFFICES ASSUME NEW j \in list.due
                 PROVE  \/ j \in list'.seen \cup list'.moved
                        \/ stamped'[j] # -1 /\ Listing!After(list'.cursor, stamped'[j], j)
      BY <2>2 DEF StillToCome, Listing!After
    <3>1. j \in Id
      BY <2>1 DEF Listed
    <3>2. CASE j = i
      BY <1>2, <2>2, <3>2
    <3>3. CASE j # i
      BY <1>0, <1>2, <1>3, <2>2, <3>1, <3>3 DEF StillToCome
    <3> QED
      BY <3>2, <3>3
  <2>4. ListedOrMoved'
    BY <1>0, <1>3, <2>2, ListKinds DEF ListedOrMoved, Listing!ListedOrMoved
  <2> QED
    BY <1>0, <1>1, <1>2, <2>2, <2>3, <2>4 DEF ListInv
<1>4. CASE list.at # "open"
  <2>1. list' = list
    BY <1>1, <1>4
  <2> QED
    BY <1>0, <1>1, <1>2, <1>4, <2>1 DEF ListInv, StillToCome, ListedOrMoved, Listing!ListedOrMoved
<1> QED
  BY <1>3, <1>4
\* A page: what comes after its last row is still to come.
LEMMA PageKeeps == ASSUME ListInv, Listing!NextPage PROVE ListInv'
<1>0. /\ instant \in Nat /\ stamped \in [Id -> Stamp] /\ Id \subseteq Nat
      /\ write \in [Id -> {Listing!NoWrite} \cup [kind : {"insert", "update"}, stamp : Nat]]
      /\ list \in {Listing!Unbegun} \cup Listed /\ StillToCome /\ ListedOrMoved
  BY MCRequestsAssumption DEF ListInv, Listing!ListingAssumption
<1>u. UNCHANGED <<instant, stamped, write>>
  BY DEF Listing!NextPage
<1> DEFINE first == [at |-> "open", cursor |-> Listing!Start, seen |-> {}, moved |-> {}, stuck |-> FALSE,
                     due |-> {i \in Id : stamped[i] # -1}]
           old == IF list = Listing!Unbegun THEN first ELSE list
           rows == {i \in Id : stamped[i] # -1 /\ Listing!After(old.cursor, stamped[i], i)}
           shown == Listing!Shown(rows)
           next == Listing!CursorAt(shown)
           new == [old EXCEPT
                     !.at = IF shown # rows THEN "open" ELSE "done",
                     !.cursor = IF shown # rows THEN next ELSE @,
                     !.seen = @ \cup shown,
                     !.stuck = @ \/ (shown # rows /\ next = old.cursor
                                     /\ \E i \in shown : Listing!Milli(stamped[i]) # old.cursor.ms)]
<1>1. list' = new
  BY DEF Listing!NextPage, Listing!Absent
<1>2. /\ old \in Listed /\ ~old.stuck
      /\ \A i \in old.due : \/ i \in old.seen \cup old.moved
                            \/ stamped[i] # -1 /\ Listing!After(old.cursor, stamped[i], i)
  <2>1. CASE list = Listing!Unbegun
    <3>1. old = first
      BY <2>1
    <3>2. Listing!Start \in [ms : Int, id : Int] /\ Listing!Start.ms = -1
      BY DEF Listing!Start
    <3>3. /\ first \in Listed /\ first.stuck = FALSE /\ first.cursor = Listing!Start
          /\ first.due = {i \in Id : stamped[i] # -1}
      BY <3>2 DEF Listed
    <3> HIDE DEF first, old
    <3>4. \A i \in Id : stamped[i] # -1 => Listing!After(Listing!Start, stamped[i], i)
      BY <1>0, <3>2 DEF Listing!After, Stamp
    <3> QED
      BY <3>1, <3>3, <3>4
  <2>2. CASE list # Listing!Unbegun
    <3>1. old = list /\ list \in Listed
      BY <1>0, <2>2
    <3>2. list.at = "open" /\ ~list.stuck
      BY <1>0, <2>2 DEF Listing!NextPage, ListedOrMoved, Listing!ListedOrMoved
    <3> HIDE DEF old
    <3> QED
      BY <1>0, <3>1, <3>2 DEF StillToCome
  <2> QED
    BY <2>1, <2>2
<1> HIDE DEF old
<1>3. rows \subseteq Id /\ shown \subseteq rows /\ \A i \in rows : stamped[i] \in Nat
  BY <1>0 DEF Listing!Shown, Stamp
<1>4. ASSUME shown # rows
      PROVE  /\ next \in [ms : Int, id : Int]
             /\ \A i \in rows \ shown : Listing!After(next, stamped[i], i)
             /\ next = old.cursor => \A i \in shown : Listing!Milli(stamped[i]) = old.cursor.ms
  <2>1. PICK last \in shown :
          /\ next = [ms |-> Listing!Milli(stamped[last]), id |-> last]
          /\ \A j \in shown \ {last} : Listing!Earlier(j, last)
          /\ \A i \in rows \ shown : Listing!Earlier(last, i)
    <3>1. rows \in SUBSET Id /\ shown = Listing!Shown(rows) /\ stamped \in [Id -> Stamp]
      BY <1>0, <1>3
    <3> HIDE DEF rows, shown
    <3> QED
      BY <1>4, <3>1, PageHasLast
  <2> DEFINE at == stamped[last]
             ms == Listing!Milli(stamped[last])
  <2>2. last \in Nat /\ at \in Nat /\ ms \in Nat /\ ms <= at
    BY <1>0, <1>3, MilliTypes
  <2>3. next.ms = ms /\ next.id = last /\ next \in [ms : Int, id : Int]
    BY <2>1, <2>2
  <2>4. ASSUME NEW i \in rows \ shown PROVE Listing!After(next, stamped[i], i)
    <3>1. at < stamped[i] \/ (at = stamped[i] /\ last < i)
      BY <2>1 DEF Listing!Earlier
    <3>2. stamped[i] \in Nat /\ i \in Nat
      BY <1>0, <1>3
    <3> HIDE DEF at, ms, rows, shown, next
    <3> QED
      BY <2>2, <2>3, <3>1, <3>2 DEF Listing!After
  <2>5. ASSUME next = old.cursor, NEW i \in shown PROVE Listing!Milli(stamped[i]) = old.cursor.ms
    <3>1. stamped[i] \in Nat /\ stamped[i] <= at
      <4>1. i = last \/ Listing!Earlier(i, last)
        BY <2>1
      <4>2. stamped[i] \in Nat
        BY <1>3
      <4> QED
        BY <2>2, <4>1, <4>2 DEF Listing!Earlier
    <3>2. stamped[i] >= ms
      <4>1. Listing!After(old.cursor, stamped[i], i) /\ old.cursor.ms = ms
        BY <1>3, <2>3, <2>5
      <4> QED
        BY <2>2, <3>1, <4>1 DEF Listing!After
    <3>3. Listing!Milli(stamped[i]) = ms
      <4> HIDE DEF shown
      <4> QED
        BY <2>2, <3>1, <3>2, MilliTypes
    <3> QED
      BY <2>3, <2>5, <3>3
  <2> QED
    BY <2>3, <2>4, <2>5
<1> DEFINE stuck == old.stuck \/ (shown # rows /\ next = old.cursor
                                  /\ \E i \in shown : Listing!Milli(stamped[i]) # old.cursor.ms)
           cursor == IF shown # rows THEN next ELSE old.cursor
<1>5. ~stuck /\ stuck \in BOOLEAN /\ cursor \in [ms : Int, id : Int]
  <2>1. ~stuck
    BY <1>2, <1>4
  <2>2. old.cursor \in [ms : Int, id : Int]
    BY <1>2 DEF Listed
  <2> QED
    BY <1>4, <2>1, <2>2
<1>6. /\ old \in Listed /\ old.seen \cup shown \in SUBSET Id
      /\ (IF shown # rows THEN "open" ELSE "done") \in {"open", "done"}
  BY <1>2, <1>3 DEF Listed
<1>7. /\ new.at = (IF shown # rows THEN "open" ELSE "done") /\ new.cursor = cursor
      /\ new.seen = old.seen \cup shown /\ new.moved = old.moved /\ new.stuck = stuck
      /\ new.due = old.due
  <2> HIDE DEF rows, shown, next
  <2> QED
    BY <1>6 DEF Listed
<1>8. new \in Listed
  <2> DEFINE e == [[[[old EXCEPT !.at = IF shown # rows THEN "open" ELSE "done"]
                     EXCEPT !.cursor = cursor] EXCEPT !.seen = old.seen \cup shown] EXCEPT !.stuck = stuck]
  <2>1. new = e
    <3> HIDE DEF rows, shown, next
    <3> QED
      BY <1>6 DEF Listed
  <2> HIDE DEF stuck, cursor, rows, shown, next
  <2>2. e \in Listed
    BY <1>5, <1>6 DEF Listed
  <2> QED
    BY <2>1, <2>2
<1> HIDE DEF new, stuck, cursor
<1>9. \A i \in old.due : i \in old.seen \cup old.moved \/ i \in rows
  BY <1>2 DEF Listed
<1>10. new.at = "open" =>
         \A i \in new.due : \/ i \in new.seen \cup new.moved
                            \/ stamped[i] # -1 /\ Listing!After(new.cursor, stamped[i], i)
  <2> SUFFICES ASSUME new.at = "open", NEW i \in old.due, i \notin new.seen \cup new.moved
               PROVE  stamped[i] # -1 /\ Listing!After(new.cursor, stamped[i], i)
    BY <1>7
  <2>1. shown # rows /\ i \in rows \ shown
    BY <1>7, <1>9
  <2>2. stamped[i] # -1
    BY <2>1
  <2> QED
    BY <1>4, <1>7, <2>1, <2>2 DEF cursor
<1>11. /\ new.at = "done" => new.due \subseteq new.seen \cup new.moved
       /\ ~new.stuck
  BY <1>5, <1>7, <1>9
<1> HIDE DEF rows, shown, next
<1> QED
  BY <1>0, <1>u, <1>1, <1>8, <1>10, <1>11
  DEF ListInv, StillToCome, ListedOrMoved, Listing!ListedOrMoved, Listing!After

LEMMA ListStep == ListInv /\ [Next]_vars => ListInv'
<1> SUFFICES ASSUME ListInv, [Next]_vars PROVE ListInv'
  OBVIOUS
<1>1. CASE UNCHANGED listing
  BY <1>1 DEF listing, ListInv, StillToCome, ListedOrMoved, Listing!ListedOrMoved, Listing!After
<1>2. CASE Listing!Next
  BY <1>2, BeginsKeep, PageKeeps, WrittenKeeps DEF Listing!Next
<1>3. Listing!Next \/ UNCHANGED listing
  BY DEF Next, vars
<1> QED
  BY <1>1, <1>2, <1>3

\* A listing that has ended has shown every link that was there when it began, but
\* for those a late write or a slow clock moved behind the cursor, and no page of
\* several milliseconds leads back to itself (links/route.ts:133): for any finite set
\* of links, any page size and any clocks.
THEOREM EveryLinkIsListed == Spec => []ListedOrMoved
<1>1. Init => ListInv
  BY ListInit DEF Init
<1>2. ListInv => ListedOrMoved
  BY DEF ListInv
<1> QED
  BY <1>1, <1>2, ListStep, PTL DEF Spec
-----------------------------------------------------------------------------
(***************************************************************************)
(* The checkout: with one subscription, which the row can name unless the  *)
(* event with its id is on its way, a cancellation leaves nothing that     *)
(* renews, until a form resumes it and says so in the row.                 *)
(***************************************************************************)
Amiss == outages > 0 \/ overlapped \/ blind \/ Cardinality(Checkout!Ordered) > 1

Bought == [by : {"none", "paystack", "polar"}, live : BOOLEAN, renews : BOOLEAN]
IdOrNone == 0..MaxCheckout
RowKind == [plan : {"free", "paid"}, status : {"active", "past_due", "cancelled"}, atEnd : BOOLEAN,
            ahead : BOOLEAN, by : {"none", "paystack", "polar"},
            paystack : IdOrNone, token : IdOrNone, polar : IdOrNone]
FormKind == [pc : {"idle", "call", "commit"}, kind : {"none", "cancel", "resume"}, seen : RowKind,
             offers : SUBSET {"cancel", "resume"}]
Sendable == [type : {"charge", "activate", "not_renew", "canceled", "revoked", "disable"},
             of : Checkout!Sub, ref : Nat]

\* The ids of a row are those of subscriptions, and its provider that of one; nothing
\* is cancelled that was not paid.
Refers(r) ==
  /\ r.status = "cancelled" => r.plan = "paid"
  /\ {r.paystack, r.token, r.polar} \subseteq {0} \cup Checkout!Ordered
  /\ r.plan = "paid" => \E s \in Checkout!Ordered : r.by = sub[s].by

Knows(r, s) == IF sub[s].by = "polar" THEN r.polar # 0 ELSE r.paystack # 0 /\ r.token # 0
Activation(s) == [type |-> "activate", of |-> s, ref |-> 0]

Numbered == \E n \in 0..MaxCheckout : Checkout!Ordered = 1..n

SubsHold ==
  \A s \in Checkout!Sub :
    /\ sub[s].renews => sub[s].live
    /\ s \in Checkout!Ordered <=> sub[s].by \in Configured
    /\ s \notin Checkout!Ordered => ~sub[s].live

SentHolds ==
  \A e \in sent :
    /\ e.of \in Checkout!Ordered
    /\ e.type = "canceled" => sub[e.of].by = "polar" /\ ~sub[e.of].renews

RowHolds ==
  /\ Refers(row)
  /\ \A s \in Checkout!Sub : sub[s].live => Activation(s) \in sent \/ Knows(row, s)

FormsHold ==
  \A f \in Owner : submitted[f].pc # "idle" =>
    /\ submitted[f].kind \in {"cancel", "resume"}
    /\ submitted[f].seen.plan = "paid" /\ Refers(submitted[f].seen)

Alone ==
  ~overlapped => \A f, g \in Owner : submitted[f].pc # "idle" /\ submitted[g].pc # "idle" => f = g

\* What a form will ask for is what lives,
AsksForIt ==
  ~Amiss => \A f \in Owner, s \in Checkout!Sub :
    submitted[f].pc = "call" /\ sub[s].live => s \in Checkout!Named(submitted[f].seen)

\* and when it has, nothing renews;
Stopped ==
  ~Amiss => \A f \in Owner, s \in Checkout!Sub :
    submitted[f].pc = "commit" /\ submitted[f].kind = "cancel" => ~sub[s].renews

\* what does renew under a cancelled row is about to be written.
SoonWritten ==
  ~Amiss /\ row.status = "cancelled" /\ row.atEnd /\ (\E s \in Checkout!Sub : sub[s].renews) =>
    \E f \in Owner : submitted[f].pc = "commit" /\ submitted[f].kind = "resume"

CheckoutInv ==
  /\ sub \in [Checkout!Sub -> Bought] /\ row \in RowKind /\ submitted \in [Owner -> FormKind]
  /\ sent \subseteq Sendable /\ outages \in Nat /\ renewals \in Nat
  /\ overlapped \in BOOLEAN /\ blind \in BOOLEAN
  /\ browser \in {"ours", "back"} \cup Configured
  /\ browser = "back" => Checkout!Ordered # {}
  /\ Numbered /\ SubsHold /\ SentHolds /\ RowHolds /\ FormsHold
  /\ Alone /\ AsksForIt /\ Stopped /\ SoonWritten

LEMMA CheckoutConstants ==
  /\ MaxCheckout \in Nat /\ Configured \subseteq {"paystack", "polar"}
  /\ Checkout!Sub = 1..MaxCheckout
  /\ Checkout!NoRow \in RowKind /\ Checkout!NoRow.plan = "free"
  /\ Checkout!NoRow.status = "active" /\ {Checkout!NoRow.paystack, Checkout!NoRow.token, Checkout!NoRow.polar} = {0}
  /\ Checkout!Idle \in FormKind /\ Checkout!Idle.pc = "idle"
  /\ Checkout!NoSub \in Bought /\ Checkout!NoSub.by = "none"
  /\ ~Checkout!NoSub.live /\ ~Checkout!NoSub.renews
<1>1. MaxCheckout \in Nat /\ Configured \subseteq {"paystack", "polar"}
  BY MCRequestsAssumption DEF Checkout!CheckoutAssumption, Checkout!Processor
<1>2. /\ Checkout!NoRow \in RowKind /\ Checkout!NoRow.plan = "free" /\ Checkout!NoRow.status = "active"
      /\ {Checkout!NoRow.paystack, Checkout!NoRow.token, Checkout!NoRow.polar} = {0}
  BY <1>1 DEF Checkout!NoRow, RowKind, IdOrNone, Checkout!None
<1> HIDE DEF Checkout!NoRow
<1>3. Checkout!Idle \in FormKind /\ Checkout!Idle.pc = "idle"
  BY <1>2 DEF Checkout!Idle, FormKind
<1>4. /\ Checkout!NoSub \in Bought /\ Checkout!NoSub.by = "none"
      /\ ~Checkout!NoSub.live /\ ~Checkout!NoSub.renews
  BY DEF Checkout!NoSub, Bought
<1> QED
  BY <1>1, <1>2, <1>3, <1>4 DEF Checkout!Sub

LEMMA SameSubCount == ASSUME NEW S PROVE Checkout!Cardinality(S) = Cardinality(S)
BY DEF Checkout!Cardinality, Cardinality

\* With one subscription it is the first.
LEMMA OnlyFirst ==
  ASSUME CheckoutInv, Cardinality(Checkout!Ordered) <= 1
  PROVE  \A s \in Checkout!Ordered : s = 1
<1>1. PICK n \in 0..MaxCheckout : Checkout!Ordered = 1..n
  BY DEF CheckoutInv, Numbered
<1>2. Cardinality(1..n) = n
  BY <1>1, CheckoutConstants, FS_Interval
<1> QED
  BY <1>1, <1>2, CheckoutConstants

LEMMA CheckoutInit == Checkout!Init => CheckoutInv
<1> SUFFICES ASSUME Checkout!Init PROVE CheckoutInv
  OBVIOUS
<1>1. /\ browser = "ours" /\ sub = [s \in Checkout!Sub |-> Checkout!NoSub]
      /\ row = Checkout!NoRow /\ sent = {} /\ submitted = [f \in Owner |-> Checkout!Idle]
      /\ renewals = 0 /\ outages = 0 /\ overlapped = FALSE /\ blind = FALSE
  BY DEF Checkout!Init
<1>2. Checkout!Ordered = {}
  BY <1>1 DEF Checkout!Ordered
<1>3. Numbered
  <2>1. {} = 1..0 /\ 0 \in 0..MaxCheckout
    BY CheckoutConstants
  <2> QED
    BY <1>2, <2>1 DEF Numbered
<1>4. SubsHold /\ SentHolds
  BY <1>1, <1>2, CheckoutConstants DEF SubsHold, SentHolds
<1>5. RowHolds
  BY <1>1, CheckoutConstants DEF RowHolds, Refers
<1>6. FormsHold /\ Alone /\ AsksForIt /\ Stopped
  BY <1>1, CheckoutConstants DEF FormsHold, Alone, AsksForIt, Stopped
<1>7. SoonWritten
  BY <1>1, CheckoutConstants DEF SoonWritten
<1> QED
  BY <1>1, <1>3, <1>4, <1>5, <1>6, <1>7, CheckoutConstants DEF CheckoutInv

\* What an event makes of the row.
LEMMA NamesHold ==
  ASSUME CheckoutInv, NEW e \in Sendable, e.of \in Checkout!Ordered
  PROVE  LET r == Checkout!Names(e, row)
         IN  /\ r \in RowKind /\ r.by = sub[e.of].by
             /\ r.status = row.status /\ r.atEnd = row.atEnd
             /\ {r.paystack, r.token, r.polar} \subseteq {0} \cup Checkout!Ordered
             /\ row.paystack # 0 => r.paystack # 0
             /\ row.token # 0 => r.token # 0
             /\ row.polar # 0 => r.polar # 0
             /\ e.type = "activate" => Knows(r, e.of)
<1> DEFINE r == Checkout!Names(e, row)
<1>0. /\ row \in RowKind /\ {row.paystack, row.token, row.polar} \subseteq {0} \cup Checkout!Ordered
      /\ sub[e.of].by \in {"paystack", "polar"} /\ e.of \in Checkout!Sub
      /\ e.of # 0 /\ e.of \in IdOrNone
  <2>1. row \in RowKind /\ {row.paystack, row.token, row.polar} \subseteq {0} \cup Checkout!Ordered
    BY DEF CheckoutInv, RowHolds, Refers
  <2>2. e.of \in Checkout!Sub
    BY DEF Checkout!Ordered
  <2>3. sub[e.of].by \in Configured
    BY <2>2 DEF CheckoutInv, SubsHold
  <2>4. MaxCheckout \in Nat /\ Checkout!Sub = 1..MaxCheckout /\ Configured \subseteq {"paystack", "polar"}
    BY CheckoutConstants
  <2>5. e.of # 0 /\ e.of \in IdOrNone
    BY <2>2, <2>4 DEF IdOrNone
  <2> QED
    BY <2>1, <2>2, <2>3, <2>4, <2>5
<1>1. CASE sub[e.of].by = "polar"
  <2>1. r = [row EXCEPT !.by = "polar", !.polar = e.of]
    BY <1>1 DEF Checkout!Names
  <2>2. /\ r \in RowKind /\ r.by = "polar" /\ r.polar = e.of /\ r.paystack = row.paystack
        /\ r.token = row.token /\ r.status = row.status /\ r.atEnd = row.atEnd
    BY <1>0, <2>1 DEF RowKind
  <2> QED
    BY <1>0, <1>1, <2>2 DEF Knows
<1>2. CASE sub[e.of].by = "paystack"
  <2> DEFINE p == IF e.type \in {"activate", "disable"} THEN e.of ELSE row.paystack
             t == IF e.type = "activate" THEN e.of ELSE row.token
  <2>0. row.paystack \in IdOrNone /\ row.token \in IdOrNone
    BY <1>0 DEF RowKind
  <2>1. r = [row EXCEPT !.by = "paystack", !.paystack = p, !.token = t]
    BY <1>2 DEF Checkout!Names
  <2>2. p \in IdOrNone /\ t \in IdOrNone
    BY <1>0, <2>0
  <2>3. /\ {p, t} \subseteq {0} \cup Checkout!Ordered
        /\ (row.paystack # 0 => p # 0) /\ (row.token # 0 => t # 0)
        /\ (e.type = "activate" => p # 0 /\ t # 0)
    BY <1>0
  <2> HIDE DEF p, t
  <2>4. /\ r \in RowKind /\ r.by = "paystack" /\ r.polar = row.polar /\ r.paystack = p
        /\ r.token = t /\ r.status = row.status /\ r.atEnd = row.atEnd
    BY <1>0, <2>1, <2>2 DEF RowKind
  <2> QED
    BY <1>0, <1>2, <2>3, <2>4 DEF Knows
<1> QED
  BY <1>0, <1>1, <1>2

LEMMA AppliedHolds ==
  ASSUME CheckoutInv, NEW e \in Sendable, e.of \in Checkout!Ordered
  PROVE  LET r == Checkout!Applied(e, row)
         IN  /\ r \in RowKind /\ Refers(r)
             /\ row.paystack # 0 => r.paystack # 0
             /\ row.token # 0 => r.token # 0
             /\ row.polar # 0 => r.polar # 0
             /\ e.type = "activate" => Knows(r, e.of) /\ r.status = "active" /\ r.plan = "paid"
             /\ r.status = "cancelled" /\ r.atEnd =>
                  e.type = "canceled" \/ (row.status = "cancelled" /\ row.atEnd)
<1> DEFINE n == Checkout!Names(e, row)
           r == Checkout!Applied(e, row)
<1>1. /\ n \in RowKind /\ n.by = sub[e.of].by
      /\ n.status = row.status /\ n.atEnd = row.atEnd
      /\ {n.paystack, n.token, n.polar} \subseteq {0} \cup Checkout!Ordered
      /\ row.paystack # 0 => n.paystack # 0
      /\ row.token # 0 => n.token # 0
      /\ row.polar # 0 => n.polar # 0
      /\ e.type = "activate" => Knows(n, e.of)
  BY NamesHold
<1>0. row \in RowKind /\ Refers(row)
  BY DEF CheckoutInv, RowHolds
<1> DEFINE Same(x) == x.by = n.by /\ x.paystack = n.paystack /\ x.token = n.token /\ x.polar = n.polar
<1>2. ASSUME NEW x \in RowKind, Same(x), x.plan = "paid"
      PROVE  /\ Refers(x)
             /\ row.paystack # 0 => x.paystack # 0
             /\ row.token # 0 => x.token # 0
             /\ row.polar # 0 => x.polar # 0
             /\ e.type = "activate" => Knows(x, e.of)
  <2> HIDE DEF n
  <2> QED
    BY <1>1, <1>2 DEF Refers, Knows
<1>3. CASE e.type = "charge"
  <2>1. CASE e.ref \in paid
    BY <1>0, <1>3, <2>1 DEF Checkout!Applied
  <2>2. CASE e.ref \notin paid
    <3>1. r = [n EXCEPT !.plan = "paid", !.status = "active", !.ahead = TRUE]
      BY <1>3, <2>2 DEF Checkout!Applied
    <3> HIDE DEF n, r
    <3>2. r \in RowKind /\ Same(r) /\ r.plan = "paid" /\ r.status = "active"
      BY <1>1, <3>1 DEF RowKind
    <3> QED
      BY <1>2, <1>3, <3>2 DEF r
  <2> QED
    BY <2>1, <2>2
<1>4. CASE e.type = "activate"
  <2>1. r = [n EXCEPT !.plan = "paid", !.status = "active", !.ahead = TRUE, !.atEnd = FALSE]
    BY <1>4 DEF Checkout!Applied
  <2> HIDE DEF n, r
  <2>2. r \in RowKind /\ Same(r) /\ r.plan = "paid" /\ r.status = "active"
    BY <1>1, <2>1 DEF RowKind
  <2> QED
    BY <1>2, <1>4, <2>2 DEF r
<1>5. CASE e.type = "not_renew"
  <2>1. r = [n EXCEPT !.plan = "paid", !.status = "past_due"]
    BY <1>5 DEF Checkout!Applied
  <2> HIDE DEF n, r
  <2>2. r \in RowKind /\ Same(r) /\ r.plan = "paid" /\ r.status = "past_due"
    BY <1>1, <2>1 DEF RowKind
  <2> QED
    BY <1>2, <1>5, <2>2 DEF r
<1>6. CASE e.type = "canceled"
  <2>1. r = [n EXCEPT !.plan = "paid", !.status = "cancelled", !.atEnd = TRUE]
    BY <1>6 DEF Checkout!Applied
  <2> HIDE DEF n, r
  <2>2. r \in RowKind /\ Same(r) /\ r.plan = "paid"
    BY <1>1, <2>1 DEF RowKind
  <2> QED
    BY <1>2, <1>6, <2>2 DEF r
<1>7. CASE e.type \in {"revoked", "disable"}
  <2>1. r = [n EXCEPT !.plan = "paid", !.status = "cancelled", !.atEnd = FALSE]
    BY <1>7 DEF Checkout!Applied
  <2> HIDE DEF n, r
  <2>2. r \in RowKind /\ Same(r) /\ r.plan = "paid" /\ r.atEnd = FALSE
    BY <1>1, <2>1 DEF RowKind
  <2> QED
    BY <1>2, <1>7, <2>2 DEF r
<1> QED
  BY <1>3, <1>4, <1>5, <1>6, <1>7 DEF Sendable
\* A step of the row alone.
LEMMA RowMoves ==
  ASSUME CheckoutInv, NEW r \in RowKind, row' = r, Refers(r),
         row.paystack # 0 => r.paystack # 0, row.token # 0 => r.token # 0,
         row.polar # 0 => r.polar # 0,
         sent' \subseteq sent,
         \A s \in Checkout!Sub : Activation(s) \in sent => Activation(s) \in sent' \/ Knows(r, s),
         UNCHANGED <<sub, submitted, outages, renewals, overlapped, blind>>,
         browser' \in {"ours", "back"} \cup Configured, browser' = "back" => browser = "back",
         r.status = "cancelled" /\ r.atEnd =>
           \/ row.status = "cancelled" /\ row.atEnd
           \/ Amiss \/ \A s \in Checkout!Sub : ~sub[s].renews
  PROVE  CheckoutInv'
<1>1. Checkout!Ordered' = Checkout!Ordered /\ sub' = sub /\ submitted' = submitted
  BY DEF Checkout!Ordered
<1>2. Amiss' = Amiss
  BY <1>1 DEF Amiss
<1>3. Numbered' /\ SubsHold' /\ SentHolds'
  BY <1>1 DEF CheckoutInv, Numbered, SubsHold, SentHolds
<1>4. RowHolds'
  <2>1. Refers(row)'
    BY <1>1 DEF Refers
  <2>2. ASSUME NEW s \in Checkout!Sub, sub[s].live PROVE Activation(s) \in sent' \/ Knows(r, s)
    <3>1. Activation(s) \in sent \/ Knows(row, s)
      BY <2>2 DEF CheckoutInv, RowHolds
    <3>2. Knows(row, s) => Knows(r, s)
      BY DEF Knows
    <3> QED
      BY <3>1, <3>2
  <2>3. \A s \in Checkout!Sub : Knows(row, s)' <=> Knows(r, s)
    BY <1>1 DEF Knows
  <2>4. \A s \in Checkout!Sub : sub'[s].live => Activation(s) \in sent' \/ Knows(row, s)'
    BY <1>1, <2>2, <2>3
  <2> QED
    BY <2>1, <2>4 DEF RowHolds, Activation
<1>5. FormsHold' /\ Alone' /\ AsksForIt' /\ Stopped'
  BY <1>1, <1>2 DEF CheckoutInv, FormsHold, Refers, Alone, AsksForIt, Stopped, Checkout!Named
<1>6. SoonWritten'
  BY <1>1, <1>2 DEF CheckoutInv, SoonWritten
<1>7. sent' \subseteq Sendable
  BY DEF CheckoutInv
<1>8. (browser = "back" => Checkout!Ordered # {})
  BY DEF CheckoutInv
<1> QED
  BY <1>1, <1>3, <1>4, <1>5, <1>6, <1>7, <1>8 DEF CheckoutInv

\* A webhook, the page behind the checkout, the end of a period, the administrator.
LEMMA EventKeeps ==
  ASSUME CheckoutInv,
         Checkout!Complete \/ Checkout!Lapse \/ Checkout!AdminCancel \/ \E e \in sent : Checkout!Deliver(e)
  PROVE  CheckoutInv'
<1>0. /\ row \in RowKind /\ Refers(row) /\ sent \subseteq Sendable /\ SubsHold /\ SentHolds
      /\ browser \in {"ours", "back"} \cup Configured
      /\ (browser = "back" => Checkout!Ordered # {})
      /\ Checkout!Ordered \subseteq Checkout!Sub
  BY DEF CheckoutInv, RowHolds, Checkout!Ordered
<1>1. ASSUME NEW e \in sent, Checkout!Deliver(e) PROVE CheckoutInv'
  <2> DEFINE r == Checkout!Applied(e, row)
  <2>0. e \in Sendable /\ e.of \in Checkout!Ordered
        /\ (e.type = "canceled" => ~sub[e.of].renews)
    BY <1>0 DEF SentHolds
  <2>1. /\ r \in RowKind /\ Refers(r)
        /\ row.paystack # 0 => r.paystack # 0
        /\ row.token # 0 => r.token # 0
        /\ row.polar # 0 => r.polar # 0
        /\ e.type = "activate" => Knows(r, e.of)
        /\ r.status = "cancelled" /\ r.atEnd =>
             e.type = "canceled" \/ (row.status = "cancelled" /\ row.atEnd)
    BY <2>0, AppliedHolds
  <2>2. /\ row' = r /\ sent' = sent \ {e}
        /\ UNCHANGED <<sub, submitted, outages, renewals, overlapped, blind, browser>>
    BY <1>1 DEF Checkout!Deliver, Checkout!Apply, Checkout!bounds
  <2> HIDE DEF r
  <2>3. \A s \in Checkout!Sub : Activation(s) \in sent => Activation(s) \in sent' \/ Knows(r, s)
    <3> SUFFICES ASSUME NEW s \in Checkout!Sub, Activation(s) = e PROVE Knows(r, s)
      BY <2>2
    <3>1. e.type = "activate" /\ e.of = s
      BY DEF Activation
    <3> QED
      BY <2>1, <3>1
  <2>4. e.type = "canceled" => Amiss \/ \A s \in Checkout!Sub : ~sub[s].renews
    <3> SUFFICES ASSUME e.type = "canceled", ~Amiss, NEW s \in Checkout!Sub, sub[s].renews
                 PROVE  FALSE
      OBVIOUS
    <3>1. s \in Checkout!Ordered
      BY <1>0 DEF SubsHold
    <3>2. IsFiniteSet(Checkout!Ordered) /\ ~(Cardinality(Checkout!Ordered) > 1)
      <4>1. IsFiniteSet(Checkout!Sub)
        BY CheckoutConstants, FS_Interval
      <4> QED
        BY <1>0, <4>1, FS_Subset DEF Amiss
    <3>3. Cardinality(Checkout!Ordered) <= 1
      BY <3>2, FS_CardinalityType
    <3>4. s = e.of
      BY <2>0, <3>1, <3>3, OnlyFirst
    <3> QED
      BY <2>0, <3>4
  <2> QED
    BY <1>0, <2>1, <2>2, <2>3, <2>4, RowMoves
<1>2. ASSUME NEW r \in RowKind, row' = r, Refers(r), r.paystack = row.paystack, r.token = row.token,
             r.polar = row.polar, r.status = "cancelled" /\ r.atEnd => row.status = "cancelled" /\ row.atEnd,
             UNCHANGED <<sent, sub, submitted, outages, renewals, overlapped, blind, browser>>
      PROVE  CheckoutInv'
  BY <1>0, <1>2, RowMoves
<1>3. CASE Checkout!Lapse
  <2> DEFINE r == [row EXCEPT !.ahead = FALSE]
  <2>1. /\ r \in RowKind /\ r.paystack = row.paystack /\ r.token = row.token /\ r.polar = row.polar
        /\ r.by = row.by /\ r.plan = row.plan /\ r.status = row.status /\ r.atEnd = row.atEnd
    BY <1>0 DEF RowKind
  <2>2. row' = r /\ UNCHANGED <<sent, sub, submitted, outages, renewals, overlapped, blind, browser>>
    BY <1>3 DEF Checkout!Lapse, Checkout!bounds
  <2> HIDE DEF r
  <2>3. Refers(r)
    BY <1>0, <2>1 DEF Refers
  <2> QED
    BY <1>2, <2>1, <2>2, <2>3
<1>4. CASE Checkout!AdminCancel
  <2> DEFINE r == [row EXCEPT !.status = "cancelled", !.atEnd = FALSE]
  <2>1. /\ r \in RowKind /\ r.paystack = row.paystack /\ r.token = row.token /\ r.polar = row.polar
        /\ r.by = row.by /\ r.plan = row.plan /\ r.atEnd = FALSE
        /\ row.plan = "paid"
    BY <1>0, <1>4 DEF RowKind, Checkout!AdminCancel
  <2>2. row' = r /\ UNCHANGED <<sent, sub, submitted, outages, renewals, overlapped, blind, browser>>
    BY <1>4 DEF Checkout!AdminCancel
  <2> HIDE DEF r
  <2>3. Refers(r)
    BY <1>0, <2>1 DEF Refers
  <2> QED
    BY <1>2, <2>1, <2>2, <2>3
<1>5. CASE Checkout!Complete
  <2> DEFINE s == Cardinality(Checkout!Ordered)
  <2>0. browser = "back" /\ browser' = "ours" /\ UNCHANGED <<sub, sent, submitted, outages, renewals, overlapped, blind>>
    BY <1>5 DEF Checkout!Complete, Checkout!bounds
  <2>1. s \in Checkout!Ordered /\ s \in Nat /\ s \in Checkout!Sub
    <3>1. PICK n \in 0..MaxCheckout : Checkout!Ordered = 1..n
      BY DEF CheckoutInv, Numbered
    <3>2. Cardinality(1..n) = n
      BY <3>1, CheckoutConstants, FS_Interval
    <3>3. n \in 1..n
      BY <1>0, <2>0, <3>1, CheckoutConstants
    <3> QED
      BY <1>0, <3>1, <3>2, <3>3, CheckoutConstants
  <2>2. \/ UNCHANGED <<row, paid>> \/ Checkout!VerifyTransaction(s) \/ Checkout!GetSubscription(s)
    BY <1>5, SameSubCount DEF Checkout!Complete
  <2> HIDE DEF s
  <2>3. ASSUME NEW r \in RowKind, row' = r, Refers(r),
               row.paystack # 0 => r.paystack # 0, row.token # 0 => r.token # 0,
               row.polar # 0 => r.polar # 0,
               r.status = "cancelled" /\ r.atEnd => row.status = "cancelled" /\ row.atEnd
        PROVE  CheckoutInv'
    BY <2>0, <2>3, RowMoves
  <2>4. CASE UNCHANGED <<row, paid>>
    BY <1>0, <2>3, <2>4
  <2>5. CASE Checkout!VerifyTransaction(s)
    <3> DEFINE e == [type |-> "charge", of |-> s, ref |-> s]
    <3>1. e \in Sendable /\ e.of \in Checkout!Ordered /\ e.type = "charge"
      BY <2>1 DEF Sendable
    <3>2. row' = Checkout!Applied(e, row)
      BY <2>5 DEF Checkout!VerifyTransaction, Checkout!Apply, Checkout!Event
    <3> HIDE DEF e
    <3> QED
      BY <2>3, <3>1, <3>2, AppliedHolds
  <2>6. CASE Checkout!GetSubscription(s)
    <3> DEFINE e == [type |-> "activate", of |-> s, ref |-> 0]
               a == Checkout!Applied(e, row)
               r == [a EXCEPT !.atEnd = ~sub[s].renews]
    <3>1. e \in Sendable /\ e.of \in Checkout!Ordered /\ e.type = "activate"
      BY <2>1 DEF Sendable
    <3>2. row' = r
      BY <2>6 DEF Checkout!GetSubscription, Checkout!Event, Checkout!None
    <3> HIDE DEF e
    <3>3. /\ a \in RowKind /\ Refers(a) /\ a.status = "active"
          /\ row.paystack # 0 => a.paystack # 0
          /\ row.token # 0 => a.token # 0
          /\ row.polar # 0 => a.polar # 0
      BY <3>1, AppliedHolds
    <3> HIDE DEF a
    <3>4. /\ r \in RowKind /\ r.by = a.by /\ r.plan = a.plan /\ r.status = a.status
          /\ r.paystack = a.paystack /\ r.token = a.token /\ r.polar = a.polar
      BY <3>3 DEF RowKind
    <3> HIDE DEF r
    <3>5. Refers(r)
      BY <3>3, <3>4 DEF Refers
    <3> QED
      BY <2>3, <3>2, <3>3, <3>4, <3>5
  <2> QED
    BY <2>2, <2>4, <2>5, <2>6
<1> QED
  BY <1>1, <1>3, <1>4, <1>5
\* What does not depend on the forms.
WorldHolds ==
  /\ sub \in [Checkout!Sub -> Bought] /\ row \in RowKind /\ sent \subseteq Sendable
  /\ Numbered /\ SubsHold /\ SentHolds /\ RowHolds

\* A step of one subscription, and what it makes the provider send.
Prompts(s, b, E) ==
  /\ s \in Checkout!Ordered /\ b \in Bought /\ E \subseteq Sendable
  /\ sub' = [sub EXCEPT ![s] = b] /\ sent' = sent \cup E /\ row' = row
  /\ b.by = sub[s].by /\ (b.live => sub[s].live) /\ (b.renews => b.live)
  /\ b.renews => sub[s].renews \/ sub[s].by = "paystack"
  /\ \A e \in E : e.of = s /\ (e.type = "canceled" => sub[s].by = "polar" /\ ~b.renews)

LEMMA SubMoves ==
  ASSUME CheckoutInv, NEW s, NEW b, NEW E, Prompts(s, b, E)
  PROVE  /\ WorldHolds' /\ Checkout!Ordered' = Checkout!Ordered
         /\ \A r \in RowKind : Refers(r)' <=> Refers(r)
         /\ \A t \in Checkout!Sub : /\ sub'[t].live => sub[t].live
                                    /\ t # s => sub'[t] = sub[t]
         /\ sub'[s] = b
<1>0. /\ sub \in [Checkout!Sub -> Bought] /\ row \in RowKind /\ sent \subseteq Sendable
      /\ Numbered /\ SubsHold /\ SentHolds /\ RowHolds /\ s \in Checkout!Sub
      /\ Configured \subseteq {"paystack", "polar"}
  BY CheckoutConstants DEF CheckoutInv, Checkout!Ordered, Prompts
<1> USE DEF Prompts
<1>1. /\ sub' \in [Checkout!Sub -> Bought] /\ sub'[s] = b
      /\ \A t \in Checkout!Sub : t # s => sub'[t] = sub[t]
  BY <1>0
<1>2. \A t \in Checkout!Sub : sub'[t].by = sub[t].by /\ (sub'[t].live => sub[t].live)
  BY <1>1
<1>3. Checkout!Ordered' = Checkout!Ordered
  <2>1. b # Checkout!NoSub
    <3>1. b.by \in Configured /\ "none" \notin Configured
      BY <1>0 DEF SubsHold
    <3> QED
      BY <3>1, CheckoutConstants
  <2>2. s \in Checkout!Ordered' /\ \A t \in Checkout!Sub : t # s => (t \in Checkout!Ordered' <=> t \in Checkout!Ordered)
    BY <1>0, <1>1, <2>1 DEF Checkout!Ordered
  <2> QED
    BY <2>2 DEF Checkout!Ordered
<1>4. Numbered' /\ SubsHold'
  BY <1>0, <1>1, <1>2, <1>3 DEF Numbered, SubsHold
<1>5. SentHolds'
  <2> SUFFICES ASSUME NEW e \in sent'
               PROVE  /\ e.of \in Checkout!Ordered
                      /\ e.type = "canceled" => sub'[e.of].by = "polar" /\ ~sub'[e.of].renews
    BY <1>3 DEF SentHolds
  <2>1. CASE e \in E
    BY <1>1, <2>1
  <2>2. CASE e \in sent
    <3>1. e.of \in Checkout!Ordered /\ e.of \in Checkout!Sub
          /\ (e.type = "canceled" => sub[e.of].by = "polar" /\ ~sub[e.of].renews)
      BY <1>0, <2>2 DEF SentHolds, Checkout!Ordered
    <3> QED
      BY <1>1, <3>1
  <2> QED
    BY <2>1, <2>2
<1>6. \A r \in RowKind : Refers(r)' <=> Refers(r)
  <2>1. \A t \in Checkout!Ordered : sub'[t].by = sub[t].by
    BY <1>2 DEF Checkout!Ordered
  <2> QED
    BY <1>3, <2>1 DEF Refers
<1>7. RowHolds'
  <2>1. Refers(row)'
    BY <1>0, <1>6 DEF RowHolds
  <2>2. \A t \in Checkout!Sub : Knows(row, t)' <=> Knows(row, t)
    BY <1>2 DEF Knows
  <2>3. \A t \in Checkout!Sub : sub'[t].live => Activation(t) \in sent' \/ Knows(row, t)'
    BY <1>0, <1>2, <2>2 DEF RowHolds
  <2> QED
    BY <2>1, <2>3 DEF RowHolds, Activation
<1> QED
  BY <1>0, <1>1, <1>2, <1>3, <1>4, <1>5, <1>6, <1>7 DEF WorldHolds

\* A renewal, and the end of what does not renew.
LEMMA ProviderKeeps ==
  ASSUME CheckoutInv, NEW s \in Checkout!Sub, Checkout!Renew(s) \/ Checkout!End(s)
  PROVE  CheckoutInv'
<1>0. /\ sub \in [Checkout!Sub -> Bought] /\ SubsHold /\ renewals \in Nat /\ MaxCheckout \in Nat
      /\ submitted \in [Owner -> FormKind]
  BY CheckoutConstants DEF CheckoutInv
<1>1. s \in Checkout!Ordered /\ sub[s] \in Bought
  BY <1>0 DEF SubsHold, Checkout!Renew, Checkout!End
<1>2. ASSUME NEW b \in Bought, sub' = [sub EXCEPT ![s] = b], b.by = sub[s].by,
             b.live => sub[s].live, b.renews => b.live, b.renews => sub[s].renews,
             NEW e \in Sendable, sent' = sent \cup {e}, e.of = s, e.type # "canceled",
             renewals' \in Nat,
             UNCHANGED <<row, browser, submitted, outages, overlapped, blind>>
      PROVE  CheckoutInv'
  <2>1. /\ WorldHolds' /\ Checkout!Ordered' = Checkout!Ordered
        /\ \A r \in RowKind : Refers(r)' <=> Refers(r)
        /\ \A t \in Checkout!Sub : /\ sub'[t].live => sub[t].live
                                   /\ t # s => sub'[t] = sub[t]
        /\ sub'[s] = b
    <3> DEFINE E == {e}
    <3>1. Prompts(s, b, E)
      BY <1>1, <1>2 DEF Prompts
    <3> HIDE DEF E
    <3> QED
      BY <3>1, SubMoves
  <2>2. \A t \in Checkout!Sub : sub'[t].renews => sub[t].renews
    BY <1>2, <2>1
  <2>3. Amiss' = Amiss
    BY <1>2, <2>1 DEF Amiss
  <2>4. \A f \in Owner : submitted[f].seen \in RowKind
    BY <1>0 DEF FormKind
  <2>5. FormsHold'
    BY <1>2, <2>1, <2>4 DEF CheckoutInv, FormsHold
  <2>6. Alone' /\ AsksForIt' /\ Stopped' /\ SoonWritten'
    BY <1>2, <2>1, <2>2, <2>3
    DEF CheckoutInv, Alone, AsksForIt, Stopped, SoonWritten, Checkout!Named
  <2> QED
    BY <1>2, <2>1, <2>5, <2>6 DEF CheckoutInv, WorldHolds
<1>3. CASE Checkout!Renew(s)
  <2> DEFINE e == Checkout!Event("charge", s, MaxCheckout + renewals')
  <2>1. /\ sent' = sent \cup {e} /\ renewals' = renewals + 1
        /\ UNCHANGED <<sub, row, browser, submitted, outages, overlapped, blind>>
    BY <1>3 DEF Checkout!Renew
  <2>2. e \in Sendable /\ e.of = s /\ e.type = "charge"
    BY <1>0, <2>1 DEF Sendable, Checkout!Event
  <2> DEFINE b == sub[s]
  <2>3. /\ b \in Bought /\ sub' = [sub EXCEPT ![s] = b] /\ b.by = sub[s].by
        /\ b.live = sub[s].live /\ b.renews = sub[s].renews /\ (b.renews => b.live)
    BY <1>0, <1>1, <2>1 DEF SubsHold
  <2>4. renewals' \in Nat
    BY <1>0, <2>1
  <2> HIDE DEF e, b
  <2> QED
    BY <1>2, <2>1, <2>2, <2>3, <2>4
<1>4. CASE Checkout!End(s)
  <2> DEFINE e == Checkout!Ending(s)
             b == [sub[s] EXCEPT !.live = FALSE]
  <2>1. /\ sub' = [sub EXCEPT ![s] = b] /\ sent' = sent \cup {e} /\ ~sub[s].renews
        /\ UNCHANGED <<row, browser, submitted, outages, renewals, overlapped, blind>>
    BY <1>4 DEF Checkout!End, Checkout!bounds
  <2>2. e \in Sendable /\ e.of = s /\ e.type # "canceled"
    BY DEF Sendable, Checkout!Ending, Checkout!Event, Checkout!None
  <2>3. b \in Bought /\ b.by = sub[s].by /\ b.live = FALSE /\ b.renews = sub[s].renews
    BY <1>1 DEF Bought
  <2> HIDE DEF e, b
  <2> QED
    BY <1>0, <1>2, <2>1, <2>2, <2>3
<1> QED
  BY <1>3, <1>4
\* The provider has answered, or not.
Answered(f) ==
  /\ submitted[f].pc = "call" /\ submitted' = [submitted EXCEPT ![f].pc = "commit"]
  /\ UNCHANGED <<row, browser, renewals, overlapped, blind>>
  /\ WorldHolds' /\ Checkout!Ordered' = Checkout!Ordered
  /\ outages' \in Nat /\ (outages' = 0 => outages = 0)
  /\ \A r \in RowKind : Refers(r)' <=> Refers(r)
  /\ ~Amiss' /\ submitted[f].kind = "cancel" => \A t \in Checkout!Sub : ~sub'[t].renews

LEMMA AnsweredKeeps ==
  ASSUME CheckoutInv, NEW f \in Owner, Answered(f)
  PROVE  CheckoutInv'
<1> USE DEF Answered
<1>1. /\ submitted \in [Owner -> FormKind] /\ FormsHold /\ Alone /\ overlapped \in BOOLEAN
      /\ submitted[f] \in FormKind
  BY DEF CheckoutInv
<1>2. /\ submitted' \in [Owner -> FormKind]
      /\ submitted'[f].pc = "commit" /\ submitted'[f].kind = submitted[f].kind
      /\ submitted'[f].seen = submitted[f].seen
      /\ \A g \in Owner : g # f => submitted'[g] = submitted[g]
  <2> DEFINE w == [submitted[f] EXCEPT !.pc = "commit"]
  <2>1. w \in FormKind /\ w.pc = "commit" /\ w.kind = submitted[f].kind /\ w.seen = submitted[f].seen
    BY <1>1 DEF FormKind
  <2>2. submitted' = [submitted EXCEPT ![f] = w]
    OBVIOUS
  <2> HIDE DEF w
  <2> QED
    BY <1>1, <2>1, <2>2
<1>3. submitted[f].kind \in {"cancel", "resume"}
  BY <1>1 DEF FormsHold
<1>4. FormsHold'
  <2>1. \A g \in Owner : /\ submitted[g].seen \in RowKind /\ submitted'[g].seen = submitted[g].seen
                         /\ submitted'[g].kind = submitted[g].kind
                         /\ (submitted'[g].pc # "idle" => submitted[g].pc # "idle")
    BY <1>1, <1>2 DEF FormKind
  <2>2. \A g \in Owner : Refers(submitted[g].seen)' <=> Refers(submitted[g].seen)
    BY <2>1 DEF Refers
  <2>3. ASSUME NEW g \in Owner, submitted'[g].pc # "idle"
        PROVE  /\ submitted'[g].kind \in {"cancel", "resume"} /\ submitted'[g].seen.plan = "paid"
               /\ Refers(submitted[g].seen)
    BY <1>1, <2>1, <2>3 DEF FormsHold
  <2> QED
    BY <2>2, <2>3 DEF FormsHold
<1>5. \A g \in Owner : submitted'[g].pc # "idle" <=> submitted[g].pc # "idle"
  BY <1>1, <1>2
<1>6. Alone'
  BY <1>1, <1>5 DEF Alone
<1>7. ~Amiss' => \A g \in Owner : g # f => submitted'[g].pc = "idle"
  BY <1>2, <1>6 DEF Alone, Amiss
<1>8. AsksForIt' /\ Stopped'
  BY <1>2, <1>7 DEF AsksForIt, Stopped
<1>9. SoonWritten'
  BY <1>2, <1>3 DEF SoonWritten
<1> QED
  BY <1>2, <1>4, <1>6, <1>8, <1>9 DEF CheckoutInv, WorldHolds

\* The provider is asked for the subscription the form has read of.
LEMMA CallKeeps ==
  ASSUME CheckoutInv, NEW f \in Owner, Checkout!CallProvider(f)
  PROVE  CheckoutInv'
<1> DEFINE asked == {s \in Checkout!Named(submitted[f].seen) : sub[s].live /\ sub[s].by \in Configured}
<1>0. /\ sub \in [Checkout!Sub -> Bought] /\ SubsHold /\ WorldHolds /\ outages \in Nat
      /\ Checkout!Ordered \subseteq Checkout!Sub /\ Configured \subseteq {"paystack", "polar"}
  BY CheckoutConstants DEF CheckoutInv, WorldHolds, Checkout!Ordered
<1>1. /\ submitted[f].pc = "call" /\ submitted' = [submitted EXCEPT ![f].pc = "commit"]
      /\ UNCHANGED <<row, browser, renewals, overlapped, blind>>
  BY DEF Checkout!CallProvider
<1>2. \A s \in asked : s \in Checkout!Ordered /\ sub[s] \in Bought /\ sub[s].by \in {"paystack", "polar"}
  <2>1. {submitted[f].seen.paystack, submitted[f].seen.polar} \subseteq {0} \cup Checkout!Ordered
    BY <1>1 DEF CheckoutInv, FormsHold, Refers
  <2>2. Checkout!Named(submitted[f].seen) \subseteq Checkout!Ordered
    BY <2>1 DEF Checkout!Named, Checkout!None
  <2> QED
    BY <1>0, <2>2
<1> HIDE DEF asked
<1>3. CASE asked = {} /\ UNCHANGED <<sub, sent, outages>>
  <2>1. Checkout!Ordered' = Checkout!Ordered /\ WorldHolds' /\ Amiss' = Amiss
    BY <1>0, <1>1, <1>3
    DEF WorldHolds, Numbered, SubsHold, SentHolds, RowHolds, Knows, Refers, Amiss, Checkout!Ordered
  <2>2. \A r \in RowKind : Refers(r)' <=> Refers(r)
    BY <1>3, <2>1 DEF Refers
  <2>3. ~Amiss => \A t \in Checkout!Sub : ~sub[t].renews
    <3> SUFFICES ASSUME ~Amiss, NEW t \in Checkout!Sub, sub[t].renews PROVE FALSE
      OBVIOUS
    <3>1. sub[t].live /\ sub[t].by \in Configured
      BY <1>0 DEF SubsHold
    <3>2. t \in Checkout!Named(submitted[f].seen)
      BY <1>1, <3>1 DEF CheckoutInv, AsksForIt
    <3> QED
      BY <1>3, <3>1, <3>2 DEF asked
  <2> QED
    BY <1>0, <1>1, <1>3, <2>1, <2>2, <2>3, AnsweredKeeps DEF Answered
<1>4. ASSUME NEW s \in asked, UNCHANGED outages,
             IF submitted[f].kind = "cancel" THEN Checkout!StopRenewal(s) ELSE Checkout!ResumeRenewal(s)
      PROVE  CheckoutInv'
  <2>0. s \in Checkout!Ordered /\ s \in Checkout!Sub /\ sub[s] \in Bought /\ sub[s].live
    BY <1>0, <1>2, <1>4 DEF asked
  <2>1. ASSUME NEW b, NEW E, Prompts(s, b, E), submitted[f].kind = "cancel" => ~b.renews
        PROVE  CheckoutInv'
    <3>1. /\ WorldHolds' /\ Checkout!Ordered' = Checkout!Ordered
          /\ \A r \in RowKind : Refers(r)' <=> Refers(r)
          /\ \A t \in Checkout!Sub : t # s => sub'[t] = sub[t]
          /\ sub'[s] = b
      BY <2>1, SubMoves
    <3>2. Amiss' = Amiss
      BY <1>1, <1>4, <3>1 DEF Amiss
    <3>3. ~Amiss /\ submitted[f].kind = "cancel" => \A t \in Checkout!Sub : ~sub'[t].renews
      <4> SUFFICES ASSUME ~Amiss, submitted[f].kind = "cancel", NEW t \in Checkout!Sub, sub'[t].renews
                   PROVE  FALSE
        OBVIOUS
      <4>1. t # s /\ sub[t].renews
        BY <2>1, <3>1
      <4>2. t \in Checkout!Ordered
        BY <1>0, <4>1 DEF SubsHold
      <4>3. Cardinality(Checkout!Ordered) <= 1
        <5>0. IsFiniteSet(Checkout!Sub)
          BY CheckoutConstants, FS_Interval
        <5>1. IsFiniteSet(Checkout!Ordered)
          BY <1>0, <5>0, FS_Subset
        <5>2. Cardinality(Checkout!Ordered) \in Nat
          BY <5>1, FS_CardinalityType
        <5> QED
          BY <3>2, <4>1, <5>2 DEF Amiss
      <4> QED
        BY <2>0, <4>1, <4>2, <4>3, OnlyFirst
    <3> QED
      BY <1>0, <1>1, <1>4, <3>1, <3>2, <3>3, AnsweredKeeps DEF Answered
  <2>2. CASE submitted[f].kind = "cancel" /\ Checkout!CancelSubscription(s, TRUE) /\ sub[s].by = "polar"
    <3> DEFINE b == [sub[s] EXCEPT !.renews = FALSE]
               e == Checkout!Event("canceled", s, 0)
               E == {e}
    <3>1. b \in Bought /\ b.by = sub[s].by /\ b.live = sub[s].live /\ b.renews = FALSE
      BY <2>0 DEF Bought
    <3>2. E \subseteq Sendable /\ \A x \in E : x.of = s
      BY <2>0 DEF Sendable, Checkout!Event
    <3>3. sub' = [sub EXCEPT ![s] = b] /\ sent' = sent \cup E
      BY <1>0, <2>0, <2>2 DEF Checkout!CancelSubscription, Checkout!None, Bought
    <3> HIDE DEF b, e, E
    <3> QED
      BY <1>1, <2>0, <2>1, <2>2, <3>1, <3>2, <3>3 DEF Prompts
  <2>3. CASE submitted[f].kind = "cancel" /\ Checkout!DisableSubscription(s)
    <3> DEFINE b == [sub[s] EXCEPT !.renews = FALSE]
               e == Checkout!Event("not_renew", s, 0)
               E == {e}
    <3>1. b \in Bought /\ b.by = sub[s].by /\ b.live = sub[s].live /\ b.renews = FALSE
      BY <2>0 DEF Bought
    <3>2. E \subseteq Sendable /\ \A x \in E : x.of = s /\ x.type = "not_renew"
      BY <2>0 DEF Sendable, Checkout!Event
    <3>3. sub' = [sub EXCEPT ![s] = b] /\ sent' = sent \cup E
      BY <2>3 DEF Checkout!DisableSubscription, Checkout!None
    <3> HIDE DEF b, e, E
    <3> QED
      BY <1>1, <2>0, <2>1, <3>1, <3>2, <3>3 DEF Prompts
  <2>4. CASE submitted[f].kind # "cancel" /\ Checkout!CancelSubscription(s, FALSE)
    <3> DEFINE b == [sub[s] EXCEPT !.renews = FALSE, !.live = FALSE]
               e == Checkout!Ending(s)
               E == {e}
    <3>1. b \in Bought /\ b.by = sub[s].by /\ b.live = FALSE /\ b.renews = FALSE
      BY <2>0 DEF Bought
    <3>2. E \subseteq Sendable /\ \A x \in E : x.of = s /\ x.type # "canceled"
      BY <2>0 DEF Sendable, Checkout!Ending, Checkout!Event, Checkout!None
    <3>3. sub' = [sub EXCEPT ![s] = b] /\ sent' = sent \cup E
      BY <1>0, <2>0, <2>4 DEF Checkout!CancelSubscription
    <3> HIDE DEF b, e, E
    <3> QED
      BY <1>1, <2>0, <2>1, <3>1, <3>2, <3>3 DEF Prompts
  <2>5. CASE submitted[f].kind # "cancel" /\ Checkout!EnableSubscription(s) /\ sub[s].by = "paystack"
    <3> DEFINE b == [sub[s] EXCEPT !.renews = TRUE]
               E == {}
    <3>1. b \in Bought /\ b.by = sub[s].by /\ b.live = sub[s].live
      BY <2>0 DEF Bought
    <3>2. /\ sub' = [sub EXCEPT ![s] = b] /\ sent' = sent \cup E
          /\ E \subseteq Sendable /\ \A x \in E : FALSE
      BY <2>5 DEF Checkout!EnableSubscription
    <3> HIDE DEF b, E
    <3> QED
      BY <1>1, <2>0, <2>1, <2>5, <3>1, <3>2 DEF Prompts
  <2> QED
    BY <1>2, <1>4, <2>2, <2>3, <2>4, <2>5 DEF Checkout!StopRenewal, Checkout!ResumeRenewal
<1>5. CASE outages' = outages + 1 /\ UNCHANGED <<sub, sent>>
  <2>1. Checkout!Ordered' = Checkout!Ordered /\ WorldHolds'
    BY <1>0, <1>1, <1>5
    DEF WorldHolds, Numbered, SubsHold, SentHolds, RowHolds, Knows, Refers, Checkout!Ordered
  <2>2. \A r \in RowKind : Refers(r)' <=> Refers(r)
    BY <1>5, <2>1 DEF Refers
  <2>3. outages' \in Nat /\ outages' > 0 /\ outages' # 0
    BY <1>0, <1>5
  <2>4. Amiss'
    BY <2>3 DEF Amiss
  <2>5. Answered(f)
    BY <1>1, <2>1, <2>2, <2>3, <2>4 DEF Answered
  <2> QED
    BY <2>5, AnsweredKeeps
<1>6. \/ asked = {} /\ UNCHANGED <<sub, sent, outages>>
      \/ /\ \E s \in asked : IF submitted[f].kind = "cancel" THEN Checkout!StopRenewal(s)
                                                             ELSE Checkout!ResumeRenewal(s)
         /\ UNCHANGED outages
      \/ outages' = outages + 1 /\ UNCHANGED <<sub, sent>>
  BY DEF Checkout!CallProvider, Checkout!PolarFails, Checkout!PaystackFails, asked
<1> QED
  BY <1>3, <1>4, <1>5, <1>6
\* The browser on its way, and the money.
LEMMA PayKeeps ==
  ASSUME CheckoutInv, Checkout!Pay \/ \E where \in {"NG", "other"} : Checkout!Choose(where)
  PROVE  CheckoutInv'
<1>0. /\ row \in RowKind /\ Refers(row) /\ sub \in [Checkout!Sub -> Bought] /\ sent \subseteq Sendable
      /\ Numbered /\ SubsHold /\ SentHolds /\ RowHolds /\ FormsHold
      /\ browser \in {"ours", "back"} \cup Configured /\ Configured \subseteq {"paystack", "polar"}
      /\ Checkout!Ordered \subseteq Checkout!Sub /\ submitted \in [Owner -> FormKind]
  BY CheckoutConstants DEF CheckoutInv, RowHolds, Checkout!Ordered
<1>1. ASSUME browser' \in {"ours"} \cup Configured,
             UNCHANGED <<row, sub, sent, submitted, outages, renewals, overlapped, blind>>
      PROVE  CheckoutInv'
  <2>1. browser' # "back"
    BY <1>0, <1>1
  <2> QED
    BY <1>0, <1>1, <2>1, RowMoves
<1>2. CASE \E where \in {"NG", "other"} : Checkout!Choose(where)
  BY <1>1, <1>2 DEF Checkout!Choose, Checkout!StartCheckout, Checkout!InitializeTransaction,
                    Checkout!CreateCheckout, Checkout!bounds
<1>3. CASE Checkout!Pay
  <2>0. /\ browser \in Configured
        /\ UNCHANGED <<row, submitted, outages, renewals, overlapped, blind>>
    BY <1>0, <1>3 DEF Checkout!Pay, Checkout!Processor, Checkout!bounds
  <2>1. CASE browser' = "ours" /\ UNCHANGED <<sub, sent>>
    BY <1>1, <2>0, <2>1
  <2>2. ASSUME NEW plan \in BOOLEAN, Cardinality(Checkout!Ordered) < MaxCheckout,
               sub' = [sub EXCEPT ![1 + Cardinality(Checkout!Ordered)] =
                                    [by |-> browser, live |-> plan, renews |-> plan]],
               sent' = sent \cup {Checkout!Event("charge", 1 + Cardinality(Checkout!Ordered),
                                                           1 + Cardinality(Checkout!Ordered))}
                            \cup {Checkout!Event("activate", x, 0) :
                                    x \in {y \in {1 + Cardinality(Checkout!Ordered)} : plan}},
               browser' = "back"
        PROVE  CheckoutInv'
    <3>1. PICK n \in 0..MaxCheckout : Checkout!Ordered = 1..n
      BY <1>0 DEF Numbered
    <3>2. Cardinality(Checkout!Ordered) = n /\ n \in Nat /\ n < MaxCheckout
      BY <2>2, <3>1, CheckoutConstants, FS_Interval
    <3> DEFINE s == 1 + n
               b == [by |-> browser, live |-> plan, renews |-> plan]
    <3>3. s \in Checkout!Sub /\ s \notin Checkout!Ordered /\ s \in Nat
      BY <3>1, <3>2, CheckoutConstants
    <3>4. b \in Bought /\ b.by = browser /\ b.live = plan /\ b.renews = plan
      BY <1>0, <2>0 DEF Bought
    <3>5. sub' = [sub EXCEPT ![s] = b]
      BY <2>2, <3>2
    <3>6. sent' = sent \cup {Checkout!Event("charge", s, s)}
                       \cup {Checkout!Event("activate", x, 0) : x \in {y \in {s} : plan}}
      BY <2>2, <3>2
    <3>7. 1..(n + 1) = 1..n \cup {s} /\ n + 1 \in 0..MaxCheckout /\ n + 1 = s
      BY <3>2, CheckoutConstants
    <3> HIDE DEF s, b
    <3>8. /\ sub' \in [Checkout!Sub -> Bought] /\ sub'[s] = b
          /\ \A t \in Checkout!Sub : t # s => sub'[t] = sub[t]
      BY <1>0, <3>3, <3>4, <3>5
    <3>9. Checkout!Ordered' = Checkout!Ordered \cup {s}
      <4>1. b # Checkout!NoSub
        BY <1>0, <2>0, <3>4, CheckoutConstants
      <4> QED
        BY <1>0, <3>3, <3>8, <4>1 DEF Checkout!Ordered
    <3>10. Numbered'
      BY <3>1, <3>7, <3>9 DEF Numbered
    <3>11. SubsHold'
      BY <1>0, <2>0, <3>3, <3>4, <3>8, <3>9 DEF SubsHold
    <3>12. /\ sent' \subseteq Sendable
           /\ \A e \in sent' : e \in sent \/ (e.of = s /\ e.type # "canceled")
      BY <1>0, <3>3, <3>6 DEF Sendable, Checkout!Event
    <3>13. SentHolds'
      <4>1. \A e \in sent : e.of # s /\ e.of \in Checkout!Sub
        BY <1>0, <3>3 DEF SentHolds
      <4> QED
        BY <1>0, <3>8, <3>9, <3>12, <4>1 DEF SentHolds
    <3>14. \A r \in RowKind : Refers(r) => Refers(r)'
      <4>1. \A t \in Checkout!Ordered : sub'[t] = sub[t]
        BY <1>0, <3>3, <3>8
      <4> QED
        BY <3>9, <4>1 DEF Refers
    <3>15. RowHolds'
      <4>1. ASSUME NEW t \in Checkout!Sub, t # s, sub'[t].live
            PROVE  Activation(t) \in sent' \/ Knows(row, t)'
        BY <1>0, <2>0, <3>6, <3>8, <4>1 DEF RowHolds, Knows
      <4>2. plan => Activation(s) \in sent'
        BY <3>6 DEF Activation, Checkout!Event
      <4>3. sub'[s].live => Activation(s) \in sent'
        BY <3>4, <3>8, <4>2
      <4>4. Refers(row)'
        BY <1>0, <2>0, <3>14 DEF Refers
      <4>5. \A t \in Checkout!Sub : sub'[t].live => Activation(t) \in sent' \/ Knows(row, t)'
        BY <4>1, <4>3
      <4> QED
        BY <4>4, <4>5 DEF RowHolds, Activation
    <3>16. FormsHold'
      <4>1. \A g \in Owner : submitted[g].seen \in RowKind
        BY <1>0 DEF FormKind
      <4>2. \A g \in Owner : Refers(submitted[g].seen) => Refers(submitted[g].seen)'
        BY <2>0, <3>14, <4>1 DEF Refers
      <4> QED
        BY <1>0, <2>0, <4>2 DEF FormsHold
    <3>17. Cardinality(Checkout!Ordered)' = n + 1
      <4>1. Checkout!Ordered' = 1..(n + 1)
        BY <3>1, <3>7, <3>9
      <4>2. Cardinality(1..(n + 1)) = n + 1
        <5>1. 1 \in Int /\ n + 1 \in Int /\ ~(1 > n + 1) /\ n + 1 - 1 + 1 = n + 1
          BY <3>2
        <5> HIDE DEF s
        <5> QED
          BY <5>1, FS_Interval
      <4> QED
        BY <4>1, <4>2
    <3>18. ~Amiss' => Checkout!Ordered = {}
      BY <3>1, <3>2, <3>17 DEF Amiss
    <3>19. ~Amiss' => /\ \A g \in Owner : submitted[g].pc = "idle"
                      /\ row.status # "cancelled"
      BY <1>0, <3>18 DEF FormsHold, Refers
    <3>20. Alone'
      BY <2>0 DEF CheckoutInv, Alone
    <3>21. AsksForIt' /\ Stopped' /\ SoonWritten'
      BY <2>0, <3>19 DEF AsksForIt, Stopped, SoonWritten
    <3> QED
      BY <2>0, <2>2, <3>8, <3>9, <3>10, <3>11, <3>12, <3>13, <3>15, <3>16, <3>20, <3>21 DEF CheckoutInv
  <2>3. \/ browser' = "ours" /\ UNCHANGED <<sub, sent>>
        \/ /\ Cardinality(Checkout!Ordered) < MaxCheckout
           /\ \E plan \in BOOLEAN :
                /\ sub' = [sub EXCEPT ![1 + Cardinality(Checkout!Ordered)] =
                                        [by |-> browser, live |-> plan, renews |-> plan]]
                /\ sent' = sent \cup {Checkout!Event("charge", 1 + Cardinality(Checkout!Ordered),
                                                               1 + Cardinality(Checkout!Ordered))}
                                \cup {Checkout!Event("activate", x, 0) :
                                        x \in {y \in {1 + Cardinality(Checkout!Ordered)} : plan}}
           /\ browser' = "back"
    <3>1. {TRUE} \cup {browser = "polar"} \subseteq BOOLEAN
      OBVIOUS
    <3> QED
      BY <1>3, <3>1, SameSubCount DEF Checkout!Pay, Checkout!None
  <2> QED
    BY <2>1, <2>2, <2>3
<1> QED
  BY <1>2, <1>3

\* A step of a form that does not call the provider.
FormStep(f, w, r) ==
  /\ submitted' = [submitted EXCEPT ![f] = w] /\ row' = r
  /\ w \in FormKind /\ r \in RowKind /\ Refers(r)
  /\ r.paystack = row.paystack /\ r.token = row.token /\ r.polar = row.polar
  /\ UNCHANGED <<sub, sent, browser, renewals, outages>>
  /\ overlapped' \in BOOLEAN /\ blind' \in BOOLEAN /\ (overlapped => overlapped') /\ (blind => blind')
  /\ w.pc # "commit"
  /\ w.pc # "idle" =>
       /\ w.kind \in {"cancel", "resume"} /\ w.seen.plan = "paid" /\ Refers(w.seen)
       /\ ~overlapped' => \A g \in Owner : g # f => submitted[g].pc = "idle"
       /\ ~Amiss' => \A s \in Checkout!Sub : sub[s].live => s \in Checkout!Named(w.seen)
  /\ SoonWritten'

LEMMA FormMoves ==
  ASSUME CheckoutInv, NEW f \in Owner, NEW w, NEW r, FormStep(f, w, r)
  PROVE  CheckoutInv'
<1> USE DEF FormStep
<1>1. Checkout!Ordered' = Checkout!Ordered /\ sub' = sub /\ sent' = sent
  BY DEF Checkout!Ordered
<1>2. Amiss => Amiss'
  BY <1>1 DEF Amiss, CheckoutInv
<1>3. Numbered' /\ SubsHold' /\ SentHolds'
  BY <1>1 DEF CheckoutInv, Numbered, SubsHold, SentHolds
<1>4. RowHolds'
  <2>1. Refers(row)'
    BY <1>1 DEF Refers
  <2>2. \A s \in Checkout!Sub : Knows(row, s)' <=> Knows(row, s)
    BY <1>1 DEF Knows
  <2>3. \A s \in Checkout!Sub : sub'[s].live => Activation(s) \in sent' \/ Knows(row, s)'
    BY <1>1, <2>2 DEF CheckoutInv, RowHolds
  <2> QED
    BY <2>1, <2>3 DEF RowHolds, Activation
<1>5. /\ submitted' \in [Owner -> FormKind] /\ submitted'[f] = w
      /\ \A g \in Owner : g # f => submitted'[g] = submitted[g]
  BY DEF CheckoutInv
<1>6. FormsHold'
  <2> SUFFICES ASSUME NEW g \in Owner, submitted'[g].pc # "idle"
               PROVE  /\ submitted'[g].kind \in {"cancel", "resume"}
                      /\ submitted'[g].seen.plan = "paid" /\ Refers(submitted[g].seen)'
    BY DEF FormsHold
  <2>1. CASE g = f
    BY <1>1, <1>5, <2>1 DEF Refers
  <2>2. CASE g # f
    BY <1>1, <1>5, <2>2 DEF CheckoutInv, FormsHold, Refers
  <2> QED
    BY <2>1, <2>2
<1>7. Alone'
  BY <1>5 DEF CheckoutInv, Alone
<1>8. AsksForIt'
  <2> SUFFICES ASSUME ~Amiss', NEW g \in Owner, NEW s \in Checkout!Sub, submitted'[g].pc = "call", sub[s].live
               PROVE  s \in Checkout!Named(submitted'[g].seen)
    BY <1>1 DEF AsksForIt, Checkout!Named
  <2>1. CASE g = f
    BY <1>5, <2>1
  <2>2. CASE g # f
    BY <1>2, <1>5, <2>2 DEF CheckoutInv, AsksForIt
  <2> QED
    BY <2>1, <2>2
<1>9. Stopped'
  BY <1>1, <1>2, <1>5 DEF CheckoutInv, Stopped
<1> QED
  BY <1>1, <1>3, <1>4, <1>5, <1>6, <1>7, <1>8, <1>9 DEF CheckoutInv
\* The page is drawn, the form is sent, and the row is written.
LEMMA PageShownKeeps ==
  ASSUME CheckoutInv, NEW f \in Owner, Checkout!BillingPage(f)
  PROVE  CheckoutInv'
<1> DEFINE w == [submitted[f] EXCEPT !.offers = Checkout!Offers(row)]
<1>0. /\ submitted[f] \in FormKind /\ submitted[f].pc = "idle" /\ Checkout!Ordered' = Checkout!Ordered
      /\ Refers(row) /\ row \in RowKind
      /\ UNCHANGED <<row, sub, sent, browser, renewals, outages, overlapped, blind>>
  BY DEF Checkout!BillingPage, Checkout!bounds, CheckoutInv, RowHolds, Checkout!Ordered
<1>1. Checkout!Offers(row) \subseteq {"cancel", "resume"}
  BY DEF Checkout!Offers
<1>2. w \in FormKind /\ w.pc = "idle"
  BY <1>0, <1>1 DEF FormKind
<1>3. submitted' = [submitted EXCEPT ![f] = w]
  BY DEF Checkout!BillingPage
<1> HIDE DEF w
<1>4. SoonWritten'
  <2>1. \A g \in Owner : g # f => submitted'[g] = submitted[g]
    BY <1>3 DEF CheckoutInv
  <2> QED
    BY <1>0, <2>1 DEF CheckoutInv, SoonWritten, Amiss
<1>5. FormStep(f, w, row)
  BY <1>0, <1>2, <1>3, <1>4 DEF FormStep, CheckoutInv
<1> QED
  BY <1>5, FormMoves

LEMMA FormSentKeeps ==
  ASSUME CheckoutInv, NEW f \in Owner, NEW kind \in {"cancel", "resume"}, Checkout!Submit(f, kind)
  PROVE  CheckoutInv'
<1> DEFINE w == [pc |-> "call", kind |-> kind, seen |-> row, offers |-> {}]
<1>0. /\ submitted[f].pc = "idle" /\ row.plan = "paid" /\ Refers(row) /\ row \in RowKind
      /\ Checkout!Ordered' = Checkout!Ordered /\ Checkout!Ordered \subseteq Checkout!Sub
      /\ UNCHANGED <<row, sub, sent, browser, renewals, outages>>
      /\ SubsHold /\ RowHolds /\ overlapped \in BOOLEAN /\ blind \in BOOLEAN
  BY DEF Checkout!Submit, Checkout!Cancellable, CheckoutInv, RowHolds, Checkout!Ordered
<1>1. w \in FormKind /\ w.pc = "call" /\ w.kind = kind /\ w.seen = row
  BY <1>0 DEF FormKind
<1>2. submitted' = [submitted EXCEPT ![f] = w]
  BY DEF Checkout!Submit
<1> HIDE DEF w
<1>3. /\ overlapped' \in BOOLEAN /\ (overlapped => overlapped')
      /\ ~overlapped' => \A g \in Owner : submitted[g].pc = "idle"
  BY <1>0 DEF Checkout!Submit
<1>4. /\ blind' \in BOOLEAN /\ (blind => blind')
      /\ ~blind' => Checkout!Named(row) # {} \/ \A e \in sent : e.type # "activate"
  BY <1>0 DEF Checkout!Submit
<1>5. Amiss => Amiss'
  BY <1>0, <1>3, <1>4 DEF Amiss
<1>6. ASSUME ~Amiss', NEW s \in Checkout!Sub, sub[s].live
      PROVE  s \in Checkout!Named(row)
  <2>0. Cardinality(Checkout!Ordered) <= 1
    <3>1. IsFiniteSet(Checkout!Sub)
      BY CheckoutConstants, FS_Interval
    <3>2. IsFiniteSet(Checkout!Ordered)
      BY <1>0, <3>1, FS_Subset
    <3>3. Cardinality(Checkout!Ordered) \in Nat
      BY <3>2, FS_CardinalityType
    <3> QED
      BY <1>5, <1>6, <3>3 DEF Amiss
  <2>1. s = 1 /\ \A t \in Checkout!Ordered : t = s
    BY <1>0, <1>6, <2>0, OnlyFirst DEF SubsHold
  <2>2. {row.paystack, row.token, row.polar} \subseteq {0, s} /\ row.by = sub[s].by
    BY <1>0, <2>1 DEF Refers
  <2>3. Checkout!Named(row) \subseteq {s}
    BY <2>2 DEF Checkout!Named, Checkout!None
  <2>4. CASE Activation(s) \in sent
    <3>1. Activation(s).type = "activate" /\ ~blind'
      BY <1>6 DEF Activation, Amiss
    <3>2. Checkout!Named(row) # {}
      BY <1>4, <2>4, <3>1
    <3> QED
      BY <2>3, <3>2
  <2>5. CASE Knows(row, s)
    BY <2>1, <2>2, <2>5 DEF Knows, Checkout!Named, Checkout!None
  <2> QED
    BY <1>0, <1>6, <2>4, <2>5 DEF RowHolds
<1>7. SoonWritten'
  BY <1>0, <1>3, <1>5 DEF CheckoutInv, SoonWritten, Amiss
<1>8. FormStep(f, w, row)
  BY <1>0, <1>1, <1>2, <1>3, <1>4, <1>6, <1>7 DEF FormStep
<1> QED
  BY <1>8, FormMoves

LEMMA RowWrittenKeeps ==
  ASSUME CheckoutInv, NEW f \in Owner, Checkout!Commit(f)
  PROVE  CheckoutInv'
<1> DEFINE seen == submitted[f].seen
           r == IF submitted[f].kind = "cancel" THEN Checkout!CancelRow(row, seen) ELSE Checkout!ResumeRow(row)
<1>0. /\ submitted[f].pc = "commit" /\ Refers(row) /\ row \in RowKind
      /\ submitted' = [submitted EXCEPT ![f] = Checkout!Idle] /\ row' = r
      /\ Checkout!Ordered' = Checkout!Ordered
      /\ UNCHANGED <<sub, sent, browser, renewals, outages, overlapped, blind>>
  BY DEF Checkout!Commit, Checkout!bounds, CheckoutInv, RowHolds, Checkout!Ordered
<1>1. seen \in RowKind /\ seen.plan = "paid" /\ Refers(seen)
  BY <1>0 DEF CheckoutInv, FormKind, FormsHold
<1> HIDE DEF seen
<1>2. /\ r \in RowKind /\ Refers(r)
      /\ r.paystack = row.paystack /\ r.token = row.token /\ r.polar = row.polar
      /\ r.status = "cancelled" => submitted[f].kind = "cancel"
  <2>1. CASE submitted[f].kind = "cancel"
    <3>1. r = [row EXCEPT !.plan = "paid", !.status = "cancelled", !.atEnd = TRUE, !.by = seen.by]
      BY <2>1 DEF Checkout!CancelRow
    <3> HIDE DEF r
    <3>2. /\ r \in RowKind /\ r.plan = "paid" /\ r.status = "cancelled" /\ r.by = seen.by
          /\ r.paystack = row.paystack /\ r.token = row.token /\ r.polar = row.polar
      BY <1>0, <1>1, <3>1 DEF RowKind
    <3>3. Refers(r)
      BY <1>0, <1>1, <3>2 DEF Refers
    <3> QED
      BY <2>1, <3>2, <3>3
  <2>2. CASE submitted[f].kind # "cancel"
    <3>1. r = [row EXCEPT !.status = "active", !.atEnd = FALSE]
      BY <2>2 DEF Checkout!ResumeRow
    <3> HIDE DEF r
    <3>2. /\ r \in RowKind /\ r.plan = row.plan /\ r.status = "active" /\ r.by = row.by
          /\ r.paystack = row.paystack /\ r.token = row.token /\ r.polar = row.polar
      BY <1>0, <3>1 DEF RowKind
    <3>3. Refers(r)
      BY <1>0, <3>2 DEF Refers
    <3> QED
      BY <3>2, <3>3
  <2> QED
    BY <2>1, <2>2
<1> HIDE DEF r
<1>3. SoonWritten'
  <2>1. ~Amiss' /\ submitted[f].kind = "cancel" => \A s \in Checkout!Sub : ~sub'[s].renews
    BY <1>0 DEF CheckoutInv, Stopped, Amiss
  <2> QED
    BY <1>0, <1>2, <2>1 DEF SoonWritten
<1>4. FormStep(f, Checkout!Idle, r)
  <2>1. overlapped' \in BOOLEAN /\ blind' \in BOOLEAN /\ (overlapped => overlapped') /\ (blind => blind')
    BY <1>0 DEF CheckoutInv
  <2> QED
    BY <1>0, <1>2, <1>3, <2>1, CheckoutConstants DEF FormStep
<1> QED
  BY <1>4, FormMoves

LEMMA CheckoutStep == CheckoutInv /\ [Next]_vars => CheckoutInv'
<1> SUFFICES ASSUME CheckoutInv, [Next]_vars PROVE CheckoutInv'
  OBVIOUS
<1>1. CASE UNCHANGED checkout
  BY <1>1 DEF checkout, CheckoutInv, Amiss, Numbered, SubsHold, SentHolds, RowHolds, Refers, Knows,
              Activation, FormsHold, Alone, AsksForIt, Stopped, SoonWritten, Checkout!Ordered, Checkout!Named
<1>2. CASE Checkout!Next
  BY <1>2, PayKeeps, EventKeeps, ProviderKeeps, PageShownKeeps, CallKeeps, RowWrittenKeeps, FormSentKeeps
  DEF Checkout!Next
<1>3. Checkout!Next \/ UNCHANGED checkout
  BY DEF Next, vars
<1> QED
  BY <1>1, <1>2, <1>3

\* A cancelled row of which every event and form has been applied means that nothing
\* renews, unless a call failed, forms overlapped, one came before the ids, or a
\* second checkout was paid (billing/page.tsx:107): for any number of tabs, checkouts
\* and renewals.
THEOREM CancelledStops == Spec => []CancelledIsStopped
<1>1. Init => CheckoutInv
  BY CheckoutInit DEF Init
<1>2. CheckoutInv => CancelledIsStopped
  <2> SUFFICES ASSUME CheckoutInv PROVE CancelledIsStopped
    OBVIOUS
  <2>1. Checkout!Cardinality(Checkout!Ordered) = Cardinality(Checkout!Ordered)
    BY SameSubCount
  <2> QED
    BY <2>1 DEF CheckoutInv, SoonWritten, Amiss, CancelledIsStopped, Checkout!CancelledIsStopped, Checkout!Quiet
<1> QED
  BY <1>1, <1>2, CheckoutStep, PTL DEF Spec
-----------------------------------------------------------------------------
(***************************************************************************)
(* Visits: a payload that was not put together over an edit is that of the *)
(* setting it was read under, and a variant's cookie leads to the place it *)
(* was given for.                                                          *)
(***************************************************************************)
RuleRow == [type : Visits!Mode, countries : SUBSET STRING, device : STRING, weight : Int, url : STRING]
Setting == [mode : Visits!Mode, rules : Seq(Visits!Rule)]
Payload == [full : {TRUE}, mode : Visits!Mode, rules : Seq(RuleRow), version : Nat,
            mixed : BOOLEAN, hasPassword : BOOLEAN, interstitial : BOOLEAN]

\* The settings s so far were accepted, and the tables hold the last of them.
SettingsHold(s) ==
  /\ s \in Seq(Setting) /\ Len(s) > 0
  /\ \A v \in 1..Len(s) : Visits!Accepted(s[v])
  /\ mode = s[Len(s)].mode /\ rules = Visits!Rows(s[Len(s)])

\* A payload p whose rules are still to be read, or were; a cookie's variant v, given as k says.
Half(p, s) == p \in Payload /\ p.version \in 1..Len(s) /\ p.mode = s[p.version].mode
Whole(p, s) ==
  p \in Payload /\ p.version \in 1..Len(s)
  /\ (~p.mixed => p.mode = s[p.version].mode /\ p.rules = Visits!Rows(s[p.version]))
Given(v, k, s) ==
  /\ v \in Int
  /\ k.version # 0 =>
       /\ k.version \in 1..Len(s) /\ s[k.version].mode = "ab"
       /\ v \in 0..(Len(s[k.version].rules) - 1) /\ k.url = s[k.version].rules[v + 1].url

\* Where a visitor who holds a variant, if any, is sent under the setting f.
Routed(f, held, from, url) ==
  \/ \E i \in DOMAIN f.rules :
       /\ url = f.rules[i].url
       /\ \/ /\ Visits!Names(f.rules[i], f, from)
             /\ \A j \in 1..(i - 1) : ~Visits!Names(f.rules[j], f, from)
          \/ f.mode = "ab" /\ (f.rules[i].weight > 0 \/ held = i - 1)
  \/ /\ url = Visits!Own /\ f.mode # "ab"
     /\ \A i \in DOMAIN f.rules : ~Visits!Names(f.rules[i], f, from)

TabHolds(u, s) ==
  /\ u.code \in Code
  /\ u.at \in {"lookup", "rules", "gate", "sent"} => Given(u.sent.variant, u.sent.told, s)
  /\ u.at = "rules" => Half(u.payload, s)
  /\ u.at \in {"gate", "sent"} => Whole(u.payload, s)
  /\ u.at = "sent" /\ ~u.payload.mixed =>
       /\ Routed(s[u.payload.version], u.sent.variant, u.country, u.url)
       /\ u.sent.told.version = u.payload.version => u.url = u.sent.told.url

CacheHolds(s) ==
  DOMAIN cache = Code /\ \A c \in Code : cache[c] = Visits!NoPayload \/ Whole(cache[c], s)
CookiesHold(s) ==
  DOMAIN variant = Code /\ DOMAIN told = Code /\ \A c \in Code : Given(variant[c], told[c], s)
TabsHold(s) == DOMAIN tab = Tab /\ \A t \in Tab : TabHolds(tab[t], s)

VisitInv ==
  /\ protected \in BOOLEAN /\ interstitial \in BOOLEAN
  /\ SettingsHold(settings) /\ CacheHolds(settings) /\ CookiesHold(settings) /\ TabsHold(settings)

\* The rows an accepted form becomes are its rules, in their order, each under its mode.
LEMMA RowsOf ==
  ASSUME NEW f \in Setting, Visits!Accepted(f)
  PROVE  /\ Visits!Rows(f) \in Seq(RuleRow)
         /\ f.mode = "single" => Visits!Rows(f) = <<>>
         /\ f.mode # "single" =>
              /\ Visits!Rows(f) # <<>> /\ Len(Visits!Rows(f)) = Len(f.rules)
              /\ DOMAIN Visits!Rows(f) = 1..Len(f.rules) /\ DOMAIN f.rules = 1..Len(f.rules)
              /\ \A i \in 1..Len(f.rules) :
                   /\ Visits!Rows(f)[i].type = f.mode
                   /\ Visits!Rows(f)[i].countries = f.rules[i].countries
                   /\ Visits!Rows(f)[i].device = f.rules[i].device
                   /\ Visits!Rows(f)[i].weight = f.rules[i].weight
                   /\ Visits!Rows(f)[i].url = f.rules[i].url
<1> DEFINE rows == Visits!Rows(f)
<1>1. /\ f.rules \in Seq(Visits!Rule) /\ f.mode \in Visits!Mode /\ Len(f.rules) \in Nat
      /\ DOMAIN f.rules = 1..Len(f.rules) /\ \A i \in 1..Len(f.rules) : f.rules[i] \in Visits!Rule
  BY DEF Setting
<1>2. CASE f.mode = "single"
  BY <1>2 DEF Visits!Rows
<1>3. CASE f.mode # "single"
  <2>1. rows = [i \in 1..Len(f.rules) |-> [f.rules[i] EXCEPT !.type = f.mode]]
    BY <1>1, <1>3 DEF Visits!Rows
  <2>2. ASSUME NEW i \in 1..Len(f.rules)
        PROVE  /\ rows[i] \in RuleRow /\ rows[i].type = f.mode
               /\ rows[i].countries = f.rules[i].countries /\ rows[i].device = f.rules[i].device
               /\ rows[i].weight = f.rules[i].weight /\ rows[i].url = f.rules[i].url
    <3>1. f.rules[i] \in Visits!Rule /\ rows[i] = [f.rules[i] EXCEPT !.type = f.mode]
      BY <1>1, <2>1
    <3> QED
      BY <1>1, <3>1 DEF Visits!Rule, RuleRow
  <2>3. rows \in [1..Len(f.rules) -> RuleRow]
    BY <2>1, <2>2
  <2>4. rows \in Seq(RuleRow) /\ Len(rows) = Len(f.rules) /\ DOMAIN rows = 1..Len(f.rules)
    BY <1>1, <2>3
  <2>5. f.rules # <<>>
    BY <1>3 DEF Visits!Accepted
  <2>6. rows # <<>>
    BY <1>1, <2>4, <2>5
  <2> QED
    BY <1>1, <1>3, <2>2, <2>4, <2>6
<1> QED
  BY <1>2, <1>3

\* Where resolveDestination sends with the rows of an accepted form, and which variant it gives.
LEMMA SendsWhere ==
  ASSUME NEW f \in Setting, Visits!Accepted(f),
         NEW p, p.mode = f.mode, p.rules = Visits!Rows(f),
         NEW held \in Int, NEW from, NEW d \in Visits!Destinations(p, held, from)
  PROVE  /\ Routed(f, held, from, d.url)
         /\ d.set # Visits!NoVariant =>
              f.mode = "ab" /\ d.set \in 0..(Len(f.rules) - 1) /\ d.url = f.rules[d.set + 1].url
         /\ f.mode = "ab" /\ held \in 0..(Len(f.rules) - 1) => d.url = f.rules[held + 1].url
<1> DEFINE n == Len(f.rules)
<1>1. f.mode \in Visits!Mode /\ f.rules \in Seq(Visits!Rule) /\ n \in Nat /\ DOMAIN f.rules = 1..n
  BY DEF Setting
<1>2. CASE f.mode = "single"
  <2>1. d = Visits!To(Visits!Own, Visits!NoVariant)
    BY <1>2 DEF Visits!Destinations
  <2>2. d.url = Visits!Own /\ d.set = Visits!NoVariant
    BY <2>1 DEF Visits!To
  <2> QED
    BY <1>2, <2>2 DEF Routed, Visits!Names
<1>3. ASSUME f.mode # "single"
      PROVE  /\ p.rules # <<>> /\ Len(p.rules) = n /\ DOMAIN p.rules = 1..n
             /\ \A i \in 1..n : /\ p.rules[i].type = f.mode
                                /\ p.rules[i].countries = f.rules[i].countries
                                /\ p.rules[i].device = f.rules[i].device
                                /\ p.rules[i].weight = f.rules[i].weight
                                /\ p.rules[i].url = f.rules[i].url
  BY <1>3, RowsOf
<1>4. CASE f.mode \in {"geo", "device"}
  <2>1. d = Visits!FirstMatch(p, f.mode, from)
    BY <1>3, <1>4 DEF Visits!Destinations
  <2>2. \A i \in 1..n : Visits!Selects(p.rules[i], f.mode, from) <=> Visits!Names(f.rules[i], f, from)
    BY <1>3, <1>4 DEF Visits!Selects, Visits!Names
  <2> DEFINE found == {i \in DOMAIN p.rules : Visits!Selects(p.rules[i], f.mode, from)}
  <2>3. CASE found = {}
    <3>1. d = Visits!To(Visits!Own, Visits!NoVariant)
      BY <2>1, <2>3 DEF Visits!FirstMatch
    <3>2. d.url = Visits!Own /\ d.set = Visits!NoVariant
      BY <3>1 DEF Visits!To
    <3>3. \A i \in DOMAIN f.rules : ~Visits!Names(f.rules[i], f, from)
      BY <1>1, <1>3, <1>4, <2>2, <2>3
    <3> QED
      BY <1>4, <3>2, <3>3 DEF Routed
  <2>4. CASE found # {}
    <3> DEFINE i == CHOOSE i \in found : \A j \in found : i <= j
    <3>1. found \subseteq Nat /\ \A x \in found : x \in 1..n
      BY <1>1, <1>3, <1>4
    <3>2. \E x \in found : \A j \in found : x <= j
      <4> HIDE DEF found
      <4> QED
        BY <2>4, <3>1, LeastOf
    <3>3. i \in found /\ \A j \in found : i <= j
      <4> HIDE DEF found
      <4> QED
        BY <3>2
    <3>4. d = Visits!To(p.rules[i].url, Visits!NoVariant)
      BY <2>1, <2>4 DEF Visits!FirstMatch
    <3> HIDE DEF i
    <3>5. i \in 1..n /\ Visits!Names(f.rules[i], f, from) /\ d.url = f.rules[i].url
          /\ d.set = Visits!NoVariant
      BY <1>3, <1>4, <2>2, <3>1, <3>3, <3>4 DEF Visits!To
    <3>6. ASSUME NEW j \in 1..(i - 1) PROVE ~Visits!Names(f.rules[j], f, from)
      <4>1. j \in 1..n /\ ~(i <= j)
        BY <1>1, <3>5
      <4>2. j \notin found
        BY <3>3, <4>1
      <4> QED
        BY <1>3, <1>4, <2>2, <4>1, <4>2
    <3>7. Routed(f, held, from, d.url)
      BY <1>1, <3>5, <3>6 DEF Routed
    <3> QED
      BY <1>4, <3>5, <3>7
  <2> QED
    BY <2>3, <2>4
<1>5. CASE f.mode = "ab"
  <2>1. CASE held >= 0 /\ held < n
    <3>1. d = Visits!To(p.rules[held + 1].url, Visits!NoVariant) /\ held + 1 \in 1..n
      BY <1>1, <1>3, <1>5, <2>1 DEF Visits!Destinations
    <3>2. d.url = f.rules[held + 1].url /\ d.set = Visits!NoVariant
      BY <1>3, <1>5, <3>1 DEF Visits!To
    <3>3. held = (held + 1) - 1
      OBVIOUS
    <3>4. Routed(f, held, from, d.url)
      BY <1>1, <1>5, <3>1, <3>2, <3>3 DEF Routed
    <3> QED
      BY <3>2, <3>4
  <2>2. CASE ~(held >= 0 /\ held < n)
    <3>1. PICK i \in Visits!Drawn(p) : d = Visits!To(p.rules[i].url, i - 1)
      BY <1>1, <1>3, <1>5, <2>2 DEF Visits!Destinations
    <3>2. \E k \in 1..n : f.rules[k].weight > 0
      BY <1>1, <1>5 DEF Visits!Accepted
    <3>3. \A k \in 1..n : Visits!Weight(p.rules[k]) = f.rules[k].weight
      BY <1>3, <1>5 DEF Visits!Weight
    <3>4. i \in 1..n /\ f.rules[i].weight > 0
      BY <1>3, <1>5, <3>1, <3>2, <3>3 DEF Visits!Drawn
    <3>5. d.url = f.rules[i].url /\ d.set = i - 1
      BY <1>3, <1>5, <3>1, <3>4 DEF Visits!To
    <3>6. Routed(f, held, from, d.url)
      BY <1>1, <1>5, <3>4, <3>5 DEF Routed
    <3>7. i - 1 \in 0..(n - 1) /\ (i - 1) + 1 = i
      BY <1>1, <3>4
    <3>8. d.set \in 0..(n - 1) /\ d.url = f.rules[d.set + 1].url
      BY <3>5, <3>7
    <3>9. ~(held \in 0..(n - 1))
      BY <1>1, <2>2
    <3> QED
      BY <1>5, <3>6, <3>8, <3>9
  <2> QED
    BY <2>1, <2>2
<1> QED
  BY <1>1, <1>2, <1>4, <1>5 DEF Visits!Mode
\* What held under the settings s holds when another is accepted.
LEMMA StillHolds ==
  ASSUME NEW s \in Seq(Setting), NEW f \in Setting
  PROVE  /\ Append(s, f) \in Seq(Setting) /\ Len(Append(s, f)) = Len(s) + 1 /\ Len(s) \in Nat
         /\ Append(s, f)[Len(s) + 1] = f
         /\ \A v \in 1..Len(s) : Append(s, f)[v] = s[v]
         /\ \A v \in 1..Len(s) : v \in 1..(Len(s) + 1)
         /\ \A p : (Half(p, s) => Half(p, Append(s, f))) /\ (Whole(p, s) => Whole(p, Append(s, f)))
         /\ \A v, k : Given(v, k, s) => Given(v, k, Append(s, f))
         /\ \A u : TabHolds(u, s) => TabHolds(u, Append(s, f))
<1> DEFINE z == Append(s, f)
<1>1. /\ z \in Seq(Setting) /\ Len(z) = Len(s) + 1 /\ Len(s) \in Nat
      /\ z[Len(s) + 1] = f /\ \A v \in 1..Len(s) : z[v] = s[v]
  OBVIOUS
<1> HIDE DEF z
<1>2. \A v \in 1..Len(s) : v \in 1..Len(z) /\ z[v] = s[v]
  BY <1>1
<1>3. ASSUME NEW p PROVE (Half(p, s) => Half(p, z)) /\ (Whole(p, s) => Whole(p, z))
  BY <1>2 DEF Half, Whole
<1>4. ASSUME NEW v, NEW k, Given(v, k, s) PROVE Given(v, k, z)
  BY <1>2, <1>4 DEF Given
<1>5. ASSUME NEW u, TabHolds(u, s) PROVE TabHolds(u, z)
  <2>1. u.at \in {"gate", "sent"} => u.payload.version \in 1..Len(s)
    BY <1>5 DEF TabHolds, Whole
  <2>2. u.at = "sent" => z[u.payload.version] = s[u.payload.version]
    BY <1>2, <2>1
  <2>3. u.at = "sent" /\ ~u.payload.mixed =>
          /\ Routed(z[u.payload.version], u.sent.variant, u.country, u.url)
          /\ u.sent.told.version = u.payload.version => u.url = u.sent.told.url
    BY <1>5, <2>2 DEF TabHolds
  <2> QED
    BY <1>3, <1>4, <1>5, <2>3 DEF TabHolds
<1> QED
  BY <1>1, <1>2, <1>3, <1>4, <1>5 DEF z

LEMMA VisitInit == Visits!Init => VisitInv
<1> SUFFICES ASSUME Visits!Init PROVE VisitInv
  OBVIOUS
<1> DEFINE f == [mode |-> "single", rules |-> <<>>]
<1>1. f \in Setting /\ f.mode = "single" /\ f.rules = <<>>
  BY DEF Setting, Visits!Mode
<1>2. Visits!Accepted(f) /\ Visits!Rows(f) = <<>>
  BY <1>1 DEF Visits!Accepted, Visits!Rows
<1>3. settings = <<f>> /\ mode = "single" /\ rules = <<>>
  BY DEF Visits!Init
<1> HIDE DEF f
<1>4. settings \in Seq(Setting) /\ Len(settings) = 1 /\ settings[1] = f
  BY <1>1, <1>3
<1>5. SettingsHold(settings)
  BY <1>1, <1>2, <1>3, <1>4 DEF SettingsHold
<1>6. ASSUME NEW c \in Code PROVE Given(variant[c], told[c], settings)
  <2>1. variant[c] = -1 /\ told[c].version = 0
    BY DEF Visits!Init, Visits!NoVariant, Visits!NoTold
  <2> QED
    BY <2>1 DEF Given
<1>7. ASSUME NEW t \in Tab PROVE TabHolds(tab[t], settings)
  <2>1. tab[t].at = "blank" /\ tab[t].code = Current
    BY DEF Visits!Init, Visits!Blank
  <2> QED
    BY <2>1, MCRequestsAssumption DEF TabHolds, Visits!VisitsAssumption
<1>8. /\ protected \in BOOLEAN /\ interstitial \in BOOLEAN /\ DOMAIN cache = Code
      /\ DOMAIN variant = Code /\ DOMAIN told = Code /\ DOMAIN tab = Tab
      /\ \A c \in Code : cache[c] = Visits!NoPayload
  BY DEF Visits!Init
<1> QED
  BY <1>5, <1>6, <1>7, <1>8 DEF VisitInv, CacheHolds, CookiesHold, TabsHold

\* A step that leaves the settings keeps it if what it writes holds under them.
LEMMA VisitKept ==
  ASSUME VisitInv, UNCHANGED <<mode, rules, settings, interstitial>>, protected' \in BOOLEAN,
         DOMAIN cache' = Code, DOMAIN variant' = Code, DOMAIN told' = Code, DOMAIN tab' = Tab,
         \A c \in Code : \/ cache'[c] = cache[c] \/ cache'[c] = Visits!NoPayload
                         \/ Whole(cache'[c], settings),
         \A c \in Code : \/ variant'[c] = variant[c] /\ told'[c] = told[c]
                         \/ Given(variant'[c], told'[c], settings),
         \A t \in Tab : tab'[t] = tab[t] \/ TabHolds(tab'[t], settings)
  PROVE  VisitInv'
<1> DEFINE s == settings
<1>1. SettingsHold(s)'
  BY DEF VisitInv, SettingsHold
<1>2. CacheHolds(s)'
  BY DEF VisitInv, CacheHolds
<1>3. CookiesHold(s)'
  BY DEF VisitInv, CookiesHold
<1>4. TabsHold(s)'
  BY DEF VisitInv, TabsHold
<1> QED
  BY <1>1, <1>2, <1>3, <1>4 DEF VisitInv

\* A step of one tab.
LEMMA TabGoes ==
  ASSUME VisitInv, NEW t \in Tab, NEW u, tab' = [tab EXCEPT ![t] = u], TabHolds(u, settings),
         UNCHANGED <<mode, rules, settings, protected, interstitial, variant, told>>,
         \/ cache' = cache
         \/ \E c \in Code : \E p : cache' = [cache EXCEPT ![c] = p] /\ Whole(p, settings)
  PROVE  VisitInv'
<1>1. /\ DOMAIN tab' = Tab /\ tab'[t] = u /\ \A v \in Tab : v # t => tab'[v] = tab[v]
      /\ DOMAIN tab = Tab
  BY DEF VisitInv, TabsHold
<1>2. \A v \in Tab : tab'[v] = tab[v] \/ TabHolds(tab'[v], settings)
  BY <1>1
<1>3. DOMAIN cache' = Code /\ \A c \in Code : cache'[c] = cache[c] \/ Whole(cache'[c], settings)
  BY DEF VisitInv, CacheHolds
<1>4. protected' \in BOOLEAN /\ DOMAIN variant' = Code /\ DOMAIN told' = Code
  BY DEF VisitInv, CookiesHold
<1> QED
  BY <1>1, <1>2, <1>3, <1>4, VisitKept

\* A screen that is no request.
LEMMA ScreenHolds ==
  ASSUME NEW u, u.code \in Code, u.at \notin {"lookup", "rules", "gate", "sent"}
  PROVE  TabHolds(u, settings)
BY DEF TabHolds

LEMMA ShowsKeeps ==
  ASSUME VisitInv, NEW t \in Tab, NEW shown, shown \notin {"lookup", "rules", "gate", "sent"},
         Visits!Shows(t, shown),
         UNCHANGED <<mode, rules, settings, protected, interstitial, variant, told, cache>>
  PROVE  VisitInv'
<1> DEFINE u == [at |-> shown, code |-> tab[t].code]
<1>1. tab' = [tab EXCEPT ![t] = u]
  BY DEF Visits!Shows
<1>2. u.code \in Code /\ u.at = shown
  BY DEF VisitInv, TabsHold, TabHolds
<1> HIDE DEF u
<1>3. TabHolds(u, settings)
  BY <1>2, ScreenHolds
<1> QED
  BY <1>1, <1>3, TabGoes

\* A request leaves with the cookies of now.
LEMMA RequestKeeps ==
  ASSUME VisitInv, NEW t \in Tab, NEW c \in Code, NEW path, Visits!Request(t, c, path),
         UNCHANGED <<mode, rules, settings, protected, interstitial, variant, told, cache>>
  PROVE  VisitInv'
<1> DEFINE sent0 == [path |-> path, code |-> c, proved |-> c \in proof, variant |-> variant[c],
                     told |-> told[c]]
           hit == [at |-> "gate", code |-> c, sent |-> sent0, payload |-> cache[c]]
           miss == [at |-> "lookup", code |-> c, sent |-> sent0]
<1>1. Given(variant[c], told[c], settings) /\ (cache[c] # Visits!NoPayload => Whole(cache[c], settings))
  BY DEF VisitInv, CookiesHold, CacheHolds
<1>2. tab' = [tab EXCEPT ![t] = IF cache[c] # Visits!NoPayload THEN hit ELSE miss]
  BY DEF Visits!Request
<1>3. sent0.variant = variant[c] /\ sent0.told = told[c]
  OBVIOUS
<1> HIDE DEF sent0
<1>4. /\ hit.at = "gate" /\ hit.code = c /\ hit.sent = sent0 /\ hit.payload = cache[c]
      /\ miss.at = "lookup" /\ miss.code = c /\ miss.sent = sent0
  OBVIOUS
<1> HIDE DEF hit, miss
<1>5. cache[c] # Visits!NoPayload => TabHolds(hit, settings)
  BY <1>1, <1>3, <1>4 DEF TabHolds
<1>6. TabHolds(miss, settings)
  BY <1>1, <1>3, <1>4 DEF TabHolds
<1>7. TabHolds(IF cache[c] # Visits!NoPayload THEN hit ELSE miss, settings)
  BY <1>5, <1>6
<1> QED
  BY <1>2, <1>7, TabGoes
\* The row is read: the setting it is of is the last.
LEMMA RowReadKeeps ==
  ASSUME VisitInv, NEW t \in Tab, Visits!LookupLink(t)
  PROVE  VisitInv'
<1> DEFINE p == Visits!Row
           gate == [at |-> "gate", code |-> tab[t].code, sent |-> tab[t].sent, payload |-> p]
           next == [gate EXCEPT !.at = "rules"]
<1>1. /\ tab[t].code \in Code /\ Given(tab[t].sent.variant, tab[t].sent.told, settings)
      /\ SettingsHold(settings) /\ protected \in BOOLEAN /\ interstitial \in BOOLEAN
  BY DEF Visits!LookupLink, VisitInv, TabsHold, TabHolds
<1>2. /\ Len(settings) \in Nat /\ Len(settings) \in 1..Len(settings) /\ settings \in Seq(Setting)
      /\ settings[Len(settings)] \in Setting /\ Visits!Accepted(settings[Len(settings)])
      /\ mode = settings[Len(settings)].mode /\ rules = Visits!Rows(settings[Len(settings)])
  BY <1>1 DEF SettingsHold
<1>3. mode \in Visits!Mode /\ (mode = "single" => rules = <<>>)
  BY <1>2, RowsOf DEF Setting
<1>4. /\ p.version = Len(settings) /\ p.mode = mode /\ p.rules = <<>> /\ p \in Payload
  BY <1>1, <1>2, <1>3 DEF Visits!Row, Visits!version, Payload
<1>5. Half(p, settings) /\ (mode = "single" => Whole(p, settings))
  BY <1>2, <1>3, <1>4 DEF Half, Whole
<1>6. UNCHANGED <<mode, rules, settings, protected, interstitial, variant, told>>
  BY DEF Visits!LookupLink, Visits!owner, Visits!cookies
<1>7. /\ mode = "single" => tab' = [tab EXCEPT ![t] = gate] /\ cache' = [cache EXCEPT ![tab[t].code] = p]
      /\ mode # "single" => tab' = [tab EXCEPT ![t] = next] /\ cache' = cache
  BY DEF Visits!LookupLink, Visits!AtGate, Visits!Stored
<1>8. /\ gate.at = "gate" /\ gate.code = tab[t].code /\ gate.sent = tab[t].sent /\ gate.payload = p
      /\ next.at = "rules" /\ next.code = tab[t].code /\ next.sent = tab[t].sent /\ next.payload = p
  BY DEF Visits!Row
<1> HIDE DEF p, gate, next
<1>9. CASE mode = "single"
  <2>1. TabHolds(gate, settings)
    BY <1>1, <1>5, <1>8, <1>9 DEF TabHolds
  <2>2. \E c \in Code : \E q : cache' = [cache EXCEPT ![c] = q] /\ Whole(q, settings)
    BY <1>1, <1>5, <1>7, <1>9
  <2> QED
    BY <1>6, <1>7, <1>9, <2>1, <2>2, TabGoes
<1>10. CASE mode # "single"
  <2>1. TabHolds(next, settings)
    BY <1>1, <1>5, <1>8, <1>10 DEF TabHolds
  <2> QED
    BY <1>6, <1>7, <1>10, <2>1, TabGoes
<1> QED
  BY <1>9, <1>10

\* The rules are read: they are of the last setting, and the payload says whether the row was.
LEMMA RulesReadKeeps ==
  ASSUME VisitInv, NEW t \in Tab, Visits!LookupDestinations(t)
  PROVE  VisitInv'
<1> DEFINE old == tab[t].payload
           p == [old EXCEPT !.rules = rules, !.mixed = old.version # Visits!version]
           gate == [at |-> "gate", code |-> tab[t].code, sent |-> tab[t].sent, payload |-> p]
<1>1. /\ tab[t].code \in Code /\ Given(tab[t].sent.variant, tab[t].sent.told, settings)
      /\ SettingsHold(settings) /\ Half(old, settings)
  BY DEF Visits!LookupDestinations, VisitInv, TabsHold, TabHolds
<1>2. /\ settings[Len(settings)] \in Setting /\ Visits!Accepted(settings[Len(settings)])
      /\ rules = Visits!Rows(settings[Len(settings)])
  BY <1>1 DEF SettingsHold
<1>3. rules \in Seq(RuleRow)
  BY <1>2, RowsOf
<1>4. /\ p \in Payload /\ p.version = old.version /\ p.mode = old.mode /\ p.rules = rules
      /\ p.mixed = (old.version # Len(settings))
  BY <1>1, <1>3 DEF Half, Payload, Visits!version
<1>5. Whole(p, settings)
  <2>1. ~p.mixed => p.version = Len(settings)
    BY <1>4
  <2> HIDE DEF p
  <2> QED
    BY <1>1, <1>2, <1>4, <2>1 DEF Half, Whole
<1>6. UNCHANGED <<mode, rules, settings, protected, interstitial, variant, told>>
  BY DEF Visits!LookupDestinations, Visits!owner, Visits!cookies
<1>7. tab' = [tab EXCEPT ![t] = gate] /\ cache' = [cache EXCEPT ![tab[t].code] = p]
  BY DEF Visits!LookupDestinations, Visits!AtGate, Visits!Stored
<1>8. gate.at = "gate" /\ gate.code = tab[t].code /\ gate.sent = tab[t].sent /\ gate.payload = p
  OBVIOUS
<1> HIDE DEF p, gate
<1>9. TabHolds(gate, settings)
  BY <1>1, <1>5, <1>8 DEF TabHolds
<1>10. \E c \in Code : \E q : cache' = [cache EXCEPT ![c] = q] /\ Whole(q, settings)
  BY <1>1, <1>5, <1>7
<1> QED
  BY <1>6, <1>7, <1>9, <1>10, TabGoes

\* Any payload's destination gives a number, so that a cookie is one.
LEMMA VariantType ==
  ASSUME NEW p \in Payload, NEW held, NEW from, NEW d \in Visits!Destinations(p, held, from)
  PROVE  d.set \in Int
<1>1. p.rules \in Seq(RuleRow) /\ DOMAIN p.rules = 1..Len(p.rules) /\ Len(p.rules) \in Nat
  BY DEF Payload
<1>2. Visits!Drawn(p) \subseteq Int
  BY <1>1 DEF Visits!Drawn
<1>3. ASSUME NEW url, NEW v \in Int PROVE Visits!To(url, v).set \in Int
  BY <1>3 DEF Visits!To
<1>4. Visits!NoVariant \in Int
  BY DEF Visits!NoVariant
<1>5. CASE p.mode = "single" \/ p.rules = <<>>
  BY <1>3, <1>4, <1>5 DEF Visits!Destinations
<1>6. CASE ~(p.mode = "single" \/ p.rules = <<>>) /\ p.mode \in {"geo", "device"}
  <2>1. d = Visits!FirstMatch(p, p.mode, from)
    BY <1>6 DEF Visits!Destinations
  <2>2. \E url : d = Visits!To(url, Visits!NoVariant)
    BY <2>1 DEF Visits!FirstMatch
  <2> QED
    BY <1>3, <1>4, <2>2
<1>7. CASE ~(p.mode = "single" \/ p.rules = <<>>) /\ p.mode \notin {"geo", "device"}
  <2>1. \/ \E url : d = Visits!To(url, Visits!NoVariant)
        \/ \E i \in Visits!Drawn(p) : d = Visits!To(p.rules[i].url, i - 1)
    BY <1>7 DEF Visits!Destinations
  <2>2. ASSUME NEW i \in Visits!Drawn(p) PROVE i - 1 \in Int
    BY <1>2
  <2> QED
    BY <1>3, <1>4, <2>1, <2>2
<1> QED
  BY <1>5, <1>6, <1>7

LEMMA LandKeeps ==
  ASSUME VisitInv, NEW t \in Tab, tab[t].at = "gate", Visits!Land(t)
  PROVE  VisitInv'
<1>0. PICK from \in Visits!Located(tab[t].payload) :
        \E d \in Visits!Destinations(tab[t].payload, tab[t].sent.variant, from) :
          /\ tab' = [tab EXCEPT ![t] = [at |-> "sent", code |-> tab[t].code, sent |-> tab[t].sent,
                                       payload |-> tab[t].payload, url |-> d.url, country |-> from]]
          /\ IF d.set = Visits!NoVariant THEN UNCHANGED <<variant, told>>
             ELSE /\ variant' = [variant EXCEPT ![tab[t].code] = d.set]
                  /\ told' = [told EXCEPT ![tab[t].code] =
                       IF tab[t].payload.mixed THEN Visits!NoTold
                       ELSE [version |-> tab[t].payload.version, url |-> d.url]]
  BY DEF Visits!Land
<1>1. PICK d \in Visits!Destinations(tab[t].payload, tab[t].sent.variant, from) :
        /\ tab' = [tab EXCEPT ![t] = [at |-> "sent", code |-> tab[t].code, sent |-> tab[t].sent,
                                     payload |-> tab[t].payload, url |-> d.url, country |-> from]]
        /\ IF d.set = Visits!NoVariant THEN UNCHANGED <<variant, told>>
           ELSE /\ variant' = [variant EXCEPT ![tab[t].code] = d.set]
                /\ told' = [told EXCEPT ![tab[t].code] =
                     IF tab[t].payload.mixed THEN Visits!NoTold
                     ELSE [version |-> tab[t].payload.version, url |-> d.url]]
  BY <1>0
<1>2. PICK p, k : p = tab[t].payload /\ k = tab[t].sent.told
  BY Zenon
<1>3. PICK v, c : v = tab[t].sent.variant /\ c = tab[t].code
  BY Zenon
<1>4. /\ c \in Code /\ Given(v, k, settings) /\ Whole(p, settings) /\ SettingsHold(settings)
      /\ d \in Visits!Destinations(p, v, from)
  BY <1>1, <1>2, <1>3 DEF VisitInv, TabsHold, TabHolds
<1>5. v \in Int /\ d.set \in Int
  BY <1>4, VariantType DEF Given, Whole
<1>6. PICK f : f = settings[p.version]
  OBVIOUS
<1>7. p.version \in 1..Len(settings) /\ f \in Setting /\ Visits!Accepted(f)
  BY <1>4, <1>6 DEF Whole, SettingsHold
<1>8. ASSUME ~p.mixed
      PROVE  /\ Routed(f, v, from, d.url)
             /\ d.set # Visits!NoVariant =>
                  f.mode = "ab" /\ d.set \in 0..(Len(f.rules) - 1) /\ d.url = f.rules[d.set + 1].url
             /\ f.mode = "ab" /\ v \in 0..(Len(f.rules) - 1) => d.url = f.rules[v + 1].url
  <2>1. p.mode = f.mode /\ p.rules = Visits!Rows(f)
    BY <1>4, <1>6, <1>8 DEF Whole
  <2> QED
    BY <1>4, <1>5, <1>7, <2>1, SendsWhere
<1> DEFINE u == [at |-> "sent", code |-> tab[t].code, sent |-> tab[t].sent,
                 payload |-> tab[t].payload, url |-> d.url, country |-> from]
           given == IF p.mixed THEN Visits!NoTold ELSE [version |-> p.version, url |-> d.url]
<1>9. /\ u.at = "sent" /\ u.code = c /\ u.sent = tab[t].sent /\ u.payload = p
      /\ u.url = d.url /\ u.country = from
  BY <1>2, <1>3
<1>10. tab' = [tab EXCEPT ![t] = u]
  BY <1>1
<1> HIDE DEF u
<1>11. TabHolds(u, settings)
  <2>1. k.version = p.version /\ ~p.mixed => d.url = k.url
    BY <1>4, <1>6, <1>7, <1>8 DEF Given
  <2> QED
    BY <1>2, <1>3, <1>4, <1>6, <1>8, <1>9, <2>1 DEF TabHolds
<1>12. d.set # Visits!NoVariant =>
         /\ variant' = [variant EXCEPT ![c] = d.set] /\ told' = [told EXCEPT ![c] = given]
         /\ Given(d.set, given, settings)
  <2>1. ASSUME d.set # Visits!NoVariant
        PROVE  variant' = [variant EXCEPT ![c] = d.set] /\ told' = [told EXCEPT ![c] = given]
    BY <1>1, <1>2, <1>3, <2>1
  <2>2. ASSUME p.mixed PROVE Given(d.set, given, settings)
    <3>1. given.version = 0
      BY <2>2 DEF Visits!NoTold
    <3> QED
      BY <1>5, <3>1 DEF Given
  <2>3. ASSUME ~p.mixed, d.set # Visits!NoVariant PROVE Given(d.set, given, settings)
    <3>1. given.version = p.version /\ given.url = d.url
      BY <2>3
    <3> HIDE DEF given
    <3> QED
      BY <1>5, <1>6, <1>7, <1>8, <2>3, <3>1 DEF Given
  <2> QED
    BY <2>1, <2>2, <2>3
<1> HIDE DEF given
<1>13. /\ UNCHANGED <<mode, rules, settings, interstitial, cache>> /\ protected' \in BOOLEAN
       /\ DOMAIN cache' = Code
  BY DEF Visits!Land, Visits!owner, VisitInv, CacheHolds
<1>14. /\ DOMAIN tab' = Tab /\ \A w \in Tab : tab'[w] = tab[w] \/ TabHolds(tab'[w], settings)
  BY <1>10, <1>11 DEF VisitInv, TabsHold
<1>15. /\ DOMAIN variant' = Code /\ DOMAIN told' = Code
       /\ \A e \in Code : \/ variant'[e] = variant[e] /\ told'[e] = told[e]
                          \/ Given(variant'[e], told'[e], settings)
  <2>1. DOMAIN variant = Code /\ DOMAIN told = Code
    BY DEF VisitInv, CookiesHold
  <2>2. CASE d.set = Visits!NoVariant
    BY <1>1, <2>1, <2>2
  <2>3. CASE d.set # Visits!NoVariant
    BY <1>4, <1>12, <2>1, <2>3
  <2> QED
    BY <2>2, <2>3
<1> QED
  BY <1>13, <1>14, <1>15, VisitKept

\* The owner's forms: another setting, and the password.
LEMMA SettingKeeps ==
  ASSUME VisitInv, NEW f \in Form, Visits!SetRouting(f)
  PROVE  VisitInv'
<1>1. f \in Setting /\ Visits!Accepted(f)
  BY MCRequestsAssumption DEF Visits!SetRouting, Visits!VisitsAssumption, Setting
<1>2. PICK s, z : s = settings /\ z = Append(s, f)
  OBVIOUS
<1>3. /\ mode' = f.mode /\ rules' = Visits!Rows(f) /\ settings' = z
      /\ UNCHANGED <<protected, interstitial, cache, tab, variant, told>>
  BY <1>2 DEF Visits!SetRouting, Visits!cookies
<1>4. /\ SettingsHold(s) /\ s \in Seq(Setting) /\ CacheHolds(s) /\ CookiesHold(s) /\ TabsHold(s)
  BY <1>2 DEF VisitInv, SettingsHold
<1>5. /\ z \in Seq(Setting) /\ Len(z) = Len(s) + 1 /\ Len(s) \in Nat
      /\ z[Len(s) + 1] = f /\ \A v \in 1..Len(s) : z[v] = s[v]
      /\ \A p : Whole(p, s) => Whole(p, z)
      /\ \A v, k : Given(v, k, s) => Given(v, k, z)
      /\ \A u : TabHolds(u, s) => TabHolds(u, z)
  BY <1>1, <1>2, <1>4, StillHolds
<1>6. SettingsHold(z)'
  <2>1. \A v \in 1..Len(z) : Visits!Accepted(z[v])
    <3>1. ASSUME NEW v \in 1..Len(z) PROVE v \in 1..Len(s) \/ v = Len(s) + 1
      BY <1>5
    <3> QED
      BY <1>1, <1>4, <1>5, <3>1 DEF SettingsHold
  <2>2. Len(z) > 0 /\ z[Len(z)] = f
    BY <1>5
  <2> QED
    BY <1>3, <1>5, <2>1, <2>2 DEF SettingsHold
<1>7. CacheHolds(z)'
  BY <1>3, <1>4, <1>5 DEF CacheHolds
<1>8. CookiesHold(z)'
  BY <1>3, <1>4, <1>5 DEF CookiesHold
<1>9. TabsHold(z)'
  BY <1>3, <1>4, <1>5 DEF TabsHold
<1>10. protected' \in BOOLEAN /\ interstitial' \in BOOLEAN
  BY <1>3 DEF VisitInv
<1> QED
  BY <1>3, <1>6, <1>7, <1>8, <1>9, <1>10 DEF VisitInv

LEMMA OtherEditsKeep ==
  ASSUME VisitInv,
         Visits!SetPassword \/ \E c \in Code : Visits!Flush(c) \/ Visits!Expire(c)
  PROVE  VisitInv'
<1>1. UNCHANGED <<mode, rules, settings, interstitial, tab, variant, told>>
  BY DEF Visits!SetPassword, Visits!Flush, Visits!Expire, Visits!owner, Visits!cookies
<1>2. protected' \in BOOLEAN
  BY DEF VisitInv, Visits!SetPassword, Visits!Flush, Visits!Expire, Visits!owner
<1>3. \/ cache' = cache
      \/ \E c \in Code : cache' = [cache EXCEPT ![c] = Visits!NoPayload]
  BY DEF Visits!SetPassword, Visits!Flush, Visits!Expire
<1>4. /\ DOMAIN cache = Code /\ DOMAIN variant = Code /\ DOMAIN told = Code /\ DOMAIN tab = Tab
  BY DEF VisitInv, CacheHolds, CookiesHold, TabsHold
<1>5. /\ DOMAIN cache' = Code
      /\ \A c \in Code : cache'[c] = cache[c] \/ cache'[c] = Visits!NoPayload
  BY <1>3, <1>4
<1> QED
  BY <1>1, <1>2, <1>4, <1>5, VisitKept

\* A cookie that ends is no longer followed.
LEMMA ForgetKeeps ==
  ASSUME VisitInv, Visits!Forget
  PROVE  VisitInv'
<1>1. UNCHANGED <<mode, rules, settings, interstitial, protected, tab, cache>>
  BY DEF Visits!Forget, Visits!owner
<1>2. \/ UNCHANGED <<variant, told>>
      \/ \E c \in Code : /\ variant' = [variant EXCEPT ![c] = Visits!NoVariant]
                         /\ told' = [told EXCEPT ![c] = Visits!NoTold]
  BY DEF Visits!Forget
<1>3. Given(Visits!NoVariant, Visits!NoTold, settings)
  BY DEF Given, Visits!NoVariant, Visits!NoTold
<1>4. /\ DOMAIN cache = Code /\ DOMAIN variant = Code /\ DOMAIN told = Code /\ DOMAIN tab = Tab
      /\ protected \in BOOLEAN
  BY DEF VisitInv, CacheHolds, CookiesHold, TabsHold
<1>5. /\ DOMAIN variant' = Code /\ DOMAIN told' = Code
      /\ \A c \in Code : \/ variant'[c] = variant[c] /\ told'[c] = told[c]
                         \/ Given(variant'[c], told'[c], settings)
  BY <1>2, <1>3, <1>4
<1> QED
  BY <1>1, <1>4, <1>5, VisitKept

LEMMA TabKeeps ==
  ASSUME VisitInv, NEW t \in Tab,
         \/ Visits!Answer(t) \/ Visits!GoesOn(t) \/ Visits!SubmitPassword(t, FALSE)
         \/ \E c \in Code : Visits!Start(t, c)
  PROVE  VisitInv'
<1>0. tab[t].code \in Code
  BY DEF VisitInv, TabsHold, TabHolds
<1>1. CASE Visits!Redirect(t) \/ Visits!Proceed(t)
  BY <1>1, LandKeeps DEF Visits!Redirect, Visits!Proceed, Visits!Passes
<1>2. CASE Visits!Expired(t) \/ Visits!OverLimit(t)
  <2>1. Visits!Shows(t, "away")
    BY <1>2 DEF Visits!Expired, Visits!OverLimit
  <2>2. UNCHANGED <<mode, rules, settings, protected, interstitial, variant, told, cache>>
    BY <1>2 DEF Visits!Expired, Visits!OverLimit, Visits!owner, Visits!cookies
  <2> QED
    BY <2>1, <2>2, ShowsKeeps
<1>3. CASE Visits!Gate(t)
  <2>1. \E shown \in {"bounced", "form", "page"} : Visits!Shows(t, shown)
    BY <1>3 DEF Visits!Gate
  <2>2. UNCHANGED <<mode, rules, settings, protected, interstitial, variant, told, cache>>
    BY <1>3 DEF Visits!Gate, Visits!owner, Visits!cookies
  <2> QED
    BY <2>1, <2>2, ShowsKeeps
<1>4. ASSUME NEW right \in BOOLEAN, Visits!SubmitPassword(t, right) PROVE VisitInv'
  <2>1. \E shown \in {"bounced", "refused"} : Visits!Shows(t, shown)
    BY <1>4 DEF Visits!SubmitPassword
  <2>2. UNCHANGED <<mode, rules, settings, protected, interstitial, variant, told, cache>>
    BY <1>4 DEF Visits!SubmitPassword, Visits!owner
  <2> QED
    BY <2>1, <2>2, ShowsKeeps
<1>5. ASSUME Visits!Follow(t) \/ Visits!Continue(t) \/ \E c \in Code : Visits!Start(t, c)
      PROVE  VisitInv'
  <2>1. \E c \in Code, path \in {"r", "page", "go"} : Visits!Request(t, c, path)
    BY <1>0, <1>5 DEF Visits!Follow, Visits!Continue, Visits!Start
  <2>2. UNCHANGED <<mode, rules, settings, protected, interstitial, variant, told, cache>>
    BY <1>5 DEF Visits!Follow, Visits!Continue, Visits!Start, Visits!owner, Visits!cookies
  <2> QED
    BY <2>1, <2>2, RequestKeeps
<1> QED
  BY <1>1, <1>2, <1>3, <1>4, <1>5, RowReadKeeps, RulesReadKeeps DEF Visits!Answer, Visits!GoesOn

LEMMA VisitStep == VisitInv /\ [Next]_vars => VisitInv'
<1> SUFFICES ASSUME VisitInv, [Next]_vars PROVE VisitInv'
  OBVIOUS
<1>1. CASE UNCHANGED redirects
  BY <1>1 DEF redirects, VisitInv, SettingsHold, CacheHolds, CookiesHold, TabsHold
<1>2. CASE Visits!Next
  BY <1>2, TabKeeps, SettingKeeps, OtherEditsKeep, ForgetKeeps DEF Visits!Next
<1>3. Visits!Next \/ UNCHANGED redirects
  BY DEF Next, vars
<1> QED
  BY <1>1, <1>2, <1>3

\* A visitor is sent where the setting the payload was read under wants, and whoever
\* holds a variant to the place it was given for as long as the setting is the same
\* (resolve.ts:252): for any number of tabs, codes, forms and edits, whatever the
\* cache holds and in whatever order requests and edits come.
THEOREM VisitorsAreSentAsConfigured == Spec => []SentAsConfigured
<1>1. Init => VisitInv
  BY VisitInit DEF Init
<1>2. VisitInv => SentAsConfigured
  <2> SUFFICES ASSUME VisitInv PROVE SentAsConfigured
    OBVIOUS
  <2>1. ASSUME NEW t \in Tab, Visits!Sent(t)
        PROVE  /\ Routed(settings[tab[t].payload.version], tab[t].sent.variant, tab[t].country, tab[t].url)
               /\ tab[t].sent.told.version = tab[t].payload.version => tab[t].url = tab[t].sent.told.url
    BY <2>1 DEF VisitInv, TabsHold, TabHolds, Visits!Sent
  <2>2. Visits!RoutedAsConfigured
    BY <2>1 DEF Visits!RoutedAsConfigured, Routed
  <2>3. Visits!StickyVariant
    BY <2>1 DEF Visits!StickyVariant
  <2> QED
    BY <2>2, <2>3 DEF SentAsConfigured, Visits!SentAsConfigured
<1> QED
  BY <1>1, <1>2, VisitStep, PTL DEF Spec
=============================================================================
