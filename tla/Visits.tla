------------------------------- MODULE Visits -------------------------------
(***************************************************************************)
(* A visitor follows a short link: the redirect route, the page in between *)
(* with its password form and its countdown, and the route it goes on to,  *)
(* while the owner changes how the link routes and whether it is protected.*)
(*                                                                         *)
(* What a request answers depends on a payload put together by two queries *)
(* and kept in Redis, and on cookies as they were when it was sent.  The   *)
(* visitor has several tabs, which share the cookies.                      *)
(***************************************************************************)
EXTENDS Integers, Sequences, FiniteSets

CONSTANTS
  Tab,          \* tabs of the visitor's browser
  Code,         \* codes that reach the link
  Current,      \* links.code; the other codes are in previous_codes
  Form,         \* routing forms the owner may submit: mode and rules
  Here,         \* the visitor's country, the country asked for, class of device
  Turned,       \* the link has an expiry or a limit that may turn visitors away
  MaxStart,     \* bound: visits
  MaxEdit,      \* bound: edits by the owner
  MaxSlip     \* bound: cookies that end and wrong passwords

Mode == {"single", "geo", "device", "ab"}
Device == {"mobile", "tablet", "desktop", "bot"}

\* A rule of the form: of a weight only the sign matters.
Rule == [type : {"none"}, countries : SUBSET STRING, device : STRING, weight : Int, url : STRING]

\* What the constants satisfy.
VisitsAssumption ==
  /\ Current \in Code /\ Turned \in BOOLEAN
  /\ Form \subseteq [mode : Mode, rules : Seq(Rule)]
  /\ {MaxStart, MaxEdit, MaxSlip} \subseteq Nat

Own == "own"     \* links.destination_url
NoVariant == -1

VARIABLES
  mode, rules,   \* links.routing_mode; the link_destinations rows in their order
  settings,      \* history: the routing forms accepted so far, in their order
  protected,     \* links.password_hash is there
  interstitial,  \* links.interstitial_required, as creation left it
  cache,         \* cache[c]: the payload under link:hot:<c>, or NoPayload
  flush,         \* codes an edit has still to delete from the cache
  tab,           \* tab[t]: the request it has sent, or the screen it shows
  proof,         \* codes with a clipal_pw_ cookie
  variant,       \* variant[c]: the clipal_ab_ cookie
  told,          \* history: where the cookie's variant led, and under which version
  starts, edits, slips

owner == <<mode, rules, settings, protected, interstitial, flush, edits>>
cookies == <<proof, variant, told, slips>>
vars == <<owner, cache, tab, cookies, starts>>

NoPayload == [full |-> FALSE]
NoTold == [version |-> 0, url |-> Own]
Blank == [at |-> "blank", code |-> Current]

-----------------------------------------------------------------------------
(* Routing, as the owner's form is read and as the redirect evaluates it. *)

Weight(rule) == IF rule.type = "ab" THEN rule.weight ELSE 0

\* parseRoutingRules: what a form must have to be accepted,
Accepted(f) ==
  f.mode # "single" =>
    /\ f.rules # <<>>
    /\ \A i \in DOMAIN f.rules :
         CASE f.mode = "geo" -> f.rules[i].countries # {}
           [] f.mode = "device" -> f.rules[i].device \in Device
           [] f.mode = "ab" -> f.rules[i].weight >= 0
    /\ f.mode = "ab" => \E i \in DOMAIN f.rules : f.rules[i].weight > 0

\* and the rows it becomes; each keeps the selector of its mode.
Rows(f) ==
  IF f.mode = "single" THEN <<>>
  ELSE [i \in DOMAIN f.rules |-> [f.rules[i] EXCEPT !.type = f.mode]]

\* lookupCountry: the country of the address, if there is a database and it knows.
Looked == {Here.country, "ZZ"}

\* resolveCountry, asked only for a link that routes by it: that country, or the
\* one a moderator asks for.
Located(p) == IF p.mode = "geo" THEN Looked \cup Here.override ELSE {"ZZ"}

\* A rule selects the visitor by what its own type looks at.
Selects(rule, by, country) ==
  /\ rule.type = by
  /\ IF by = "geo" THEN country \in rule.countries ELSE Here.device = rule.device

To(url, v) == [url |-> url, set |-> v]

\* The first rule that selects, or the link's own destination.
FirstMatch(p, by, country) ==
  LET hits == {i \in DOMAIN p.rules : Selects(p.rules[i], by, country)}
  IN  IF hits = {} THEN To(Own, NoVariant)
      ELSE To(p.rules[CHOOSE i \in hits : \A j \in hits : i <= j].url, NoVariant)

\* pickWeighted: any rule of some weight; the first if none has any.
Drawn(p) ==
  LET some == {i \in DOMAIN p.rules : Weight(p.rules[i]) > 0}
  IN  IF some = {} THEN {1} ELSE some

DestinationsOffByOne(p, held, country) ==
  IF p.mode = "single" \/ p.rules = <<>> THEN {To(Own, NoVariant)}
  ELSE IF p.mode \in {"geo", "device"} THEN {FirstMatch(p, p.mode, country)}
  ELSE IF held >= 0 /\ held < Len(p.rules) THEN {To(p.rules[held + 1].url, NoVariant)}
  ELSE {To(p.rules[i].url, i) : i \in Drawn(p)}

\* resolveDestination.  Variants are numbered from 0; a cookie that names one is
\* followed and not set again.
Destinations(p, held, country) ==
  IF p.mode = "single" \/ p.rules = <<>> THEN {To(Own, NoVariant)}
  ELSE IF p.mode \in {"geo", "device"} THEN {FirstMatch(p, p.mode, country)}
  ELSE IF held >= 0 /\ held < Len(p.rules) THEN {To(p.rules[held + 1].url, NoVariant)}
  ELSE {To(p.rules[i].url, i - 1) : i \in Drawn(p)}

-----------------------------------------------------------------------------
Init ==
  /\ mode = "single" /\ rules = <<>> /\ settings = <<[mode |-> "single", rules |-> <<>>]>> /\ protected = FALSE
  /\ interstitial \in BOOLEAN
  /\ cache = [c \in Code |-> NoPayload] /\ flush = {}
  /\ tab = [t \in Tab |-> Blank]
  /\ proof = {} /\ variant = [c \in Code |-> NoVariant] /\ told = [c \in Code |-> NoTold]
  /\ starts = 0 /\ edits = 0 /\ slips = 0

(* The owner. *)

Edit == edits < MaxEdit /\ edits' = edits + 1 /\ flush' = Code

\* setLinkRoutingAction: mode and rows in one transaction.
SetRouting(f) ==
  /\ Edit /\ Accepted(f)
  /\ mode' = f.mode /\ rules' = Rows(f) /\ settings' = Append(settings, f)
  /\ UNCHANGED <<protected, interstitial, cache, tab, cookies, starts>>

\* setLinkPasswordAction, removeLinkPasswordAction
SetPassword ==
  /\ Edit /\ protected' = ~protected
  /\ UNCHANGED <<mode, rules, settings, interstitial, cache, tab, cookies, starts>>

\* invalidateAllCodes, one DEL for each code; an entry also ends by itself.
Flush(c) ==
  /\ c \in flush
  /\ flush' = flush \ {c} /\ cache' = [cache EXCEPT ![c] = NoPayload]
  /\ UNCHANGED <<mode, rules, settings, protected, interstitial, edits, tab, cookies, starts>>

Expire(c) ==
  /\ cache[c] # NoPayload
  /\ cache' = [cache EXCEPT ![c] = NoPayload]
  /\ UNCHANGED <<owner, tab, cookies, starts>>

-----------------------------------------------------------------------------
(* The requests.  path is "r", "page" or "go". *)

\* The request leaves with the cookies of now; the entry in Redis is looked up.
Request(t, c, path) ==
  LET sent == [path |-> path, code |-> c, proved |-> c \in proof, variant |-> variant[c],
               told |-> told[c]]
  IN  tab' = [tab EXCEPT ![t] =
        IF cache[c] # NoPayload
        THEN [at |-> "gate", code |-> c, sent |-> sent, payload |-> cache[c]]
        ELSE [at |-> "lookup", code |-> c, sent |-> sent]]

Start(t, c) ==
  /\ tab[t].at \in {"blank", "sent", "away"} /\ starts < MaxStart
  /\ starts' = starts + 1 /\ Request(t, c, "r")
  /\ UNCHANGED <<owner, cache, cookies>>

\* A redirect to the page is followed; so is a reload after a refusal.
Follow(t) ==
  /\ tab[t].at \in {"bounced", "refused"}
  /\ Request(t, tab[t].code, "page")
  /\ UNCHANGED <<owner, cache, cookies, starts>>

\* "Continue", or the countdown, goes on.
Continue(t) ==
  /\ tab[t].at = "page"
  /\ Request(t, tab[t].code, "go")
  /\ UNCHANGED <<owner, cache, cookies, starts>>

version == Len(settings)
Stored(c, p) == cache' = [cache EXCEPT ![c] = p]
AtGate(t, p) == [at |-> "gate", code |-> tab[t].code, sent |-> tab[t].sent, payload |-> p]
Row == [full |-> TRUE, mode |-> mode, rules |-> <<>>, version |-> version, mixed |-> FALSE,
        hasPassword |-> protected, interstitial |-> interstitial]

\* lookupLink: the row.  A link without rules is complete and cached.
LookupLink(t) ==
  /\ tab[t].at = "lookup"
  /\ IF mode = "single"
     THEN tab' = [tab EXCEPT ![t] = AtGate(t, Row)] /\ Stored(tab[t].code, Row)
     ELSE tab' = [tab EXCEPT ![t] = [AtGate(t, Row) EXCEPT !.at = "rules"]] /\ UNCHANGED cache
  /\ UNCHANGED <<owner, cookies, starts>>

\* lookupDestinations: the rules in their order, by then perhaps others.
LookupDestinations(t) ==
  /\ tab[t].at = "rules"
  /\ LET p == [tab[t].payload EXCEPT !.rules = rules,
                                     !.mixed = tab[t].payload.version # version]
     IN  tab' = [tab EXCEPT ![t] = AtGate(t, p)] /\ Stored(tab[t].code, p)
  /\ UNCHANGED <<owner, cookies, starts>>

Shows(t, screen) == tab' = [tab EXCEPT ![t] = [at |-> screen, code |-> tab[t].code]]

\* A link past its day sends whoever comes to a page that says so.
Expired(t) ==
  /\ tab[t].at = "gate" /\ Turned
  /\ Shows(t, "away")
  /\ UNCHANGED <<owner, cache, cookies, starts>>

Barred(t) == tab[t].payload.hasPassword /\ ~tab[t].sent.proved
AsideAlways(t) == tab[t].payload.interstitial
Aside(t) == tab[t].sent.path = "r" /\ tab[t].payload.interstitial

\* Without proof the routes send to the page, and the page shows the form.  The
\* redirect route also sends there if the link wants it, and the page shows
\* itself.
Gate(t) ==
  /\ tab[t].at = "gate" /\ (Barred(t) \/ Aside(t) \/ tab[t].sent.path = "page")
  /\ Shows(t, IF tab[t].sent.path # "page" THEN "bounced"
              ELSE IF Barred(t) THEN "form" ELSE "page")
  /\ UNCHANGED <<owner, cache, cookies, starts>>

Passes(t, path) ==
  tab[t].at = "gate" /\ tab[t].sent.path = path /\ ~Barred(t) /\ ~Aside(t)

\* allowClick: who passes is counted, and turned away beyond the limit.
OverLimit(t) ==
  /\ Turned /\ (Passes(t, "r") \/ Passes(t, "go"))
  /\ Shows(t, "away")
  /\ UNCHANGED <<owner, cache, cookies, starts>>

\* The redirect, with the cookie of a variant that was drawn.
Land(t) ==
  /\ \E country \in Located(tab[t].payload) :
     \E d \in Destinations(tab[t].payload, tab[t].sent.variant, country) :
       /\ tab' = [tab EXCEPT ![t] = [at |-> "sent", code |-> @.code, sent |-> @.sent,
                                      payload |-> @.payload, url |-> d.url, country |-> country]]
       /\ IF d.set = NoVariant THEN UNCHANGED <<variant, told>>
          ELSE /\ variant' = [variant EXCEPT ![tab[t].code] = d.set]
               /\ told' = [told EXCEPT ![tab[t].code] =
                    IF tab[t].payload.mixed THEN NoTold
                    ELSE [version |-> tab[t].payload.version, url |-> d.url]]
  /\ UNCHANGED <<owner, cache, proof, slips, starts>>

\* The redirect route sends on at once,
Redirect(t) == Passes(t, "r") /\ Land(t)

\* and the page's button by a route of its own.
Proceed(t) == Passes(t, "go") /\ Land(t)

Slip == slips < MaxSlip /\ slips' = slips + 1

\* submitPasswordAction with the right password, or with another.  The link is
\* looked up by its present code.
SubmitPassword(t, right) ==
  /\ tab[t].at = "form"
  /\ IF right /\ tab[t].code = Current /\ protected
     THEN proof' = proof \cup {tab[t].code} /\ Shows(t, "bounced")
     ELSE Shows(t, "refused") /\ UNCHANGED proof
  /\ IF right THEN UNCHANGED slips ELSE Slip
  /\ UNCHANGED <<owner, cache, variant, told, starts>>

\* A cookie ends: the proof after an hour, the variant after thirty days.
Forget ==
  /\ Slip
  /\ \/ \E c \in proof : proof' = proof \ {c} /\ UNCHANGED <<variant, told>>
     \/ \E c \in Code :
          /\ variant[c] # NoVariant
          /\ variant' = [variant EXCEPT ![c] = NoVariant] /\ told' = [told EXCEPT ![c] = NoTold]
          /\ UNCHANGED proof
  /\ UNCHANGED <<owner, cache, tab, starts>>

Answer(t) ==
  \/ LookupLink(t) \/ LookupDestinations(t) \/ Expired(t) \/ Gate(t) \/ OverLimit(t)
  \/ Redirect(t) \/ Proceed(t)
GoesOn(t) == Follow(t) \/ Continue(t) \/ SubmitPassword(t, TRUE)

Next ==
  \/ \E t \in Tab : Answer(t) \/ GoesOn(t) \/ SubmitPassword(t, FALSE) \/ \E c \in Code : Start(t, c)
  \/ \E f \in Form : SetRouting(f)
  \/ SetPassword \/ Forget \/ \E c \in Code : Flush(c) \/ Expire(c)

\* Requests are answered, entries are deleted or end, and the visitor does not
\* give up: redirects are followed by the browser, the page's countdown goes on by
\* itself, and who meets the form knows the password.
Fairness ==
  /\ \A t \in Tab : WF_vars(Answer(t)) /\ WF_vars(GoesOn(t))
  /\ \A c \in Code : WF_vars(Flush(c)) /\ WF_vars(Expire(c))

Spec == Init /\ [][Next]_vars /\ Fairness

-----------------------------------------------------------------------------
(* Properties. *)

Sent(t) == tab[t].at = "sent" /\ ~tab[t].payload.mixed

Names(rule, f, country) ==
  CASE f.mode = "geo" -> country \in rule.countries
    [] f.mode = "device" -> Here.device = rule.device
    [] OTHER -> FALSE

\* The first rule that names the visitor, the link's own destination if none does,
\* a variant with some weight, or the one the visitor had.
RoutedAsConfigured ==
  \A t \in Tab : Sent(t) =>
    LET f == settings[tab[t].payload.version]
        named(i) == Names(f.rules[i], f, tab[t].country)
        first(i) == named(i) /\ \A j \in 1..(i - 1) : ~named(j)
    IN  \/ \E i \in DOMAIN f.rules :
             /\ tab[t].url = f.rules[i].url
             /\ \/ first(i)
                \/ f.mode = "ab" /\ (f.rules[i].weight > 0 \/ tab[t].sent.variant = i - 1)
        \/ /\ tab[t].url = Own /\ f.mode # "ab"
           /\ \A i \in DOMAIN f.rules : ~named(i)

\* The place the variant's cookie was given for.
StickyVariant ==
  \A t \in Tab : Sent(t) /\ tab[t].sent.told.version = tab[t].payload.version =>
    tab[t].url = tab[t].sent.told.url

\* A visitor is sent where the setting the payload was read under wants, so what
\* parseRoutingRules lets through is what resolveDestination can follow; and one
\* who was given a variant is sent to the same place as long as the setting is the
\* same, from whatever tab, whether the payload is still the cached one or was put
\* together again (request.ts:34, resolve.ts:252).  Not covered: a payload whose
\* row and rules are of two settings (resolve.ts:59).
SentAsConfigured == RoutedAsConfigured /\ StickyVariant

Ended(t) == tab[t].at \in {"blank", "sent", "away"}

\* A visitor who knows the password arrives, or is told that the link has ended:
\* the redirects between the routes end, whatever the owner changes meanwhile and
\* whenever the cookies and the cached payloads end.  Under an old code he may
\* instead be refused again and again: the redirect knows such codes
\* (hotpath.ts:50), the form does not (p/[code]/actions.ts:105).
VisitorArrives ==
  \A t \in Tab : []<>(Ended(t) \/ (tab[t].code # Current /\ tab[t].at = "refused"))

\* "The old back-half keeps redirecting here" (edit-slug-form.tsx:41): who follows
\* it and knows the password arrives, as under the present code.
OldCodeArrives == \A t \in Tab : tab[t].code # Current ~> Ended(t)
=============================================================================
