----------------------------- MODULE Campaigns -----------------------------
(***************************************************************************)
(* The campaigns of an owner and the links grouped in them.                *)
(*                                                                         *)
(* Every form reads, and writes later: the cap of the plan is counted      *)
(* before the insertion, the links of a campaign before its deletion, and  *)
(* the campaign is looked up before a link is put into it.  The table      *)
(* takes a link out of a campaign that is deleted (ON DELETE SET NULL).    *)
(***************************************************************************)
EXTENDS Integers, FiniteSets

CONSTANTS
  Form,          \* forms the owner may have under way, in several tabs
  Link,          \* links of the owner
  Cap,           \* activeCampaigns of the plan; 0 where it has no campaigns
  MaxCampaign,   \* bound: campaigns ever created
  MaxForm        \* bound: forms

\* What the constants satisfy.
CampaignsAssumption == {Cap, MaxCampaign, MaxForm} \subseteq Nat

Campaign == 1..MaxCampaign
NoCampaign == 0

VARIABLES
  live,     \* campaigns that have a row
  made,     \* campaigns created so far
  there,    \* links that have been made
  group,    \* group[l]: links.campaign_id
  form,     \* form[f]: what the handler has still to write
  forms,
  crowd,    \* history: the most creations that were under way together
  moved,    \* history: moved[f]: links put into a campaign since f counted
  lost      \* history: links a deletion has taken out unasked, and not moved since its count

vars == <<live, made, there, group, form, forms, crowd, moved, lost>>

Idle == [kind |-> "idle"]

Init ==
  /\ live = {} /\ made = 0 /\ there = {} /\ group = [l \in Link |-> NoCampaign]
  /\ form = [f \in Form |-> Idle] /\ forms = 0
  /\ crowd = 0 /\ moved = [f \in Form |-> {}] /\ lost = {}

In(k) == {l \in Link : group[l] = k}
Begins(f, job) ==
  /\ form[f] = Idle /\ forms < MaxForm
  /\ forms' = forms + 1 /\ form' = [form EXCEPT ![f] = job]
Ends(f) == form' = [form EXCEPT ![f] = Idle]
Puts(l) == moved' = [f \in Form |-> moved[f] \cup {l}]

-----------------------------------------------------------------------------
UnderCap == Cardinality(live) < Cap

\* createCampaignAction: the cap is counted,
CreateCheck(f) ==
  /\ UnderCap /\ Begins(f, [kind |-> "create"])
  /\ LET together == Cardinality({g \in Form : form'[g].kind = "create"})
     IN  crowd' = IF together > crowd THEN together ELSE crowd
  /\ UNCHANGED <<live, made, there, group, moved, lost>>

\* and the row inserted.
Create(f) ==
  /\ form[f].kind = "create" /\ made < MaxCampaign
  /\ made' = made + 1 /\ live' = live \cup {made + 1}
  /\ Ends(f)
  /\ UNCHANGED <<there, group, forms, crowd, moved, lost>>

DeleteCheckLoose(f, k, detach) ==
  /\ k \in live
  /\ Begins(f, [kind |-> "delete", campaign |-> k, detach |-> detach])
  /\ moved' = [moved EXCEPT ![f] = {}]
  /\ UNCHANGED <<live, made, there, group, crowd, lost>>

\* deleteCampaignAction: the links are counted; without 'detach' a campaign that
\* has some is kept.
DeleteCheck(f, k, detach) ==
  /\ k \in live /\ (In(k) = {} \/ detach)
  /\ Begins(f, [kind |-> "delete", campaign |-> k, detach |-> detach])
  /\ moved' = [moved EXCEPT ![f] = {}]
  /\ UNCHANGED <<live, made, there, group, crowd, lost>>

\* The transaction takes every link out, by its own statement or the table's.
Delete(f) ==
  /\ form[f].kind = "delete"
  /\ LET k == form[f].campaign
     IN  /\ live' = live \ {k}
         /\ group' = [l \in Link |-> IF group[l] = k THEN NoCampaign ELSE group[l]]
         /\ lost' = IF form[f].detach THEN lost ELSE lost \cup (In(k) \ moved[f])
  /\ Ends(f)
  /\ UNCHANGED <<made, there, forms, crowd, moved>>

\* assignLinkCampaignAction: the campaign is looked up, if one is named,
AssignCheck(f, l, k) ==
  /\ l \in there /\ k \in live \cup {NoCampaign}
  /\ Begins(f, [kind |-> "assign", link |-> l, campaign |-> k])
  /\ UNCHANGED <<live, made, there, group, crowd, moved, lost>>

\* and written to the link; the table refuses one that is gone.
Assign(f) ==
  /\ form[f].kind = "assign"
  /\ LET k == form[f].campaign
         l == form[f].link
     IN  IF k \in live \cup {NoCampaign}
         THEN group' = [group EXCEPT ![l] = k] /\ Puts(l)
         ELSE UNCHANGED <<group, moved>>
  /\ Ends(f)
  /\ UNCHANGED <<live, made, there, forms, crowd, lost>>

\* createPowerLinkAction: a new link is inserted with the campaign its form names,
\* which only the table looks up.
NewLink(l, k) ==
  /\ l \notin there /\ k \in live \cup {NoCampaign}
  /\ there' = there \cup {l} /\ group' = [group EXCEPT ![l] = k] /\ Puts(l)
  /\ UNCHANGED <<live, made, form, forms, crowd, lost>>

Next ==
  \/ \E f \in Form :
       \/ CreateCheck(f) \/ Create(f) \/ Delete(f) \/ Assign(f)
       \/ \E k \in Campaign, detach \in BOOLEAN : DeleteCheck(f, k, detach)
       \/ \E l \in Link, k \in Campaign \cup {NoCampaign} : AssignCheck(f, l, k)
  \/ \E l \in Link, k \in Campaign \cup {NoCampaign} : NewLink(l, k)

Spec == Init /\ [][Next]_vars

-----------------------------------------------------------------------------
(* Properties. *)

\* The cap is passed by no more creations than were under way together with
\* another, and an owner who did not ask to detach loses no grouping that was
\* there when the links were counted: what is lost came between the count and the
\* deletion (campaigns/actions.ts:150).
CampaignsKept ==
  /\ Cardinality(live) <= Cap + (IF crowd > 0 THEN crowd - 1 ELSE 0)
  /\ lost = {}
=============================================================================
