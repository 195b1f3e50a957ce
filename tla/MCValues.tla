------------------------------ MODULE MCValues ------------------------------
(* The visitor, the routing forms, the hosts, the prices, the limits and the *)
(* geographic databases of the small instances.                             *)
EXTENDS Integers, Sequences

FormRule(countries, device, weight, url) ==
  [type |-> "none", countries |-> countries, device |-> device, weight |-> weight, url |-> url]

MCHere == [country |-> "FR", override |-> {"US"}, device |-> "mobile"]

MCForm == {
  [mode |-> "single", rules |-> <<>>],
  [mode |-> "geo", rules |-> <<FormRule({"US"}, "none", -1, "a"), FormRule({"US", "FR"}, "none", -1, "b")>>],
  [mode |-> "device", rules |-> <<FormRule({}, "tablet", -1, "a"), FormRule({}, "mobile", -1, "b")>>],
  [mode |-> "ab", rules |-> <<FormRule({}, "none", 1, "a"), FormRule({}, "none", 1, "b")>>],
  [mode |-> "ab", rules |-> <<FormRule({}, "none", 0, "a"), FormRule({}, "none", 2, "b")>>],
  [mode |-> "ab", rules |-> <<FormRule({}, "none", 0, "a"), FormRule({}, "none", 0, "b")>>],
  [mode |-> "geo", rules |-> <<>>],
  [mode |-> "device", rules |-> <<FormRule({}, "phone", -1, "a")>>]}

\* The one with two live variants, for what depends on there being rules only.
MCForms == {f \in MCForm : f.mode = "ab" /\ f.rules[1].weight > 0}

\* The owner's and the API's operations on a link: every way to write and flush.
MCOwnerOp == {"edit", "patch", "power", "route", "rename", "disable", "enable", "delete"}

\* Two hosts: v.com itself and one whose name contains v.
MCDomain == [own |-> "v", alike |-> "other"]
MCContains == [own |-> {"v"}, alike |-> {"v"}]

\* The prices of the code, and what the providers keep under their own codes.
MCDefault == [i \in {"pro", "business"} |-> [c \in {"NGN", "USD"} |-> 3]]
MCProviderPrice == [i \in {"pro", "business"} |-> [c \in {"NGN", "USD"} |-> 5]]

\* Two processes, one of them ahead, and an action with two windows.
MCAhead == [one |-> 0, other |-> 1]
MCHits == [shorten |-> {"hour", "day"}]
MCLimit == [hour |-> 1, day |-> 1]
MCWindow == [hour |-> 3, day |-> 4]

MCEditions == <<"country", "city">>
=============================================================================
