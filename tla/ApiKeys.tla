------------------------------ MODULE ApiKeys ------------------------------
(***************************************************************************)
(* The API keys of one user, the request that authenticates with one, and  *)
(* the plan both look up.                                                  *)
(*                                                                         *)
(* The dashboard mints, revokes and rotates keys, each handler with an     *)
(* await between what it reads and what it writes.  A request presents a   *)
(* key, of which only a prefix and a hash are stored; it is found by its   *)
(* prefix.  The plan is computed from the subscription and cached for a    *)
(* minute; a billing event writes the subscription and deletes the entry.  *)
(***************************************************************************)
EXTENDS Integers, FiniteSets

CONSTANTS
  Handler,       \* dashboard requests
  Call,          \* API requests
  Prefix,        \* prefixes: two random characters follow "clpl_live_"
  MaxActive,     \* MAX_ACTIVE_KEYS (10)
  MonthlyCap,    \* apiRequestsPerMonth of the paid plan; 0 on free
  MaxKey,        \* bound: keys ever minted
  MaxCall,       \* bound: requests counted in the month
  MaxChange,     \* bound: billing events and ends of a period
  MaxFail        \* bound: failures of Redis

\* What the constants satisfy.
ApiKeysAssumption ==
  /\ Prefix # {} /\ {MaxActive, MonthlyCap, MaxKey, MaxCall} \subseteq Nat \ {0}
  /\ {MaxChange, MaxFail} \subseteq Nat

Key == 1..MaxKey
NoKey == 0
Plan == {"free", "paid"}
CapOf(plan) == IF plan = "paid" THEN MonthlyCap ELSE 0

VARIABLES
  key,         \* key[k]: its row
  form,        \* form[h]: the dashboard request h is at
  call,        \* call[c]: the API request c is at
  granted,     \* the plan the subscription's row grants
  billing,     \* a billing event has written the row and not yet deleted the entry
  cached,      \* plan:<user> in Redis, "none" if absent
  month,       \* month:api:<user>:<month>
  changes, fails,
  stale        \* history: why the entry may differ from the row

keys == <<key, form>>
plans == <<granted, billing, cached, changes, stale>>
vars == <<keys, call, plans, month, fails>>

NoRow == [state |-> "none", prefix |-> CHOOSE p \in Prefix : TRUE]
Active == {k \in Key : key[k].state = "live"}
Minted == {k \in Key : key[k].state # "none"}
NoForm == [pc |-> "idle", key |-> NoKey]
NoCall == [pc |-> "idle", plan |-> "none", began |-> FALSE]

Init ==
  /\ key = [k \in Key |-> NoRow] /\ form = [h \in Handler |-> NoForm]
  /\ call = [c \in Call |-> NoCall]
  /\ granted = "paid" /\ billing = FALSE /\ cached = "none"
  /\ month = 0 /\ changes = 0 /\ fails = 0 /\ stale = FALSE

Fail == fails < MaxFail /\ fails' = fails + 1

-----------------------------------------------------------------------------
(* The dashboard. *)

\* createApiKeyAction up to its insert: resolvePlan, whose own steps are the
\* request's below, and the number of live keys.
UnderCap == Cardinality(Active) < MaxActive
Known == IF cached = "none" THEN granted ELSE cached
CreateCheck(h) ==
  /\ form[h] = NoForm
  /\ form' = IF CapOf(Known) > 0 /\ UnderCap
             THEN [form EXCEPT ![h] = [NoForm EXCEPT !.pc = "mint"]] ELSE form
  /\ \/ cached' = Known /\ UNCHANGED fails
     \/ cached = "none" /\ Fail /\ UNCHANGED cached
  /\ UNCHANGED <<key, call, granted, billing, changes, stale, month>>

\* rotateApiKeyAction reads the key and refuses a revoked one,
RotateRead(h, k) ==
  /\ form[h] = NoForm /\ k \in Active
  /\ form' = [form EXCEPT ![h] = [NoForm EXCEPT !.pc = "revoke", !.key = k]]
  /\ UNCHANGED <<key, call, plans, month, fails>>

\* revokes it, revoked or not by now,
RotateRevoke(h) ==
  /\ form[h].pc = "revoke"
  /\ key' = [key EXCEPT ![form[h].key].state = "revoked"]
  /\ form' = [form EXCEPT ![h].pc = "mint"]
  /\ UNCHANGED <<call, plans, month, fails>>

\* generateApiKey: of what is drawn the row keeps the prefix and a hash, which is
\* the row's own; nothing makes the prefix unique.
Generated == {[state |-> "live", prefix |-> p] : p \in Prefix}

\* and mints another, as creation does.
Mint(h) ==
  /\ form[h].pc = "mint" /\ Cardinality(Minted) < MaxKey
  /\ \E drawn \in Generated : key' = [key EXCEPT ![Cardinality(Minted) + 1] = drawn]
  /\ form' = [form EXCEPT ![h] = NoForm]
  /\ UNCHANGED <<call, plans, month, fails>>

Revoke(k) ==
  /\ k \in Active
  /\ key' = [key EXCEPT ![k].state = "revoked"]
  /\ UNCHANGED <<form, call, plans, month, fails>>

-----------------------------------------------------------------------------
(* The request. *)

\* The row that is compared with the key: some row with its prefix.
Found(k) == {j \in Minted : key[j].prefix = key[k].prefix}

\* The hash in row j is that of key k.
Matches(j, k) == j = k

\* A key its user was shown is presented: the row found must be its own and live.
\* A user who is gone and too many requests in a short time are refused as well.
Present(c, k) ==
  /\ call[c] = NoCall /\ month < MaxCall /\ k \in Active
  /\ \E j \in Found(k) : Matches(j, k)
  /\ call' = [call EXCEPT ![c].pc = "plan"]
  /\ UNCHANGED <<keys, plans, month, fails>>

Filling == {c \in Call : call[c].pc = "fill"}

\* resolvePlan: the entry answers, or the plan is computed from the row.
Resolve(c) ==
  /\ call[c].pc = "plan"
  /\ IF cached # "none"
     THEN call' = [call EXCEPT ![c].pc = "count", ![c].plan = cached]
     ELSE call' = [call EXCEPT ![c].pc = "fill", ![c].plan = granted]
  /\ UNCHANGED <<keys, plans, month, fails>>

\* What was computed is cached, unless Redis refuses it.
Fill(c) ==
  /\ call[c].pc = "fill"
  /\ call' = [call EXCEPT ![c].pc = "count", ![c].began = FALSE]
  /\ \/ cached' = call[c].plan /\ stale' = (stale \/ call[c].began) /\ UNCHANGED fails
     \/ Fail /\ UNCHANGED <<cached, stale>>
  /\ UNCHANGED <<keys, granted, billing, changes, month>>

\* The month's counter is raised, on a plan that has requests, and compared;
\* without Redis it is not.
Count(c) ==
  /\ call[c].pc = "count"
  /\ call' = [call EXCEPT ![c] = NoCall]
  /\ \/ CapOf(call[c].plan) = 0 /\ UNCHANGED <<month, fails>>
     \/ CapOf(call[c].plan) > 0 /\ month' = month + 1 /\ UNCHANGED fails
     \/ CapOf(call[c].plan) > 0 /\ Fail /\ UNCHANGED month
  /\ UNCHANGED <<keys, plans>>

-----------------------------------------------------------------------------
(* The plan. *)

\* Requests that have computed the plan and not yet cached it.
Overtaken == [c \in Call |-> IF c \in Filling THEN [call[c] EXCEPT !.began = TRUE] ELSE call[c]]

\* A billing event, or the resumption of a cancelled plan, writes the row,
Change ==
  /\ ~billing /\ changes < MaxChange
  /\ changes' = changes + 1
  /\ granted' \in Plan \ {granted} /\ billing' = TRUE
  /\ call' = Overtaken
  /\ UNCHANGED <<keys, cached, month, fails, stale>>

\* A paid period ends; no event says so.
Lapse ==
  /\ granted = "paid" /\ changes < MaxChange
  /\ changes' = changes + 1
  /\ granted' = "free" /\ stale' = (stale \/ cached = "paid")
  /\ call' = Overtaken
  /\ UNCHANGED <<keys, billing, cached, month, fails>>

BustUnlessPaid ==
  /\ billing /\ billing' = FALSE
  /\ cached' = IF granted = "paid" THEN cached ELSE "none"
  /\ stale' = FALSE
  /\ UNCHANGED <<keys, call, granted, changes, month, fails>>

\* and deletes the entry, unless Redis refuses or the handler ends before.
Bust ==
  /\ billing /\ billing' = FALSE
  /\ \/ cached' = "none" /\ stale' = FALSE /\ UNCHANGED fails
     \/ Fail /\ stale' = TRUE /\ UNCHANGED cached
  /\ UNCHANGED <<keys, call, granted, changes, month>>

\* A minute after it was written the entry is gone.
Expire ==
  /\ cached # "none"
  /\ cached' = "none" /\ stale' = FALSE
  /\ UNCHANGED <<keys, call, granted, billing, changes, month, fails>>

Dashboard ==
  \E h \in Handler : CreateCheck(h) \/ RotateRevoke(h) \/ Mint(h) \/ \E k \in Key : RotateRead(h, k)
Next ==
  \/ Dashboard \/ \E k \in Key : Revoke(k)
  \/ \E c \in Call : Resolve(c) \/ Fill(c) \/ Count(c) \/ \E k \in Key : Present(c, k)
  \/ Change \/ Lapse \/ Bust \/ Expire

Spec == Init /\ [][Next]_vars

-----------------------------------------------------------------------------
(* Properties. *)

\* The cached plan differs from what the subscription grants only while the
\* event that changed it has not come to the deletion, because that failed,
\* because the paid period ended while it was cached, or because a request
\* computed the plan before the change and cached it after (plan.ts:30); a minute
\* later the entry is gone.
StalePlanExplained == cached \in {"none", granted} \/ billing \/ stale
=============================================================================
