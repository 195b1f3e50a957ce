------------------------------ MODULE Billing -------------------------------
(***************************************************************************)
(* The handlers that move one user's subscription, and how they interleave:*)
(* the webhook routes (apps/web/app/api/{paystack,polar}/webhook), the     *)
(* worker's drain (apps/worker/src/loops/billing-processor.ts), the        *)
(* checkout return page, and the cancel, resume and routing forms of the   *)
(* owner and the administrator.  All but the last two run                  *)
(* applyBillingEvent, which is not a transaction: every awaited statement  *)
(* is one step here, and a handler may throw or its process may die        *)
(* between any two.                                                        *)
(***************************************************************************)
EXTENDS Subscription, FiniteSets

CONSTANTS
  Web,        \* webhook requests (each holds one delivery at a time)
  Drain,      \* worker processes running the drain
  Return,     \* requests of the checkout return page
  Owner,      \* the owner's form submissions
  Admin,      \* administrators' form submissions
  Event,      \* billing_events keys (processor, event id)
  Payload,    \* Payload[e]: what the stored payload normalizes to
  NoEvent,    \* the handler holds no billing_events row
  Link,       \* the user's links
  Choice,     \* routing modes the owner picks from
  Batch,      \* rows one drain pass selects (100)
  MaxNow,     \* bound: the clock stops here
  MaxFail     \* bound: handlers that throw or die

Runner == Web \cup Drain \cup Return \cup Owner \cup Admin

PaidMode == {"geo", "device", "ab"}
Mode == PaidMode \cup {"single"}

ASSUME BillingAssumption ==
  /\ Payload \in [Event -> Body]
  /\ NoEvent \notin Event
  /\ Choice \subseteq Mode
  /\ Batch \in Nat \ {0}
  /\ MaxNow \in Nat \ {0}
  /\ MaxFail \in Nat

VARIABLES
  now,        \* the clock
  sub,        \* the user's subscriptions row
  invoices,   \* provider_reference of the paid invoices
  arrived,    \* arrived[e]: rank of e's row by created_at, 0 when not recorded
  processed,  \* rows with processed_at set
  mode,       \* mode[l]: routing_mode of link l
  rules,      \* rules[l]: match types of its link_destinations rows
  job,        \* job[r]: what handler r holds between two awaits
  fails,      \* handlers that failed so far
  credits,    \* history: credits[c], how often c extended the period
  receipts    \* history: receipts[c], receipt emails sent for c

vars == <<now, sub, invoices, arrived, processed, mode, rules, job, fails,
          credits, receipts>>

PC == {"idle", "next", "read", "invoice", "upsert", "degrade", "restore",
       "relink", "receipt", "stamp", "route", "resume"}

Job == [pc : PC, event : Event \cup {NoEvent}, body : Body, seen : Row,
        todo : SUBSET Event, relink : SUBSET (Link \X Mode)]

Idle == [pc |-> "idle", event |-> NoEvent, body |-> NoBody, seen |-> NoSub,
         todo |-> {}, relink |-> {}]

TypeOK ==
  /\ now \in Nat \ {0}
  /\ sub \in Row
  /\ invoices \subseteq Ref
  /\ arrived \in [Event -> Nat]
  /\ processed \subseteq Event
  /\ mode \in [Link -> Mode]
  /\ rules \in [Link -> SUBSET PaidMode]
  /\ job \in [Runner -> Job]
  /\ fails \in Nat
  /\ credits \in [Ref -> Nat]
  /\ receipts \in [Ref -> Nat]

Recorded == {e \in Event : arrived[e] > 0}
Quiescent == \A r \in Runner : job[r] = Idle

\* A user who never subscribed, or a subscriber with a routed link.
Init ==
  /\ now = 1
  /\ \/ /\ sub = NoSub
        /\ mode = [l \in Link |-> "single"]
     \/ /\ sub \in {[plan |-> p, status |-> "active", end |-> 1 + Interval,
                     atEnd |-> FALSE] : p \in PaidPlan}
        /\ mode \in [Link -> Choice]
  /\ rules = [l \in Link |-> {mode[l]} \ {"single"}]
  /\ invoices = {}
  /\ arrived = [e \in Event |-> 0]
  /\ processed = {}
  /\ job = [r \in Runner |-> Idle]
  /\ fails = 0
  /\ credits = [c \in Ref |-> 0]
  /\ receipts = [c \in Ref |-> 0]

-----------------------------------------------------------------------------
(***************************************************************************)
(* Where a handler goes.                                                   *)
(***************************************************************************)
Goto(r, pc) == job' = [job EXCEPT ![r].pc = pc]

\* Variant: a row that throws ends the pass.
LeaveAborts(r) == job' = [job EXCEPT ![r] = Idle]

\* The drain goes on with its batch; every other handler answers.
Leave(r) ==
  job' = [job EXCEPT ![r] =
            IF @.todo = {} THEN Idle
            ELSE [Idle EXCEPT !.pc = "next", !.todo = job[r].todo]]

\* applyBillingEvent returned: a newly paid invoice asks for its receipt, and
\* a stored event is stamped. The page and the forms do neither.
Applied(r) ==
  IF job[r].event # NoEvent
  THEN Goto(r, IF job[r].body.type = "charge" THEN "receipt" ELSE "stamp")
  ELSE Leave(r)

\* Start on body b: an event that normalizes to null is only stamped.
Begin(r, e, b, todo) ==
  job' = [job EXCEPT ![r] =
            [Idle EXCEPT !.pc = IF b.type = "ignored" THEN "stamp" ELSE "read",
                         !.event = e, !.body = b, !.todo = todo]]

-----------------------------------------------------------------------------
(***************************************************************************)
(* Who starts an application.                                              *)
(***************************************************************************)

\* A delivery whose (processor, event id) is new: the row is inserted and the
\* event applied inline. A redelivery conflicts and changes nothing.
Deliver(r, e) ==
  /\ r \in Web /\ job[r].pc = "idle"
  /\ arrived[e] = 0
  /\ arrived' = [arrived EXCEPT ![e] = 1 + Cardinality(Recorded)]
  /\ Begin(r, e, Payload[e], {})
  /\ UNCHANGED <<now, sub, invoices, processed, mode, rules, fails, credits, receipts>>

Pending == Recorded \ processed
Older(S, e) == {f \in S : arrived[f] < arrived[e]}

\* The oldest Batch rows without processed_at, as the pass selects them.
DrainSelect(r) ==
  /\ r \in Drain /\ job[r].pc = "idle"
  /\ Pending # {}
  /\ job' = [job EXCEPT ![r].pc = "next",
               ![r].todo = {e \in Pending : Cardinality(Older(Pending, e)) < Batch}]
  /\ UNCHANGED <<now, sub, invoices, arrived, processed, mode, rules, fails,
                 credits, receipts>>

\* The next row of the selected list, which is not read again.
DrainNext(r) ==
  /\ job[r].pc = "next"
  /\ \E e \in job[r].todo :
       /\ Older(job[r].todo, e) = {}
       /\ Begin(r, e, Payload[e], job[r].todo \ {e})
  /\ UNCHANGED <<now, sub, invoices, arrived, processed, mode, rules, fails,
                 credits, receipts>>

\* The return page of a checkout whose transaction the provider reports as
\* successful, or whose subscription it reports as active.
ReturnVisit(r, e) ==
  /\ r \in Return /\ job[r].pc = "idle"
  /\ Payload[e].known
  /\ \/ Payload[e].type = "charge" /\ Payload[e].ref # NoRef
     \/ Payload[e].type = "activate" /\ Payload[e].end > now
  /\ Begin(r, NoEvent, Payload[e], {})
  /\ UNCHANGED <<now, sub, invoices, arrived, processed, mode, rules, fails,
                 credits, receipts>>

\* The cancel event the owner's form applies: what it read of the row, kept
\* until the period ends.
OwnerCancelBody ==
  [NoBody EXCEPT !.type = "cancel", !.plan = sub.plan, !.end = sub.end, !.atEnd = TRUE]

\* The administrator's: immediate, and naming no period end.
AdminCancelBody == [NoBody EXCEPT !.type = "cancel", !.plan = sub.plan]

CancelForm(r) ==
  /\ job[r].pc = "idle"
  /\ sub.plan # "free"
  /\ \/ r \in Owner /\ Begin(r, NoEvent, OwnerCancelBody, {})
     \/ r \in Admin /\ Begin(r, NoEvent, AdminCancelBody, {})
  /\ UNCHANGED <<now, sub, invoices, arrived, processed, mode, rules, fails,
                 credits, receipts>>

-----------------------------------------------------------------------------
(***************************************************************************)
(* applyBillingEvent, statement by statement.                              *)
(***************************************************************************)
\* Variant: the period is extended first.
AfterReadUpsert(b) == "upsert"
AfterRead(b) == IF b.type = "charge" THEN "invoice" ELSE "upsert"

Read(r) ==
  /\ job[r].pc = "read"
  /\ job' = [job EXCEPT ![r].seen = sub, ![r].pc = AfterRead(job[r].body)]
  /\ UNCHANGED <<now, sub, invoices, arrived, processed, mode, rules, fails,
                 credits, receipts>>

\* Variants: the row count of the insert is not looked at; a charge of a user
\* without a subscription has nothing to be recorded on.
NewlyPaidAlways(c) == c # NoRef
NewlyPaidWithRow(c) == c # NoRef /\ c \notin invoices /\ sub # NoSub

NewlyPaid(c) == c # NoRef /\ c \notin invoices

\* recordPaidInvoice: a reference that is already there, or none, makes the
\* whole application a no-op.
Invoice(r) ==
  /\ job[r].pc = "invoice"
  /\ \/ /\ NewlyPaid(job[r].body.ref) /\ job[r].body.known
        /\ invoices' = invoices \cup {job[r].body.ref}
        /\ Goto(r, "upsert")
     \/ /\ ~NewlyPaid(job[r].body.ref)
        /\ IF job[r].event # NoEvent THEN Goto(r, "stamp") ELSE Leave(r)
        /\ UNCHANGED invoices
  /\ UNCHANGED <<now, sub, arrived, processed, mode, rules, fails, credits, receipts>>

\* upsertSubscription: absolute values computed from the row read before.
Upsert(r) ==
  LET b == job[r].body IN
  /\ job[r].pc = "upsert" /\ b.known
  /\ sub' = NewRow(b, job[r].seen, now)
  /\ credits' = IF b.type = "charge" THEN [credits EXCEPT ![b.ref] = @ + 1] ELSE credits
  /\ \/ Restores(b) /\ Goto(r, "restore")
     \/ Degrades(b, job[r].seen, now) /\ Goto(r, "degrade")
     \/ ~Restores(b) /\ ~Degrades(b, job[r].seen, now) /\ Applied(r)
  /\ UNCHANGED <<now, invoices, arrived, processed, mode, rules, fails, receipts>>

\* degradeUserToFree: one UPDATE over the user's routed links.
Degrade(r) ==
  /\ job[r].pc = "degrade"
  /\ mode' = [l \in Link |-> "single"]
  /\ Applied(r)
  /\ UNCHANGED <<now, sub, invoices, arrived, processed, rules, fails, credits, receipts>>

\* The mode the preserved rows ask for: ab over geo over device.
Strongest(S) == IF "ab" \in S THEN "ab" ELSE IF "geo" \in S THEN "geo" ELSE "device"

Suspended(l) == mode[l] = "single" /\ rules[l] # {}

\* restoreUserPlan, the SELECT: suspended links and their modes ...
RestoreSelect(r) ==
  /\ job[r].pc = "restore"
  /\ LET found == {<<l, Strongest(rules[l])>> : l \in {k \in Link : Suspended(k)}} IN
       IF found = {} THEN Applied(r)
       ELSE job' = [job EXCEPT ![r].pc = "relink", ![r].relink = found]
  /\ UNCHANGED <<now, sub, invoices, arrived, processed, mode, rules, fails,
                 credits, receipts>>

\* ... and one UPDATE by id for each, whatever became of the link meanwhile.
Relink(r) ==
  /\ job[r].pc = "relink"
  /\ \E p \in job[r].relink :
       /\ mode' = [mode EXCEPT ![p[1]] = p[2]]
       /\ IF job[r].relink = {p} THEN Applied(r)
          ELSE job' = [job EXCEPT ![r].relink = @ \ {p}]
  /\ UNCHANGED <<now, sub, invoices, arrived, processed, rules, fails, credits, receipts>>

-----------------------------------------------------------------------------
(***************************************************************************)
(* After applyBillingEvent: the receipt, then processed_at.                *)
(***************************************************************************)
Receipt(r) ==
  /\ job[r].pc = "receipt"
  /\ \/ receipts' = [receipts EXCEPT ![job[r].body.ref] = @ + 1]
     \/ UNCHANGED receipts          \* a failed email is caught and forgotten
  /\ Goto(r, "stamp")
  /\ UNCHANGED <<now, sub, invoices, arrived, processed, mode, rules, fails, credits>>

Stamp(r) ==
  /\ job[r].pc = "stamp"
  /\ processed' = processed \cup {job[r].event}
  /\ Leave(r)
  /\ UNCHANGED <<now, sub, invoices, arrived, mode, rules, fails, credits, receipts>>

\* A handler that throws, or whose process dies: nothing is rolled back, and
\* a dying worker also forgets the rest of its batch.
Fail(r) ==
  /\ job[r].pc # "idle" /\ fails < MaxFail
  /\ fails' = fails + 1
  /\ Leave(r) \/ job' = [job EXCEPT ![r] = Idle]
  /\ UNCHANGED <<now, sub, invoices, arrived, processed, mode, rules, credits, receipts>>

\* A user that was purged: the first INSERT that names it violates the foreign
\* key, every time the event is tried.
Reject(r) ==
  LET b == job[r].body IN
  /\ ~b.known /\ job[r].pc = AfterRead(b)
  /\ b.type = "charge" => NewlyPaid(b.ref)
  /\ Leave(r)
  /\ UNCHANGED <<now, sub, invoices, arrived, processed, mode, rules, fails,
                 credits, receipts>>

-----------------------------------------------------------------------------
(***************************************************************************)
(* The forms that do not go through applyBillingEvent.                     *)
(***************************************************************************)

\* setLinkRoutingAction: a paid mode asks for the plan first ...
RouteForm(r, l, m) ==
  /\ r \in Owner /\ job[r].pc = "idle"
  /\ m = "single" \/ Granted(sub, now) # "free"
  /\ job' = [job EXCEPT ![r].pc = "route", ![r].relink = {<<l, m>>}]
  /\ UNCHANGED <<now, sub, invoices, arrived, processed, mode, rules, fails,
                 credits, receipts>>

\* ... then replaces mode and rows in one transaction.
RouteCommit(r) ==
  /\ job[r].pc = "route"
  /\ \E p \in job[r].relink :
       /\ mode' = [mode EXCEPT ![p[1]] = p[2]]
       /\ rules' = [rules EXCEPT ![p[1]] = {p[2]} \ {"single"}]
  /\ Leave(r)
  /\ UNCHANGED <<now, sub, invoices, arrived, processed, fails, credits, receipts>>

\* resumeSubscriptionAction: the row is checked, the provider called ...
ResumeForm(r) ==
  /\ r \in Owner /\ job[r].pc = "idle"
  /\ sub.plan # "free" /\ sub.atEnd
  /\ sub.end = NoEnd \/ sub.end > now
  /\ Goto(r, "resume")
  /\ UNCHANGED <<now, sub, invoices, arrived, processed, mode, rules, fails,
                 credits, receipts>>

\* ... and two columns are set on whatever the row is by then.
ResumeCommit(r) ==
  /\ job[r].pc = "resume"
  /\ sub' = [sub EXCEPT !.status = "active", !.atEnd = FALSE]
  /\ Leave(r)
  /\ UNCHANGED <<now, invoices, arrived, processed, mode, rules, fails, credits, receipts>>

Tick ==
  /\ now < MaxNow
  /\ now' = now + 1
  /\ UNCHANGED <<sub, invoices, arrived, processed, mode, rules, job, fails,
                 credits, receipts>>

-----------------------------------------------------------------------------
Apply(r) == Read(r) \/ Invoice(r) \/ Upsert(r) \/ Degrade(r) \/ RestoreSelect(r) \/ Relink(r)

Start(r) ==
  \/ \E e \in Event : Deliver(r, e) \/ ReturnVisit(r, e)
  \/ DrainSelect(r) \/ DrainNext(r) \/ CancelForm(r) \/ ResumeForm(r)
  \/ \E l \in Link, m \in Choice : RouteForm(r, l, m)

Finish(r) ==
  Receipt(r) \/ Stamp(r) \/ Reject(r) \/ RouteCommit(r) \/ ResumeCommit(r)

Next == Tick \/ \E r \in Runner : Start(r) \/ Apply(r) \/ Finish(r) \/ Fail(r)

\* The worker's scheduler starts the drain every 15 s and lets a pass run to
\* its end; nothing else has to happen.
Fairness ==
  \A r \in Drain : WF_vars(DrainSelect(r) \/ DrainNext(r) \/ Apply(r) \/ Finish(r))

Spec == Init /\ [][Next]_vars /\ Fairness

-----------------------------------------------------------------------------
(***************************************************************************)
(* Properties                                                              *)
(***************************************************************************)

\* However webhook, drain and return page interleave, fail and retry on the
\* same charge, recordPaidInvoice and the upsert behind it behave like the
\* ledger: one invoice, at most one extension, and the invoice first.
Ledger == INSTANCE ChargeLedger WITH Charge <- Ref, invoiced <- invoices
LedgerSpec == Ledger!Spec

\* A receipt email (route.ts sendReceipt, billing-processor notifyReceipt) goes
\* out at most once for a charge, and only for one that extended the period:
\* two rows for one order, or a retry, do not thank the customer twice.
ReceiptOncePerCredit == \A c \in Ref : receipts[c] <= credits[c] /\ credits[c] <= 1

\* A stored charge event whose row is stamped has extended the period, unless
\* some handler failed on the way: an interleaving alone (the drain taking the
\* row the webhook is still working on, the return page recording the invoice
\* first) loses no payment.
Paying(e) == Payload[e].type = "charge" /\ Payload[e].known /\ Payload[e].ref # NoRef
ChargeLostOnlyByFailure ==
  \A e \in processed :
    Quiescent /\ Paying(e) /\ credits[Payload[e].ref] = 0 => fails > 0

\* The drain gets to every recorded row of a living user and stamps it, however
\* the webhook handler that inserted it ended, and although rows of purged
\* users fail for ever, as long as fewer than Batch of those exist.
EventuallyProcessed ==
  \A e \in Event :
    (e \in Recorded /\ Payload[e].known) ~> (e \in processed)

\* With handlers one after another, an application leaves the links' routing as
\* its event says: suspended by a failed payment or an immediate cancellation,
\* and each link with rules back in the mode they ask for after an activation
\* or a charge, whatever the events and forms before it did to the links.
RoutingFollowsEvent ==
  [][\A r \in Runner : Stamp(r) =>
       LET b == job[r].body IN
       /\ b.type = "past_due" \/ (b.type = "cancel" /\ ~b.atEnd)
          => \A l \in Link : mode[l] = "single"
       /\ Restores(b) => \A l \in Link : rules[l] # {} => mode[l] = Strongest(rules[l])]_vars

\* However often charges are replayed, raced, cancelled or resumed, the row
\* never promises more than the current period and one further period for each
\* invoice that was really paid.
NoFreeTime == sub.end <= now + Interval * (1 + Cardinality(invoices))
=============================================================================
