-------------------------- MODULE WebhookDelivery --------------------------
(***************************************************************************)
(* Outbound webhooks: rows of webhook_deliveries, the endpoints they go to *)
(* and the worker's delivery pass (loops/webhook-deliver.ts), with the     *)
(* ways rows come in (lib/webhooks.ts, webhook-emit.ts, the test and       *)
(* replay forms) and the owner's forms for the endpoint.                   *)
(*                                                                         *)
(* A pass reads up to Batch due rows at once and then works from what it   *)
(* read: attempts and failure counts are written as absolute values.  It   *)
(* runs under a Redis lock that carries no owner and expires, after 30     *)
(* seconds, whether the pass has ended or not.                             *)
(***************************************************************************)
EXTENDS Naturals, FiniteSets

CONSTANTS
  Worker,       \* worker processes
  Endpoint,     \* webhooks rows
  Batch,        \* rows one pass selects (50)
  MaxAttempts,  \* failures that end a delivery, or an endpoint (5)
  MaxDelivery,  \* bound: rows inserted
  MaxForm,      \* bound: forms the owner submits
  MaxTrouble    \* bound: database errors, crashes, locks that expire too early

ASSUME WebhookAssumption ==
  /\ IsFiniteSet(Worker)
  /\ Batch \in Nat \ {0} /\ MaxAttempts \in Nat \ {0}
  /\ MaxDelivery \in Nat /\ MaxForm \in Nat /\ MaxTrouble \in Nat

Delivery == 1..MaxDelivery

VARIABLES
  hook,       \* hook[e]: the endpoint's row
  sent,       \* delivery rows inserted so far
  rows,       \* rows[d]: the row of delivery d
  turn,       \* turn[d]: rank of d by next_retry_at, if that is in the past; or 0
  later,      \* deliveries with next_retry_at in the future
  lock,       \* the Redis lock exists
  job,        \* job[w]: what worker w is at
  forms,      \* forms submitted so far
  errors,     \* database errors and crashes so far
  overruns,   \* locks that expired under a running pass so far
  accepted,   \* history: accepted[d], requests for d answered with 2xx
  refused     \* history: refused[d], requests for d that failed

plan == <<turn, later>>
bounds == <<forms, errors, overruns>>
history == <<accepted, refused>>
vars == <<hook, sent, rows, plan, lock, job, bounds, history>>

\* exists: the owner has not deleted the endpoint, and its rows with it.
Hook == [exists : BOOLEAN, active : BOOLEAN, count : Nat]
Row == [to : Endpoint, attempts : 0..MaxAttempts, delivered : BOOLEAN]

\* What a pass has read of a row and its endpoint.
Seen == [id : Delivery, to : Endpoint, turn : Nat, attempts : 0..MaxAttempts, count : Nat]

\* todo: the rest of the batch.  on: the row at hand, in a set of one.
\* caught: an error of the database is being handled in the catch block.
PC == {"idle", "select", "post", "success", "reset", "failure", "health", "unlock"}
Job == [pc : PC, todo : SUBSET Seen, on : SUBSET Seen, caught : BOOLEAN]
Idle == [pc |-> "idle", todo |-> {}, on |-> {}, caught |-> FALSE]

\* Variables have their types, and a row is not both due and waiting.
TypeOK ==
  /\ hook \in [Endpoint -> Hook]
  /\ sent \in 0..MaxDelivery
  /\ rows \in [Delivery -> Row]
  /\ turn \in [Delivery -> Nat] /\ later \subseteq 1..sent
  /\ \A d \in Delivery : turn[d] > 0 => d <= sent /\ d \notin later
  /\ lock \in BOOLEAN
  /\ job \in [Worker -> Job]
  /\ forms \in 0..MaxForm /\ errors \in 0..MaxTrouble /\ overruns \in 0..MaxTrouble
  /\ accepted \in [Delivery -> Nat] /\ refused \in [Delivery -> Nat]

\* A new endpoint is on.
NewHook == [exists |-> TRUE, active |-> TRUE, count |-> 0]

\* Some endpoints are there, and nothing is to be delivered.
Init ==
  /\ hook \in [Endpoint -> {NewHook, [NewHook EXCEPT !.exists = FALSE]}]
  /\ sent = 0
  /\ rows \in [Delivery -> [to : Endpoint, attempts : {0}, delivered : {FALSE}]]
  /\ turn = [d \in Delivery |-> 0] /\ later = {}
  /\ lock = FALSE
  /\ job = [w \in Worker |-> Idle]
  /\ forms = 0 /\ errors = 0 /\ overruns = 0
  /\ accepted = [d \in Delivery |-> 0] /\ refused = [d \in Delivery |-> 0]

-----------------------------------------------------------------------------
(* next_retry_at: the due rows stand in line, the others wait or are done. *)

InLine == {d \in Delivery : turn[d] > 0}

\* Of the rows in line, those of S stay and close up.
Stay(S) ==
  turn' = [d \in Delivery |->
             IF d \in S \cap InLine
             THEN Cardinality({c \in S \cap InLine : turn[c] <= turn[d]}) ELSE 0]

Join(d) == turn' = [turn EXCEPT ![d] = 1 + Cardinality(InLine)]

RowsOf(e) == {d \in 1..sent : rows[d].to = e}

\* Who inserts a row: the web application and the ingest loop for an event that an
\* active endpoint wants, the owner's test, and the owner's replay of an earlier
\* row; the forms do not ask whether the endpoint is active.
EmitWebhook(e) == hook[e].exists /\ hook[e].active
EnqueueClicked(e) == hook[e].exists /\ hook[e].active
Test(e) == hook[e].exists
Replay(e) == hook[e].exists /\ RowsOf(e) # {}

\* next_retry_at is now.
Enqueue ==
  LET d == sent + 1
      e == rows[d].to IN
  /\ sent < MaxDelivery
  /\ EmitWebhook(e) \/ EnqueueClicked(e) \/ Test(e) \/ Replay(e)
  /\ sent' = d
  /\ Join(d)
  /\ UNCHANGED <<hook, rows, later, lock, job, bounds, history>>

\* The backoff of d is over.
BackoffEnds(d) ==
  /\ d \in later
  /\ later' = later \ {d} /\ Join(d)
  /\ UNCHANGED <<hook, sent, rows, lock, job, bounds, history>>

-----------------------------------------------------------------------------
(* The owner. *)

\* A fresh id, as far as rows can tell; the plan's limit is the size of Endpoint.
Create(e) ==
  /\ ~hook[e].exists /\ RowsOf(e) = {} /\ forms < MaxForm
  /\ hook' = [hook EXCEPT ![e] = NewHook]
  /\ forms' = forms + 1
  /\ UNCHANGED <<sent, rows, plan, lock, job, errors, overruns, history>>

\* The form says on or off, whatever is so by now.  On starts the failure count
\* again.
Toggle(e) ==
  /\ hook[e].exists /\ forms < MaxForm
  /\ \E on \in BOOLEAN :
       hook' = [hook EXCEPT ![e].active = on, ![e].count = IF on THEN 0 ELSE @]
  /\ forms' = forms + 1
  /\ UNCHANGED <<sent, rows, plan, lock, job, errors, overruns, history>>

\* The delivery rows go with the endpoint.
Delete(e) ==
  /\ hook[e].exists /\ forms < MaxForm
  /\ hook' = [hook EXCEPT ![e].exists = FALSE]
  /\ Stay(Delivery \ RowsOf(e)) /\ later' = later \ RowsOf(e)
  /\ forms' = forms + 1
  /\ UNCHANGED <<sent, rows, lock, job, errors, overruns, history>>

-----------------------------------------------------------------------------
(* The pass. *)

Goto(w, pc) == job' = [job EXCEPT ![w].pc = pc]

\* SET NX; a pass that does not get the lock ends at once.
Lock(w) ==
  /\ job[w].pc = "idle" /\ ~lock
  /\ lock' = TRUE
  /\ Goto(w, "select")
  /\ UNCHANGED <<hook, sent, rows, plan, bounds, history>>

\* Due, undelivered, of an active endpoint.
Wanted ==
  {d \in InLine : ~rows[d].delivered /\ hook[rows[d].to].active}

\* The first Batch of them.
Picked == {d \in Wanted : Cardinality({c \in Wanted : turn[c] < turn[d]}) < Batch}

Select(w) ==
  /\ job[w].pc = "select"
  /\ job' = [job EXCEPT
       ![w].todo = {[id |-> d, to |-> rows[d].to, turn |-> turn[d],
                     attempts |-> rows[d].attempts,
                     count |-> hook[rows[d].to].count] : d \in Picked},
       ![w].pc = IF Picked = {} THEN "unlock" ELSE "post"]
  /\ UNCHANGED <<hook, sent, rows, plan, lock, bounds, history>>

\* The row r of j's batch is at hand.
At(pc, r, j) == [j EXCEPT !.pc = pc, !.todo = @ \ {r}, !.on = {[r EXCEPT !.turn = 0]}]

\* The request for the next row of the batch, which is not read again: a 2xx
\* answer, another status, or a timeout or network error.
Post(w) ==
  /\ job[w].pc = "post"
  /\ \E r \in job[w].todo :
       /\ \A q \in job[w].todo : r.turn <= q.turn
       /\ \/ /\ accepted' = [accepted EXCEPT ![r.id] = @ + 1] /\ UNCHANGED refused
             /\ job' = [job EXCEPT ![w] = At("success", r, @)]
          \/ /\ refused' = [refused EXCEPT ![r.id] = @ + 1] /\ UNCHANGED accepted
             /\ job' = [job EXCEPT ![w] = At("failure", r, @)]
  /\ UNCHANGED <<hook, sent, rows, plan, lock, bounds>>

\* The row is still there.
Kept(r) == hook[r.to].exists

\* next_retry_at is never, or later.
Unplan(d) == Stay(Delivery \ {d}) /\ later' = later \ {d}
Postpone(d) == Stay(Delivery \ {d}) /\ later' = later \cup {d}

\* Mutant of MarkDelivered: delivered_at is forgotten.
MarkDeliveredNever(w) ==
  /\ job[w].pc = "success"
  /\ \E r \in job[w].on :
       rows' = IF Kept(r) THEN [rows EXCEPT ![r.id].attempts = r.attempts + 1] ELSE rows
  /\ Goto(w, "reset")
  /\ UNCHANGED <<hook, sent, plan, lock, bounds, history>>

\* markSuccess, the delivery ...
MarkDelivered(w) ==
  /\ job[w].pc = "success"
  /\ \E r \in job[w].on :
       IF Kept(r)
       THEN /\ rows' = [rows EXCEPT ![r.id].attempts = r.attempts + 1,
                                    ![r.id].delivered = TRUE]
            /\ Unplan(r.id)
       ELSE UNCHANGED <<rows, plan>>
  /\ Goto(w, "reset")
  /\ UNCHANGED <<hook, sent, lock, bounds, history>>

\* The next row of the batch.
GoOn(w) ==
  job' = [job EXCEPT ![w] = [Idle EXCEPT !.pc = IF job[w].todo = {} THEN "unlock" ELSE "post",
                                         !.todo = job[w].todo]]

\* ... and the endpoint.
ResetCount(w) ==
  /\ job[w].pc = "reset"
  /\ \E r \in job[w].on : hook' = [hook EXCEPT ![r.to].count = 0]
  /\ GoOn(w)
  /\ UNCHANGED <<sent, rows, plan, lock, bounds, history>>

\* Mutant of Exhausted: given up one attempt early.
ExhaustedEarly(r) == r.attempts + 2 >= MaxAttempts
Exhausted(r) == r.attempts + 1 >= MaxAttempts

\* markFailure, the delivery ...
MarkRetry(w) ==
  /\ job[w].pc = "failure"
  /\ \E r \in job[w].on :
       IF Kept(r)
       THEN /\ rows' = [rows EXCEPT ![r.id].attempts = r.attempts + 1]
            /\ IF Exhausted(r) THEN Unplan(r.id) ELSE Postpone(r.id)
       ELSE UNCHANGED <<rows, plan>>
  /\ Goto(w, "health")
  /\ UNCHANGED <<hook, sent, lock, bounds, history>>

\* ... and the endpoint, turned off when the count that was read is the last.
MarkFailing(w) ==
  /\ job[w].pc = "health"
  /\ \E r \in job[w].on :
       hook' = [hook EXCEPT ![r.to].count = r.count + 1,
                            ![r.to].active = @ /\ r.count + 1 < MaxAttempts]
  /\ GoOn(w)
  /\ UNCHANGED <<sent, rows, plan, lock, bounds, history>>

\* DEL, whoever set the lock.
Unlock(w) ==
  /\ job[w].pc = "unlock"
  /\ lock' = FALSE
  /\ job' = [job EXCEPT ![w] = Idle]
  /\ UNCHANGED <<hook, sent, rows, plan, bounds, history>>

-----------------------------------------------------------------------------
(* What goes wrong. *)

\* A statement of the pass throws.  In the try block this is taken for a failed
\* request; in the catch block, where a request that threw is handled too, or
\* outside of both, it ends the pass.
DbError(w) ==
  /\ job[w].pc \in {"select", "success", "reset", "failure", "health"}
  /\ errors + overruns < MaxTrouble /\ errors' = errors + 1
  /\ \/ /\ job[w].pc # "select" /\ ~job[w].caught
        /\ job' = [job EXCEPT ![w].pc = "failure", ![w].caught = TRUE]
     \/ /\ job[w].pc \in {"select", "failure", "health"}
        /\ job' = [job EXCEPT ![w] = [Idle EXCEPT !.pc = "unlock"]]
  /\ UNCHANGED <<hook, sent, rows, plan, lock, forms, overruns, history>>

\* The process dies, or only its DEL fails; the lock stays.
Crash(w) ==
  /\ job[w].pc # "idle"
  /\ errors + overruns < MaxTrouble /\ errors' = errors + 1
  /\ job' = [job EXCEPT ![w] = Idle]
  /\ UNCHANGED <<hook, sent, rows, plan, lock, forms, overruns, history>>

Running == \E w \in Worker : job[w].pc # "idle"

\* Mutant of LockExpires: the lock is set without a time to live.
LockForever == FALSE /\ UNCHANGED vars

\* Thirty seconds have passed.
LockExpires ==
  /\ lock
  /\ lock' = FALSE
  /\ IF Running THEN errors + overruns < MaxTrouble /\ overruns' = overruns + 1
     ELSE UNCHANGED overruns
  /\ UNCHANGED <<hook, sent, rows, plan, job, forms, errors, history>>

-----------------------------------------------------------------------------
Pass(w) ==
  \/ Lock(w) \/ Select(w) \/ Post(w) \/ MarkDelivered(w) \/ ResetCount(w)
  \/ MarkRetry(w) \/ MarkFailing(w) \/ Unlock(w)

Next ==
  \/ Enqueue
  \/ \E e \in Endpoint : Create(e) \/ Toggle(e) \/ Delete(e)
  \/ \E d \in Delivery : BackoffEnds(d)
  \/ \E w \in Worker : Pass(w) \/ DbError(w) \/ Crash(w)
  \/ LockExpires

\* The scheduler starts a pass every 10 s in each process, a request ends after
\* 15 s, and time passes; nobody has to enqueue anything.
Fairness ==
  /\ \A w \in Worker : WF_vars(Pass(w))
  /\ \A d \in Delivery : WF_vars(BackoffEnds(d))
  /\ WF_vars(~Running /\ LockExpires)

Spec == Init /\ [][Next]_vars /\ Fairness

-----------------------------------------------------------------------------
(* Properties. *)

Alive(d) == d <= sent /\ hook[rows[d].to].exists
Planned(d) == d \in later \cup InLine

\* "never double-POST" (webhook-deliver.ts:27), as far as it holds: an endpoint
\* that accepted a delivery gets it again only after a database error or a
\* crash, each good for one repeat, or once for every other worker when a pass
\* outlived its lock.
RepeatsBounded ==
  \A d \in Delivery :
    accepted[d] <= (IF overruns = 0 THEN 1 ELSE Cardinality(Worker)) + errors

\* A delivery is given up only after MaxAttempts requests were made for it,
\* however passes overlap, overwrite each other's counts or are cut short.
GivenUpAfterAttempts ==
  \A d \in Delivery :
    Alive(d) /\ ~Planned(d) /\ ~rows[d].delivered
    => accepted[d] + refused[d] >= MaxAttempts

\* A row whose endpoint is active is settled in the end, although passes die,
\* overrun their lock and release that of another: delivered, given up, or
\* stopped by the endpoint being turned off or deleted.
EventuallySettled ==
  \A d \in Delivery :
    (Alive(d) /\ Planned(d))
      ~> \/ ~Alive(d) \/ rows[d].delivered \/ ~Planned(d)
         \/ ~hook[rows[d].to].active
=============================================================================
