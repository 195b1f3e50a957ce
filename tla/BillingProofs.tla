--------------------------- MODULE BillingProofs ----------------------------
(***************************************************************************)
(* Proofs about Billing, for any numbers of handlers, events and links:    *)
(* type correctness, what becomes of a charge, that the handlers implement *)
(* ChargeLedger, what time the row promises, and, of handlers one after    *)
(* another, that the routing follows the events.                           *)
(***************************************************************************)
EXTENDS Billing, FiniteSetTheorems, TLAPS

-----------------------------------------------------------------------------
(***************************************************************************)
(* The inductive invariant: between the insert of its invoice and its      *)
(* receipt, a handler holds the charge it works for.                       *)
(***************************************************************************)
Holding(r) ==
  job[r].body.type = "charge" /\ job[r].pc \in {"upsert", "restore", "relink", "receipt"}

\* Only a charge has an invoice and a receipt, no charge suspends the routing, and only a
\* stored event is stamped.
StageFits ==
  \A r \in Runner :
    /\ job[r].pc \in {"invoice", "receipt"} => job[r].body.type = "charge"
    /\ job[r].pc = "degrade" => job[r].body.type # "charge"
    /\ job[r].pc \in {"receipt", "stamp"} => job[r].event \in Event
    /\ job[r].pc \in {"idle", "next", "route", "resume"} => job[r].event = NoEvent

\* The charge in hand has an invoice; it is credited by the upsert, and its
\* receipt is still to come.
HeldOnce ==
  \A r \in Runner : Holding(r) =>
    LET c == job[r].body.ref IN
    /\ c \in Ref /\ c \in invoices
    /\ credits[c] = IF job[r].pc = "upsert" THEN 0 ELSE 1
    /\ receipts[c] = 0

OneHolder ==
  \A q, r \in Runner :
    Holding(q) /\ Holding(r) /\ job[q].body.ref = job[r].body.ref => q = r

Counted ==
  \A c \in Ref :
    /\ receipts[c] <= credits[c] /\ credits[c] <= 1
    /\ c \notin invoices => credits[c] = 0

TypeInv == TypeOK /\ IsFiniteSet(Recorded) /\ StageFits
ChargeInv == HeldOnce /\ OneHolder /\ Counted

-----------------------------------------------------------------------------
(***************************************************************************)
(* Lemmas: the rows applyBillingEvent writes are rows, and what each way   *)
(* of moving a handler on does to the handlers' states.                    *)
(***************************************************************************)
LEMMA RowType ==
  ASSUME NEW b \in Body, NEW old \in Row, NEW t \in Nat
  PROVE  NewRow(b, old, t) \in Row
<1>1. Target(b, old) \in Plan
  BY DEF Target, Body, Row
<1>2. t + Interval \in Nat /\ StackBase(old, t) + Interval \in Nat
  BY SubscriptionAssumption DEF StackBase, Row
<1>3. ActivateRow(b, old, t) \in Row
  BY <1>1, <1>2 DEF ActivateRow, Row, Body, Status
<1>4. ChargeRow(b, old, t) \in Row
  BY <1>1, <1>2 DEF ChargeRow, Row, Body, Status
<1>5. SuspendRow(b, old, "past_due") \in Row /\ SuspendRow(b, old, "expired") \in Row
  BY <1>1 DEF SuspendRow, Row, Status
<1>6. CancelRow(b, old) \in Row
  BY <1>1 DEF CancelRow, Row, Body, Status
<1> QED
  BY <1>3, <1>4, <1>5, <1>6 DEF NewRow

LEMMA IdleType == Idle \in Job /\ NoBody \in Body
<1>1. NoBody \in Body
  BY DEF NoBody, Body, EventType, NoEnd
<1>2. NoSub \in Row
  BY DEF NoSub, Row, Plan, Status, NoEnd
<1> QED
  BY <1>1, <1>2 DEF Idle, Job, PC

\* Every other handler is left alone.
Others(r) == \A q \in Runner \ {r} : job'[q] = job[q]

LEMMA GotoStep ==
  ASSUME TypeOK, NEW r \in Runner, NEW pc \in PC, Goto(r, pc)
  PROVE  /\ job' \in [Runner -> Job] /\ Others(r)
         /\ job'[r] = [job[r] EXCEPT !.pc = pc]
         /\ job'[r].pc = pc /\ job'[r].event = job[r].event /\ job'[r].body = job[r].body
<1>1. job' \in [Runner -> Job] /\ Others(r) /\ job'[r] = [job[r] EXCEPT !.pc = pc]
  BY DEF TypeOK, Goto, Others, Job
<1>2. job[r] \in Job
  BY DEF TypeOK
<1> QED
  BY <1>1, <1>2 DEF Job

LEMMA LeaveStep ==
  ASSUME TypeOK, NEW r \in Runner, Leave(r) \/ job' = [job EXCEPT ![r] = Idle]
  PROVE  /\ job' \in [Runner -> Job] /\ Others(r)
         /\ job'[r].pc \in {"idle", "next"} /\ job'[r].event = NoEvent
<1> DEFINE next == [Idle EXCEPT !.pc = "next", !.todo = job[r].todo]
<1>1. next \in Job /\ next.pc = "next" /\ next.event = NoEvent
  BY IdleType DEF TypeOK, Idle, Job, PC
<1>2. Idle \in Job /\ Idle.pc = "idle" /\ Idle.event = NoEvent
  BY IdleType DEF Idle
<1>3. job' = [job EXCEPT ![r] = Idle] \/ job' = [job EXCEPT ![r] = next]
  BY DEF TypeOK, Leave
<1> HIDE DEF next
<1> QED
  BY <1>1, <1>2, <1>3 DEF TypeOK, Others

LEMMA BeginStep ==
  ASSUME TypeOK, NEW r \in Runner, NEW e \in Event \cup {NoEvent}, NEW b \in Body,
         NEW todo \in SUBSET Event, Begin(r, e, b, todo)
  PROVE  /\ job' \in [Runner -> Job] /\ Others(r)
         /\ job'[r].pc = IF b.type = "ignored" THEN "stamp" ELSE "read"
         /\ job'[r].event = e /\ job'[r].body = b
<1> DEFINE new == [Idle EXCEPT !.pc = IF b.type = "ignored" THEN "stamp" ELSE "read",
                               !.event = e, !.body = b, !.todo = todo]
<1>1. /\ new \in Job
      /\ new.pc = IF b.type = "ignored" THEN "stamp" ELSE "read"
      /\ new.event = e /\ new.body = b
  BY IdleType DEF Idle, Job, PC
<1>2. job' = [job EXCEPT ![r] = new]
  BY DEF Begin
<1> HIDE DEF new
<1> QED
  BY <1>1, <1>2 DEF TypeOK, Others

LEMMA AppliedStep ==
  ASSUME TypeOK, NEW r \in Runner, Applied(r)
  PROVE  /\ job' \in [Runner -> Job] /\ Others(r)
         /\ \/ /\ job[r].event # NoEvent
               /\ job'[r] = [job[r] EXCEPT !.pc =
                     IF job[r].body.type = "charge" THEN "receipt" ELSE "stamp"]
            \/ job'[r].pc \in {"idle", "next"} /\ job'[r].event = NoEvent
<1>1. CASE job[r].event # NoEvent
  BY <1>1, GotoStep DEF Applied, PC
<1>2. CASE job[r].event = NoEvent
  BY <1>2, LeaveStep DEF Applied
<1> QED
  BY <1>1, <1>2

-----------------------------------------------------------------------------
(***************************************************************************)
(* Type correctness.                                                       *)
(***************************************************************************)

\* Every step leaves the typed handlers where their stage allows them to be.
JobOK(r) == job' \in [Runner -> Job] /\ Others(r) /\ StageFits'

LEMMA GotoOK ==
  ASSUME TypeInv, NEW r \in Runner, NEW pc \in PC, Goto(r, pc),
         pc \in {"invoice", "receipt"} => job[r].body.type = "charge",
         pc = "degrade" => job[r].body.type # "charge",
         pc \in {"receipt", "stamp"} => job[r].event \in Event,
         pc \in {"idle", "next", "route", "resume"} => job[r].event = NoEvent
  PROVE  JobOK(r)
<1>1. /\ job' \in [Runner -> Job] /\ Others(r)
      /\ job'[r].pc = pc /\ job'[r].event = job[r].event /\ job'[r].body = job[r].body
  BY GotoStep DEF TypeInv
<1>2. ASSUME NEW q \in Runner
      PROVE  /\ job'[q].pc \in {"invoice", "receipt"} => job'[q].body.type = "charge"
             /\ job'[q].pc = "degrade" => job'[q].body.type # "charge"
             /\ job'[q].pc \in {"receipt", "stamp"} => job'[q].event \in Event
             /\ job'[q].pc \in {"idle", "next", "route", "resume"} => job'[q].event = NoEvent
  BY <1>1 DEF TypeInv, StageFits, Others
<1> QED
  BY <1>1, <1>2 DEF JobOK, StageFits

LEMMA LeaveOK ==
  ASSUME TypeInv, NEW r \in Runner, Leave(r) \/ job' = [job EXCEPT ![r] = Idle]
  PROVE  JobOK(r)
BY LeaveStep DEF TypeInv, StageFits, Others, JobOK

LEMMA BeginOK ==
  ASSUME TypeInv, NEW r \in Runner, NEW e \in Event \cup {NoEvent}, NEW b \in Body,
         NEW todo \in SUBSET Event, Begin(r, e, b, todo),
         b.type = "ignored" => e \in Event
  PROVE  JobOK(r)
BY BeginStep DEF TypeInv, StageFits, Others, JobOK

LEMMA AppliedOK ==
  ASSUME TypeInv, NEW r \in Runner, Applied(r)
  PROVE  JobOK(r)
<1>1. CASE job[r].event # NoEvent
  <2>1. job[r].event \in Event
    BY <1>1 DEF TypeInv, TypeOK, Job
  <2> QED
    BY <1>1, <2>1, GotoOK DEF Applied, PC
<1>2. CASE job[r].event = NoEvent
  BY <1>2, LeaveOK DEF Applied
<1> QED
  BY <1>1, <1>2

\* What a step may do to the variables other than job.
DataOK ==
  /\ now' \in Nat \ {0} /\ sub' \in Row /\ invoices' \subseteq Ref
  /\ arrived' \in [Event -> Nat] /\ IsFiniteSet(Recorded')
  /\ processed' \subseteq Event /\ mode' \in [Link -> Mode]
  /\ rules' \in [Link -> SUBSET PaidMode] /\ fails' \in Nat
  /\ credits' \in [Ref -> Nat] /\ receipts' \in [Ref -> Nat]

LEMMA FrameOK ==
  ASSUME TypeInv,
         UNCHANGED <<now, sub, invoices, arrived, processed, mode, rules, fails,
                     credits, receipts>>
  PROVE  DataOK
BY DEF TypeInv, TypeOK, DataOK, Recorded

LEMMA StartType ==
  ASSUME TypeInv, NEW r \in Runner, Start(r)
  PROVE  JobOK(r) /\ DataOK
<1> USE DEF TypeInv
<1>1. ASSUME NEW e \in Event, Deliver(r, e)
      PROVE  JobOK(r) /\ DataOK
  <2>1. Payload[e] \in Body
    BY BillingAssumption
  <2>2. JobOK(r)
    BY <1>1, <2>1, BeginOK DEF Deliver
  <2>3. Cardinality(Recorded) \in Nat
    BY FS_CardinalityType
  <2>4. arrived' \in [Event -> Nat]
    BY <1>1, <2>3 DEF Deliver, TypeOK
  <2>5. Recorded' = Recorded \cup {e}
    <3>1. arrived' = [arrived EXCEPT ![e] = 1 + Cardinality(Recorded)]
      BY <1>1 DEF Deliver
    <3>2. \A f \in Event : arrived'[f] > 0 <=> f = e \/ arrived[f] > 0
      BY <2>3, <3>1 DEF TypeOK
    <3> QED
      BY <3>2 DEF Recorded
  <2>6. IsFiniteSet(Recorded')
    BY <2>5, FS_AddElement
  <2> QED
    BY <1>1, <2>2, <2>4, <2>6 DEF Deliver, TypeOK, DataOK
<1>2. ASSUME NEW e \in Event, ReturnVisit(r, e)
      PROVE  JobOK(r) /\ DataOK
  <2>1. Payload[e] \in Body /\ Payload[e].type # "ignored"
    BY <1>2, BillingAssumption DEF ReturnVisit
  <2> QED
    BY <1>2, <2>1, BeginOK, FrameOK DEF ReturnVisit
<1>3. CASE DrainSelect(r)
  <2>1. JobOK(r)
    <3>1. job[r].event = NoEvent
      BY <1>3 DEF DrainSelect, StageFits
    <3> DEFINE todo == {e \in Pending : Cardinality(Older(Pending, e)) < Batch}
    <3>2. todo \in SUBSET Event
      BY DEF Pending, Recorded
    <3> HIDE DEF todo
    <3>3. job' = [job EXCEPT ![r].pc = "next", ![r].todo = todo]
      BY <1>3 DEF DrainSelect, todo
    <3>4. job' \in [Runner -> Job] /\ Others(r) /\ job'[r].pc = "next" /\ job'[r].event = NoEvent
      <4>1. job[r] \in Job
        BY DEF TypeOK
      <4> QED
        BY <3>1, <3>2, <3>3, <4>1 DEF TypeOK, Job, PC, Others
    <3> QED
      BY <3>4 DEF JobOK, StageFits, Others
  <2> QED
    BY <1>3, <2>1, FrameOK DEF DrainSelect
<1>4. CASE DrainNext(r)
  <2>1. PICK e \in job[r].todo : Begin(r, e, Payload[e], job[r].todo \ {e})
    BY <1>4 DEF DrainNext
  <2>2. e \in Event /\ job[r].todo \ {e} \in SUBSET Event
    BY DEF TypeOK, Job
  <2>3. Payload[e] \in Body
    BY <2>2, BillingAssumption
  <2>4. JobOK(r)
    BY <2>1, <2>2, <2>3, BeginOK
  <2> QED
    BY <1>4, <2>4, FrameOK DEF DrainNext
<1>5. CASE CancelForm(r)
  <2>1. OwnerCancelBody \in Body /\ OwnerCancelBody.type # "ignored"
    BY DEF OwnerCancelBody, NoBody, Body, EventType, TypeOK, Row
  <2>2. AdminCancelBody \in Body /\ AdminCancelBody.type # "ignored"
    BY DEF AdminCancelBody, NoBody, Body, EventType, TypeOK, Row, NoEnd
  <2>3. JobOK(r)
    BY <1>5, <2>1, <2>2, BeginOK DEF CancelForm
  <2> QED
    BY <1>5, <2>3, FrameOK DEF CancelForm
<1>6. CASE ResumeForm(r)
  <2>1. job[r].event = NoEvent
    BY <1>6 DEF ResumeForm, StageFits
  <2> QED
    BY <1>6, <2>1, GotoOK, FrameOK DEF ResumeForm, PC
<1>7. ASSUME NEW l \in Link, NEW m \in Choice, RouteForm(r, l, m)
      PROVE  JobOK(r) /\ DataOK
  <2>1. job[r].event = NoEvent /\ m \in Mode
    BY <1>7, BillingAssumption DEF RouteForm, StageFits
  <2>2. job' \in [Runner -> Job] /\ Others(r) /\ job'[r].pc = "route" /\ job'[r].event = NoEvent
    <3> DEFINE asked == {<<l, m>>}
    <3>1. asked \in SUBSET (Link \X Mode)
      BY <2>1
    <3>2. job' = [job EXCEPT ![r].pc = "route", ![r].relink = asked]
      BY <1>7 DEF RouteForm
    <3>3. job[r] \in Job
      BY DEF TypeOK
    <3> HIDE DEF asked
    <3> QED
      BY <2>1, <3>1, <3>2, <3>3 DEF TypeOK, Job, PC, Others
  <2>3. JobOK(r)
    BY <2>2 DEF JobOK, StageFits, Others
  <2> QED
    BY <1>7, <2>3, FrameOK DEF RouteForm
<1> QED
  BY <1>1, <1>2, <1>3, <1>4, <1>5, <1>6, <1>7 DEF Start

LEMMA ApplyType ==
  ASSUME TypeInv, NEW r \in Runner, Apply(r)
  PROVE  JobOK(r) /\ DataOK
<1> USE DEF TypeInv
<1>0. job[r] \in Job /\ job[r].body \in Body /\ job[r].seen \in Row
  BY DEF TypeOK, Job
<1>1. CASE Read(r)
  <2>1. /\ AfterRead(job[r].body) \in {"invoice", "upsert"}
        /\ AfterRead(job[r].body) = "invoice" => job[r].body.type = "charge"
    BY DEF AfterRead
  <2>2. /\ job' \in [Runner -> Job] /\ Others(r)
        /\ job'[r].pc \in {"invoice", "upsert"} /\ job'[r].body = job[r].body
        /\ job'[r].pc = "invoice" => job[r].body.type = "charge"
    BY <1>0, <1>1, <2>1 DEF Read, TypeOK, Job, PC, Others
  <2>3. JobOK(r)
    BY <2>2 DEF JobOK, StageFits, Others
  <2> QED
    BY <1>1, <2>3, FrameOK DEF Read
<1>2. CASE Invoice(r)
  <2>1. CASE /\ NewlyPaid(job[r].body.ref) /\ job[r].body.known
             /\ invoices' = invoices \cup {job[r].body.ref}
             /\ Goto(r, "upsert")
    <3>1. JobOK(r)
      BY <2>1, GotoOK DEF PC
    <3>2. invoices' \subseteq Ref
      BY <1>0, <2>1 DEF NewlyPaid, Body, TypeOK
    <3>3. Recorded' = Recorded
      BY <1>2 DEF Invoice, Recorded
    <3> QED
      BY <1>2, <3>1, <3>2, <3>3 DEF Invoice, DataOK, TypeOK
  <2>2. CASE /\ UNCHANGED invoices
             /\ IF job[r].event # NoEvent THEN Goto(r, "stamp") ELSE Leave(r)
    <3>1. JobOK(r)
      <4>1. CASE job[r].event # NoEvent
        BY <1>0, <2>2, <4>1, GotoOK DEF PC, Job
      <4>2. CASE job[r].event = NoEvent
        BY <2>2, <4>2, LeaveOK
      <4> QED
        BY <4>1, <4>2
    <3> QED
      BY <1>2, <2>2, <3>1, FrameOK DEF Invoice
  <2> QED
    BY <1>2, <2>1, <2>2 DEF Invoice
<1>3. CASE Upsert(r)
  <2>1. now \in Nat
    BY DEF TypeOK
  <2>2. sub' \in Row
    BY <1>0, <1>3, <2>1, RowType DEF Upsert
  <2>3. credits' \in [Ref -> Nat]
    <3>1. credits \in [Ref -> Nat]
      BY DEF TypeOK
    <3>2. \/ credits' = credits
          \/ credits' = [credits EXCEPT ![job[r].body.ref] = credits[job[r].body.ref] + 1]
      BY <1>3 DEF Upsert
    <3> QED
      BY <3>1, <3>2
  <2>4. JobOK(r)
    <3>1. CASE Restores(job[r].body) /\ Goto(r, "restore")
      BY <3>1, GotoOK DEF PC
    <3>2. CASE Degrades(job[r].body, job[r].seen, now) /\ Goto(r, "degrade")
      BY <3>2, GotoOK DEF PC, Degrades
    <3>3. CASE Applied(r)
      BY <3>3, AppliedOK
    <3> QED
      BY <1>3, <3>1, <3>2, <3>3 DEF Upsert
  <2>5. Recorded' = Recorded
    BY <1>3 DEF Upsert, Recorded
  <2> QED
    BY <1>3, <2>2, <2>3, <2>4, <2>5 DEF Upsert, DataOK, TypeOK
<1>4. CASE Degrade(r)
  <2>1. JobOK(r)
    BY <1>4, AppliedOK DEF Degrade
  <2>2. mode' \in [Link -> Mode] /\ Recorded' = Recorded
    BY <1>4 DEF Degrade, Mode, Recorded
  <2> QED
    BY <1>4, <2>1, <2>2 DEF Degrade, DataOK, TypeOK
<1>5. CASE RestoreSelect(r)
  <2> DEFINE found == {<<l, Strongest(rules[l])>> : l \in {k \in Link : Suspended(k)}}
  <2>1. CASE Applied(r)
    BY <1>5, <2>1, AppliedOK, FrameOK DEF RestoreSelect
  <2>2. CASE job' = [job EXCEPT ![r].pc = "relink", ![r].relink = found]
    <3>1. \A l \in Link : Strongest(rules[l]) \in Mode
      BY DEF Strongest, Mode, PaidMode
    <3>2. found \in SUBSET (Link \X Mode)
      BY <3>1
    <3> HIDE DEF found
    <3>3. job' \in [Runner -> Job] /\ Others(r) /\ job'[r].pc = "relink"
      BY <1>0, <2>2, <3>2 DEF TypeOK, Job, PC, Others
    <3>4. JobOK(r)
      BY <3>3 DEF JobOK, StageFits, Others
    <3> QED
      BY <1>5, <3>4, FrameOK DEF RestoreSelect
  <2> QED
    BY <1>5, <2>1, <2>2 DEF RestoreSelect
<1>6. CASE Relink(r)
  <2>1. PICK p \in job[r].relink :
          /\ mode' = [mode EXCEPT ![p[1]] = p[2]]
          /\ IF job[r].relink = {p} THEN Applied(r)
             ELSE job' = [job EXCEPT ![r].relink = @ \ {p}]
    BY <1>6 DEF Relink
  <2>2. p \in Link \X Mode /\ job[r].relink \in SUBSET (Link \X Mode)
    BY <1>0 DEF Job
  <2>3. mode' \in [Link -> Mode]
    BY <2>1, <2>2 DEF TypeOK
  <2>4. JobOK(r)
    <3>1. CASE Applied(r)
      BY <3>1, AppliedOK
    <3>2. CASE job' = [job EXCEPT ![r].relink = job[r].relink \ {p}]
      <4>1. /\ job' \in [Runner -> Job] /\ Others(r)
            /\ job'[r].pc = "relink"
        BY <1>0, <1>6, <2>2, <3>2 DEF Relink, TypeOK, Job, Others
      <4> QED
        BY <4>1 DEF JobOK, StageFits, Others
    <3> QED
      BY <2>1, <3>1, <3>2
  <2>5. Recorded' = Recorded
    BY <1>6 DEF Relink, Recorded
  <2> QED
    BY <1>6, <2>3, <2>4, <2>5 DEF Relink, DataOK, TypeOK
<1> QED
  BY <1>1, <1>2, <1>3, <1>4, <1>5, <1>6 DEF Apply

LEMMA FinishType ==
  ASSUME TypeInv, NEW r \in Runner, Finish(r) \/ Fail(r)
  PROVE  JobOK(r) /\ DataOK
<1> USE DEF TypeInv
<1>0. job[r] \in Job
  BY DEF TypeOK
<1>1. CASE Receipt(r)
  <2>1. job[r].event \in Event
    BY <1>1 DEF Receipt, StageFits
  <2>2. JobOK(r)
    BY <1>1, <2>1, GotoOK DEF Receipt, PC
  <2>3. receipts' \in [Ref -> Nat]
    BY <1>1 DEF Receipt, TypeOK
  <2>4. Recorded' = Recorded
    BY <1>1 DEF Receipt, Recorded
  <2> QED
    BY <1>1, <2>2, <2>3, <2>4 DEF Receipt, DataOK, TypeOK
<1>2. CASE Stamp(r)
  <2>1. job[r].event \in Event
    BY <1>2 DEF Stamp, StageFits
  <2>2. JobOK(r)
    BY <1>2, LeaveOK DEF Stamp
  <2>3. Recorded' = Recorded
    BY <1>2 DEF Stamp, Recorded
  <2> QED
    BY <1>2, <2>1, <2>2, <2>3 DEF Stamp, DataOK, TypeOK
<1>3. CASE Reject(r)
  BY <1>3, LeaveOK, FrameOK DEF Reject
<1>4. CASE RouteCommit(r)
  <2>1. PICK p \in job[r].relink :
          /\ mode' = [mode EXCEPT ![p[1]] = p[2]]
          /\ rules' = [rules EXCEPT ![p[1]] = {p[2]} \ {"single"}]
    BY <1>4 DEF RouteCommit
  <2>2. p \in Link \X Mode
    BY <1>0 DEF Job
  <2>3. mode' \in [Link -> Mode] /\ rules' \in [Link -> SUBSET PaidMode]
    BY <2>1, <2>2 DEF TypeOK, Mode
  <2>4. JobOK(r)
    BY <1>4, LeaveOK DEF RouteCommit
  <2>5. Recorded' = Recorded
    BY <1>4 DEF RouteCommit, Recorded
  <2> QED
    BY <1>4, <2>3, <2>4, <2>5 DEF RouteCommit, DataOK, TypeOK
<1>5. CASE ResumeCommit(r)
  <2>1. sub' \in Row
    BY <1>5 DEF ResumeCommit, TypeOK, Row, Status
  <2>2. JobOK(r)
    BY <1>5, LeaveOK DEF ResumeCommit
  <2>3. Recorded' = Recorded
    BY <1>5 DEF ResumeCommit, Recorded
  <2> QED
    BY <1>5, <2>1, <2>2, <2>3 DEF ResumeCommit, DataOK, TypeOK
<1>6. CASE Fail(r)
  <2>1. JobOK(r)
    BY <1>6, LeaveOK DEF Fail
  <2>2. Recorded' = Recorded
    BY <1>6 DEF Fail, Recorded
  <2> QED
    BY <1>6, <2>1, <2>2 DEF Fail, DataOK, TypeOK
<1> QED
  BY <1>1, <1>2, <1>3, <1>4, <1>5, <1>6 DEF Finish

LEMMA TypeInit == Init => TypeInv
<1> SUFFICES ASSUME Init PROVE TypeInv
  OBVIOUS
<1>1. sub \in Row
  <2>1. NoSub \in Row
    BY DEF NoSub, Row, Plan, Status, NoEnd
  <2>2. ASSUME NEW p \in PaidPlan
        PROVE  [plan |-> p, status |-> "active", end |-> 1 + Interval, atEnd |-> FALSE] \in Row
    BY SubscriptionAssumption DEF Row, Plan, Status
  <2> QED
    BY <2>1, <2>2 DEF Init
<1>2. mode \in [Link -> Mode]
  BY BillingAssumption DEF Init, Mode
<1>3. rules \in [Link -> SUBSET PaidMode]
  BY <1>2 DEF Init, Mode
<1>4. job \in [Runner -> Job]
  BY IdleType DEF Init
<1>5. TypeOK
  BY <1>1, <1>2, <1>3, <1>4 DEF Init, TypeOK
<1>6. Recorded = {}
  BY DEF Init, Recorded
<1>7. StageFits
  BY DEF Init, StageFits, Idle
<1> QED
  BY <1>5, <1>6, <1>7, FS_EmptySet DEF TypeInv

LEMMA TypeStep == TypeInv /\ [Next]_vars => TypeInv'
<1> SUFFICES ASSUME TypeInv, [Next]_vars PROVE TypeInv'
  OBVIOUS
<1>1. CASE UNCHANGED vars
  BY <1>1 DEF vars, TypeInv, TypeOK, Recorded, StageFits
<1>2. CASE Tick
  BY <1>2 DEF Tick, TypeInv, TypeOK, Recorded, StageFits
<1>3. ASSUME NEW r \in Runner, Start(r) \/ Apply(r) \/ Finish(r) \/ Fail(r)
      PROVE  TypeInv'
  <2>1. JobOK(r) /\ DataOK
    BY <1>3, StartType, ApplyType, FinishType
  <2> QED
    BY <2>1 DEF JobOK, DataOK, TypeInv, TypeOK
<1> QED
  BY <1>1, <1>2, <1>3 DEF Next

\* The values of all variables, the handlers' stages among them, are of their
\* types whatever steps are taken.
THEOREM TypeCorrect == Spec => []TypeOK
<1>1. TypeInv => TypeOK
  BY DEF TypeInv
<1> QED
  BY <1>1, TypeInit, TypeStep, PTL DEF Spec

-----------------------------------------------------------------------------
(***************************************************************************)
(* What becomes of a charge.                                               *)
(***************************************************************************)

\* After the step r holds a charge only if it held the same one before, and on
\* the same side of the upsert.
Keeps(r) ==
  Holding(r)' =>
    /\ Holding(r) /\ job'[r].body = job[r].body
    /\ (job'[r].pc = "upsert") <=> (job[r].pc = "upsert")

LEMMA KeepsCharge ==
  ASSUME ChargeInv, NEW r \in Runner, Others(r), Keeps(r),
         UNCHANGED <<invoices, credits, receipts>>
  PROVE  ChargeInv'
<1>1. ASSUME NEW q \in Runner, Holding(q)'
      PROVE  /\ Holding(q) /\ job'[q].body = job[q].body
             /\ (job'[q].pc = "upsert") <=> (job[q].pc = "upsert")
  BY <1>1 DEF Others, Keeps, Holding
<1>2. HeldOnce'
  BY <1>1 DEF ChargeInv, HeldOnce
<1>3. OneHolder'
  BY <1>1 DEF ChargeInv, OneHolder
<1>4. Counted'
  BY DEF ChargeInv, Counted
<1> QED
  BY <1>2, <1>3, <1>4 DEF ChargeInv

LEMMA AppliedKeeps ==
  ASSUME TypeInv, NEW r \in Runner, Applied(r), job[r].pc \in {"degrade", "restore", "relink"}
  PROVE  Others(r) /\ Keeps(r)
<1>1. /\ Others(r)
      /\ \/ /\ job'[r].body = job[r].body
            /\ job'[r].pc = IF job[r].body.type = "charge" THEN "receipt" ELSE "stamp"
         \/ job'[r].pc \in {"idle", "next"}
  <2>1. CASE job[r].event # NoEvent
    <3>1. Goto(r, IF job[r].body.type = "charge" THEN "receipt" ELSE "stamp")
      BY <2>1 DEF Applied
    <3> QED
      BY <3>1, GotoStep DEF TypeInv, PC
  <2>2. CASE job[r].event = NoEvent
    BY <2>2, LeaveStep DEF Applied, TypeInv
  <2> QED
    BY <2>1, <2>2
<1>2. job[r].body.type = "charge" => job[r].pc # "degrade"
  BY DEF TypeInv, StageFits
<1> QED
  BY <1>1, <1>2 DEF Keeps, Holding

LEMMA StartKeeps ==
  ASSUME TypeInv, NEW r \in Runner, Start(r)
  PROVE  /\ Others(r) /\ Keeps(r)
         /\ UNCHANGED <<invoices, credits, receipts>>
<1>0. Others(r)
  BY StartType DEF JobOK
<1>1. job'[r].pc \in {"next", "read", "stamp", "resume", "route"}
  <2>0. TypeOK
    BY DEF TypeInv
  <2>1. ASSUME NEW e, NEW b, NEW todo, Begin(r, e, b, todo)
        PROVE  job'[r].pc \in {"read", "stamp"}
    BY <2>0, <2>1 DEF Begin, TypeOK, Idle
  <2>2. CASE DrainSelect(r)
    BY <2>0, <2>2 DEF DrainSelect, TypeOK, Job
  <2>3. CASE ResumeForm(r)
    BY <2>0, <2>3 DEF ResumeForm, Goto, TypeOK, Job
  <2>4. ASSUME NEW l \in Link, NEW m \in Choice, RouteForm(r, l, m)
        PROVE  job'[r].pc = "route"
    BY <2>0, <2>4 DEF RouteForm, TypeOK, Job
  <2> QED
    BY <2>1, <2>2, <2>3, <2>4 DEF Start, Deliver, ReturnVisit, DrainNext, CancelForm
<1>2. UNCHANGED <<invoices, credits, receipts>>
  BY DEF Start, Deliver, ReturnVisit, DrainSelect, DrainNext, CancelForm, ResumeForm, RouteForm
<1> QED
  BY <1>0, <1>1, <1>2 DEF Keeps, Holding

\* The three steps that move a charge on: its invoice, its credit, its receipt.
LEMMA InvoiceCharge ==
  ASSUME TypeInv, ChargeInv, NEW r \in Runner, Invoice(r),
         NewlyPaid(job[r].body.ref), Goto(r, "upsert"),
         invoices' = invoices \cup {job[r].body.ref}
  PROVE  ChargeInv'
<1> DEFINE c == job[r].body.ref
<1>1. c \in Ref /\ c \notin invoices /\ credits[c] = 0 /\ receipts[c] = 0
  BY DEF NewlyPaid, TypeInv, TypeOK, Job, Body, ChargeInv, Counted
<1>2. /\ Others(r) /\ job'[r].pc = "upsert" /\ job'[r].body = job[r].body
  BY GotoStep DEF TypeInv, PC
<1>3. UNCHANGED <<credits, receipts>>
  BY DEF Invoice
<1>4. ~Holding(r)
  BY DEF Invoice, Holding
<1>5. ASSUME NEW q \in Runner, q # r
      PROVE  job'[q] = job[q] /\ (Holding(q) => job[q].body.ref # c)
  BY <1>1, <1>2, <1>5 DEF Others, ChargeInv, HeldOnce
<1>6. HeldOnce'
  BY <1>1, <1>2, <1>3, <1>5 DEF HeldOnce, Holding, ChargeInv
<1>7. OneHolder'
  BY <1>2, <1>5 DEF OneHolder, Holding, ChargeInv
<1>8. Counted'
  BY <1>3 DEF Counted, ChargeInv
<1> QED
  BY <1>6, <1>7, <1>8 DEF ChargeInv

LEMMA UpsertCharge ==
  ASSUME TypeInv, ChargeInv, NEW r \in Runner, Upsert(r)
  PROVE  ChargeInv'
<1> DEFINE c == job[r].body.ref
<1>0. Restores(job[r].body) => Goto(r, "restore")
  <2>1. Restores(job[r].body) => ~Degrades(job[r].body, job[r].seen, now)
    BY DEF Restores, Degrades
  <2> QED
    BY <2>1 DEF Upsert
<1>1. CASE job[r].body.type = "charge"
  <2>1. /\ Others(r) /\ job'[r].pc = "restore" /\ job'[r].body = job[r].body
    BY <1>0, <1>1, GotoStep DEF TypeInv, PC, Restores
  <2>2. /\ Holding(r) /\ c \in Ref /\ c \in invoices /\ credits[c] = 0 /\ receipts[c] = 0
    BY <1>1 DEF Upsert, Holding, ChargeInv, HeldOnce
  <2>3. credits' = [credits EXCEPT ![c] = credits[c] + 1] /\ UNCHANGED <<invoices, receipts>>
    BY <1>1 DEF Upsert
  <2>4. ASSUME NEW q \in Runner, q # r
        PROVE  job'[q] = job[q] /\ (Holding(q) => job[q].body.ref # c)
    BY <2>1, <2>2, <2>4 DEF Others, ChargeInv, OneHolder
  <2>5. credits \in [Ref -> Nat] /\ receipts \in [Ref -> Nat]
    BY DEF TypeInv, TypeOK
  <2>6. credits'[c] = 1 /\ \A d \in Ref \ {c} : credits'[d] = credits[d]
    BY <2>2, <2>3, <2>5
  <2>7. HeldOnce'
    BY <2>1, <2>2, <2>3, <2>4, <2>6 DEF HeldOnce, Holding, ChargeInv
  <2>8. OneHolder'
    BY <2>1, <2>4 DEF OneHolder, Holding, ChargeInv
  <2>9. Counted'
    BY <2>2, <2>3, <2>5, <2>6 DEF Counted, ChargeInv
  <2> QED
    BY <2>7, <2>8, <2>9 DEF ChargeInv
<1>2. CASE job[r].body.type # "charge"
  <2>1. UNCHANGED <<invoices, credits, receipts>>
    BY <1>2 DEF Upsert
  <2>2. Others(r) /\ Keeps(r)
    <3>1. CASE Goto(r, "restore") \/ Goto(r, "degrade")
      BY <1>2, <3>1, GotoStep DEF TypeInv, PC, Keeps, Holding
    <3>2. CASE Applied(r)
      <4>1. CASE job[r].event # NoEvent
        <5>1. Goto(r, "stamp")
          BY <1>2, <3>2, <4>1 DEF Applied
        <5> QED
          BY <5>1, GotoStep DEF TypeInv, PC, Keeps, Holding
      <4>2. CASE job[r].event = NoEvent
        BY <3>2, <4>2, LeaveStep DEF Applied, TypeInv, Keeps, Holding
      <4> QED
        BY <4>1, <4>2
    <3> QED
      BY <3>1, <3>2 DEF Upsert
  <2> QED
    BY <2>1, <2>2, KeepsCharge
<1> QED
  BY <1>1, <1>2

LEMMA ReceiptCharge ==
  ASSUME TypeInv, ChargeInv, NEW r \in Runner, Receipt(r)
  PROVE  ChargeInv'
<1> DEFINE c == job[r].body.ref
<1>1. Holding(r)
  BY DEF Receipt, TypeInv, StageFits, Holding
<1>2. /\ c \in Ref /\ c \in invoices /\ credits[c] = 1 /\ receipts[c] = 0
  BY <1>1 DEF Receipt, ChargeInv, HeldOnce
<1>3. Others(r) /\ job'[r].pc = "stamp"
  BY GotoStep DEF Receipt, TypeInv, PC
<1>4. UNCHANGED <<invoices, credits>>
  BY DEF Receipt
<1>5. receipts \in [Ref -> Nat] /\ credits \in [Ref -> Nat]
  BY DEF TypeInv, TypeOK
<1>6. receipts'[c] \in {0, 1} /\ \A d \in Ref \ {c} : receipts'[d] = receipts[d]
  BY <1>2, <1>5 DEF Receipt
<1>7. ASSUME NEW q \in Runner, Holding(q)'
      PROVE  q # r /\ job'[q] = job[q] /\ Holding(q) /\ job[q].body.ref # c
  <2>1. q # r
    BY <1>3, <1>7 DEF Holding
  <2>2. job'[q] = job[q]
    BY <1>3, <2>1 DEF Others
  <2>3. Holding(q)
    BY <1>7, <2>2 DEF Holding
  <2> QED
    BY <1>1, <2>1, <2>2, <2>3 DEF ChargeInv, OneHolder
<1>8. HeldOnce'
  BY <1>4, <1>6, <1>7 DEF HeldOnce, ChargeInv
<1>9. OneHolder'
  BY <1>7 DEF OneHolder, ChargeInv
<1>10. Counted'
  BY <1>2, <1>4, <1>5, <1>6 DEF Counted, ChargeInv
<1> QED
  BY <1>8, <1>9, <1>10 DEF ChargeInv

LEMMA RunnerCharge ==
  ASSUME TypeInv, ChargeInv, NEW r \in Runner, Start(r) \/ Apply(r) \/ Finish(r) \/ Fail(r)
  PROVE  ChargeInv'
<1>0. TypeOK /\ job[r] \in Job
  BY DEF TypeInv, TypeOK
<1>1. CASE Start(r)
  BY <1>1, StartKeeps, KeepsCharge
<1>2. CASE Read(r)
  <2>1. Others(r)
    BY <1>2, ApplyType DEF Apply, JobOK
  <2>2. job'[r].body = job[r].body /\ job'[r].pc = AfterRead(job[r].body)
    BY <1>0, <1>2 DEF Read, TypeOK, Job
  <2>3. Keeps(r)
    BY <2>2 DEF Keeps, Holding, AfterRead
  <2> QED
    BY <1>2, <2>1, <2>3, KeepsCharge DEF Read
<1>3. CASE Invoice(r)
  <2>1. CASE NewlyPaid(job[r].body.ref)
    BY <1>3, <2>1, InvoiceCharge DEF Invoice
  <2>2. CASE ~NewlyPaid(job[r].body.ref)
    <3>1. CASE Goto(r, "stamp")
      BY <1>0, <1>3, <2>2, <3>1, GotoStep, KeepsCharge DEF Invoice, PC, Keeps, Holding
    <3>2. CASE Leave(r)
      BY <1>0, <1>3, <2>2, <3>2, LeaveStep, KeepsCharge DEF Invoice, Keeps, Holding
    <3> QED
      BY <1>3, <2>2, <3>1, <3>2 DEF Invoice
  <2> QED
    BY <2>1, <2>2
<1>4. CASE Upsert(r)
  BY <1>4, UpsertCharge
<1>5. CASE Degrade(r)
  BY <1>5, AppliedKeeps, KeepsCharge DEF Degrade
<1>6. CASE RestoreSelect(r)
  <2>1. CASE Applied(r)
    BY <1>6, <2>1, AppliedKeeps, KeepsCharge DEF RestoreSelect
  <2>2. CASE job'[r].pc = "relink" /\ job'[r].body = job[r].body
    <3>1. Others(r)
      BY <1>6, ApplyType DEF Apply, JobOK
    <3>2. Keeps(r)
      BY <1>6, <2>2 DEF RestoreSelect, Keeps, Holding
    <3> QED
      BY <1>6, <3>1, <3>2, KeepsCharge DEF RestoreSelect
  <2> QED
    BY <1>0, <1>6, <2>1, <2>2 DEF RestoreSelect, TypeOK, Job
<1>7. CASE Relink(r)
  <2>1. PICK p \in job[r].relink :
          IF job[r].relink = {p} THEN Applied(r)
          ELSE job' = [job EXCEPT ![r].relink = @ \ {p}]
    BY <1>7 DEF Relink
  <2>2. CASE Applied(r)
    BY <1>7, <2>2, AppliedKeeps, KeepsCharge DEF Relink
  <2>3. CASE job' = [job EXCEPT ![r].relink = job[r].relink \ {p}]
    <3>1. Others(r)
      BY <1>7, ApplyType DEF Apply, JobOK
    <3>2. Keeps(r)
      BY <1>0, <2>3 DEF TypeOK, Job, Keeps, Holding
    <3> QED
      BY <1>7, <3>1, <3>2, KeepsCharge DEF Relink
  <2> QED
    BY <2>1, <2>2, <2>3
<1>8. CASE Receipt(r)
  BY <1>8, ReceiptCharge
<1>9. CASE Stamp(r) \/ Reject(r) \/ RouteCommit(r) \/ ResumeCommit(r) \/ Fail(r)
  <2>1. Leave(r) \/ job' = [job EXCEPT ![r] = Idle]
    BY <1>9 DEF Stamp, Reject, RouteCommit, ResumeCommit, Fail
  <2>2. UNCHANGED <<invoices, credits, receipts>>
    BY <1>9 DEF Stamp, Reject, RouteCommit, ResumeCommit, Fail
  <2> QED
    BY <1>0, <2>1, <2>2, LeaveStep, KeepsCharge DEF Keeps, Holding
<1> QED
  BY <1>1, <1>2, <1>3, <1>4, <1>5, <1>6, <1>7, <1>8, <1>9 DEF Apply, Finish

LEMMA ChargeStep == TypeInv /\ ChargeInv /\ [Next]_vars => ChargeInv'
<1> SUFFICES ASSUME TypeInv, ChargeInv, [Next]_vars PROVE ChargeInv'
  OBVIOUS
<1>1. CASE UNCHANGED vars \/ Tick
  BY <1>1 DEF vars, Tick, ChargeInv, HeldOnce, OneHolder, Counted, Holding
<1> QED
  BY <1>1, RunnerCharge DEF Next

LEMMA ChargeInit == Init => ChargeInv
BY DEF Init, ChargeInv, HeldOnce, OneHolder, Counted, Holding, Idle

\* Redeliveries, retries after a failure, the drain and the return page may all
\* report the same charge at the same time: the period is extended for it at
\* most once, and only then, and at most once, the receipt goes out.
THEOREM ReceiptsFollowCredits == Spec => []ReceiptOncePerCredit
<1>1. ChargeInv => ReceiptOncePerCredit
  BY DEF ChargeInv, Counted, ReceiptOncePerCredit
<1> QED
  BY <1>1, TypeInit, TypeStep, ChargeInit, ChargeStep, PTL DEF Spec

\* Towards invoices and paid periods all the handlers together are one ledger:
\* every step is a stutter, one new invoice, or the one credit of an invoice.
THEOREM ImplementsLedger == Spec => LedgerSpec
<1>1. Init => Ledger!Init
  BY DEF Init, Ledger!Init
<1>2. TypeInv /\ ChargeInv /\ [Next]_vars => [Ledger!Next]_<<invoices, credits>>
  <2> SUFFICES ASSUME TypeInv, ChargeInv, Next
               PROVE  \/ UNCHANGED <<invoices, credits>>
                      \/ \E c \in Ref : Ledger!Invoice(c) \/ Ledger!Credit(c)
    BY DEF vars, Ledger!Next
  <2>1. ASSUME NEW r \in Runner, Invoice(r)
        PROVE  \/ UNCHANGED <<invoices, credits>>
               \/ \E c \in Ref : Ledger!Invoice(c)
    <3>1. job[r].body.ref \in Ref \cup {NoRef}
      BY DEF TypeInv, TypeOK, Job, Body
    <3> QED
      BY <2>1, <3>1 DEF Invoice, NewlyPaid, Ledger!Invoice
  <2>2. ASSUME NEW r \in Runner, Upsert(r)
        PROVE  \/ UNCHANGED <<invoices, credits>>
               \/ \E c \in Ref : Ledger!Credit(c)
    <3>1. CASE job[r].body.type = "charge"
      <4> DEFINE c == job[r].body.ref
      <4>1. c \in Ref /\ c \in invoices /\ credits[c] = 0
        BY <2>2, <3>1 DEF Upsert, ChargeInv, HeldOnce, Holding
      <4>2. credits' = [credits EXCEPT ![c] = 1] /\ invoices' = invoices
        BY <2>2, <3>1, <4>1 DEF Upsert
      <4> QED
        BY <4>1, <4>2 DEF Ledger!Credit
    <3>2. CASE job[r].body.type # "charge"
      BY <2>2, <3>2 DEF Upsert
    <3> QED
      BY <3>1, <3>2
  <2>3. ASSUME NEW r \in Runner,
               \/ Start(r) \/ Read(r) \/ Degrade(r) \/ RestoreSelect(r) \/ Relink(r)
               \/ Finish(r) \/ Fail(r)
        PROVE  UNCHANGED <<invoices, credits>>
    <3>1. CASE Start(r)
      BY <3>1, StartKeeps
    <3>2. CASE Read(r) \/ Degrade(r) \/ RestoreSelect(r) \/ Relink(r)
      BY <3>2 DEF Read, Degrade, RestoreSelect, Relink
    <3>3. CASE Finish(r) \/ Fail(r)
      BY <3>3 DEF Finish, Receipt, Stamp, Reject, RouteCommit, ResumeCommit, Fail
    <3> QED
      BY <2>3, <3>1, <3>2, <3>3
  <2>4. CASE Tick
    BY <2>4 DEF Tick
  <2> QED
    BY <2>1, <2>2, <2>3, <2>4 DEF Next, Apply
<1> QED
  BY <1>1, <1>2, TypeInit, TypeStep, ChargeInit, ChargeStep, PTL
     DEF Spec, LedgerSpec, Ledger!Spec, Ledger!vars

-----------------------------------------------------------------------------
(***************************************************************************)
(* No charge is lost while no handler fails: from the event to its         *)
(* invoice, and from the invoice to the credit, somebody is always on it.  *)
(***************************************************************************)

\* A stored event's handler works on its payload; past the invoice, it exists.
OnPayloadAt(r) ==
  LET e == job[r].event IN
  e # NoEvent =>
    /\ job[r].body = Payload[e]
    /\ job[r].pc \notin {"read", "invoice"} /\ Paying(e) => Payload[e].ref \in invoices

Claims(r, c) ==
  job[r].pc = "upsert" /\ job[r].body.type = "charge" /\ job[r].body.ref = c

OnPayload == \A r \in Runner : OnPayloadAt(r)
StampedIsInvoiced == \A e \in processed : Paying(e) => Payload[e].ref \in invoices
InvoicedIsCredited ==
  fails = 0 => \A c \in invoices : credits[c] = 1 \/ \E r \in Runner : Claims(r, c)

PaymentInv == OnPayload /\ StampedIsInvoiced /\ InvoicedIsCredited

\* A step of r that leaves invoices and credits alone.
LEMMA KeepsPayment ==
  ASSUME TypeInv, PaymentInv, NEW r \in Runner, Others(r),
         OnPayloadAt(r)', UNCHANGED <<invoices, credits>>,
         fails' >= fails,
         fails' = 0 => ~(job[r].pc = "upsert" /\ job[r].body.type = "charge"),
         processed' = processed \/ (job[r].pc = "stamp" /\ processed' = processed \cup {job[r].event})
  PROVE  PaymentInv'
<1>1. OnPayload'
  <2>1. ASSUME NEW q \in Runner, q # r PROVE OnPayloadAt(q)'
    BY <2>1 DEF Others, PaymentInv, OnPayload, OnPayloadAt
  <2> QED
    BY <2>1 DEF OnPayload
<1>2. StampedIsInvoiced'
  <2>1. CASE processed' = processed
    BY <2>1 DEF PaymentInv, StampedIsInvoiced, Paying
  <2>2. CASE job[r].pc = "stamp" /\ processed' = processed \cup {job[r].event}
    <3>1. job[r].event \in Event
      BY <2>2 DEF TypeInv, StageFits
    <3>2. job[r].event # NoEvent
      BY <3>1, BillingAssumption
    <3>3. Paying(job[r].event) => Payload[job[r].event].ref \in invoices
      BY <2>2, <3>2 DEF PaymentInv, OnPayload, OnPayloadAt
    <3> QED
      BY <2>2, <3>3 DEF PaymentInv, StampedIsInvoiced, Paying
  <2> QED
    BY <2>1, <2>2
<1>3. InvoicedIsCredited'
  <2> SUFFICES ASSUME fails' = 0, NEW c \in invoices, credits[c] # 1
               PROVE  \E q \in Runner : Claims(q, c)'
    BY DEF InvoicedIsCredited
  <2>1. fails = 0
    BY DEF TypeInv, TypeOK
  <2>2. PICK q \in Runner : Claims(q, c)
    BY <2>1 DEF PaymentInv, InvoicedIsCredited
  <2>3. q # r
    BY <2>2 DEF Claims
  <2>4. Claims(q, c)'
    BY <2>2, <2>3 DEF Claims, Others
  <2> QED
    BY <2>4
<1> QED
  BY <1>1, <1>2, <1>3 DEF PaymentInv

\* A handler that moves on with the same event, or drops it, stays on payload.
LEMMA SameEvent ==
  ASSUME PaymentInv, NEW r \in Runner, invoices \subseteq invoices',
         \/ job'[r].event = NoEvent
         \/ /\ job'[r].event = job[r].event /\ job'[r].body = job[r].body
            /\ job[r].pc \notin {"read", "invoice"} \/ job[r].body.type # "charge"
         \/ /\ job'[r].event = job[r].event /\ job'[r].body = job[r].body
            /\ job'[r].pc \in {"read", "invoice"}
  PROVE  OnPayloadAt(r)'
<1>1. OnPayloadAt(r)
  BY DEF PaymentInv, OnPayload
<1> QED
  BY <1>1 DEF OnPayloadAt, Paying

LEMMA AppliedPayment ==
  ASSUME TypeInv, PaymentInv, NEW r \in Runner, Applied(r),
         job[r].pc \notin {"read", "invoice"}, UNCHANGED invoices
  PROVE  OnPayloadAt(r)' /\ Others(r)
<1>1. CASE job[r].event # NoEvent
  <2>1. Goto(r, IF job[r].body.type = "charge" THEN "receipt" ELSE "stamp")
    BY <1>1 DEF Applied
  <2>2. Others(r) /\ job'[r].event = job[r].event /\ job'[r].body = job[r].body
    BY <2>1, GotoStep DEF TypeInv, PC
  <2> QED
    BY <2>2, SameEvent
<1>2. CASE job[r].event = NoEvent
  BY <1>2, LeaveStep, SameEvent DEF Applied, TypeInv
<1> QED
  BY <1>1, <1>2

LEMMA StartPayment ==
  ASSUME TypeInv, PaymentInv, NEW r \in Runner, Start(r)
  PROVE  PaymentInv'
<1>1. /\ Others(r) /\ job[r].pc # "upsert"
      /\ UNCHANGED <<invoices, credits, processed, fails>>
  BY StartKeeps
     DEF Start, Deliver, ReturnVisit, DrainSelect, DrainNext, CancelForm, ResumeForm, RouteForm
<1>2. OnPayloadAt(r)'
  <2>0. TypeOK
    BY DEF TypeInv
  <2>1. ASSUME NEW e \in Event, NEW todo \in SUBSET Event, Begin(r, e, Payload[e], todo)
        PROVE  OnPayloadAt(r)'
    BY <2>0, <2>1, BeginStep, BillingAssumption DEF OnPayloadAt, Paying
  <2>2. ASSUME NEW b, NEW todo, Begin(r, NoEvent, b, todo)
        PROVE  job'[r].event = NoEvent
    BY <2>0, <2>2 DEF Begin, TypeOK, Idle
  <2>3. CASE DrainSelect(r) \/ ResumeForm(r) \/ \E l \in Link, m \in Choice : RouteForm(r, l, m)
    <3>1. job'[r].event = job[r].event
      BY <2>0, <2>3 DEF DrainSelect, ResumeForm, RouteForm, Goto, TypeOK, Job
    <3>2. job[r].event = NoEvent
      BY <2>3 DEF DrainSelect, ResumeForm, RouteForm, TypeInv, StageFits
    <3> QED
      BY <3>1, <3>2 DEF OnPayloadAt
  <2>4. CASE DrainNext(r)
    <3>1. PICK e \in job[r].todo : Begin(r, e, Payload[e], job[r].todo \ {e})
      BY <2>4 DEF DrainNext
    <3>2. e \in Event /\ job[r].todo \ {e} \in SUBSET Event
      BY <2>0 DEF TypeOK, Job
    <3> QED
      BY <2>1, <3>1, <3>2
  <2>5. ASSUME NEW e \in Event, Deliver(r, e)
        PROVE  OnPayloadAt(r)'
    BY <2>1, <2>5 DEF Deliver
  <2>6. CASE CancelForm(r) \/ \E e \in Event : ReturnVisit(r, e)
    BY <2>2, <2>6 DEF CancelForm, ReturnVisit, OnPayloadAt
  <2> QED
    BY <2>3, <2>4, <2>5, <2>6 DEF Start
<1> QED
  BY <1>1, <1>2, KeepsPayment DEF TypeInv, TypeOK

LEMMA InvoicePayment ==
  ASSUME TypeInv, PaymentInv, NEW r \in Runner, Invoice(r)
  PROVE  PaymentInv'
<1> DEFINE c == job[r].body.ref
<1>0. TypeOK /\ job[r] \in Job /\ OnPayloadAt(r)
  BY DEF TypeInv, TypeOK, PaymentInv, OnPayload
<1>1. CASE NewlyPaid(c)
  <2>1. /\ Others(r) /\ job'[r].pc = "upsert" /\ job'[r].event = job[r].event
        /\ job'[r].body = job[r].body
    BY <1>0, <1>1, GotoStep DEF Invoice, PC
  <2>2. invoices' = invoices \cup {c} /\ UNCHANGED <<credits, processed, fails>>
    BY <1>1 DEF Invoice
  <2>3. OnPayload'
    <3>1. OnPayloadAt(r)'
      BY <1>0, <2>1, <2>2 DEF OnPayloadAt, Paying
    <3>2. ASSUME NEW q \in Runner, q # r PROVE OnPayloadAt(q)'
      BY <2>1, <2>2, <3>2 DEF Others, PaymentInv, OnPayload, OnPayloadAt, Paying
    <3> QED
      BY <3>1, <3>2 DEF OnPayload
  <2>4. StampedIsInvoiced'
    BY <2>2 DEF PaymentInv, StampedIsInvoiced, Paying
  <2>5. InvoicedIsCredited'
    <3> SUFFICES ASSUME fails = 0, NEW d \in invoices \cup {c}, credits[d] # 1
                 PROVE  \E q \in Runner : Claims(q, d)'
      BY <2>2 DEF InvoicedIsCredited
    <3>1. CASE d = c
      <4>1. job[r].body.type = "charge"
        BY <1>0 DEF Invoice, TypeInv, StageFits
      <4>2. Claims(r, d)'
        BY <2>1, <3>1, <4>1 DEF Claims
      <4> QED
        BY <4>2
    <3>2. CASE d \in invoices
      <4>1. PICK q \in Runner : Claims(q, d)
        BY <3>2 DEF PaymentInv, InvoicedIsCredited
      <4>2. q # r
        BY <4>1 DEF Claims, Invoice
      <4>3. Claims(q, d)'
        BY <2>1, <4>1, <4>2 DEF Claims, Others
      <4> QED
        BY <4>3
    <3> QED
      BY <3>1, <3>2
  <2> QED
    BY <2>3, <2>4, <2>5 DEF PaymentInv
<1>2. CASE ~NewlyPaid(c)
  <2>1. UNCHANGED <<invoices, credits, processed, fails>> /\ job[r].pc # "upsert"
    BY <1>2 DEF Invoice
  <2>2. Others(r) /\ OnPayloadAt(r)'
    <3>1. CASE Goto(r, "stamp")
      <4>1. /\ Others(r) /\ job'[r].event = job[r].event /\ job'[r].body = job[r].body
        BY <1>0, <3>1, GotoStep DEF PC
      <4>2. c # NoRef => c \in invoices
        BY <1>2 DEF NewlyPaid
      <4> QED
        BY <1>0, <2>1, <4>1, <4>2 DEF OnPayloadAt, Paying
    <3>2. CASE Leave(r)
      BY <1>0, <2>1, <3>2, LeaveStep, SameEvent
    <3> QED
      BY <1>2, <3>1, <3>2 DEF Invoice
  <2> QED
    BY <1>0, <2>1, <2>2, KeepsPayment DEF TypeOK
<1> QED
  BY <1>1, <1>2

LEMMA UpsertPayment ==
  ASSUME TypeInv, ChargeInv, PaymentInv, NEW r \in Runner, Upsert(r)
  PROVE  PaymentInv'
<1> DEFINE c == job[r].body.ref
<1>0. TypeOK /\ job[r] \in Job
  BY DEF TypeInv, TypeOK
<1>1. UNCHANGED <<invoices, processed, fails>> /\ job[r].pc = "upsert"
  BY DEF Upsert
<1>2. Others(r) /\ OnPayloadAt(r)'
  <2>1. CASE Goto(r, "restore") \/ Goto(r, "degrade")
    <3>1. Others(r) /\ job'[r].event = job[r].event /\ job'[r].body = job[r].body
      BY <1>0, <2>1, GotoStep DEF PC
    <3> QED
      BY <1>1, <3>1, SameEvent
  <2>2. CASE Applied(r)
    BY <1>1, <2>2, AppliedPayment
  <2> QED
    BY <2>1, <2>2 DEF Upsert
<1>3. CASE job[r].body.type # "charge"
  BY <1>0, <1>1, <1>2, <1>3, KeepsPayment DEF Upsert, TypeOK
<1>4. CASE job[r].body.type = "charge"
  <2>1. c \in Ref /\ credits[c] = 0
    BY <1>1, <1>4 DEF ChargeInv, HeldOnce, Holding
  <2>2. credits' = [credits EXCEPT ![c] = credits[c] + 1]
    BY <1>4 DEF Upsert
  <2>3. credits'[c] = 1 /\ \A d \in Ref \ {c} : credits'[d] = credits[d]
    BY <1>0, <2>1, <2>2 DEF TypeOK
  <2>4. OnPayload'
    <3>1. ASSUME NEW q \in Runner, q # r PROVE OnPayloadAt(q)'
      BY <1>1, <1>2, <3>1 DEF Others, PaymentInv, OnPayload, OnPayloadAt, Paying
    <3> QED
      BY <1>2, <3>1 DEF OnPayload
  <2>5. StampedIsInvoiced'
    BY <1>1 DEF PaymentInv, StampedIsInvoiced, Paying
  <2>6. InvoicedIsCredited'
    <3> SUFFICES ASSUME fails = 0, NEW d \in invoices, credits'[d] # 1
                 PROVE  \E q \in Runner : Claims(q, d)'
      BY <1>1 DEF InvoicedIsCredited
    <3>1. d \in Ref /\ d # c /\ credits[d] # 1
      BY <1>0, <2>3 DEF TypeOK
    <3>2. PICK q \in Runner : Claims(q, d)
      BY <3>1 DEF PaymentInv, InvoicedIsCredited
    <3>3. q # r
      BY <3>1, <3>2 DEF Claims
    <3>4. Claims(q, d)'
      BY <1>2, <3>2, <3>3 DEF Claims, Others
    <3> QED
      BY <3>4
  <2> QED
    BY <2>4, <2>5, <2>6 DEF PaymentInv
<1> QED
  BY <1>3, <1>4

LEMMA RunnerPayment ==
  ASSUME TypeInv, ChargeInv, PaymentInv, NEW r \in Runner,
         Start(r) \/ Apply(r) \/ Finish(r) \/ Fail(r)
  PROVE  PaymentInv'
<1>0. TypeOK /\ job[r] \in Job
  BY DEF TypeInv, TypeOK
<1>1. CASE Start(r)
  BY <1>1, StartPayment
<1>2. CASE Read(r)
  <2>1. Others(r)
    BY <1>2, ApplyType DEF Apply, JobOK
  <2>2. /\ job'[r].event = job[r].event /\ job'[r].body = job[r].body
        /\ job'[r].pc = AfterRead(job[r].body)
    BY <1>0, <1>2 DEF Read, TypeOK, Job
  <2>3. UNCHANGED <<invoices, credits, processed, fails>> /\ job[r].pc # "upsert"
    BY <1>2 DEF Read
  <2>4. OnPayloadAt(r)'
    BY <2>2, <2>3, SameEvent DEF AfterRead
  <2> QED
    BY <1>0, <2>1, <2>3, <2>4, KeepsPayment DEF TypeOK
<1>3. CASE Invoice(r)
  BY <1>3, InvoicePayment
<1>4. CASE Upsert(r)
  BY <1>4, UpsertPayment
<1>5. CASE Degrade(r) \/ RestoreSelect(r) \/ Relink(r) \/ Receipt(r)
  <2>1. /\ UNCHANGED <<invoices, credits, processed, fails>>
        /\ job[r].pc \notin {"upsert", "read", "invoice"}
    BY <1>5 DEF Degrade, RestoreSelect, Relink, Receipt
  <2>2. Others(r) /\ OnPayloadAt(r)'
    <3>1. CASE Applied(r)
      BY <2>1, <3>1, AppliedPayment
    <3>2. CASE ~Applied(r)
      <4>1. Others(r)
        BY <1>5, ApplyType, FinishType DEF Apply, Finish, JobOK
      <4>2. job'[r].event = job[r].event /\ job'[r].body = job[r].body
        BY <1>0, <1>5, <3>2 DEF Degrade, RestoreSelect, Relink, Receipt, Goto, TypeOK, Job
      <4> QED
        BY <2>1, <4>1, <4>2, SameEvent
    <3> QED
      BY <3>1, <3>2
  <2> QED
    BY <1>0, <2>1, <2>2, KeepsPayment DEF TypeOK
<1>6. CASE Stamp(r) \/ Reject(r) \/ RouteCommit(r) \/ ResumeCommit(r) \/ Fail(r)
  <2>1. Leave(r) \/ job' = [job EXCEPT ![r] = Idle]
    BY <1>6 DEF Stamp, Reject, RouteCommit, ResumeCommit, Fail
  <2>2. UNCHANGED <<invoices, credits>>
    BY <1>6 DEF Stamp, Reject, RouteCommit, ResumeCommit, Fail
  <2>3. \/ fails' = fails /\ ~(job[r].pc = "upsert" /\ job[r].body.type = "charge")
        \/ fails' = fails + 1
    BY <1>6 DEF Stamp, Reject, RouteCommit, ResumeCommit, Fail, AfterRead
  <2>4. processed' = processed \/ (job[r].pc = "stamp" /\ processed' = processed \cup {job[r].event})
    BY <1>6 DEF Stamp, Reject, RouteCommit, ResumeCommit, Fail
  <2>5. Others(r) /\ OnPayloadAt(r)'
    BY <1>0, <2>1, <2>2, LeaveStep, SameEvent
  <2>6. fails' >= fails /\ (fails' = 0 => ~(job[r].pc = "upsert" /\ job[r].body.type = "charge"))
    BY <1>0, <2>3 DEF TypeOK
  <2> QED
    BY <2>2, <2>4, <2>5, <2>6, KeepsPayment
<1> QED
  BY <1>1, <1>2, <1>3, <1>4, <1>5, <1>6 DEF Apply, Finish

\* The drain may take the row the webhook is still working on, and the return
\* page may record its invoice first: once no handler is running, a stamped
\* charge has extended the period unless some handler failed.
THEOREM ChargeNotLost == Spec => []ChargeLostOnlyByFailure
<1>1. Init => PaymentInv
  BY DEF Init, PaymentInv, OnPayload, OnPayloadAt, StampedIsInvoiced, InvoicedIsCredited, Idle
<1>2. TypeInv /\ ChargeInv /\ PaymentInv /\ [Next]_vars => PaymentInv'
  <2> SUFFICES ASSUME TypeInv, ChargeInv, PaymentInv, [Next]_vars PROVE PaymentInv'
    OBVIOUS
  <2>1. CASE UNCHANGED vars \/ Tick
    BY <2>1 DEF vars, Tick, PaymentInv, OnPayload, OnPayloadAt, StampedIsInvoiced,
                InvoicedIsCredited, Claims, Paying
  <2> QED
    BY <2>1, RunnerPayment DEF Next
<1>3. TypeInv /\ PaymentInv => ChargeLostOnlyByFailure
  <2> SUFFICES ASSUME TypeInv, PaymentInv, NEW e \in processed, Quiescent, Paying(e),
                      credits[Payload[e].ref] = 0, fails = 0
               PROVE  FALSE
    BY DEF ChargeLostOnlyByFailure, TypeInv, TypeOK
  <2>1. Payload[e].ref \in invoices
    BY DEF PaymentInv, StampedIsInvoiced
  <2>2. PICK r \in Runner : Claims(r, Payload[e].ref)
    BY <2>1 DEF PaymentInv, InvoicedIsCredited
  <2> QED
    BY <2>2 DEF Quiescent, Claims, Idle
<1> QED
  BY <1>1, <1>2, <1>3, TypeInit, TypeStep, ChargeInit, ChargeStep, PTL DEF Spec
-----------------------------------------------------------------------------
(***************************************************************************)
(* The paid time: what a handler read of the row before an await, and what *)
(* it may write of it later, is bounded by the invoices as well.           *)
(***************************************************************************)
Earned == now + Interval * Cardinality(invoices)

\* No stored event names an end of its own beyond the first period: Paystack's
\* name none at all.
EndsInPeriod == \A e \in Event : Payload[e].end <= 1 + Interval

\* With x earned so far, what handler state j names and has read is within a
\* further period; the invoice a charge is about to be credited for is newer
\* than the row it has read.
Modest(j, x) ==
  /\ j.body.end <= x + Interval
  /\ j.seen.end <= IF j.pc = "upsert" /\ j.body.type = "charge" THEN x ELSE x + Interval

TimeInv ==
  /\ IsFiniteSet(invoices)
  /\ sub.end <= Earned + Interval
  /\ \A r \in Runner : Modest(job[r], Earned)

LEMMA EarnedType ==
  ASSUME TypeInv, IsFiniteSet(invoices)
  PROVE  /\ Earned \in Nat /\ Interval \in Nat /\ Interval > 0 /\ now <= Earned
         /\ now + Interval * (1 + Cardinality(invoices)) = Earned + Interval
<1>1. Cardinality(invoices) \in Nat
  BY FS_CardinalityType
<1>2. now \in Nat /\ Interval \in Nat \ {0}
  BY SubscriptionAssumption DEF TypeInv, TypeOK
<1>3. Interval * Cardinality(invoices) \in Nat
  BY <1>1, <1>2
<1>4. Interval * (1 + Cardinality(invoices)) = Interval + Interval * Cardinality(invoices)
  BY <1>1, <1>2
<1> QED
  BY <1>2, <1>3, <1>4 DEF Earned

\* Time that was earned stays earned.
LEMMA EarnedGrows ==
  ASSUME TypeInv, TypeInv', IsFiniteSet(invoices),
         now' \in {now, now + 1}, invoices' = invoices
  PROVE  Earned' >= Earned /\ Earned' \in Nat
<1>1. Cardinality(invoices) \in Nat /\ now \in Nat /\ now' \in Nat /\ Interval \in Nat
  BY FS_CardinalityType, SubscriptionAssumption DEF TypeInv, TypeOK
<1>2. Interval * Cardinality(invoices) \in Nat
  BY <1>1
<1>3. Earned' = now' + Interval * Cardinality(invoices)
  BY DEF Earned
<1> QED
  BY <1>1, <1>2, <1>3 DEF Earned

LEMMA ModestGrows ==
  ASSUME NEW j \in Job, NEW x \in Nat, NEW y \in Nat, y >= x, Modest(j, x)
  PROVE  Modest(j, y)
<1>1. j.body.end \in Nat /\ j.seen.end \in Nat /\ Interval \in Nat
  BY SubscriptionAssumption DEF Job, Body, Row
<1> QED
  BY <1>1 DEF Modest

\* A step of r keeps the bound if the row and r's own state do.
LEMMA TimeKept ==
  ASSUME TypeInv, TypeInv', TimeInv, NEW r \in Runner, Others(r),
         IsFiniteSet(invoices'), Earned' >= Earned, Earned' \in Nat,
         sub' = sub \/ sub'.end <= Earned' + Interval,
         Modest(job'[r], Earned')
  PROVE  TimeInv'
<1>1. Earned \in Nat /\ Interval \in Nat /\ sub.end \in Nat /\ sub.end <= Earned + Interval
  BY EarnedType DEF TimeInv, TypeInv, TypeOK, Row
<1>2. sub'.end <= Earned' + Interval
  BY <1>1
<1>3. ASSUME NEW q \in Runner PROVE Modest(job'[q], Earned')
  <2>1. CASE q = r
    BY <2>1
  <2>2. CASE q # r
    <3>1. job'[q] = job[q] /\ job[q] \in Job /\ Modest(job[q], Earned)
      BY <2>2 DEF Others, TypeInv, TypeOK, TimeInv
    <3>2. Modest(job[q], Earned')
      BY <1>1, <3>1, ModestGrows
    <3> QED
      BY <3>1, <3>2
  <2> QED
    BY <2>1, <2>2
<1>4. (\A q \in Runner : Modest(job[q], Earned))'
  BY <1>3
<1> QED
  BY <1>2, <1>4 DEF TimeInv

LEMMA LeaveEnds ==
  ASSUME TypeOK, NEW r \in Runner, Leave(r) \/ job' = [job EXCEPT ![r] = Idle]
  PROVE  job'[r].body = NoBody /\ job'[r].seen = NoSub
<1> DEFINE next == [Idle EXCEPT !.pc = "next", !.todo = job[r].todo]
<1>1. next.body = NoBody /\ next.seen = NoSub
  BY DEF Idle
<1>2. Idle.body = NoBody /\ Idle.seen = NoSub
  BY DEF Idle
<1>3. job' = [job EXCEPT ![r] = Idle] \/ job' = [job EXCEPT ![r] = next]
  BY DEF TypeOK, Leave
<1> HIDE DEF next
<1> QED
  BY <1>1, <1>2, <1>3 DEF TypeOK

LEMMA BeginEnds ==
  ASSUME TypeOK, NEW r \in Runner, NEW e, NEW b, NEW todo, Begin(r, e, b, todo)
  PROVE  job'[r].body = b /\ job'[r].seen = NoSub /\ job'[r].pc # "upsert"
<1> DEFINE new == [Idle EXCEPT !.pc = IF b.type = "ignored" THEN "stamp" ELSE "read",
                               !.event = e, !.body = b, !.todo = todo]
<1>1. new.body = b /\ new.seen = NoSub /\ new.pc # "upsert"
  BY DEF Idle
<1>2. job' = [job EXCEPT ![r] = new]
  BY DEF Begin
<1> HIDE DEF new
<1> QED
  BY <1>1, <1>2 DEF TypeOK

LEMMA ModestIdle ==
  ASSUME NEW j, NEW x \in Nat, j.body = NoBody, j.seen = NoSub
  PROVE  Modest(j, x)
<1>1. NoBody.end = 0 /\ NoSub.end = 0 /\ Interval \in Nat
  BY SubscriptionAssumption DEF NoBody, NoSub, NoEnd
<1> QED
  BY <1>1 DEF Modest

\* A handler that goes on with its event, and is not about to credit a charge.
LEMMA ModestGoesOn ==
  ASSUME NEW j \in Job, NEW k, NEW x \in Nat, NEW y \in Nat, y >= x, Modest(j, x),
         k.body = j.body, k.seen = j.seen,
         k.pc = "upsert" => k.body.type # "charge"
  PROVE  Modest(k, y)
<1>1. j.body.end \in Nat /\ j.seen.end \in Nat /\ Interval \in Nat
  BY SubscriptionAssumption DEF Job, Body, Row
<1>2. j.body.end <= x + Interval /\ j.seen.end <= x + Interval
  BY <1>1 DEF Modest
<1> QED
  BY <1>1, <1>2 DEF Modest

\* The row written for an event is within the bound if what it is computed from is.
LEMMA RowTime ==
  ASSUME NEW b \in Body, NEW old \in Row, NEW t \in Nat, NEW x \in Nat, t <= x,
         b.end <= x + Interval,
         old.end <= IF b.type = "charge" THEN x ELSE x + Interval
  PROVE  NewRow(b, old, t).end <= x + Interval
<1>1. b.end \in Nat /\ old.end \in Nat /\ Interval \in Nat
  BY SubscriptionAssumption DEF Body, Row
<1>2. ActivateRow(b, old, t).end <= x + Interval
  BY <1>1 DEF ActivateRow
<1>3. b.type = "charge" => ChargeRow(b, old, t).end <= x + Interval
  BY <1>1 DEF ChargeRow, StackBase
<1>4. /\ SuspendRow(b, old, "past_due").end <= x + Interval
      /\ SuspendRow(b, old, "expired").end <= x + Interval
  BY <1>1 DEF SuspendRow
<1>5. CancelRow(b, old).end <= x + Interval
  BY <1>1 DEF CancelRow
<1> QED
  BY <1>2, <1>3, <1>4, <1>5 DEF NewRow
\* Going on to another stage, and leaving, keep what the handler has read.
LEMMA GotoTime ==
  ASSUME TypeInv, TypeInv', TimeInv, NEW r \in Runner, NEW pc \in PC, Goto(r, pc),
         pc = "upsert" => job[r].body.type # "charge",
         sub' = sub \/ sub'.end <= Earned + Interval, UNCHANGED <<now, invoices>>
  PROVE  TimeInv'
<1>1. Earned' = Earned /\ Earned \in Nat /\ IsFiniteSet(invoices')
  BY EarnedType DEF TimeInv, Earned
<1>2. TypeOK /\ job[r] \in Job /\ Modest(job[r], Earned)
  BY DEF TypeInv, TypeOK, TimeInv
<1>3. Others(r) /\ job'[r] = [job[r] EXCEPT !.pc = pc]
  BY <1>2, GotoStep
<1>4. /\ job'[r].body = job[r].body /\ job'[r].seen = job[r].seen
      /\ job'[r].pc = "upsert" => job'[r].body.type # "charge"
  BY <1>2, <1>3 DEF Job
<1>5. Modest(job'[r], Earned)
  BY <1>1, <1>2, <1>4, ModestGoesOn
<1> QED
  BY <1>1, <1>3, <1>5, TimeKept

LEMMA LeaveTime ==
  ASSUME TypeInv, TypeInv', TimeInv, NEW r \in Runner,
         Leave(r) \/ job' = [job EXCEPT ![r] = Idle],
         sub' = sub \/ sub'.end <= Earned + Interval, UNCHANGED <<now, invoices>>
  PROVE  TimeInv'
<1>1. Earned' = Earned /\ Earned \in Nat /\ IsFiniteSet(invoices') /\ TypeOK
  BY EarnedType DEF TimeInv, Earned, TypeInv
<1>2. Others(r) /\ Modest(job'[r], Earned)
  BY <1>1, LeaveStep, LeaveEnds, ModestIdle
<1> QED
  BY <1>1, <1>2, TimeKept

LEMMA AppliedTime ==
  ASSUME TypeInv, TypeInv', TimeInv, NEW r \in Runner, Applied(r),
         sub' = sub \/ sub'.end <= Earned + Interval, UNCHANGED <<now, invoices>>
  PROVE  TimeInv'
<1>1. CASE job[r].event # NoEvent
  <2> DEFINE pc == IF job[r].body.type = "charge" THEN "receipt" ELSE "stamp"
  <2>1. Goto(r, pc) /\ pc \in PC /\ pc # "upsert"
    BY <1>1 DEF Applied, PC
  <2> HIDE DEF pc
  <2> QED
    BY <2>1, GotoTime
<1>2. CASE job[r].event = NoEvent
  BY <1>2, LeaveTime DEF Applied
<1> QED
  BY <1>1, <1>2

\* What starts names no end beyond the bound: a stored event by assumption, the
\* owner's cancellation because it names the row's.
LEMMA BeginTime ==
  ASSUME TypeInv, TypeInv', TimeInv, NEW r \in Runner, NEW e, NEW b \in Body, NEW todo,
         Begin(r, e, b, todo), Others(r), b.end <= Earned + Interval,
         UNCHANGED <<now, sub, invoices>>
  PROVE  TimeInv'
<1>1. Earned' = Earned /\ Earned \in Nat /\ IsFiniteSet(invoices') /\ TypeOK
  BY EarnedType DEF TimeInv, Earned, TypeInv
<1>2. job'[r].body = b /\ job'[r].seen = NoSub /\ job'[r].pc # "upsert"
  BY <1>1, BeginEnds
<1>3. NoSub.end = 0 /\ Interval \in Nat
  BY SubscriptionAssumption DEF NoSub, NoEnd
<1>4. Modest(job'[r], Earned)
  BY <1>1, <1>2, <1>3 DEF Modest
<1> QED
  BY <1>1, <1>4, TimeKept

LEMMA StartTime ==
  ASSUME EndsInPeriod, TypeInv, TypeInv', TimeInv, NEW r \in Runner, Start(r)
  PROVE  TimeInv'
<1>0. Others(r)
  BY StartType DEF JobOK
<1>1. TypeOK /\ job[r] \in Job /\ UNCHANGED <<now, sub, invoices>>
  BY DEF TypeInv, TypeOK, Start, Deliver, ReturnVisit, DrainSelect, DrainNext, CancelForm,
         ResumeForm, RouteForm
<1>2. /\ Earned \in Nat /\ Interval \in Nat /\ now <= Earned /\ now \in Nat \ {0}
      /\ sub.end \in Nat /\ sub.end <= Earned + Interval
  BY EarnedType DEF TimeInv, TypeInv, TypeOK, Row
<1>3. ASSUME NEW e \in Event PROVE Payload[e] \in Body /\ Payload[e].end <= Earned + Interval
  <2>1. Payload[e] \in Body /\ Payload[e].end \in Nat /\ Payload[e].end <= 1 + Interval
    BY BillingAssumption DEF EndsInPeriod, Body
  <2> QED
    BY <1>2, <2>1
<1>4. ASSUME NEW e \in Event, Deliver(r, e) \/ ReturnVisit(r, e) PROVE TimeInv'
  <2>1. \E f : Begin(r, f, Payload[e], {})
    BY <1>4 DEF Deliver, ReturnVisit
  <2> QED
    BY <1>0, <1>1, <1>3, <2>1, BeginTime
<1>5. CASE DrainNext(r)
  <2>1. PICK e \in job[r].todo : Begin(r, e, Payload[e], job[r].todo \ {e})
    BY <1>5 DEF DrainNext
  <2>2. e \in Event
    BY <1>1, <2>1 DEF Job
  <2> QED
    BY <1>0, <1>1, <1>3, <2>1, <2>2, BeginTime
<1>6. CASE CancelForm(r)
  <2>1. /\ OwnerCancelBody \in Body /\ OwnerCancelBody.end = sub.end
        /\ AdminCancelBody \in Body /\ AdminCancelBody.end = 0
    <3>1. sub.plan \in Plan /\ sub.end \in Nat
      BY <1>1 DEF TypeOK, Row
    <3> QED
      BY <3>1 DEF OwnerCancelBody, AdminCancelBody, NoBody, Body, EventType, NoEnd
  <2>2. Begin(r, NoEvent, OwnerCancelBody, {}) \/ Begin(r, NoEvent, AdminCancelBody, {})
    BY <1>6 DEF CancelForm
  <2>3. 0 <= Earned + Interval
    BY <1>2
  <2>4. CASE Begin(r, NoEvent, OwnerCancelBody, {})
    BY <1>0, <1>1, <1>2, <2>1, <2>4, BeginTime
  <2>5. CASE Begin(r, NoEvent, AdminCancelBody, {})
    BY <1>0, <1>1, <1>2, <2>1, <2>3, <2>5, BeginTime
  <2> QED
    BY <2>2, <2>4, <2>5
<1>7. ASSUME job'[r].body = job[r].body, job'[r].seen = job[r].seen, job'[r].pc # "upsert"
      PROVE  TimeInv'
  <2>1. Modest(job[r], Earned) /\ Earned' = Earned /\ IsFiniteSet(invoices')
    BY <1>1 DEF TimeInv, Earned
  <2>2. Modest(job'[r], Earned)
    BY <1>1, <1>2, <1>7, <2>1, ModestGoesOn
  <2> QED
    BY <1>0, <1>1, <1>2, <2>1, <2>2, TimeKept
<1>8. CASE DrainSelect(r) \/ ResumeForm(r) \/ \E l \in Link, m \in Choice : RouteForm(r, l, m)
  <2>1. job'[r].body = job[r].body /\ job'[r].seen = job[r].seen /\ job'[r].pc # "upsert"
    BY <1>1, <1>8 DEF DrainSelect, ResumeForm, RouteForm, Goto, TypeOK, Job
  <2> QED
    BY <1>7, <2>1
<1> QED
  BY <1>4, <1>5, <1>6, <1>8 DEF Start

\* The invoice of a charge pays for the period its credit will add.
LEMMA InvoiceTime ==
  ASSUME TypeInv, TypeInv', TimeInv, NEW r \in Runner, Invoice(r)
  PROVE  TimeInv'
<1> DEFINE c == job[r].body.ref
<1>1. TypeOK /\ job[r] \in Job /\ UNCHANGED <<now, sub>>
  BY DEF TypeInv, TypeOK, Invoice
<1>2. CASE NewlyPaid(c)
  <2>1. c \notin invoices /\ invoices' = invoices \cup {c} /\ Goto(r, "upsert")
    BY <1>2 DEF Invoice, NewlyPaid
  <2>2. IsFiniteSet(invoices') /\ Cardinality(invoices') = Cardinality(invoices) + 1
    BY <2>1, FS_AddElement DEF TimeInv
  <2>3. Cardinality(invoices) \in Nat /\ Interval \in Nat /\ now \in Nat
    BY <1>1, FS_CardinalityType, SubscriptionAssumption DEF TimeInv, TypeOK
  <2>4. Earned \in Nat /\ Earned' = Earned + Interval
    <3>1. Interval * (Cardinality(invoices) + 1) = Interval * Cardinality(invoices) + Interval
      BY <2>3
    <3>2. Interval * Cardinality(invoices) \in Nat
      BY <2>3
    <3> QED
      BY <1>1, <2>2, <2>3, <3>1, <3>2 DEF Earned
  <2>5. Others(r) /\ job'[r] = [job[r] EXCEPT !.pc = "upsert"]
    BY <1>1, <2>1, GotoStep DEF PC
  <2>6. job'[r].body = job[r].body /\ job'[r].seen = job[r].seen
    BY <1>1, <2>5 DEF Job
  <2>7. job[r].body.end \in Nat /\ job[r].seen.end \in Nat
    BY <1>1 DEF Job, Body, Row
  <2>8. job[r].body.end <= Earned + Interval /\ job[r].seen.end <= Earned + Interval
    <3>1. Modest(job[r], Earned)
      BY DEF TimeInv
    <3> QED
      BY <2>3, <2>4, <2>7, <3>1 DEF Modest
  <2>9. Modest(job'[r], Earned')
    BY <2>3, <2>4, <2>6, <2>7, <2>8 DEF Modest
  <2>10. Earned' >= Earned /\ Earned' \in Nat
    BY <2>3, <2>4
  <2> QED
    BY <1>1, <2>2, <2>5, <2>9, <2>10, TimeKept
<1>3. CASE ~NewlyPaid(c)
  <2>1. UNCHANGED invoices /\ (Goto(r, "stamp") \/ Leave(r))
    BY <1>3 DEF Invoice
  <2>2. CASE Goto(r, "stamp")
    BY <1>1, <2>1, <2>2, GotoTime DEF PC
  <2> QED
    BY <1>1, <2>1, <2>2, LeaveTime
<1> QED
  BY <1>2, <1>3

LEMMA UpsertTime ==
  ASSUME TypeInv, TypeInv', TimeInv, NEW r \in Runner, Upsert(r)
  PROVE  TimeInv'
<1> DEFINE b == job[r].body
           old == job[r].seen
<1>1. TypeOK /\ job[r] \in Job /\ UNCHANGED <<now, invoices>> /\ job[r].pc = "upsert"
  BY DEF TypeInv, TypeOK, Upsert
<1>2. Modest(job[r], Earned) /\ Earned \in Nat /\ now <= Earned /\ now \in Nat
  BY <1>1, EarnedType DEF TimeInv, TypeOK
<1>3. /\ b \in Body /\ old \in Row /\ b.end <= Earned + Interval
      /\ old.end <= IF b.type = "charge" THEN Earned ELSE Earned + Interval
  BY <1>1, <1>2 DEF Modest, Job
<1>4. NewRow(b, old, now).end <= Earned + Interval
  BY <1>2, <1>3, RowTime
<1>5. sub' = NewRow(b, old, now)
  BY DEF Upsert
<1>6. Goto(r, "restore") \/ Goto(r, "degrade") \/ Applied(r)
  BY DEF Upsert
<1> QED
  BY <1>1, <1>4, <1>5, <1>6, GotoTime, AppliedTime DEF PC

LEMMA RunnerTime ==
  ASSUME EndsInPeriod, TypeInv, TypeInv', TimeInv, NEW r \in Runner,
         Start(r) \/ Apply(r) \/ Finish(r) \/ Fail(r)
  PROVE  TimeInv'
<1>0. TypeOK /\ job[r] \in Job
  BY DEF TypeInv, TypeOK
<1>1. CASE Read(r)
  <2>1. Others(r) /\ UNCHANGED <<now, sub, invoices>>
    BY <1>1, ApplyType DEF Apply, JobOK, Read
  <2>2. /\ job'[r].body = job[r].body /\ job'[r].seen = sub
        /\ job'[r].pc = AfterRead(job[r].body)
    BY <1>0, <1>1 DEF Read, TypeOK, Job
  <2>3. ~(job'[r].pc = "upsert" /\ job'[r].body.type = "charge")
    BY <2>2 DEF AfterRead
  <2>4. Modest(job[r], Earned) /\ sub.end <= Earned + Interval
    BY DEF TimeInv
  <2>5. Modest(job'[r], Earned)
    BY <2>2, <2>3, <2>4 DEF Modest
  <2>6. Earned' = Earned /\ Earned \in Nat /\ IsFiniteSet(invoices')
    BY <2>1, EarnedType DEF TimeInv, Earned
  <2> QED
    BY <2>1, <2>5, <2>6, TimeKept
<1>2. CASE Degrade(r)
  BY <1>2, AppliedTime DEF Degrade
<1>3. ASSUME RestoreSelect(r) \/ Relink(r) PROVE TimeInv'
  <2>1. Others(r) /\ UNCHANGED <<now, sub, invoices>>
    BY <1>3, ApplyType DEF Apply, JobOK, RestoreSelect, Relink
  <2>2. CASE Applied(r)
    BY <2>1, <2>2, AppliedTime
  <2>3. CASE ~Applied(r)
    <3>1. /\ job'[r].body = job[r].body /\ job'[r].seen = job[r].seen
          /\ job'[r].pc # "upsert"
      <4>1. CASE RestoreSelect(r)
        BY <1>0, <2>3, <4>1 DEF RestoreSelect, TypeOK, Job
      <4>2. CASE Relink(r)
        <5>1. PICK p \in job[r].relink : job' = [job EXCEPT ![r].relink = @ \ {p}]
          BY <2>3, <4>2 DEF Relink
        <5> QED
          BY <1>0, <4>2, <5>1 DEF Relink, TypeOK, Job
      <4> QED
        BY <1>3, <4>1, <4>2
    <3>2. Earned' = Earned /\ Earned \in Nat /\ IsFiniteSet(invoices') /\ Modest(job[r], Earned)
      BY <2>1, EarnedType DEF TimeInv, Earned
    <3>3. Modest(job'[r], Earned)
      BY <1>0, <3>1, <3>2, ModestGoesOn
    <3> QED
      BY <2>1, <3>2, <3>3, TimeKept
  <2> QED
    BY <2>2, <2>3
<1>4. CASE Receipt(r)
  BY <1>4, GotoTime DEF Receipt, PC
<1>5. CASE Stamp(r) \/ Reject(r) \/ RouteCommit(r) \/ Fail(r)
  BY <1>5, LeaveTime DEF Stamp, Reject, RouteCommit, Fail
<1>6. CASE ResumeCommit(r)
  <2>1. sub'.end = sub.end /\ Leave(r) /\ UNCHANGED <<now, invoices>>
    BY <1>0, <1>6 DEF ResumeCommit, TypeOK, Row
  <2> QED
    BY <2>1, LeaveTime DEF TimeInv
<1> QED
  BY <1>1, <1>2, <1>3, <1>4, <1>5, <1>6, StartTime, InvoiceTime, UpsertTime DEF Apply, Finish

\* No interleaving of charges, replays, failures, cancellations and resumptions adds
\* up to more paid time than was paid for, whatever each handler had read of the
\* row (subscription.ts:281): the row promises at most the current period and a
\* further one for each paid invoice, as long as the provider names no later end.
THEOREM NoFreeTimeInvariant ==
  ASSUME EndsInPeriod
  PROVE  Spec => []NoFreeTime
<1>1. Init => TimeInv
  <2> SUFFICES ASSUME Init PROVE TimeInv
    OBVIOUS
  <2>1. invoices = {} /\ now = 1 /\ IsFiniteSet({}) /\ Cardinality({}) = 0
    BY FS_EmptySet DEF Init
  <2>2. Interval \in Nat /\ Earned = 1
    BY <2>1, SubscriptionAssumption DEF Earned
  <2>3. sub.end = 0 \/ sub.end = 1 + Interval
    BY DEF Init, NoSub, NoEnd
  <2>4. ASSUME NEW r \in Runner PROVE Modest(job[r], Earned)
    <3>1. job[r].body = NoBody /\ job[r].seen = NoSub
      BY DEF Init, Idle
    <3> QED
      BY <2>2, <3>1, ModestIdle
  <2> QED
    BY <2>1, <2>2, <2>3, <2>4 DEF TimeInv
<1>2. TypeInv /\ TypeInv' /\ TimeInv /\ [Next]_vars => TimeInv'
  <2> SUFFICES ASSUME TypeInv, TypeInv', TimeInv, [Next]_vars PROVE TimeInv'
    OBVIOUS
  <2>1. CASE UNCHANGED vars
    BY <2>1 DEF vars, TimeInv, Modest, Earned
  <2>2. CASE Tick
    <3>1. now' = now + 1 /\ UNCHANGED <<sub, invoices, job>>
      BY <2>2 DEF Tick
    <3>2. /\ Earned' >= Earned /\ Earned' \in Nat /\ Earned \in Nat
          /\ IsFiniteSet(invoices') /\ Interval \in Nat
      BY <3>1, EarnedGrows, EarnedType DEF TimeInv
    <3>3. sub'.end <= Earned' + Interval
      <4>1. sub.end \in Nat /\ sub.end <= Earned + Interval
        BY DEF TimeInv, TypeInv, TypeOK, Row
      <4> QED
        BY <3>1, <3>2, <4>1
    <3>4. ASSUME NEW r \in Runner PROVE Modest(job[r], Earned')
      <4>1. job[r] \in Job /\ Modest(job[r], Earned)
        BY DEF TimeInv, TypeInv, TypeOK
      <4> QED
        BY <3>2, <4>1, ModestGrows
    <3>5. (\A r \in Runner : Modest(job[r], Earned))'
      BY <3>1, <3>4
    <3> QED
      BY <3>2, <3>3, <3>5 DEF TimeInv
  <2> QED
    BY <2>1, <2>2, RunnerTime DEF Next
<1>3. TypeInv /\ TimeInv => NoFreeTime
  BY EarnedType DEF TimeInv, NoFreeTime
<1> QED
  BY <1>1, <1>2, <1>3, TypeInit, TypeStep, PTL DEF Spec
-----------------------------------------------------------------------------
(***************************************************************************)
(* The routing, with handlers one after another: what a mode may be while  *)
(* rules are kept, what a restoration has still to do, and that no charge  *)
(* finds its invoice there.                                                *)
(***************************************************************************)

\* One handler at a time, none of which fails; no return page; every stored charge
\* has a reference of its own.
OneAfterAnother ==
  /\ \A q, r \in Runner : q = r
  /\ Return = {} /\ MaxFail = 0
  /\ \A e \in Event : Payload[e].type = "charge" => Payload[e].ref # NoRef
  /\ \A d, e \in Event :
       Payload[d].type = "charge" /\ Payload[e].type = "charge" /\ Payload[d].ref = Payload[e].ref
         => d = e

\* Rules are followed, or suspended.
ModesFit == \A l \in Link : rules[l] # {} => mode[l] \in {"single", Strongest(rules[l])}

\* Modes m and rules s of the links are as the body of a finished application says.
Follows(b, m, s) ==
  /\ b.type = "past_due" \/ (b.type = "cancel" /\ ~b.atEnd) => \A l \in Link : m[l] = "single"
  /\ Restores(b) => \A l \in Link : s[l] # {} => m[l] = Strongest(s[l])

RouteAt(r) ==
  /\ job[r].pc \in {"restore", "relink"} => Restores(job[r].body)
  /\ job[r].pc = "degrade" => ~Restores(job[r].body)
  /\ job[r].pc = "relink" =>
       /\ \A p \in job[r].relink : p[2] = Strongest(rules[p[1]])
       /\ \A l \in Link : rules[l] # {} =>
            mode[l] = Strongest(rules[l]) \/ <<l, Strongest(rules[l])>> \in job[r].relink
  /\ job[r].pc \in {"receipt", "stamp"} => Follows(job[r].body, mode, rules)

\* A handler works on the payload of its event, which is not stamped yet; what is left of a
\* batch is not either.
FreshAt(r) ==
  /\ job[r].event # NoEvent =>
       job[r].body = Payload[job[r].event] /\ job[r].event \in Recorded \ processed
  /\ job[r].event = NoEvent => job[r].body.type # "charge"
  /\ job[r].todo \subseteq Recorded \ processed /\ job[r].event \notin job[r].todo

Past(r, e) == job[r].event = e /\ job[r].pc \notin {"read", "invoice"}

\* An invoice is that of a stamped charge, or of the one a handler has just recorded it for.
InvoicedFor ==
  \A c \in invoices : \E e \in Event :
    /\ Payload[e].type = "charge" /\ Payload[e].ref = c
    /\ e \in processed \/ \E r \in Runner : Past(r, e)

RouteInv ==
  /\ processed \subseteq Recorded /\ ModesFit /\ InvoicedFor
  /\ \A r \in Runner : RouteAt(r) /\ FreshAt(r)

LEMMA StrongestMode == \A S : Strongest(S) \in PaidMode /\ Strongest(S) # "single"
BY DEF Strongest, PaidMode

\* A step of r keeps it if r, the links and the tables are left as they should be.
LEMMA RouteKept ==
  ASSUME OneAfterAnother, RouteInv, NEW r \in Runner,
         ModesFit', RouteAt(r)', FreshAt(r)', processed' \subseteq Recorded',
         processed \subseteq processed', invoices' = invoices,
         \A e \in Event : Payload[e].type = "charge" /\ Past(r, e) => Past(r, e)' \/ e \in processed'
  PROVE  RouteInv'
<1>1. \A q \in Runner : q = r
  BY DEF OneAfterAnother
<1>2. (\A q \in Runner : RouteAt(q) /\ FreshAt(q))'
  BY <1>1
<1>3. InvoicedFor'
  <2>1. ASSUME NEW c \in invoices
        PROVE  \E e \in Event : /\ Payload[e].type = "charge" /\ Payload[e].ref = c
                                /\ e \in processed' \/ \E q \in Runner : Past(q, e)'
    <3>1. PICK e \in Event : /\ Payload[e].type = "charge" /\ Payload[e].ref = c
                             /\ e \in processed \/ \E q \in Runner : Past(q, e)
      BY DEF RouteInv, InvoicedFor
    <3>2. e \in processed' \/ Past(r, e)'
      BY <1>1, <3>1
    <3> QED
      BY <3>1, <3>2
  <2> QED
    BY <2>1 DEF InvoicedFor
<1> QED
  BY <1>2, <1>3 DEF RouteInv

LEMMA LeaveTodo ==
  ASSUME TypeOK, NEW r \in Runner, Leave(r) \/ job' = [job EXCEPT ![r] = Idle]
  PROVE  job'[r].todo \subseteq job[r].todo
<1> DEFINE next == [Idle EXCEPT !.pc = "next", !.todo = job[r].todo]
<1>1. next.todo = job[r].todo /\ Idle.todo = {}
  BY DEF Idle
<1>2. job' = [job EXCEPT ![r] = Idle] \/ job' = [job EXCEPT ![r] = next]
  BY DEF TypeOK, Leave
<1> HIDE DEF next
<1> QED
  BY <1>1, <1>2 DEF TypeOK

\* A handler that leaves; only one that holds no charge of an event leaves unstamped.
LEMMA LeaveRoute ==
  ASSUME OneAfterAnother, TypeInv, RouteInv, NEW r \in Runner,
         Leave(r) \/ job' = [job EXCEPT ![r] = Idle], ModesFit',
         processed' = processed \cup ({job[r].event} \cap Event) \/ processed' = processed,
         \/ job[r].event \in processed' \/ job[r].event = NoEvent
         \/ job[r].body.type # "charge" \/ job[r].pc \in {"read", "invoice"},
         UNCHANGED <<arrived, invoices>>
  PROVE  RouteInv'
<1>1. /\ TypeOK /\ FreshAt(r) /\ Recorded' = Recorded /\ processed \subseteq Recorded
  BY DEF TypeInv, RouteInv, Recorded
<1>2. /\ job'[r].pc \in {"idle", "next"} /\ job'[r].event = NoEvent
      /\ job'[r].body = NoBody /\ job'[r].todo \subseteq job[r].todo
  BY <1>1, LeaveStep, LeaveEnds, LeaveTodo
<1>3. RouteAt(r)'
  BY <1>2 DEF RouteAt
<1>4. FreshAt(r)'
  <2>1. job'[r].event \notin job'[r].todo
    <3>1. job[r].todo \subseteq Recorded
      BY <1>1 DEF FreshAt
    <3> QED
      BY <1>2, <3>1, BillingAssumption DEF Recorded
  <2>2. job'[r].todo \subseteq Recorded \ processed'
    <3>1. job[r].todo \subseteq Recorded \ processed /\ job[r].event \notin job[r].todo
      BY <1>1 DEF FreshAt
    <3> QED
      BY <1>2, <3>1
  <2>3. job'[r].body.type # "charge"
    BY <1>2 DEF NoBody
  <2> QED
    BY <1>1, <1>2, <2>1, <2>2, <2>3 DEF FreshAt
<1>5. processed' \subseteq Recorded' /\ processed \subseteq processed'
  <2>1. job[r].event \in Event => job[r].event \in Recorded
    BY <1>1, BillingAssumption DEF FreshAt
  <2> QED
    BY <1>1, <2>1
<1>6. ASSUME NEW e \in Event, Payload[e].type = "charge", Past(r, e)
      PROVE  e \in processed'
  <2>1. job[r].event = e /\ e # NoEvent /\ job[r].pc \notin {"read", "invoice"}
    BY <1>6, BillingAssumption DEF Past
  <2>2. job[r].body.type = "charge"
    BY <1>1, <1>6, <2>1 DEF FreshAt
  <2> QED
    BY <2>1, <2>2
<1> QED
  BY <1>3, <1>4, <1>5, <1>6, RouteKept

\* A handler that goes on with its event; the tables are left alone.
LEMMA SameRoute ==
  ASSUME OneAfterAnother, TypeInv, RouteInv, NEW r \in Runner,
         job'[r].event = job[r].event, job'[r].body = job[r].body, job'[r].todo = job[r].todo,
         job[r].pc \notin {"read", "invoice"} => job'[r].pc \notin {"read", "invoice"},
         RouteAt(r)', ModesFit', UNCHANGED <<arrived, processed, invoices>>
  PROVE  RouteInv'
<1>1. FreshAt(r) /\ Recorded' = Recorded /\ processed \subseteq Recorded
  BY DEF RouteInv, Recorded
<1>2. FreshAt(r)'
  BY <1>1 DEF FreshAt
<1>3. \A e \in Event : Past(r, e) => Past(r, e)'
  BY DEF Past
<1> QED
  BY <1>1, <1>2, <1>3, RouteKept

LEMMA GotoRoute ==
  ASSUME OneAfterAnother, TypeInv, RouteInv, NEW r \in Runner, NEW pc \in PC, Goto(r, pc),
         job[r].pc \notin {"read", "invoice"} => pc \notin {"read", "invoice"},
         pc \in {"restore", "relink"} => Restores(job[r].body),
         pc = "degrade" => ~Restores(job[r].body),
         pc # "relink",
         pc \in {"receipt", "stamp"} => Follows(job[r].body, mode', rules'),
         ModesFit', UNCHANGED <<arrived, processed, invoices>>
  PROVE  RouteInv'
<1>1. TypeOK /\ job[r] \in Job
  BY DEF TypeInv, TypeOK
<1>2. job'[r] = [job[r] EXCEPT !.pc = pc]
  BY <1>1, GotoStep
<1>3. /\ job'[r].pc = pc /\ job'[r].event = job[r].event /\ job'[r].body = job[r].body
      /\ job'[r].todo = job[r].todo
  BY <1>1, <1>2 DEF Job
<1>4. RouteAt(r)'
  BY <1>3 DEF RouteAt
<1> QED
  BY <1>3, <1>4, SameRoute

\* An application that has ended, with the links as its event wants them.
LEMMA AppliedRoute ==
  ASSUME OneAfterAnother, TypeInv, RouteInv, NEW r \in Runner, Applied(r),
         Follows(job[r].body, mode', rules'), ModesFit', job[r].pc \notin {"read", "invoice"},
         UNCHANGED <<arrived, processed, invoices>>
  PROVE  RouteInv'
<1>1. CASE job[r].event # NoEvent
  <2> DEFINE pc == IF job[r].body.type = "charge" THEN "receipt" ELSE "stamp"
  <2>1. Goto(r, pc) /\ pc \in {"receipt", "stamp"} /\ pc \in PC
    BY <1>1 DEF Applied, PC
  <2> HIDE DEF pc
  <2> QED
    BY <2>1, GotoRoute
<1>2. CASE job[r].event = NoEvent
  BY <1>2, LeaveRoute DEF Applied
<1> QED
  BY <1>1, <1>2
\* Work that begins on a recorded event that is not stamped, or on none.
LEMMA BeginRoute ==
  ASSUME OneAfterAnother, TypeInv, RouteInv, NEW r \in Runner, NEW e \in Event \cup {NoEvent},
         NEW b \in Body, NEW todo \in SUBSET Event, Begin(r, e, b, todo),
         IF e = NoEvent THEN b.type # "charge" ELSE b = Payload[e] /\ e \in Recorded' \ processed,
         todo \subseteq Recorded' \ processed, e \notin todo, job[r].event = NoEvent,
         Recorded \subseteq Recorded', UNCHANGED <<mode, rules, processed, invoices>>
  PROVE  RouteInv'
<1>1. TypeOK /\ processed \subseteq Recorded /\ ModesFit'
  BY DEF TypeInv, RouteInv, ModesFit
<1> DEFINE new == [Idle EXCEPT !.pc = IF b.type = "ignored" THEN "stamp" ELSE "read",
                               !.event = e, !.body = b, !.todo = todo]
<1>2. /\ new.pc = IF b.type = "ignored" THEN "stamp" ELSE "read"
      /\ new.event = e /\ new.body = b /\ new.todo = todo
  BY DEF Idle
<1>3. job'[r] = new
  BY <1>1 DEF Begin, TypeOK
<1> HIDE DEF new
<1>4. RouteAt(r)'
  <2>1. job'[r].pc \in {"read", "stamp"} /\ (job'[r].pc = "stamp" => job'[r].body.type = "ignored")
    BY <1>2, <1>3
  <2>2. job'[r].body.type = "ignored" => Follows(job'[r].body, mode', rules')
    BY DEF Follows, Restores
  <2> QED
    BY <2>1, <2>2 DEF RouteAt
<1>5. FreshAt(r)'
  BY <1>2, <1>3 DEF FreshAt
<1>6. \A f \in Event : ~Past(r, f)
  BY BillingAssumption DEF Past
<1>7. processed' \subseteq Recorded'
  BY <1>1
<1> QED
  BY <1>1, <1>4, <1>5, <1>6, <1>7, RouteKept

LEMMA StartRoute ==
  ASSUME OneAfterAnother, TypeInv, RouteInv, NEW r \in Runner, Start(r)
  PROVE  RouteInv'
<1>0. TypeOK /\ job[r] \in Job /\ arrived \in [Event -> Nat] /\ processed \subseteq Recorded
  BY DEF TypeInv, TypeOK, RouteInv
<1>1. UNCHANGED <<mode, rules, processed, invoices>>
  BY DEF Start, Deliver, ReturnVisit, DrainSelect, DrainNext, CancelForm, ResumeForm, RouteForm
<1>2. job[r].pc \in {"idle", "next"} /\ job[r].event = NoEvent /\ FreshAt(r)
  BY DEF TypeInv, StageFits, Start, Deliver, ReturnVisit, DrainSelect, DrainNext, CancelForm,
         ResumeForm, RouteForm, RouteInv
<1>3. ASSUME NEW e \in Event, Deliver(r, e) PROVE RouteInv'
  <2>1. /\ arrived[e] = 0 /\ arrived' = [arrived EXCEPT ![e] = 1 + Cardinality(Recorded)]
        /\ Begin(r, e, Payload[e], {})
    BY <1>3 DEF Deliver
  <2>2. 1 + Cardinality(Recorded) > 0
    BY FS_CardinalityType DEF TypeInv
  <2>3. Recorded \subseteq Recorded' /\ e \in Recorded' /\ e \notin processed
    BY <1>0, <2>1, <2>2 DEF Recorded
  <2>4. Payload[e] \in Body /\ e # NoEvent
    BY BillingAssumption
  <2> QED
    BY <1>1, <1>2, <2>1, <2>3, <2>4, BeginRoute
<1>4. CASE DrainNext(r)
  <2>1. PICK e \in job[r].todo : Begin(r, e, Payload[e], job[r].todo \ {e})
    BY <1>4 DEF DrainNext
  <2>2. e \in Event /\ e # NoEvent /\ Payload[e] \in Body
    BY <1>0, <2>1, BillingAssumption DEF Job
  <2>3. Recorded' = Recorded /\ job[r].todo \subseteq Recorded \ processed
    BY <1>2, <1>4 DEF DrainNext, Recorded, FreshAt
  <2>4. job[r].todo \ {e} \in SUBSET Event
    BY <1>0 DEF Job
  <2> QED
    BY <1>1, <1>2, <2>1, <2>2, <2>3, <2>4, BeginRoute
<1>5. CASE CancelForm(r)
  <2>1. \E b \in Body : Begin(r, NoEvent, b, {}) /\ b.type = "cancel"
    <3>1. sub.plan \in Plan /\ sub.end \in Nat
      BY <1>0 DEF TypeOK, Row
    <3>2. OwnerCancelBody \in Body /\ OwnerCancelBody.type = "cancel"
      BY <3>1 DEF OwnerCancelBody, NoBody, Body, EventType, NoEnd
    <3>3. AdminCancelBody \in Body /\ AdminCancelBody.type = "cancel"
      BY <3>1 DEF AdminCancelBody, NoBody, Body, EventType, NoEnd
    <3> QED
      BY <1>5, <3>2, <3>3 DEF CancelForm
  <2>2. Recorded' = Recorded
    BY <1>5 DEF CancelForm, Recorded
  <2>3. NoEvent \notin Event
    BY BillingAssumption
  <2> QED
    BY <1>1, <1>2, <2>1, <2>2, <2>3, BeginRoute
<1>6. ASSUME job'[r].pc \in {"next", "route", "resume"}, job'[r].event = job[r].event,
             job'[r].body = job[r].body, job'[r].todo \subseteq Recorded \ processed,
             arrived' = arrived
      PROVE  RouteInv'
  <2>1. RouteAt(r)' /\ ModesFit' /\ Recorded' = Recorded
    BY <1>1, <1>6 DEF RouteAt, RouteInv, ModesFit, Recorded
  <2>2. FreshAt(r)'
    BY <1>1, <1>2, <1>6, <2>1, BillingAssumption DEF FreshAt, Recorded
  <2>3. \A f \in Event : ~Past(r, f)
    BY <1>2, BillingAssumption DEF Past
  <2> QED
    BY <1>0, <1>1, <2>1, <2>2, <2>3, RouteKept
<1>7. CASE DrainSelect(r)
  <2>1. /\ job'[r].pc = "next" /\ job'[r].event = job[r].event /\ job'[r].body = job[r].body
        /\ job'[r].todo \subseteq Pending /\ arrived' = arrived
    BY <1>0, <1>7 DEF DrainSelect, TypeOK, Job
  <2> QED
    BY <1>6, <2>1 DEF Pending
<1>8. CASE ResumeForm(r) \/ \E l \in Link, m \in Choice : RouteForm(r, l, m)
  <2>1. /\ job'[r].pc \in {"route", "resume"} /\ job'[r].event = job[r].event
        /\ job'[r].body = job[r].body /\ job'[r].todo = job[r].todo /\ arrived' = arrived
    BY <1>0, <1>8 DEF ResumeForm, RouteForm, Goto, TypeOK, Job
  <2> QED
    BY <1>2, <1>6, <2>1 DEF FreshAt
<1>9. \A e \in Event : ~ReturnVisit(r, e)
  BY DEF OneAfterAnother, ReturnVisit
<1> QED
  BY <1>3, <1>4, <1>5, <1>7, <1>8, <1>9 DEF Start

\* A charge finds no invoice of its own, for its event is not stamped and nobody else had it.
LEMMA InvoiceRoute ==
  ASSUME OneAfterAnother, TypeInv, RouteInv, NEW r \in Runner, Invoice(r)
  PROVE  RouteInv'
<1> DEFINE c == job[r].body.ref
<1> PICK e : e = job[r].event
  OBVIOUS
<1>0. /\ TypeOK /\ job[r] \in Job /\ job[r].pc = "invoice" /\ job[r].body.type = "charge"
      /\ FreshAt(r) /\ processed \subseteq Recorded
      /\ UNCHANGED <<arrived, processed, mode, rules>>
  BY DEF TypeInv, TypeOK, StageFits, Invoice, RouteInv
<1>1. e \in Event /\ e \in Recorded \ processed /\ job[r].body = Payload[e] /\ c # NoRef
  BY <1>0 DEF FreshAt, Recorded, OneAfterAnother
<1>2. c \notin invoices
  <2> SUFFICES ASSUME c \in invoices PROVE FALSE
    OBVIOUS
  <2>1. PICK d \in Event : /\ Payload[d].type = "charge" /\ Payload[d].ref = c
                           /\ d \in processed \/ \E q \in Runner : Past(q, d)
    BY DEF RouteInv, InvoicedFor
  <2>2. d = e
    BY <1>0, <1>1, <2>1 DEF OneAfterAnother
  <2>3. ~Past(r, e)
    BY <1>0 DEF Past
  <2> QED
    BY <1>1, <2>1, <2>2, <2>3 DEF OneAfterAnother
<1>3. invoices' = invoices \cup {c} /\ Goto(r, "upsert")
  BY <1>1, <1>2 DEF Invoice, NewlyPaid
<1>4. job'[r] = [job[r] EXCEPT !.pc = "upsert"]
  BY <1>0, <1>3, GotoStep DEF PC
<1>5. /\ job'[r].pc = "upsert" /\ job'[r].event = e /\ job'[r].body = job[r].body
      /\ job'[r].todo = job[r].todo
  BY <1>0, <1>4 DEF Job
<1>6. \A q \in Runner : q = r
  BY DEF OneAfterAnother
<1>7. (\A q \in Runner : RouteAt(q) /\ FreshAt(q))'
  <2>1. RouteAt(r)'
    BY <1>5 DEF RouteAt
  <2>2. FreshAt(r)'
    BY <1>0, <1>5 DEF FreshAt, Recorded
  <2> QED
    BY <1>6, <2>1, <2>2
<1>8. InvoicedFor'
  <2>1. ASSUME NEW d \in invoices'
        PROVE  \E f \in Event : /\ Payload[f].type = "charge" /\ Payload[f].ref = d
                                /\ f \in processed' \/ \E q \in Runner : Past(q, f)'
    <3>1. CASE d = c
      <4>1. Past(r, e)'
        BY <1>5 DEF Past
      <4> QED
        BY <1>0, <1>1, <3>1, <4>1
    <3>2. CASE d # c
      <4>1. PICK f \in Event : /\ Payload[f].type = "charge" /\ Payload[f].ref = d
                               /\ f \in processed \/ \E q \in Runner : Past(q, f)
        BY <1>3, <2>1, <3>2 DEF RouteInv, InvoicedFor
      <4>2. \A q \in Runner : ~Past(q, f)
        BY <1>0, <1>6 DEF Past
      <4> QED
        BY <1>0, <4>1, <4>2
    <3> QED
      BY <3>1, <3>2
  <2> QED
    BY <2>1 DEF InvoicedFor
<1>9. ModesFit' /\ processed' \subseteq Recorded'
  BY <1>0 DEF RouteInv, ModesFit, Recorded
<1> QED
  BY <1>7, <1>8, <1>9 DEF RouteInv
LEMMA UpsertRoute ==
  ASSUME OneAfterAnother, TypeInv, RouteInv, NEW r \in Runner, Upsert(r)
  PROVE  RouteInv'
<1> DEFINE b == job[r].body
<1>1. /\ UNCHANGED <<arrived, processed, invoices, mode, rules>> /\ job[r].pc = "upsert"
      /\ ModesFit'
  BY DEF Upsert, RouteInv, ModesFit
<1>2. CASE Restores(b) /\ Goto(r, "restore")
  BY <1>1, <1>2, GotoRoute DEF PC
<1>3. CASE Degrades(b, job[r].seen, now) /\ Goto(r, "degrade")
  <2>1. ~Restores(b)
    BY <1>3 DEF Restores, Degrades
  <2> QED
    BY <1>1, <1>3, <2>1, GotoRoute DEF PC
<1>4. CASE ~Restores(b) /\ ~Degrades(b, job[r].seen, now) /\ Applied(r)
  <2>1. Follows(b, mode', rules')
    BY <1>4 DEF Follows, Degrades, StillActive
  <2> QED
    BY <1>1, <1>4, <2>1, AppliedRoute
<1> QED
  BY <1>2, <1>3, <1>4 DEF Upsert

LEMMA DegradeRoute ==
  ASSUME OneAfterAnother, TypeInv, RouteInv, NEW r \in Runner, Degrade(r)
  PROVE  RouteInv'
<1>1. /\ UNCHANGED <<arrived, processed, invoices, rules>> /\ job[r].pc = "degrade"
      /\ mode' = [l \in Link |-> "single"] /\ Applied(r)
  BY DEF Degrade
<1>2. \A l \in Link : mode'[l] = "single"
  BY <1>1
<1>3. ~Restores(job[r].body)
  BY <1>1 DEF RouteInv, RouteAt
<1>4. ModesFit' /\ Follows(job[r].body, mode', rules')
  BY <1>2, <1>3 DEF ModesFit, Follows
<1> QED
  BY <1>1, <1>4, AppliedRoute

LEMMA RestoreRoute ==
  ASSUME OneAfterAnother, TypeInv, RouteInv, NEW r \in Runner, RestoreSelect(r)
  PROVE  RouteInv'
<1> DEFINE found == {<<l, Strongest(rules[l])>> : l \in {k \in Link : Suspended(k)}}
<1>1. /\ UNCHANGED <<arrived, processed, invoices, mode, rules>> /\ job[r].pc = "restore"
      /\ ModesFit /\ ModesFit' /\ Restores(job[r].body) /\ TypeOK /\ job[r] \in Job
  BY DEF RestoreSelect, RouteInv, RouteAt, ModesFit, TypeInv, TypeOK
<1>2. CASE found = {} /\ Applied(r)
  <2>1. ASSUME NEW l \in Link, rules[l] # {} PROVE mode[l] = Strongest(rules[l])
    <3>1. ~Suspended(l)
      BY <1>2
    <3> QED
      BY <1>1, <2>1, <3>1 DEF Suspended, ModesFit
  <2>2. Follows(job[r].body, mode', rules')
    BY <1>1, <2>1 DEF Follows, Restores
  <2> QED
    BY <1>1, <1>2, <2>2, AppliedRoute
<1>3. CASE job' = [job EXCEPT ![r].pc = "relink", ![r].relink = found]
  <2> HIDE DEF found
  <2>1. /\ job'[r].pc = "relink" /\ job'[r].relink = found /\ job'[r].event = job[r].event
        /\ job'[r].body = job[r].body /\ job'[r].todo = job[r].todo
    BY <1>1, <1>3 DEF TypeOK, Job
  <2>2. \A p \in found : p[2] = Strongest(rules[p[1]])
    BY DEF found
  <2>3. \A l \in Link : rules[l] # {} =>
          mode[l] = Strongest(rules[l]) \/ <<l, Strongest(rules[l])>> \in found
    BY <1>1 DEF found, Suspended, ModesFit
  <2>4. RouteAt(r)'
    BY <1>1, <2>1, <2>2, <2>3 DEF RouteAt
  <2> QED
    BY <1>1, <2>1, <2>4, SameRoute
<1> QED
  BY <1>2, <1>3 DEF RestoreSelect

LEMMA RelinkRoute ==
  ASSUME OneAfterAnother, TypeInv, RouteInv, NEW r \in Runner, Relink(r)
  PROVE  RouteInv'
<1>1. /\ UNCHANGED <<arrived, processed, invoices, rules>> /\ job[r].pc = "relink"
      /\ ModesFit /\ Restores(job[r].body) /\ TypeOK /\ job[r] \in Job /\ RouteAt(r)
      /\ job[r].relink \subseteq Link \X Mode /\ mode \in [Link -> Mode]
  BY DEF Relink, RouteInv, RouteAt, TypeInv, TypeOK, Job
<1>2. PICK p \in job[r].relink :
        /\ mode' = [mode EXCEPT ![p[1]] = p[2]]
        /\ IF job[r].relink = {p} THEN Applied(r)
           ELSE job' = [job EXCEPT ![r].relink = @ \ {p}]
  BY DEF Relink
<1>3. p[1] \in Link /\ p = <<p[1], p[2]>> /\ p[2] = Strongest(rules[p[1]])
  BY <1>1, <1>2 DEF RouteAt
<1>4. mode'[p[1]] = p[2] /\ \A l \in Link : l # p[1] => mode'[l] = mode[l]
  BY <1>1, <1>2, <1>3
<1>5. ModesFit'
  BY <1>1, <1>3, <1>4 DEF ModesFit
<1>6. \A l \in Link : rules[l] # {} =>
        mode'[l] = Strongest(rules[l]) \/ <<l, Strongest(rules[l])>> \in job[r].relink \ {p}
  <2>1. ASSUME NEW l \in Link, l # p[1] PROVE <<l, Strongest(rules[l])>> # p
    BY <1>3, <2>1
  <2> QED
    BY <1>1, <1>3, <1>4, <2>1 DEF RouteAt
<1>7. CASE job[r].relink = {p}
  <2>1. Follows(job[r].body, mode', rules')
    BY <1>1, <1>6, <1>7 DEF Follows, Restores
  <2> QED
    BY <1>1, <1>2, <1>5, <1>7, <2>1, AppliedRoute
<1>8. CASE job[r].relink # {p}
  <2>1. /\ job'[r].pc = "relink" /\ job'[r].relink = job[r].relink \ {p}
        /\ job'[r].event = job[r].event /\ job'[r].body = job[r].body
        /\ job'[r].todo = job[r].todo
    BY <1>1, <1>2, <1>8 DEF TypeOK, Job
  <2>2. RouteAt(r)'
    BY <1>1, <1>6, <2>1 DEF RouteAt
  <2> QED
    BY <1>1, <1>5, <2>1, <2>2, SameRoute
<1> QED
  BY <1>7, <1>8

\* The owner's form leaves a mode and the rows it asks for.
LEMMA CommitRoute ==
  ASSUME OneAfterAnother, TypeInv, RouteInv, NEW r \in Runner, RouteCommit(r)
  PROVE  RouteInv'
<1>1. /\ UNCHANGED <<arrived, processed, invoices>> /\ job[r].event = NoEvent /\ Leave(r)
      /\ ModesFit /\ job[r].relink \subseteq Link \X Mode
      /\ mode \in [Link -> Mode] /\ rules \in [Link -> SUBSET PaidMode]
  BY DEF RouteCommit, RouteInv, TypeInv, TypeOK, StageFits, Job
<1>2. PICK p \in job[r].relink : /\ mode' = [mode EXCEPT ![p[1]] = p[2]]
                                 /\ rules' = [rules EXCEPT ![p[1]] = {p[2]} \ {"single"}]
  BY DEF RouteCommit
<1>3. p[1] \in Link /\ p[2] \in Mode
  BY <1>1, <1>2
<1>4. /\ mode'[p[1]] = p[2] /\ rules'[p[1]] = {p[2]} \ {"single"}
      /\ \A l \in Link : l # p[1] => mode'[l] = mode[l] /\ rules'[l] = rules[l]
  BY <1>1, <1>2, <1>3
<1>5. rules'[p[1]] # {} => mode'[p[1]] = Strongest(rules'[p[1]])
  BY <1>3, <1>4 DEF Mode, PaidMode, Strongest
<1>6. ModesFit'
  BY <1>1, <1>4, <1>5 DEF ModesFit
<1> QED
  BY <1>1, <1>6, LeaveRoute

LEMMA RunnerRoute ==
  ASSUME OneAfterAnother, TypeInv, RouteInv, NEW r \in Runner,
         Start(r) \/ Apply(r) \/ Finish(r) \/ Fail(r)
  PROVE  RouteInv'
<1>0. /\ TypeOK /\ job[r] \in Job /\ RouteAt(r) /\ FreshAt(r)
      /\ UNCHANGED <<mode, rules>> => ModesFit'
  BY DEF TypeInv, TypeOK, RouteInv, ModesFit
<1>1. CASE Read(r)
  <2>1. /\ job'[r].body = job[r].body /\ job'[r].event = job[r].event /\ job'[r].todo = job[r].todo
        /\ job'[r].pc \in {"invoice", "upsert"} /\ job[r].pc = "read"
        /\ UNCHANGED <<arrived, processed, invoices, mode, rules>>
    BY <1>0, <1>1 DEF Read, AfterRead, TypeOK, Job
  <2>2. RouteAt(r)'
    BY <2>1 DEF RouteAt
  <2> QED
    BY <1>0, <2>1, <2>2, SameRoute
<1>2. CASE Receipt(r)
  <2>1. Goto(r, "stamp") /\ UNCHANGED <<arrived, processed, invoices, mode, rules>>
    BY <1>2 DEF Receipt
  <2>2. Follows(job[r].body, mode', rules')
    BY <1>0, <1>2, <2>1 DEF Receipt, RouteAt
  <2> QED
    BY <1>0, <1>2, <2>1, <2>2, GotoRoute DEF PC
<1>3. CASE Stamp(r)
  <2>1. /\ job[r].event \in Event /\ processed' = processed \cup {job[r].event} /\ Leave(r)
        /\ UNCHANGED <<arrived, invoices, mode, rules>>
    BY <1>3 DEF Stamp, TypeInv, StageFits
  <2> QED
    BY <1>0, <2>1, LeaveRoute
<1>4. CASE Reject(r)
  <2>1. Leave(r) /\ UNCHANGED <<arrived, processed, invoices, mode, rules>>
    BY <1>4 DEF Reject
  <2>2. job[r].body.type # "charge" \/ job[r].pc \in {"read", "invoice"}
    BY <1>4 DEF Reject, AfterRead
  <2> QED
    BY <1>0, <2>1, <2>2, LeaveRoute
<1>5. CASE ResumeCommit(r)
  <2>1. /\ job[r].event = NoEvent /\ Leave(r)
        /\ UNCHANGED <<arrived, processed, invoices, mode, rules>>
    BY <1>5 DEF ResumeCommit, TypeInv, StageFits
  <2> QED
    BY <1>0, <2>1, LeaveRoute
<1>6. ~Fail(r)
  <2>1. fails \in Nat
    BY <1>0 DEF TypeOK
  <2> QED
    BY <2>1 DEF OneAfterAnother, Fail
<1> QED
  BY <1>1, <1>2, <1>3, <1>4, <1>5, <1>6, StartRoute, InvoiceRoute, UpsertRoute, DegradeRoute,
     RestoreRoute, RelinkRoute, CommitRoute DEF Apply, Finish

LEMMA RouteInit == Init => RouteInv
<1> SUFFICES ASSUME Init PROVE RouteInv
  OBVIOUS
<1>1. ModesFit
  <2>1. rules = [l \in Link |-> {mode[l]} \ {"single"}] /\ \A l \in Link : mode[l] \in Mode
    BY BillingAssumption DEF Init, Mode
  <2> QED
    BY <2>1 DEF ModesFit, Mode, PaidMode, Strongest
<1>2. ASSUME NEW r \in Runner PROVE RouteAt(r) /\ FreshAt(r)
  <2>1. /\ job[r].pc = "idle" /\ job[r].event = NoEvent /\ job[r].body.type = "ignored"
        /\ job[r].todo = {}
    BY DEF Init, Idle, NoBody
  <2> QED
    BY <2>1 DEF RouteAt, FreshAt
<1>3. processed = {} /\ invoices = {}
  BY DEF Init
<1> QED
  BY <1>1, <1>2, <1>3 DEF RouteInv, InvoicedFor

\* Failed payment, recovery and cancellation in any order leave each routed link in the
\* mode the last event implies (subscription.ts:272), whatever number of links and
\* events there are, batches and forms in between included: with handlers that run one
\* after another and do not fail, and a reference of its own for each charge.
THEOREM RoutingIsFollowed ==
  ASSUME OneAfterAnother
  PROVE  Spec => RoutingFollowsEvent
<1>1. TypeInv /\ RouteInv /\ [Next]_vars => RouteInv'
  <2> SUFFICES ASSUME TypeInv, RouteInv, [Next]_vars PROVE RouteInv'
    OBVIOUS
  <2>1. CASE UNCHANGED vars \/ Tick
    BY <2>1 DEF vars, Tick, RouteInv, ModesFit, InvoicedFor, RouteAt, FreshAt, Past, Recorded
  <2> QED
    BY <2>1, RunnerRoute DEF Next
<1>2. RouteInv /\ [Next]_vars =>
        [\A r \in Runner : Stamp(r) =>
           LET b == job[r].body IN
           /\ b.type = "past_due" \/ (b.type = "cancel" /\ ~b.atEnd)
              => \A l \in Link : mode[l] = "single"
           /\ Restores(b) => \A l \in Link : rules[l] # {} => mode[l] = Strongest(rules[l])]_vars
  BY DEF RouteInv, RouteAt, Follows, Stamp
<1> QED
  BY <1>1, <1>2, RouteInit, TypeInit, TypeStep, PTL DEF Spec, RoutingFollowsEvent
=============================================================================
