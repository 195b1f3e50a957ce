--------------------------- MODULE WebhookProofs ---------------------------
(***************************************************************************)
(* Proofs about WebhookDelivery, for any workers, endpoints and deliveries:*)
(* type correctness, that a delivery is given up only after MaxAttempts    *)
(* requests, and how often one that was accepted may be repeated.          *)
(***************************************************************************)
EXTENDS WebhookDelivery, FiniteSetTheorems, TLAPS

-----------------------------------------------------------------------------
(***************************************************************************)
(* The first inductive invariant: a count of attempts, in a row or in what *)
(* a pass has read of it, has that many requests behind it.                *)
(***************************************************************************)
\* r, read by a pass, lags behind what was sent for its row; n requests were
\* made since.
Behind(r, n) ==
  /\ r.id <= sent /\ r.to = rows[r.id].to
  /\ r.attempts < MaxAttempts
  /\ r.attempts + n <= accepted[r.id] + refused[r.id]

SeenBehind ==
  \A w \in Worker : /\ \A r \in job[w].todo : Behind(r, 0)
                    /\ \A r \in job[w].on : Behind(r, 1)

RowsBehind ==
  \A d \in Delivery : /\ rows[d].attempts <= accepted[d] + refused[d]
                      /\ d > sent => rows[d].attempts = 0

\* What is planned may be tried again; what is neither planned nor delivered
\* may not.
PlannedGoesOn ==
  \A d \in Delivery : Planned(d) /\ ~rows[d].delivered => rows[d].attempts < MaxAttempts
GivenUpIsExhausted ==
  \A d \in Delivery :
    Alive(d) /\ ~Planned(d) /\ ~rows[d].delivered => rows[d].attempts >= MaxAttempts

CountInv == TypeOK /\ SeenBehind /\ RowsBehind /\ PlannedGoesOn /\ GivenUpIsExhausted

-----------------------------------------------------------------------------
(***************************************************************************)
(* The second: which workers can still post a delivery, or have and are    *)
(* about to mark it delivered.                                             *)
(***************************************************************************)
Busy == {w \in Worker : job[w].pc # "idle"}
Holding(d) == {w \in Worker : \E r \in job[w].todo : r.id = d}
Marking(d) == {w \in Worker : job[w].pc = "success" /\ \E r \in job[w].on : r.id = d}

\* No pass selects d any more.
Closed(d) == rows[d].delivered \/ (d <= sent /\ ~hook[rows[d].to].exists)

\* A batch has each row once, and one at hand; an idle worker has none.
Once(j) ==
  /\ \A r, q \in j.todo : r.id = q.id => r = q
  /\ \A r, q \in j.on : r = q
  /\ \A r \in j.todo, q \in j.on : r.id # q.id
  /\ j.pc = "idle" => j.todo = {}
  /\ j.pc \in {"idle", "select", "post"} => j.on = {}
BatchOnce == \A w \in Worker : Once(job[w])

\* Until a pass has outlived the lock, the lock is held by the one that runs.
OneAtATime ==
  overruns = 0 => /\ Busy # {} => lock
                  /\ \A v, w \in Busy : v = w

PlannedExists == \A d \in Delivery : Planned(d) => hook[rows[d].to].exists

Passes == IF overruns = 0 THEN 1 ELSE Cardinality(Worker)
Repeats(d) ==
  /\ Closed(d) => accepted[d] + Cardinality(Holding(d)) <= Passes + errors
  /\ ~Closed(d) => accepted[d] <= errors + Cardinality(Marking(d))

RepeatInv ==
  CountInv /\ BatchOnce /\ OneAtATime /\ PlannedExists /\ \A d \in Delivery : Repeats(d)

-----------------------------------------------------------------------------
(* Lemmas about the line of due rows. *)

LEMMA LineFinite == IsFiniteSet(Delivery) /\ \A S \in SUBSET Delivery : IsFiniteSet(S) /\ Cardinality(S) \in Nat
<1>1. IsFiniteSet(Delivery)
  BY FS_Interval, WebhookAssumption DEF Delivery
<1> QED
  BY <1>1, FS_Subset, FS_CardinalityType

\* Those who stay, stay; the others leave.
LEMMA StayKeeps ==
  ASSUME turn \in [Delivery -> Nat], NEW S, Stay(S)
  PROVE  turn' \in [Delivery -> Nat] /\ InLine' = S \cap InLine
<1> DEFINE Before(d) == {c \in S \cap InLine : turn[c] <= turn[d]}
<1>1. S \cap InLine \subseteq Delivery
  BY DEF InLine
<1>2. ASSUME NEW d \in Delivery
      PROVE  Cardinality(Before(d)) \in Nat
  <2>1. Before(d) \in SUBSET Delivery
    BY <1>1
  <2> QED
    BY <2>1, LineFinite
<1>3. ASSUME NEW d \in S \cap InLine
      PROVE  Cardinality(Before(d)) > 0
  <2>1. d \in Before(d) /\ Before(d) \in SUBSET Delivery
    BY <1>1
  <2>2. IsFiniteSet(Before(d)) /\ Before(d) # {} /\ Cardinality(Before(d)) \in Nat
    BY <2>1, LineFinite
  <2>3. Cardinality(Before(d)) # 0
    BY <2>2, FS_EmptySet
  <2> QED
    BY <2>2, <2>3
<1>4. turn' = [d \in Delivery |-> IF d \in S \cap InLine THEN Cardinality(Before(d)) ELSE 0]
  BY DEF Stay
<1> HIDE DEF Before
<1> QED
  BY <1>1, <1>2, <1>3, <1>4 DEF InLine

LEMMA JoinAdds ==
  ASSUME turn \in [Delivery -> Nat], NEW d \in Delivery, Join(d)
  PROVE  turn' \in [Delivery -> Nat] /\ InLine' = InLine \cup {d}
<1>1. Cardinality(InLine) \in Nat
  BY LineFinite DEF InLine
<1> QED
  BY <1>1 DEF Join, InLine

\* The type invariant's words about the line.
LEMMA LineType ==
  TypeOK => /\ InLine \subseteq 1..sent /\ InLine \cap later = {}
            /\ 1..sent \subseteq Delivery
  BY WebhookAssumption DEF TypeOK, InLine, Delivery

-----------------------------------------------------------------------------
(* The first invariant holds. *)

LEMMA CountInit == Init => CountInv
<1> SUFFICES ASSUME Init PROVE CountInv
  OBVIOUS
<1>1. MaxAttempts \in Nat \ {0} /\ MaxDelivery \in Nat /\ MaxForm \in Nat /\ MaxTrouble \in Nat
  BY WebhookAssumption
<1>2. ASSUME NEW d \in Delivery
      PROVE  /\ rows[d] \in Row /\ rows[d].attempts = 0 /\ turn[d] = 0
             /\ accepted[d] = 0 /\ refused[d] = 0
  <2>1. rows[d] \in [to : Endpoint, attempts : {0}, delivered : {FALSE}]
    BY DEF Init
  <2>2. 0 \in 0..MaxAttempts
    BY <1>1
  <2> QED
    BY <2>1, <2>2 DEF Init, Row
<1>3. rows \in [Delivery -> Row]
  BY <1>2 DEF Init
<1>4. job \in [Worker -> Job]
  BY DEF Init, Job, Idle, PC
<1>5. hook \in [Endpoint -> Hook]
  <2>1. NewHook \in Hook /\ [NewHook EXCEPT !.exists = FALSE] \in Hook
    BY DEF NewHook, Hook
  <2> QED
    BY <2>1 DEF Init
<1>6. TypeOK
  <2>1. sent \in 0..MaxDelivery /\ forms \in 0..MaxForm /\ errors \in 0..MaxTrouble /\ overruns \in 0..MaxTrouble
    BY <1>1 DEF Init
  <2>2. /\ turn \in [Delivery -> Nat] /\ later \subseteq 1..sent
        /\ lock \in BOOLEAN
        /\ accepted \in [Delivery -> Nat] /\ refused \in [Delivery -> Nat]
    BY DEF Init
  <2> QED
    BY <1>2, <1>3, <1>4, <1>5, <2>1, <2>2 DEF TypeOK
<1>7. RowsBehind /\ PlannedGoesOn
  BY <1>1, <1>2 DEF RowsBehind, PlannedGoesOn
<1>8. SeenBehind /\ GivenUpIsExhausted
  BY DEF Init, SeenBehind, GivenUpIsExhausted, Idle, Alive, Delivery
<1> QED
  BY <1>6, <1>7, <1>8 DEF CountInv

\* A step leaves rows, line and endpoints alone, and the jobs fit.
LEMMA JobsOnly ==
  ASSUME CountInv, TypeOK', SeenBehind', UNCHANGED <<sent, rows, plan>>,
         \A d \in Delivery : accepted'[d] + refused'[d] >= accepted[d] + refused[d],
         \A e \in Endpoint : hook'[e].exists => hook[e].exists
  PROVE  CountInv'
<1>1. \A d \in Delivery : rows[d].to \in Endpoint /\ rows[d].attempts \in Nat /\ Planned(d)' = Planned(d)
  BY DEF CountInv, TypeOK, Row, Planned, InLine, plan
<1>2. \A d \in Delivery : /\ accepted[d] \in Nat /\ refused[d] \in Nat
                           /\ accepted'[d] \in Nat /\ refused'[d] \in Nat
  BY DEF CountInv, TypeOK
<1>3. RowsBehind'
  BY <1>1, <1>2 DEF CountInv, RowsBehind
<1>4. PlannedGoesOn' /\ GivenUpIsExhausted'
  BY <1>1 DEF CountInv, PlannedGoesOn, GivenUpIsExhausted, Alive
<1> QED
  BY <1>3, <1>4 DEF CountInv

\* A step that gives worker w the job j, whose rows are behind.
LEMMA JobBehind ==
  ASSUME CountInv, NEW w \in Worker, NEW j, job' = [job EXCEPT ![w] = j],
         sent' >= sent, sent' \in Nat,
         \A d \in Delivery : /\ rows'[d].to = rows[d].to
                             /\ accepted'[d] \in Nat /\ refused'[d] \in Nat
                             /\ accepted'[d] + refused'[d] >= accepted[d] + refused[d],
         \A r \in j.todo : Behind(r, 0)', \A r \in j.on : Behind(r, 1)'
  PROVE  SeenBehind'
<1> SUFFICES ASSUME NEW v \in Worker
             PROVE  /\ \A r \in job'[v].todo : Behind(r, 0)'
                    /\ \A r \in job'[v].on : Behind(r, 1)'
  BY DEF SeenBehind
<1>1. CASE v = w
  BY <1>1 DEF CountInv, TypeOK
<1>2. CASE v # w
  <2>1. job'[v] = job[v] /\ job[v] \in Job
    BY <1>2 DEF CountInv, TypeOK
  <2>2. sent \in Nat /\ \A d \in Delivery : accepted[d] \in Nat /\ refused[d] \in Nat
    BY WebhookAssumption DEF CountInv, TypeOK
  <2>3. ASSUME NEW r \in Seen, NEW n \in {0, 1}, Behind(r, n)
        PROVE  Behind(r, n)'
    <3>1. r.id \in Delivery /\ r.attempts \in Nat
      BY DEF Seen
    <3>2. /\ rows'[r.id].to = rows[r.id].to
          /\ accepted[r.id] \in Nat /\ refused[r.id] \in Nat
          /\ accepted'[r.id] \in Nat /\ refused'[r.id] \in Nat
          /\ accepted'[r.id] + refused'[r.id] >= accepted[r.id] + refused[r.id]
      BY <2>2, <3>1
    <3>3. r.id <= sent /\ r.id \in Nat
      BY <2>3, <3>1 DEF Behind, Delivery
    <3>4. r.attempts + n <= accepted[r.id] + refused[r.id]
      BY <2>3 DEF Behind
    <3>5. r.id <= sent'
      BY <2>2, <3>3
    <3>6. r.attempts + n <= accepted'[r.id] + refused'[r.id]
      BY <3>1, <3>2, <3>4
    <3> QED
      BY <2>3, <3>2, <3>5, <3>6 DEF Behind
  <2>4. \A r \in job[v].todo : r \in Seen /\ Behind(r, 0)
    BY <2>1 DEF CountInv, SeenBehind, Job
  <2>5. \A r \in job[v].on : r \in Seen /\ Behind(r, 1)
    BY <2>1 DEF CountInv, SeenBehind, Job
  <2> QED
    BY <2>1, <2>3, <2>4, <2>5
<1> QED
  BY <1>1, <1>2

LEMMA CountEnqueue == CountInv /\ Enqueue => CountInv'
<1> SUFFICES ASSUME CountInv, Enqueue PROVE CountInv'
  OBVIOUS
<1> DEFINE n == sent + 1
<1>1. /\ TypeOK /\ sent \in Nat /\ n \in Delivery /\ n \in 1..MaxDelivery /\ sent' = n
      /\ Join(n) /\ UNCHANGED <<hook, rows, later, lock, job, bounds, history>>
  BY WebhookAssumption, SMTT(30) DEF CountInv, TypeOK, Enqueue, Delivery
<1>2. turn' \in [Delivery -> Nat] /\ InLine' = InLine \cup {n}
  BY <1>1, JoinAdds DEF TypeOK
<1>3. InLine \subseteq 1..sent /\ InLine \cap later = {} /\ later \subseteq 1..sent
  BY <1>1, LineType DEF TypeOK
<1>4. \A d \in Delivery : turn'[d] > 0 => d <= sent' /\ d \notin later'
  BY <1>1, <1>2, <1>3 DEF InLine
<1>5. TypeOK'
  BY <1>1, <1>2, <1>3, <1>4 DEF TypeOK, bounds, history
<1>6. SeenBehind' /\ RowsBehind'
  <2>1. ASSUME NEW w \in Worker, NEW k \in {0, 1}, NEW r \in Seen, Behind(r, k)
        PROVE  Behind(r, k)'
    BY <1>1, <2>1 DEF Behind, Seen, Delivery, history
  <2>2. job \in [Worker -> Job]
    BY <1>1 DEF TypeOK
  <2>3. SeenBehind'
    BY <1>1, <2>1, <2>2 DEF CountInv, SeenBehind, Job
  <2>4. RowsBehind'
    BY <1>1 DEF CountInv, RowsBehind, Delivery, history
  <2> QED
    BY <2>3, <2>4
<1>7. \A d \in Delivery : Planned(d)' <=> Planned(d) \/ d = n
  BY <1>1, <1>2 DEF Planned
<1>8. rows[n].attempts = 0 /\ MaxAttempts > 0
  BY <1>1, WebhookAssumption DEF CountInv, RowsBehind
<1>9. PlannedGoesOn'
  BY <1>1, <1>7, <1>8 DEF CountInv, PlannedGoesOn
<1>10. GivenUpIsExhausted'
  BY <1>1, <1>7 DEF CountInv, GivenUpIsExhausted, Alive, Delivery
<1> QED
  BY <1>5, <1>6, <1>9, <1>10 DEF CountInv

LEMMA CountBackoffEnds == ASSUME NEW d \in Delivery, CountInv, BackoffEnds(d) PROVE CountInv'
<1>1. /\ TypeOK /\ d \in later /\ later' = later \ {d} /\ Join(d)
      /\ UNCHANGED <<hook, sent, rows, lock, job, bounds, history>>
  BY DEF CountInv, BackoffEnds
<1>2. turn' \in [Delivery -> Nat] /\ InLine' = InLine \cup {d}
  BY <1>1, JoinAdds DEF TypeOK
<1>3. InLine \subseteq 1..sent /\ InLine \cap later = {} /\ later \subseteq 1..sent
  BY <1>1, LineType DEF TypeOK
<1>4. \A c \in Delivery : turn'[c] > 0 => c <= sent' /\ c \notin later'
  BY <1>1, <1>2, <1>3 DEF InLine
<1>5. TypeOK'
  BY <1>1, <1>2, <1>3, <1>4 DEF TypeOK, bounds, history
<1>6. SeenBehind' /\ RowsBehind'
  BY <1>1 DEF CountInv, SeenBehind, Behind, RowsBehind, history
<1>7. \A c \in Delivery : Planned(c)' <=> Planned(c)
  BY <1>1, <1>2 DEF Planned
<1>8. PlannedGoesOn' /\ GivenUpIsExhausted'
  BY <1>1, <1>7 DEF CountInv, PlannedGoesOn, GivenUpIsExhausted, Alive
<1> QED
  BY <1>5, <1>6, <1>8 DEF CountInv

LEMMA CountCreate == ASSUME NEW e \in Endpoint, CountInv, Create(e) PROVE CountInv'
<1>1. /\ TypeOK /\ forms < MaxForm /\ forms' = forms + 1 /\ RowsOf(e) = {}
      /\ hook' = [hook EXCEPT ![e] = NewHook]
      /\ UNCHANGED <<sent, rows, plan, lock, job, errors, overruns, history>>
  BY DEF CountInv, Create
<1>2. hook' \in [Endpoint -> Hook] /\ \A x \in Endpoint \ {e} : hook'[x] = hook[x]
  BY <1>1 DEF TypeOK, Hook, NewHook
<1>3. forms' \in 0..MaxForm
  BY <1>1, WebhookAssumption DEF TypeOK
<1>4. TypeOK'
  BY <1>1, <1>2, <1>3 DEF TypeOK, plan, history
<1>5. SeenBehind' /\ RowsBehind'
  BY <1>1 DEF CountInv, SeenBehind, Behind, RowsBehind, history
<1>6. \A d \in Delivery : Alive(d)' <=> Alive(d)
  <2> SUFFICES ASSUME NEW d \in Delivery, d <= sent
               PROVE  hook'[rows[d].to] = hook[rows[d].to]
    BY <1>1 DEF Alive
  <2>1. rows[d].to # e
    BY <1>1 DEF RowsOf, Delivery, TypeOK
  <2>2. rows[d].to \in Endpoint
    BY <1>1 DEF TypeOK, Row
  <2> QED
    BY <1>2, <2>1, <2>2
<1>7. PlannedGoesOn' /\ GivenUpIsExhausted'
  BY <1>1, <1>6 DEF CountInv, PlannedGoesOn, GivenUpIsExhausted, Planned, InLine, plan, history
<1> QED
  BY <1>4, <1>5, <1>7 DEF CountInv

LEMMA CountToggle == ASSUME NEW e \in Endpoint, CountInv, Toggle(e) PROVE CountInv'
<1>1. PICK on \in BOOLEAN :
        /\ TypeOK /\ forms < MaxForm /\ forms' = forms + 1
        /\ hook' = [hook EXCEPT ![e].active = on, ![e].count = IF on THEN 0 ELSE @]
        /\ UNCHANGED <<sent, rows, plan, lock, job, errors, overruns, history>>
  BY DEF CountInv, Toggle
<1>2. hook[e] \in Hook
  BY <1>1 DEF TypeOK
<1> DEFINE h == [hook[e] EXCEPT !.active = on, !.count = IF on THEN 0 ELSE @]
<1>3. hook' \in [Endpoint -> Hook] /\ \A x \in Endpoint : hook'[x].exists = hook[x].exists
  <2>1. hook' = [hook EXCEPT ![e] = h]
    BY <1>1
  <2>2. h.exists = hook[e].exists /\ h \in Hook
    BY <1>2 DEF Hook
  <2> HIDE DEF h
  <2> QED
    BY <1>1, <1>2, <2>1, <2>2 DEF TypeOK
<1>4. forms' \in 0..MaxForm
  BY <1>1, WebhookAssumption DEF TypeOK
<1>5. TypeOK'
  BY <1>1, <1>3, <1>4 DEF TypeOK, plan, history
<1>6. SeenBehind'
  BY <1>1 DEF CountInv, SeenBehind, Behind, history
<1> QED
  BY <1>1, <1>3, <1>5, <1>6, JobsOnly DEF history, TypeOK

LEMMA CountDelete == ASSUME NEW e \in Endpoint, CountInv, Delete(e) PROVE CountInv'
<1>1. /\ TypeOK /\ forms < MaxForm /\ forms' = forms + 1
      /\ hook' = [hook EXCEPT ![e].exists = FALSE]
      /\ Stay(Delivery \ RowsOf(e)) /\ later' = later \ RowsOf(e)
      /\ UNCHANGED <<sent, rows, lock, job, errors, overruns, history>>
  BY DEF CountInv, Delete
<1>2. turn' \in [Delivery -> Nat] /\ InLine' = (Delivery \ RowsOf(e)) \cap InLine
  BY <1>1, StayKeeps DEF TypeOK
<1>3. InLine \subseteq 1..sent /\ InLine \cap later = {} /\ later \subseteq 1..sent /\ InLine \subseteq Delivery
  BY <1>1, LineType DEF TypeOK, InLine
<1>4. \A c \in Delivery : turn'[c] > 0 => c <= sent' /\ c \notin later'
  BY <1>1, <1>2, <1>3 DEF InLine
<1>5. hook' \in [Endpoint -> Hook] /\ ~hook'[e].exists
      /\ \A x \in Endpoint : hook'[x].exists => hook[x].exists
  BY <1>1 DEF TypeOK, Hook
<1>6. forms' \in 0..MaxForm
  BY <1>1, WebhookAssumption DEF TypeOK
<1>7. TypeOK'
  BY <1>1, <1>2, <1>3, <1>4, <1>5, <1>6 DEF TypeOK, history
<1>8. SeenBehind' /\ RowsBehind'
  BY <1>1 DEF CountInv, SeenBehind, Behind, RowsBehind, history
<1>9. \A c \in Delivery : Planned(c)' <=> Planned(c) /\ c \notin RowsOf(e)
  BY <1>1, <1>2, <1>3 DEF Planned
<1>10. PlannedGoesOn'
  BY <1>1, <1>9 DEF CountInv, PlannedGoesOn
<1>11. \A c \in Delivery : Alive(c)' => Alive(c) /\ c \notin RowsOf(e)
  BY <1>1, <1>5 DEF TypeOK, Row, Alive, RowsOf
<1>12. GivenUpIsExhausted'
  BY <1>1, <1>9, <1>11 DEF CountInv, GivenUpIsExhausted
<1> QED
  BY <1>7, <1>8, <1>10, <1>12 DEF CountInv

\* What a pass has selected: rows that may be tried, as they are.
LEMMA SelectedBehind ==
  ASSUME CountInv
  PROVE  LET T == {[id |-> d, to |-> rows[d].to, turn |-> turn[d], attempts |-> rows[d].attempts,
                    count |-> hook[rows[d].to].count] : d \in Picked}
         IN  T \subseteq Seen /\ \A r \in T : Behind(r, 0)
<1> SUFFICES ASSUME NEW d \in Picked
             PROVE  LET r == [id |-> d, to |-> rows[d].to, turn |-> turn[d],
                              attempts |-> rows[d].attempts, count |-> hook[rows[d].to].count]
                    IN  r \in Seen /\ Behind(r, 0)
  OBVIOUS
<1>1. d \in Delivery /\ d \in InLine /\ ~rows[d].delivered
  BY DEF Picked, Wanted, InLine
<1>2. rows[d] \in Row /\ hook[rows[d].to] \in Hook /\ turn[d] \in Nat /\ d <= sent
  BY <1>1 DEF CountInv, TypeOK, Row, InLine
<1>3. rows[d].attempts < MaxAttempts /\ rows[d].attempts <= accepted[d] + refused[d]
  BY <1>1 DEF CountInv, PlannedGoesOn, Planned, RowsBehind
<1>4. accepted[d] \in Nat /\ refused[d] \in Nat /\ rows[d].attempts \in Nat
  BY <1>1, <1>2 DEF CountInv, TypeOK, Row
<1> QED
  BY <1>1, <1>2, <1>3, <1>4 DEF Seen, Row, Hook, Behind

\* The steps of a pass that change a job at most, and lock and bounds.
LEMMA CountJobStep ==
  ASSUME CountInv, NEW w \in Worker, NEW j \in Job, job' = [job EXCEPT ![w] = j],
         \A r \in j.todo : Behind(r, 0), \A r \in j.on : Behind(r, 1),
         lock' \in BOOLEAN, errors' \in 0..MaxTrouble,
         UNCHANGED <<hook, sent, rows, plan, forms, overruns, history>>
  PROVE  CountInv'
<1>1. TypeOK'
  BY DEF CountInv, TypeOK, plan, history
<1>2. sent \in Nat /\ \A d \in Delivery : accepted[d] \in Nat /\ refused[d] \in Nat
  BY WebhookAssumption DEF CountInv, TypeOK
<1>3. \A r \in j.todo : Behind(r, 0)'
  BY DEF Behind, history
<1>4. \A r \in j.on : Behind(r, 1)'
  BY DEF Behind, history
<1>5. sent' = sent /\ rows' = rows /\ accepted' = accepted /\ refused' = refused
  BY DEF history
<1>6. \A d \in Delivery : /\ rows'[d].to = rows[d].to
                          /\ accepted'[d] \in Nat /\ refused'[d] \in Nat
                          /\ accepted'[d] + refused'[d] >= accepted[d] + refused[d]
  BY <1>2, <1>5
<1>7. sent' >= sent /\ sent' \in Nat
  BY <1>2, <1>5
<1>8. SeenBehind'
  BY <1>3, <1>4, <1>6, <1>7, JobBehind
<1> QED
  BY <1>1, <1>6, <1>8, JobsOnly

\* The job at hand: its type and rows.
LEMMA JobAt ==
  ASSUME CountInv, NEW w \in Worker
  PROVE  /\ job[w] \in Job
         /\ \A r \in job[w].todo : r \in Seen /\ Behind(r, 0)
         /\ \A r \in job[w].on : r \in Seen /\ Behind(r, 1)
  BY DEF CountInv, TypeOK, SeenBehind, Job

LEMMA CountLock == ASSUME NEW w \in Worker, CountInv, Lock(w) \/ Unlock(w) PROVE CountInv'
<1>1. CASE Lock(w)
  <2> DEFINE j == [job[w] EXCEPT !.pc = "select"]
  <2>1. job' = [job EXCEPT ![w] = j] /\ lock' \in BOOLEAN /\ UNCHANGED <<hook, sent, rows, plan, bounds, history>>
    BY <1>1 DEF Lock, Goto
  <2>2. j \in Job /\ j.todo = job[w].todo /\ j.on = job[w].on
    BY JobAt DEF Job, PC
  <2> HIDE DEF j
  <2> QED
    BY <2>1, <2>2, JobAt, CountJobStep DEF bounds, CountInv, TypeOK
<1>2. CASE Unlock(w)
  <2>1. Idle \in Job /\ Idle.todo = {} /\ Idle.on = {}
    BY DEF Idle, Job, PC
  <2> QED
    BY <1>2, <2>1, CountJobStep DEF Unlock, bounds, CountInv, TypeOK
<1> QED
  BY <1>1, <1>2

LEMMA CountSelect == ASSUME NEW w \in Worker, CountInv, Select(w) PROVE CountInv'
<1> DEFINE T == {[id |-> d, to |-> rows[d].to, turn |-> turn[d], attempts |-> rows[d].attempts,
                  count |-> hook[rows[d].to].count] : d \in Picked}
           j == [job[w] EXCEPT !.todo = T, !.pc = IF Picked = {} THEN "unlock" ELSE "post"]
<1>1. job' = [job EXCEPT ![w] = j] /\ UNCHANGED <<hook, sent, rows, plan, lock, bounds, history>>
  BY DEF Select
<1>2. T \subseteq Seen /\ \A r \in T : Behind(r, 0)
  BY SelectedBehind
<1> HIDE DEF T
<1>3. j \in Job /\ j.todo = T /\ j.on = job[w].on
  BY <1>2, JobAt DEF Job, PC
<1> HIDE DEF j
<1> QED
  BY <1>1, <1>2, <1>3, JobAt, CountJobStep DEF bounds, CountInv, TypeOK

LEMMA CountTrouble == ASSUME NEW w \in Worker, CountInv, DbError(w) \/ Crash(w) PROVE CountInv'
<1>1. /\ errors + overruns < MaxTrouble /\ errors' = errors + 1
      /\ UNCHANGED <<hook, sent, rows, plan, lock, forms, overruns, history>>
  BY DEF DbError, Crash
<1>2. errors' \in 0..MaxTrouble /\ lock' \in BOOLEAN
  BY <1>1, WebhookAssumption DEF CountInv, TypeOK
<1>3. ASSUME NEW j \in Job, j.todo = {} \/ j.todo = job[w].todo, j.on = {} \/ j.on = job[w].on,
             job' = [job EXCEPT ![w] = j]
      PROVE  CountInv'
  BY <1>1, <1>2, <1>3, JobAt, CountJobStep
<1>4. \/ job' = [job EXCEPT ![w] = [job[w] EXCEPT !.pc = "failure", !.caught = TRUE]]
      \/ job' = [job EXCEPT ![w] = [Idle EXCEPT !.pc = "unlock"]]
      \/ job' = [job EXCEPT ![w] = Idle]
  BY DEF DbError, Crash
<1>5. /\ [job[w] EXCEPT !.pc = "failure", !.caught = TRUE] \in Job
      /\ [Idle EXCEPT !.pc = "unlock"] \in Job /\ Idle \in Job
  BY JobAt DEF Job, PC, Idle
<1>6. /\ [job[w] EXCEPT !.pc = "failure", !.caught = TRUE].todo = job[w].todo
      /\ [job[w] EXCEPT !.pc = "failure", !.caught = TRUE].on = job[w].on
      /\ [Idle EXCEPT !.pc = "unlock"].todo = {} /\ [Idle EXCEPT !.pc = "unlock"].on = {}
      /\ Idle.todo = {} /\ Idle.on = {}
  BY JobAt DEF Job, PC, Idle
<1> QED
  BY <1>3, <1>4, <1>5, <1>6

LEMMA CountLockExpires == CountInv /\ LockExpires => CountInv'
<1> SUFFICES ASSUME CountInv, LockExpires PROVE CountInv'
  OBVIOUS
<1>1. overruns' \in 0..MaxTrouble
  BY WebhookAssumption DEF CountInv, TypeOK, LockExpires
<1>2. TypeOK'
  BY <1>1 DEF CountInv, TypeOK, LockExpires, plan, history
<1>3. SeenBehind'
  BY DEF CountInv, SeenBehind, Behind, LockExpires, history
<1> QED
  BY <1>2, <1>3, JobsOnly DEF CountInv, TypeOK, LockExpires, history

\* A request makes the row at hand one request further behind.
LEMMA CountPost == ASSUME NEW w \in Worker, CountInv, Post(w) PROVE CountInv'
<1>1. PICK r \in job[w].todo, pc \in {"success", "failure"} :
        /\ job' = [job EXCEPT ![w] = At(pc, r, job[w])]
        /\ \/ accepted' = [accepted EXCEPT ![r.id] = @ + 1] /\ UNCHANGED refused
           \/ refused' = [refused EXCEPT ![r.id] = @ + 1] /\ UNCHANGED accepted
        /\ UNCHANGED <<hook, sent, rows, plan, lock, bounds>>
  BY DEF Post
<1>2. r \in Seen /\ Behind(r, 0) /\ r.id \in Delivery /\ r.attempts \in Nat
  BY JobAt DEF Seen
<1> DEFINE j == At(pc, r, job[w])
           q == [r EXCEPT !.turn = 0]
<1>3. q \in Seen /\ q.id = r.id /\ q.to = r.to /\ q.attempts = r.attempts
  BY <1>2 DEF Seen
<1>4. j \in Job /\ j.todo \subseteq job[w].todo /\ j.on = {q}
  BY <1>3, JobAt DEF At, Job, PC
<1> HIDE DEF j, q
<1>5. sent \in Nat /\ \A d \in Delivery : accepted[d] \in Nat /\ refused[d] \in Nat
  BY WebhookAssumption DEF CountInv, TypeOK
<1>6. \A d \in Delivery : /\ accepted'[d] \in Nat /\ refused'[d] \in Nat
                          /\ accepted'[d] + refused'[d] >= accepted[d] + refused[d]
  BY <1>1, <1>2, <1>5 DEF CountInv, TypeOK
<1>7. accepted'[r.id] + refused'[r.id] = accepted[r.id] + refused[r.id] + 1
  BY <1>1, <1>2, <1>5 DEF CountInv, TypeOK
<1>8. TypeOK'
  BY <1>1, <1>2, <1>4 DEF CountInv, TypeOK, plan, bounds, j
<1>9. Behind(q, 1)'
  <2>1. q.attempts + 1 <= accepted'[q.id] + refused'[q.id]
    BY <1>2, <1>3, <1>5, <1>7 DEF Behind
  <2> QED
    BY <1>1, <1>2, <1>3, <2>1 DEF Behind
<1>10. \A x \in j.todo : Behind(x, 0)'
  <2>1. ASSUME NEW x \in job[w].todo
        PROVE  Behind(x, 0)'
    <3>1. x \in Seen /\ Behind(x, 0) /\ x.id \in Delivery /\ x.attempts \in Nat
      BY JobAt DEF Seen
    <3>2. x.attempts + 0 <= accepted'[x.id] + refused'[x.id]
      BY <1>5, <1>6, <3>1 DEF Behind
    <3> QED
      BY <1>1, <3>1, <3>2 DEF Behind
  <2> QED
    BY <1>4, <2>1
<1>11. \A d \in Delivery : /\ rows'[d].to = rows[d].to
                           /\ accepted'[d] \in Nat /\ refused'[d] \in Nat
                           /\ accepted'[d] + refused'[d] >= accepted[d] + refused[d]
  BY <1>1, <1>6
<1>12. sent' >= sent /\ sent' \in Nat /\ job' = [job EXCEPT ![w] = j] /\ \A x \in j.on : Behind(x, 1)'
  BY <1>1, <1>4, <1>5, <1>9 DEF j
<1>13. SeenBehind'
  BY <1>10, <1>11, <1>12, JobBehind
<1> QED
  BY <1>1, <1>6, <1>8, <1>13, JobsOnly

\* The next row, after the endpoint's.
LEMMA GoOnType ==
  ASSUME CountInv, NEW w \in Worker, GoOn(w)
  PROVE  \E j \in Job : /\ job' = [job EXCEPT ![w] = j]
                         /\ j.todo = job[w].todo /\ j.on = {} /\ j.pc \in {"unlock", "post"}
<1> DEFINE j == [Idle EXCEPT !.pc = IF job[w].todo = {} THEN "unlock" ELSE "post", !.todo = job[w].todo]
<1>1. j \in Job /\ j.todo = job[w].todo /\ j.on = {} /\ j.pc \in {"unlock", "post"}
  BY JobAt DEF Idle, Job, PC
<1> QED
  BY <1>1 DEF GoOn

LEMMA CountEndpoint == ASSUME NEW w \in Worker, CountInv, ResetCount(w) \/ MarkFailing(w) PROVE CountInv'
<1>1. GoOn(w) /\ UNCHANGED <<sent, rows, plan, lock, bounds, history>>
  BY DEF ResetCount, MarkFailing
<1>2. PICK j \in Job : /\ job' = [job EXCEPT ![w] = j]
                       /\ j.todo = job[w].todo /\ j.on = {}
  BY <1>1, GoOnType
<1>3. hook' \in [Endpoint -> Hook] /\ \A x \in Endpoint : hook'[x].exists = hook[x].exists
  <2>1. hook \in [Endpoint -> Hook]
    BY DEF CountInv, TypeOK
  <2>2. PICK r \in job[w].on, h \in Hook : hook' = [hook EXCEPT ![r.to] = h] /\ h.exists = hook[r.to].exists
    <3>1. CASE ResetCount(w)
      <4>1. PICK r \in job[w].on : hook' = [hook EXCEPT ![r.to].count = 0]
        BY <3>1 DEF ResetCount
      <4>2. r.to \in Endpoint
        BY JobAt DEF Seen
      <4>3. [hook[r.to] EXCEPT !.count = 0] \in Hook /\ [hook[r.to] EXCEPT !.count = 0].exists = hook[r.to].exists
        BY <2>1, <4>2 DEF Hook
      <4> QED
        BY <4>1, <4>3
    <3>2. CASE MarkFailing(w)
      <4>1. PICK r \in job[w].on :
              hook' = [hook EXCEPT ![r.to].count = r.count + 1,
                                   ![r.to].active = @ /\ r.count + 1 < MaxAttempts]
        BY <3>2 DEF MarkFailing
      <4> DEFINE h == [hook[r.to] EXCEPT !.count = r.count + 1, !.active = @ /\ r.count + 1 < MaxAttempts]
      <4>2. r.to \in Endpoint /\ r.count + 1 \in Nat
        BY JobAt DEF Seen
      <4>3. h \in Hook /\ h.exists = hook[r.to].exists
        BY <2>1, <4>2 DEF Hook
      <4>4. hook' = [hook EXCEPT ![r.to] = h]
        BY <4>1
      <4> HIDE DEF h
      <4> QED
        BY <4>3, <4>4
    <3> QED
      BY <3>1, <3>2
  <2> QED
    BY <2>1, <2>2
<1>4. TypeOK'
  BY <1>1, <1>2, <1>3 DEF CountInv, TypeOK, plan, bounds, history
<1>5. \A d \in Delivery : accepted[d] \in Nat /\ refused[d] \in Nat
  BY DEF CountInv, TypeOK
<1>6. SeenBehind'
  <2>1. sent' = sent /\ rows' = rows /\ accepted' = accepted /\ refused' = refused /\ sent \in Nat
    BY <1>1, WebhookAssumption DEF history, CountInv, TypeOK
  <2>2. \A d \in Delivery : /\ rows'[d].to = rows[d].to
                            /\ accepted'[d] \in Nat /\ refused'[d] \in Nat
                            /\ accepted'[d] + refused'[d] >= accepted[d] + refused[d]
    BY <1>5, <2>1
  <2>3. \A r \in j.todo : Behind(r, 0)'
    BY <1>2, <2>1, JobAt DEF Behind
  <2>4. sent' >= sent /\ sent' \in Nat /\ \A r \in j.on : Behind(r, 1)'
    BY <1>2, <2>1
  <2> QED
    BY <1>2, <2>2, <2>3, <2>4, JobBehind
<1> QED
  BY <1>1, <1>3, <1>4, <1>5, <1>6, JobsOnly DEF history

\* A step that gives row d of an endpoint that exists its n-th attempt.
LEMMA CountRow ==
  ASSUME CountInv, NEW w \in Worker, NEW d \in Delivery, d <= sent,
         NEW n \in 1..MaxAttempts, n <= accepted[d] + refused[d],
         NEW pc \in {"reset", "health"}, Goto(w, pc),
         UNCHANGED <<hook, sent, lock, bounds, history>>,
         \/ /\ rows' = [rows EXCEPT ![d].attempts = n, ![d].delivered = TRUE]
            /\ Unplan(d)
         \/ /\ rows' = [rows EXCEPT ![d].attempts = n]
            /\ IF n >= MaxAttempts THEN Unplan(d) ELSE Postpone(d)
  PROVE  CountInv'
<1>1. Stay(Delivery \ {d}) /\ (later' = later \ {d} \/ later' = later \cup {d})
  BY DEF Unplan, Postpone
<1>2. /\ TypeOK /\ rows \in [Delivery -> Row] /\ rows[d] \in Row /\ MaxAttempts \in Nat \ {0}
      /\ sent \in Nat /\ \A c \in Delivery : accepted[c] \in Nat /\ refused[c] \in Nat
  BY WebhookAssumption DEF CountInv, TypeOK
<1>3. turn' \in [Delivery -> Nat] /\ InLine' = InLine \ {d}
  <2>1. turn' \in [Delivery -> Nat] /\ InLine' = (Delivery \ {d}) \cap InLine
    BY <1>1, <1>2, StayKeeps DEF TypeOK
  <2> QED
    BY <2>1 DEF InLine
<1>4. InLine \subseteq 1..sent /\ InLine \cap later = {} /\ later \subseteq 1..sent /\ d \in 1..sent
  BY <1>2, LineType DEF TypeOK, Delivery
<1>5. \A c \in Delivery : turn'[c] > 0 => c <= sent' /\ c \notin later'
  BY <1>1, <1>3, <1>4 DEF InLine
<1>6. /\ rows' \in [Delivery -> Row] /\ \A c \in Delivery : rows'[c].to = rows[c].to
      /\ rows'[d].attempts = n /\ \A c \in Delivery \ {d} : rows'[c] = rows[c]
  <2> DEFINE a == [rows[d] EXCEPT !.attempts = n, !.delivered = TRUE]
             b == [rows[d] EXCEPT !.attempts = n]
  <2>1. a \in Row /\ b \in Row /\ a.to = rows[d].to /\ b.to = rows[d].to /\ a.attempts = n /\ b.attempts = n
    <3>1. n \in 0..MaxAttempts
      BY <1>2
    <3> QED
      BY <1>2, <3>1 DEF Row
  <2>2. rows' = [rows EXCEPT ![d] = a] \/ rows' = [rows EXCEPT ![d] = b]
    OBVIOUS
  <2> HIDE DEF a, b
  <2> QED
    BY <1>2, <2>1, <2>2
<1>7. later' \subseteq 1..sent'
  BY <1>1, <1>4
<1>8. \E j \in Job : /\ job' = [job EXCEPT ![w] = j]
                     /\ j.todo = job[w].todo /\ j.on = job[w].on
  <2>1. [job[w] EXCEPT !.pc = pc] \in Job
    BY JobAt DEF Job, PC
  <2> QED
    BY <2>1, JobAt DEF Goto, Job
<1>9. TypeOK'
  BY <1>2, <1>3, <1>5, <1>6, <1>7, <1>8 DEF TypeOK, bounds, history
<1>10. SeenBehind'
  <2>1. PICK j \in Job : /\ job' = [job EXCEPT ![w] = j]
                        /\ j.todo = job[w].todo /\ j.on = job[w].on
    BY <1>8
  <2>2. sent' = sent /\ accepted' = accepted /\ refused' = refused
    BY DEF history
  <2>3. \A c \in Delivery : /\ rows'[c].to = rows[c].to
                            /\ accepted'[c] \in Nat /\ refused'[c] \in Nat
                            /\ accepted'[c] + refused'[c] >= accepted[c] + refused[c]
    BY <1>2, <1>6, <2>2
  <2>4. ASSUME NEW k \in {0, 1}, NEW r \in Seen, Behind(r, k)
        PROVE  Behind(r, k)'
    BY <1>6, <2>2, <2>4 DEF Behind, Seen
  <2>5. sent' >= sent /\ sent' \in Nat
    BY <1>2, <2>2
  <2>6. (\A r \in j.todo : Behind(r, 0)') /\ (\A r \in j.on : Behind(r, 1)')
    BY <2>1, <2>4, JobAt
  <2> QED
    BY <2>1, <2>3, <2>5, <2>6, JobBehind
<1>11. RowsBehind'
  <2>1. d <= sent' /\ accepted' = accepted /\ refused' = refused /\ sent' = sent
    BY DEF history
  <2>2. ~(d > sent')
    BY <1>2, <2>1 DEF Delivery
  <2> QED
    BY <1>6, <2>1, <2>2 DEF CountInv, RowsBehind
<1>12. \A c \in Delivery \ {d} : Planned(c)' <=> Planned(c)
  BY <1>1, <1>3 DEF Planned
<1>13. Planned(d)' /\ ~rows'[d].delivered => n < MaxAttempts
  <2>1. CASE rows' = [rows EXCEPT ![d].attempts = n, ![d].delivered = TRUE]
    BY <1>2, <2>1 DEF Row
  <2>2. CASE ~Planned(d)'
    BY <2>2
  <2>3. CASE Postpone(d) /\ n < MaxAttempts
    BY <2>3
  <2>4. Unplan(d) => ~Planned(d)'
    BY <1>3 DEF Unplan, Planned
  <2> QED
    BY <1>2, <2>1, <2>2, <2>3, <2>4
<1>14. ~Planned(d)' /\ ~rows'[d].delivered => n >= MaxAttempts
  <2>1. CASE rows' = [rows EXCEPT ![d].attempts = n, ![d].delivered = TRUE]
    BY <1>2, <2>1 DEF Row
  <2>2. Postpone(d) => Planned(d)'
    BY DEF Postpone, Planned
  <2> QED
    BY <2>1, <2>2
<1>15. PlannedGoesOn'
  BY <1>6, <1>12, <1>13 DEF CountInv, PlannedGoesOn
<1>16. GivenUpIsExhausted'
  <2>1. \A c \in Delivery : Alive(c)' <=> Alive(c)
    BY <1>6 DEF Alive
  <2> QED
    BY <1>6, <1>12, <1>14, <2>1 DEF CountInv, GivenUpIsExhausted
<1> QED
  BY <1>9, <1>10, <1>11, <1>15, <1>16 DEF CountInv

LEMMA CountDelivery == ASSUME NEW w \in Worker, CountInv, MarkDelivered(w) \/ MarkRetry(w) PROVE CountInv'
<1>1. /\ \/ Goto(w, "reset") \/ Goto(w, "health")
      /\ UNCHANGED <<hook, sent, lock, bounds, history>>
  BY DEF MarkDelivered, MarkRetry
<1>2. PICK r \in job[w].on :
        IF Kept(r)
        THEN \/ /\ rows' = [rows EXCEPT ![r.id].attempts = r.attempts + 1, ![r.id].delivered = TRUE]
                /\ Unplan(r.id)
             \/ /\ rows' = [rows EXCEPT ![r.id].attempts = r.attempts + 1]
                /\ IF Exhausted(r) THEN Unplan(r.id) ELSE Postpone(r.id)
        ELSE UNCHANGED <<rows, plan>>
  BY DEF MarkDelivered, MarkRetry
<1>3. r \in Seen /\ Behind(r, 1) /\ r.id \in Delivery /\ r.id <= sent /\ r.attempts + 1 \in 1..MaxAttempts
      /\ r.attempts + 1 <= accepted[r.id] + refused[r.id]
  BY JobAt, WebhookAssumption DEF Seen, Behind
<1>4. CASE Kept(r)
  <2>1. \/ /\ rows' = [rows EXCEPT ![r.id].attempts = r.attempts + 1, ![r.id].delivered = TRUE]
           /\ Unplan(r.id)
        \/ /\ rows' = [rows EXCEPT ![r.id].attempts = r.attempts + 1]
           /\ IF r.attempts + 1 >= MaxAttempts THEN Unplan(r.id) ELSE Postpone(r.id)
    BY <1>2, <1>4 DEF Exhausted
  <2> QED
    BY <1>1, <1>3, <2>1, CountRow
<1>5. CASE ~Kept(r)
  <2> DEFINE j(pc) == [job[w] EXCEPT !.pc = pc]
  <2>1. PICK pc \in {"reset", "health"} : job' = [job EXCEPT ![w] = j(pc)]
    BY <1>1 DEF Goto
  <2>2. j(pc) \in Job /\ j(pc).todo = job[w].todo /\ j(pc).on = job[w].on
    BY JobAt DEF Job, PC
  <2> HIDE DEF j
  <2>3. lock' \in BOOLEAN /\ errors' \in 0..MaxTrouble /\ UNCHANGED <<hook, sent, rows, plan, forms, overruns, history>>
    BY <1>1, <1>2, <1>5 DEF CountInv, TypeOK, bounds
  <2> QED
    BY <2>1, <2>2, <2>3, JobAt, CountJobStep
<1> QED
  BY <1>4, <1>5

LEMMA CountStep == CountInv /\ [Next]_vars => CountInv'
<1> SUFFICES ASSUME CountInv, [Next]_vars PROVE CountInv'
  OBVIOUS
<1>1. CASE Enqueue \/ LockExpires
  BY <1>1, CountEnqueue, CountLockExpires
<1>2. CASE \E e \in Endpoint : Create(e) \/ Toggle(e) \/ Delete(e)
  BY <1>2, CountCreate, CountToggle, CountDelete
<1>3. CASE \E d \in Delivery : BackoffEnds(d)
  BY <1>3, CountBackoffEnds
<1>4. ASSUME NEW w \in Worker, Pass(w)
      PROVE  CountInv'
  BY <1>4, CountLock, CountSelect, CountPost, CountEndpoint, CountDelivery DEF Pass
<1>5. CASE \E w \in Worker : DbError(w) \/ Crash(w)
  BY <1>5, CountTrouble
<1>6. CASE UNCHANGED vars
  BY <1>6 DEF CountInv, TypeOK, SeenBehind, Behind, RowsBehind, PlannedGoesOn, GivenUpIsExhausted,
              Planned, Alive, InLine, vars, plan, bounds, history
<1> QED
  BY <1>1, <1>2, <1>3, <1>4, <1>5, <1>6 DEF Next

LEMMA CountAlways == Spec => []CountInv
  BY CountInit, CountStep, PTL DEF Spec

\* Variables have their types; in particular attempts never passes MaxAttempts,
\* though overlapping passes write it from what they have read.
THEOREM WebhookTypes == Spec => []TypeOK
<1>1. CountInv => TypeOK
  BY DEF CountInv
<1> QED
  BY CountAlways, <1>1, PTL

\* runWebhookDeliver and markFailure give no delivery up before MaxAttempts
\* requests were made for it.
THEOREM GivenUpLate == Spec => []GivenUpAfterAttempts
<1>1. CountInv => GivenUpAfterAttempts
  <2> SUFFICES ASSUME CountInv, NEW d \in Delivery, Alive(d) /\ ~Planned(d) /\ ~rows[d].delivered
               PROVE  accepted[d] + refused[d] >= MaxAttempts
    BY DEF GivenUpAfterAttempts
  <2>1. rows[d].attempts >= MaxAttempts /\ rows[d].attempts <= accepted[d] + refused[d]
    BY DEF CountInv, GivenUpIsExhausted, RowsBehind
  <2>2. /\ rows[d].attempts \in Nat /\ MaxAttempts \in Nat
        /\ accepted[d] \in Nat /\ refused[d] \in Nat
    BY WebhookAssumption DEF CountInv, TypeOK, Row
  <2> QED
    BY <2>1, <2>2
<1> QED
  BY CountAlways, <1>1, PTL

-----------------------------------------------------------------------------
(* The second invariant holds.  What a step does to the workers: *)

LEMMA RepeatInit == Init => RepeatInv
<1> SUFFICES ASSUME Init PROVE RepeatInv
  OBVIOUS
<1>1. TypeOK /\ CountInv
  BY CountInit DEF CountInv
<1>2. \A w \in Worker : job[w] = Idle /\ Idle.pc = "idle" /\ Idle.todo = {} /\ Idle.on = {}
  BY DEF Init, Idle
<1>3. BatchOnce /\ OneAtATime /\ PlannedExists
  BY <1>2 DEF Init, BatchOnce, Once, OneAtATime, Busy, PlannedExists, Planned, InLine
<1>4. ASSUME NEW d \in Delivery
      PROVE  Repeats(d)
  <2>1. Holding(d) = {} /\ Marking(d) = {}
    BY <1>2 DEF Holding, Marking
  <2>2. accepted[d] = 0 /\ errors = 0 /\ Passes = 1
    BY DEF Init, Passes
  <2> QED
    BY <2>1, <2>2, FS_EmptySet DEF Repeats
<1> QED
  BY <1>1, <1>3, <1>4 DEF RepeatInv

\* No more workers hold or mark a delivery than there are passes at a time.
LEMMA Rooms ==
  ASSUME RepeatInv, NEW d \in Delivery
  PROVE  /\ IsFiniteSet(Holding(d)) /\ IsFiniteSet(Marking(d))
         /\ Cardinality(Holding(d)) \in Nat /\ Cardinality(Marking(d)) \in Nat /\ Passes \in Nat
         /\ Cardinality(Holding(d)) + Cardinality(Marking(d)) <= Passes
<1> DEFINE U == Holding(d) \cup Marking(d)
<1>1. IsFiniteSet(Worker) /\ Cardinality(Worker) \in Nat
  BY WebhookAssumption, FS_CardinalityType
<1>2. Holding(d) \subseteq Worker /\ Marking(d) \subseteq Worker /\ U \subseteq Worker
  BY DEF Holding, Marking
<1>3. IsFiniteSet(Holding(d)) /\ IsFiniteSet(Marking(d)) /\ IsFiniteSet(U)
  BY <1>1, <1>2, FS_Subset
<1>4. /\ Cardinality(Holding(d)) \in Nat /\ Cardinality(Marking(d)) \in Nat
      /\ Cardinality(U) \in Nat /\ Passes \in Nat
  BY <1>1, <1>3, FS_CardinalityType DEF Passes
<1>5. Holding(d) \cap Marking(d) = {}
  BY DEF RepeatInv, BatchOnce, Once, Holding, Marking
<1>6. Cardinality(U) = Cardinality(Holding(d)) + Cardinality(Marking(d))
  <2>1. Cardinality(Holding(d) \cap Marking(d)) = 0
    BY <1>5, FS_EmptySet
  <2>2. Cardinality(U) = Cardinality(Holding(d)) + Cardinality(Marking(d)) - Cardinality(Holding(d) \cap Marking(d))
    BY <1>3, FS_Union
  <2> QED
    BY <1>4, <2>1, <2>2
<1>7. Cardinality(U) <= Passes
  <2>1. CASE overruns # 0
    BY <1>1, <1>2, <2>1, FS_Subset DEF Passes
  <2>2. CASE overruns = 0
    <3>1. U \subseteq Busy
      BY DEF RepeatInv, BatchOnce, Once, Busy, Holding, Marking
    <3>2. \A v, w \in U : v = w
      BY <2>2, <3>1 DEF RepeatInv, OneAtATime
    <3>3. CASE U = {}
      BY <2>2, <3>3, FS_EmptySet DEF Passes
    <3>4. CASE U # {}
      <4>1. \E w : U = {w}
        BY <3>2, <3>4
      <4>2. Cardinality(U) = 1
        BY <4>1, <1>3, FS_Singleton
      <4> QED
        BY <2>2, <4>2 DEF Passes
    <3> QED
      BY <3>3, <3>4
  <2> QED
    BY <2>1, <2>2
<1> QED
  BY <1>3, <1>4, <1>6, <1>7

\* What job j for worker w does to those sets.
LEMMA WorkerSets ==
  ASSUME TypeOK, NEW w \in Worker, NEW j \in Job, job' = [job EXCEPT ![w] = j], NEW d \in Delivery
  PROVE  /\ Marking(d) \ {w} \subseteq Marking(d)'
         /\ Holding(d)' \subseteq Holding(d) \cup {w}
         /\ w \notin Marking(d) => Marking(d) \subseteq Marking(d)'
         /\ w \in Holding(d)' <=> \E r \in j.todo : r.id = d
         /\ w \in Marking(d)' <=> j.pc = "success" /\ \E r \in j.on : r.id = d
<1>1. job'[w] = j /\ \A v \in Worker \ {w} : job'[v] = job[v]
  BY DEF TypeOK
<1> QED
  BY <1>1 DEF Marking, Holding

LEMMA PassesGrow ==
  ASSUME TypeOK, TypeOK', overruns' = overruns \/ (Running /\ overruns' = overruns + 1)
  PROVE  Passes \in Nat /\ Passes' \in Nat /\ Passes' >= Passes
<1>1. Cardinality(Worker) \in Nat
  BY WebhookAssumption, FS_CardinalityType
<1>2. Running => Cardinality(Worker) >= 1
  <2>1. Running => Cardinality(Worker) # 0
    BY WebhookAssumption, FS_EmptySet DEF Running
  <2> QED
    BY <1>1, <2>1
<1>3. overruns \in Nat
  BY WebhookAssumption DEF TypeOK
<1> QED
  BY <1>1, <1>2, <1>3 DEF Passes

\* A step on which d is not accepted: it stays closed and is held by no more
\* workers; or it stays open and marked by as many, or one mark is lost to an
\* error; or it is closed now.
LEMMA RepeatsKept ==
  ASSUME RepeatInv, TypeOK', NEW d \in Delivery, accepted'[d] = accepted[d],
         Passes' >= Passes, Passes' \in Nat, errors' >= errors,
         \/ Closed(d)' /\ Holding(d)' \subseteq Holding(d)
         \/ /\ ~Closed(d) /\ ~Closed(d)'
            /\ \/ Marking(d) \subseteq Marking(d)'
               \/ errors' = errors + 1 /\ \E w : Marking(d) \ {w} \subseteq Marking(d)',
         IsFiniteSet(Marking(d)')
  PROVE  Repeats(d)'
<1>1. /\ IsFiniteSet(Holding(d)) /\ IsFiniteSet(Marking(d))
      /\ Cardinality(Holding(d)) \in Nat /\ Cardinality(Marking(d)) \in Nat /\ Passes \in Nat
      /\ Cardinality(Holding(d)) + Cardinality(Marking(d)) <= Passes
  BY Rooms
<1>2. accepted[d] \in Nat /\ errors \in Nat /\ errors' \in Nat
  BY WebhookAssumption DEF RepeatInv, CountInv, TypeOK
<1>3. Cardinality(Marking(d)') \in Nat
  BY FS_CardinalityType
<1>4. CASE Closed(d)' /\ Holding(d)' \subseteq Holding(d)
  <2>1. Cardinality(Holding(d)') \in Nat /\ Cardinality(Holding(d)') <= Cardinality(Holding(d))
    BY <1>1, <1>4, FS_Subset, FS_CardinalityType
  <2>2. accepted[d] + Cardinality(Holding(d)) <= Passes + errors
    BY <1>1, <1>2 DEF RepeatInv, Repeats
  <2> QED
    BY <1>1, <1>2, <1>4, <2>1, <2>2 DEF Repeats
<1>5. CASE ~Closed(d) /\ ~Closed(d)' /\ Marking(d) \subseteq Marking(d)'
  <2>1. Cardinality(Marking(d)) <= Cardinality(Marking(d)')
    BY <1>5, FS_Subset
  <2>2. accepted[d] <= errors + Cardinality(Marking(d))
    BY <1>5 DEF RepeatInv, Repeats
  <2> QED
    BY <1>1, <1>2, <1>3, <1>5, <2>1, <2>2 DEF Repeats
<1>6. ASSUME ~Closed(d), ~Closed(d)', errors' = errors + 1, NEW w, Marking(d) \ {w} \subseteq Marking(d)'
      PROVE  Repeats(d)'
  <2>1. IsFiniteSet(Marking(d) \ {w}) /\ Cardinality(Marking(d) \ {w}) \in Nat
    BY <1>1, FS_RemoveElement, FS_CardinalityType
  <2>2. Cardinality(Marking(d) \ {w}) >= Cardinality(Marking(d)) - 1
    <3>1. Cardinality(Marking(d) \ {w}) = IF w \in Marking(d) THEN Cardinality(Marking(d)) - 1
                                                             ELSE Cardinality(Marking(d))
      BY <1>1, FS_RemoveElement
    <3> QED
      BY <1>1, <2>1, <3>1
  <2>3. Cardinality(Marking(d) \ {w}) <= Cardinality(Marking(d)')
    BY <1>6, FS_Subset
  <2>4. accepted[d] <= errors + Cardinality(Marking(d))
    BY <1>6 DEF RepeatInv, Repeats
  <2> QED
    BY <1>1, <1>2, <1>3, <1>6, <2>1, <2>2, <2>3, <2>4 DEF Repeats
<1> QED
  BY <1>4, <1>5, <1>6

\* A step of worker w that sends and delivers nothing and deletes no endpoint.
LEMMA QuietStep ==
  ASSUME RepeatInv, TypeOK', NEW w \in Worker, NEW j \in Job, job' = [job EXCEPT ![w] = j],
         NEW d \in Delivery, accepted'[d] = accepted[d], overruns' = overruns,
         Closed(d)' = Closed(d),
         \A r \in j.todo : (\E q \in job[w].todo : q.id = r.id) \/ (r.id = d => ~Closed(d)),
         \/ errors' = errors + 1
         \/ errors' = errors /\ w \notin Marking(d)
         \/ errors' = errors /\ Closed(d)
  PROVE  Repeats(d)'
<1>1. TypeOK /\ Passes' = Passes /\ Passes \in Nat /\ errors \in Nat
  BY Rooms, WebhookAssumption DEF RepeatInv, CountInv, TypeOK, Passes
<1>2. Closed(d) => Holding(d)' \subseteq Holding(d)
  BY <1>1, WorkerSets DEF Holding
<1>3. /\ Marking(d) \ {w} \subseteq Marking(d)'
      /\ w \notin Marking(d) => Marking(d) \subseteq Marking(d)'
  BY <1>1, WorkerSets
<1>4. IsFiniteSet(Marking(d)')
  BY WebhookAssumption, FS_Subset DEF Marking
<1> QED
  BY <1>1, <1>2, <1>3, <1>4, RepeatsKept

\* A step of none of the workers.
LEMMA OthersStep ==
  ASSUME RepeatInv, CountInv', UNCHANGED <<job, accepted, errors>>,
         Enqueue \/ (\E e \in Endpoint : Create(e) \/ Toggle(e) \/ Delete(e)) \/ (\E d \in Delivery : BackoffEnds(d)) \/ LockExpires
  PROVE  \A d \in Delivery : Repeats(d)'
<1> SUFFICES ASSUME NEW d \in Delivery PROVE Repeats(d)'
  OBVIOUS
<1>1. TypeOK /\ TypeOK' /\ errors \in Nat
  BY WebhookAssumption DEF RepeatInv, CountInv, TypeOK
<1>2. overruns' = overruns \/ (Running /\ overruns' = overruns + 1)
  BY DEF Enqueue, Create, Toggle, Delete, BackoffEnds, LockExpires, bounds
<1>3. Passes' >= Passes /\ Passes' \in Nat
  BY <1>1, <1>2, PassesGrow
<1>4. Holding(d)' = Holding(d) /\ Marking(d)' = Marking(d)
  BY DEF Holding, Marking
<1>5. Closed(d) => Closed(d)'
  <2>1. rows' = rows /\ rows[d].to \in Endpoint
    BY <1>1 DEF Enqueue, Create, Toggle, Delete, BackoffEnds, LockExpires, TypeOK, Row
  <2>4. sent' \in Nat /\ sent \in Nat /\ d \in Nat /\ (sent' = sent \/ sent' = sent + 1)
    <3>1. sent' \in Nat /\ sent \in Nat /\ d \in Nat
      BY <1>1, WebhookAssumption DEF TypeOK, Delivery
    <3> QED
      BY <3>1 DEF Enqueue, Create, Toggle, Delete, BackoffEnds, LockExpires
  <2>3. ASSUME NEW e \in Endpoint, Create(e) \/ Toggle(e) \/ Delete(e), d <= sent
        PROVE  hook'[rows[d].to].exists => hook[rows[d].to].exists
    <3>1. hook \in [Endpoint -> Hook]
      BY <1>1 DEF TypeOK
    <3>2. CASE Delete(e)
      BY <2>1, <3>1, <3>2 DEF Delete, Hook
    <3>3. CASE Toggle(e)
      BY <2>1, <3>1, <3>3 DEF Toggle, Hook
    <3>4. CASE Create(e)
      <4>1. rows[d].to # e
        BY <1>1, <2>3, <2>4, <3>4 DEF Create, RowsOf, Delivery
      <4> QED
        BY <2>1, <3>1, <3>4, <4>1 DEF Create
    <3> QED
      BY <2>3, <3>2, <3>3, <3>4
  <2>5. CASE hook' = hook
    <3>1. Closed(d) => rows'[d].delivered \/ (d <= sent' /\ ~hook'[rows'[d].to].exists)
      BY <2>1, <2>4, <2>5 DEF Closed
    <3> QED
      BY <3>1 DEF Closed
  <2>6. CASE \E e \in Endpoint : Create(e) \/ Toggle(e) \/ Delete(e)
    BY <2>1, <2>3, <2>4, <2>6 DEF Closed
  <2> QED
    BY <2>5, <2>6 DEF Enqueue, BackoffEnds, LockExpires
<1>6. IsFiniteSet(Marking(d)')
  BY WebhookAssumption, FS_Subset DEF Marking
<1> QED
  BY <1>1, <1>3, <1>4, <1>5, <1>6, RepeatsKept

\* The accepted request moves w from those who hold d to those who mark it.
LEMMA RepeatPost ==
  ASSUME RepeatInv, CountInv', NEW w \in Worker, Post(w)
  PROVE  /\ Once(job'[w]) /\ \A d \in Delivery : Repeats(d)'
<1>1. PICK r \in job[w].todo, pc \in {"success", "failure"} :
        /\ job' = [job EXCEPT ![w] = At(pc, r, job[w])]
        /\ \/ pc = "success" /\ accepted' = [accepted EXCEPT ![r.id] = @ + 1]
           \/ pc = "failure" /\ UNCHANGED accepted
        /\ UNCHANGED <<hook, sent, rows, plan, lock, bounds>>
  BY DEF Post
<1>2. TypeOK /\ TypeOK' /\ CountInv
  BY DEF RepeatInv, CountInv
<1>3. r \in Seen /\ r.id \in Delivery /\ job[w].pc = "post" /\ job[w] \in Job /\ Once(job[w])
  BY <1>2, JobAt DEF Seen, Post, RepeatInv, BatchOnce
<1> DEFINE j == At(pc, r, job[w])
           q == [r EXCEPT !.turn = 0]
<1>4. q \in Seen /\ q.id = r.id
  BY <1>3 DEF Seen
<1>5. j \in Job /\ j.todo = job[w].todo \ {r} /\ j.on = {q} /\ j.pc = pc
  BY <1>3, <1>4 DEF At, Job, PC
<1>6. job' = [job EXCEPT ![w] = j] /\ job'[w] = j
  BY <1>1, <1>2 DEF TypeOK
<1> HIDE DEF j, q
<1>7. Once(j)
  BY <1>3, <1>4, <1>5 DEF Once
<1>8. ASSUME NEW d \in Delivery
      PROVE  Repeats(d)'
  <2>1. Closed(d)' = Closed(d)
    BY <1>1 DEF Closed
  <2>2. w \notin Marking(d) /\ overruns' = overruns /\ errors' = errors
    BY <1>1, <1>3 DEF Marking, bounds
  <2>3. CASE accepted'[d] = accepted[d]
    <3>1. \A x \in j.todo : \E y \in job[w].todo : y.id = x.id
      BY <1>5
    <3> QED
      BY <1>2, <1>5, <1>6, <2>1, <2>2, <2>3, <3>1, QuietStep
  <2>4. CASE d = r.id /\ pc = "success" /\ accepted'[d] = accepted[d] + 1
    <3>1. /\ IsFiniteSet(Holding(d)) /\ IsFiniteSet(Marking(d))
          /\ Cardinality(Holding(d)) \in Nat /\ Cardinality(Marking(d)) \in Nat /\ Passes \in Nat
      BY Rooms
    <3>2. w \in Holding(d) /\ w \notin Holding(d)' /\ Holding(d)' \subseteq Holding(d)
      <4>1. w \in Holding(d)
        BY <2>4 DEF Holding
      <4>2. ~\E x \in j.todo : x.id = d
        BY <1>3, <1>5, <2>4 DEF Once
      <4> QED
        BY <1>2, <1>5, <1>6, <4>1, <4>2, WorkerSets, ZenonT(60)
    <3>3. w \in Marking(d)' /\ Marking(d) \subseteq Marking(d)'
      <4>1. j.pc = "success" /\ \E x \in j.on : x.id = d
        BY <1>4, <1>5, <2>4
      <4> QED
        BY <1>2, <1>5, <1>6, <2>2, <4>1, WorkerSets
    <3>4. Cardinality(Holding(d)') \in Nat /\ Cardinality(Holding(d)') + 1 <= Cardinality(Holding(d))
      <4>1. IsFiniteSet(Holding(d) \ {w}) /\ Cardinality(Holding(d) \ {w}) = Cardinality(Holding(d)) - 1
        BY <3>1, <3>2, FS_RemoveElement
      <4>2. Holding(d)' \in SUBSET (Holding(d) \ {w})
        BY <3>2
      <4>3. IsFiniteSet(Holding(d)') /\ Cardinality(Holding(d)') <= Cardinality(Holding(d)) - 1
        BY <4>1, <4>2, FS_Subset
      <4> QED
        BY <3>1, <4>3, FS_CardinalityType
    <3>5. Cardinality(Marking(d)') \in Nat /\ Cardinality(Marking(d)) + 1 <= Cardinality(Marking(d)')
      <4>1. IsFiniteSet(Marking(d)')
        BY WebhookAssumption, FS_Subset DEF Marking
      <4>2. IsFiniteSet(Marking(d) \cup {w}) /\ Cardinality(Marking(d) \cup {w}) = Cardinality(Marking(d)) + 1
        BY <2>2, <3>1, FS_AddElement
      <4>3. Cardinality(Marking(d) \cup {w}) <= Cardinality(Marking(d)')
        BY <3>3, <4>1, FS_Subset
      <4> QED
        BY <3>1, <4>1, <4>2, <4>3, FS_CardinalityType
    <3>6. accepted[d] \in Nat /\ errors \in Nat /\ Passes' = Passes
      BY <1>2, <2>2, WebhookAssumption DEF TypeOK, Passes
    <3> QED
      BY <2>1, <2>2, <2>4, <3>1, <3>4, <3>5, <3>6 DEF RepeatInv, Repeats
  <2> QED
    BY <1>1, <1>2, <1>3, <2>3, <2>4 DEF TypeOK
<1> QED
  BY <1>6, <1>7, <1>8

\* markSuccess closes the delivery, unless it is gone.
LEMMA RepeatMark ==
  ASSUME RepeatInv, CountInv', NEW w \in Worker, MarkDelivered(w)
  PROVE  /\ Once(job'[w]) /\ \A d \in Delivery : Repeats(d)'
<1>1. PICK r \in job[w].on :
        IF Kept(r)
        THEN rows' = [rows EXCEPT ![r.id].attempts = r.attempts + 1, ![r.id].delivered = TRUE]
        ELSE rows' = rows
  BY DEF MarkDelivered, plan
<1>2. /\ job[w].pc = "success" /\ hook' = hook /\ accepted' = accepted
      /\ errors' = errors /\ overruns' = overruns /\ sent' = sent
  BY DEF MarkDelivered, bounds, history
<1>3. TypeOK /\ TypeOK' /\ CountInv
  BY DEF RepeatInv, CountInv
<1>4. r \in Seen /\ Behind(r, 1) /\ r.id \in Delivery /\ job[w] \in Job /\ Once(job[w])
  BY <1>3, JobAt DEF Seen, RepeatInv, BatchOnce
<1> DEFINE j == [job[w] EXCEPT !.pc = "reset"]
<1>5. j \in Job /\ j.todo = job[w].todo /\ j.on = job[w].on /\ j.pc = "reset"
  BY <1>4 DEF Job, PC
<1>6. job' = [job EXCEPT ![w] = j] /\ job'[w] = j
  BY <1>3 DEF MarkDelivered, Goto, TypeOK
<1> HIDE DEF j
<1>7. Once(j)
  BY <1>4, <1>5 DEF Once
<1>8. ASSUME NEW d \in Delivery
      PROVE  Repeats(d)'
  <2>1. \A x \in j.todo : \E y \in job[w].todo : y.id = x.id
    BY <1>5
  <2>2. CASE d # r.id
    <3>1. rows'[d] = rows[d]
      BY <1>1, <1>3, <2>2 DEF TypeOK
    <3>2. w \notin Marking(d)
      BY <1>4, <2>2 DEF Marking, Once
    <3> QED
      BY <1>2, <1>3, <1>5, <1>6, <2>1, <3>1, <3>2, QuietStep DEF Closed
  <2>3. CASE d = r.id /\ ~Kept(r)
    <3>1. Closed(d) /\ rows' = rows
      BY <1>1, <1>4, <2>3 DEF Kept, Closed, Behind
    <3> QED
      BY <1>2, <1>3, <1>5, <1>6, <2>1, <3>1, QuietStep DEF Closed
  <2>4. CASE d = r.id /\ Kept(r)
    <3>1. rows'[d].delivered
      <4> DEFINE a == [rows[d] EXCEPT !.attempts = r.attempts + 1, !.delivered = TRUE]
      <4>1. rows[d] \in Row /\ rows \in [Delivery -> Row]
        BY <1>3 DEF TypeOK
      <4>2. a.delivered = TRUE
        BY <4>1 DEF Row
      <4>3. rows' = [rows EXCEPT ![d] = a]
        BY <1>1, <2>4
      <4> HIDE DEF a
      <4> QED
        BY <4>1, <4>2, <4>3
    <3>2. Closed(d)'
      BY <3>1 DEF Closed
    <3>3. Holding(d)' \subseteq Holding(d)
      BY <1>3, <1>5, <1>6, <2>1, WorkerSets DEF Holding
    <3>4. IsFiniteSet(Marking(d)')
      BY WebhookAssumption, FS_Subset DEF Marking
    <3>5. Passes' = Passes /\ Passes \in Nat /\ errors \in Nat
      BY <1>2, <1>3, Rooms, WebhookAssumption DEF Passes, TypeOK
    <3>6. Passes' >= Passes /\ Passes' \in Nat /\ errors' >= errors
      BY <1>2, <3>5
    <3> QED
      BY <1>2, <1>3, <3>2, <3>3, <3>4, <3>6, RepeatsKept
  <2> QED
    BY <2>2, <2>3, <2>4
<1> QED
  BY <1>6, <1>7, <1>8

\* The other steps of a pass: nothing is closed or opened ...
LEMMA ClosedSame ==
  ASSUME RepeatInv, NEW w \in Worker, NEW d \in Delivery,
         Lock(w) \/ Select(w) \/ ResetCount(w) \/ MarkRetry(w) \/ MarkFailing(w) \/ Unlock(w)
         \/ DbError(w) \/ Crash(w)
  PROVE  /\ Closed(d)' = Closed(d) /\ accepted' = accepted /\ overruns' = overruns
         /\ hook'[rows[d].to].exists = hook[rows[d].to].exists
<1>1. hook \in [Endpoint -> Hook] /\ rows \in [Delivery -> Row] /\ rows[d] \in Row /\ rows[d].to \in Endpoint
  BY DEF RepeatInv, CountInv, TypeOK, Row
<1>2. accepted' = accepted /\ overruns' = overruns /\ sent' = sent
  BY DEF Lock, Select, ResetCount, MarkRetry, MarkFailing, Unlock, DbError, Crash, bounds, history
<1>3. hook' = hook \/ rows' = rows
  BY DEF Lock, Select, ResetCount, MarkRetry, MarkFailing, Unlock, DbError, Crash
<1>4. hook'[rows[d].to].exists = hook[rows[d].to].exists
  <2>1. CASE ResetCount(w)
    <3>1. PICK r \in job[w].on : hook' = [hook EXCEPT ![r.to].count = 0]
      BY <2>1 DEF ResetCount
    <3> QED
      BY <1>1, <3>1 DEF Hook
  <2>2. CASE MarkFailing(w)
    <3>1. PICK r \in job[w].on :
            hook' = [hook EXCEPT ![r.to].count = r.count + 1,
                                 ![r.to].active = @ /\ r.count + 1 < MaxAttempts]
      BY <2>2 DEF MarkFailing
    <3> DEFINE h == [hook[r.to] EXCEPT !.count = r.count + 1, !.active = @ /\ r.count + 1 < MaxAttempts]
    <3>2. r.to \in Endpoint => h.exists = hook[r.to].exists
      BY <1>1 DEF Hook
    <3>3. hook' = [hook EXCEPT ![r.to] = h]
      BY <3>1
    <3> HIDE DEF h
    <3> QED
      BY <1>1, <3>2, <3>3
  <2>3. CASE hook' = hook
    BY <2>3
  <2> QED
    BY <2>1, <2>2, <2>3 DEF Lock, Select, MarkRetry, Unlock, DbError, Crash
<1>5. rows'[d].to = rows[d].to /\ rows'[d].delivered = rows[d].delivered
  <2>1. CASE MarkRetry(w)
    <3>1. rows' = rows \/ \E r \in job[w].on : rows' = [rows EXCEPT ![r.id].attempts = r.attempts + 1]
      BY <2>1 DEF MarkRetry
    <3>2. ASSUME NEW r \in job[w].on, rows' = [rows EXCEPT ![r.id].attempts = r.attempts + 1]
          PROVE  rows'[d].to = rows[d].to /\ rows'[d].delivered = rows[d].delivered
      <4> DEFINE b == [rows[r.id] EXCEPT !.attempts = r.attempts + 1]
      <4>1. r.id = d => b.to = rows[d].to /\ b.delivered = rows[d].delivered
        BY <1>1 DEF Row
      <4>2. rows' = [rows EXCEPT ![r.id] = b]
        BY <3>2
      <4> HIDE DEF b
      <4> QED
        BY <1>1, <4>1, <4>2
    <3> QED
      BY <3>1, <3>2
  <2>2. CASE rows' = rows
    BY <2>2
  <2> QED
    BY <2>1, <2>2 DEF Lock, Select, ResetCount, MarkFailing, Unlock, DbError, Crash
<1> QED
  BY <1>2, <1>3, <1>4, <1>5 DEF Closed

\* ... and the job goes on with less, or with rows that are open.
LEMMA QuietJob ==
  ASSUME RepeatInv, NEW w \in Worker,
         Lock(w) \/ Select(w) \/ ResetCount(w) \/ MarkRetry(w) \/ MarkFailing(w) \/ Unlock(w)
         \/ DbError(w) \/ Crash(w)
  PROVE  \E j \in Job :
           /\ job' = [job EXCEPT ![w] = j] /\ Once(j)
           /\ \A r \in j.todo : r \in job[w].todo \/ ~Closed(r.id)
           /\ \/ errors' = errors + 1
              \/ errors' = errors /\ job[w].pc # "success"
<1>1. job[w] \in Job /\ Once(job[w]) /\ TypeOK /\ CountInv
  BY JobAt DEF RepeatInv, BatchOnce, CountInv
<1>2. ASSUME NEW pc \in PC \ {"idle", "select", "post"}
      PROVE  [job[w] EXCEPT !.pc = pc] \in Job /\ Once([job[w] EXCEPT !.pc = pc])
             /\ [job[w] EXCEPT !.pc = pc].todo = job[w].todo
  BY <1>1 DEF Job, Once, PC
<1>3. CASE Lock(w)
  <2> DEFINE j == [job[w] EXCEPT !.pc = "select"]
  <2>1. job' = [job EXCEPT ![w] = j] /\ errors' = errors /\ job[w].pc = "idle"
    BY <1>3 DEF Lock, Goto, bounds
  <2>2. j \in Job /\ Once(j) /\ j.todo = job[w].todo
    BY <1>1, <2>1 DEF Job, Once, PC
  <2> QED
    BY <2>1, <2>2
<1>4. CASE Select(w)
  <2> DEFINE T == {[id |-> d, to |-> rows[d].to, turn |-> turn[d], attempts |-> rows[d].attempts,
                    count |-> hook[rows[d].to].count] : d \in Picked}
             j == [job[w] EXCEPT !.todo = T, !.pc = IF Picked = {} THEN "unlock" ELSE "post"]
  <2>1. job' = [job EXCEPT ![w] = j] /\ errors' = errors /\ job[w].pc = "select"
    BY <1>4 DEF Select, bounds
  <2>2. T \subseteq Seen
    BY <1>1, SelectedBehind
  <2>3. \A r, q \in T : r.id = q.id => r = q
    OBVIOUS
  <2>4. \A r \in T : ~Closed(r.id)
    <3>1. \A d \in Picked : ~rows[d].delivered /\ d \in InLine /\ d \in Delivery
      BY DEF Picked, Wanted, InLine
    <3>2. \A d \in Picked : ~Closed(d)
      BY <3>1 DEF RepeatInv, PlannedExists, Planned, Closed
    <3> QED
      BY <3>2
  <2> HIDE DEF T
  <2>5. j \in Job /\ j.todo = T /\ j.on = {} /\ j.pc \in {"unlock", "post"}
    BY <1>1, <2>1, <2>2 DEF Job, PC, Once
  <2> HIDE DEF j
  <2>6. Once(j)
    BY <2>3, <2>5 DEF Once
  <2> QED
    BY <2>1, <2>4, <2>5, <2>6
<1>5. CASE ResetCount(w) \/ MarkFailing(w)
  <2>1. GoOn(w) /\ errors' = errors /\ job[w].pc # "success"
    BY <1>5 DEF ResetCount, MarkFailing, bounds
  <2>2. PICK j \in Job : /\ job' = [job EXCEPT ![w] = j]
                        /\ j.todo = job[w].todo /\ j.on = {} /\ j.pc \in {"unlock", "post"}
    BY <1>1, <2>1, GoOnType
  <2>3. Once(j)
    BY <1>1, <2>2 DEF Once
  <2> QED
    BY <2>1, <2>2, <2>3
<1>6. CASE MarkRetry(w)
  <2>1. job' = [job EXCEPT ![w] = [job[w] EXCEPT !.pc = "health"]] /\ errors' = errors /\ job[w].pc # "success"
    BY <1>6 DEF MarkRetry, Goto, bounds
  <2>2. "health" \in PC \ {"idle", "select", "post"}
    BY DEF PC
  <2> QED
    BY <1>2, <2>1, <2>2
<1>7. CASE Unlock(w) \/ DbError(w) \/ Crash(w)
  <2>1. /\ Idle \in Job /\ Once(Idle) /\ Idle.todo = {}
        /\ [Idle EXCEPT !.pc = "unlock"] \in Job /\ Once([Idle EXCEPT !.pc = "unlock"])
        /\ [Idle EXCEPT !.pc = "unlock"].todo = {}
    BY DEF Idle, Job, PC, Once
  <2>2. /\ [job[w] EXCEPT !.pc = "failure", !.caught = TRUE] \in Job
        /\ Once([job[w] EXCEPT !.pc = "failure", !.caught = TRUE])
        /\ [job[w] EXCEPT !.pc = "failure", !.caught = TRUE].todo = job[w].todo
    BY <1>1 DEF Job, Once, PC
  <2>3. \/ job' = [job EXCEPT ![w] = [job[w] EXCEPT !.pc = "failure", !.caught = TRUE]]
        \/ job' = [job EXCEPT ![w] = [Idle EXCEPT !.pc = "unlock"]]
        \/ job' = [job EXCEPT ![w] = Idle]
    BY <1>7 DEF Unlock, DbError, Crash
  <2>4. errors' = errors + 1 \/ (errors' = errors /\ job[w].pc # "success")
    BY <1>7 DEF Unlock, DbError, Crash, bounds
  <2> QED
    BY <2>1, <2>2, <2>3, <2>4
<1> QED
  BY <1>3, <1>4, <1>5, <1>6, <1>7

LEMMA RepeatQuiet ==
  ASSUME RepeatInv, CountInv', NEW w \in Worker,
         Lock(w) \/ Select(w) \/ ResetCount(w) \/ MarkRetry(w) \/ MarkFailing(w) \/ Unlock(w)
         \/ DbError(w) \/ Crash(w)
  PROVE  Once(job'[w]) /\ \A d \in Delivery : Repeats(d)'
<1>1. PICK j \in Job :
        /\ job' = [job EXCEPT ![w] = j] /\ Once(j)
        /\ \A r \in j.todo : r \in job[w].todo \/ ~Closed(r.id)
        /\ \/ errors' = errors + 1
           \/ errors' = errors /\ job[w].pc # "success"
  BY QuietJob
<1>2. TypeOK /\ TypeOK' /\ job'[w] = j
  BY <1>1 DEF RepeatInv, CountInv, TypeOK
<1>3. ASSUME NEW d \in Delivery
      PROVE  Repeats(d)'
  <2>1. Closed(d)' = Closed(d) /\ accepted'[d] = accepted[d] /\ overruns' = overruns
    BY ClosedSame
  <2>2. \A r \in j.todo : (\E q \in job[w].todo : q.id = r.id) \/ (r.id = d => ~Closed(d))
    BY <1>1
  <2>3. job[w].pc # "success" => w \notin Marking(d)
    BY DEF Marking
  <2> QED
    BY <1>1, <1>2, <2>1, <2>2, <2>3, QuietStep
<1> QED
  BY <1>1, <1>2, <1>3

\* The lock keeps passes apart until it expires under one.
LEMMA OneAtATimeStep ==
  ASSUME RepeatInv, [Next]_vars
  PROVE  OneAtATime'
<1>1. TypeOK /\ overruns \in Nat
  BY WebhookAssumption DEF RepeatInv, CountInv, TypeOK
<1>2. CASE UNCHANGED <<job, lock, overruns>>
  BY <1>2 DEF RepeatInv, OneAtATime, Busy
<1>3. CASE LockExpires
  <2>1. CASE Running
    BY <1>1, <1>3, <2>1 DEF LockExpires, OneAtATime
  <2>2. CASE ~Running
    <3>1. Busy' = {}
      BY <1>3, <2>2 DEF LockExpires, Running, Busy
    <3> QED
      BY <3>1 DEF OneAtATime
  <2> QED
    BY <2>1, <2>2
<1>4. ASSUME NEW w \in Worker, Lock(w)
      PROVE  OneAtATime'
  <2>1. /\ ~lock /\ lock' /\ overruns' = overruns /\ job' = [job EXCEPT ![w].pc = "select"]
    BY <1>4 DEF Lock, Goto, bounds
  <2>2. overruns = 0 => Busy = {}
    BY <2>1 DEF RepeatInv, OneAtATime
  <2>3. Busy' \subseteq Busy \cup {w}
    BY <1>1, <2>1 DEF Busy, TypeOK
  <2> QED
    BY <2>1, <2>2, <2>3 DEF OneAtATime
<1>5. ASSUME NEW w \in Worker, Unlock(w)
      PROVE  OneAtATime'
  <2>1. /\ w \in Busy /\ overruns' = overruns /\ job' = [job EXCEPT ![w] = Idle]
    BY <1>5 DEF Unlock, bounds, Busy
  <2>2. Busy' = Busy \ {w}
    BY <1>1, <2>1 DEF Busy, TypeOK, Idle
  <2>3. overruns = 0 => Busy' = {}
    BY <2>1, <2>2 DEF RepeatInv, OneAtATime
  <2> QED
    BY <2>1, <2>3 DEF OneAtATime
<1>6. ASSUME NEW w \in Worker,
             Select(w) \/ Post(w) \/ MarkDelivered(w) \/ ResetCount(w) \/ MarkRetry(w)
             \/ MarkFailing(w) \/ DbError(w) \/ Crash(w)
      PROVE  OneAtATime'
  <2>1. job[w].pc # "idle" /\ lock' = lock /\ overruns' = overruns
    BY <1>6 DEF Select, Post, MarkDelivered, ResetCount, MarkRetry, MarkFailing, DbError, Crash, bounds
  <2>2. \A v \in Worker \ {w} : job'[v] = job[v]
    BY <1>1, <1>6 DEF Select, Post, MarkDelivered, ResetCount, MarkRetry, MarkFailing, DbError, Crash, Goto,
                      GoOn, TypeOK
  <2>3. Busy' \subseteq Busy /\ Busy # {}
    BY <2>1, <2>2 DEF Busy
  <2> QED
    BY <2>1, <2>3 DEF RepeatInv, OneAtATime
<1>7. Enqueue \/ (\E e \in Endpoint : Create(e) \/ Toggle(e) \/ Delete(e)) \/ (\E d \in Delivery : BackoffEnds(d))
      \/ UNCHANGED vars => UNCHANGED <<job, lock, overruns>>
  BY DEF Enqueue, Create, Toggle, Delete, BackoffEnds, vars, bounds
<1> QED
  BY <1>2, <1>3, <1>4, <1>5, <1>6, <1>7 DEF Next, Pass

\* Only rows that are there are planned.
LEMMA PlannedExistsStep ==
  ASSUME RepeatInv, CountInv', [Next]_vars
  PROVE  PlannedExists'
<1> SUFFICES ASSUME NEW d \in Delivery, Planned(d)'
             PROVE  hook'[rows'[d].to].exists
  BY DEF PlannedExists
<1>1. TypeOK /\ TypeOK' /\ turn \in [Delivery -> Nat] /\ hook \in [Endpoint -> Hook]
      /\ rows \in [Delivery -> Row] /\ rows[d].to \in Endpoint
  BY DEF RepeatInv, CountInv, TypeOK, Row
<1>2. ASSUME UNCHANGED <<rows, plan>>, hook'[rows[d].to].exists = hook[rows[d].to].exists
      PROVE  hook'[rows'[d].to].exists
  <2>1. Planned(d)
    BY <1>2 DEF Planned, InLine, plan
  <2>2. hook[rows[d].to].exists
    BY <2>1 DEF RepeatInv, PlannedExists
  <2> QED
    BY <1>2, <2>2
<1>3. CASE Enqueue
  <2>1. sent + 1 \in Delivery /\ Join(sent + 1) /\ UNCHANGED <<hook, rows, later>> /\ hook[rows[sent + 1].to].exists
    BY <1>1, <1>3, WebhookAssumption DEF Enqueue, EmitWebhook, EnqueueClicked, Test, Replay, TypeOK, Delivery
  <2>2. InLine' = InLine \cup {sent + 1}
    BY <1>1, <2>1, JoinAdds
  <2> QED
    BY <2>1, <2>2 DEF Planned, RepeatInv, PlannedExists
<1>4. ASSUME NEW c \in Delivery, BackoffEnds(c)
      PROVE  hook'[rows'[d].to].exists
  <2>1. c \in later /\ later' = later \ {c} /\ Join(c) /\ UNCHANGED <<hook, rows>>
    BY <1>4 DEF BackoffEnds
  <2>2. InLine' = InLine \cup {c}
    BY <1>1, <2>1, JoinAdds
  <2> QED
    BY <2>1, <2>2 DEF Planned, RepeatInv, PlannedExists
<1>5. ASSUME NEW e \in Endpoint, Delete(e)
      PROVE  hook'[rows'[d].to].exists
  <2>1. /\ hook' = [hook EXCEPT ![e].exists = FALSE] /\ later' = later \ RowsOf(e)
        /\ Stay(Delivery \ RowsOf(e)) /\ rows' = rows /\ sent' = sent
    BY <1>5 DEF Delete
  <2>2. InLine' = (Delivery \ RowsOf(e)) \cap InLine
    BY <1>1, <2>1, StayKeeps
  <2>3. Planned(d) /\ d \notin RowsOf(e)
    BY <2>1, <2>2 DEF Planned
  <2>4. d \in 1..sent
    BY <1>1, <2>3, LineType DEF Planned, TypeOK
  <2>5. rows[d].to # e
    BY <2>3, <2>4 DEF RowsOf
  <2> QED
    BY <1>1, <2>1, <2>3, <2>5 DEF RepeatInv, PlannedExists
<1>6. ASSUME NEW e \in Endpoint, Toggle(e)
      PROVE  hook'[rows'[d].to].exists
  <2>1. UNCHANGED <<rows, plan>> /\ hook'[rows[d].to].exists = hook[rows[d].to].exists
    BY <1>1, <1>6 DEF Toggle, Hook
  <2> QED
    BY <1>2, <2>1
<1>10. ASSUME NEW e \in Endpoint, Create(e)
       PROVE  hook'[rows'[d].to].exists
  <2>1. /\ RowsOf(e) = {} /\ hook' = [hook EXCEPT ![e] = NewHook] /\ UNCHANGED <<rows, plan, sent>>
    BY <1>10 DEF Create
  <2>2. Planned(d)
    BY <2>1 DEF Planned, InLine, plan
  <2>3. d \in 1..sent
    BY <1>1, <2>2, LineType DEF Planned, TypeOK
  <2>4. rows[d].to # e
    BY <2>1, <2>3 DEF RowsOf
  <2> QED
    BY <1>1, <2>1, <2>2, <2>4 DEF RepeatInv, PlannedExists
<1>7. ASSUME NEW w \in Worker, MarkDelivered(w) \/ MarkRetry(w)
      PROVE  hook'[rows'[d].to].exists
  <2>1. /\ hook' = hook
        /\ \E r \in job[w].on : IF Kept(r) THEN Unplan(r.id) \/ Postpone(r.id) ELSE UNCHANGED <<rows, plan>>
    BY <1>7 DEF MarkDelivered, MarkRetry
  <2>2. PICK r \in job[w].on : IF Kept(r) THEN Unplan(r.id) \/ Postpone(r.id) ELSE UNCHANGED <<rows, plan>>
    BY <2>1
  <2>3. Behind(r, 1) /\ r \in Seen
    BY JobAt DEF RepeatInv
  <2>4. rows'[d].to = rows[d].to
    <3>1. rows' = rows
          \/ (\E q \in job[w].on : rows' = [rows EXCEPT ![q.id].attempts = q.attempts + 1])
          \/ (\E q \in job[w].on : rows' = [rows EXCEPT ![q.id].attempts = q.attempts + 1, ![q.id].delivered = TRUE])
      BY <1>7 DEF MarkDelivered, MarkRetry
    <3>2. ASSUME NEW q \in job[w].on,
                 \/ rows' = [rows EXCEPT ![q.id].attempts = q.attempts + 1]
                 \/ rows' = [rows EXCEPT ![q.id].attempts = q.attempts + 1, ![q.id].delivered = TRUE]
          PROVE  rows'[d].to = rows[d].to
      <4> DEFINE a == [rows[q.id] EXCEPT !.attempts = q.attempts + 1]
                 b == [rows[q.id] EXCEPT !.attempts = q.attempts + 1, !.delivered = TRUE]
      <4>1. q.id = d => a.to = rows[d].to /\ b.to = rows[d].to
        BY <1>1 DEF Row
      <4>2. rows' = [rows EXCEPT ![q.id] = a] \/ rows' = [rows EXCEPT ![q.id] = b]
        BY <3>2
      <4> HIDE DEF a, b
      <4> QED
        BY <1>1, <4>1, <4>2
    <3> QED
      BY <3>1, <3>2
  <2>5. CASE Kept(r)
    <3>1. Stay(Delivery \ {r.id}) /\ later' \subseteq later \cup {r.id}
      BY <2>2, <2>5 DEF Unplan, Postpone
    <3>2. InLine' \subseteq InLine
      BY <1>1, <3>1, StayKeeps
    <3>3. Planned(d) \/ d = r.id
      BY <3>1, <3>2 DEF Planned
    <3>4. hook[rows[d].to].exists
      BY <2>3, <2>5, <3>3 DEF Kept, Behind, RepeatInv, PlannedExists
    <3> QED
      BY <2>1, <2>4, <3>4
  <2>6. CASE ~Kept(r)
    BY <1>2, <2>1, <2>2, <2>6
  <2> QED
    BY <2>5, <2>6
<1>8. ASSUME NEW w \in Worker, ResetCount(w) \/ MarkFailing(w)
      PROVE  hook'[rows'[d].to].exists
  <2>1. UNCHANGED <<rows, plan>>
    BY <1>8 DEF ResetCount, MarkFailing
  <2> QED
    BY <1>2, <1>8, <2>1, ClosedSame
<1>9. ASSUME LockExpires \/ UNCHANGED vars
             \/ \E w \in Worker : Lock(w) \/ Select(w) \/ Post(w) \/ Unlock(w) \/ DbError(w) \/ Crash(w)
      PROVE  hook'[rows'[d].to].exists
  <2>1. UNCHANGED <<hook, rows, plan>>
    BY <1>9 DEF LockExpires, vars, Lock, Select, Post, Unlock, DbError, Crash
  <2> QED
    BY <1>2, <2>1
<1> QED
  BY <1>3, <1>4, <1>5, <1>6, <1>7, <1>8, <1>9, <1>10 DEF Next, Pass

LEMMA RepeatStep == RepeatInv /\ [Next]_vars => RepeatInv'
<1> SUFFICES ASSUME RepeatInv, [Next]_vars PROVE RepeatInv'
  OBVIOUS
<1>1. TypeOK /\ CountInv' /\ OneAtATime' /\ PlannedExists'
  BY CountStep, OneAtATimeStep, PlannedExistsStep DEF RepeatInv, CountInv
<1>2. ASSUME NEW w \in Worker, Pass(w) \/ DbError(w) \/ Crash(w)
      PROVE  Once(job'[w]) /\ \A d \in Delivery : Repeats(d)'
  BY <1>1, <1>2, RepeatPost, RepeatMark, RepeatQuiet DEF Pass
<1>3. ASSUME NEW w \in Worker, Pass(w) \/ DbError(w) \/ Crash(w)
      PROVE  BatchOnce'
  <2>1. \A v \in Worker \ {w} : job'[v] = job[v]
    BY <1>1, <1>3 DEF Pass, Lock, Select, Post, MarkDelivered, ResetCount, MarkRetry, MarkFailing, Unlock,
                      DbError, Crash, Goto, GoOn, TypeOK
  <2> QED
    BY <1>2, <1>3, <2>1 DEF RepeatInv, BatchOnce
<1>4. CASE Enqueue \/ (\E e \in Endpoint : Create(e) \/ Toggle(e) \/ Delete(e)) \/ (\E d \in Delivery : BackoffEnds(d))
           \/ LockExpires
  <2>1. UNCHANGED <<job, accepted, errors>>
    BY <1>4 DEF Enqueue, Create, Toggle, Delete, BackoffEnds, LockExpires, bounds, history
  <2>2. BatchOnce'
    BY <2>1 DEF RepeatInv, BatchOnce
  <2> QED
    BY <1>1, <1>4, <2>1, <2>2, OthersStep DEF RepeatInv
<1>5. CASE UNCHANGED vars
  <2>1. BatchOnce'
    BY <1>5 DEF RepeatInv, BatchOnce, vars
  <2>2. \A d \in Delivery : Repeats(d)'
    BY <1>5 DEF RepeatInv, Repeats, Closed, Holding, Marking, Passes, vars, bounds, history
  <2> QED
    BY <1>1, <2>1, <2>2 DEF RepeatInv
<1> QED
  BY <1>1, <1>2, <1>3, <1>4, <1>5 DEF Next, RepeatInv

\* The lock of runWebhookDeliver lets an endpoint that accepted a delivery see it
\* again once for every database error or crash; a pass that outlives the lock
\* costs at most one repeat for every other worker.
THEOREM RepeatsAreBounded == Spec => []RepeatsBounded
<1>1. RepeatInv => RepeatsBounded
  <2> SUFFICES ASSUME RepeatInv, NEW d \in Delivery
               PROVE  accepted[d] <= Passes + errors
    BY DEF RepeatsBounded, Passes
  <2>1. /\ Cardinality(Holding(d)) \in Nat /\ Cardinality(Marking(d)) \in Nat /\ Passes \in Nat
        /\ Cardinality(Holding(d)) + Cardinality(Marking(d)) <= Passes
    BY Rooms
  <2>2. accepted[d] \in Nat /\ errors \in Nat
    BY WebhookAssumption DEF RepeatInv, CountInv, TypeOK
  <2> QED
    BY <2>1, <2>2 DEF RepeatInv, Repeats
<1> QED
  BY RepeatInit, RepeatStep, <1>1, PTL DEF Spec
=============================================================================
