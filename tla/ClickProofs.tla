---------------------------- MODULE ClickProofs -----------------------------
(***************************************************************************)
(* Proofs about ClickPipeline, for any workers, batches and clicks: type   *)
(* correctness, that only a misrouted click is lost, that clicks_total     *)
(* never runs ahead of ClickHouse, how far the click limit is passed, and  *)
(* why a click is stored more than once.                                   *)
(***************************************************************************)
EXTENDS ClickPipeline, SequenceTheorems, FiniteSetTheorems, TLAPS

-----------------------------------------------------------------------------
(***************************************************************************)
(* The inductive invariant: a worker about to acknowledge a click knows    *)
(* where its copy is.                                                      *)
(***************************************************************************)
\* The loop indexes fit the batch and the rows that parsed.
Fits(j) ==
  /\ Len(j.batch) <= Batch /\ j.at \in 1..(Len(j.batch) + 1)
  /\ Len(j.rows) <= Len(j.batch)
  /\ j.pc \in {"parse", "parseAck"} => Len(j.rows) < j.at
  /\ j.pc = "parseAck" => j.at <= Len(j.batch)
  /\ j.pc = "failAck" => j.at <= Len(j.rows)

\* What is about to be acknowledged is in ClickHouse (st), among the dead
\* letters (de), or was given up with another click's fields (mi).
CopyFor(j, st, de, mi) ==
  /\ j.pc = "parseAck" => de[j.batch[j.at]] > 0
  /\ j.pc = "failAck" => j.rows[j.at] \in mi \/ de[j.rows[j.at]] > 0
  /\ j.pc = "ack" => \A i \in DOMAIN j.rows : st[j.rows[i]] > 0

JobsFit == \A w \in Worker : Fits(job[w])
CopiesHeld == \A w \in Worker : CopyFor(job[w], stored, dead, misrouted)

KeptInv == TypeOK /\ JobsFit /\ CopiesHeld /\ LostOnlyByMisroute

-----------------------------------------------------------------------------
(* Lemmas about the records of the workers and the reads. *)

LEMMA IdleFits ==
  ASSUME NEW pc \in {"claim", "read"}
  PROVE  /\ Idle(pc) \in Job /\ Fits(Idle(pc)) /\ Idle(pc).pc = pc
         /\ \A st, de, mi : CopyFor(Idle(pc), st, de, mi)
<1>1. << >> \in Seq(Click) /\ Len(<< >>) = 0
  OBVIOUS
<1>2. Idle(pc) \in Job
  BY <1>1 DEF Idle, Job, PC
<1>3. Idle(pc).pc = pc /\ Idle(pc).at = 1 /\ Idle(pc).batch = << >> /\ Idle(pc).rows = << >>
  BY DEF Idle
<1>4. Batch \in Nat
  BY ClickAssumption
<1> QED
  BY <1>1, <1>2, <1>3, <1>4 DEF Fits, CopyFor

LEMMA GivenFits ==
  ASSUME NEW pc \in {"claim", "read"}, NEW q \in Seq(Click), Len(q) <= Batch
  PROVE  /\ Given(pc, q) \in Job /\ Fits(Given(pc, q)) /\ Given(pc, q).pc = "parse"
         /\ \A st, de, mi : CopyFor(Given(pc, q), st, de, mi)
<1>1. << >> \in Seq(Click) /\ Len(<< >>) = 0 /\ Len(q) \in Nat
  OBVIOUS
<1>2. Given(pc, q) = [pc |-> "parse", from |-> pc, batch |-> q, at |-> 1, rows |-> << >>]
  BY DEF Given
<1>3. Given(pc, q) \in Job
  BY <1>1, <1>2 DEF Job, PC
<1> QED
  BY <1>1, <1>2, <1>3 DEF Fits, CopyFor

\* Copies and misroutes are never taken back.
Grown == /\ \A c \in Click : stored'[c] >= stored[c] /\ dead'[c] >= dead[c]
         /\ misrouted \subseteq misrouted'

\* A step that gives worker w the record j and leaves the others alone.
LEMMA JobStep ==
  ASSUME KeptInv, TypeOK', NEW w \in Worker, NEW j \in Job, Fits(j),
         CopyFor(j, stored', dead', misrouted'), Grown,
         job' = [job EXCEPT ![w] = j]
  PROVE  JobsFit' /\ CopiesHeld'
<1>1. JobsFit'
  BY DEF KeptInv, TypeOK, JobsFit
<1>2. ASSUME NEW v \in Worker
      PROVE  CopyFor(job'[v], stored', dead', misrouted')
  <2>1. CASE v = w
    BY <2>1 DEF KeptInv, TypeOK
  <2>2. CASE v # w
    <3>1. job'[v] = job[v] /\ job[v] \in Job /\ Fits(job[v]) /\ CopyFor(job[v], stored, dead, misrouted)
      BY <2>2 DEF KeptInv, TypeOK, JobsFit, CopiesHeld
    <3>2. job[v].pc = "parseAck" => job[v].batch[job[v].at] \in Click
      BY <3>1 DEF Fits, Job
    <3>3. job[v].pc = "failAck" => job[v].rows[job[v].at] \in Click
      BY <3>1 DEF Fits, Job
    <3>4. \A i \in DOMAIN job[v].rows : job[v].rows[i] \in Click
      BY <3>1 DEF Job
    <3>5. \A c \in Click : stored[c] \in Nat /\ stored'[c] \in Nat /\ dead[c] \in Nat /\ dead'[c] \in Nat
      BY DEF KeptInv, TypeOK
    <3>6. CopyFor(job[v], stored', dead', misrouted')
      BY <3>1, <3>2, <3>3, <3>4, <3>5 DEF CopyFor, Grown
    <3> QED
      BY <3>1, <3>6
  <2> QED
    BY <2>1, <2>2
<1> QED
  BY <1>1, <1>2 DEF CopiesHeld

\* What a read may return: entries in the stream, no more than a batch.
LEMMA FirstType ==
  ASSUME NEW S \in SUBSET Click, NEW n \in Nat, NEW q \in First(S, n)
  PROVE  q \in Seq(Click) /\ Len(q) <= n
<1>1. PICK m \in 0..n : q \in [1..m -> S]
  BY DEF First, BoundedSeq, SeqOf
<1>2. q \in [1..m -> Click] /\ m \in Nat
  BY <1>1
<1>3. q \in Seq(Click)
  BY <1>2, SeqDef
<1> QED
  BY <1>1, <1>2, <1>3, LenProperties

LEMMA Counting ==
  ASSUME NEW a \in Nat, NEW b \in Nat, a <= b, b <= MaxClick
  PROVE  LET q == [i \in 1..(b - a) |-> a + i] IN
         q \in Seq(Click) /\ Len(q) = b - a /\ ToSet(q) = (a + 1)..b
<1> DEFINE q == [i \in 1..(b - a) |-> a + i]
<1>0. MaxClick \in Nat /\ b - a \in Nat
  BY ClickAssumption
<1>1. q \in [1..(b - a) -> Click]
  BY <1>0 DEF Click
<1>2. q \in Seq(Click)
  BY <1>0, <1>1, SeqDef
<1>3. Len(q) = b - a /\ DOMAIN q = 1..(b - a)
  BY <1>0, <1>1, <1>2, LenProperties
<1>4. ToSet(q) = (a + 1)..b
  <2>1. ASSUME NEW c \in (a + 1)..b PROVE c \in ToSet(q)
    <3>1. c - a \in DOMAIN q /\ q[c - a] = c
      BY <1>3
    <3> QED
      BY <3>1 DEF ToSet
  <2>2. ASSUME NEW c \in ToSet(q) PROVE c \in (a + 1)..b
    BY <1>0, <1>3 DEF ToSet
  <2> QED
    BY <2>1, <2>2
<1> QED
  BY <1>2, <1>3, <1>4

\* The rows that parsed, once the entries up to n - 1 are looked at.
LEMMA Parsed ==
  ASSUME NEW j \in Job, Fits(j), j.pc = "parse", NEW n \in j.at..(Len(j.batch) + 1)
  PROVE  LET rows == j.rows \o SubSeq(j.batch, j.at, n - 1) IN
         rows \in Seq(Click) /\ Len(rows) < n
<1>1. j.rows \in Seq(Click) /\ j.batch \in Seq(Click) /\ j.at \in Nat /\ Len(j.rows) < j.at
  BY DEF Job, Fits
<1>2. Len(j.rows) \in Nat /\ Len(j.batch) \in Nat /\ n \in Nat
  BY <1>1, LenProperties
<1>3. \A i \in j.at..(n - 1) : j.batch[i] \in Click
  BY <1>1, <1>2, ElementOfSeq DEF Fits
<1> DEFINE sub == SubSeq(j.batch, j.at, n - 1)
<1>4. sub \in Seq(Click) /\ Len(sub) = IF j.at <= n - 1 THEN n - 1 - j.at + 1 ELSE 0
  BY <1>1, <1>2, <1>3, SubSeqProperties
<1> HIDE DEF sub
<1>5. j.rows \o sub \in Seq(Click) /\ Len(j.rows \o sub) = Len(j.rows) + Len(sub)
  BY <1>1, <1>4, ConcatProperties
<1>6. Len(j.rows \o sub) < n
  BY <1>1, <1>2, <1>4, <1>5
<1> QED
  BY <1>5, <1>6 DEF sub

-----------------------------------------------------------------------------
(* Every step preserves the invariant. *)

LEMMA KeptInit == Init => KeptInv
<1> SUFFICES ASSUME Init PROVE KeptInv
  OBVIOUS
<1>1. Idle("claim") \in Job /\ Fits(Idle("claim")) /\ CopyFor(Idle("claim"), stored, dead, misrouted)
  BY IdleFits
<1>2. JobsFit /\ CopiesHeld
  BY <1>1 DEF Init, JobsFit, CopiesHeld
<1>3. TypeOK
  BY <1>1, ClickAssumption DEF Init, TypeOK, Fits, Unset
<1>4. LostOnlyByMisroute
  BY DEF Init, LostOnlyByMisroute, Acked
<1> QED
  BY <1>2, <1>3, <1>4 DEF KeptInv

\* Nothing is lost by a step that acknowledges only what has a copy by then.
LEMMA NoneLost ==
  ASSUME KeptInv, TypeOK', Grown,
         \A c \in Acked' : c \in Acked \/ stored'[c] > 0 \/ dead'[c] > 0 \/ c \in misrouted'
  PROVE  LostOnlyByMisroute'
<1> SUFFICES ASSUME NEW c \in Acked'
             PROVE  Kept(c)' \/ c \in misrouted'
  BY DEF LostOnlyByMisroute
<1>1. CASE c \in Acked
  <2>1. c \in Click
    BY ClickAssumption DEF TypeOK, Acked, Click
  <2>2. stored[c] \in Nat /\ stored'[c] \in Nat /\ dead[c] \in Nat /\ dead'[c] \in Nat
    BY <2>1 DEF KeptInv, TypeOK
  <2>3. Kept(c) \/ c \in misrouted
    BY <1>1 DEF KeptInv, LostOnlyByMisroute
  <2> QED
    BY <2>1, <2>2, <2>3 DEF Kept, Grown
<1>2. CASE c \notin Acked
  BY <1>2 DEF Kept
<1> QED
  BY <1>1, <1>2

\* A step of the redirect.
LEMMA RedirectKeeps ==
  ASSUME KeptInv, NEW k \in Code,
         Visit(k) \/ VisitUnlimited(k) \/ PayloadGone(k) \/ CounterGone(k)
  PROVE  KeptInv'
<1> USE ClickAssumption
<1>1. UNCHANGED <<group, job, attempts, sinks, history>> /\ sent \in Nat /\ sent' \in Nat /\ sent <= sent'
  BY DEF KeptInv, TypeOK, Visit, VisitUnlimited, PayloadGone, CounterGone, Enqueue, Fail
<1>2. TypeOK'
  <2>1. Known(k) \in Nat /\ Used(k) \in Nat
    BY DEF KeptInv, TypeOK, Known, Used, Unset
  <2>2. /\ used' \in [Code -> Nat \cup {Unset}] /\ seed' \in [Code -> Nat \cup {Unset}]
        /\ resets' \in 0..MaxFail /\ sent' \in 0..MaxClick /\ passed' \in Nat /\ sent' <= passed'
        /\ fails' \in 0..MaxFail
    <3>0. /\ used \in [Code -> Nat \cup {Unset}] /\ seed \in [Code -> Nat \cup {Unset}]
          /\ resets \in 0..MaxFail /\ sent \in 0..MaxClick /\ passed \in Nat /\ sent <= passed
          /\ fails \in 0..MaxFail
      BY DEF KeptInv, TypeOK
    <3>1. CASE Visit(k)
      <4>1. seed' = [seed EXCEPT ![k] = Known(k)] /\ resets' = resets
        BY <3>1 DEF Visit
      <4>2. CASE Used(k) >= Cap
        <5>1. used' = [used EXCEPT ![k] = Used(k)] /\ UNCHANGED <<passed, sent, fails>>
          BY <3>1, <4>2 DEF Visit
        <5> QED
          BY <2>1, <3>0, <4>1, <5>1
      <4>3. CASE ~(Used(k) >= Cap)
        <5>1. used' = [used EXCEPT ![k] = Used(k) + 1] /\ passed' = passed + 1 /\ Enqueue
          BY <3>1, <4>3 DEF Visit
        <5>2. used' \in [Code -> Nat \cup {Unset}] /\ seed' \in [Code -> Nat \cup {Unset}]
          BY <2>1, <3>0, <4>1, <5>1
        <5>3. sent' \in 0..MaxClick /\ passed' \in Nat /\ sent' <= passed' /\ fails' \in 0..MaxFail
          BY <3>0, <5>1 DEF Enqueue, Fail
        <5> QED
          BY <3>0, <4>1, <5>2, <5>3
      <4> QED
        BY <4>2, <4>3
    <3>2. CASE VisitUnlimited(k)
      BY <2>1, <3>0, <3>2 DEF VisitUnlimited, Fail
    <3>3. CASE PayloadGone(k)
      BY <3>0, <3>3 DEF PayloadGone
    <3>4. CASE CounterGone(k)
      BY <3>0, <3>4 DEF CounterGone
    <3> QED
      BY <3>1, <3>2, <3>3, <3>4
  <2> QED
    BY <1>1, <2>2 DEF KeptInv, TypeOK, group, sinks, history
<1>3. JobsFit' /\ CopiesHeld' /\ LostOnlyByMisroute'
  BY <1>1 DEF KeptInv, JobsFit, CopiesHeld, LostOnlyByMisroute, Acked, Kept, group, sinks, history
<1> QED
  BY <1>2, <1>3 DEF KeptInv

\* TypeOK without the workers' records.
DataOK ==
  /\ used \in [Code -> Nat \cup {Unset}] /\ seed \in [Code -> Nat \cup {Unset}]
  /\ resets \in 0..MaxFail /\ sent \in 0..MaxClick /\ passed \in Nat /\ sent <= passed
  /\ read \in 0..sent /\ pending \subseteq 1..read
  /\ attempts \in [Worker -> [Click -> 0..(MaxAttempts - 1)]]
  /\ stored \in [Click -> Nat] /\ dead \in [Click -> Nat]
  /\ total \in Nat /\ counted \in [Click -> Nat]
  /\ fails \in 0..MaxFail /\ shared \subseteq Click /\ misrouted \subseteq Click

LEMMA DataType == KeptInv => DataOK
BY DEF KeptInv, TypeOK, DataOK

LEMMA FailType == KeptInv /\ Fail => fails' \in 0..MaxFail
<1> SUFFICES ASSUME KeptInv, Fail PROVE fails' \in 0..MaxFail
  OBVIOUS
<1>1. MaxFail \in Nat /\ fails \in 0..MaxFail /\ resets \in 0..MaxFail
  BY ClickAssumption DEF KeptInv, TypeOK
<1> QED
  BY <1>1 DEF Fail

\* A step of worker w that leaves it the record j.
LEMMA WorkerKeeps ==
  ASSUME KeptInv, DataOK', NEW w \in Worker, NEW j \in Job, Fits(j),
         CopyFor(j, stored', dead', misrouted'), Grown,
         job' = [job EXCEPT ![w] = j],
         \A c \in Acked' : c \in Acked \/ stored'[c] > 0 \/ dead'[c] > 0 \/ c \in misrouted'
  PROVE  KeptInv'
<1>1. job' \in [Worker -> Job]
  BY DEF KeptInv, TypeOK
<1>2. \A v \in Worker : Fits(job'[v])
  BY DEF KeptInv, TypeOK, JobsFit
<1>3. TypeOK'
  BY <1>1, <1>2 DEF DataOK, TypeOK, Fits
<1> QED
  BY <1>3, JobStep, NoneLost DEF KeptInv

\* What a worker's record and the entries it names are.
LEMMA JobType ==
  ASSUME KeptInv, NEW w \in Worker
  PROVE  /\ job[w] \in Job /\ Fits(job[w]) /\ CopyFor(job[w], stored, dead, misrouted)
         /\ job[w].batch \in Seq(Click) /\ job[w].rows \in Seq(Click) /\ job[w].at \in Nat
         /\ Len(job[w].batch) \in Nat /\ Len(job[w].rows) \in Nat
         /\ \A i \in 1..Len(job[w].batch) : job[w].batch[i] \in Click
         /\ DOMAIN job[w].rows = 1..Len(job[w].rows)
         /\ \A i \in 1..Len(job[w].rows) : job[w].rows[i] \in Click
<1>1. job[w] \in Job /\ Fits(job[w]) /\ CopyFor(job[w], stored, dead, misrouted)
  BY DEF KeptInv, TypeOK, JobsFit, CopiesHeld
<1>2. job[w].batch \in Seq(Click) /\ job[w].rows \in Seq(Click) /\ job[w].at \in Nat
  BY <1>1 DEF Job
<1> QED
  BY <1>1, <1>2, LenProperties, ElementOfSeq

\* The record a batch leaves behind when it is done with.
LEMMA DoneFits ==
  ASSUME KeptInv, NEW w \in Worker
  PROVE  /\ Done(w) \in Job /\ Fits(Done(w)) /\ Done(w).pc \in {"claim", "read"}
         /\ \A st, de, mi : CopyFor(Done(w), st, de, mi)
BY IdleFits DEF Done

\* A read that returned q: TypeOK of the group is the caller's.
LEMMA TakeKeeps ==
  ASSUME KeptInv, DataOK', NEW w \in Worker, job[w].pc \in {"claim", "read"},
         NEW q \in Seq(Click), Len(q) <= Batch, Take(w, q), Acked' \subseteq Acked
  PROVE  KeptInv'
<1>1. Grown
  BY DEF Grown, Take, sinks, KeptInv, TypeOK
<1>2. CASE q = << >>
  <2> DEFINE pc == IF job[w].pc = "claim" THEN "read" ELSE "claim"
  <2>1. pc \in {"claim", "read"} /\ job' = [job EXCEPT ![w] = Idle(pc)]
    BY <1>2 DEF Take, KeptInv, TypeOK
  <2> HIDE DEF pc
  <2> QED
    BY <1>1, <2>1, IdleFits, WorkerKeeps
<1>3. CASE q # << >>
  <2> DEFINE pc == job[w].pc
  <2>1. pc \in {"claim", "read"} /\ job' = [job EXCEPT ![w] = Given(pc, q)]
    BY <1>3 DEF Take, KeptInv, TypeOK
  <2> HIDE DEF pc
  <2> QED
    BY <1>1, <2>1, GivenFits, WorkerKeeps
<1> QED
  BY <1>2, <1>3

LEMMA ClaimKeeps ==
  ASSUME KeptInv, NEW w \in Worker, Claim(w)
  PROVE  KeptInv'
<1>1. PICK q \in First(pending, Batch) : Take(w, q)
  BY DEF Claim
<1>2. pending \subseteq Click /\ Batch \in Nat
  BY ClickAssumption DEF KeptInv, TypeOK, Click
<1>3. q \in Seq(Click) /\ Len(q) <= Batch
  BY <1>2, FirstType
<1>4. ToSet(q) \subseteq Click
  BY <1>3, LenProperties, ElementOfSeq DEF ToSet
<1>5. DataOK'
  BY <1>1, <1>4, DataType DEF DataOK, Claim, Take, limit, group, sinks
<1>6. Acked' \subseteq Acked
  BY DEF Claim, Acked, group
<1> QED
  BY <1>1, <1>3, <1>5, <1>6, TakeKeeps DEF Claim

LEMMA ReadKeeps ==
  ASSUME KeptInv, NEW w \in Worker, Read(w)
  PROVE  KeptInv'
<1>1. /\ read \in Nat /\ sent \in Nat /\ read <= sent /\ sent <= MaxClick /\ pending \subseteq 1..read
      /\ MaxClick \in Nat /\ Batch \in Nat
  BY ClickAssumption DEF KeptInv, TypeOK
<1>2. /\ read' = IF read + Batch < sent THEN read + Batch ELSE sent
      /\ pending' = pending \cup (read + 1)..read'
      /\ Take(w, [i \in 1..(read' - read) |-> read + i])
      /\ job[w].pc = "read"
  BY DEF Read
<1>3. read' \in Nat /\ read <= read' /\ read' <= sent /\ read' - read <= Batch
  BY <1>1, <1>2
<1> DEFINE q == [i \in 1..(read' - read) |-> read + i]
<1>4. q \in Seq(Click) /\ Len(q) <= Batch /\ ToSet(q) \subseteq Click
  <2>1. read' <= MaxClick
    BY <1>1, <1>3
  <2>2. q \in Seq(Click) /\ Len(q) = read' - read /\ ToSet(q) = (read + 1)..read'
    BY <1>1, <1>3, <2>1, Counting
  <2> HIDE DEF q
  <2>3. (read + 1)..read' \subseteq Click
    BY <1>1, <1>3, <2>1 DEF Click
  <2> QED
    BY <1>3, <2>2, <2>3
<1> HIDE DEF q
<1>5. Take(w, q)
  BY <1>2 DEF q
<1>6. pending' \subseteq 1..read'
  BY <1>1, <1>2, <1>3
<1>7. DataOK'
  BY <1>1, <1>3, <1>4, <1>5, <1>6, DataType DEF DataOK, Take, limit, sinks
<1>8. Acked' \subseteq Acked
  BY <1>1, <1>2, <1>3 DEF Acked
<1> QED
  BY <1>2, <1>4, <1>5, <1>7, <1>8, TakeKeeps

LEMMA ParseKeeps ==
  ASSUME KeptInv, NEW w \in Worker, Parse(w)
  PROVE  KeptInv'
<1> DEFINE j == job[w]
<1>1. /\ j \in Job /\ Fits(j) /\ j.pc = "parse" /\ j.batch \in Seq(Click) /\ j.at \in Nat
      /\ Len(j.batch) \in Nat /\ \A i \in 1..Len(j.batch) : j.batch[i] \in Click
  BY JobType, SMTT(30) DEF Parse
<1>2. PICK n \in j.at..(Len(j.batch) + 1) :
        LET rows == j.rows \o SubSeq(j.batch, j.at, n - 1) IN
        IF n > Len(j.batch)
        THEN /\ job' = [job EXCEPT ![w] =
                  IF rows = <<>> THEN Done(w)
                  ELSE [j EXCEPT !.pc = "insert", !.rows = rows, !.at = 1]]
             /\ UNCHANGED <<dead, fails>>
        ELSE /\ Fail
             /\ job' = [job EXCEPT ![w] = [j EXCEPT !.pc = "parseAck", !.rows = rows, !.at = n]]
             /\ dead' = [dead EXCEPT ![j.batch[n]] = @ + 1]
  BY Zenon DEF Parse
<1>3. UNCHANGED <<limit, sent, group, attempts, stored, total, counted, history>>
  BY DEF Parse
<1> DEFINE rows == j.rows \o SubSeq(j.batch, j.at, n - 1)
           kept == [j EXCEPT !.pc = "insert", !.rows = rows, !.at = 1]
           lost == [j EXCEPT !.pc = "parseAck", !.rows = rows, !.at = n]
<1>4. rows \in Seq(Click) /\ Len(rows) \in Nat /\ Len(rows) < n
  BY <1>1, Parsed, LenProperties
<1>5. n \in Nat /\ n <= Len(j.batch) + 1 /\ n >= 1
  BY <1>1 DEF Fits
<1>6. Acked' = Acked
  BY <1>3 DEF Acked, group
<1>7. ASSUME n > Len(j.batch) PROVE KeptInv'
  <2>1. dead' = dead /\ fails' = fails
    BY <1>2, <1>7
  <2>2. DataOK' /\ Grown
    BY <1>3, <2>1, DataType DEF DataOK, Grown, limit, group, history
  <2>3. CASE rows = << >>
    <3>1. job' = [job EXCEPT ![w] = Done(w)]
      BY <1>2, <1>7, <2>3
    <3> QED
      BY <1>6, <2>2, <3>1, DoneFits, WorkerKeeps
  <2>4. CASE rows # << >>
    <3>1. job' = [job EXCEPT ![w] = kept]
      BY <1>2, <1>7, <2>4
    <3> HIDE DEF rows
    <3>2. kept \in Job /\ kept.pc = "insert" /\ kept.at = 1 /\ kept.rows = rows /\ kept.batch = j.batch
      BY <1>1, <1>4 DEF Job, PC
    <3>3. Fits(kept) /\ CopyFor(kept, stored', dead', misrouted')
      <4> HIDE DEF kept
      <4> QED
        BY <1>1, <1>4, <1>5, <3>2 DEF Fits, CopyFor
    <3> HIDE DEF kept
    <3> QED
      BY <1>6, <2>2, <3>1, <3>2, <3>3, WorkerKeeps
  <2> QED
    BY <2>3, <2>4
<1>8. ASSUME ~(n > Len(j.batch)) PROVE KeptInv'
  <2>1. Fail /\ job' = [job EXCEPT ![w] = lost] /\ dead' = [dead EXCEPT ![j.batch[n]] = @ + 1]
    BY <1>2, <1>8
  <2> HIDE DEF rows
  <2>2. j.batch[n] \in Click
    BY <1>1, <1>5, <1>8
  <2>3. DataOK' /\ Grown /\ dead'[j.batch[n]] > 0
    <3>1. DataOK /\ dead \in [Click -> Nat] /\ fails' \in 0..MaxFail
      BY <2>1, DataType, FailType DEF DataOK
    <3>2. dead' \in [Click -> Nat] /\ dead'[j.batch[n]] > 0 /\ \A c \in Click : dead'[c] >= dead[c]
      BY <2>1, <2>2, <3>1
    <3>3. stored' = stored /\ misrouted' = misrouted /\ stored \in [Click -> Nat]
      BY <1>3, <3>1 DEF history, DataOK
    <3> QED
      BY <1>3, <3>1, <3>2, <3>3 DEF DataOK, Grown, limit, group, history
  <2>4. lost \in Job /\ lost.pc = "parseAck" /\ lost.at = n /\ lost.rows = rows /\ lost.batch = j.batch
    BY <1>1, <1>4, <1>5 DEF Job, PC
  <2>5. Fits(lost) /\ CopyFor(lost, stored', dead', misrouted')
    <3> HIDE DEF lost
    <3> QED
      BY <1>1, <1>4, <1>5, <1>8, <2>3, <2>4 DEF Fits, CopyFor
  <2> HIDE DEF lost
  <2> QED
    BY <1>6, <2>1, <2>3, <2>4, <2>5, WorkerKeeps
<1> QED
  BY <1>7, <1>8

\* One click is acknowledged.
LEMMA AckOneData ==
  ASSUME KeptInv, NEW w \in Worker, NEW c \in Click, AckOne(w, c),
         dead[c] > 0 \/ c \in misrouted
  PROVE  /\ DataOK' /\ Grown
         /\ \A d \in Acked' : d \in Acked \/ stored'[d] > 0 \/ dead'[d] > 0 \/ d \in misrouted'
<1>1. 0 \in 0..(MaxAttempts - 1)
  BY ClickAssumption
<1>2. DataOK
  BY DataType
<1>3. /\ pending' = pending \ {c} /\ attempts' = [attempts EXCEPT ![w][c] = 0]
      /\ UNCHANGED <<limit, sent, read, sinks, fails, history>>
  BY DEF AckOne
<1>4. attempts' \in [Worker -> [Click -> 0..(MaxAttempts - 1)]]
  BY <1>1, <1>2, <1>3 DEF DataOK
<1>5. DataOK' /\ Grown
  <2>1. pending' \subseteq 1..read'
    BY <1>2, <1>3 DEF DataOK
  <2>2. DataOK'
    BY <1>2, <1>3, <1>4, <2>1 DEF DataOK, limit, sinks, history
  <2> QED
    BY <1>2, <1>3, <2>2 DEF DataOK, Grown, sinks, history
<1>6. \A d \in Acked' : d \in Acked \/ d = c
  BY <1>3 DEF Acked
<1> QED
  BY <1>3, <1>5, <1>6 DEF sinks, history

LEMMA ParseAckKeeps ==
  ASSUME KeptInv, NEW w \in Worker, ParseAck(w)
  PROVE  KeptInv'
<1> DEFINE j == job[w]
           next == [j EXCEPT !.pc = "parse", !.at = @ + 1]
<1>1. /\ j \in Job /\ Fits(j) /\ j.pc = "parseAck" /\ CopyFor(j, stored, dead, misrouted)
      /\ j.at \in Nat /\ Len(j.batch) \in Nat /\ Len(j.rows) \in Nat
      /\ \A i \in 1..Len(j.batch) : j.batch[i] \in Click
  BY JobType DEF ParseAck
<1>2. j.at \in 1..Len(j.batch)
  BY <1>1 DEF Fits
<1>3. j.batch[j.at] \in Click /\ dead[j.batch[j.at]] > 0
  BY <1>1, <1>2 DEF CopyFor
<1>4. AckOne(w, j.batch[j.at]) /\ job' = [job EXCEPT ![w] = next]
  BY DEF ParseAck, KeptInv, TypeOK
<1>5. next \in Job /\ next.pc = "parse" /\ next.at = j.at + 1 /\ next.rows = j.rows /\ next.batch = j.batch
  <2> HIDE DEF j
  <2>1. j.at + 1 \in Nat
    BY <1>1
  <2> QED
    BY <1>1, <2>1 DEF Job, PC
<1> HIDE DEF next
<1>6. Fits(next) /\ CopyFor(next, stored', dead', misrouted')
  BY <1>1, <1>2, <1>5 DEF Fits, CopyFor
<1> QED
  BY <1>3, <1>4, <1>5, <1>6, AckOneData, WorkerKeeps

LEMMA FailAckKeeps ==
  ASSUME KeptInv, NEW w \in Worker, FailAck(w)
  PROVE  KeptInv'
<1> DEFINE j == job[w]
           next == [j EXCEPT !.pc = "failed", !.at = @ + 1]
<1>1. /\ j \in Job /\ Fits(j) /\ j.pc = "failAck" /\ CopyFor(j, stored, dead, misrouted)
      /\ j.at \in Nat /\ Len(j.batch) \in Nat /\ Len(j.rows) \in Nat
      /\ \A i \in 1..Len(j.rows) : j.rows[i] \in Click
  BY JobType DEF FailAck
<1>2. j.at \in 1..Len(j.rows) /\ Len(j.rows) <= Len(j.batch)
  BY <1>1 DEF Fits
<1>3. j.rows[j.at] \in Click /\ (j.rows[j.at] \in misrouted \/ dead[j.rows[j.at]] > 0)
  BY <1>1, <1>2 DEF CopyFor
<1>4. AckOne(w, j.rows[j.at]) /\ job' = [job EXCEPT ![w] = next]
  BY DEF FailAck, KeptInv, TypeOK
<1>5. next \in Job /\ next.pc = "failed" /\ next.at = j.at + 1 /\ next.rows = j.rows /\ next.batch = j.batch
  <2> HIDE DEF j
  <2>1. j.at + 1 \in Nat
    BY <1>1
  <2> QED
    BY <1>1, <2>1 DEF Job, PC
<1> HIDE DEF next
<1>6. Fits(next) /\ CopyFor(next, stored', dead', misrouted')
  BY <1>1, <1>2, <1>5 DEF Fits, CopyFor
<1> QED
  BY <1>3, <1>4, <1>5, <1>6, AckOneData, WorkerKeeps

LEMMA InsertKeeps ==
  ASSUME KeptInv, NEW w \in Worker, Insert(w)
  PROVE  KeptInv'
<1> DEFINE j == job[w]
           rows == ToSet(j.rows)
           ack == [j EXCEPT !.pc = "ack"]
           failed == [j EXCEPT !.pc = "failed"]
<1>1. /\ j \in Job /\ Fits(j) /\ DOMAIN j.rows = 1..Len(j.rows)
      /\ \A i \in 1..Len(j.rows) : j.rows[i] \in Click
  BY JobType
<1>2. ack \in Job /\ ack.pc = "ack" /\ ack.at = j.at /\ ack.rows = j.rows /\ ack.batch = j.batch
  BY <1>1 DEF Job, PC
<1>3. failed \in Job /\ failed.pc = "failed" /\ failed.at = j.at /\ failed.rows = j.rows /\ failed.batch = j.batch
  BY <1>1 DEF Job, PC
<1>4. /\ \/ job' = [job EXCEPT ![w] = ack] /\ fails' = fails
         \/ job' = [job EXCEPT ![w] = failed] /\ Fail
      /\ \/ stored' = [c \in Click |-> stored[c] + IF c \in rows THEN 1 ELSE 0]
         \/ stored' = stored /\ fails' # fails
      /\ UNCHANGED <<limit, sent, group, attempts, dead, total, counted, history>>
  BY DEF Insert, KeptInv, TypeOK
<1> HIDE DEF ack, failed
<1>5. fails' \in 0..MaxFail
  BY <1>4, FailType DEF KeptInv, TypeOK
<1>6. stored \in [Click -> Nat] /\ stored' \in [Click -> Nat] /\ \A c \in Click : stored'[c] >= stored[c]
  <2> HIDE DEF rows
  <2>1. stored \in [Click -> Nat]
    BY DEF KeptInv, TypeOK
  <2>2. CASE stored' = stored
    BY <2>1, <2>2
  <2>3. CASE stored' = [c \in Click |-> stored[c] + IF c \in rows THEN 1 ELSE 0]
    BY <2>1, <2>3
  <2> QED
    BY <1>4, <2>1, <2>2, <2>3
<1>7. DataOK' /\ Grown
  BY <1>4, <1>5, <1>6, DataType DEF DataOK, Grown, limit, group, history
<1>8. Acked' = Acked
  BY <1>4 DEF Acked, group
<1>9. CASE job' = [job EXCEPT ![w] = ack] /\ fails' = fails
  <2>1. \A i \in DOMAIN j.rows : stored'[j.rows[i]] > 0
    BY <1>1, <1>4, <1>6, <1>9 DEF ToSet
  <2>2. Fits(ack) /\ CopyFor(ack, stored', dead', misrouted')
    BY <1>1, <1>2, <2>1 DEF Fits, CopyFor
  <2> QED
    BY <1>2, <1>7, <1>8, <1>9, <2>2, WorkerKeeps
<1>10. CASE job' = [job EXCEPT ![w] = failed]
  <2>1. Fits(failed) /\ CopyFor(failed, stored', dead', misrouted')
    BY <1>1, <1>3 DEF Fits, CopyFor
  <2> QED
    BY <1>3, <1>7, <1>8, <1>10, <2>1, WorkerKeeps
<1> QED
  BY <1>4, <1>9, <1>10

LEMMA FailedEndKeeps ==
  ASSUME KeptInv, NEW w \in Worker, FailedEnd(w)
  PROVE  KeptInv'
<1>1. job' = [job EXCEPT ![w] = Done(w)] /\ UNCHANGED <<limit, sent, group, attempts, sinks, fails, history>>
  BY DEF FailedEnd
<1>2. DataOK' /\ Grown
  BY <1>1, DataType DEF DataOK, Grown, limit, group, sinks, history
<1>3. Acked' = Acked
  BY <1>1 DEF Acked, group
<1> QED
  BY <1>1, <1>2, <1>3, DoneFits, WorkerKeeps

\* The click of a turn of the loop, and the entry at its index.
LEMMA LoopType ==
  ASSUME KeptInv, NEW w \in Worker, InLoop(w)
  PROVE  /\ job[w].at \in 1..Len(job[w].rows) /\ Len(job[w].rows) <= Len(job[w].batch)
         /\ Len(job[w].rows) \in Nat /\ Len(job[w].batch) \in Nat
         /\ Subject(w) \in Click /\ job[w].batch[job[w].at] \in Click
         /\ job[w].pc = "failed" /\ Fits(job[w]) /\ job[w] \in Job
<1>1. job[w].at \in 1..Len(job[w].rows) /\ Len(job[w].rows) <= Len(job[w].batch)
  BY JobType DEF InLoop, Fits
<1>2. job[w].at \in 1..Len(job[w].batch)
  BY <1>1, JobType
<1> QED
  BY <1>1, <1>2, JobType DEF InLoop, Subject

LEMMA RetryKeeps ==
  ASSUME KeptInv, NEW w \in Worker, Retry(w)
  PROVE  KeptInv'
<1> DEFINE j == job[w]
           next == [j EXCEPT !.at = @ + 1]
<1>1. /\ j.at \in 1..Len(j.rows) /\ Len(j.rows) <= Len(j.batch) /\ Subject(w) \in Click
      /\ Len(j.rows) \in Nat /\ Len(j.batch) \in Nat
      /\ j.pc = "failed" /\ Fits(j) /\ j \in Job
  BY LoopType DEF Retry
<1>2. /\ Tries(w) < MaxAttempts
      /\ attempts' = [attempts EXCEPT ![w][Subject(w)] = @ + 1]
      /\ job' = [job EXCEPT ![w] = next]
      /\ UNCHANGED <<limit, sent, group, sinks, fails, history>>
  BY DEF Retry, KeptInv, TypeOK
<1>3. next \in Job /\ next.pc = "failed" /\ next.at = j.at + 1 /\ next.rows = j.rows /\ next.batch = j.batch
  <2> HIDE DEF j
  <2>1. j.at + 1 \in Nat
    BY <1>1
  <2> QED
    BY <1>1, <2>1 DEF Job
<1> HIDE DEF next
<1>4. Fits(next) /\ CopyFor(next, stored', dead', misrouted')
  BY <1>1, <1>3 DEF Fits, CopyFor
<1>5. attempts' \in [Worker -> [Click -> 0..(MaxAttempts - 1)]]
  <2>1. attempts \in [Worker -> [Click -> 0..(MaxAttempts - 1)]]
    BY DEF KeptInv, TypeOK
  <2>2. attempts[w][Subject(w)] + 1 \in 0..(MaxAttempts - 1)
    BY <1>1, <1>2, <2>1, ClickAssumption DEF Tries
  <2> QED
    BY <1>1, <1>2, <2>1, <2>2
<1>6. DataOK' /\ Grown
  BY <1>2, <1>5, DataType DEF DataOK, Grown, limit, group, sinks, history
<1>7. Acked' = Acked
  BY <1>2 DEF Acked, group
<1> QED
  BY <1>2, <1>3, <1>4, <1>6, <1>7, WorkerKeeps

LEMMA GiveUpKeeps ==
  ASSUME KeptInv, NEW w \in Worker, GiveUp(w)
  PROVE  KeptInv'
<1> DEFINE j == job[w]
           other == j.batch[j.at]
           next == [j EXCEPT !.pc = "failAck"]
<1>1. /\ j.at \in 1..Len(j.rows) /\ Len(j.rows) <= Len(j.batch)
      /\ Len(j.rows) \in Nat /\ Len(j.batch) \in Nat
      /\ Subject(w) \in Click /\ other \in Click /\ Fits(j) /\ j \in Job
  BY LoopType DEF GiveUp
<1>2. /\ dead' = [dead EXCEPT ![other] = @ + 1]
      /\ misrouted' = misrouted \cup ({Subject(w)} \ {other})
      /\ job' = [job EXCEPT ![w] = next]
      /\ UNCHANGED <<limit, sent, group, attempts, stored, total, counted, fails, shared>>
  BY DEF GiveUp, KeptInv, TypeOK
<1>3. next \in Job /\ next.pc = "failAck" /\ next.at = j.at /\ next.rows = j.rows /\ next.batch = j.batch
  BY <1>1 DEF Job, PC
<1>4. /\ dead' \in [Click -> Nat] /\ dead'[other] > 0
      /\ \A c \in Click : dead'[c] >= dead[c]
  <2>1. dead \in [Click -> Nat]
    BY DEF KeptInv, TypeOK
  <2> HIDE DEF other
  <2> QED
    BY <1>1, <1>2, <2>1
<1>5. Subject(w) \in misrouted' \/ dead'[Subject(w)] > 0
  BY <1>2, <1>4
<1> HIDE DEF next, other
<1>6. Fits(next) /\ CopyFor(next, stored', dead', misrouted')
  BY <1>1, <1>3, <1>5 DEF Fits, CopyFor, Subject
<1>7. DataOK' /\ Grown
  <2>1. DataOK'
    BY <1>1, <1>2, <1>4, DataType DEF DataOK, limit, group
  <2> QED
    BY <1>2, <1>4, <2>1 DEF DataOK, Grown
<1>8. Acked' = Acked
  BY <1>2 DEF Acked, group
<1> QED
  BY <1>2, <1>3, <1>6, <1>7, <1>8, WorkerKeeps

LEMMA AckKeeps ==
  ASSUME KeptInv, NEW w \in Worker, Ack(w)
  PROVE  KeptInv'
<1> DEFINE j == job[w]
           rows == ToSet(j.rows)
           next == [j EXCEPT !.pc = "count"]
<1>1. /\ j \in Job /\ Fits(j) /\ CopyFor(j, stored, dead, misrouted) /\ j.pc = "ack"
  BY JobType DEF Ack
<1>2. /\ pending' = pending \ rows
      /\ attempts' = [attempts EXCEPT ![w] = [c \in Click |-> IF c \in rows THEN 0 ELSE @[c]]]
      /\ job' = [job EXCEPT ![w] = next]
      /\ UNCHANGED <<limit, sent, read, sinks, fails, history>>
  BY DEF Ack, KeptInv, TypeOK
<1>3. \A c \in rows : stored[c] > 0
  BY <1>1 DEF CopyFor, ToSet
<1>4. next \in Job /\ next.pc = "count" /\ next.at = j.at /\ next.rows = j.rows /\ next.batch = j.batch
  BY <1>1 DEF Job, PC
<1> HIDE DEF rows, next
<1>5. Fits(next) /\ CopyFor(next, stored', dead', misrouted')
  BY <1>1, <1>4 DEF Fits, CopyFor
<1>6. attempts' \in [Worker -> [Click -> 0..(MaxAttempts - 1)]]
  <2>1. attempts \in [Worker -> [Click -> 0..(MaxAttempts - 1)]] /\ 0 \in 0..(MaxAttempts - 1)
    BY ClickAssumption DEF KeptInv, TypeOK
  <2> QED
    BY <1>2, <2>1
<1>7. DataOK' /\ Grown
  <2>1. DataOK /\ pending' \subseteq 1..read'
    BY <1>2, DataType DEF DataOK
  <2>2. DataOK'
    BY <1>2, <1>6, <2>1 DEF DataOK, limit, sinks, history
  <2> QED
    BY <1>2, <2>1, <2>2 DEF DataOK, Grown, sinks, history
<1>8. \A c \in Acked' : c \in Acked \/ stored'[c] > 0
  BY <1>2, <1>3 DEF Acked, sinks
<1> QED
  BY <1>2, <1>4, <1>5, <1>7, <1>8, WorkerKeeps

LEMMA CountKeeps ==
  ASSUME KeptInv, NEW w \in Worker, Count(w)
  PROVE  KeptInv'
<1> DEFINE rows == ToSet(job[w].rows)
<1>1. /\ \/ /\ counted' = [c \in Click |-> counted[c] + IF c \in rows THEN 1 ELSE 0]
            /\ total' = total + Len(job[w].rows) /\ fails' = fails
         \/ Fail /\ UNCHANGED <<total, counted>>
      /\ job' = [job EXCEPT ![w] = Done(w)]
      /\ UNCHANGED <<limit, sent, group, attempts, stored, dead, history>>
  BY DEF Count
<1> HIDE DEF rows
<1>2. fails' \in 0..MaxFail /\ total' \in Nat /\ counted' \in [Click -> Nat]
  <2>1. fails \in 0..MaxFail /\ total \in Nat /\ counted \in [Click -> Nat] /\ Len(job[w].rows) \in Nat
    BY JobType DEF KeptInv, TypeOK
  <2>2. CASE Fail /\ UNCHANGED <<total, counted>>
    BY <2>1, <2>2, FailType
  <2>3. CASE /\ counted' = [c \in Click |-> counted[c] + IF c \in rows THEN 1 ELSE 0]
             /\ total' = total + Len(job[w].rows) /\ fails' = fails
    BY <2>1, <2>3
  <2> QED
    BY <1>1, <2>2, <2>3
<1>3. DataOK' /\ Grown
  BY <1>1, <1>2, DataType DEF DataOK, Grown, limit, group, history
<1>4. Acked' = Acked
  BY <1>1 DEF Acked, group
<1> QED
  BY <1>1, <1>3, <1>4, DoneFits, WorkerKeeps

LEMMA BreakKeeps ==
  ASSUME KeptInv, NEW w \in Worker, LoopError(w) \/ Crash(w)
  PROVE  KeptInv'
<1>1. /\ Fail /\ job' = [job EXCEPT ![w] = Idle("claim")]
      /\ UNCHANGED <<limit, sent, group, sinks, history>>
  BY DEF LoopError, Crash
<1>2. fails' \in 0..MaxFail
  BY <1>1, FailType
<1>3. attempts' \in [Worker -> [Click -> 0..(MaxAttempts - 1)]]
  <2>1. attempts \in [Worker -> [Click -> 0..(MaxAttempts - 1)]] /\ 0 \in 0..(MaxAttempts - 1)
    BY ClickAssumption DEF KeptInv, TypeOK
  <2> QED
    BY <2>1 DEF LoopError, Crash
<1>4. DataOK' /\ Grown
  BY <1>1, <1>2, <1>3, DataType DEF DataOK, Grown, limit, group, sinks, history
<1>5. Acked' = Acked
  BY <1>1 DEF Acked, group
<1> QED
  BY <1>1, <1>4, <1>5, IdleFits, WorkerKeeps

LEMMA KeptStep == KeptInv /\ [Next]_vars => KeptInv'
<1> SUFFICES ASSUME KeptInv, [Next]_vars PROVE KeptInv'
  OBVIOUS
<1>1. ASSUME NEW k \in Code, Visit(k) \/ VisitUnlimited(k) \/ PayloadGone(k) \/ CounterGone(k)
      PROVE  KeptInv'
  BY <1>1, RedirectKeeps
<1>2. ASSUME NEW w \in Worker, Work(w) PROVE KeptInv'
  BY <1>2, ClaimKeeps, ReadKeeps, ParseKeeps, ParseAckKeeps, InsertKeeps, FailedEndKeeps,
     RetryKeeps, GiveUpKeeps, FailAckKeeps, AckKeeps, CountKeeps DEF Work
<1>3. ASSUME NEW w \in Worker, LoopError(w) \/ Crash(w) PROVE KeptInv'
  BY <1>3, BreakKeeps
<1>4. CASE UNCHANGED vars
  BY <1>4 DEF vars, limit, group, sinks, history, KeptInv, TypeOK, JobsFit, CopiesHeld,
              LostOnlyByMisroute, Acked, Kept
<1> QED
  BY <1>1, <1>2, <1>3, <1>4 DEF Next

\* Every value of every variable has its type, for any constants.
THEOREM ClickTypes == Spec => []TypeOK
<1>1. KeptInv => TypeOK
  BY DEF KeptInv
<1> QED
  BY KeptInit, KeptStep, <1>1, PTL DEF Spec

\* click-ingest.ts:14-15, as far as it holds: whatever fails or repeats and
\* however many workers there are, an acknowledged click is in ClickHouse or
\* among the dead letters, or was given up with another click's fields.
THEOREM OnlyMisroutesLose == Spec => []LostOnlyByMisroute
<1>1. KeptInv => LostOnlyByMisroute
  BY DEF KeptInv
<1> QED
  BY KeptInit, KeptStep, <1>1, PTL DEF Spec

-----------------------------------------------------------------------------
(***************************************************************************)
(* clicks_total against ClickHouse: a worker between its insert and its    *)
(* update owes the total the clicks it inserted, and every row is either   *)
(* counted, owed, or will never be.                                        *)
(***************************************************************************)
Owing(j, c) == j.pc \in {"ack", "count"} /\ c \in ToSet(j.rows)
Owed(c) == {w \in Worker : Owing(job[w], c)}
Balance(c) == counted[c] + Cardinality(Owed(c)) <= stored[c]

OwedInv == KeptInv /\ \A c \in Click : Balance(c)

LEMMA OwedFinite ==
  /\ \A c : IsFiniteSet(Owed(c)) /\ Cardinality(Owed(c)) \in Nat
  /\ \A c : IsFiniteSet(Owed(c)') /\ Cardinality(Owed(c)') \in Nat
<1>1. \A c : IsFiniteSet(Owed(c)) /\ IsFiniteSet(Owed(c)')
  BY ClickAssumption, FS_Subset DEF Owed
<1> QED
  BY <1>1, FS_CardinalityType

\* Nobody owes c who did not before, and nothing of it is counted.
LEMMA BalanceKept ==
  ASSUME OwedInv, KeptInv', NEW c \in Click, Owed(c)' \subseteq Owed(c),
         counted'[c] = counted[c], stored'[c] >= stored[c]
  PROVE  Balance(c)'
<1>1. Cardinality(Owed(c)') <= Cardinality(Owed(c))
  BY OwedFinite, FS_Subset
<1>2. counted[c] \in Nat /\ stored[c] \in Nat /\ stored'[c] \in Nat
  BY DEF OwedInv, KeptInv, TypeOK
<1>3. counted[c] + Cardinality(Owed(c)) <= stored[c]
  BY DEF OwedInv, Balance
<1>4. Cardinality(Owed(c)) \in Nat /\ Cardinality(Owed(c)') \in Nat
  BY OwedFinite
<1>5. counted'[c] + Cardinality(Owed(c)') <= stored'[c]
  BY <1>1, <1>2, <1>3, <1>4
<1> QED
  BY <1>5 DEF Balance

\* A step of w after which it owes nothing it did not owe before.
LEMMA OwesNoMore ==
  ASSUME KeptInv, NEW w \in Worker, NEW j, job' = [job EXCEPT ![w] = j],
         NEW c, Owing(j, c) => Owing(job[w], c)
  PROVE  Owed(c)' \subseteq Owed(c)
BY DEF Owed, KeptInv, TypeOK

LEMMA OwedInit == Init => OwedInv
<1> SUFFICES ASSUME Init, NEW c \in Click PROVE Balance(c)
  BY KeptInit DEF OwedInv
<1>1. Owed(c) = {}
  BY DEF Init, Owed, Owing, Idle
<1>2. Cardinality(Owed(c)) = 0
  BY <1>1, FS_EmptySet
<1>3. counted[c] = 0 /\ stored[c] = 0
  BY DEF Init
<1> QED
  BY <1>2, <1>3 DEF Balance

LEMMA InsertBalance ==
  ASSUME OwedInv, KeptInv', NEW w \in Worker, Insert(w), NEW c \in Click
  PROVE  Balance(c)'
<1> DEFINE j == job[w]
           ack == [j EXCEPT !.pc = "ack"]
           failed == [j EXCEPT !.pc = "failed"]
<1>0. KeptInv
  BY DEF OwedInv
<1>1. j \in Job /\ j.pc = "insert" /\ stored[c] \in Nat /\ counted[c] \in Nat
  BY <1>0, JobType DEF Insert, KeptInv, TypeOK
<1>2. ack.pc = "ack" /\ ack.rows = j.rows /\ failed.pc = "failed"
  BY <1>1 DEF Job, PC
<1>3. /\ \/ job' = [job EXCEPT ![w] = ack] /\ fails' = fails
         \/ job' = [job EXCEPT ![w] = failed]
      /\ \/ stored' = [d \in Click |-> stored[d] + IF d \in ToSet(j.rows) THEN 1 ELSE 0]
         \/ stored' = stored /\ fails' # fails
      /\ counted' = counted
  BY <1>0 DEF Insert, KeptInv, TypeOK
<1> HIDE DEF ack, failed
<1>4. stored'[c] >= stored[c] /\ stored'[c] \in Nat
  BY <1>1, <1>3
<1>5. CASE job' = [job EXCEPT ![w] = failed]
  <2>1. Owed(c)' \subseteq Owed(c)
    BY <1>0, <1>2, <1>5, OwesNoMore DEF Owing
  <2> QED
    BY <1>3, <1>4, <2>1, BalanceKept
<1>6. CASE job' = [job EXCEPT ![w] = ack] /\ fails' = fails
  <2>1. stored'[c] = stored[c] + IF c \in ToSet(j.rows) THEN 1 ELSE 0
    BY <1>3, <1>6
  <2>2. CASE c \in ToSet(j.rows)
    <3>1. Owed(c)' = Owed(c) \cup {w}
      BY <1>0, <1>2, <1>6, <2>2 DEF Owed, Owing, KeptInv, TypeOK
    <3>2. w \notin Owed(c)
      BY <1>1 DEF Owed, Owing
    <3>3. Cardinality(Owed(c)') = Cardinality(Owed(c)) + 1
      BY <3>1, <3>2, OwedFinite, FS_AddElement
    <3>4. counted[c] + Cardinality(Owed(c)) <= stored[c] /\ Cardinality(Owed(c)) \in Nat
      BY OwedFinite DEF OwedInv, Balance
    <3>5. counted'[c] + Cardinality(Owed(c)') <= stored'[c]
      BY <1>1, <1>3, <2>1, <2>2, <3>3, <3>4
    <3> QED
      BY <3>5 DEF Balance
  <2>3. CASE c \notin ToSet(j.rows)
    <3>1. Owed(c)' \subseteq Owed(c)
      BY <1>0, <1>2, <1>6, <2>3, OwesNoMore DEF Owing
    <3> QED
      BY <1>3, <1>4, <3>1, BalanceKept
  <2> QED
    BY <2>2, <2>3
<1> QED
  BY <1>3, <1>5, <1>6

LEMMA CountBalance ==
  ASSUME OwedInv, KeptInv', NEW w \in Worker, Count(w), NEW c \in Click
  PROVE  Balance(c)'
<1>0. KeptInv
  BY DEF OwedInv
<1>1. job' = [job EXCEPT ![w] = Done(w)] /\ ~Owing(Done(w), c) /\ stored' = stored
  BY <1>0, DoneFits DEF Count, Owing
<1>2. Owed(c)' \subseteq Owed(c) \ {w}
  BY <1>0, <1>1 DEF Owed, KeptInv, TypeOK
<1>3. counted[c] \in Nat /\ stored[c] \in Nat /\ counted \in [Click -> Nat]
  BY <1>0 DEF KeptInv, TypeOK
<1>4. CASE counted'[c] = counted[c]
  <2>1. Owed(c)' \subseteq Owed(c)
    BY <1>2
  <2> QED
    BY <1>1, <1>3, <1>4, <2>1, BalanceKept
<1>5. CASE counted'[c] = counted[c] + 1 /\ c \in ToSet(job[w].rows)
  <2>1. w \in Owed(c)
    BY <1>5 DEF Count, Owed, Owing
  <2>2. IsFiniteSet(Owed(c) \ {w}) /\ Cardinality(Owed(c) \ {w}) = Cardinality(Owed(c)) - 1
    BY <2>1, OwedFinite, FS_RemoveElement
  <2>3. Cardinality(Owed(c)') <= Cardinality(Owed(c)) - 1
    BY <1>2, <2>2, FS_Subset
  <2>4. counted[c] + Cardinality(Owed(c)) <= stored[c]
    BY DEF OwedInv, Balance
  <2>5. Cardinality(Owed(c)) \in Nat /\ Cardinality(Owed(c)') \in Nat
    BY OwedFinite
  <2>6. counted'[c] + Cardinality(Owed(c)') <= stored'[c]
    BY <1>1, <1>3, <1>5, <2>3, <2>4, <2>5
  <2> QED
    BY <2>6 DEF Balance
<1>6. counted'[c] = counted[c] \/ (counted'[c] = counted[c] + 1 /\ c \in ToSet(job[w].rows))
  BY <1>3 DEF Count
<1> QED
  BY <1>4, <1>5, <1>6

\* The other steps count nothing and let nobody owe a click.
LEMMA OtherBalance ==
  ASSUME OwedInv, KeptInv', NEW c \in Click, NEW w \in Worker,
         \/ Claim(w) \/ Read(w) \/ Parse(w) \/ ParseAck(w) \/ FailedEnd(w) \/ Retry(w)
         \/ GiveUp(w) \/ FailAck(w) \/ Ack(w) \/ LoopError(w) \/ Crash(w)
  PROVE  Balance(c)'
<1>0. KeptInv /\ job \in [Worker -> Job] /\ job[w] \in Job /\ stored[c] \in Nat
  BY Zenon DEF OwedInv, KeptInv, TypeOK
<1>1. counted'[c] = counted[c] /\ stored'[c] >= stored[c]
  <2>1. CASE Claim(w) \/ Read(w)
    BY <1>0, <2>1 DEF Claim, Read, Take, sinks
  <2>2. CASE Parse(w)
    <3>1. UNCHANGED <<limit, sent, group, attempts, stored, total, counted, history>>
      BY <2>2, Zenon DEF Parse
    <3> QED
      BY <1>0, <3>1
  <2>3. CASE ParseAck(w) \/ FailAck(w)
    BY <1>0, <2>3 DEF ParseAck, FailAck, AckOne, sinks
  <2>4. CASE FailedEnd(w) \/ Retry(w) \/ GiveUp(w)
    BY <1>0, <2>4 DEF FailedEnd, Retry, GiveUp, sinks
  <2>5. CASE Ack(w) \/ LoopError(w) \/ Crash(w)
    BY <1>0, <2>5, SMTT(30) DEF Ack, LoopError, Crash, sinks
  <2> QED
    BY <2>1, <2>2, <2>3, <2>4, <2>5
<1>2. \A v \in Worker \ {w} : job'[v] = job[v]
  BY <1>0, Zenon DEF Claim, Read, Take, Parse, ParseAck, FailedEnd, Retry, GiveUp, FailAck, Ack,
              LoopError, Crash
<1>3. Owing(job'[w], c) => Owing(job[w], c)
  <2>1. CASE Claim(w) \/ Read(w)
    <3>1. job'[w].pc \in {"claim", "read", "parse"}
      BY <1>0, <2>1 DEF Claim, Read, Take, Given, Idle
    <3> QED
      BY <3>1 DEF Owing
  <2>2. CASE Parse(w)
    <3>1. Done(w).pc \in {"claim", "read"}
      BY <1>0, DoneFits
    <3>2. job'[w].pc \in {"claim", "read", "insert", "parseAck"}
      BY <1>0, <2>2, <3>1 DEF Parse, Job
    <3> QED
      BY <3>2 DEF Owing
  <2>3. CASE ParseAck(w) \/ FailAck(w) \/ Retry(w) \/ GiveUp(w)
    <3>1. job'[w].pc \in {"parse", "failed", "failAck"}
      BY <1>0, <2>3 DEF ParseAck, FailAck, Retry, GiveUp, InLoop, Job
    <3> QED
      BY <3>1 DEF Owing
  <2>4. CASE FailedEnd(w) \/ LoopError(w) \/ Crash(w)
    <3>1. Done(w).pc \in {"claim", "read"} /\ Idle("claim").pc = "claim"
      BY <1>0, DoneFits DEF Idle
    <3>2. job'[w].pc \in {"claim", "read"}
      BY <1>0, <2>4, <3>1 DEF FailedEnd, LoopError, Crash
    <3> QED
      BY <3>2 DEF Owing
  <2>5. CASE Ack(w)
    <3>1. job[w].pc = "ack" /\ job'[w].rows = job[w].rows
      BY <1>0, <2>5 DEF Ack, Job
    <3> QED
      BY <3>1 DEF Owing
  <2> QED
    BY <2>1, <2>2, <2>3, <2>4, <2>5
<1>4. Owed(c)' \subseteq Owed(c)
  BY <1>2, <1>3 DEF Owed
<1> QED
  BY <1>1, <1>4, BalanceKept

LEMMA OwedStep == OwedInv /\ [Next]_vars => OwedInv'
<1> SUFFICES ASSUME OwedInv, [Next]_vars, NEW c \in Click PROVE Balance(c)'
  BY KeptStep DEF OwedInv
<1>0. KeptInv /\ KeptInv'
  BY KeptStep DEF OwedInv
<1>1. CASE UNCHANGED <<job, sinks>>
  <2>1. Owed(c)' = Owed(c) /\ counted' = counted /\ stored' = stored /\ stored[c] \in Nat
    BY <1>0, <1>1 DEF Owed, sinks, KeptInv, TypeOK
  <2> QED
    BY <1>0, <2>1, BalanceKept
<1>2. ASSUME NEW k \in Code, Visit(k) \/ VisitUnlimited(k) \/ PayloadGone(k) \/ CounterGone(k)
      PROVE  UNCHANGED <<job, sinks>>
  BY <1>2 DEF Visit, VisitUnlimited, PayloadGone, CounterGone
<1>3. ASSUME NEW w \in Worker, Work(w) \/ LoopError(w) \/ Crash(w)
      PROVE  Balance(c)'
  BY <1>0, <1>3, InsertBalance, CountBalance, OtherBalance DEF Work
<1>4. UNCHANGED vars => UNCHANGED <<job, sinks>>
  BY DEF vars
<1> QED
  BY <1>1, <1>2, <1>3, <1>4 DEF Next

\* clicks_total never counts a click more often than ClickHouse stored it.
THEOREM TotalNeverAhead == Spec => []CountedOnlyIfStored
<1>1. OwedInv => CountedOnlyIfStored
  <2> SUFFICES ASSUME OwedInv, NEW c \in Click PROVE counted[c] <= stored[c]
    BY DEF CountedOnlyIfStored
  <2>1. counted[c] \in Nat /\ stored[c] \in Nat /\ Cardinality(Owed(c)) \in Nat
    BY OwedFinite DEF OwedInv, KeptInv, TypeOK
  <2> QED
    BY <2>1 DEF OwedInv, Balance
<1> QED
  BY OwedInit, OwedStep, <1>1, PTL DEF Spec

-----------------------------------------------------------------------------
(***************************************************************************)
(* The limit: every click that passed has a slot of a counter that stands, *)
(* was in one that expired, or met an error.                               *)
(***************************************************************************)
Slots == {s \in Code \X (1..Cap) : s[2] <= used[s[1]]}

Spent == passed <= Cardinality(Slots) + Cap * resets + fails

SlotInv == KeptInv /\ Spent

LEMMA SlotsFinite ==
  /\ IsFiniteSet(Code \X (1..Cap)) /\ Cardinality(Code \X (1..Cap)) = Cardinality(Code) * Cap
  /\ IsFiniteSet(Slots) /\ Cardinality(Slots) \in Nat /\ Slots \subseteq Code \X (1..Cap)
  /\ IsFiniteSet(Slots') /\ Cardinality(Slots') \in Nat /\ Slots' \subseteq Code \X (1..Cap)
<1>1. Cap \in Nat /\ IsFiniteSet(Code)
  BY ClickAssumption
<1>2. IsFiniteSet(1..Cap) /\ Cardinality(1..Cap) = Cap
  BY <1>1, FS_Interval
<1>3. IsFiniteSet(Code \X (1..Cap)) /\ Cardinality(Code \X (1..Cap)) = Cardinality(Code) * Cap
  BY <1>1, <1>2, FS_Product
<1>4. Slots \subseteq Code \X (1..Cap) /\ Slots' \subseteq Code \X (1..Cap)
  BY DEF Slots
<1> QED
  BY <1>3, <1>4, FS_Subset, FS_CardinalityType

\* A counter that is seeded or goes up keeps its slots; one that goes up to a
\* number within the limit takes another.
LEMMA CounterUp ==
  ASSUME KeptInv, NEW k \in Code, NEW n \in Nat, n >= used[k], used' = [used EXCEPT ![k] = n]
  PROVE  /\ Cardinality(Slots) <= Cardinality(Slots')
         /\ n > used[k] /\ n \in 1..Cap => Cardinality(Slots) + 1 <= Cardinality(Slots')
<1>1. used \in [Code -> Nat \cup {Unset}] /\ Cap \in Nat
  BY ClickAssumption DEF KeptInv, TypeOK
<1>2. Slots \subseteq Slots'
  BY <1>1 DEF Slots, Unset
<1>3. Cardinality(Slots) <= Cardinality(Slots')
  BY <1>2, SlotsFinite, FS_Subset
<1>4. ASSUME n > used[k], n \in 1..Cap PROVE Cardinality(Slots) + 1 <= Cardinality(Slots')
  <2>1. <<k, n>> \in Slots' /\ <<k, n>> \notin Slots
    BY <1>1, <1>4 DEF Slots, Unset
  <2>2. Cardinality(Slots \cup {<<k, n>>}) = Cardinality(Slots) + 1
        /\ IsFiniteSet(Slots \cup {<<k, n>>})
    BY <2>1, SlotsFinite, FS_AddElement
  <2>3. Slots \cup {<<k, n>>} \subseteq Slots'
    BY <1>2, <2>1
  <2> QED
    BY <2>2, <2>3, SlotsFinite, FS_Subset
<1> QED
  BY <1>3, <1>4

\* A counter that expires gives up at most a limit of slots.
LEMMA CounterDown ==
  ASSUME KeptInv, NEW k \in Code, used' = [used EXCEPT ![k] = Unset]
  PROVE  Cardinality(Slots) <= Cardinality(Slots') + Cap
<1> DEFINE col == {k} \X (1..Cap)
<1>1. Cap \in Nat /\ used \in [Code -> Nat \cup {Unset}]
  BY ClickAssumption DEF KeptInv, TypeOK
<1>2. IsFiniteSet(col) /\ Cardinality(col) = Cap
  <2>1. IsFiniteSet(1..Cap) /\ Cardinality(1..Cap) = Cap
    BY <1>1, FS_Interval
  <2>2. IsFiniteSet({k}) /\ Cardinality({k}) = 1
    BY FS_Singleton
  <2>3. IsFiniteSet(col) /\ Cardinality(col) = 1 * Cap
    BY <2>1, <2>2, FS_Product
  <2> QED
    BY <1>1, <2>3
<1>3. Slots \subseteq Slots' \cup col
  <2> SUFFICES ASSUME NEW s \in Slots PROVE s \in Slots' \cup col
    OBVIOUS
  <2>1. s \in Code \X (1..Cap) /\ s[1] \in Code /\ s[2] \in 1..Cap /\ s = <<s[1], s[2]>> /\ s[2] <= used[s[1]]
    BY DEF Slots
  <2>2. CASE s[1] = k
    <3>1. <<s[1], s[2]>> \in col
      BY <2>1, <2>2
    <3> QED
      BY <2>1, <3>1
  <2>3. CASE s[1] # k
    <3>1. used'[s[1]] = used[s[1]]
      BY <1>1, <2>1, <2>3
    <3> QED
      BY <2>1, <3>1 DEF Slots
  <2> QED
    BY <2>2, <2>3
<1> HIDE DEF col
<1>4. IsFiniteSet(Slots' \cup col)
      /\ Cardinality(Slots' \cup col) = Cardinality(Slots') + Cardinality(col) - Cardinality(Slots' \cap col)
  BY <1>2, SlotsFinite, FS_Union
<1>5. Cardinality(Slots' \cap col) \in Nat
  BY <1>2, FS_Intersection, FS_CardinalityType
<1>6. Cardinality(Slots) <= Cardinality(Slots' \cup col)
  BY <1>3, <1>4, FS_Subset
<1> QED
  BY <1>1, <1>2, <1>4, <1>5, <1>6, SlotsFinite

\* The arithmetic of a step that accounts for what it lets through.
LEMMA SpentKept ==
  ASSUME SlotInv, KeptInv',
         \E r \in Nat, f \in Nat, p \in Nat :
           /\ resets' = resets + r /\ fails' = fails + f /\ passed' = passed + p
           /\ Cardinality(Slots) + p <= Cardinality(Slots') + r * Cap + f
  PROVE  Spent'
<1>1. PICK r \in Nat, f \in Nat, p \in Nat :
           /\ resets' = resets + r /\ fails' = fails + f /\ passed' = passed + p
           /\ Cardinality(Slots) + p <= Cardinality(Slots') + r * Cap + f
  OBVIOUS
<1>2. passed \in Nat /\ resets \in Nat /\ fails \in Nat /\ Cap \in Nat
  BY ClickAssumption DEF SlotInv, KeptInv, TypeOK
<1>3. Cap * resets \in Nat /\ r * Cap \in Nat
  BY <1>1, <1>2
<1>4. Cap * (resets + r) = Cap * resets + r * Cap
  BY <1>1, <1>2
<1>5. passed <= Cardinality(Slots) + Cap * resets + fails
  BY DEF SlotInv, Spent
<1>6. passed' <= Cardinality(Slots') + Cap * resets' + fails'
  BY <1>1, <1>2, <1>3, <1>4, <1>5, SlotsFinite
<1> QED
  BY <1>6 DEF Spent

LEMMA VisitSpent ==
  ASSUME SlotInv, KeptInv', NEW k \in Code, Visit(k)
  PROVE  Spent'
<1>0. KeptInv /\ Cap \in Nat /\ used \in [Code -> Nat \cup {Unset}] /\ passed \in Nat /\ fails \in Nat
      /\ resets \in Nat /\ total \in Nat /\ seed \in [Code -> Nat \cup {Unset}]
  BY ClickAssumption DEF SlotInv, KeptInv, TypeOK
<1>1. Used(k) \in Nat /\ Used(k) >= used[k]
  BY <1>0 DEF Used, Known, Unset
<1>2. resets' = resets + 0
  BY <1>0 DEF Visit
<1>3. CASE Used(k) >= Cap
  <2>1. used' = [used EXCEPT ![k] = Used(k)] /\ passed' = passed + 0 /\ fails' = fails + 0
    BY <1>0, <1>3 DEF Visit
  <2>2. Cardinality(Slots) <= Cardinality(Slots')
    BY <1>0, <1>1, <2>1, CounterUp
  <2>3. Cardinality(Slots) + 0 <= Cardinality(Slots') + 0 * Cap + 0
    BY <1>0, <2>2, SlotsFinite
  <2> QED
    BY <1>2, <2>1, <2>3, SpentKept
<1>4. CASE ~(Used(k) >= Cap)
  <2>1. used' = [used EXCEPT ![k] = Used(k) + 1] /\ passed' = passed + 1 /\ Enqueue
    BY <1>4 DEF Visit
  <2>2. PICK f \in {0, 1} : fails' = fails + f
    BY <1>0, <2>1 DEF Enqueue, Fail
  <2>3. /\ Used(k) + 1 \in 1..Cap /\ Used(k) + 1 \in Nat
        /\ Used(k) + 1 > used[k] /\ Used(k) + 1 >= used[k]
    BY <1>0, <1>1, <1>4 DEF Unset
  <2>4. Cardinality(Slots) + 1 <= Cardinality(Slots')
    BY <1>0, <2>1, <2>3, CounterUp
  <2>5. Cardinality(Slots) + 1 <= Cardinality(Slots') + 0 * Cap + f
    BY <1>0, <2>4, SlotsFinite
  <2> QED
    BY <1>2, <2>1, <2>2, <2>5, SpentKept
<1> QED
  BY <1>3, <1>4

\* A step that neither lets a click through nor touches a counter.
LEMMA IdleSpent ==
  ASSUME SlotInv, KeptInv', UNCHANGED <<used, passed, resets>>, fails' = fails \/ fails' = fails + 1
  PROVE  Spent'
<1>0. passed \in Nat /\ resets \in Nat /\ fails \in Nat /\ Cap \in Nat
  BY ClickAssumption DEF SlotInv, KeptInv, TypeOK
<1>1. Slots' = Slots
  BY DEF Slots
<1>2. PICK f \in {0, 1} : fails' = fails + f
  BY <1>0
<1>3. resets' = resets + 0 /\ passed' = passed + 0
  BY <1>0
<1>4. Cardinality(Slots) + 0 <= Cardinality(Slots') + 0 * Cap + f
  BY <1>0, <1>1, SlotsFinite
<1> QED
  BY <1>2, <1>3, <1>4, SpentKept

LEMMA SlotStep == SlotInv /\ [Next]_vars => SlotInv'
<1> SUFFICES ASSUME SlotInv, [Next]_vars PROVE Spent'
  BY KeptStep DEF SlotInv
<1>0. KeptInv /\ KeptInv'
  BY KeptStep DEF SlotInv
<1>t. passed \in Nat /\ resets \in Nat /\ fails \in Nat /\ Cap \in Nat
  BY <1>0, ClickAssumption DEF KeptInv, TypeOK
<1>1. ASSUME NEW k \in Code, Visit(k) PROVE Spent'
  BY <1>0, <1>1, VisitSpent
<1>2. ASSUME NEW k \in Code, VisitUnlimited(k) PROVE Spent'
  <2>1. Slots' = Slots
    BY <1>2 DEF VisitUnlimited, Slots
  <2>2. resets' = resets + 0 /\ passed' = passed + 1 /\ fails' = fails + 1
    BY <1>t, <1>2 DEF VisitUnlimited, Fail
  <2>3. Cardinality(Slots) + 1 <= Cardinality(Slots') + 0 * Cap + 1
    BY <1>t, <2>1, SlotsFinite
  <2> QED
    BY <1>0, <2>2, <2>3, SpentKept
<1>3. ASSUME NEW k \in Code, PayloadGone(k) PROVE Spent'
  BY <1>0, <1>3, IdleSpent DEF PayloadGone
<1>4. ASSUME NEW k \in Code, CounterGone(k) PROVE Spent'
  <2>1. used' = [used EXCEPT ![k] = Unset] /\ resets' = resets + 1
        /\ passed' = passed + 0 /\ fails' = fails + 0
    BY <1>t, <1>4 DEF CounterGone
  <2>2. Cardinality(Slots) <= Cardinality(Slots') + Cap
    BY <1>0, <2>1, CounterDown
  <2>3. Cardinality(Slots) + 0 <= Cardinality(Slots') + 1 * Cap + 0
    BY <1>t, <2>2, SlotsFinite
  <2> QED
    BY <1>0, <2>1, <2>3, SpentKept
<1>5. ASSUME NEW w \in Worker, Work(w) \/ LoopError(w) \/ Crash(w) PROVE Spent'
  <2>1. UNCHANGED limit /\ (fails' = fails \/ fails' = fails + 1)
    <3>1. CASE Claim(w) \/ Read(w)
      BY <3>1 DEF Claim, Read, Take
    <3>2. CASE Parse(w)
      <4>1. UNCHANGED <<limit, sent, group, attempts, stored, total, counted, history>>
        BY <3>2 DEF Parse
      <4>2. fails' = fails \/ Fail
        BY <3>2 DEF Parse
      <4> QED
        BY <4>1, <4>2 DEF Fail
    <3>3. CASE ParseAck(w) \/ FailAck(w) \/ FailedEnd(w) \/ Retry(w) \/ GiveUp(w) \/ Ack(w)
      BY <3>3 DEF ParseAck, FailAck, AckOne, FailedEnd, Retry, GiveUp, Ack
    <3>4. CASE Insert(w) \/ Count(w) \/ LoopError(w) \/ Crash(w)
      BY <3>4 DEF Insert, Count, LoopError, Crash, Fail
    <3> QED
      BY <1>5, <3>1, <3>2, <3>3, <3>4 DEF Work
  <2> QED
    BY <1>0, <2>1, IdleSpent DEF limit
<1>6. CASE UNCHANGED vars
  BY <1>0, <1>6, IdleSpent DEF vars, limit
<1> QED
  BY <1>1, <1>2, <1>3, <1>4, <1>5, <1>6 DEF Next

LEMMA SlotInit == Init => SlotInv
<1> SUFFICES ASSUME Init PROVE Spent
  BY KeptInit DEF SlotInv
<1>1. passed = 0 /\ resets = 0 /\ fails = 0 /\ Cap \in Nat
  BY ClickAssumption DEF Init
<1> QED
  BY <1>1, SlotsFinite DEF Spent

\* The limit is passed by at most a whole limit for each code and each counter
\* that expired and one click for each error, for any codes, limits and clicks.
THEOREM OverrunIsBounded == Spec => []OverrunBounded
<1>1. SlotInv => OverrunBounded
  <2> SUFFICES ASSUME SlotInv PROVE OverrunBounded
    OBVIOUS
  <2>1. passed \in Nat /\ resets \in Nat /\ fails \in Nat /\ Cap \in Nat
        /\ Cardinality(Code) \in Nat
    BY ClickAssumption, FS_CardinalityType DEF SlotInv, KeptInv, TypeOK
  <2>2. Cardinality(Slots) <= Cardinality(Code) * Cap
    BY SlotsFinite, FS_Subset
  <2>3. Cap * (Cardinality(Code) + resets) = Cardinality(Code) * Cap + Cap * resets
    BY <2>1
  <2>4. Cardinality(Code) * Cap \in Nat /\ Cap * resets \in Nat
    BY <2>1
  <2>5. passed <= Cardinality(Slots) + Cap * resets + fails
    BY DEF SlotInv, Spent
  <2>6. passed <= Cap * (Cardinality(Code) + resets) + fails
    BY <2>1, <2>2, <2>3, <2>4, <2>5, SlotsFinite
  <2> QED
    BY <2>6 DEF OverrunBounded
<1> QED
  BY SlotInit, SlotStep, <1>1, PTL DEF Spec

-----------------------------------------------------------------------------
(***************************************************************************)
(* Repeats: as long as nothing has failed, a click that two workers never  *)
(* held is with at most one of them, is stored once, and is acknowledged   *)
(* before anybody can claim it again.                                      *)
(***************************************************************************)
Holds(w, c) == c \in ToSet(job[w].batch)

Steady(j) ==
  /\ j.pc \in {"claim", "read", "parse", "insert", "ack", "count"}
  /\ ToSet(j.rows) \subseteq ToSet(j.batch)
  /\ j.pc \in {"claim", "read"} => j.batch = << >>

OncePerClick(c) ==
  /\ \A v, w \in Worker : Holds(v, c) /\ Holds(w, c) => v = w
  /\ stored[c] <= 1
  /\ \A w \in Worker : Holds(w, c) /\ job[w].pc \in {"parse", "insert"} => stored[c] = 0
  /\ stored[c] > 0 => c \notin pending
                      \/ \E w \in Worker : job[w].pc = "ack" /\ c \in ToSet(job[w].rows)

Smooth ==
  /\ \A w \in Worker : Steady(job[w])
  /\ \A c \in Click : dead[c] = 0
  /\ \A c \in Click : stored[c] > 0 \/ (\E w \in Worker : Holds(w, c)) => c <= read
  /\ \A c \in Click \ shared : OncePerClick(c)

OnceInv == KeptInv /\ (fails = 0 => Smooth)

LEMMA NoEntries == ToSet(<< >>) = {}
BY DEF ToSet

\* The record a worker starts a round with.
LEMMA IdleSteady ==
  ASSUME NEW pc \in {"claim", "read"}
  PROVE  Steady(Idle(pc)) /\ ToSet(Idle(pc).batch) = {} /\ Idle(pc).pc = pc
BY NoEntries DEF Steady, Idle

LEMMA DoneSteady ==
  ASSUME NEW w \in Worker
  PROVE  Steady(Done(w)) /\ ToSet(Done(w).batch) = {} /\ Done(w).pc \in {"claim", "read"}
BY IdleSteady DEF Done

\* A step by which w takes no click and the group hands out none.
LEMMA LetsGo ==
  ASSUME KeptInv, Smooth, NEW w \in Worker, NEW j, job' = [job EXCEPT ![w] = j], Steady(j),
         ToSet(j.batch) \subseteq ToSet(job[w].batch),
         j.pc \in {"parse", "insert"} => job[w].pc \in {"parse", "insert"},
         UNCHANGED <<stored, dead, read, shared>>, pending' \subseteq pending,
         job[w].pc = "ack" => \A c \in ToSet(job[w].rows) : c \notin pending'
  PROVE  Smooth'
<1>1. job'[w] = j /\ \A v \in Worker : v # w => job'[v] = job[v]
  BY DEF KeptInv, TypeOK
<1>2. \A v \in Worker : Steady(job'[v])
  BY <1>1 DEF Smooth
<1>3. \A v \in Worker, c \in Click : Holds(v, c)' => Holds(v, c)
  BY <1>1 DEF Holds
<1>4. ASSUME NEW c \in Click \ shared' PROVE OncePerClick(c)'
  <2>1. OncePerClick(c)
    BY <1>4 DEF Smooth
  <2>2. \A u, v \in Worker : Holds(u, c)' /\ Holds(v, c)' => u = v
    BY <1>3, <2>1 DEF OncePerClick
  <2>3. \A v \in Worker : Holds(v, c)' /\ job'[v].pc \in {"parse", "insert"} => stored'[c] = 0
    BY <1>1, <1>3, <2>1 DEF OncePerClick
  <2>4. ASSUME stored'[c] > 0, c \in pending'
        PROVE  \E v \in Worker : job'[v].pc = "ack" /\ c \in ToSet(job'[v].rows)
    <3>1. PICK v \in Worker : job[v].pc = "ack" /\ c \in ToSet(job[v].rows)
      BY <2>1, <2>4 DEF OncePerClick
    <3>2. v # w
      BY <2>4, <3>1
    <3> QED
      BY <1>1, <3>1, <3>2
  <2> QED
    BY <2>1, <2>2, <2>3, <2>4 DEF OncePerClick
<1>5. \A c \in Click : stored'[c] > 0 \/ (\E v \in Worker : Holds(v, c)') => c <= read'
  BY <1>3 DEF Smooth
<1>6. \A c \in Click : dead'[c] = 0
  BY DEF Smooth
<1> QED
  BY <1>2, <1>4, <1>5, <1>6 DEF Smooth

\* A read takes clicks that were pending, and then another worker holds the
\* ones that are stored, or that the group had not delivered.
LEMMA TakesOnce ==
  ASSUME KeptInv, Smooth, NEW w \in Worker, job[w].pc \in {"claim", "read"},
         NEW q \in Seq(Click), Take(w, q), read' >= read, read' \in Nat,
         \A c \in ToSet(q) : c <= read' /\ (c \in pending \/ c > read),
         \A c \in pending' : c \in pending \/ c > read
  PROVE  Smooth'
<1>0. /\ read \in Nat /\ stored \in [Click -> Nat] /\ job \in [Worker -> Job]
      /\ \A c \in Click : c \in Nat
  BY DEF KeptInv, TypeOK, Click
<1>1. PICK j : /\ job' = [job EXCEPT ![w] = j] /\ Steady(j) /\ ToSet(j.batch) = ToSet(q)
               /\ j.pc # "ack"
  <2>1. CASE q = << >>
    <3> DEFINE pc == IF job[w].pc = "claim" THEN "read" ELSE "claim"
    <3>1. pc \in {"claim", "read"} /\ job' = [job EXCEPT ![w] = Idle(pc)]
      BY <1>0, <2>1 DEF Take
    <3> HIDE DEF pc
    <3> QED
      BY <2>1, <3>1, IdleSteady, NoEntries
  <2>2. CASE q # << >>
    <3> DEFINE pc == job[w].pc
    <3>1. job' = [job EXCEPT ![w] = Given(pc, q)]
      BY <1>0, <2>2 DEF Take
    <3> HIDE DEF pc
    <3>2. Steady(Given(pc, q)) /\ Given(pc, q).batch = q /\ Given(pc, q).pc = "parse"
      BY NoEntries DEF Given, Steady
    <3> QED
      BY <3>1, <3>2
  <2> QED
    BY <2>1, <2>2
<1>2. job'[w] = j /\ \A v \in Worker : v # w => job'[v] = job[v]
  BY <1>0, <1>1
<1>3. /\ shared' = shared \cup (ToSet(q) \cap HeldByOthers(w))
      /\ UNCHANGED <<stored, dead>>
  BY DEF Take, sinks
<1>4. ToSet(job[w].batch) = {}
  BY NoEntries DEF Smooth, Steady
<1>5. \A v \in Worker : Steady(job'[v])
  BY <1>1, <1>2 DEF Smooth
<1>6. \A c \in Click : dead'[c] = 0
  BY <1>3 DEF Smooth
<1>7. ASSUME NEW c \in Click, stored'[c] > 0 \/ \E v \in Worker : Holds(v, c)' PROVE c <= read'
  <2>1. stored[c] > 0 \/ (\E v \in Worker : Holds(v, c)) \/ c \in ToSet(q)
    BY <1>1, <1>2, <1>3, <1>7 DEF Holds
  <2>2. c \notin ToSet(q) => c <= read
    BY <2>1 DEF Smooth
  <2> QED
    BY <1>0, <2>2
<1>8. ASSUME NEW c \in Click \ shared' PROVE OncePerClick(c)'
  <2>1. OncePerClick(c)
    BY <1>3, <1>8 DEF Smooth
  <2>2. ASSUME NEW v \in Worker, v # w, c \in ToSet(q) PROVE ~Holds(v, c)
    <3> SUFFICES ASSUME Holds(v, c) PROVE c \in HeldByOthers(w)
      BY <1>3, <1>8, <2>2
    <3> QED
      BY <2>2 DEF Holds, HeldByOthers
  <2>3. ASSUME c \in ToSet(q) PROVE stored[c] = 0
    <3>1. CASE c > read
      BY <1>0, <3>1 DEF Smooth
    <3>2. CASE c \in pending
      <4> SUFFICES ASSUME stored[c] > 0 PROVE FALSE
        BY <1>0
      <4>1. PICK v \in Worker : job[v].pc = "ack" /\ c \in ToSet(job[v].rows)
        BY <2>1, <3>2 DEF OncePerClick
      <4>2. v # w /\ Holds(v, c)
        BY <4>1 DEF Smooth, Steady, Holds
      <4> QED
        BY <2>2, <2>3, <4>2
    <3> QED
      BY <2>3, <3>1, <3>2
  <2>4. \A u, v \in Worker : Holds(u, c)' /\ Holds(v, c)' => u = v
    <3>1. \A v \in Worker : v # w => (Holds(v, c)' <=> Holds(v, c))
      BY <1>2 DEF Holds
    <3>2. Holds(w, c)' => c \in ToSet(q)
      BY <1>1, <1>2 DEF Holds
    <3> QED
      BY <2>1, <2>2, <3>1, <3>2 DEF OncePerClick
  <2>5. ASSUME NEW v \in Worker, Holds(v, c)', job'[v].pc \in {"parse", "insert"}
        PROVE  stored'[c] = 0
    <3>1. CASE v = w
      BY <1>1, <1>2, <1>3, <2>3, <2>5, <3>1 DEF Holds
    <3>2. CASE v # w
      BY <1>2, <1>3, <2>1, <2>5, <3>2 DEF Holds, OncePerClick
    <3> QED
      BY <3>1, <3>2
  <2>6. ASSUME stored'[c] > 0, c \in pending'
        PROVE  \E v \in Worker : job'[v].pc = "ack" /\ c \in ToSet(job'[v].rows)
    <3>1. c <= read
      BY <1>3, <2>6 DEF Smooth
    <3>2. c \in pending
      BY <1>0, <2>6, <3>1
    <3>3. PICK v \in Worker : job[v].pc = "ack" /\ c \in ToSet(job[v].rows)
      BY <1>3, <2>1, <2>6, <3>2 DEF OncePerClick
    <3>4. v # w
      BY <3>3
    <3> QED
      BY <1>2, <3>3, <3>4
  <2> QED
    BY <1>3, <2>1, <2>4, <2>5, <2>6 DEF OncePerClick
<1> QED
  BY <1>5, <1>6, <1>7, <1>8 DEF Smooth

\* An insert that does not fail stores the rows of the one worker that holds them.
LEMMA InsertsOnce ==
  ASSUME KeptInv, Smooth, NEW w \in Worker, Insert(w), fails' = fails
  PROVE  Smooth'
<1> DEFINE j == job[w]
           ack == [j EXCEPT !.pc = "ack"]
           rows == ToSet(j.rows)
<1>0. j \in Job /\ j.pc = "insert" /\ stored \in [Click -> Nat] /\ job \in [Worker -> Job]
      /\ fails \in Nat /\ Steady(j)
  BY DEF Insert, KeptInv, TypeOK, Smooth
<1>1. /\ job' = [job EXCEPT ![w] = ack]
      /\ stored' = [c \in Click |-> stored[c] + IF c \in rows THEN 1 ELSE 0]
      /\ UNCHANGED <<pending, read, dead, shared>>
  BY <1>0 DEF Insert, Fail, group, history
<1>2. ack.pc = "ack" /\ ack.rows = j.rows /\ ack.batch = j.batch
  BY <1>0 DEF Job
<1> HIDE DEF ack, j
<1>3. job'[w] = ack /\ \A v \in Worker : v # w => job'[v] = job[v]
  BY <1>0, <1>1
<1>4. j = job[w]
  BY DEF j
<1>5. \A v \in Worker : Steady(job'[v])
  BY <1>0, <1>2, <1>3 DEF Smooth, Steady
<1>6. \A v \in Worker, c \in Click : Holds(v, c)' <=> Holds(v, c)
  BY <1>2, <1>3, <1>4 DEF Holds
<1>7. \A c \in rows : Holds(w, c)
  BY <1>0, <1>4 DEF Steady, Holds
<1> HIDE DEF rows
<1>8. \A c \in Click : stored'[c] = IF c \in rows THEN stored[c] + 1 ELSE stored[c]
  BY <1>0, <1>1
<1>9. \A c \in Click : stored'[c] > 0 \/ (\E v \in Worker : Holds(v, c)') => c <= read'
  BY <1>1, <1>6, <1>7, <1>8 DEF Smooth
<1>10. \A c \in Click : dead'[c] = 0
  BY <1>1 DEF Smooth
<1>11. ASSUME NEW c \in Click \ shared' PROVE OncePerClick(c)'
  <2>1. OncePerClick(c) /\ stored[c] \in Nat
    BY <1>0, <1>1, <1>11 DEF Smooth
  <2>2. \A u, v \in Worker : Holds(u, c)' /\ Holds(v, c)' => u = v
    BY <1>6, <2>1 DEF OncePerClick
  <2>3. CASE c \in rows
    <3>1. stored[c] = 0 /\ stored'[c] = 1
      BY <1>0, <1>4, <1>7, <1>8, <2>1, <2>3 DEF OncePerClick
    <3>2. \A v \in Worker : Holds(v, c)' => v = w
      BY <1>6, <1>7, <2>1, <2>3 DEF OncePerClick
    <3>3. job'[w].pc = "ack" /\ c \in ToSet(job'[w].rows)
      BY <1>2, <1>3, <2>3 DEF rows
    <3> QED
      BY <2>2, <3>1, <3>2, <3>3 DEF OncePerClick
  <2>4. CASE c \notin rows
    <3>1. stored'[c] = stored[c]
      BY <1>8, <2>4
    <3>2. \A v \in Worker : Holds(v, c)' /\ job'[v].pc \in {"parse", "insert"} => stored'[c] = 0
      BY <1>2, <1>3, <1>6, <2>1, <3>1 DEF OncePerClick
    <3>3. ASSUME NEW v \in Worker, job[v].pc = "ack" PROVE job'[v] = job[v]
      BY <1>0, <1>3, <1>4, <3>3
    <3>4. stored'[c] > 0 => c \notin pending'
            \/ \E v \in Worker : job'[v].pc = "ack" /\ c \in ToSet(job'[v].rows)
      BY <1>1, <2>1, <3>1, <3>3 DEF OncePerClick
    <3> QED
      BY <2>1, <2>2, <3>1, <3>2, <3>4 DEF OncePerClick
  <2> QED
    BY <2>3, <2>4
<1> QED
  BY <1>5, <1>9, <1>10, <1>11 DEF Smooth

LEMMA ReadsOnce ==
  ASSUME KeptInv, Smooth, NEW w \in Worker, Claim(w) \/ Read(w)
  PROVE  Smooth'
<1>0. /\ read \in Nat /\ sent \in Nat /\ read <= sent /\ sent <= MaxClick /\ pending \subseteq 1..read
      /\ MaxClick \in Nat /\ Batch \in Nat
  BY ClickAssumption DEF KeptInv, TypeOK
<1>1. CASE Claim(w)
  <2>1. PICK q \in First(pending, Batch) : Take(w, q)
    BY <1>1 DEF Claim
  <2>2. pending \subseteq Click
    BY <1>0 DEF Click
  <2>3. q \in Seq(Click)
    BY <1>0, <2>2, FirstType
  <2>4. ToSet(q) \subseteq pending
    <3>1. PICK m \in 0..Batch : q \in [1..m -> pending]
      BY <2>1 DEF First, BoundedSeq, SeqOf
    <3> QED
      BY <3>1 DEF ToSet
  <2>5. read' = read /\ pending' = pending /\ job[w].pc = "claim"
    BY <1>1 DEF Claim, group
  <2>6. ASSUME NEW c \in ToSet(q) PROVE c <= read' /\ (c \in pending \/ c > read)
    <3>1. c \in pending /\ c \in 1..read
      BY <1>0, <2>4
    <3> QED
      BY <1>0, <2>5, <3>1
  <2> QED
    BY <1>0, <2>1, <2>3, <2>5, <2>6, TakesOnce
<1>2. CASE Read(w)
  <2>1. /\ read' = IF read + Batch < sent THEN read + Batch ELSE sent
        /\ pending' = pending \cup (read + 1)..read'
        /\ Take(w, [i \in 1..(read' - read) |-> read + i])
        /\ job[w].pc = "read"
    BY <1>2 DEF Read
  <2>2. read' \in Nat /\ read <= read' /\ read' <= MaxClick
    BY <1>0, <2>1
  <2> DEFINE q == [i \in 1..(read' - read) |-> read + i]
  <2>3. q \in Seq(Click) /\ ToSet(q) = (read + 1)..read'
    BY <1>0, <2>2, Counting
  <2> HIDE DEF q
  <2>4. Take(w, q)
    BY <2>1 DEF q
  <2>5. \A c \in ToSet(q) : c <= read' /\ (c \in pending \/ c > read)
    BY <1>0, <2>2, <2>3
  <2>6. \A c \in pending' : c \in pending \/ c > read
    BY <1>0, <2>1, <2>2
  <2> QED
    BY <2>1, <2>2, <2>3, <2>4, <2>5, <2>6, TakesOnce
<1> QED
  BY <1>1, <1>2

\* Entries that all parse become rows, or there were none.
LEMMA ParsesOnce ==
  ASSUME KeptInv, Smooth, NEW w \in Worker, Parse(w), fails' = fails
  PROVE  Smooth'
<1> DEFINE j == job[w]
<1>1. /\ j \in Job /\ Fits(j) /\ j.pc = "parse" /\ j.batch \in Seq(Click) /\ j.rows \in Seq(Click)
      /\ j.at \in Nat /\ Len(j.batch) \in Nat /\ Len(j.rows) \in Nat
      /\ \A i \in 1..Len(j.batch) : j.batch[i] \in Click
      /\ fails \in Nat /\ Steady(j) /\ DOMAIN j.batch = 1..Len(j.batch)
  BY JobType, LenProperties, SMTT(30) DEF Parse, KeptInv, TypeOK, Smooth
<1>2. PICK n \in j.at..(Len(j.batch) + 1) :
        LET rows == j.rows \o SubSeq(j.batch, j.at, n - 1) IN
        IF n > Len(j.batch)
        THEN /\ job' = [job EXCEPT ![w] =
                  IF rows = <<>> THEN Done(w)
                  ELSE [j EXCEPT !.pc = "insert", !.rows = rows, !.at = 1]]
             /\ UNCHANGED <<dead, fails>>
        ELSE /\ Fail
             /\ job' = [job EXCEPT ![w] = [j EXCEPT !.pc = "parseAck", !.rows = rows, !.at = n]]
             /\ dead' = [dead EXCEPT ![j.batch[n]] = @ + 1]
  BY Zenon DEF Parse
<1>3. UNCHANGED <<limit, sent, group, attempts, stored, total, counted, history>>
  BY DEF Parse
<1> DEFINE sub == SubSeq(j.batch, j.at, n - 1)
           rows == j.rows \o sub
           kept == [j EXCEPT !.pc = "insert", !.rows = rows, !.at = 1]
<1>n. n > Len(j.batch) /\ dead' = dead
      /\ job' = [job EXCEPT ![w] = IF rows = <<>> THEN Done(w) ELSE kept]
  <2>1. ~Fail
    BY <1>1 DEF Fail
  <2> QED
    BY <1>2, <2>1
<1>4. ToSet(rows) \subseteq ToSet(j.batch)
  <2>0. n = Len(j.batch) + 1 /\ j.at >= 1
    BY <1>1, <1>n DEF Fits
  <2>1. \A i \in j.at..(n - 1) : j.batch[i] \in Click
    BY <1>1, <2>0
  <2>2. /\ sub \in Seq(Click) /\ Len(sub) = (IF j.at <= n - 1 THEN n - 1 - j.at + 1 ELSE 0)
        /\ \A i \in 1..(n - 1 - j.at + 1) : sub[i] = j.batch[j.at + i - 1]
    BY <1>1, <2>0, <2>1, SubSeqProperties, SMTT(30)
  <2> HIDE DEF sub
  <2>3. /\ rows \in Seq(Click) /\ Len(rows) = Len(j.rows) + Len(sub)
        /\ \A i \in 1..Len(j.rows) + Len(sub) :
              rows[i] = IF i <= Len(j.rows) THEN j.rows[i] ELSE sub[i - Len(j.rows)]
    BY <1>1, <2>2, ConcatProperties
  <2> HIDE DEF rows
  <2> SUFFICES ASSUME NEW i \in 1..Len(rows) PROVE rows[i] \in ToSet(j.batch)
    BY <2>3, LenProperties DEF ToSet
  <2>4. CASE i <= Len(j.rows)
    <3>1. j.rows[i] \in ToSet(j.rows)
      BY <1>1, <2>4, LenProperties DEF ToSet
    <3> QED
      BY <1>1, <2>3, <2>4, <3>1 DEF Steady
  <2>5. CASE ~(i <= Len(j.rows))
    <3> DEFINE k == i - Len(j.rows)
    <3>1. k \in 1..Len(sub) /\ Len(sub) \in Nat
      BY <1>1, <2>2, <2>3, <2>5, LenProperties
    <3>2. j.at \in Nat /\ j.at >= 1 /\ j.at <= n - 1 /\ n = Len(j.batch) + 1 /\ Len(j.batch) \in Nat
      BY <1>1, <2>0, <2>2, <3>1
    <3>3. rows[i] = sub[k]
      BY <2>3, <2>5
    <3> HIDE DEF k, j
    <3>4. Len(sub) = n - j.at /\ n \in Nat
      BY <2>2, <3>1, <3>2
    <3>5. k \in 1..(n - 1 - j.at + 1) /\ j.at + k - 1 \in 1..Len(j.batch)
      BY <3>1, <3>2, <3>4
    <3>6. rows[i] = j.batch[j.at + k - 1]
      BY <2>2, <3>3, <3>5
    <3> QED
      BY <1>1, <3>5, <3>6 DEF ToSet
  <2> QED
    BY <2>4, <2>5
<1>5. CASE rows = <<>>
  <2>1. job' = [job EXCEPT ![w] = Done(w)]
    BY <1>n, <1>5
  <2> QED
    BY <1>1, <1>n, <1>3, <2>1, DoneSteady, LetsGo DEF group, history
<1>6. CASE rows # <<>>
  <2>1. job' = [job EXCEPT ![w] = kept]
    BY <1>n, <1>6
  <2> HIDE DEF rows
  <2>2. kept.pc = "insert" /\ kept.rows = rows /\ kept.batch = j.batch
    BY <1>1 DEF Job
  <2>3. Steady(kept)
    BY <1>4, <2>2 DEF Steady
  <2> HIDE DEF kept
  <2> QED
    BY <1>1, <1>n, <1>3, <2>1, <2>2, <2>3, LetsGo DEF group, history
<1> QED
  BY <1>5, <1>6

LEMMA EndsOnce ==
  ASSUME KeptInv, Smooth, NEW w \in Worker, Ack(w) \/ Count(w)
  PROVE  Smooth'
<1>1. CASE Ack(w)
  <2> DEFINE next == [job[w] EXCEPT !.pc = "count"]
  <2>1. /\ job[w].pc = "ack" /\ pending' = pending \ ToSet(job[w].rows) /\ job' = [job EXCEPT ![w] = next]
        /\ UNCHANGED <<stored, dead, read, shared>>
    BY <1>1 DEF Ack, sinks, history, KeptInv, TypeOK
  <2>2. next.pc = "count" /\ next.rows = job[w].rows /\ next.batch = job[w].batch /\ Steady(job[w])
    BY JobType DEF Job, Smooth
  <2>3. Steady(next)
    BY <2>2 DEF Steady
  <2> HIDE DEF next
  <2> QED
    BY <2>1, <2>2, <2>3, LetsGo
<1>2. CASE Count(w)
  <2>1. /\ job[w].pc = "count" /\ job' = [job EXCEPT ![w] = Done(w)]
        /\ UNCHANGED <<stored, dead, read, pending, shared>>
    BY <1>2 DEF Count, group, history
  <2> QED
    BY <2>1, DoneSteady, LetsGo
<1> QED
  BY <1>1, <1>2

LEMMA OnceStep == OnceInv /\ [Next]_vars => OnceInv'
<1> SUFFICES ASSUME OnceInv, [Next]_vars, fails' = 0 PROVE Smooth'
  BY KeptStep DEF OnceInv
<1>0. KeptInv /\ fails \in Nat
  BY DEF OnceInv, KeptInv, TypeOK
<1>1. CASE UNCHANGED <<job, group, sinks, fails, history>>
  BY <1>1 DEF OnceInv, Smooth, Steady, OncePerClick, Holds, group, sinks, history
<1>2. ASSUME NEW k \in Code, Visit(k) \/ VisitUnlimited(k) \/ PayloadGone(k) \/ CounterGone(k)
      PROVE  Smooth'
  <2>1. UNCHANGED <<job, group, sinks, history>> /\ (fails' = fails \/ fails' = fails + 1)
    BY <1>2 DEF Visit, VisitUnlimited, PayloadGone, CounterGone, Enqueue, Fail
  <2>2. fails' = fails
    BY <1>0, <2>1
  <2> QED
    BY <1>1, <2>1, <2>2
<1>3. ASSUME NEW w \in Worker, LoopError(w) \/ Crash(w) PROVE FALSE
  BY <1>0, <1>3 DEF LoopError, Crash, Fail
<1>4. ASSUME NEW w \in Worker, Work(w) PROVE Smooth'
  <2>1. fails' = fails
    <3>1. fails' = fails \/ fails' = fails + 1
      BY <1>4, Zenon DEF Work, Claim, Read, Take, Parse, ParseAck, AckOne, Insert, FailedEnd, Retry,
                 GiveUp, FailAck, Ack, Count, Fail
    <3> QED
      BY <1>0, <3>1, SMTT(30)
  <2>2. Smooth /\ Steady(job[w])
    BY <2>1 DEF OnceInv, Smooth
  <2>3. ~(ParseAck(w) \/ FailedEnd(w) \/ Retry(w) \/ GiveUp(w) \/ FailAck(w))
    BY <2>2 DEF ParseAck, FailedEnd, Retry, GiveUp, InLoop, FailAck, Steady
  <2> QED
    BY <1>0, <1>4, <2>1, <2>2, <2>3, ReadsOnce, ParsesOnce, InsertsOnce, EndsOnce DEF Work
<1>5. UNCHANGED vars => UNCHANGED <<job, group, sinks, fails, history>>
  BY DEF vars
<1> QED
  BY <1>1, <1>2, <1>3, <1>4, <1>5 DEF Next

LEMMA OnceInit == Init => OnceInv
<1> SUFFICES ASSUME Init PROVE Smooth
  BY KeptInit DEF OnceInv
<1>1. \A w \in Worker : job[w] = Idle("claim")
  BY DEF Init
<1>2. \A w \in Worker : Steady(job[w]) /\ \A c : ~Holds(w, c)
  BY <1>1, IdleSteady DEF Holds
<1>3. \A c \in Click : stored[c] = 0 /\ dead[c] = 0
  BY DEF Init
<1> QED
  BY <1>2, <1>3 DEF Smooth, OncePerClick

\* A click is stored twice, or both stored and given up, only after a failure or
\* when two workers held it at once, for any workers, batches and clicks.
THEOREM RepeatsHaveACause == Spec => []RepeatsAreExplained
<1>1. OnceInv => RepeatsAreExplained
  <2> SUFFICES ASSUME OnceInv, NEW c \in Click, fails = 0, c \notin shared
               PROVE  ~(stored[c] + dead[c] > 1)
    BY DEF OnceInv, KeptInv, TypeOK, RepeatsAreExplained
  <2>1. stored[c] \in Nat /\ stored[c] <= 1 /\ dead[c] = 0
    BY DEF OnceInv, KeptInv, TypeOK, Smooth, OncePerClick
  <2> QED
    BY <2>1
<1> QED
  BY OnceInit, OnceStep, <1>1, PTL DEF Spec
=============================================================================
