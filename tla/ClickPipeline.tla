--------------------------- MODULE ClickPipeline ----------------------------
(***************************************************************************)
(* A capped link's clicks, from the redirect to the counter and back.      *)
(*                                                                         *)
(* The redirect asks Redis whether the click limit allows the click        *)
(* (allowClick in apps/web/lib/resolve.ts) and appends it to a stream.     *)
(* Worker processes read the stream as one consumer group, insert batches  *)
(* into ClickHouse, acknowledge them and add them to links.clicks_total    *)
(* (apps/worker/src/loops/click-ingest.ts), from which a fresh cache entry *)
(* seeds the limit again.  Every awaited call is a step; a worker may die  *)
(* or meet an error between any two.                                       *)
(*                                                                         *)
(* A visit is one step: the payload it was answered from, the limit script *)
(* and the append.  Clicks are numbered by stream id, and all are by       *)
(* people: a bot's click is stored but not counted.  The value of the      *)
(* limit does not change, and the stream's length bound of five million    *)
(* entries is left out.                                                    *)
(***************************************************************************)
EXTENDS Integers, Sequences, FiniteSets, SequencesExt

CONSTANTS
  Worker,       \* worker processes
  Code,         \* the codes the link is clicked under
  Cap,          \* links.max_clicks
  Batch,        \* entries one read returns (500)
  MaxAttempts,  \* inserts a worker tries before it gives an entry up (3)
  MaxClick,     \* bound: clicks appended to the stream
  MaxFail       \* bound: crashes, thrown errors, lost commands, expired counters

ASSUME ClickAssumption ==
  /\ Cap \in Nat /\ Batch \in Nat \ {0} /\ MaxAttempts \in Nat \ {0}
  /\ MaxClick \in Nat /\ MaxFail \in Nat
  /\ IsFiniteSet(Worker) /\ IsFiniteSet(Code)

Click == 1..MaxClick
Unset == -1

VARIABLES
  used,       \* used[k]: Redis clicks:limit:k
  seed,       \* seed[k]: clicksTotal in the cached payload of k
  passed,     \* clicks the limit let through
  resets,     \* limit counters expired so far
  sent,       \* entries in the stream
  read,       \* the group's last delivered entry
  pending,    \* delivered and not acknowledged
  job,        \* job[w]: what worker w is at
  attempts,   \* attempts[w][c]: failed inserts w remembers
  stored,     \* stored[c]: rows of c in ClickHouse
  dead,       \* dead[c]: copies of c in the dead-letter stream
  total,      \* links.clicks_total
  counted,    \* counted[c]: times c was added to it
  fails,      \* failures so far
  shared,     \* history: clicks two workers held at once
  misrouted   \* history: clicks given up with another click's fields

limit == <<used, seed, passed, resets>>
group == <<read, pending>>
sinks == <<stored, dead, total, counted>>
history == <<shared, misrouted>>
vars == <<limit, sent, group, job, attempts, sinks, fails, history>>

PC == {"claim", "read", "parse", "parseAck", "insert", "failed", "failAck",
       "ack", "count"}

\* from: the read that filled the batch.  at: the index of a loop over it.
\* rows: the entries of the batch that parsed.
Job == [pc : PC, from : {"claim", "read"}, batch : Seq(Click), at : Nat, rows : Seq(Click)]
Idle(pc) == [pc |-> pc, from |-> pc, batch |-> <<>>, at |-> 1, rows |-> <<>>]
Given(from, q) == [pc |-> "parse", from |-> from, batch |-> q, at |-> 1, rows |-> <<>>]

\* Variables have their types; a worker's loop index stays in its batch.
TypeOK ==
  /\ used \in [Code -> Nat \cup {Unset}] /\ seed \in [Code -> Nat \cup {Unset}]
  /\ resets \in 0..MaxFail /\ sent \in 0..MaxClick /\ passed \in Nat /\ sent <= passed
  /\ read \in 0..sent /\ pending \subseteq 1..read
  /\ job \in [Worker -> Job]
  /\ \A w \in Worker : Len(job[w].batch) <= Batch /\ job[w].at \in 1..(Len(job[w].batch) + 1)
  /\ attempts \in [Worker -> [Click -> 0..(MaxAttempts - 1)]]
  /\ stored \in [Click -> Nat] /\ dead \in [Click -> Nat]
  /\ total \in Nat /\ counted \in [Click -> Nat]
  /\ fails \in 0..MaxFail /\ shared \subseteq Click /\ misrouted \subseteq Click

Init ==
  /\ used = [k \in Code |-> Unset] /\ seed = [k \in Code |-> Unset]
  /\ passed = 0 /\ resets = 0
  /\ sent = 0 /\ read = 0 /\ pending = {}
  /\ job = [w \in Worker |-> Idle("claim")]
  /\ attempts = [w \in Worker |-> [c \in Click |-> 0]]
  /\ stored = [c \in Click |-> 0]
  /\ dead = [c \in Click |-> 0]
  /\ total = 0 /\ counted = [c \in Click |-> 0]
  /\ fails = 0 /\ shared = {} /\ misrouted = {}

\* A step that meets a failure.
Fail == fails + resets < MaxFail /\ fails' = fails + 1

-----------------------------------------------------------------------------
(* The redirect. *)

\* What the payload of k says; a missing payload is filled from the row.
Known(k) == IF seed[k] = Unset THEN total ELSE seed[k]

\* The limit script's count of k so far.
Used(k) == IF used[k] = Unset THEN Known(k) ELSE used[k]

\* enqueueClick: nobody waits for the append, and its error only adds to a count.
Enqueue ==
  \/ sent < MaxClick /\ sent' = sent + 1 /\ fails' = fails
  \/ Fail /\ sent' = sent

\* Mutant of Visit: the last click is refused one too late.
VisitOver(k) ==
  /\ seed' = [seed EXCEPT ![k] = Known(k)]
  /\ IF Used(k) > Cap
     THEN used' = [used EXCEPT ![k] = Used(k)] /\ UNCHANGED <<passed, sent, fails>>
     ELSE used' = [used EXCEPT ![k] = Used(k) + 1] /\ passed' = passed + 1 /\ Enqueue
  /\ UNCHANGED <<resets, group, job, attempts, sinks, history>>

Visit(k) ==
  /\ seed' = [seed EXCEPT ![k] = Known(k)]
  /\ IF Used(k) >= Cap
     THEN used' = [used EXCEPT ![k] = Used(k)] /\ UNCHANGED <<passed, sent, fails>>
     ELSE used' = [used EXCEPT ![k] = Used(k) + 1] /\ passed' = passed + 1 /\ Enqueue
  /\ UNCHANGED <<resets, group, job, attempts, sinks, history>>

\* Redis refuses the script: the click is allowed.
VisitUnlimited(k) ==
  /\ seed' = [seed EXCEPT ![k] = Known(k)]
  /\ Fail /\ sent < MaxClick
  /\ passed' = passed + 1 /\ sent' = sent + 1
  /\ UNCHANGED <<used, resets, group, job, attempts, sinks, history>>

\* The cached payload expires or is flushed.
PayloadGone(k) ==
  /\ seed[k] # Unset
  /\ seed' = [seed EXCEPT ![k] = Unset]
  /\ UNCHANGED <<used, passed, resets, sent, group, job, attempts, sinks, fails, history>>

\* The counter is gone 30 days after it was seeded, for INCR does not extend it,
\* or because the owner saved the limit again.
CounterGone(k) ==
  /\ used[k] # Unset /\ fails + resets < MaxFail
  /\ used' = [used EXCEPT ![k] = Unset] /\ resets' = resets + 1
  /\ UNCHANGED <<seed, passed, sent, group, job, attempts, sinks, fails, history>>

-----------------------------------------------------------------------------
(* The worker. *)

\* The entries of S in the order of their ids, the first n of them.
First(S, n) ==
  {q \in BoundedSeq(S, n) :
     /\ \A i, k \in DOMAIN q : i < k => q[i] < q[k]
     /\ \A c \in S : c \in ToSet(q) \/ (Len(q) = n /\ \A i \in DOMAIN q : q[i] < c)}

HeldByOthers(w) == UNION {ToSet(job[v].batch) : v \in Worker \ {w}}

\* A read that returned batch q; an empty one ends this half of the loop.
Take(w, q) ==
  /\ job' = [job EXCEPT ![w] =
       IF q = <<>> THEN Idle(IF @.pc = "claim" THEN "read" ELSE "claim")
       ELSE Given(@.pc, q)]
  /\ shared' = shared \cup (ToSet(q) \cap HeldByOthers(w))
  /\ UNCHANGED <<limit, sent, attempts, sinks, fails, misrouted>>

\* Mutant of Claim: pending entries are never idle for long enough.
ClaimIdle(w) ==
  /\ job[w].pc = "claim"
  /\ Take(w, <<>>)
  /\ UNCHANGED group

\* XAUTOCLAIM from 0 with no idle time: whatever is pending, whoever holds it.
Claim(w) ==
  /\ job[w].pc = "claim"
  /\ \E q \in First(pending, Batch) : Take(w, q)
  /\ UNCHANGED group

\* XREADGROUP >: entries the group has not delivered; it waits for at most 5 s.
Read(w) ==
  /\ job[w].pc = "read"
  /\ read' = IF read + Batch < sent THEN read + Batch ELSE sent
  /\ pending' = pending \cup (read + 1)..read'
  /\ Take(w, [i \in 1..(read' - read) |-> read + i])

\* processEntries returned: the other read is next.
Done(w) == Idle(IF job[w].from = "claim" THEN "read" ELSE "claim")

\* Builds rows up to the next entry that throws (the day's salt is in Redis);
\* that one goes to the dead-letter stream.
Parse(w) ==
  /\ job[w].pc = "parse"
  /\ LET j == job[w] IN
     \E n \in j.at..(Len(j.batch) + 1) :
       LET rows == j.rows \o SubSeq(j.batch, j.at, n - 1) IN
       IF n > Len(j.batch)
       THEN /\ job' = [job EXCEPT ![w] =
                 IF rows = <<>> THEN Done(w)
                 ELSE [j EXCEPT !.pc = "insert", !.rows = rows, !.at = 1]]
            /\ UNCHANGED <<dead, fails>>
       ELSE /\ Fail
            /\ job' = [job EXCEPT ![w] = [j EXCEPT !.pc = "parseAck", !.rows = rows, !.at = n]]
            /\ dead' = [dead EXCEPT ![j.batch[n]] = @ + 1]
  /\ UNCHANGED <<limit, sent, group, attempts, stored, total, counted, history>>

\* Acknowledges click c and forgets its attempts.
AckOne(w, c) ==
  /\ pending' = pending \ {c}
  /\ attempts' = [attempts EXCEPT ![w][c] = 0]
  /\ UNCHANGED <<limit, sent, read, sinks, fails, history>>

ParseAck(w) ==
  /\ job[w].pc = "parseAck"
  /\ AckOne(w, job[w].batch[job[w].at])
  /\ job' = [job EXCEPT ![w].pc = "parse", ![w].at = @ + 1]

\* Mutant of Insert: the error of the insert is logged and forgotten.
InsertUnchecked(w) ==
  /\ job[w].pc = "insert"
  /\ job' = [job EXCEPT ![w].pc = "ack"]
  /\ \/ UNCHANGED fails /\ stored' = [c \in Click |-> stored[c] + IF c \in ToSet(job[w].rows) THEN 1 ELSE 0]
     \/ Fail /\ stored' = stored
  /\ UNCHANGED <<limit, sent, group, attempts, dead, total, counted, history>>

\* One insert of all rows.  A failed one may have stored them.
Insert(w) ==
  /\ job[w].pc = "insert"
  /\ \/ job' = [job EXCEPT ![w].pc = "ack"] /\ UNCHANGED fails
     \/ job' = [job EXCEPT ![w].pc = "failed"] /\ Fail
  /\ \/ stored' = [c \in Click |-> stored[c] + IF c \in ToSet(job[w].rows) THEN 1 ELSE 0]
     \/ stored' = stored /\ fails' # fails
  /\ UNCHANGED <<limit, sent, group, attempts, dead, total, counted, history>>

\* The loop over the ids whose insert failed, one turn a step: it is over,
FailedEnd(w) ==
  /\ job[w].pc = "failed" /\ job[w].at > Len(job[w].rows)
  /\ job' = [job EXCEPT ![w] = Done(w)]
  /\ UNCHANGED <<limit, sent, group, attempts, sinks, fails, history>>

\* The click of this turn, and how often its insert has failed.
Subject(w) == job[w].rows[job[w].at]
Tries(w) == attempts[w][Subject(w)] + 1
InLoop(w) == job[w].pc = "failed" /\ job[w].at <= Len(job[w].rows)

\* or the click stays pending,
Retry(w) ==
  /\ InLoop(w) /\ Tries(w) < MaxAttempts
  /\ attempts' = [attempts EXCEPT ![w][Subject(w)] = @ + 1]
  /\ job' = [job EXCEPT ![w].at = @ + 1]
  /\ UNCHANGED <<limit, sent, group, sinks, fails, history>>

\* Mutant of GiveUp: no copy is kept.
GiveUpSilently(w) ==
  /\ InLoop(w) /\ Tries(w) >= MaxAttempts
  /\ job' = [job EXCEPT ![w].pc = "failAck"]
  /\ UNCHANGED <<limit, sent, group, attempts, sinks, fails, history>>

\* or it is given up.  The index runs over ids, the entries that parsed, and
\* also picks the fields to keep, out of entries, which is the whole batch.
GiveUp(w) ==
  /\ InLoop(w) /\ Tries(w) >= MaxAttempts
  /\ LET other == job[w].batch[job[w].at] IN
     /\ dead' = [dead EXCEPT ![other] = @ + 1]
     /\ misrouted' = misrouted \cup ({Subject(w)} \ {other})
  /\ job' = [job EXCEPT ![w].pc = "failAck"]
  /\ UNCHANGED <<limit, sent, group, attempts, stored, total, counted, fails, shared>>

FailAck(w) ==
  /\ job[w].pc = "failAck"
  /\ AckOne(w, job[w].rows[job[w].at])
  /\ job' = [job EXCEPT ![w].pc = "failed", ![w].at = @ + 1]

\* Mutant of Ack: the acknowledgement is forgotten.
AckNothing(w) ==
  /\ job[w].pc = "ack"
  /\ job' = [job EXCEPT ![w].pc = "count"]
  /\ UNCHANGED <<limit, sent, group, attempts, sinks, fails, history>>

Ack(w) ==
  /\ job[w].pc = "ack"
  /\ pending' = pending \ ToSet(job[w].rows)
  /\ attempts' = [attempts EXCEPT ![w] =
       [c \in Click |-> IF c \in ToSet(job[w].rows) THEN 0 ELSE @[c]]]
  /\ job' = [job EXCEPT ![w].pc = "count"]
  /\ UNCHANGED <<limit, sent, read, sinks, fails, history>>

\* clicks_total + the rows; the error of the update is only logged.
Count(w) ==
  /\ job[w].pc = "count"
  /\ \/ /\ counted' = [c \in Click |-> counted[c] + IF c \in ToSet(job[w].rows) THEN 1 ELSE 0]
        /\ total' = total + Len(job[w].rows)
        /\ UNCHANGED fails
     \/ Fail /\ UNCHANGED <<total, counted>>
  /\ job' = [job EXCEPT ![w] = Done(w)]
  /\ UNCHANGED <<limit, sent, group, attempts, stored, dead, history>>

Work(w) ==
  \/ Claim(w) \/ Read(w) \/ Parse(w) \/ ParseAck(w) \/ Insert(w)
  \/ FailedEnd(w) \/ Retry(w) \/ GiveUp(w) \/ FailAck(w) \/ Ack(w) \/ Count(w)

\* A Redis command throws (its effect, if it had one, is the step before): the
\* loop logs it, sleeps and starts over, and remembers the attempts.
LoopError(w) ==
  /\ job[w].pc # "insert" /\ job[w] # Idle("claim") /\ Fail
  /\ job' = [job EXCEPT ![w] = Idle("claim")]
  /\ UNCHANGED <<limit, sent, group, attempts, sinks, history>>

\* The process dies and is started again.
Crash(w) ==
  /\ Fail
  /\ job' = [job EXCEPT ![w] = Idle("claim")]
  /\ attempts' = [attempts EXCEPT ![w] = [c \in Click |-> 0]]
  /\ UNCHANGED <<limit, sent, group, sinks, history>>

-----------------------------------------------------------------------------
Next ==
  \/ \E k \in Code : Visit(k) \/ VisitUnlimited(k) \/ PayloadGone(k) \/ CounterGone(k)
  \/ \E w \in Worker : Work(w) \/ LoopError(w) \/ Crash(w)

\* The ingest loop runs for as long as the process does, and a dead process is
\* restarted.  Nobody has to visit the link.
Fairness == \A w \in Worker : WF_vars(Work(w))

Spec == Init /\ [][Next]_vars /\ Fairness

-----------------------------------------------------------------------------
(* Properties. *)

Acked == (1..read) \ pending
Kept(c) == stored[c] > 0 \/ dead[c] > 0

\* "Only XACKs after a successful insert; a message that fails 3x is routed to the
\* dead-letter stream" (click-ingest.ts:14), but for a click given up with the
\* fields of another one: no crash, thrown error, retry or second worker loses a
\* click in any other way.
LostOnlyByMisroute == \A c \in Acked : Kept(c) \/ c \in misrouted

\* clicks_total never runs ahead of ClickHouse: a click is added to the total at
\* most as often as it was stored, for any retries and any workers.
CountedOnlyIfStored == \A c \in Click : counted[c] <= stored[c]

\* A click is stored twice, counted twice, or both stored and given up, only
\* after a failure or when two workers held it at once.
RepeatsAreExplained ==
  \A c \in Click : stored[c] + dead[c] > 1 => fails > 0 \/ c \in shared

\* The limit is passed by at most a whole limit for each code the link has and
\* each counter that expired, and one click for each error of Redis.
OverrunBounded ==
  passed <= Cap * (Cardinality(Code) + resets) + fails

\* Every click in the stream is read and acknowledged in the end, and is in
\* clicks_total unless something failed.
EventuallySettled ==
  \A c \in Click :
    (c <= sent) ~> (c <= read /\ c \notin pending /\ (counted[c] > 0 \/ fails > 0))
=============================================================================
