----------------------------- MODULE RateLimits -----------------------------
(***************************************************************************)
(* The sliding-window limiter of the web application.                      *)
(*                                                                         *)
(* Every bucket is a sorted set in Redis with one member for each hit that *)
(* was let through, scored by the time of the hit.  The script that trims, *)
(* counts and adds is atomic, but the time it goes by is the clock of the  *)
(* process that called, read before the call: processes differ, and calls  *)
(* arrive late and out of order.  A request may hit several buckets, and   *)
(* is logged in one even where another refuses it.                         *)
(***************************************************************************)
EXTENDS Integers, Sequences, FiniteSets

CONSTANTS
  Caller,      \* requests that may be under way at a time
  Ahead,       \* Ahead[c]: how far the clock of the process that serves c is ahead
  Route,       \* actions that are limited
  Bucket,      \* buckets
  Hits,        \* Hits[r]: the buckets a request of route r hits
  Limit,       \* Limit[b]: hits in a window
  Window,      \* Window[b]: its length
  Delay,       \* the longest time from the reading of the clock to the script
  MaxTime, MaxRequest, MaxFail   \* bounds

Skew == CHOOSE s \in {Ahead[c] : c \in Caller} : \A c \in Caller : Ahead[c] <= s

\* What the constants satisfy.
RateLimitsAssumption ==
  /\ Ahead \in [Caller -> Nat] /\ \E c \in Caller : \A d \in Caller : Ahead[d] <= Ahead[c]
  /\ Hits \in [Route -> SUBSET Bucket]
  /\ Limit \in [Bucket -> Nat \ {0}] /\ Window \in [Bucket -> Nat \ {0}]
  /\ {Delay, MaxTime, MaxRequest, MaxFail} \subseteq Nat

VARIABLES
  time,      \* true time, which Redis goes by
  log,       \* log[b]: the sorted set, scores with the number of the hit
  due,       \* due[b]: when Redis drops the set
  call,      \* call[c]: the answers a request waits for, bucket by bucket
  hits,      \* history: hits[b]: the true times of the hits let through
  refused,   \* history: refused[b]: the latest refusal and the hits before it
  requests, failures

vars == <<time, log, due, call, hits, refused, requests, failures>>

Idle == <<>>
Never == [at |-> -1, of |-> 0]
Waiting == [step |-> "waiting"]

Init ==
  /\ time = 0
  /\ log = [b \in Bucket |-> {}] /\ due = [b \in Bucket |-> 0]
  /\ call = [c \in Caller |-> Idle]
  /\ hits = [b \in Bucket |-> <<>>] /\ refused = [b \in Bucket |-> Never]
  /\ requests = 0 /\ failures = 0

Pending(c) == {b \in DOMAIN call[c] : call[c][b].step \in {"waiting", "sent"}}

\* A script that was sent arrives in time.
Tick ==
  /\ time < MaxTime
  /\ \A c \in Caller : \A b \in Pending(c) :
       call[c][b].step = "sent" => time - call[c][b].at < Delay
  /\ time' = time + 1
  /\ UNCHANGED <<log, due, call, hits, refused, requests, failures>>

\* rateLimitMany, or one rateLimit after another: every bucket of the route is hit,
\* whatever the others answer.
Request(c, r) ==
  /\ call[c] = Idle /\ requests < MaxRequest
  /\ requests' = requests + 1
  /\ call' = [call EXCEPT ![c] = [b \in Hits[r] |-> Waiting]]
  /\ UNCHANGED <<time, log, due, hits, refused, failures>>

\* rateLimit: the clock is read and the script sent.
Send(c, b) ==
  /\ b \in Pending(c) /\ call[c][b] = Waiting
  /\ call' = [call EXCEPT ![c][b] = [step |-> "sent", now |-> time + Ahead[c], at |-> time]]
  /\ UNCHANGED <<time, log, due, hits, refused, requests, failures>>

\* What is left of the set: Redis drops it when it is due, the script what is old.
Live(b, now) ==
  IF due[b] <= time THEN {} ELSE {m \in log[b] : m.score > now - Window[b]}

RoomInclusive(b, now) == Cardinality(Live(b, now)) <= Limit[b]

Room(b, now) == Cardinality(Live(b, now)) < Limit[b]

\* The script.  A refused hit is not logged, but keeps the set from being dropped.
Run(c, b) ==
  /\ b \in Pending(c) /\ call[c][b].step = "sent"
  /\ LET now == call[c][b].now
     IN  IF Room(b, now)
         THEN /\ hits' = [hits EXCEPT ![b] = Append(@, time)]
              /\ log' = [log EXCEPT ![b] = Live(b, now) \cup {[score |-> now, of |-> Len(hits[b]) + 1]}]
              /\ call' = [call EXCEPT ![c][b] = [step |-> "yes"]]
              /\ UNCHANGED refused
         ELSE /\ log' = [log EXCEPT ![b] = Live(b, now)]
              /\ refused' = [refused EXCEPT ![b] = [at |-> time, of |-> Len(hits[b])]]
              /\ call' = [call EXCEPT ![c][b] = [step |-> "no"]]
              /\ UNCHANGED hits
  /\ due' = [due EXCEPT ![b] = time + Window[b]]
  /\ UNCHANGED <<time, requests, failures>>

\* The request goes on, or is told to wait.
Answer(c) ==
  /\ call[c] # Idle /\ Pending(c) = {}
  /\ call' = [call EXCEPT ![c] = Idle]
  /\ UNCHANGED <<time, log, due, hits, refused, requests, failures>>

\* Redis cannot be reached: the API lets the request through, every other action
\* fails; what other buckets logged stays.
Unreachable(c) ==
  /\ Pending(c) # {} /\ failures < MaxFail
  /\ failures' = failures + 1
  /\ call' = [call EXCEPT ![c] = Idle]
  /\ UNCHANGED <<time, log, due, hits, refused, requests>>

Next ==
  \/ Tick
  \/ \E c \in Caller :
       \/ Answer(c) \/ Unreachable(c)
       \/ \E r \in Route : Request(c, r)
       \/ \E b \in Bucket : Send(c, b) \/ Run(c, b)

Spec == Init /\ [][Next]_vars

-----------------------------------------------------------------------------
(* Properties. *)

\* Of any Limit + 1 hits let through in a row the last is a window later than the
\* first, less what the clocks differ and a call takes; and a refusal has Limit
\* hits before it within a window, and that much more (rate-limit.ts:55).  What
\* holds on a bucket holds whoever is served by which process.
LimitKept ==
  \A b \in Bucket :
    /\ \A n \in 1..Len(hits[b]) - Limit[b] :
         hits[b][n + Limit[b]] - hits[b][n] >= Window[b] - Skew - Delay
    /\ LET last == refused[b]
       IN  last # Never =>
             /\ last.of >= Limit[b]
             /\ last.at - hits[b][last.of - Limit[b] + 1] < Window[b] + Skew + Delay
=============================================================================
