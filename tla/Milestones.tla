---------------------------- MODULE Milestones -----------------------------
(***************************************************************************)
(* Click milestones: the worker's pass that announces 100, 1 000, ...      *)
(* clicks of a link to its owner's webhooks, once per link and milestone.  *)
(*                                                                         *)
(* The cursor is a Redis hash: the highest milestone announced per link.   *)
(* A pass reads totals, then the cursor of its whole batch, then inserts   *)
(* deliveries and moves the cursor, link by link.                          *)
(***************************************************************************)
EXTENDS Integers, Sequences, SequencesExt, FiniteSets, FiniteSetsExt

CONSTANTS
  Worker,
  Links,         \* number of links, in the order of their ids
  Threshold,     \* THRESHOLDS (100, 1 000, 10 000, 100 000)
  Batch,         \* BATCH: candidates of a pass (500)
  MaxClicks,     \* bound: clicks of a link
  MaxFail        \* bound: failures

\* What the constants satisfy.
MilestonesAssumption ==
  /\ Threshold # {} /\ Threshold \subseteq 1..MaxClicks
  /\ {Links, Batch, MaxClicks} \subseteq Nat \ {0} /\ MaxFail \in Nat

Link == 1..Links

VARIABLES
  clicks,      \* clicks[l]: links.clicks_total
  owned,       \* links with an owner; a claim later on is like clicks that come later
  cursor,      \* cursor[l]: webhook:threshold:seen, 0 if absent
  emits,       \* emits[l][t]: how often milestone t of l was announced
  batch,       \* batch[w]: candidates left, with their totals
  seen,        \* seen[w]: the cursors as they were read
  step,        \* step[w]: what worker w does next
  lock,        \* the Redis lock is set
  failures,
  slipped,     \* history: links whose announcement and cursor came apart
  beside       \* history: a pass began beside another one

passes == <<batch, seen, step, lock>>
vars == <<clicks, owned, cursor, emits, passes, failures, slipped, beside>>

\* crossedThreshold: the highest milestone reached, 0 for none.
Crossed(n) == Max({0} \cup {t \in Threshold : t <= n})
Smallest == Min(Threshold)

TypeOK ==
  /\ clicks \in [Link -> 0..MaxClicks] /\ owned \subseteq Link
  /\ cursor \in [Link -> {0} \cup Threshold] /\ emits \in [Link -> [Threshold -> Nat]]
  /\ batch \in [Worker -> Seq(Link \X (0..MaxClicks))]
  /\ seen \in [Worker -> [Link -> {0} \cup Threshold]]
  /\ step \in [Worker -> {"idle", "emit", "mark"}]
  /\ lock \in BOOLEAN /\ failures \in 0..MaxFail /\ slipped \subseteq Link /\ beside \in BOOLEAN

Unread == [l \in Link |-> 0]

Init ==
  /\ clicks = [l \in Link |-> 0] /\ owned \in SUBSET Link
  /\ cursor = [l \in Link |-> 0] /\ emits = [l \in Link |-> [t \in Threshold |-> 0]]
  /\ batch = [w \in Worker |-> <<>>] /\ seen = [w \in Worker |-> Unread]
  /\ step = [w \in Worker |-> "idle"] /\ lock = FALSE
  /\ failures = 0 /\ slipped = {} /\ beside = FALSE

Fail == failures < MaxFail /\ failures' = failures + 1

-----------------------------------------------------------------------------
(* Around the pass. *)

\* click-ingest adds to a total, a batch at a time.
Click(l) ==
  /\ \E n \in clicks[l] + 1..MaxClicks : clicks' = [clicks EXCEPT ![l] = n]
  /\ UNCHANGED <<owned, cursor, emits, passes, failures, slipped, beside>>

Expire ==
  /\ lock
  /\ lock' = FALSE
  /\ UNCHANGED <<clicks, owned, cursor, emits, batch, seen, step, failures, slipped, beside>>

-----------------------------------------------------------------------------
(* The pass. *)

\* Owned links past the smallest milestone, the first ones by id.
Reached == {l \in owned : clicks[l] >= Smallest}
FirstOf(all) == SubSeq(all, 1, IF Len(all) < Batch THEN Len(all) ELSE Batch)
CandidatesNewest ==
  {FirstOf(s) : s \in {s \in SetToSeqs(Reached) : \A j, k \in DOMAIN s : j < k => s[j] > s[k]}}
Candidates ==
  {FirstOf(s) : s \in {s \in SetToSeqs(Reached) : \A j, k \in DOMAIN s : j < k => s[j] < s[k]}}

\* Their totals are read, and then their cursors.  A pass without candidates, or
\* that cannot read them, is over at once.
Start(w) ==
  /\ step[w] = "idle" /\ ~lock
  /\ \/ /\ Reached # {}
        /\ lock' = TRUE
        /\ \E all \in Candidates :
             /\ batch' = [batch EXCEPT ![w] = [k \in 1..Len(all) |-> <<all[k], clicks[all[k]]>>]]
             /\ seen' = [seen EXCEPT ![w] =
                  [l \in Link |-> IF l \in ToSet(all) THEN cursor[l] ELSE 0]]
        /\ step' = [step EXCEPT ![w] = "emit"]
        /\ beside' = (beside \/ \E v \in Worker : step[v] # "idle")
     \/ Reached = {} /\ UNCHANGED <<passes, beside>>
  /\ UNCHANGED <<clicks, owned, cursor, emits, failures, slipped>>

\* The end of the pass, or of the worker; a worker that dies leaves the lock.
Leave(w) ==
  /\ batch' = [batch EXCEPT ![w] = <<>>] /\ seen' = [seen EXCEPT ![w] = Unread]
  /\ step' = [step EXCEPT ![w] = "idle"]

\* Whether a milestone is news to the pass.
NewsAgain(w, l, n) == Crossed(n) > 0 /\ Crossed(n) >= seen[w][l]
News(w, l, n) == Crossed(n) > seen[w][l]

NextLink(w) ==
  /\ batch' = [batch EXCEPT ![w] = Tail(@)] /\ step' = [step EXCEPT ![w] = "emit"]

\* Deliveries are inserted for the milestone; an error leaves the cursor where it
\* was, also when the rows were stored and only the answer was lost.
Emit(w) ==
  /\ step[w] = "emit" /\ batch[w] # <<>>
  /\ LET l == Head(batch[w])[1]
         n == Head(batch[w])[2]
         out == emits' = [emits EXCEPT ![l][Crossed(n)] = @ + 1]
     IN \/ News(w, l, n) /\ out /\ step' = [step EXCEPT ![w] = "mark"]
                         /\ UNCHANGED <<batch, failures, slipped>>
        \/ ~News(w, l, n) /\ NextLink(w) /\ UNCHANGED <<emits, failures, slipped>>
        \/ News(w, l, n) /\ Fail /\ NextLink(w) /\ UNCHANGED <<emits, slipped>>
        \/ News(w, l, n) /\ Fail /\ NextLink(w) /\ out /\ slipped' = slipped \cup {l}
  /\ UNCHANGED <<clicks, owned, cursor, seen, lock, beside>>

Mark(w) ==
  /\ step[w] = "mark"
  /\ LET l == Head(batch[w])[1] IN
     \/ /\ cursor' = [cursor EXCEPT ![l] = Crossed(Head(batch[w])[2])]
        /\ UNCHANGED <<failures, slipped>>
     \/ Fail /\ slipped' = slipped \cup {l} /\ UNCHANGED cursor
  /\ NextLink(w)
  /\ UNCHANGED <<clicks, owned, emits, seen, lock, beside>>

End(w) ==
  /\ step[w] = "emit" /\ batch[w] = <<>>
  /\ Leave(w) /\ lock' = FALSE
  /\ UNCHANGED <<clicks, owned, cursor, emits, failures, slipped, beside>>

Crash(w) ==
  /\ step[w] # "idle" /\ Fail /\ Leave(w)
  /\ slipped' = IF step[w] = "mark" THEN slipped \cup {Head(batch[w])[1]} ELSE slipped
  /\ UNCHANGED <<clicks, owned, cursor, emits, lock, beside>>

Pass(w) == Start(w) \/ Emit(w) \/ Mark(w) \/ End(w)

Next ==
  \/ \E l \in Link : Click(l)
  \/ \E w \in Worker : Pass(w) \/ Crash(w)
  \/ Expire

\* The timer of every worker and the lock's time to live.
Fairness == WF_vars(Expire) /\ \A w \in Worker : WF_vars(Pass(w))

Spec == Init /\ [][Next]_vars /\ Fairness

-----------------------------------------------------------------------------
(* Properties. *)

\* "Exactly once per (link, threshold)" (threshold-detector.ts:19): announced
\* twice only if the insert and the cursor came apart, or two passes overlapped,
\* the first one having outlived its lock of 55 s.
AnnouncedOnce ==
  \A l \in Link \ slipped : \A t \in Threshold : emits[l][t] <= 1 \/ beside

\* And at least once: among the first links by id, as many as one pass looks at,
\* a milestone that was reached is announced, or a higher one is, whatever the
\* links after them do.  Of those nothing is promised (threshold-detector.ts:107).
EventuallyAnnounced ==
  \A l \in Link \cap 1..Batch : \A t \in Threshold :
    l \in owned /\ clicks[l] >= t ~> \E u \in Threshold : u >= t /\ emits[l][u] > 0
=============================================================================
