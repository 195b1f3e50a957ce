---------------------------- MODULE BulkImport -----------------------------
(***************************************************************************)
(* The bulk import: a file of rows, a Redis stream, and the worker's loop. *)
(*                                                                         *)
(* startBulkImportAction seeds a hash of counters and appends one entry    *)
(* per row; the loop of a worker claims what is pending, reads what is     *)
(* new, makes a link of each row, counts it and acknowledges the entry.    *)
(* A page polls the counters until they say that the import is finished.   *)
(*                                                                         *)
(* The statements of one row are steps: a worker may die, and Redis or     *)
(* Postgres fail, between any two.  Production has one worker, and two for *)
(* the time of a deployment.                                               *)
(***************************************************************************)
EXTENDS Integers, Sequences, SequencesExt, FiniteSets

CONSTANTS
  Worker,
  Total,         \* rows of the file
  Custom,        \* those that name a slug; the others get one that is drawn
  Batch,         \* BATCH: entries of a claim or a read (50)
  MaxAttempts,   \* MAX_ATTEMPTS (3)
  MaxFail        \* bound: failures of any kind

\* What the constants satisfy.
BulkAssumption ==
  /\ {Total, Batch, MaxAttempts} \subseteq Nat \ {0} /\ MaxFail \in Nat
  /\ Custom \subseteq 1..Total /\ IsFiniteSet(Worker)

Row == 1..Total

VARIABLES
  upload,      \* rows appended to the stream so far, -1 before the import
  progress,    \* bulk:progress:<id>
  delivered,   \* entries some worker has read, the first ones
  acked,       \* entries acknowledged
  fetch,       \* fetch[w]: how worker w gets its next entries
  todo,        \* todo[w]: entries it has in hand
  step,        \* step[w]: the next statement for the first of them
  attempts,    \* attempts[w][r]: tries that threw, in the memory of w
  links,       \* links[r]: links made of a row
  dead,        \* rows in the dead-letter stream
  fails,
  again,       \* history: again[r], why row r may have run once more
  missed,      \* history: rows whose count was lost
  cut          \* history: the upload stopped half way

hash == <<progress, missed>>
group == <<delivered, acked>>
worker == <<fetch, todo, step, attempts>>
vars == <<upload, hash, group, worker, links, dead, fails, again, cut>>

Step == {"create", "tick", "ack"}
TypeOK ==
  /\ upload \in -1..Total
  /\ progress \in [total : 0..Total, done : Nat, finished : BOOLEAN]
  /\ delivered \in 0..Total /\ acked \subseteq Row
  /\ fetch \in [Worker -> {"claim", "read"}] /\ step \in [Worker -> Step]
  /\ todo \in [Worker -> Seq(Row)]
  /\ attempts \in [Worker -> [Row -> 0..MaxAttempts - 1]]
  /\ links \in [Row -> Nat] /\ again \in [Row -> Nat] /\ dead \subseteq Row
  /\ fails \in 0..MaxFail /\ missed \subseteq Row /\ cut \in BOOLEAN

NoProgress == [total |-> 0, done |-> 0, finished |-> FALSE]

Init ==
  /\ upload = -1 /\ progress = NoProgress /\ delivered = 0 /\ acked = {}
  /\ fetch = [w \in Worker |-> "claim"] /\ todo = [w \in Worker |-> <<>>]
  /\ step = [w \in Worker |-> "create"]
  /\ attempts = [w \in Worker |-> [r \in Row |-> 0]]
  /\ links = [r \in Row |-> 0] /\ dead = {} /\ fails = 0
  /\ again = [r \in Row |-> 0] /\ missed = {} /\ cut = FALSE

Fail == fails < MaxFail /\ fails' = fails + 1

-----------------------------------------------------------------------------
(* The upload.  A malformed row rejects the file before anything is written. *)

SeedGrowing ==
  /\ upload = -1
  /\ progress' = [NoProgress EXCEPT !.total = 1] /\ upload' = 0
  /\ UNCHANGED <<missed, group, worker, links, dead, fails, again, cut>>

\* The hash is seeded with the number of rows and a time to live of a day.
Seed ==
  /\ upload = -1
  /\ progress' = [NoProgress EXCEPT !.total = Total] /\ upload' = 0
  /\ UNCHANGED <<missed, group, worker, links, dead, fails, again, cut>>

AppendEntry ==
  /\ upload \in 0..Total - 1 /\ ~cut
  /\ \/ upload' = upload + 1 /\ UNCHANGED <<fails, cut>>
     \/ Fail /\ cut' = TRUE /\ UNCHANGED upload
  /\ UNCHANGED <<hash, group, worker, links, dead, again>>

-----------------------------------------------------------------------------
(* The loop of a worker. *)

Pending == (1..delivered) \ acked
FirstOf(all) == SubSeq(all, 1, IF Len(all) < Batch THEN Len(all) ELSE Batch)
Claims ==
  {FirstOf(s) : s \in {s \in SetToSeqs(Pending) : \A j, k \in DOMAIN s : j < k => s[j] < s[k]}}

InHand(r) == {w \in Worker : r \in ToSet(todo[w])}

\* What is pending is claimed, whoever has it: a worker with another process id
\* may be at it still.
Claim(w) ==
  /\ todo[w] = <<>> /\ fetch[w] = "claim"
  /\ fetch' = [fetch EXCEPT ![w] = "read"]
  /\ \E all \in Claims :
       /\ todo' = [todo EXCEPT ![w] = all]
       /\ again' = [r \in Row |-> IF r \in ToSet(all) /\ InHand(r) # {} THEN again[r] + 1 ELSE again[r]]
  /\ UNCHANGED <<upload, hash, group, step, attempts, links, dead, fails, cut>>

\* Entries nobody has read yet.
Read(w) ==
  /\ todo[w] = <<>> /\ fetch[w] = "read"
  /\ LET new == IF upload < 0 THEN 0 ELSE upload - delivered
         n == IF new < Batch THEN new ELSE Batch
     IN /\ todo' = [todo EXCEPT ![w] = [k \in 1..n |-> delivered + k]]
        /\ delivered' = delivered + n
  /\ fetch' = [fetch EXCEPT ![w] = "claim"]
  /\ UNCHANGED <<upload, hash, acked, step, attempts, links, dead, fails, again, cut>>

At(w, s) == todo[w] # <<>> /\ step[w] = s
Go(w, s) == step' = [step EXCEPT ![w] = s] /\ UNCHANGED todo
NextRow(w) ==
  /\ todo' = [todo EXCEPT ![w] = Tail(@)] /\ step' = [step EXCEPT ![w] = "create"]

\* An error leaves processEntries; the loop sleeps and starts again.
Abandon(w) ==
  /\ todo' = [todo EXCEPT ![w] = <<>>] /\ step' = [step EXCEPT ![w] = "create"]
  /\ fetch' = [fetch EXCEPT ![w] = "claim"]

\* processRow: createLink makes a link, refuses the row, or throws, before or
\* after the insert.  What threw once too often goes to the dead letters,
\* whose stream may throw as well.
Create(w) ==
  /\ At(w, "create")
  /\ LET r == Head(todo[w]) IN
     \/ /\ r \in Custom => links[r] = 0
        /\ links' = [links EXCEPT ![r] = @ + 1]
        /\ Go(w, "tick")
        /\ UNCHANGED <<attempts, dead, fails, again, fetch>>
     \/ /\ Go(w, "tick")
        /\ UNCHANGED <<links, attempts, dead, fails, again, fetch>>
     \/ /\ Fail
        /\ \/ UNCHANGED <<links, again>>
           \/ /\ r \in Custom => links[r] = 0
              /\ links' = [links EXCEPT ![r] = @ + 1] /\ again' = [again EXCEPT ![r] = @ + 1]
        /\ IF attempts[w][r] + 1 >= MaxAttempts
           THEN /\ \/ dead' = dead \cup {r} /\ Go(w, "tick") /\ UNCHANGED fetch
                   \/ Abandon(w) /\ UNCHANGED dead
                /\ UNCHANGED attempts
           ELSE /\ attempts' = [attempts EXCEPT ![w][r] = @ + 1] /\ NextRow(w)
                /\ UNCHANGED <<dead, fetch>>
  /\ UNCHANGED <<upload, hash, group, cut>>

\* The import is done once its counters reach the total.
AccountedLate(p) == p.total > 0 /\ p.done > p.total
Accounted(p) == p.total > 0 /\ p.done >= p.total
Counted == [progress EXCEPT !.done = @ + 1]
Ticked == [Counted EXCEPT !.finished = @ \/ Accounted(Counted)]

\* tickProgress counts the row and looks whether it was the last one.  An error
\* is swallowed: the row is counted and nobody looked, or it is not counted.
\* What it is counted as, created or failed, is only shown.
Tick(w) ==
  /\ At(w, "tick")
  /\ Go(w, "ack")
  /\ \/ progress' = Ticked /\ UNCHANGED <<fails, missed>>
     \/ Fail /\ progress' = Counted /\ UNCHANGED missed
     \/ Fail /\ missed' = missed \cup {Head(todo[w])} /\ UNCHANGED progress
  /\ UNCHANGED <<upload, group, fetch, attempts, links, dead, again, cut>>

Ack(w) ==
  /\ At(w, "ack")
  /\ LET r == Head(todo[w]) IN
     \/ /\ acked' = acked \cup {r} /\ attempts' = [attempts EXCEPT ![w][r] = 0]
        /\ NextRow(w) /\ UNCHANGED <<fails, again, fetch>>
     \/ /\ Fail /\ Abandon(w)
        /\ again' = [again EXCEPT ![r] = @ + 1] /\ UNCHANGED <<acked, attempts>>
  /\ UNCHANGED <<upload, hash, delivered, links, dead, cut>>

\* The worker dies and another process takes its place.
Crash(w) ==
  /\ todo[w] # <<>> /\ Fail /\ Abandon(w)
  /\ again' = IF step[w] = "create" THEN again ELSE [again EXCEPT ![Head(todo[w])] = @ + 1]
  /\ attempts' = [attempts EXCEPT ![w] = [r \in Row |-> 0]]
  /\ UNCHANGED <<upload, hash, group, links, dead, cut>>

Work(w) == Claim(w) \/ Read(w) \/ Create(w) \/ Tick(w) \/ Ack(w)

Next == Seed \/ AppendEntry \/ \E w \in Worker : Work(w) \/ Crash(w)

\* The loop of a worker goes on; an upload that has begun does.
Fairness == WF_vars(AppendEntry) /\ \A w \in Worker : WF_vars(Work(w))

Spec == Init /\ [][Next]_vars /\ Fairness

-----------------------------------------------------------------------------
(* Properties. *)

LinksExplained == \A r \in Row : links[r] <= 1 + again[r]

\* What the progress route tells the page (route.ts:90).
Finished == progress.finished \/ Accounted(progress)

FinishedMeansHandled ==
  Finished /\ (\A r \in Row : again[r] = 0) =>
    \A r \in Row : r \in acked \/ \E w \in InHand(r) : r = Head(todo[w]) /\ step[w] # "create"

\* A row gets a second link only if it ran again for a reason: its worker died
\* or could not acknowledge it, the answer to the insert was lost, or a second
\* worker claimed it (bulk-import.ts:132, 159).  And the page hears of the end
\* only when every row has been dealt with, unless one of them was counted twice
\* for such a reason.
RowsAccounted == LinksExplained /\ FinishedMeansHandled

\* An import whose upload came to its end is reported as finished, although
\* workers die and rows throw, unless the count of a row was lost: then the
\* page waits for its 20 minutes in vain (bulk-import.ts:69).
ImportEnds ==
  upload = Total ~> (Finished \/ missed # {}) /\ acked = Row
=============================================================================
