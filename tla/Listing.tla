------------------------------ MODULE Listing -------------------------------
(***************************************************************************)
(* GET /api/v1/links, page by page, while links are written.               *)
(*                                                                         *)
(* The pages follow (updated_at, id).  A row is inserted with the time its *)
(* transaction began, in microseconds; every later write, one of the click *)
(* counters included, stamps it with the clock of the process that writes, *)
(* in milliseconds.  The cursor has milliseconds only.  Time is counted    *)
(* here in parts of a millisecond.                                         *)
(***************************************************************************)
EXTENDS Integers, FiniteSets

CONSTANTS
  Id,          \* numbers, ids of the owner's links
  Part,        \* parts of a millisecond the database tells apart
  Behind,      \* how far the clocks of the writing processes may be behind
  Limit,       \* rows on a page
  MaxTime, MaxWrite, MaxPage    \* bounds

\* What the constants satisfy.
ListingAssumption ==
  /\ Id \subseteq Nat /\ IsFiniteSet(Id) /\ Behind \subseteq Nat
  /\ {Part, Limit} \subseteq Nat \ {0} /\ {MaxTime, MaxWrite, MaxPage} \subseteq Nat

VARIABLES
  time,      \* true time
  row,       \* row[i]: updated_at, or Absent
  write,     \* write[i]: the insertion or update of the row that is under way
  list,      \* the client's listing: its cursor, and what it has seen
  writes, pages

vars == <<time, row, write, list, writes, pages>>

Absent == -1
NoWrite == [kind |-> "none"]
Unbegun == [at |-> "unbegun"]
Start == [ms |-> -1, id |-> -1]

Init ==
  /\ time = 0
  /\ row \in [Id -> {Absent, 0}] /\ write = [i \in Id |-> NoWrite]
  /\ list = Unbegun /\ writes = 0 /\ pages = 0

\* What a Date has of a time.
Milli(t) == t - (t % Part)

Tick ==
  /\ time < MaxTime /\ time' = time + 1
  /\ UNCHANGED <<row, write, list, writes, pages>>

Starts(i, w) ==
  /\ write[i] = NoWrite /\ writes < MaxWrite
  /\ writes' = writes + 1 /\ write' = [write EXCEPT ![i] = w]
  /\ UNCHANGED <<time, row, list, pages>>

\* The transaction of a new row begins, and with it its now().
Insert(i) == row[i] = Absent /\ Starts(i, [kind |-> "insert", stamp |-> time])

\* A handler or the click counter takes a time for the row it is about to write.
Update(i, behind) ==
  /\ row[i] # Absent /\ time >= behind
  /\ Starts(i, [kind |-> "update", stamp |-> Milli(time - behind)])

-----------------------------------------------------------------------------
(* The pages. *)

\* Mutant of After: rows of the cursor's own time are passed by.
AfterLoose(cursor, at, i) == at > cursor.ms

\* The rows after a cursor, which its own row may be among: its time was cut.
After(cursor, at, i) == at > cursor.ms \/ (at = cursor.ms /\ i > cursor.id)

Earlier(i, j) == row[i] < row[j] \/ (row[i] = row[j] /\ i < j)

\* orderBy, limit: the rows that fewer than Limit others come before.
Shown(rows) == {i \in rows : Cardinality({j \in rows : Earlier(j, i)}) < Limit}

\* encodeCursor of the last row.
CursorAt(page) ==
  LET last == CHOOSE i \in page : \A j \in page \ {i} : Earlier(j, i)
  IN  [ms |-> Milli(row[last]), id |-> last]

\* One more row than the page has says whether there is another.
NextPage ==
  /\ list = Unbegun \/ list.at = "open"
  /\ pages < MaxPage /\ pages' = pages + 1
  /\ LET old == IF list = Unbegun
                THEN [at |-> "open", cursor |-> Start, seen |-> {}, moved |-> {}, stuck |-> FALSE,
                      due |-> {i \in Id : row[i] # Absent}]
                ELSE list
         rows == {i \in Id : row[i] # Absent /\ After(old.cursor, row[i], i)}
         page == Shown(rows)
         more == page # rows
     IN  list' = [old EXCEPT
           !.at = IF more THEN "open" ELSE "done",
           !.cursor = IF more THEN CursorAt(page) ELSE @,
           !.seen = @ \cup page,
           !.stuck = @ \/ (more /\ CursorAt(page) = old.cursor
                           /\ \E i \in page : Milli(row[i]) # old.cursor.ms)]
  /\ UNCHANGED <<time, row, write, writes>>

\* The statement is done.  A row that gets a time before the cursor is passed by.
Written(i) ==
  /\ write[i] # NoWrite
  /\ row' = [row EXCEPT ![i] = write[i].stamp]
  /\ write' = [write EXCEPT ![i] = NoWrite]
  /\ list' = IF list.at = "open" /\ ~After(list.cursor, write[i].stamp, i)
             THEN [list EXCEPT !.moved = @ \cup {i}] ELSE list
  /\ UNCHANGED <<time, writes, pages>>

Next ==
  \/ Tick \/ NextPage
  \/ \E i \in Id : Insert(i) \/ Written(i) \/ \E b \in Behind : Update(i, b)

Spec == Init /\ [][Next]_vars

-----------------------------------------------------------------------------
(* Properties. *)

\* A listing that has ended has shown every link that was there when it began,
\* however they were written meanwhile, but for those a late write or a slow
\* clock moved behind the cursor (links/route.ts:133).  And a page that leads
\* back to itself is full of rows of a single millisecond: one row is enough
\* where a page has one.
ListedOrMoved ==
  list # Unbegun =>
    /\ list.at = "done" => list.due \subseteq list.seen \cup list.moved
    /\ ~list.stuck
=============================================================================
