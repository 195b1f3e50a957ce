---------------------------- MODULE GeoRefresh ----------------------------
(***************************************************************************)
(* The GeoLite2 databases: the worker's job that downloads the editions    *)
(* and publishes each over the file before it, the reader the worker swaps *)
(* afterwards, and the reader a web process opens when it starts.          *)
(*                                                                         *)
(* The job runs at the start and every week, and skips a file younger than *)
(* a week.  As a download takes time, the file is a little younger than a  *)
(* week when the timer fires again: time is measured in units that make    *)
(* the difference visible.                                                 *)
(***************************************************************************)
EXTENDS Integers, Sequences

CONSTANTS
  Editions,    \* MAXMIND_EDITION_IDS, in their order
  City,        \* the edition the worker reads
  Tried,       \* the editions a web process tries, in their order
  Web,         \* web processes
  Week,        \* period of the timer, in units of time
  MaxAge,      \* a younger file is fresh (MAX_AGE_MS: a week)
  MaxRun,      \* bound: length of a run
  MaxTime,     \* bound: time
  MaxFail      \* bound: failures

Edition == {Editions[i] : i \in DOMAIN Editions}

\* What the constants satisfy; the editions name the one the worker reads
\* (env.ts:106).
GeoAssumption ==
  /\ Editions \in Seq(Edition) /\ City \in Edition
  /\ {Week, MaxRun, MaxTime} \subseteq Nat \ {0} /\ MaxFail \in Nat
  /\ MaxAge = Week /\ MaxRun < Week

VARIABLES
  now,
  up,      \* the worker runs
  due,     \* when its timer fires
  job,     \* the run
  file,    \* file[e]: what is under <e>.mmdb
  reader,  \* the worker's reader: the file it has opened
  web,     \* web[s]: the file the process has opened
  fails,
  slack    \* history: slack[e]: time the failures since its publication may cost

vars == <<now, up, due, job, file, reader, web, fails, slack>>

NoFile == [at |-> -1, whole |-> FALSE, good |-> FALSE]
IdleJob == [pc |-> "idle"]
NewJob == [pc |-> "stat", i |-> 1, since |-> now, from |-> now, city |-> FALSE, got |-> NoFile]

\* maxmind's open refuses what is missing, cut off or no database.
Opened(f) == IF f.whole /\ f.good THEN f ELSE NoFile

Init ==
  /\ now = 0 /\ up = FALSE /\ due = 0 /\ job = IdleJob
  /\ file \in [Edition -> {NoFile, [at |-> 0, whole |-> TRUE, good |-> TRUE]}]
  /\ reader = NoFile /\ web = [s \in Web |-> NoFile]
  /\ fails = 0 /\ slack = [e \in Edition |-> 0]

-----------------------------------------------------------------------------
(* The worker. *)

\* main: the reader is opened, then the job runs and its timer is set.
Start ==
  /\ ~up /\ up' = TRUE
  /\ reader' = Opened(file[City])
  /\ due' = now + Week /\ job' = NewJob
  /\ UNCHANGED <<now, file, web, fails, slack>>

\* every: a run that is still under way is not overlapped.
Fire ==
  /\ up /\ now = due
  /\ due' = now + Week
  /\ job' = IF job = IdleJob THEN NewJob ELSE job
  /\ UNCHANGED <<now, up, file, reader, web, fails, slack>>

Fresh(f) == f # NoFile /\ now - f.at < MaxAge

\* The loop of refreshGeo, which swaps the reader in the end.
After(j) ==
  IF j.i < Len(Editions) THEN [j EXCEPT !.pc = "stat", !.i = @ + 1]
  ELSE IF j.city THEN [j EXCEPT !.pc = "swap"] ELSE IdleJob

Handled == Editions[job.i]

Stat ==
  /\ job.pc = "stat"
  /\ job' = IF Fresh(file[Handled]) THEN After(job) ELSE [job EXCEPT !.pc = "fetch", !.from = now]
  /\ UNCHANGED <<now, up, due, file, reader, web, fails, slack>>

\* The archive and its checksum, extracted beside the file.  What the archive
\* holds is not looked at: readBuildDate says 'unknown' of what does not open.
Fetch ==
  /\ job.pc = "fetch" /\ now > job.from
  /\ \E good \in BOOLEAN :
       /\ good \/ fails < MaxFail
       /\ fails' = IF good THEN fails ELSE fails + 1
       /\ job' = [job EXCEPT !.pc = "copy", !.got = [at |-> now, whole |-> TRUE, good |-> good]]
  /\ UNCHANGED <<now, up, due, file, reader, web, slack>>

CopyOver ==
  /\ job.pc = "copy"
  /\ job' = [job EXCEPT !.pc = "rename", !.got.at = now]
  /\ file' = [file EXCEPT ![Handled] = [job.got EXCEPT !.whole = FALSE]]
  /\ UNCHANGED <<now, up, due, reader, web, fails, slack>>

\* It is copied to <e>.mmdb.tmp, which nobody reads, and renamed.
Copy ==
  /\ job.pc = "copy"
  /\ job' = [job EXCEPT !.pc = "rename", !.got.at = now]
  /\ UNCHANGED <<now, up, due, file, reader, web, fails, slack>>

Rename ==
  /\ job.pc = "rename"
  /\ file' = [file EXCEPT ![Handled] = job.got]
  /\ slack' = [slack EXCEPT ![Handled] = 0]
  /\ job' = After([job EXCEPT !.city = @ \/ Handled = City])
  /\ UNCHANGED <<now, up, due, reader, web, fails>>

\* An edition that fails is given up until the next run.
EditionFails ==
  /\ job.pc \in {"stat", "fetch", "copy", "rename"}
  /\ fails < MaxFail /\ fails' = fails + 1
  /\ job' = After(job) /\ slack' = [slack EXCEPT ![Handled] = @ + Week]
  /\ UNCHANGED <<now, up, due, file, reader, web>>

\* initGeo
Swap ==
  /\ job.pc = "swap" /\ job' = IdleJob
  /\ reader' = Opened(file[City])
  /\ UNCHANGED <<now, up, due, file, web, fails, slack>>

\* A shutdown, which waits two seconds for nothing in particular, or a crash.
Stop ==
  /\ up /\ fails < MaxFail /\ fails' = fails + 1
  /\ up' = FALSE /\ job' = IdleJob /\ reader' = NoFile
  /\ slack' = [e \in Edition |-> slack[e] + Week]
  /\ UNCHANGED <<now, due, file, web>>

(* A web process starts: openCountryReader, once.  It never opens another. *)
Serve(s) ==
  LET found == {i \in DOMAIN Tried : Opened(file[Tried[i]]) # NoFile}
  IN  /\ web' = [web EXCEPT ![s] = IF found = {} THEN NoFile
                                   ELSE file[Tried[CHOOSE i \in found : \A j \in found : i <= j]]]
      /\ UNCHANGED <<now, up, due, job, file, reader, fails, slack>>

\* Time: the timer is served when it is due, and the HTTP client ends a download
\* that does not go on.
Advance ==
  /\ now < MaxTime /\ now' = now + 1
  /\ ~(up /\ now = due)
  /\ job # IdleJob => now - job.since < MaxRun
  /\ slack' = IF up THEN slack ELSE [e \in Edition |-> slack[e] + 1]
  /\ UNCHANGED <<up, due, job, file, reader, web, fails>>

Next ==
  \/ Start \/ Fire \/ Stat \/ Fetch \/ Copy \/ Rename \/ EditionFails \/ Swap \/ Stop \/ Advance
  \/ \E s \in Web : Serve(s)

Spec == Init /\ [][Next]_vars

-----------------------------------------------------------------------------
(* Properties. *)

NeverTooOld == \A e \in Edition : file[e] # NoFile => now - file[e].at <= 2 * Week + MaxRun + slack[e]
OnlyWhole == \A e \in Edition : file[e] # NoFile => file[e].whole
ReaderFollows == up /\ job = IdleJob => reader = Opened(file[City])

\* A database is published whole, whenever the worker stops; the worker reads the
\* one that is published; and none grows older than two weeks and a run, for the
\* file of a week ago is still fresh when the weekly timer fires, but for a week
\* for each failure since it was published and the time the worker was down.
GeoStaysFresh == NeverTooOld /\ OnlyWhole /\ ReaderFollows
=============================================================================
