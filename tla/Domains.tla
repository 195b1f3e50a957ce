------------------------------ MODULE Domains ------------------------------
(***************************************************************************)
(* Custom domains: the row of a host and the four programs that write it.  *)
(*                                                                         *)
(* A user adds a host and gets a token to publish in its DNS.  A worker's  *)
(* verifier looks every minute for the tokens of the rows in pending_dns,  *)
(* Caddy asks whether it may have a certificate made, a worker's daily     *)
(* probe looks at the certificates of active hosts, and owner or           *)
(* administrator remove a row.  Each pass reads a batch, asks the network  *)
(* about one host after the other, and writes each answer by row id.       *)
(*                                                                         *)
(* A row's token is drawn with it, so the row's number stands for both.    *)
(* No code gives a link a domain_id: the update that turns off a removed   *)
(* domain's links (domains/actions.ts:224) finds none.                     *)
(***************************************************************************)
EXTENDS Integers, Sequences, SequencesExt, FiniteSets

CONSTANTS
  User, Host,
  Reserved,      \* hosts nobody may add: the platform's own, internal and blocked ones
  Holder,        \* Holder[h]: the user who controls the DNS of h
  Request,       \* requests of the dashboard that add a host
  Verifier,      \* workers that run the DNS verifier
  Cap,           \* customDomains of the plan
  Batch,         \* rows a pass selects (200)
  MaxRow,        \* bound: rows ever added
  MaxExtra       \* bound: re-checks asked for, failures of DNS, database or worker

ASSUME DomainsAssumption ==
  /\ Holder \in [Host -> User] /\ Reserved \subseteq Host
  /\ {Cap, Batch, MaxRow} \subseteq Nat \ {0} /\ MaxExtra \in Nat

Row == 1..MaxRow
Status == {"none", "pending_dns", "pending_tls", "active", "error"}
Nobody == "nobody"

VARIABLES
  row,        \* row[i]: custom_domains; "none" while or after it does not exist
  next,       \* the number of the next row
  polled,     \* rows with a lastCheckAt, the oldest first; the others have null
  published,  \* the tokens that are in the DNS of a host
  old,        \* rows added more than a day ago
  certs,      \* hosts Caddy has a certificate for
  adding,     \* adding[r]: the row request r is about to insert
  pass,       \* pass[w]: the verifier pass worker w is at
  lock,       \* the Redis lock is set
  extras,
  raced       \* history: a verifier pass ran beside another one

dns == <<published, old>>
vars == <<row, next, polled, dns, certs, adding, pass, lock, extras, raced>>

NoRow == [host |-> Nobody, owner |-> Nobody, status |-> "none"]
Rows == {i \in Row : row[i] # NoRow}
Of(h) == {i \in Rows : row[i].host = h}
NoAdd == [host |-> Nobody, owner |-> Nobody]

\* todo: the rows left, with the host they had; answer: of the first of them.
Out == [on |-> FALSE, todo |-> <<>>, answer |-> "none"]
Answer == {"none", "found", "missing", "late", "failed"}

TypeOK ==
  /\ row \in [Row -> [host : Host \cup {Nobody}, owner : User \cup {Nobody}, status : Status]]
  /\ next \in 1..MaxRow + 1 /\ polled \in Seq(Row)
  /\ published \subseteq Host \X Row /\ old \subseteq Row /\ certs \subseteq Host
  /\ adding \in [Request -> [host : Host \cup {Nobody}, owner : User \cup {Nobody}]]
  /\ pass \in [Verifier -> [on : BOOLEAN, todo : Seq(Row \X Host), answer : Answer]]
  /\ lock \in BOOLEAN
  /\ extras \in 0..MaxExtra /\ raced \in BOOLEAN

Init ==
  /\ row = [i \in Row |-> NoRow] /\ next = 1 /\ polled = <<>>
  /\ published = {} /\ old = {} /\ certs = {}
  /\ adding = [r \in Request |-> NoAdd]
  /\ pass = [w \in Verifier |-> Out] /\ lock = FALSE
  /\ extras = 0 /\ raced = FALSE

-----------------------------------------------------------------------------
(* Owner and administrator. *)

Extra == extras < MaxExtra /\ extras' = extras + 1

\* normalizeDomain: what is typed becomes a host or is refused.
Normalized == Host \ Reserved

\* addDomainAction: the plan's cap and the host are checked,
AddCheck(r, u, h) ==
  /\ adding[r] = NoAdd /\ next <= MaxRow /\ h \in Normalized
  /\ Cardinality({i \in Rows : row[i].owner = u}) < Cap
  /\ Of(h) = {}
  /\ adding' = [adding EXCEPT ![r] = [host |-> h, owner |-> u]]
  /\ UNCHANGED <<row, next, polled, dns, certs, pass, lock, extras, raced>>

\* then the row is inserted, unless the unique index has the host by now.
AddInsert(r) ==
  /\ adding[r] # NoAdd
  /\ adding' = [adding EXCEPT ![r] = NoAdd]
  /\ IF Of(adding[r].host) = {} /\ next <= MaxRow
     THEN /\ row' = [row EXCEPT ![next] = [host |-> adding[r].host, owner |-> adding[r].owner,
                                           status |-> "pending_dns"]]
          /\ next' = next + 1
     ELSE UNCHANGED <<row, next>>
  /\ UNCHANGED <<polled, dns, certs, pass, lock, extras, raced>>

\* Owner and administrator may have a row checked soon: lastCheckAt is cleared,
\* whatever the status of the row.
ClearCheck(i) ==
  /\ i \in Rows /\ i \in ToSet(polled) /\ Extra
  /\ polled' = Remove(polled, i)
  /\ UNCHANGED <<row, next, dns, certs, adding, pass, lock, raced>>
VerifyDomain(u, i) == row[i].owner = u /\ ClearCheck(i)
AdminRecheckDomain(i) == ClearCheck(i)

\* And have it removed.
DeleteRow(i) ==
  /\ i \in Rows
  /\ row' = [row EXCEPT ![i] = NoRow] /\ polled' = Remove(polled, i)
  /\ old' = old \ {i}
  /\ UNCHANGED <<next, published, certs, adding, pass, lock, extras, raced>>
RemoveDomain(u, i) == row[i].owner = u /\ DeleteRow(i)
AdminRemoveDomain(i) == DeleteRow(i)

-----------------------------------------------------------------------------
(* Outside the program. *)

\* Who controls the DNS of a host publishes the token of a row of theirs.
Publish(i) ==
  /\ i \in Rows /\ row[i].owner = Holder[row[i].host]
  /\ <<row[i].host, i>> \notin published
  /\ published' = published \cup {<<row[i].host, i>>}
  /\ UNCHANGED <<row, next, polled, old, certs, adding, pass, lock, extras, raced>>

\* A day goes by, which is of interest to a row in pending_dns.
Age(i) ==
  /\ i \in Rows \ old /\ row[i].status = "pending_dns"
  /\ old' = old \cup {i}
  /\ UNCHANGED <<row, next, polled, published, certs, adding, pass, lock, extras, raced>>

\* The activate step: nothing in the program takes it, an operator may.
Activate(i) ==
  /\ i \in Rows /\ row[i].status = "pending_tls" /\ row[i].host \in certs
  /\ row' = [row EXCEPT ![i].status = "active"]
  /\ UNCHANGED <<next, polled, dns, certs, adding, pass, lock, extras, raced>>

\* Caddy meets a host it has no certificate for and asks.
Eligible == {"pending_tls", "active"}
AskCaddy(h) ==
  /\ h \notin certs /\ \E i \in Of(h) : row[i].status \in Eligible
  /\ certs' = certs \cup {h}
  /\ UNCHANGED <<row, next, polled, dns, adding, pass, lock, extras, raced>>

-----------------------------------------------------------------------------
(* The passes of the worker. *)

\* Rows that were never checked come first, in any order; then the one checked
\* longest ago.
Sooner(i, j) ==
  /\ j \in ToSet(polled)
  /\ i \notin ToSet(polled) \/ \E a, b \in DOMAIN polled : a < b /\ polled[a] = i /\ polled[b] = j
Queues(due) == {s \in SetToSeqs(due) : \A j, k \in DOMAIN s : j < k => ~Sooner(s[k], s[j])}
Batches(due) == {SubSeq(s, 1, IF Len(s) < Batch THEN Len(s) ELSE Batch) : s \in Queues(due)}
DueAgain == Batches({i \in Rows : row[i].status # "error"})
Due == Batches({i \in Rows : row[i].status = "pending_dns"})

Start(w) ==
  /\ ~pass[w].on /\ ~lock
  /\ lock' = TRUE
  /\ \E due \in Due :
       pass' = [pass EXCEPT ![w] = [Out EXCEPT !.on = TRUE,
                  !.todo = [k \in 1..Len(due) |-> <<due[k], row[due[k]].host>>]]]
  /\ raced' = (raced \/ \E v \in Verifier : pass[v].on)
  /\ UNCHANGED <<row, next, polled, dns, certs, adding, extras>>

\* The TXT record of the next host is asked for; a miss after a day is final.
Ask(w) ==
  /\ pass[w].on /\ pass[w].todo # <<>> /\ pass[w].answer = "none"
  /\ LET i == Head(pass[w].todo)[1]
         h == Head(pass[w].todo)[2]
     IN \/ /\ pass' = [pass EXCEPT ![w].answer =
                 IF <<h, i>> \in published THEN "found" ELSE IF i \in old THEN "late" ELSE "missing"]
           /\ UNCHANGED extras
        \/ Extra /\ pass' = [pass EXCEPT ![w].answer = "failed"]
  /\ UNCHANGED <<row, next, polled, dns, certs, adding, lock, raced>>

\* The statuses an answer sets; the others leave the row's.
VerdictNever == [found |-> "pending_tls"]
Verdict == [found |-> "pending_tls", late |-> "error"]

\* The row the answer is written to: by id, whatever has become of it.
TargetByHost(w) == Of(Head(pass[w].todo)[2])
Target(w) == {Head(pass[w].todo)[1]} \cap Rows
Checked(S) == IF S = {} THEN polled
              ELSE LET i == CHOOSE i \in S : TRUE IN Append(Remove(polled, i), i)

\* The answer is written with the time of the check, or the database fails: then
\* the time alone is tried once more.
Write(w) ==
  /\ pass[w].answer # "none"
  /\ pass' = [pass EXCEPT ![w].todo = Tail(@), ![w].answer = "none"]
  /\ \/ /\ row' = [i \in Row |->
             IF i \in Target(w) /\ pass[w].answer \in DOMAIN Verdict
             THEN [row[i] EXCEPT !.status = Verdict[pass[w].answer]] ELSE row[i]]
        /\ polled' = Checked(Target(w))
        /\ UNCHANGED extras
     \/ Extra /\ polled' \in {polled, Checked(Target(w))} /\ UNCHANGED row
  /\ UNCHANGED <<next, dns, certs, adding, lock, raced>>

\* The pass ends and deletes the lock, its own or a successor's.
End(w) ==
  /\ pass[w].on /\ pass[w].todo = <<>>
  /\ pass' = [pass EXCEPT ![w] = Out] /\ lock' = FALSE
  /\ UNCHANGED <<row, next, polled, dns, certs, adding, extras, raced>>

\* The worker dies and leaves the lock.
Crash(w) ==
  /\ pass[w].on /\ Extra
  /\ pass' = [pass EXCEPT ![w] = Out]
  /\ UNCHANGED <<row, next, polled, dns, certs, adding, lock, raced>>

\* The lock reaches its time to live, the pass that took it over or not.
Expire ==
  /\ lock
  /\ lock' = FALSE
  /\ UNCHANGED <<row, next, polled, dns, certs, adding, pass, extras, raced>>

\* runDomainTlsHealth takes the active hosts.  The passes of one worker never
\* overlap, and a write goes by id to a row that only a removal writes meanwhile.
Probed == {i \in Rows : row[i].status = "active"}

\* The daily probe of one of them: its certificate may be missing, out of date
\* or unreachable.
Probe(i) ==
  /\ i \in Probed
  /\ \/ row' = [row EXCEPT ![i].status = "error"]
     \/ row[i].host \in certs /\ UNCHANGED row
  /\ polled' = Checked({i})
  /\ UNCHANGED <<next, dns, certs, adding, pass, lock, extras, raced>>

-----------------------------------------------------------------------------
Owners ==
  \/ \E r \in Request : AddInsert(r) \/ \E u \in User, h \in Host : AddCheck(r, u, h)
  \/ \E i \in Row, u \in User : VerifyDomain(u, i) \/ RemoveDomain(u, i)
  \/ \E i \in Row : AdminRecheckDomain(i) \/ AdminRemoveDomain(i)
Outside ==
  \/ \E i \in Row : Publish(i) \/ Age(i) \/ Activate(i)
  \/ \E h \in Host : AskCaddy(h)
Verify(w) == Start(w) \/ Ask(w) \/ Write(w) \/ End(w)

Next ==
  \/ Owners \/ Outside
  \/ \E w \in Verifier : Verify(w) \/ Crash(w)
  \/ Expire \/ \E i \in Row : Probe(i)

\* The worker's timers, the locks' time to live, and time.
Fairness ==
  /\ \A w \in Verifier : WF_vars(Verify(w))
  /\ WF_vars(Expire)
  /\ \A i \in Row : WF_vars(Age(i))

Spec == Init /\ [][Next]_vars /\ Fairness

-----------------------------------------------------------------------------
(* Properties. *)

\* A domain that passed verification, and a certificate, are those of a user
\* who controls the host's DNS, however late the answer of a query is written
\* and whoever has the host by then (domain-verifier.ts:101, caddy/check).
ProvedByHolder ==
  /\ \A i \in Rows : row[i].status \in Eligible =>
       <<row[i].host, i>> \in published /\ row[i].owner = Holder[row[i].host]
  /\ \A h \in certs : \E i \in Row : <<h, i>> \in published

\* A domain that passed verification loses its status to the certificate probe
\* or a removal, never to a verifier pass, unless two of them overlapped, the
\* first one having outlived its lock of 55 s (domain-verifier.ts:101, 123).
DemotedOnlyByOverlap ==
  [][\A i \in Row : \A w \in Verifier :
       Write(w) /\ row[i].status \in Eligible /\ row'[i].status # row[i].status => raced]_vars

\* No row waits for ever: its token is found, a day ends, or it is removed,
\* although each pass takes only the rows checked longest ago, workers die with
\* the lock set and owners push their rows to the front (domain-verifier.ts:187).
EventuallyDecided ==
  \A i \in Row : row[i].status = "pending_dns" ~> row[i].status # "pending_dns"
=============================================================================
