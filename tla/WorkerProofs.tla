---------------------------- MODULE WorkerProofs ----------------------------
(***************************************************************************)
(* Proofs about the loops of the worker that MCLoops and MCDomains         *)
(* compose, for any value of their constants: who gets a domain verified   *)
(* and who loses it, how old the geographic databases become, how often a  *)
(* milestone is announced, and what an import makes of its rows and tells. *)
(***************************************************************************)
EXTENDS MCLoops, MCDomains, FiniteSetTheorems, SequenceTheorems,
        WellFoundedInduction, TLAPS

-----------------------------------------------------------------------------
(***************************************************************************)
(* Custom domains: a published token belongs to the row it was drawn for,  *)
(* and a pass that is alone works on rows that are still pending.          *)
(***************************************************************************)
DomainKind == [host : Host, owner : User, status : Status \ {"none"}]

PassShape(p) == p \in [on : BOOLEAN, todo : {p.todo}, answer : {p.answer}]

TablesHold ==
  /\ row \in [Row -> {NoRow} \cup DomainKind] /\ next \in Nat \ {0}
  /\ \A i \in Row : i >= next => row[i] = NoRow
  /\ adding \in [Request -> {NoAdd} \cup [host : Host, owner : User]]
  /\ raced \in BOOLEAN

TokensHold ==
  /\ published \subseteq Host \X Row
  /\ \A h \in Host, i \in Row : <<h, i>> \in published =>
       i < next /\ (row[i] # NoRow => row[i].host = h /\ row[i].owner = Holder[h])

\* The answer of a query that found the token is about the first row left.
PassesHold ==
  /\ pass = [w \in Verifier |-> pass[w]]
  /\ \A w \in Verifier :
       /\ PassShape(pass[w])
       /\ ~pass[w].on => pass[w].todo = <<>> /\ pass[w].answer = "none"
       /\ pass[w].answer # "none" => pass[w].todo # <<>>
       /\ pass[w].answer = "found" =>
            <<Head(pass[w].todo)[2], Head(pass[w].todo)[1]>> \in published

\* The rows that a pass has left, each once, and none of them verified.
LeftPending(t) ==
  /\ t \in Seq(Row \X Host)
  /\ \A j, k \in DOMAIN t : j # k => t[j][1] # t[k][1]
  /\ \A j \in DOMAIN t : t[j][1] < next /\ row[t[j][1]].status \notin Eligible

AloneHolds ==
  ~raced => /\ \A v, w \in Verifier : pass[v].on /\ pass[w].on => v = w
            /\ \A w \in Verifier : LeftPending(pass[w].todo)

DomainsInv == TablesHold /\ TokensHold /\ PassesHold /\ AloneHolds /\ ProvedByHolder

LEMMA DomainsConstants ==
  /\ Holder \in [Host -> User] /\ Batch \in Nat \ {0} /\ MaxRow \in Nat \ {0}
  /\ Row = 1..MaxRow /\ Eligible = {"pending_tls", "active"}
  /\ \A d \in DomainKind : d # NoRow /\ d.status # "none"
  /\ NoRow.status = "none" /\ Out.on = FALSE /\ Out.todo = <<>>
  /\ Out.answer = "none" /\ Out = [on |-> FALSE, todo |-> <<>>, answer |-> "none"]
BY DomainsAssumption
   DEF Row, Eligible, DomainKind, NoRow, Out, Status

LEMMA DomainsBegin == Init => DomainsInv
<1> SUFFICES ASSUME Init PROVE DomainsInv
  OBVIOUS
<1>0. /\ row = [i \in Row |-> NoRow] /\ next = 1 /\ published = {} /\ certs = {}
      /\ adding = [r \in Request |-> NoAdd] /\ pass = [w \in Verifier |-> Out] /\ raced = FALSE
  BY DEF Init
<1>1. TablesHold
  <2>1. row \in [Row -> {NoRow} \cup DomainKind] /\ \A i \in Row : row[i] = NoRow
    BY <1>0
  <2>2. adding \in [Request -> {NoAdd} \cup [host : Host, owner : User]]
    BY <1>0
  <2>3. next \in Nat \ {0}
    BY <1>0
  <2>4. raced \in BOOLEAN
    BY <1>0
  <2> QED
    BY <2>1, <2>2, <2>3, <2>4 DEF TablesHold
<1>2. TokensHold
  BY <1>0 DEF TokensHold
<1>3. PassesHold
  <2>1. PassShape(Out)
    BY DEF PassShape, Out
  <2> QED
    BY <1>0, <2>1, DomainsConstants DEF PassesHold
<1>4. AloneHolds
  <2>1. LeftPending(<<>>)
    BY DEF LeftPending
  <2> QED
    BY <1>0, <2>1, DomainsConstants DEF AloneHolds
<1>5. ProvedByHolder
  BY <1>0, DomainsConstants DEF ProvedByHolder, Rows
<1> QED
  BY <1>1, <1>2, <1>3, <1>4, <1>5 DEF DomainsInv

\* The passes and their rows are left alone, and what they say of the tables goes on.
LEMMA PassesRest ==
  ASSUME DomainsInv, pass' = pass, raced' = raced, published \subseteq published', next' >= next,
         next' \in Nat \ {0},
         \A i \in Row : i < next /\ row[i].status \notin Eligible
                              => row'[i].status \notin Eligible
  PROVE  PassesHold' /\ AloneHolds'
<1>1. PassesHold'
  BY DEF DomainsInv, PassesHold
<1>2. ASSUME ~raced', NEW w \in Verifier PROVE LeftPending(pass[w].todo)'
  <2>1. PICK t : t = pass[w].todo
    OBVIOUS
  <2>2. LeftPending(t) /\ pass'[w].todo = t
    BY <1>2, <2>1 DEF DomainsInv, AloneHolds
  <2>3. \A j \in DOMAIN t : t[j] \in Row \X Host
    BY <2>2, ElementOfSeq DEF LeftPending
  <2>4. \A j \in DOMAIN t : t[j][1] < next' /\ row'[t[j][1]].status \notin Eligible
    <3> SUFFICES ASSUME NEW j \in DOMAIN t
                 PROVE  t[j][1] < next' /\ row'[t[j][1]].status \notin Eligible
      OBVIOUS
    <3>1. t[j][1] \in Row /\ t[j][1] < next /\ row[t[j][1]].status \notin Eligible
      BY <2>2, <2>3 DEF LeftPending
    <3>2. t[j][1] \in Nat /\ next \in Nat
      BY <3>1, DomainsConstants DEF DomainsInv, TablesHold
    <3> QED
      BY <3>1, <3>2
  <2> QED
    BY <2>2, <2>4 DEF LeftPending
<1> QED
  BY <1>1, <1>2 DEF DomainsInv, AloneHolds

LEMMA AddCheckKeeps ==
  ASSUME DomainsInv, NEW r \in Request, NEW u \in User, NEW h \in Host, AddCheck(r, u, h)
  PROVE  DomainsInv'
<1>1. TablesHold'
  BY DEF DomainsInv, TablesHold, AddCheck
<1>2. TokensHold'
  BY DEF DomainsInv, TokensHold, AddCheck, dns
<1>3. PassesHold' /\ AloneHolds'
  BY PassesRest DEF DomainsInv, TablesHold, AddCheck, dns
<1>4. ProvedByHolder'
  BY DEF DomainsInv, ProvedByHolder, Rows, AddCheck, dns
<1> QED
  BY <1>1, <1>2, <1>3, <1>4 DEF DomainsInv

LEMMA AddInsertKeeps ==
  ASSUME DomainsInv, NEW r \in Request, AddInsert(r)
  PROVE  DomainsInv'
<1> DEFINE d == [host |-> adding[r].host, owner |-> adding[r].owner, status |-> "pending_dns"]
<1>1. adding[r] \in [host : Host, owner : User] /\ d \in DomainKind
  BY DEF DomainsInv, TablesHold, AddInsert, DomainKind, Status
<1>2. adding' = [adding EXCEPT ![r] = NoAdd] /\ published' = published /\ certs' = certs
      /\ pass' = pass /\ raced' = raced
  BY DEF AddInsert, dns
<1>3. \/ next <= MaxRow /\ row' = [row EXCEPT ![next] = d] /\ next' = next + 1
      \/ row' = row /\ next' = next
  BY DEF AddInsert
<1>4. next \in Nat \ {0} /\ (next <= MaxRow => next \in Row /\ row[next] = NoRow)
  BY DomainsConstants DEF DomainsInv, TablesHold
<1>5. \A i \in Row : i < next => row'[i] = row[i]
  BY <1>3, <1>4, DomainsConstants DEF DomainsInv, TablesHold
<1>6. \A i \in Row : row'[i] # row[i] => i = next /\ row'[i] = d
  BY <1>3, <1>4, DomainsConstants DEF DomainsInv, TablesHold
<1> HIDE DEF d
<1>7. TablesHold'
  <2>1. row' \in [Row -> {NoRow} \cup DomainKind] /\ next' \in Nat \ {0}
    BY <1>1, <1>3, <1>4 DEF DomainsInv, TablesHold
  <2>2. \A i \in Row : i >= next' => row'[i] = NoRow
    BY <1>3, <1>4, DomainsConstants DEF DomainsInv, TablesHold
  <2> QED
    BY <1>2, <2>1, <2>2 DEF DomainsInv, TablesHold
<1>8. TokensHold'
  <2>1. ASSUME NEW h \in Host, NEW i \in Row, <<h, i>> \in published'
        PROVE  i < next' /\ (row'[i] # NoRow => row'[i].host = h /\ row'[i].owner = Holder[h])
    <3>1. i < next /\ (row[i] # NoRow => row[i].host = h /\ row[i].owner = Holder[h])
      BY <1>2, <2>1 DEF DomainsInv, TokensHold
    <3>2. i \in Nat
      BY DomainsConstants
    <3> QED
      BY <1>3, <1>4, <1>5, <3>1, <3>2
  <2> QED
    BY <1>2, <2>1 DEF DomainsInv, TokensHold
<1>9. PassesHold' /\ AloneHolds'
  <2>1. next' \in Nat \ {0} /\ next' >= next /\ published \subseteq published'
    BY <1>2, <1>3, <1>4
  <2>2. \A i \in Row : i < next /\ row[i].status \notin Eligible
                             => row'[i].status \notin Eligible
    BY <1>5
  <2> QED
    BY <1>2, <2>1, <2>2, PassesRest
<1>10. ProvedByHolder'
  <2>1. d.status \notin Eligible
    BY DomainsConstants DEF d
  <2> QED
    BY <1>2, <1>6, <2>1 DEF DomainsInv, ProvedByHolder, Rows
<1> QED
  BY <1>7, <1>8, <1>9, <1>10 DEF DomainsInv

\* A removed row leaves its tokens and its certificate behind.
LEMMA DeleteRowKeeps ==
  ASSUME DomainsInv, NEW i \in Row, DeleteRow(i)
  PROVE  DomainsInv'
<1>1. /\ row' = [row EXCEPT ![i] = NoRow] /\ next' = next /\ published' = published
      /\ certs' = certs /\ adding' = adding /\ pass' = pass /\ raced' = raced
  BY DEF DeleteRow
<1>2. \A j \in Row : row'[j] = row[j] \/ row'[j] = NoRow
  BY <1>1 DEF DomainsInv, TablesHold
<1>3. TablesHold'
  BY <1>1, <1>2 DEF DomainsInv, TablesHold
<1>4. TokensHold'
  BY <1>1, <1>2 DEF DomainsInv, TokensHold
<1>5. PassesHold' /\ AloneHolds'
  <2>1. \A j \in Row : j < next /\ row[j].status \notin Eligible
                             => row'[j].status \notin Eligible
    BY <1>2, DomainsConstants
  <2>2. next' \in Nat \ {0} /\ next' >= next
    BY <1>1 DEF DomainsInv, TablesHold
  <2> QED
    BY <1>1, <2>1, <2>2, PassesRest
<1>6. ProvedByHolder'
  BY <1>1, <1>2 DEF DomainsInv, ProvedByHolder, Rows
<1> QED
  BY <1>3, <1>4, <1>5, <1>6 DEF DomainsInv

\* One row's status is written, and nothing else of the tables.
LEMMA StatusKeeps ==
  ASSUME DomainsInv, NEW i \in Rows, NEW s \in Status \ {"none"},
         row' = [row EXCEPT ![i].status = s],
         s \in Eligible => row[i].status \in Eligible,
         UNCHANGED <<next, published, certs, adding, pass, raced>>
  PROVE  DomainsInv'
<1>0. i \in Row /\ row[i] \in DomainKind
  BY DEF DomainsInv, TablesHold, Rows
<1>1. PICK d \in DomainKind : d = [row[i] EXCEPT !.status = s]
  BY <1>0 DEF DomainKind
<1>2. d.host = row[i].host /\ d.owner = row[i].owner /\ d.status = s /\ d # NoRow
  BY <1>0, <1>1, DomainsConstants DEF DomainKind
<1>3. row' = [row EXCEPT ![i] = d] /\ row \in [Row -> {NoRow} \cup DomainKind]
  BY <1>1 DEF DomainsInv, TablesHold
<1>4. \A j \in Row : row'[j] = IF j = i THEN d ELSE row[j]
  BY <1>3
<1>5. TablesHold'
  <2>1. i < next
    BY <1>0, DomainsConstants DEF DomainsInv, TablesHold
  <2>2. row' \in [Row -> {NoRow} \cup DomainKind]
    BY <1>3
  <2>3. \A j \in Row : j >= next => row'[j] = NoRow
    BY <1>4, <2>1, DomainsConstants DEF DomainsInv, TablesHold
  <2> QED
    BY <2>2, <2>3 DEF DomainsInv, TablesHold
<1>6. TokensHold'
  BY <1>0, <1>2, <1>4, DomainsConstants DEF DomainsInv, TokensHold
<1>7. PassesHold' /\ AloneHolds'
  <2>1. \A j \in Row : j < next /\ row[j].status \notin Eligible
                             => row'[j].status \notin Eligible
    BY <1>2, <1>4
  <2>2. next' \in Nat \ {0} /\ next' >= next
    BY DEF DomainsInv, TablesHold
  <2> QED
    BY <2>1, <2>2, PassesRest
<1>8. ProvedByHolder'
  BY <1>0, <1>2, <1>4 DEF DomainsInv, ProvedByHolder, Rows
<1> QED
  BY <1>5, <1>6, <1>7, <1>8 DEF DomainsInv

\* What the outside adds: tokens, certificates.
LEMMA OutsideKeeps ==
  ASSUME DomainsInv,
         \/ \E i \in Row : Publish(i) \/ Age(i)
         \/ \E h \in Host : AskCaddy(h)
  PROVE  DomainsInv'
<1>0. row' = row /\ next' = next /\ adding' = adding /\ pass' = pass /\ raced' = raced
  BY DEF Publish, Age, AskCaddy, dns
<1>1. TablesHold' /\ published \subseteq published' => PassesHold' /\ AloneHolds'
  BY <1>0, PassesRest DEF DomainsInv, TablesHold
<1>2. TablesHold'
  BY <1>0 DEF DomainsInv, TablesHold
<1>3. CASE UNCHANGED <<published, certs>>
  BY <1>0, <1>1, <1>2, <1>3 DEF DomainsInv, TokensHold, ProvedByHolder, Rows
<1>4. CASE \E i \in Row : Publish(i)
  <2>1. PICK i \in Row : Publish(i)
    BY <1>4
  <2>2. /\ row[i] # NoRow /\ row[i].owner = Holder[row[i].host] /\ certs' = certs
        /\ published' = published \cup {<<row[i].host, i>>}
    BY <2>1 DEF Publish, Rows
  <2>3. row[i] \in DomainKind /\ i < next
    BY <2>2, DomainsConstants DEF DomainsInv, TablesHold
  <2>4. row[i].host \in Host
    BY <2>3 DEF DomainKind
  <2>5. TokensHold'
    BY <1>0, <2>2, <2>3, <2>4 DEF DomainsInv, TokensHold
  <2>6. ProvedByHolder'
    BY <1>0, <2>2 DEF DomainsInv, ProvedByHolder, Rows
  <2> QED
    BY <1>1, <1>2, <2>2, <2>5, <2>6 DEF DomainsInv
<1>5. CASE \E h \in Host : AskCaddy(h)
  <2>1. PICK h \in Host : AskCaddy(h)
    BY <1>5
  <2>2. PICK i \in Row : row[i] # NoRow /\ row[i].host = h /\ row[i].status \in Eligible
    BY <2>1 DEF AskCaddy, Of, Rows
  <2>3. certs' = certs \cup {h} /\ published' = published
    BY <2>1 DEF AskCaddy, dns
  <2>4. <<h, i>> \in published
    BY <2>2 DEF DomainsInv, ProvedByHolder, Rows
  <2>5. ProvedByHolder'
    BY <1>0, <2>3, <2>4 DEF DomainsInv, ProvedByHolder, Rows
  <2> QED
    BY <1>0, <1>1, <1>2, <2>3, <2>5 DEF DomainsInv, TokensHold
<1>6. (\E i \in Row : Age(i)) => UNCHANGED <<published, certs>>
  BY DEF Age
<1> QED
  BY <1>3, <1>4, <1>5, <1>6

\* A pass starts with rows that are pending, each once.
LEMMA DueIsPending ==
  ASSUME DomainsInv, NEW s \in Due
  PROVE  /\ s = [k \in 1..Len(s) |-> s[k]] /\ Len(s) \in Nat
         /\ \A j, k \in 1..Len(s) : j # k => s[j] # s[k]
         /\ \A k \in 1..Len(s) : s[k] \in Rows /\ row[s[k]].status = "pending_dns"
<1> DEFINE waiting == {i \in Rows : row[i].status = "pending_dns"}
<1>1. PICK q \in SetToSeqs(waiting) : s = SubSeq(q, 1, IF Len(q) < Batch THEN Len(q) ELSE Batch)
  BY DEF Due, Batches, Queues
<1>2. IsFiniteSet(waiting) /\ Cardinality(waiting) \in Nat
  <2>1. IsFiniteSet(1..MaxRow)
    <3>1. 1 \in Int /\ MaxRow \in Int
      BY DomainsConstants
    <3> QED
      BY <3>1, FS_Interval
  <2>2. waiting \subseteq 1..MaxRow
    BY DomainsConstants DEF Rows
  <2> QED
    BY <2>1, <2>2, FS_Subset, FS_CardinalityType
<1> HIDE DEF waiting
<1>3. /\ q \in [1..Cardinality(waiting) -> waiting]
      /\ \A j, k \in 1..Cardinality(waiting) : j # k => q[j] # q[k]
  BY <1>1 DEF SetToSeqs
<1>4. q \in Seq(waiting) /\ Len(q) = Cardinality(waiting)
  BY <1>2, <1>3
<1>5. PICK m \in 0..Len(q) : s = SubSeq(q, 1, m)
  BY <1>1, <1>2, <1>4, DomainsConstants
<1>6. Len(s) = m /\ s \in Seq(waiting) /\ \A k \in 1..m : s[k] = q[k]
  BY <1>2, <1>4, <1>5
<1>7. \A k \in 1..m : k \in 1..Cardinality(waiting)
  BY <1>2, <1>4
<1> QED
  <2>1. s = [k \in 1..Len(s) |-> s[k]] /\ Len(s) \in Nat
    BY <1>6
  <2>2. \A j, k \in 1..Len(s) : j # k => s[j] # s[k]
    BY <1>3, <1>6, <1>7
  <2>3. \A k \in 1..Len(s) : s[k] \in waiting
    BY <1>3, <1>6, <1>7
  <2> QED
    BY <2>1, <2>2, <2>3 DEF waiting

\* A pass changes, and the tables do not.
LEMMA PassKeeps ==
  ASSUME DomainsInv, NEW w \in Verifier, NEW p, PassShape(p), pass' = [pass EXCEPT ![w] = p],
         ~p.on => p.todo = <<>> /\ p.answer = "none", p.answer # "none" => p.todo # <<>>,
         p.answer = "found" => <<Head(p.todo)[2], Head(p.todo)[1]>> \in published,
         raced' \in BOOLEAN,
         ~raced' => ~raced /\ LeftPending(p.todo) /\ (p.on => \A v \in Verifier \ {w} : ~pass[v].on),
         UNCHANGED <<row, next, published, certs, adding>>
  PROVE  DomainsInv'
<1>3. \A v \in Verifier : pass'[v] = IF v = w THEN p ELSE pass[v]
  BY DEF DomainsInv, PassesHold
<1>5. PassesHold'
  <2>1. pass' = [v \in Verifier |-> pass'[v]]
    BY DEF DomainsInv, PassesHold
  <2>2. ASSUME NEW v \in Verifier
        PROVE  /\ PassShape(pass'[v])
               /\ ~pass'[v].on => pass'[v].todo = <<>> /\ pass'[v].answer = "none"
               /\ pass'[v].answer # "none" => pass'[v].todo # <<>>
               /\ pass'[v].answer = "found" =>
                    <<Head(pass'[v].todo)[2], Head(pass'[v].todo)[1]>> \in published
    BY <1>3 DEF DomainsInv, PassesHold
  <2> QED
    BY <2>1, <2>2 DEF PassesHold, PassShape
<1>6. AloneHolds'
  <2> SUFFICES ASSUME ~raced' PROVE AloneHolds'
    BY DEF AloneHolds
  <2>1. \A u, v \in Verifier : pass'[u].on /\ pass'[v].on => u = v
    BY <1>3 DEF DomainsInv, AloneHolds
  <2>2. \A v \in Verifier : LeftPending(pass'[v].todo)
    BY <1>3 DEF DomainsInv, AloneHolds
  <2>3. \A v \in Verifier : LeftPending(pass[v].todo)'
    BY <2>2 DEF LeftPending
  <2> QED
    BY <2>1, <2>3 DEF AloneHolds
<1>7. TablesHold' /\ TokensHold'
  BY DEF DomainsInv, TablesHold, TokensHold
<1>8. ProvedByHolder'
  BY DEF DomainsInv, ProvedByHolder, Rows
<1> QED
  BY <1>5, <1>6, <1>7, <1>8 DEF DomainsInv

LEMMA StartKeeps ==
  ASSUME DomainsInv, NEW w \in Verifier, Start(w)
  PROVE  DomainsInv'
<1>1. PICK s \in Due :
        pass' = [pass EXCEPT ![w] = [Out EXCEPT !.on = TRUE,
                   !.todo = [k \in 1..Len(s) |-> <<s[k], row[s[k]].host>>]]]
  BY DEF Start
<1> DEFINE t == [k \in 1..Len(s) |-> <<s[k], row[s[k]].host>>]
<1> DEFINE p == [Out EXCEPT !.on = TRUE, !.todo = t]
<1>2. /\ pass' = [pass EXCEPT ![w] = p] /\ PassShape(p)
      /\ p.on = TRUE /\ p.todo = t /\ p.answer = "none"
  <2>1. pass' = [pass EXCEPT ![w] = p]
    BY <1>1
  <2> HIDE DEF t
  <2> QED
    BY <2>1 DEF Out, PassShape
<1>3. LeftPending(t)
  <2>1. \A k \in 1..Len(s) : s[k] \in Row /\ row[s[k]] \in DomainKind /\ s[k] < next
                              /\ row[s[k]].status = "pending_dns"
    <3> SUFFICES ASSUME NEW k \in 1..Len(s)
                 PROVE  s[k] \in Row /\ row[s[k]] \in DomainKind /\ s[k] < next
                        /\ row[s[k]].status = "pending_dns"
      OBVIOUS
    <3>1. s[k] \in Rows /\ row[s[k]].status = "pending_dns"
      BY DueIsPending
    <3> QED
      BY <3>1, DomainsConstants DEF DomainsInv, TablesHold, Rows
  <2>2. \A k \in 1..Len(s) : t[k] = <<s[k], row[s[k]].host>> /\ row[s[k]].host \in Host
    BY <2>1 DEF DomainKind
  <2>3. Len(s) \in Nat /\ \A j, k \in 1..Len(s) : j # k => s[j] # s[k]
    BY DueIsPending
  <2>4. t \in Seq(Row \X Host) /\ DOMAIN t = 1..Len(s)
    BY <2>1, <2>2, <2>3
  <2> HIDE DEF t
  <2>5. \A j, k \in DOMAIN t : j # k => t[j][1] # t[k][1]
    BY <2>2, <2>3, <2>4
  <2>6. \A j \in DOMAIN t : t[j][1] < next /\ row[t[j][1]].status \notin Eligible
    BY <2>1, <2>2, <2>4, DomainsConstants
  <2> QED
    BY <2>4, <2>5, <2>6 DEF LeftPending
<1> HIDE DEF t, p
<1>5. raced' = (raced \/ \E v \in Verifier : pass[v].on)
      /\ UNCHANGED <<row, next, published, certs, adding>>
  BY DEF Start, dns
<1>6. raced' \in BOOLEAN /\ (~raced' => ~raced /\ \A v \in Verifier : ~pass[v].on)
  BY <1>5
<1> QED
  BY <1>2, <1>3, <1>5, <1>6, PassKeeps

LEMMA AskKeeps ==
  ASSUME DomainsInv, NEW w \in Verifier, Ask(w)
  PROVE  DomainsInv'
<1> DEFINE t == pass[w].todo
           f == IF <<Head(t)[2], Head(t)[1]>> \in published THEN "found"
                ELSE IF Head(t)[1] \in old THEN "late" ELSE "missing"
<1>1. /\ pass[w].on /\ t # <<>> /\ raced' = raced
      /\ UNCHANGED <<row, next, published, certs, adding>>
  BY DEF Ask, dns
<1>2. \/ pass' = [pass EXCEPT ![w].answer = f]
      \/ pass' = [pass EXCEPT ![w].answer = "failed"]
  BY DEF Ask
<1>3. f = "found" => <<Head(t)[2], Head(t)[1]>> \in published
  OBVIOUS
<1> HIDE DEF f
<1>4. PICK a : /\ pass' = [pass EXCEPT ![w].answer = a]
               /\ a = "found" => <<Head(t)[2], Head(t)[1]>> \in published
  BY <1>2, <1>3
<1> DEFINE p == [pass[w] EXCEPT !.answer = a]
<1>5. pass' = [pass EXCEPT ![w] = p]
  BY <1>4
<1>6. PassShape(p) /\ p.on = pass[w].on /\ p.todo = t /\ p.answer = a
  <2>1. PassShape(pass[w])
    BY DEF DomainsInv, PassesHold
  <2> QED
    BY <2>1 DEF PassShape
<1> HIDE DEF p
<1>7. ~raced' => ~raced /\ LeftPending(p.todo) /\ \A v \in Verifier \ {w} : ~pass[v].on
  BY <1>1, <1>6 DEF DomainsInv, AloneHolds
<1>8. raced' \in BOOLEAN
  BY <1>1 DEF DomainsInv, TablesHold
<1> QED
  BY <1>1, <1>4, <1>5, <1>6, <1>7, <1>8, PassKeeps

\* A pass that ends, or dies.
LEMMA LeaveKeeps ==
  ASSUME DomainsInv, NEW w \in Verifier, End(w) \/ Crash(w)
  PROVE  DomainsInv'
<1>1. /\ pass' = [pass EXCEPT ![w] = Out]
      /\ raced' = raced /\ UNCHANGED <<row, next, published, certs, adding>>
  BY DEF End, Crash, dns
<1>2. LeftPending(<<>>)
  BY DEF LeftPending
<1>3. raced' \in BOOLEAN
  BY <1>1 DEF DomainsInv, TablesHold
<1>4. PassShape(Out) /\ ~Out.on /\ Out.todo = <<>> /\ Out.answer = "none"
  BY DEF Out, PassShape
<1> QED
  BY <1>1, <1>2, <1>3, <1>4, PassKeeps

\* A pass alone that has written to the first row has pending ones left.
LEMMA RestPending ==
  ASSUME TablesHold, NEW q, q # <<>>, LeftPending(q), next' = next,
         \A j \in Row : row'[j] = row[j] \/ j = Head(q)[1]
  PROVE  LeftPending(Tail(q))' /\ row[Head(q)[1]].status \notin Eligible
<1>1. q \in Seq(Row \X Host) /\ Len(q) \in Nat /\ Len(q) # 0 /\ DOMAIN q = 1..Len(q)
  BY DEF LeftPending
<1>2. Head(q) = q[1] /\ 1 \in DOMAIN q
  BY <1>1
<1>3. PICK s \in Seq(Row \X Host) : s = Tail(q)
  <2>1. Tail(q) \in Seq(Row \X Host)
    BY <1>1, HeadTailProperties
  <2> QED
    BY <2>1
<1>4. /\ DOMAIN s = 1..Len(s)
      /\ \A k \in DOMAIN s : k + 1 \in DOMAIN q /\ k \in Nat /\ s[k] = q[k + 1]
  BY <1>1, <1>3
<1>5. \A j, k \in DOMAIN s : j # k => s[j][1] # s[k][1]
  BY <1>4 DEF LeftPending
<1>6. ASSUME NEW k \in DOMAIN s
      PROVE  s[k][1] < next' /\ row'[s[k][1]].status \notin Eligible
  <2>1. k + 1 # 1 /\ k + 1 \in DOMAIN q /\ s[k] = q[k + 1]
    BY <1>4
  <2>2. s[k][1] # q[1][1] /\ s[k][1] < next /\ row[s[k][1]].status \notin Eligible
    BY <1>2, <2>1 DEF LeftPending
  <2>3. s[k][1] \in Row
    BY <1>3, ElementOfSeq
  <2> QED
    BY <1>2, <2>2, <2>3
<1>7. LeftPending(s)'
  BY <1>3, <1>5, <1>6 DEF LeftPending
<1> QED
  BY <1>2, <1>3, <1>7 DEF LeftPending

\* The answer is written to a row that is still the one that was asked about, or to
\* none: only a published token makes it eligible.
LEMMA WriteKeeps ==
  ASSUME DomainsInv, NEW w \in Verifier, Write(w)
  PROVE  /\ DomainsInv'
         /\ ~raced => \A i \in Row :
              row[i].status \in Eligible => row'[i].status = row[i].status
<1> DEFINE t == pass[w].todo
           a == pass[w].answer
           i == Head(t)[1]
           p == [[pass[w] EXCEPT !.todo = Tail(t)] EXCEPT !.answer = "none"]
<1>2. PassShape(pass[w])
  BY DEF DomainsInv, PassesHold
<1>3. a # "none" /\ t # <<>> /\ pass[w].on /\ (a = "found" => <<Head(t)[2], Head(t)[1]>> \in published)
  BY DEF DomainsInv, PassesHold, Write
<1>4. pass' = [pass EXCEPT ![w] = p]
  BY DEF Write
<1>5. raced' = raced /\ UNCHANGED <<next, published, certs, adding>>
  BY DEF Write, dns
<1>6. \/ row' = row
      \/ /\ i \in Rows /\ a = "found"
         /\ row' = [j \in Row |-> IF j = i THEN [row[j] EXCEPT !.status = "pending_tls"] ELSE row[j]]
      \/ /\ i \in Rows /\ a = "late"
         /\ row' = [j \in Row |-> IF j = i THEN [row[j] EXCEPT !.status = "error"] ELSE row[j]]
  <2>1. pass[w].answer = a /\ Target(w) = {i} \cap Rows
    BY DEF Target
  <2>2. /\ DOMAIN Verdict = {"found", "late"} /\ Verdict["found"] = "pending_tls"
        /\ Verdict["late"] = "error"
    BY DEF Verdict
  <2> HIDE DEF i
  <2>3. \/ row' = row
        \/ row' = [j \in Row |->
             IF j \in {i} \cap Rows /\ a \in {"found", "late"}
             THEN [row[j] EXCEPT !.status = Verdict[a]] ELSE row[j]]
    BY <2>1, <2>2 DEF Write
  <2>4. row = [j \in Row |-> row[j]]
    BY DEF DomainsInv, TablesHold
  <2>5. CASE i \in Rows /\ a = "found"
    BY <2>2, <2>3, <2>5
  <2>6. CASE i \in Rows /\ a = "late"
    BY <2>2, <2>3, <2>6
  <2>7. CASE ~(i \in Rows /\ a \in {"found", "late"})
    BY <2>3, <2>4, <2>7
  <2> QED
    BY <2>5, <2>6, <2>7
<1>7. \A j \in Row : j \in Rows <=> row[j] \in DomainKind
  BY DomainsConstants DEF DomainsInv, TablesHold, Rows
<1>8. \A j \in Row :
        /\ row'[j] \in {NoRow} \cup DomainKind
        /\ row'[j] = NoRow <=> row[j] = NoRow
        /\ row[j] # NoRow => row'[j].host = row[j].host /\ row'[j].owner = row[j].owner
        /\ row'[j] = row[j] \/ (j = i /\ i \in Rows /\ row'[j].status \in {"pending_tls", "error"}
                                /\ (row'[j].status = "pending_tls" => a = "found"))
  <2> SUFFICES ASSUME NEW j \in Row
      PROVE /\ row'[j] \in {NoRow} \cup DomainKind
            /\ row'[j] = NoRow <=> row[j] = NoRow
            /\ row[j] # NoRow => row'[j].host = row[j].host /\ row'[j].owner = row[j].owner
            /\ row'[j] = row[j] \/ (j = i /\ i \in Rows /\ row'[j].status \in {"pending_tls", "error"}
                                    /\ (row'[j].status = "pending_tls" => a = "found"))
    OBVIOUS
  <2> HIDE DEF i
  <2>1. CASE row'[j] = row[j]
    BY <2>1 DEF DomainsInv, TablesHold
  <2>2. CASE row'[j] # row[j]
    <3>1. j = i /\ i \in Rows /\ row[j] \in DomainKind
      BY <1>6, <1>7, <2>2
    <3>2. PICK s \in {"pending_tls", "error"} :
            row'[j] = [row[j] EXCEPT !.status = s] /\ (s = "pending_tls" => a = "found")
      BY <1>6, <2>2, <3>1
    <3>3. /\ row'[j] \in DomainKind /\ row'[j].status = s
          /\ row'[j].host = row[j].host /\ row'[j].owner = row[j].owner
      BY <3>1, <3>2 DEF DomainKind, Status
    <3> QED
      BY <3>1, <3>2, <3>3, DomainsConstants
  <2> QED
    BY <2>1, <2>2
<1>9. TablesHold'
  <2>1. row' \in [Row -> {NoRow} \cup DomainKind]
    <3>1. row' = [j \in Row |-> row'[j]]
      BY <1>6 DEF DomainsInv, TablesHold
    <3> QED
      BY <1>8, <3>1
  <2>2. \A j \in Row : j >= next => row'[j] = NoRow
    BY <1>8 DEF DomainsInv, TablesHold
  <2> QED
    BY <1>5, <2>1, <2>2 DEF DomainsInv, TablesHold
<1>10. TokensHold'
  BY <1>5, <1>8 DEF DomainsInv, TokensHold
<1>11. ProvedByHolder'
  <2>1. ASSUME NEW j \in Row, row'[j] # NoRow, row'[j].status \in Eligible
        PROVE  <<row'[j].host, j>> \in published /\ row'[j].owner = Holder[row'[j].host]
    <3>1. CASE row'[j] = row[j]
      BY <2>1, <3>1 DEF DomainsInv, ProvedByHolder, Rows
    <3>2. CASE row'[j] # row[j]
      <4>1. j = i /\ a = "found" /\ row[j] # NoRow
        BY <1>8, <2>1, <3>2, DomainsConstants DEF Rows
      <4>2. <<Head(t)[2], j>> \in published
        BY <1>3, <4>1
      <4>3. Head(t)[2] \in Host
        BY <4>2 DEF DomainsInv, TokensHold
      <4>4. row[j].host = Head(t)[2] /\ row[j].owner = Holder[Head(t)[2]]
        BY <4>1, <4>2, <4>3 DEF DomainsInv, TokensHold
      <4> QED
        BY <1>8, <4>1, <4>2, <4>4
    <3> QED
      BY <3>1, <3>2
  <2>2. \A h \in certs' : \E j \in Row : <<h, j>> \in published'
    BY <1>5 DEF DomainsInv, ProvedByHolder
  <2> QED
    BY <1>5, <2>1, <2>2 DEF ProvedByHolder, Rows
<1>13. p.on = pass[w].on /\ p.todo = Tail(t) /\ p.answer = "none" /\ PassShape(p)
  <2> HIDE DEF t
  <2> QED
    BY <1>2 DEF PassShape
<1>14. /\ \A v \in Verifier : pass'[v] = IF v = w THEN p ELSE pass[v]
       /\ pass' = [v \in Verifier |-> pass'[v]]
  BY <1>4 DEF DomainsInv, PassesHold
<1> HIDE DEF p
<1>15. PassesHold'
  <2>1. ASSUME NEW v \in Verifier
        PROVE  /\ PassShape(pass'[v])
               /\ ~pass'[v].on => pass'[v].todo = <<>> /\ pass'[v].answer = "none"
               /\ pass'[v].answer # "none" => pass'[v].todo # <<>>
               /\ pass'[v].answer = "found" =>
                    <<Head(pass'[v].todo)[2], Head(pass'[v].todo)[1]>> \in published'
    BY <1>3, <1>5, <1>13, <1>14 DEF DomainsInv, PassesHold
  <2> QED
    BY <1>14, <2>1 DEF PassesHold, PassShape
<1>16. ASSUME ~raced
       PROVE  /\ LeftPending(t)
              /\ \A v \in Verifier \ {w} : ~pass[v].on /\ pass[v].todo = <<>>
  <2>1. pass[w].on
    BY <1>3
  <2>2. \A v \in Verifier \ {w} : ~pass[v].on
    BY <1>16, <2>1 DEF DomainsInv, AloneHolds
  <2>3. \A v \in Verifier \ {w} : pass[v].todo = <<>>
    BY <2>2, DomainsConstants DEF DomainsInv, PassesHold
  <2> QED
    BY <1>16, <2>1, <2>2, <2>3 DEF DomainsInv, AloneHolds
<1>17. PICK q : q = t
  OBVIOUS
<1>18. AloneHolds' /\ (~raced => row[i].status \notin Eligible)
  <2> SUFFICES ASSUME ~raced PROVE AloneHolds' /\ row[i].status \notin Eligible
    BY <1>5 DEF AloneHolds
  <2>1. q # <<>> /\ i = Head(q)[1] /\ p.todo = Tail(q) /\ LeftPending(q)
    BY <1>3, <1>13, <1>16, <1>17
  <2> HIDE DEF i, t
  <2>2. LeftPending(Tail(q))' /\ row[i].status \notin Eligible
    <3>1. TablesHold /\ \A j \in Row : row'[j] = row[j] \/ j = Head(q)[1]
      BY <1>8, <2>1 DEF DomainsInv
    <3>2. LeftPending(Tail(q))' /\ row[Head(q)[1]].status \notin Eligible
      BY <1>3, <1>5, <1>17, <2>1, <3>1, RestPending
    <3> QED
      BY <2>1, <3>2
  <2>3. LeftPending(<<>>)'
    BY DEF LeftPending
  <2>4. \A v \in Verifier : pass'[v].todo = Tail(q) \/ pass'[v].todo = <<>>
    BY <1>14, <1>16, <2>1
  <2>5. \A v \in Verifier : LeftPending(pass[v].todo)'
    BY <2>2, <2>3, <2>4 DEF LeftPending
  <2>6. \A u, v \in Verifier : pass'[u].on /\ pass'[v].on => u = v
    BY <1>14, <1>16
  <2> QED
    BY <2>2, <2>5, <2>6 DEF AloneHolds
<1>19. ~raced => \A j \in Row : row[j].status \in Eligible => row'[j].status = row[j].status
  BY <1>8, <1>18
<1> QED
  BY <1>9, <1>10, <1>11, <1>15, <1>18, <1>19 DEF DomainsInv

\* What writes neither rows, tokens nor passes.
LEMMA ClearKeeps ==
  ASSUME DomainsInv, Expire \/ \E i \in Row : ClearCheck(i)
  PROVE  DomainsInv'
<1>1. UNCHANGED <<row, next, published, certs, adding, pass, raced>>
  BY DEF Expire, ClearCheck, dns
<1>2. PassesHold' /\ AloneHolds'
  BY <1>1, PassesRest DEF DomainsInv, TablesHold
<1> QED
  BY <1>1, <1>2 DEF DomainsInv, TablesHold, TokensHold, ProvedByHolder, Rows

\* The certificate probe, and the operator's step.
LEMMA ProbeKeeps ==
  ASSUME DomainsInv, NEW i \in Row, Probe(i) \/ Activate(i)
  PROVE  DomainsInv'
<1>1. UNCHANGED <<next, published, certs, adding, pass, raced>>
  BY DEF Probe, Activate, dns
<1>2. i \in Rows
  BY DEF Probe, Probed, Activate
<1>3. CASE row' = [row EXCEPT ![i].status = "error"]
  <2>1. "error" \in Status \ {"none"} /\ "error" \notin Eligible
    BY DomainsConstants DEF Status
  <2> QED
    BY <1>1, <1>2, <1>3, <2>1, StatusKeeps
<1>4. CASE Activate(i)
  <2>1. row[i].status \in Eligible
    BY <1>4, DomainsConstants DEF Activate
  <2>2. row' = [row EXCEPT ![i].status = "active"] /\ "active" \in Status \ {"none"}
    BY <1>4 DEF Activate, Status
  <2> QED
    BY <1>1, <1>2, <2>1, <2>2, StatusKeeps
<1>5. CASE row' = row
  <2>1. PassesHold' /\ AloneHolds'
    BY <1>1, <1>5, PassesRest DEF DomainsInv, TablesHold
  <2> QED
    BY <1>1, <1>5, <2>1 DEF DomainsInv, TablesHold, TokensHold, ProvedByHolder,
       Rows
<1> QED
  BY <1>3, <1>4, <1>5 DEF Probe

LEMMA DomainsStep ==
  ASSUME DomainsInv, Next
  PROVE  /\ DomainsInv'
         /\ \A i \in Row : \A w \in Verifier :
              Write(w) /\ row[i].status \in Eligible /\ row'[i].status # row[i].status => raced
<1>1. ASSUME NEW w \in Verifier, Write(w)
      PROVE  /\ DomainsInv'
             /\ ~raced => \A i \in Row :
                  row[i].status \in Eligible => row'[i].status = row[i].status
  BY <1>1, WriteKeeps
<1>2. ASSUME Owners PROVE DomainsInv'
  <2>1. ASSUME NEW r \in Request, AddInsert(r) PROVE DomainsInv'
    BY <2>1, AddInsertKeeps
  <2>2. ASSUME NEW r \in Request, NEW u \in User, NEW h \in Host, AddCheck(r, u, h) PROVE DomainsInv'
    BY <2>2, AddCheckKeeps
  <2>3. ASSUME NEW i \in Row, ClearCheck(i) PROVE DomainsInv'
    BY <2>3, ClearKeeps
  <2>4. ASSUME NEW i \in Row, DeleteRow(i) PROVE DomainsInv'
    BY <2>4, DeleteRowKeeps
  <2> QED
    BY <1>2, <2>1, <2>2, <2>3, <2>4 DEF Owners, VerifyDomain, RemoveDomain,
       AdminRecheckDomain, AdminRemoveDomain
<1>3. ASSUME Outside PROVE DomainsInv'
  <2>1. ASSUME NEW i \in Row, Activate(i) PROVE DomainsInv'
    BY <2>1, ProbeKeeps
  <2>2. ASSUME NEW i \in Row, Publish(i) \/ Age(i) PROVE DomainsInv'
    BY <2>2, OutsideKeeps
  <2>3. ASSUME NEW h \in Host, AskCaddy(h) PROVE DomainsInv'
    BY <2>3, OutsideKeeps
  <2> QED
    BY <1>3, <2>1, <2>2, <2>3 DEF Outside
<1>4. ASSUME NEW w \in Verifier, Verify(w) \/ Crash(w) PROVE DomainsInv'
  <2>1. CASE Start(w)
    BY <2>1, StartKeeps
  <2>2. CASE Ask(w)
    BY <2>2, AskKeeps
  <2>3. CASE Write(w)
    BY <2>3, <1>1
  <2>4. CASE End(w) \/ Crash(w)
    BY <2>4, LeaveKeeps
  <2> QED
    BY <1>4, <2>1, <2>2, <2>3, <2>4 DEF Verify
<1>5. ASSUME Expire PROVE DomainsInv'
  BY <1>5, ClearKeeps
<1>6. ASSUME NEW i \in Row, Probe(i) PROVE DomainsInv'
  BY <1>6, ProbeKeeps
<1>7. DomainsInv'
  BY <1>2, <1>3, <1>4, <1>5, <1>6 DEF Next
<1> QED
  BY <1>1, <1>7

LEMMA DomainsRest == DomainsInv /\ UNCHANGED vars => DomainsInv'
<1> SUFFICES ASSUME DomainsInv, UNCHANGED vars PROVE DomainsInv'
  OBVIOUS
<1>1. UNCHANGED <<row, next, published, certs, adding, pass, raced>>
  BY DEF vars, dns
<1>2. PassesHold' /\ AloneHolds'
  BY <1>1, PassesRest DEF DomainsInv, TablesHold
<1> QED
  BY <1>1, <1>2 DEF DomainsInv, TablesHold, TokensHold, ProvedByHolder, Rows

LEMMA DomainsAlways == Spec => []DomainsInv
<1>1. DomainsInv /\ [Next]_vars => DomainsInv'
  BY DomainsStep, DomainsRest
<1> QED
  BY <1>1, DomainsBegin, PTL DEF Spec

\* A verified domain, and a certificate, are those of a user who controls the host's
\* DNS (domain-verifier.ts:101, caddy/check), for any number of users, hosts, rows,
\* verifiers and passes, whatever they overlap with.
THEOREM HolderProves == Spec => []ProvedByHolder
<1>1. DomainsInv => ProvedByHolder
  BY DEF DomainsInv
<1> QED
  BY <1>1, DomainsAlways, PTL

\* No pass takes a verification back unless two of them overlapped: for any batch and
\* any number of verifiers.
THEOREM OverlapDemotes == Spec => DemotedOnlyByOverlap
<1> DEFINE Keeps == \A i \in Row : \A w \in Verifier :
             Write(w) /\ row[i].status \in Eligible /\ row'[i].status # row[i].status => raced
<1>1. DomainsInv /\ [Next]_vars => [Keeps]_vars
  BY DomainsStep
<1>2. DemotedOnlyByOverlap <=> [][Keeps]_vars
  BY DEF DemotedOnlyByOverlap
<1> QED
  BY <1>1, <1>2, DomainsAlways, PTL DEF Spec
-----------------------------------------------------------------------------
(***************************************************************************)
(* The geographic databases.  A run handles the editions from job.i on; a  *)
(* file that is ahead of it is at most two weeks old when the run begins,  *)
(* and one that is not will be so when the timer fires.                    *)
(***************************************************************************)
GeoFile == [at : Nat, whole : {TRUE}, good : BOOLEAN]
Handling == {"stat", "fetch", "copy", "rename"}
GeoJob == [pc : Handling \cup {"swap"}, i : 1..Len(Editions), since : Nat, from : Nat, city : BOOLEAN,
           got : {Geo!NoFile} \cup GeoFile]

Ahead(e) == job.pc \in Handling /\ \E j \in job.i..Len(Editions) : Editions[j] = e

GeoTypes ==
  /\ now \in Nat /\ up \in BOOLEAN /\ due \in Nat /\ job \in {Geo!IdleJob} \cup GeoJob
  /\ file \in [Geo!Edition -> {Geo!NoFile} \cup GeoFile] /\ slack \in [Geo!Edition -> Nat]

RunHolds ==
  /\ up => now <= due
  /\ job # Geo!IdleJob =>
       /\ up /\ due = job.since + Week /\ job.since <= now /\ now <= job.since + MaxRun
       /\ job.pc \in {"copy", "rename"} =>
            job.got \in GeoFile /\ job.since <= job.got.at /\ job.got.at <= now
       /\ job.pc = "swap" => job.city

\* When a file is looked at next: by the run that is under way, or by the next one.
Looked(e) == IF Ahead(e) THEN job.since ELSE IF up THEN due ELSE now
AgesHold == \A e \in Geo!Edition : file[e] # Geo!NoFile => Looked(e) <= file[e].at + 2 * Week + slack[e]

ReaderHolds == up /\ (job # Geo!IdleJob => ~job.city) => reader = Geo!Opened(file[City])

GeoInv == GeoTypes /\ RunHolds /\ AgesHold /\ ReaderHolds

LEMMA GeoConstants ==
  /\ Week \in Nat \ {0} /\ MaxRun \in Nat \ {0} /\ MaxAge = Week /\ MaxRun < Week
  /\ Len(Editions) \in Nat \ {0} /\ City \in Geo!Edition
  /\ \A j \in 1..Len(Editions) : Editions[j] \in Geo!Edition
  /\ \A e \in Geo!Edition : \E j \in 1..Len(Editions) : Editions[j] = e
  /\ Geo!NoFile \notin GeoFile /\ Geo!IdleJob \notin GeoJob /\ Geo!IdleJob.pc = "idle"
<1>1. Geo!GeoAssumption
  BY MCLoopsAssumption
<1>2. Editions \in Seq(Geo!Edition) /\ City \in Geo!Edition
  BY <1>1 DEF Geo!GeoAssumption
<1>3. DOMAIN Editions = 1..Len(Editions) /\ Len(Editions) \in Nat
  BY <1>2
<1>4. PICK j \in 1..Len(Editions) : Editions[j] = City
  BY <1>2, <1>3 DEF Geo!Edition
<1>5. Geo!NoFile \notin GeoFile
  BY DEF Geo!NoFile, GeoFile
<1>6. Geo!IdleJob \notin GeoJob /\ Geo!IdleJob.pc = "idle"
  <2>1. \A k \in GeoJob : k.pc \in Handling \cup {"swap"}
    BY DEF GeoJob
  <2> QED
    BY <2>1 DEF Geo!IdleJob, Handling
<1> QED
  BY <1>1, <1>2, <1>3, <1>4, <1>5, <1>6 DEF Geo!GeoAssumption, Geo!Edition

LEMMA GeoBegins == Geo!Init => GeoInv
<1> SUFFICES ASSUME Geo!Init PROVE GeoInv
  OBVIOUS
<1>1. /\ now = 0 /\ up = FALSE /\ due = 0 /\ job = Geo!IdleJob
      /\ file \in [Geo!Edition -> {Geo!NoFile, [at |-> 0, whole |-> TRUE, good |-> TRUE]}]
      /\ slack = [e \in Geo!Edition |-> 0]
  BY DEF Geo!Init
<1>2. [at |-> 0, whole |-> TRUE, good |-> TRUE] \in GeoFile
  BY DEF GeoFile
<1>3. GeoTypes
  <2>1. file \in [Geo!Edition -> {Geo!NoFile} \cup GeoFile]
    BY <1>1, <1>2
  <2>2. slack \in [Geo!Edition -> Nat]
    BY <1>1
  <2> QED
    BY <1>1, <2>1, <2>2 DEF GeoTypes
<1>4. AgesHold
  <2>1. \A e \in Geo!Edition : file[e] # Geo!NoFile => file[e].at = 0
    BY <1>1
  <2>2. \A e \in Geo!Edition : Looked(e) = 0 /\ slack[e] = 0
    BY <1>1, GeoConstants DEF Looked, Ahead, Handling
  <2> QED
    BY <2>1, <2>2, GeoConstants DEF AgesHold
<1> QED
  BY <1>1, <1>3, <1>4 DEF GeoInv, RunHolds, ReaderHolds

\* The loop over the editions goes on, or comes to its end.
LEMMA AfterShape ==
  ASSUME NEW j \in GeoJob
  PROVE  \/ Geo!After(j) = Geo!IdleJob /\ j.i = Len(Editions) /\ ~j.city
         \/ /\ Geo!After(j) \in GeoJob /\ Geo!After(j).since = j.since /\ Geo!After(j).city = j.city
            /\ \/ Geo!After(j).pc = "swap" /\ j.i = Len(Editions) /\ j.city
               \/ Geo!After(j).pc = "stat" /\ Geo!After(j).i = j.i + 1
<1>1. j.i \in 1..Len(Editions) /\ Len(Editions) \in Nat \ {0}
  BY GeoConstants DEF GeoJob
<1>2. CASE j.i < Len(Editions)
  <2>1. Geo!After(j) = [j EXCEPT !.pc = "stat", !.i = j.i + 1] /\ j.i + 1 \in 1..Len(Editions)
    BY <1>1, <1>2 DEF Geo!After
  <2> QED
    BY <2>1 DEF GeoJob, Handling
<1>3. CASE ~(j.i < Len(Editions))
  <2>1. j.i = Len(Editions)
    BY <1>1, <1>3
  <2>2. Geo!After(j) = IF j.city THEN [j EXCEPT !.pc = "swap"] ELSE Geo!IdleJob
    BY <1>3 DEF Geo!After
  <2>3. CASE j.city
    BY <2>1, <2>2, <2>3 DEF GeoJob
  <2>4. CASE ~j.city
    BY <2>1, <2>2, <2>4
  <2> QED
    BY <2>3, <2>4
<1> QED
  BY <1>2, <1>3

\* An edition was handled: its file is looked at next when the timer fires, or later
\* in the run, and the other files as before.
LEMMA AfterKeeps ==
  ASSUME GeoInv, job.pc \in Handling, NEW j \in GeoJob, j.i = job.i, j.since = job.since,
         job' = Geo!After(j), UNCHANGED <<now, up, due>>, NEW h, h = Editions[job.i]
  PROVE  /\ job \in GeoJob /\ job' \in {Geo!IdleJob} \cup GeoJob /\ RunHolds'
         /\ \A e \in Geo!Edition : e # h => Looked(e)' = Looked(e)
         /\ h \in Geo!Edition /\ Looked(h) = job.since /\ Looked(h)' <= due /\ due = job.since + Week
         /\ job.since <= now /\ now <= job.since + MaxRun
         /\ (job' # Geo!IdleJob => ~job'.city) => ~j.city
<1>1. job \in GeoJob /\ job # Geo!IdleJob
  BY GeoConstants DEF GeoInv, GeoTypes, Handling
<1>2. /\ job.i \in 1..Len(Editions) /\ Len(Editions) \in Nat /\ job.since \in Nat /\ now \in Nat
      /\ up /\ due = job.since + Week /\ job.since <= now /\ now <= job.since + MaxRun /\ now <= due
  BY <1>1, GeoConstants DEF GeoInv, GeoTypes, RunHolds, GeoJob
<1>3. PICK k : k = Geo!After(j)
  OBVIOUS
<1>4. /\ job' = k
      /\ \/ k = Geo!IdleJob /\ job.i = Len(Editions) /\ ~j.city
         \/ /\ k \in GeoJob /\ k.since = job.since /\ k.city = j.city
            /\ \/ k.pc = "swap" /\ job.i = Len(Editions) /\ j.city
               \/ k.pc = "stat" /\ k.i = job.i + 1
  BY <1>3, AfterShape
<1>5. RunHolds'
  <2>1. CASE k = Geo!IdleJob
    BY <1>2, <1>4, <2>1 DEF RunHolds
  <2>2. CASE k \in GeoJob
    BY <1>2, <1>4, <2>2, GeoConstants DEF RunHolds
  <2> QED
    BY <1>4, <2>1, <2>2
<1>6. /\ Ahead(h) /\ h \in Geo!Edition
      /\ \A e \in Geo!Edition : e # h => (Ahead(e)' <=> Ahead(e))
  <2>1. Ahead(h) /\ h \in Geo!Edition
    BY <1>2, GeoConstants DEF Ahead
  <2>2. ASSUME NEW e \in Geo!Edition, e # h PROVE Ahead(e)' <=> Ahead(e)
    <3>1. Ahead(e) <=> \E m \in job.i + 1..Len(Editions) : Editions[m] = e
      <4>1. \A m \in job.i..Len(Editions) : m = job.i \/ m \in job.i + 1..Len(Editions)
        BY <1>2
      <4>2. \A m \in job.i + 1..Len(Editions) : m \in job.i..Len(Editions)
        BY <1>2
      <4> QED
        BY <2>2, <4>1, <4>2 DEF Ahead
    <3>2. Ahead(e)' <=> k.pc \in Handling /\ \E m \in k.i..Len(Editions) : Editions[m] = e
      BY <1>4 DEF Ahead
    <3>3. CASE k.pc = "stat"
      <4>1. k.i = job.i + 1 /\ k.pc \in Handling
        BY <1>4, <3>3, GeoConstants DEF Handling
      <4> QED
        BY <3>1, <3>2, <4>1
    <3>4. CASE k.pc # "stat"
      <4>1. job.i = Len(Editions) /\ k.pc \notin Handling
        BY <1>4, <3>4, GeoConstants DEF Handling
      <4>2. job.i + 1..Len(Editions) = {}
        BY <1>2, <4>1
      <4> QED
        BY <3>1, <3>2, <4>1, <4>2
    <3> QED
      BY <3>3, <3>4
  <2> QED
    BY <2>1, <2>2
<1>7. \A e \in Geo!Edition : Looked(e)' = IF Ahead(e)' THEN job.since ELSE due
  <2>1. \A e \in Geo!Edition : Ahead(e)' => k.pc \in Handling
    BY <1>4 DEF Ahead
  <2>2. k.pc \in Handling => k.since = job.since
    BY <1>4, GeoConstants DEF Handling
  <2>3. \A e \in Geo!Edition : Looked(e)' = IF Ahead(e)' THEN k.since ELSE due
    BY <1>2, <1>4 DEF Looked
  <2> QED
    BY <2>1, <2>2, <2>3
<1>8. \A e \in Geo!Edition : Looked(e) = IF Ahead(e) THEN job.since ELSE due
  BY <1>2 DEF Looked
<1>9. Looked(h) = job.since /\ Looked(h)' <= due
  BY <1>2, <1>6, <1>7, <1>8, GeoConstants
<1>10. \A e \in Geo!Edition : e # h => Looked(e)' = Looked(e)
  BY <1>6, <1>7, <1>8
<1>11. (job' # Geo!IdleJob => ~job'.city) => ~j.city
  BY <1>4, GeoConstants
<1> QED
  BY <1>1, <1>2, <1>4, <1>5, <1>6, <1>9, <1>10, <1>11

\* The file of one edition, and what failures may have cost it, are written when the
\* edition was handled.
LEMMA HandledKeeps ==
  ASSUME GeoInv, job.pc \in Handling, NEW j \in GeoJob, j.i = job.i, j.since = job.since,
         job' = Geo!After(j), UNCHANGED <<now, up, due, reader>>, NEW h, h = Editions[job.i],
         job.city => j.city, h = City => j.city \/ file'[h] = file[h],
         NEW f \in {Geo!NoFile} \cup GeoFile, file' = [file EXCEPT ![h] = f],
         NEW s \in Nat, slack' = [slack EXCEPT ![h] = s],
         f # Geo!NoFile => due <= f.at + 2 * Week + s
  PROVE  GeoInv'
<1>1. /\ job' \in {Geo!IdleJob} \cup GeoJob /\ RunHolds'
      /\ \A e \in Geo!Edition : e # h => Looked(e)' = Looked(e)
      /\ h \in Geo!Edition /\ Looked(h)' <= due
      /\ (job' # Geo!IdleJob => ~job'.city) => ~j.city
  BY AfterKeeps
<1>2. /\ due \in Nat /\ file \in [Geo!Edition -> {Geo!NoFile} \cup GeoFile]
      /\ slack \in [Geo!Edition -> Nat]
  BY DEF GeoInv, GeoTypes
<1>3. GeoTypes'
  BY <1>1, <1>2 DEF GeoInv, GeoTypes
<1>4. AgesHold'
  <2>1. ASSUME NEW e \in Geo!Edition, file'[e] # Geo!NoFile
        PROVE  Looked(e)' <= file'[e].at + 2 * Week + slack'[e]
    <3>1. CASE e # h
      <4>1. file'[e] = file[e] /\ slack'[e] = slack[e]
        BY <1>2, <3>1
      <4>2. Looked(e) <= file[e].at + 2 * Week + slack[e]
        BY <2>1, <4>1 DEF GeoInv, AgesHold
      <4> QED
        BY <1>1, <3>1, <4>1, <4>2
    <3>2. CASE e = h
      <4>1. file'[e] = f /\ slack'[e] = s /\ f.at \in Nat
        BY <1>1, <1>2, <2>1, <3>2 DEF GeoFile
      <4>2. Looked(e)' <= due /\ due <= f.at + 2 * Week + s /\ Looked(e)' \in Int
        <5>1. Looked(e)' \in Int
          BY <1>1, <1>3, GeoConstants DEF Looked, Ahead, Handling, GeoTypes, GeoJob
        <5> QED
          BY <1>1, <2>1, <3>2, <4>1, <5>1
      <4> QED
        BY <1>2, <4>1, <4>2, GeoConstants
    <3> QED
      BY <3>1, <3>2
  <2> QED
    BY <2>1 DEF AgesHold
<1>5. ReaderHolds'
  <2> SUFFICES ASSUME up, ~j.city PROVE reader = Geo!Opened(file'[City])
    BY <1>1 DEF ReaderHolds
  <2>1. ~job.city /\ file'[City] = file[City]
    BY <1>2, GeoConstants
  <2> QED
    BY <2>1 DEF GeoInv, ReaderHolds
<1> QED
  BY <1>1, <1>3, <1>4, <1>5 DEF GeoInv

\* The run goes on with the edition it handles.
LEMMA SameEditionKeeps ==
  ASSUME GeoInv, job.pc \in Handling, job' \in GeoJob, job'.pc \in Handling, job'.i = job.i,
         job'.since = job.since, job'.city = job.city,
         job'.pc \in {"copy", "rename"} =>
            job'.got \in GeoFile /\ job.since <= job'.got.at /\ job'.got.at <= now,
         UNCHANGED <<now, up, due, file, reader, slack>>
  PROVE  GeoInv'
<1>1. job # Geo!IdleJob /\ job' # Geo!IdleJob
  BY GeoConstants DEF Handling
<1>2. GeoTypes'
  BY DEF GeoInv, GeoTypes
<1>3. RunHolds'
  BY <1>1 DEF GeoInv, RunHolds, Handling
<1>4. AgesHold'
  <2>1. \A e \in Geo!Edition : Looked(e)' = Looked(e)
    BY DEF Looked, Ahead
  <2> QED
    BY <2>1 DEF GeoInv, AgesHold
<1>5. ReaderHolds'
  BY <1>1 DEF GeoInv, ReaderHolds
<1> QED
  BY <1>2, <1>3, <1>4, <1>5 DEF GeoInv

\* A run begins, and every file is ahead of it.
LEMMA BeginKeeps ==
  ASSUME GeoInv, job = Geo!IdleJob, up \/ reader' = Geo!Opened(file[City]), up => now = due /\ reader' = reader,
         up' = TRUE, due' = now + Week, job' = Geo!NewJob,
         UNCHANGED <<now, file, slack>>
  PROVE  GeoInv'
<1>0. now \in Nat /\ Len(Editions) \in Nat \ {0} /\ Week \in Nat /\ MaxRun \in Nat
  BY GeoConstants DEF GeoInv, GeoTypes
<1>1. PICK k : k = Geo!NewJob
  OBVIOUS
<1>2. k \in GeoJob /\ k.pc = "stat" /\ k.i = 1 /\ k.since = now /\ ~k.city
  BY <1>0, <1>1 DEF Geo!NewJob, GeoJob, Handling
<1>3. job' = k /\ k # Geo!IdleJob
  BY <1>1, <1>2, GeoConstants
<1>4. GeoTypes'
  BY <1>0, <1>2, <1>3 DEF GeoInv, GeoTypes
<1>5. RunHolds'
  BY <1>0, <1>2, <1>3 DEF RunHolds
<1>6. AgesHold'
  <2>1. \A e \in Geo!Edition : Looked(e)' = now
    BY <1>2, <1>3, GeoConstants DEF Looked, Ahead, Handling
  <2>2. \A e \in Geo!Edition : Looked(e) = now
    BY GeoConstants DEF Looked, Ahead, Handling
  <2> QED
    BY <2>1, <2>2 DEF GeoInv, AgesHold
<1>7. ReaderHolds'
  BY DEF GeoInv, ReaderHolds
<1> QED
  BY <1>4, <1>5, <1>6, <1>7 DEF GeoInv

LEMMA StopKeeps ==
  ASSUME GeoInv, Geo!Stop
  PROVE  GeoInv'
<1>0. /\ now \in Nat /\ due \in Nat /\ slack \in [Geo!Edition -> Nat] /\ Week \in Nat /\ MaxRun < Week
      /\ MaxRun \in Nat /\ file \in [Geo!Edition -> {Geo!NoFile} \cup GeoFile]
  BY GeoConstants DEF GeoInv, GeoTypes
<1>1. /\ up /\ up' = FALSE /\ job' = Geo!IdleJob /\ slack' = [e \in Geo!Edition |-> slack[e] + Week]
      /\ UNCHANGED <<now, due, file>>
  BY DEF Geo!Stop
<1>2. GeoTypes'
  <2>1. slack' \in [Geo!Edition -> Nat]
    BY <1>0, <1>1
  <2> QED
    BY <1>0, <1>1, <2>1 DEF GeoInv, GeoTypes
<1>3. AgesHold'
  <2> SUFFICES ASSUME NEW e \in Geo!Edition, file'[e] # Geo!NoFile
               PROVE  Looked(e)' <= file'[e].at + 2 * Week + slack'[e]
    BY DEF AgesHold
  <2>1. Looked(e)' = now
    BY <1>1, GeoConstants DEF Looked, Ahead, Handling
  <2>2. Looked(e) \in Int /\ now <= Looked(e) + Week
    <3>1. Ahead(e) => job.since \in Nat /\ now <= job.since + MaxRun
      BY GeoConstants DEF GeoInv, GeoTypes, RunHolds, Ahead, Handling, GeoJob
    <3>2. now <= due
      BY <1>1 DEF GeoInv, RunHolds
    <3> QED
      BY <1>0, <1>1, <3>1, <3>2 DEF Looked
  <2>3. file[e].at \in Nat /\ file'[e] = file[e] /\ slack'[e] = slack[e] + Week /\ slack[e] \in Nat
    BY <1>0, <1>1 DEF GeoFile
  <2>4. Looked(e) <= file[e].at + 2 * Week + slack[e]
    BY <2>3 DEF GeoInv, AgesHold
  <2> QED
    BY <1>0, <2>1, <2>2, <2>3, <2>4
<1> QED
  BY <1>1, <1>2, <1>3 DEF GeoInv, RunHolds, ReaderHolds

LEMMA AdvanceKeeps ==
  ASSUME GeoInv, Geo!Advance
  PROVE  GeoInv'
<1>0. /\ now \in Nat /\ due \in Nat /\ slack \in [Geo!Edition -> Nat] /\ Week \in Nat
      /\ MaxRun \in Nat /\ file \in [Geo!Edition -> {Geo!NoFile} \cup GeoFile]
  BY GeoConstants DEF GeoInv, GeoTypes
<1>1. /\ now' = now + 1 /\ ~(up /\ now = due) /\ (job # Geo!IdleJob => now - job.since < MaxRun)
      /\ slack' = IF up THEN slack ELSE [e \in Geo!Edition |-> slack[e] + 1]
      /\ UNCHANGED <<up, due, job, file, reader>>
  BY DEF Geo!Advance
<1>2. GeoTypes'
  BY <1>0, <1>1 DEF GeoInv, GeoTypes
<1>3. RunHolds'
  <2>1. up => now + 1 <= due
    BY <1>0, <1>1 DEF GeoInv, RunHolds
  <2>2. job # Geo!IdleJob => job.since \in Nat /\ now + 1 <= job.since + MaxRun
    BY <1>0, <1>1 DEF GeoInv, GeoTypes, GeoJob
  <2>3. ASSUME job # Geo!IdleJob, job.pc \in {"copy", "rename"}
        PROVE  job.got \in GeoFile /\ job.since <= job.got.at /\ job.got.at <= now + 1
    <3>1. job.got \in GeoFile /\ job.since <= job.got.at /\ job.got.at <= now
      BY <2>3 DEF GeoInv, RunHolds
    <3>2. PICK a \in Nat : a = job.got.at
      BY <3>1 DEF GeoFile
    <3> QED
      BY <1>0, <3>1, <3>2
  <2>4. job # Geo!IdleJob =>
          /\ up /\ due = job.since + Week /\ job.since <= now + 1 /\ (job.pc = "swap" => job.city)
    BY <1>0, <2>2 DEF GeoInv, RunHolds
  <2> QED
    BY <1>1, <2>1, <2>2, <2>3, <2>4 DEF RunHolds
<1>4. AgesHold'
  <2> SUFFICES ASSUME NEW e \in Geo!Edition, file'[e] # Geo!NoFile
               PROVE  Looked(e)' <= file'[e].at + 2 * Week + slack'[e]
    BY DEF AgesHold
  <2>1. Ahead(e)' <=> Ahead(e)
    BY <1>1 DEF Ahead
  <2>2. file[e].at \in Nat /\ slack[e] \in Nat /\ file'[e] = file[e]
    BY <1>0, <1>1 DEF GeoFile
  <2>3. Looked(e) <= file[e].at + 2 * Week + slack[e]
    BY <2>2 DEF GeoInv, AgesHold
  <2>4. CASE up \/ Ahead(e)
    <3>1. Looked(e)' = Looked(e)
      BY <1>1, <2>1, <2>4 DEF Looked
    <3>2. up
      BY <2>4, GeoConstants DEF GeoInv, RunHolds, Ahead, Handling
    <3> QED
      BY <1>1, <2>2, <2>3, <3>1, <3>2
  <2>5. CASE ~up /\ ~Ahead(e)
    <3>1. Looked(e) = now /\ Looked(e)' = now + 1 /\ slack'[e] = slack[e] + 1
      BY <1>1, <2>1, <2>5 DEF Looked
    <3> QED
      BY <1>0, <2>2, <2>3, <3>1
  <2> QED
    BY <2>4, <2>5
<1>5. ReaderHolds'
  BY <1>1 DEF GeoInv, ReaderHolds
<1> QED
  BY <1>2, <1>3, <1>4, <1>5 DEF GeoInv

LEMMA RestKeeps ==
  ASSUME GeoInv, UNCHANGED <<now, up, due, job, file, reader, slack>>
  PROVE  GeoInv'
BY DEF GeoInv, GeoTypes, RunHolds, AgesHold, Looked, Ahead, ReaderHolds

LEMMA GeoStep ==
  ASSUME GeoInv, Geo!Next
  PROVE  GeoInv'
<1>0. /\ now \in Nat /\ due \in Nat /\ job \in {Geo!IdleJob} \cup GeoJob
      /\ file \in [Geo!Edition -> {Geo!NoFile} \cup GeoFile] /\ slack \in [Geo!Edition -> Nat]
  BY DEF GeoInv, GeoTypes
<1>1. CASE Geo!Start
  <2>1. job = Geo!IdleJob
    BY <1>1 DEF Geo!Start, GeoInv, RunHolds
  <2> QED
    BY <1>1, <2>1, BeginKeeps DEF Geo!Start
<1>2. CASE Geo!Fire
  <2>1. job = Geo!IdleJob
    <3>1. up /\ now = due
      BY <1>2 DEF Geo!Fire
    <3>2. job # Geo!IdleJob => job.since \in Nat /\ due = job.since + Week /\ now <= job.since + MaxRun
      BY <1>0 DEF GeoInv, RunHolds, GeoJob
    <3> QED
      BY <3>1, <3>2, GeoConstants
  <2> QED
    BY <1>2, <2>1, BeginKeeps DEF Geo!Fire
<1>3. ASSUME job.pc \in Handling
      PROVE  /\ job \in GeoJob /\ Editions[job.i] \in Geo!Edition /\ Geo!Handled = Editions[job.i]
             /\ due = job.since + Week /\ job.since <= now /\ job.since \in Nat
  <2>1. job \in GeoJob /\ job # Geo!IdleJob
    BY <1>0, <1>3, GeoConstants DEF Handling
  <2> QED
    BY <2>1, GeoConstants DEF GeoInv, RunHolds, GeoJob, Geo!Handled
<1>4. CASE Geo!Stat
  <2>0. job.pc = "stat" /\ UNCHANGED <<now, up, due, file, reader, slack>>
    BY <1>4 DEF Geo!Stat
  <2>1. CASE Geo!Fresh(file[Geo!Handled])
    <3>1. PICK h \in Geo!Edition : h = Editions[job.i] /\ h = Geo!Handled
      BY <1>3, <2>0 DEF Handling
    <3>2. PICK f \in {Geo!NoFile} \cup GeoFile : f = file[h] /\ f # Geo!NoFile /\ now - f.at < Week
      BY <1>0, <2>1, <3>1, GeoConstants DEF Geo!Fresh
    <3>3. PICK s \in Nat : s = slack[h]
      BY <1>0
    <3>4. file' = [file EXCEPT ![h] = f] /\ slack' = [slack EXCEPT ![h] = s] /\ job' = Geo!After(job)
      BY <1>0, <1>4, <2>0, <2>1, <3>1, <3>2, <3>3 DEF Geo!Stat
    <3>5. due <= f.at + 2 * Week + s
      <4>1. f.at \in Nat
        BY <3>2 DEF GeoFile
      <4> QED
        BY <1>0, <1>3, <2>0, <3>2, <4>1, GeoConstants DEF Handling
    <3>6. job.pc \in Handling /\ job \in GeoJob
      BY <1>3, <2>0 DEF Handling
    <3> QED
      BY <2>0, <3>1, <3>2, <3>4, <3>5, <3>6, HandledKeeps
  <2>2. CASE ~Geo!Fresh(file[Geo!Handled])
    <3>1. job' = [job EXCEPT !.pc = "fetch", !.from = now] /\ job \in GeoJob
      BY <1>3, <1>4, <2>0, <2>2 DEF Geo!Stat, Handling
    <3>2. /\ job' \in GeoJob /\ job'.pc = "fetch" /\ job'.i = job.i /\ job'.since = job.since
          /\ job'.city = job.city
      BY <1>0, <3>1 DEF GeoJob, Handling
    <3> QED
      BY <2>0, <3>2, SameEditionKeeps DEF Handling
  <2> QED
    BY <2>1, <2>2
<1>5. CASE Geo!Fetch
  <2>0. job.pc = "fetch" /\ UNCHANGED <<now, up, due, file, reader, slack>>
    BY <1>5 DEF Geo!Fetch
  <2>1. PICK good \in BOOLEAN :
          job' = [job EXCEPT !.pc = "copy", !.got = [at |-> now, whole |-> TRUE, good |-> good]]
    BY <1>5 DEF Geo!Fetch
  <2>2. PICK g \in GeoFile : g = [at |-> now, whole |-> TRUE, good |-> good] /\ g.at = now
    <3>1. [at |-> now, whole |-> TRUE, good |-> good] \in GeoFile
      BY <1>0 DEF GeoFile
    <3> QED
      BY <3>1
  <2>3. job' = [job EXCEPT !.pc = "copy", !.got = g] /\ job \in GeoJob
    BY <1>3, <2>0, <2>1, <2>2 DEF Handling
  <2>4. /\ job' \in GeoJob /\ job'.pc = "copy" /\ job'.i = job.i /\ job'.since = job.since
        /\ job'.city = job.city /\ job'.got = g
    BY <2>3 DEF GeoJob, Handling
  <2>5. job.since <= now
    BY <1>3, <2>0 DEF Handling
  <2> QED
    BY <1>0, <2>0, <2>2, <2>4, <2>5, SameEditionKeeps DEF Handling
<1>6. CASE Geo!Copy
  <2>0. job.pc = "copy" /\ UNCHANGED <<now, up, due, file, reader, slack>>
    BY <1>6 DEF Geo!Copy
  <2>1. job \in GeoJob /\ job.got \in GeoFile /\ job.since <= now
    <3>1. job \in GeoJob
      BY <1>3, <2>0 DEF Handling
    <3> QED
      BY <2>0, <3>1, GeoConstants DEF GeoInv, RunHolds
  <2>2. PICK g \in GeoFile : g = [job.got EXCEPT !.at = now] /\ g.at = now
    <3>1. [job.got EXCEPT !.at = now] \in GeoFile /\ [job.got EXCEPT !.at = now].at = now
      BY <1>0, <2>1 DEF GeoFile
    <3> QED
      BY <3>1
  <2>3. job' = [job EXCEPT !.pc = "rename", !.got = g]
    BY <1>6, <2>1, <2>2 DEF Geo!Copy, GeoJob
  <2>4. /\ job' \in GeoJob /\ job'.pc = "rename" /\ job'.i = job.i /\ job'.since = job.since
        /\ job'.city = job.city /\ job'.got = g
    BY <2>1, <2>3 DEF GeoJob, Handling
  <2> QED
    BY <1>0, <2>0, <2>1, <2>2, <2>4, SameEditionKeeps DEF Handling
<1>7. CASE Geo!Rename
  <2>0. job.pc = "rename" /\ UNCHANGED <<now, up, due, reader>>
    BY <1>7 DEF Geo!Rename
  <2>1. /\ job \in GeoJob /\ job.got \in GeoFile /\ job.since <= job.got.at /\ job.got.at <= now
        /\ due = job.since + Week
    <3>1. job \in GeoJob
      BY <1>3, <2>0 DEF Handling
    <3> QED
      BY <2>0, <3>1, GeoConstants DEF GeoInv, RunHolds
  <2>2. PICK h \in Geo!Edition : h = Editions[job.i] /\ h = Geo!Handled
    BY <1>3, <2>0 DEF Handling
  <2>3. PICK f \in GeoFile : f = job.got
    BY <2>1
  <2>4. PICK j \in GeoJob : j = [job EXCEPT !.city = job.city \/ h = City]
    BY <2>1 DEF GeoJob
  <2>5. j.i = job.i /\ j.since = job.since /\ (job.city => j.city) /\ (h = City => j.city)
    BY <2>1, <2>4 DEF GeoJob
  <2>6. /\ job' = Geo!After(j) /\ file' = [file EXCEPT ![h] = f] /\ slack' = [slack EXCEPT ![h] = 0]
    BY <1>7, <2>2, <2>3, <2>4 DEF Geo!Rename
  <2>7. due <= f.at + 2 * Week + 0
    <3>1. f.at \in Nat /\ job.since \in Nat
      BY <2>1, <2>3 DEF GeoFile, GeoJob
    <3> QED
      BY <2>1, <2>3, <3>1, GeoConstants
  <2>8. job.pc \in Handling /\ 0 \in Nat
    BY <2>0 DEF Handling
  <2> QED
    BY <2>0, <2>2, <2>5, <2>6, <2>7, <2>8, HandledKeeps
<1>8. CASE Geo!EditionFails
  <2>0. job.pc \in Handling /\ UNCHANGED <<now, up, due, file, reader>>
    BY <1>8 DEF Geo!EditionFails, Handling
  <2>1. job \in GeoJob /\ due = job.since + Week /\ job.since \in Nat
    BY <1>3, <2>0
  <2>2. PICK h \in Geo!Edition : h = Editions[job.i] /\ h = Geo!Handled
    BY <1>3, <2>0
  <2>3. PICK f \in {Geo!NoFile} \cup GeoFile : f = file[h]
    BY <1>0
  <2>4. PICK s \in Nat : s = slack[h] + Week
    BY <1>0, GeoConstants
  <2>5. /\ job' = Geo!After(job) /\ file' = [file EXCEPT ![h] = f] /\ slack' = [slack EXCEPT ![h] = s]
    BY <1>0, <1>8, <2>0, <2>2, <2>3, <2>4 DEF Geo!EditionFails
  <2>6. f # Geo!NoFile => due <= f.at + 2 * Week + s
    <3> SUFFICES ASSUME f # Geo!NoFile PROVE due <= f.at + 2 * Week + s
      OBVIOUS
    <3>1. Looked(h) = job.since
      <4>1. job.i \in job.i..Len(Editions)
        BY <2>1, GeoConstants DEF GeoJob
      <4> QED
        BY <2>0, <2>2, <4>1 DEF Looked, Ahead
    <3>2. job.since <= f.at + 2 * Week + slack[h] /\ f.at \in Nat
      BY <2>3, <3>1 DEF GeoInv, AgesHold, GeoFile
    <3> QED
      BY <1>0, <2>1, <2>4, <3>2, GeoConstants
  <2>7. file'[h] = file[h]
    BY <2>0
  <2> QED
    BY <2>0, <2>1, <2>2, <2>5, <2>6, <2>7, HandledKeeps
<1>9. CASE Geo!Swap
  <2>0. /\ job.pc = "swap" /\ job' = Geo!IdleJob /\ reader' = Geo!Opened(file[City])
        /\ UNCHANGED <<now, up, due, file, slack>>
    BY <1>9 DEF Geo!Swap
  <2>1. \A e \in Geo!Edition : Looked(e)' = Looked(e)
    BY <2>0, GeoConstants DEF Looked, Ahead, Handling
  <2>2. AgesHold'
    BY <2>0, <2>1 DEF GeoInv, AgesHold
  <2> QED
    BY <2>0, <2>2 DEF GeoInv, GeoTypes, RunHolds, ReaderHolds
<1>10. CASE Geo!Stop
  BY <1>10, StopKeeps
<1>11. CASE Geo!Advance
  BY <1>11, AdvanceKeeps
<1>12. CASE \E s \in Web : Geo!Serve(s)
  BY <1>12, RestKeeps DEF Geo!Serve
<1> QED
  BY <1>1, <1>2, <1>4, <1>5, <1>6, <1>7, <1>8, <1>9, <1>10, <1>11, <1>12 DEF Geo!Next

\* A database is published whole, the worker reads the one that is published, and none
\* grows older than two weeks and a run but for failures and the time the worker was
\* down (geo-refresh.ts:55, 94): for any editions, period of the timer and length of a run.
THEOREM GeoIsFresh == LoopsSpec => []GeoStaysFresh
<1>1. GeoInv /\ [LoopsNext]_loops => GeoInv'
  <2> SUFFICES ASSUME GeoInv, [LoopsNext]_loops PROVE GeoInv'
    OBVIOUS
  <2>1. CASE UNCHANGED geo
    BY <2>1, RestKeeps DEF geo
  <2>2. CASE Geo!Next
    BY <2>2, GeoStep
  <2> QED
    BY <2>1, <2>2 DEF LoopsNext, loops
<1>2. GeoInv => GeoStaysFresh
  <2> SUFFICES ASSUME GeoInv PROVE GeoStaysFresh
    OBVIOUS
  <2>1. Geo!NeverTooOld
    <3> SUFFICES ASSUME NEW e \in Geo!Edition, file[e] # Geo!NoFile
                 PROVE  now - file[e].at <= 2 * Week + MaxRun + slack[e]
      BY DEF Geo!NeverTooOld
    <3>1. Ahead(e) => job.since \in Nat /\ now <= job.since + MaxRun
      BY GeoConstants DEF GeoInv, GeoTypes, RunHolds, Ahead, Handling, GeoJob
    <3>2. up => now <= due
      BY DEF GeoInv, RunHolds
    <3>3. Looked(e) \in Int /\ now <= Looked(e) + MaxRun /\ now \in Int
      BY <3>1, <3>2, GeoConstants DEF GeoInv, GeoTypes, Looked
    <3>4. Looked(e) <= file[e].at + 2 * Week + slack[e]
      BY DEF GeoInv, AgesHold
    <3>5. file[e].at \in Int /\ slack[e] \in Int
      <4>1. file[e] \in GeoFile /\ slack[e] \in Nat
        BY DEF GeoInv, GeoTypes
      <4>2. \A f \in GeoFile : f.at \in Nat
        BY DEF GeoFile
      <4> QED
        BY <4>1, <4>2
    <3>6. Week \in Int /\ MaxRun \in Int
      BY GeoConstants
    <3>7. \A x, y, z, a, b, c, d \in Int : x <= y + d /\ y <= a + 2 * c + b => x - a <= 2 * c + d + b
      OBVIOUS
    <3> QED
      BY <3>3, <3>4, <3>5, <3>6, <3>7
  <2>2. Geo!OnlyWhole
    BY DEF GeoInv, GeoTypes, GeoFile, Geo!OnlyWhole
  <2>3. Geo!ReaderFollows
    BY DEF GeoInv, ReaderHolds, Geo!ReaderFollows
  <2> QED
    BY <2>1, <2>2, <2>3 DEF GeoStaysFresh, Geo!GeoStaysFresh
<1>3. LoopsInit => GeoInv
  BY GeoBegins DEF LoopsInit
<1> QED
  BY <1>1, <1>2, <1>3, PTL DEF LoopsSpec
-----------------------------------------------------------------------------
(***************************************************************************)
(* Click milestones.  A pass that is alone has read the cursors as they    *)
(* are, for each link it has left; and of a link that never slipped no     *)
(* milestone above the cursor was announced, but for the one whose cursor  *)
(* is about to be written.                                                 *)
(***************************************************************************)
MilesTypes ==
  /\ clicks \in [Mile!Link -> Nat] /\ owned \subseteq Mile!Link /\ cursor \in [Mile!Link -> Nat]
  /\ emits \in [Mile!Link -> [Threshold -> Nat]] /\ beside \in BOOLEAN
  /\ at \in [Worker -> {"idle", "emit", "mark"}] /\ seen \in [Worker -> [Mile!Link -> Nat]]
  /\ batch \in [Worker -> Seq(Mile!Link \X Nat)]

BatchesHold ==
  \A w \in Worker :
    /\ \A j, k \in DOMAIN batch[w] : j # k => batch[w][j][1] # batch[w][k][1]
    /\ at[w] = "mark" => batch[w] # <<>>
                         /\ Mile!Crossed(Head(batch[w])[2]) > seen[w][Head(batch[w])[1]]

\* The cursor of l is about to be moved to t.
Moving(l, t) ==
  \E w \in Worker : at[w] = "mark" /\ Head(batch[w])[1] = l /\ Mile!Crossed(Head(batch[w])[2]) = t

AloneAnnounces ==
  ~beside =>
    /\ \A v, w \in Worker : at[v] # "idle" /\ at[w] # "idle" => v = w
    /\ \A w \in Worker : at[w] # "idle" =>
         \A k \in DOMAIN batch[w] : seen[w][batch[w][k][1]] = cursor[batch[w][k][1]]
    /\ \A l \in Mile!Link \ slipped : \A t \in Threshold :
         emits[l][t] <= 1 /\ (t > cursor[l] /\ emits[l][t] # 0 => Moving(l, t))

MilesInv == MilesTypes /\ BatchesHold /\ AloneAnnounces

LEMMA MilesConstants ==
  /\ Links \in Nat /\ Mile!Link = 1..Links /\ LinkBatch \in Nat \ {0} /\ MaxClicks \in Nat
  /\ Threshold \subseteq 1..MaxClicks
BY MCLoopsAssumption DEF Mile!MilestonesAssumption, Mile!Link

\* The natural numbers are well ordered.
LEMMA LeastOf == ASSUME NEW T, T \subseteq Nat, T # {} PROVE \E m \in T : \A k \in T : m <= k
<1> DEFINE R == {s \in Nat \X Nat : s[1] < s[2]}
<1>1. IsWellFoundedOn(R, Nat)
  BY NatLessThanWellFounded DEF OpToRel
<1> HIDE DEF R
<1>2. PICK m \in T : \A k \in T : <<k, m>> \notin R
  BY <1>1, WFMin
<1>3. ASSUME NEW k \in T PROVE m <= k
  <2>1. <<k, m>> \in Nat \X Nat /\ ~(k < m)
    BY <1>2 DEF R
  <2> QED
    BY <2>1
<1> QED
  BY <1>3

\* A total has crossed a milestone or none.
LEMMA CrossedOne == ASSUME NEW n \in Nat PROVE Mile!Crossed(n) \in {0} \cup Threshold
<1> DEFINE S == {0} \cup {t \in Threshold : t <= n}
       T == {MaxClicks - t : t \in S}
<1>1. 0 \in S /\ \A t \in S : t \in Nat /\ t <= MaxClicks
  <2>1. \A t \in Threshold : t \in 1..MaxClicks
    BY MilesConstants
  <2> QED
    BY <2>1, MilesConstants
<1> HIDE DEF S
<1>2. PICK m \in T : \A k \in T : m <= k
  <2>1. T \subseteq Nat
    BY <1>1, MilesConstants
  <2>2. MaxClicks - 0 \in T
    BY <1>1
  <2> HIDE DEF T
  <2> QED
    BY <2>1, <2>2, LeastOf
<1>3. PICK x \in S : m = MaxClicks - x
  BY <1>2
<1>4. \A y \in S : x >= y
  <2> SUFFICES ASSUME NEW y \in S PROVE x >= y
    OBVIOUS
  <2>1. MaxClicks - y \in T
    OBVIOUS
  <2>2. MaxClicks - x <= MaxClicks - y
    BY <1>2, <1>3, <2>1
  <2> QED
    BY <1>1, <2>2, MilesConstants
<1>5. Mile!Max(S) \in S
  BY <1>3, <1>4 DEF Mile!Max
<1>6. Mile!Crossed(n) = Mile!Max(S)
  BY DEF S, Mile!Crossed
<1> QED
  BY <1>5, <1>6 DEF S

LEMMA FirstAndRest ==
  ASSUME NEW S, NEW q \in Seq(S), q # <<>>
  PROVE  /\ 1 \in DOMAIN q /\ Head(q) = q[1] /\ q[1] \in S /\ Tail(q) \in Seq(S)
         /\ \A k \in DOMAIN Tail(q) : k \in Nat /\ k + 1 \in DOMAIN q /\ k + 1 # 1 /\ Tail(q)[k] = q[k + 1]
<1>1. Len(q) \in Nat \ {0} /\ DOMAIN q = 1..Len(q)
  OBVIOUS
<1>2. Head(q) = q[1] /\ q[1] \in S
  BY <1>1
<1>3. PICK s \in Seq(S) : s = Tail(q)
  BY HeadTailProperties
<1>4. Len(s) = Len(q) - 1 /\ DOMAIN s = 1..Len(s) /\ \A k \in 1..Len(s) : s[k] = q[k + 1]
  BY <1>1, <1>3
<1> QED
  BY <1>1, <1>2, <1>3, <1>4

LEMMA MilesBegin == Mile!Init => MilesInv
<1> SUFFICES ASSUME Mile!Init PROVE MilesInv
  OBVIOUS
<1>1. /\ clicks = [l \in Mile!Link |-> 0] /\ owned \in SUBSET Mile!Link
      /\ cursor = [l \in Mile!Link |-> 0]
      /\ emits = [l \in Mile!Link |-> [t \in Threshold |-> 0]] /\ beside = FALSE
      /\ batch = [w \in Worker |-> <<>>] /\ seen = [w \in Worker |-> [l \in Mile!Link |-> 0]]
      /\ at = [w \in Worker |-> "idle"]
  BY DEF Mile!Init, Mile!Unread
<1>2. MilesTypes
  <2>1. emits \in [Mile!Link -> [Threshold -> Nat]]
    BY <1>1
  <2>2. seen \in [Worker -> [Mile!Link -> Nat]] /\ batch \in [Worker -> Seq(Mile!Link \X Nat)]
    BY <1>1
  <2>3. clicks \in [Mile!Link -> Nat] /\ cursor \in [Mile!Link -> Nat]
    BY <1>1
  <2>4. at \in [Worker -> {"idle", "emit", "mark"}] /\ beside \in BOOLEAN /\ owned \subseteq Mile!Link
    BY <1>1
  <2> QED
    BY <2>1, <2>2, <2>3, <2>4 DEF MilesTypes
<1>3. BatchesHold
  BY <1>1 DEF BatchesHold
<1>4. AloneAnnounces
  BY <1>1 DEF AloneAnnounces
<1> QED
  BY <1>2, <1>3, <1>4 DEF MilesInv

\* What a pass that is alone knows.
LEMMA AlonePass ==
  ASSUME MilesInv, ~beside, NEW w \in Worker, at[w] # "idle"
  PROVE  /\ \A v \in Worker \ {w} : at[v] = "idle"
         /\ \A k \in DOMAIN batch[w] : seen[w][batch[w][k][1]] = cursor[batch[w][k][1]]
         /\ \A l \in Mile!Link \ slipped : \A t \in Threshold :
              /\ emits[l][t] <= 1
              /\ t > cursor[l] /\ emits[l][t] # 0 =>
                   at[w] = "mark" /\ Head(batch[w])[1] = l /\ Mile!Crossed(Head(batch[w])[2]) = t
<1>1. \A v \in Worker \ {w} : at[v] = "idle"
  BY DEF MilesInv, AloneAnnounces
<1>2. \A l, t : Moving(l, t) =>
        at[w] = "mark" /\ Head(batch[w])[1] = l /\ Mile!Crossed(Head(batch[w])[2]) = t
  BY <1>1 DEF Moving
<1> QED
  BY <1>1, <1>2 DEF MilesInv, AloneAnnounces

\* A pass begins, goes on with its next link or ends, and no cursor is about to move.
LEMMA PassMoves ==
  ASSUME MilesInv, NEW w \in Worker, NEW q \in Seq(Mile!Link \X Nat), NEW r \in [Mile!Link -> Nat],
         NEW a \in {"idle", "emit"},
         batch' = [batch EXCEPT ![w] = q], seen' = [seen EXCEPT ![w] = r], at' = [at EXCEPT ![w] = a],
         \A j, k \in DOMAIN q : j # k => q[j][1] # q[k][1],
         UNCHANGED <<clicks, owned>>, beside' \in BOOLEAN, cursor' \in [Mile!Link -> Nat],
         emits' \in [Mile!Link -> [Threshold -> Nat]],
         ~beside' => \A v \in Worker \ {w} : at[v] = "idle",
         ~beside' /\ a # "idle" => \A k \in DOMAIN q : r[q[k][1]] = cursor'[q[k][1]],
         ~beside' => \A l \in Mile!Link \ slipped' : \A t \in Threshold :
                       emits'[l][t] <= 1 /\ (t > cursor'[l] => emits'[l][t] = 0)
  PROVE  MilesInv'
<1>1. /\ \A v \in Worker : at'[v] = IF v = w THEN a ELSE at[v]
      /\ \A v \in Worker : batch'[v] = IF v = w THEN q ELSE batch[v]
      /\ \A v \in Worker : seen'[v] = IF v = w THEN r ELSE seen[v]
  BY DEF MilesInv, MilesTypes
<1>2. MilesTypes'
  <2>1. at' \in [Worker -> {"idle", "emit", "mark"}] /\ batch' \in [Worker -> Seq(Mile!Link \X Nat)]
    BY DEF MilesInv, MilesTypes
  <2>2. seen' \in [Worker -> [Mile!Link -> Nat]]
    BY DEF MilesInv, MilesTypes
  <2> QED
    BY <2>1, <2>2 DEF MilesInv, MilesTypes
<1>3. BatchesHold'
  BY <1>1 DEF MilesInv, BatchesHold
<1>4. AloneAnnounces'
  BY <1>1 DEF AloneAnnounces
<1> QED
  BY <1>2, <1>3, <1>4 DEF MilesInv

\* The candidates of a pass are links, each once.
LEMMA CandidatesOnce ==
  ASSUME MilesInv, NEW all \in Mile!Candidates
  PROVE  /\ all \in Seq(Mile!Link) /\ Len(all) \in Nat
         /\ \A j, k \in 1..Len(all) : j # k => all[j] # all[k]
<1> DEFINE S == Mile!Reached
<1>1. PICK q \in Mile!SetToSeqs(S) : all = SubSeq(q, 1, IF Len(q) < LinkBatch THEN Len(q) ELSE LinkBatch)
  BY DEF Mile!Candidates, Mile!FirstOf
<1>2. IsFiniteSet(S) /\ Cardinality(S) \in Nat /\ S \subseteq Mile!Link
  <2>1. S \subseteq Mile!Link
    BY DEF Mile!Reached, MilesInv, MilesTypes
  <2>2. IsFiniteSet(1..Links)
    <3>1. 1 \in Int /\ Links \in Int
      BY MilesConstants
    <3> QED
      BY <3>1, FS_Interval
  <2> QED
    BY <2>1, <2>2, MilesConstants, FS_Subset, FS_CardinalityType
<1>3. Mile!Cardinality(S) = Cardinality(S)
  BY DEF Mile!Cardinality, Cardinality
<1> HIDE DEF S
<1>4. /\ q \in [1..Cardinality(S) -> S]
      /\ \A j, k \in 1..Cardinality(S) : j # k => q[j] # q[k]
  BY <1>1, <1>3 DEF Mile!SetToSeqs
<1>5. q \in Seq(S) /\ Len(q) = Cardinality(S)
  BY <1>2, <1>4
<1>6. PICK m \in 0..Len(q) : all = SubSeq(q, 1, m)
  BY <1>1, <1>2, <1>5, MilesConstants
<1>7. Len(all) = m /\ all \in Seq(S) /\ \A k \in 1..m : all[k] = q[k]
  BY <1>2, <1>5, <1>6
<1>8. all \in Seq(Mile!Link) /\ Len(all) \in Nat
  BY <1>2, <1>7
<1> QED
  BY <1>2, <1>4, <1>5, <1>6, <1>7, <1>8

LEMMA MilesStart ==
  ASSUME MilesInv, NEW w \in Worker, Mile!Start(w)
  PROVE  MilesInv'
<1>0. /\ at[w] = "idle"
      /\ UNCHANGED <<clicks, owned, cursor, emits, slipped>>
  BY DEF Mile!Start
<1>1. CASE UNCHANGED <<batch, seen, at, beside>>
  BY <1>0, <1>1 DEF MilesInv, MilesTypes, BatchesHold, AloneAnnounces, Moving
<1>2. CASE Mile!Reached # {}
  <2>1. PICK all \in Mile!Candidates :
          /\ batch' = [batch EXCEPT ![w] = [k \in 1..Len(all) |-> <<all[k], clicks[all[k]]>>]]
          /\ seen' = [seen EXCEPT ![w] = [l \in Mile!Link |-> IF l \in Mile!ToSet(all) THEN cursor[l] ELSE 0]]
    BY <1>2 DEF Mile!Start
  <2>2. /\ at' = [at EXCEPT ![w] = "emit"]
        /\ beside' = (beside \/ \E v \in Worker : at[v] # "idle")
    BY <1>2 DEF Mile!Start
  <2>3. /\ all \in Seq(Mile!Link) /\ Len(all) \in Nat
        /\ \A j, k \in 1..Len(all) : j # k => all[j] # all[k]
    BY CandidatesOnce
  <2>4. PICK q : q = [k \in 1..Len(all) |-> <<all[k], clicks[all[k]]>>]
    OBVIOUS
  <2>5. \A k \in 1..Len(all) : all[k] \in Mile!Link /\ clicks[all[k]] \in Nat
    BY <2>3 DEF MilesInv, MilesTypes
  <2>6. q \in Seq(Mile!Link \X Nat) /\ DOMAIN q = 1..Len(all) /\ \A k \in DOMAIN q : q[k][1] = all[k]
    BY <2>3, <2>4, <2>5
  <2>7. PICK r : r = [l \in Mile!Link |-> IF l \in Mile!ToSet(all) THEN cursor[l] ELSE 0]
    OBVIOUS
  <2>8. r \in [Mile!Link -> Nat]
    BY <2>7 DEF MilesInv, MilesTypes
  <2>9. \A k \in DOMAIN q : r[q[k][1]] = cursor'[q[k][1]]
    <3>1. \A k \in 1..Len(all) : all[k] \in Mile!ToSet(all)
      BY <2>3 DEF Mile!ToSet
    <3> QED
      BY <1>0, <2>5, <2>6, <2>7, <3>1
  <2>10. ~beside' => ~beside /\ \A v \in Worker : at[v] = "idle"
    BY <2>2
  <2>11. ~beside' => \A l \in Mile!Link \ slipped' : \A t \in Threshold :
                       emits'[l][t] <= 1 /\ (t > cursor'[l] => emits'[l][t] = 0)
    <3>1. ~beside' => \A l, t : ~Moving(l, t)
      BY <2>10 DEF Moving
    <3> QED
      BY <1>0, <2>10, <3>1 DEF MilesInv, AloneAnnounces
  <2>12. beside' \in BOOLEAN
    BY <2>2
  <2>13. cursor' \in [Mile!Link -> Nat] /\ emits' \in [Mile!Link -> [Threshold -> Nat]]
    BY <1>0 DEF MilesInv, MilesTypes
  <2>14. \A j, k \in DOMAIN q : j # k => q[j][1] # q[k][1]
    BY <2>3, <2>6
  <2>15. batch' = [batch EXCEPT ![w] = q] /\ seen' = [seen EXCEPT ![w] = r]
    BY <2>1, <2>4, <2>7
  <2> QED
    BY <1>0, <2>2, <2>6, <2>8, <2>9, <2>10, <2>11, <2>12, <2>13, <2>14, <2>15, PassMoves
<1> QED
  BY <1>1, <1>2 DEF Mile!Start, Mile!passes

\* The pass goes on with its next link.
LEMMA NextMoves ==
  ASSUME MilesInv, NEW w \in Worker, batch[w] # <<>>, at[w] # "idle", Mile!NextLink(w),
         UNCHANGED <<clicks, owned, seen, beside>>, cursor' \in [Mile!Link -> Nat],
         emits' \in [Mile!Link -> [Threshold -> Nat]],
         \A l \in Mile!Link : l # Head(batch[w])[1] => cursor'[l] = cursor[l],
         ~beside => \A l \in Mile!Link \ slipped' : \A t \in Threshold :
                      emits'[l][t] <= 1 /\ (t > cursor'[l] => emits'[l][t] = 0)
  PROVE  MilesInv'
<1>1. PICK q \in Seq(Mile!Link \X Nat) : q = batch[w] /\ q # <<>>
  BY DEF MilesInv, MilesTypes
<1>2. PICK s \in Seq(Mile!Link \X Nat) : s = Tail(q)
  BY <1>1, FirstAndRest
<1>3. /\ 1 \in DOMAIN q /\ Head(q) = q[1] /\ q[1] \in Mile!Link \X Nat
      /\ \A k \in DOMAIN s : k \in Nat /\ k + 1 \in DOMAIN q /\ k + 1 # 1 /\ s[k] = q[k + 1]
  BY <1>1, <1>2, FirstAndRest
<1>4. \A j, k \in DOMAIN q : j # k => q[j][1] # q[k][1]
  BY <1>1 DEF MilesInv, BatchesHold
<1>5. \A j, k \in DOMAIN s : j # k => s[j][1] # s[k][1]
  <2>1. ASSUME NEW j \in DOMAIN s, NEW k \in DOMAIN s, j # k PROVE s[j][1] # s[k][1]
    <3>1. j + 1 \in DOMAIN q /\ k + 1 \in DOMAIN q /\ j + 1 # k + 1 /\ s[j] = q[j + 1] /\ s[k] = q[k + 1]
      BY <1>3, <2>1
    <3> QED
      BY <1>4, <3>1
  <2> QED
    BY <2>1
<1>6. PICK r \in [Mile!Link -> Nat] : r = seen[w]
  BY DEF MilesInv, MilesTypes
<1>7. /\ batch' = [batch EXCEPT ![w] = s] /\ at' = [at EXCEPT ![w] = "emit"]
      /\ seen' = [seen EXCEPT ![w] = r]
  BY <1>1, <1>2, <1>6 DEF Mile!NextLink, MilesInv, MilesTypes
<1>8. ~beside => \A v \in Worker \ {w} : at[v] = "idle"
  BY AlonePass
<1>9. ~beside => \A k \in DOMAIN s : r[s[k][1]] = cursor'[s[k][1]]
  <2> SUFFICES ASSUME ~beside, NEW k \in DOMAIN s PROVE r[s[k][1]] = cursor'[s[k][1]]
    OBVIOUS
  <2>1. k + 1 \in DOMAIN q /\ s[k] = q[k + 1] /\ q[k + 1][1] # q[1][1]
    BY <1>3, <1>4
  <2>2. q[k + 1] \in Mile!Link \X Nat
    BY <2>1, ElementOfSeq
  <2>3. r[q[k + 1][1]] = cursor[q[k + 1][1]]
    BY <1>1, <1>6, <2>1, AlonePass
  <2> QED
    BY <1>1, <1>3, <2>1, <2>2, <2>3
<1>10. beside' \in BOOLEAN
  BY DEF MilesInv, MilesTypes
<1>11. beside' = beside /\ "emit" \in {"idle", "emit"}
  OBVIOUS
<1> QED
  <2>1. ~beside' => ~beside /\ \A v \in Worker \ {w} : at[v] = "idle"
    BY <1>8, <1>11
  <2>2. ~beside' => \A l \in Mile!Link \ slipped' : \A t \in Threshold :
                      emits'[l][t] <= 1 /\ (t > cursor'[l] => emits'[l][t] = 0)
    BY <2>1
  <2>3. PICK a \in {"idle", "emit"} : a = "emit"
    OBVIOUS
  <2>4. ~beside' /\ a # "idle" => \A k \in DOMAIN s : r[s[k][1]] = cursor'[s[k][1]]
    BY <1>9, <2>1
  <2>5. UNCHANGED <<clicks, owned>>
    OBVIOUS
  <2>6. batch' = [batch EXCEPT ![w] = s] /\ seen' = [seen EXCEPT ![w] = r] /\ at' = [at EXCEPT ![w] = a]
    BY <1>7, <2>3
  <2>7. ~beside' => \A v \in Worker \ {w} : at[v] = "idle"
    BY <2>1
  <2> QED
    BY <1>5, <1>10, <2>2, <2>4, <2>5, <2>6, <2>7, PassMoves, ZenonT(60)

LEMMA MilesEmit ==
  ASSUME MilesInv, NEW w \in Worker, Mile!Emit(w)
  PROVE  MilesInv'
<1>0. /\ at[w] = "emit" /\ batch[w] # <<>>
      /\ UNCHANGED <<clicks, owned, cursor, seen, beside>>
  BY DEF Mile!Emit
<1>1. PICK q \in Seq(Mile!Link \X Nat) : q = batch[w] /\ q # <<>>
  BY <1>0 DEF MilesInv, MilesTypes
<1>2. 1 \in DOMAIN q /\ Head(q) = q[1] /\ q[1] \in Mile!Link \X Nat
  BY <1>1, FirstAndRest
<1>3. PICK l \in Mile!Link, n \in Nat : l = Head(q)[1] /\ n = Head(q)[2]
  BY <1>2
<1>4. PICK c \in {0} \cup Threshold : c = Mile!Crossed(n)
  BY CrossedOne
<1>5. Mile!News(w, l, n) => c \in Threshold /\ c > seen[w][l]
  <2>1. seen[w][l] \in Nat
    BY DEF MilesInv, MilesTypes
  <2> QED
    BY <1>4, <2>1 DEF Mile!News
<1>6. \/ /\ Mile!News(w, l, n) /\ at' = [at EXCEPT ![w] = "mark"] /\ UNCHANGED <<batch, slipped>>
         /\ emits' = [emits EXCEPT ![l][c] = @ + 1]
      \/ /\ Mile!NextLink(w) /\ UNCHANGED <<emits, slipped>>
      \/ /\ Mile!News(w, l, n) /\ Mile!NextLink(w) /\ slipped' = slipped \cup {l}
         /\ emits' = [emits EXCEPT ![l][c] = @ + 1]
  BY <1>1, <1>3, <1>4 DEF Mile!Emit
<1>7. ASSUME c \in Threshold, emits' = [emits EXCEPT ![l][c] = @ + 1]
      PROVE  /\ emits' \in [Mile!Link -> [Threshold -> Nat]]
             /\ \A m \in Mile!Link : \A t \in Threshold :
                  emits'[m][t] = IF m = l /\ t = c THEN emits[m][t] + 1 ELSE emits[m][t]
  <2>1. emits \in [Mile!Link -> [Threshold -> Nat]]
    BY DEF MilesInv, MilesTypes
  <2>2. PICK e \in [Threshold -> Nat] : e = [emits[l] EXCEPT ![c] = emits[l][c] + 1]
    <3>1. emits[l] \in [Threshold -> Nat] /\ emits[l][c] \in Nat
      BY <1>7, <2>1
    <3>2. emits[l][c] + 1 \in Nat
      BY <3>1
    <3>3. [emits[l] EXCEPT ![c] = emits[l][c] + 1] \in [Threshold -> Nat]
      BY <3>1, <3>2
    <3> QED
      BY <3>3
  <2>3. emits' = [emits EXCEPT ![l] = e]
    BY <1>7, <2>2
  <2>4. emits' \in [Mile!Link -> [Threshold -> Nat]]
    BY <2>1, <2>3
  <2>5. \A m \in Mile!Link : emits'[m] = IF m = l THEN e ELSE emits[m]
    BY <2>1, <2>3
  <2>6. \A t \in Threshold : e[t] = IF t = c THEN emits[l][t] + 1 ELSE emits[l][t]
    BY <2>1, <2>2
  <2> QED
    BY <2>4, <2>5, <2>6
<1>8. ~beside => \A m \in Mile!Link \ slipped : \A t \in Threshold :
                   emits[m][t] <= 1 /\ (t > cursor[m] => emits[m][t] = 0)
  BY <1>0, AlonePass
<1>9. cursor \in [Mile!Link -> Nat] /\ emits \in [Mile!Link -> [Threshold -> Nat]]
  BY DEF MilesInv, MilesTypes
<1>10. CASE Mile!NextLink(w) /\ UNCHANGED <<emits, slipped>>
  BY <1>0, <1>8, <1>9, <1>10, NextMoves
<1>11. CASE /\ Mile!News(w, l, n) /\ Mile!NextLink(w) /\ slipped' = slipped \cup {l}
            /\ emits' = [emits EXCEPT ![l][c] = @ + 1]
  <2>1. ~beside => \A m \in Mile!Link \ slipped' : \A t \in Threshold :
                     emits'[m][t] <= 1 /\ (t > cursor'[m] => emits'[m][t] = 0)
    BY <1>0, <1>5, <1>7, <1>8, <1>11
  <2>2. emits' \in [Mile!Link -> [Threshold -> Nat]] /\ cursor' \in [Mile!Link -> Nat]
    BY <1>0, <1>5, <1>7, <1>9, <1>11
  <2> QED
    BY <1>0, <1>11, <2>1, <2>2, NextMoves
<1>12. CASE /\ Mile!News(w, l, n) /\ at' = [at EXCEPT ![w] = "mark"] /\ UNCHANGED <<batch, slipped>>
            /\ emits' = [emits EXCEPT ![l][c] = @ + 1]
  <2>1. \A v \in Worker : at'[v] = IF v = w THEN "mark" ELSE at[v]
    BY <1>12 DEF MilesInv, MilesTypes
  <2>2. MilesTypes'
    <3>1. at' \in [Worker -> {"idle", "emit", "mark"}]
      BY <1>12 DEF MilesInv, MilesTypes
    <3> QED
      BY <1>0, <1>5, <1>7, <1>12, <3>1 DEF MilesInv, MilesTypes
  <2>3. BatchesHold'
    BY <1>0, <1>1, <1>3, <1>4, <1>5, <1>12, <2>1 DEF MilesInv, BatchesHold
  <2>4. AloneAnnounces'
    <3> SUFFICES ASSUME ~beside PROVE AloneAnnounces'
      BY <1>0 DEF AloneAnnounces
    <3>1. \A v \in Worker \ {w} : at'[v] = "idle"
      BY <1>0, <2>1, AlonePass
    <3>2. \A k \in DOMAIN q : seen[w][q[k][1]] = cursor[q[k][1]]
      BY <1>0, <1>1, AlonePass
    <3>3. c > cursor[l]
      BY <1>2, <1>3, <1>5, <1>12, <3>2
    <3>4. Moving(l, c)'
      BY <1>1, <1>3, <1>4, <1>12, <2>1 DEF Moving
    <3>5. ASSUME NEW m \in Mile!Link \ slipped', NEW t \in Threshold
          PROVE  emits'[m][t] <= 1 /\ (t > cursor'[m] /\ emits'[m][t] # 0 => Moving(m, t)')
      <4>1. CASE m = l /\ t = c
        <5>1. emits'[m][t] = 1
          BY <1>5, <1>7, <1>8, <1>12, <3>3, <4>1
        <5> QED
          BY <3>4, <4>1, <5>1
      <4>2. CASE ~(m = l /\ t = c)
        BY <1>0, <1>5, <1>7, <1>8, <1>12, <4>2
      <4> QED
        BY <4>1, <4>2
    <3> QED
      BY <1>0, <1>1, <1>12, <3>1, <3>2, <3>5 DEF AloneAnnounces
  <2> QED
    BY <2>2, <2>3, <2>4 DEF MilesInv
<1> QED
  BY <1>6, <1>10, <1>11, <1>12

LEMMA MilesMark ==
  ASSUME MilesInv, NEW w \in Worker, Mile!Mark(w)
  PROVE  MilesInv'
<1>0. /\ at[w] = "mark" /\ Mile!NextLink(w)
      /\ UNCHANGED <<clicks, owned, emits, seen, beside>>
  BY DEF Mile!Mark
<1>1. batch[w] # <<>> /\ Mile!Crossed(Head(batch[w])[2]) > seen[w][Head(batch[w])[1]]
  BY <1>0 DEF MilesInv, BatchesHold
<1>2. PICK q \in Seq(Mile!Link \X Nat) : q = batch[w] /\ q # <<>>
  BY <1>1 DEF MilesInv, MilesTypes
<1>3. 1 \in DOMAIN q /\ Head(q) = q[1] /\ q[1] \in Mile!Link \X Nat
  BY <1>2, FirstAndRest
<1>4. PICK l \in Mile!Link, n \in Nat : l = Head(q)[1] /\ n = Head(q)[2]
  BY <1>3
<1>5. PICK c \in Nat : c = Mile!Crossed(n) /\ c > seen[w][l]
  <2>1. Mile!Crossed(n) \in Nat
    <3>1. 0 \in Nat /\ \A t \in Threshold : t \in Nat
      BY MilesConstants
    <3>2. Mile!Crossed(n) \in {0} \cup Threshold
      BY CrossedOne
    <3> QED
      BY <3>1, <3>2
  <2> QED
    BY <1>1, <1>2, <1>4, <2>1
<1>6. \/ cursor' = [cursor EXCEPT ![l] = c] /\ slipped' = slipped
      \/ cursor' = cursor /\ slipped' = slipped \cup {l}
  BY <1>2, <1>4, <1>5 DEF Mile!Mark
<1>7. /\ cursor' \in [Mile!Link -> Nat] /\ emits' \in [Mile!Link -> [Threshold -> Nat]]
      /\ \A m \in Mile!Link : m # l => cursor'[m] = cursor[m]
  BY <1>0, <1>6 DEF MilesInv, MilesTypes
<1>8. ~beside => \A m \in Mile!Link \ slipped' : \A t \in Threshold :
                   emits'[m][t] <= 1 /\ (t > cursor'[m] => emits'[m][t] = 0)
  <2> SUFFICES ASSUME ~beside, NEW m \in Mile!Link \ slipped', NEW t \in Threshold
               PROVE  emits'[m][t] <= 1 /\ (t > cursor'[m] => emits'[m][t] = 0)
    OBVIOUS
  <2>1. /\ m \notin slipped /\ emits[m][t] <= 1
        /\ t > cursor[m] /\ emits[m][t] # 0 => l = m /\ c = t
    BY <1>0, <1>2, <1>4, <1>5, <1>6, AlonePass
  <2>2. seen[w][l] = cursor[l] /\ cursor[l] \in Nat /\ t \in Nat
    <3>1. seen[w][q[1][1]] = cursor[q[1][1]]
      BY <1>0, <1>2, <1>3, AlonePass
    <3>2. t \in Nat /\ cursor[l] \in Nat
      BY MilesConstants DEF MilesInv, MilesTypes
    <3> QED
      BY <1>3, <1>4, <3>1, <3>2
  <2>3. CASE m = l
    <3>1. cursor'[l] = c
      BY <1>6, <2>3 DEF MilesInv, MilesTypes
    <3>2. t > c => t > cursor[l]
      BY <1>5, <2>2
    <3> QED
      BY <1>0, <2>1, <2>3, <3>1, <3>2
  <2>4. CASE m # l
    BY <1>0, <1>7, <2>1, <2>4
  <2> QED
    BY <2>3, <2>4
<1> QED
  BY <1>0, <1>2, <1>4, <1>7, <1>8, NextMoves

\* A pass that ends, or whose worker dies.
LEMMA MilesLeave ==
  ASSUME MilesInv, NEW w \in Worker, Mile!End(w) \/ Mile!Crash(w)
  PROVE  MilesInv'
<1>0. /\ at[w] # "idle" /\ UNCHANGED <<clicks, owned, cursor, emits, beside>>
      /\ batch' = [batch EXCEPT ![w] = <<>>] /\ seen' = [seen EXCEPT ![w] = Mile!Unread]
      /\ at' = [at EXCEPT ![w] = "idle"]
      /\ slipped' = IF at[w] = "mark" THEN slipped \cup {Head(batch[w])[1]} ELSE slipped
  BY DEF Mile!End, Mile!Crash, Mile!Leave
<1>1. PICK r \in [Mile!Link -> Nat] : r = Mile!Unread
  BY DEF Mile!Unread
<1>2. ~beside => \A v \in Worker \ {w} : at[v] = "idle"
  BY <1>0, AlonePass
<1>3. ~beside => \A l \in Mile!Link \ slipped' : \A t \in Threshold :
                   emits[l][t] <= 1 /\ (t > cursor[l] => emits[l][t] = 0)
  BY <1>0, AlonePass
<1>4. beside' \in BOOLEAN
  BY <1>0 DEF MilesInv, MilesTypes
<1>5. cursor \in [Mile!Link -> Nat] /\ emits \in [Mile!Link -> [Threshold -> Nat]]
  BY DEF MilesInv, MilesTypes
<1>6. "idle" \in {"idle", "emit"} /\ <<>> \in Seq(Mile!Link \X Nat) /\ DOMAIN <<>> = {}
  OBVIOUS
<1> QED
  BY <1>0, <1>1, <1>2, <1>3, <1>4, <1>5, <1>6, PassMoves

LEMMA MilesRest ==
  ASSUME MilesInv, UNCHANGED <<owned, cursor, emits, batch, seen, at, slipped, beside>>,
         clicks' \in [Mile!Link -> Nat]
  PROVE  MilesInv'
BY DEF MilesInv, MilesTypes, BatchesHold, AloneAnnounces, Moving

LEMMA MilesStep == ASSUME MilesInv, Mile!Next PROVE MilesInv'
<1>1. ASSUME NEW l \in Mile!Link, Mile!Click(l) PROVE MilesInv'
  <2>1. PICK n \in clicks[l] + 1..MaxClicks : clicks' = [clicks EXCEPT ![l] = n]
    BY <1>1 DEF Mile!Click
  <2>2. n \in Nat /\ clicks' \in [Mile!Link -> Nat]
    BY <2>1, MilesConstants DEF MilesInv, MilesTypes
  <2> QED
    BY <1>1, <2>2, MilesRest DEF Mile!Click, Mile!passes
<1>2. ASSUME NEW w \in Worker, Mile!Pass(w) \/ Mile!Crash(w) PROVE MilesInv'
  <2>1. CASE Mile!Start(w)
    BY <2>1, MilesStart
  <2>2. CASE Mile!Emit(w)
    BY <2>2, MilesEmit
  <2>3. CASE Mile!Mark(w)
    BY <2>3, MilesMark
  <2>4. CASE Mile!End(w) \/ Mile!Crash(w)
    BY <2>4, MilesLeave
  <2> QED
    BY <1>2, <2>1, <2>2, <2>3, <2>4 DEF Mile!Pass
<1>3. ASSUME Mile!Expire PROVE MilesInv'
  <2>1. clicks' \in [Mile!Link -> Nat]
    BY <1>3 DEF Mile!Expire, MilesInv, MilesTypes
  <2> QED
    BY <1>3, <2>1, MilesRest DEF Mile!Expire
<1> QED
  BY <1>1, <1>2, <1>3 DEF Mile!Next

\* A milestone of a link is announced once, unless the insert of the deliveries and the
\* cursor came apart, or two passes overlapped (threshold-detector.ts:19): for any links,
\* milestones, workers and size of a batch.
THEOREM MilestonesOnce == LoopsSpec => []AnnouncedOnce
<1>1. MilesInv /\ [LoopsNext]_loops => MilesInv'
  <2> SUFFICES ASSUME MilesInv, [LoopsNext]_loops PROVE MilesInv'
    OBVIOUS
  <2>1. CASE UNCHANGED mile
    <3>1. clicks' \in [Mile!Link -> Nat]
      BY <2>1 DEF mile, MilesInv, MilesTypes
    <3> QED
      BY <2>1, <3>1, MilesRest DEF mile
  <2>2. CASE Mile!Next
    BY <2>2, MilesStep
  <2> QED
    BY <2>1, <2>2 DEF LoopsNext, loops
<1>2. MilesInv => AnnouncedOnce
  BY DEF MilesInv, AloneAnnounces, AnnouncedOnce, Mile!AnnouncedOnce
<1>3. LoopsInit => MilesInv
  BY MilesBegin DEF LoopsInit
<1> QED
  BY <1>1, <1>2, <1>3, PTL DEF LoopsSpec
-----------------------------------------------------------------------------
(***************************************************************************)
(* The bulk import.  What a row may still cost is a link for each worker   *)
(* that has it in hand and has not tried it, or for the first one that     *)
(* will take it; and while no row ran again, each row that was counted is  *)
(* acknowledged or about to be.                                            *)
(***************************************************************************)
BulkTypes ==
  /\ upload \in -1..Total /\ delivered \in Nat /\ delivered <= (IF upload < 0 THEN 0 ELSE upload)
  /\ progress \in [total : {0, Total}, done : Nat, finished : BOOLEAN]
  /\ acked \subseteq 1..delivered
  /\ todo \in [Worker -> Seq(Bulk!Row)] /\ step \in [Worker -> Bulk!Step]
  /\ links \in [Bulk!Row -> Nat] /\ again \in [Bulk!Row -> Nat]

HandsHold ==
  \A w \in Worker :
    /\ \A j, k \in DOMAIN todo[w] : j # k => todo[w][j] # todo[w][k]
    /\ \A k \in DOMAIN todo[w] : todo[w][k] <= delivered

Holds(w, r) == \E k \in DOMAIN todo[w] : todo[w][k] = r
Tries(w, r) == Holds(w, r) /\ ~(Head(todo[w]) = r /\ step[w] # "create")
Owed(r) ==
  IF \E w \in Worker : Holds(w, r) THEN Cardinality({w \in Worker : Tries(w, r)})
  ELSE IF r \in acked THEN 0 ELSE 1

LinksHold == \A r \in Bulk!Row : links[r] + Owed(r) <= 1 + again[r]

\* The rows whose count is behind them.
Ticking(w, r) == todo[w] # <<>> /\ Head(todo[w]) = r /\ step[w] = "ack"
Told == acked \cup {r \in Bulk!Row : \E w \in Worker : Ticking(w, r)}

\* No two workers have a row in hand, nor one what is acknowledged.
HandsApart ==
  /\ \A r \in Bulk!Row : \A v, w \in Worker : Holds(v, r) /\ Holds(w, r) => v = w
  /\ \A r \in Bulk!Row : \A w \in Worker : Holds(w, r) => r \notin acked

Once == \A r \in Bulk!Row : again[r] = 0
CountHolds ==
  Once => HandsApart /\ progress.done <= Cardinality(Told) /\ (progress.finished => Told = Bulk!Row)

BulkInv == BulkTypes /\ HandsHold /\ LinksHold /\ CountHolds

LEMMA BulkConstants ==
  /\ Total \in Nat \ {0} /\ ImportBatch \in Nat \ {0} /\ Bulk!Row = 1..Total
  /\ IsFiniteSet(Worker) /\ IsFiniteSet(Bulk!Row) /\ Cardinality(Bulk!Row) = Total
  /\ Bulk!Step = {"create", "tick", "ack"}
<1>1. Bulk!BulkAssumption
  BY MCLoopsAssumption
<1>2. Total \in Nat \ {0} /\ ImportBatch \in Nat \ {0} /\ Bulk!Row = 1..Total
  BY <1>1 DEF Bulk!BulkAssumption, Bulk!Row
<1>3. Bulk!IsFiniteSet(Worker)
  BY <1>1 DEF Bulk!BulkAssumption
<1>4. IsFiniteSet(Worker)
  BY <1>3 DEF Bulk!IsFiniteSet, IsFiniteSet
<1>5. IsFiniteSet(1..Total) /\ Cardinality(1..Total) = Total
  <2>1. 1 \in Int /\ Total \in Int
    BY <1>2
  <2> QED
    BY <1>2, <2>1, FS_Interval
<1> QED
  BY <1>2, <1>4, <1>5 DEF Bulk!Step

\* The hand of one worker changes: what this means for every worker.
LEMMA HandMoves ==
  ASSUME BulkTypes, NEW w \in Worker, NEW q \in Seq(Bulk!Row), NEW s \in Bulk!Step,
         todo' = [todo EXCEPT ![w] = q], step' = [step EXCEPT ![w] = s]
  PROVE  /\ todo' \in [Worker -> Seq(Bulk!Row)] /\ step' \in [Worker -> Bulk!Step]
         /\ \A v \in Worker \ {w} : todo'[v] = todo[v] /\ step'[v] = step[v]
         /\ todo'[w] = q /\ step'[w] = s
         /\ \A r : /\ \A v \in Worker \ {w} : (Holds(v, r)' <=> Holds(v, r)) /\ (Tries(v, r)' <=> Tries(v, r))
                                                /\ (Ticking(v, r)' <=> Ticking(v, r))
                   /\ Holds(w, r)' <=> \E k \in DOMAIN q : q[k] = r
                   /\ Tries(w, r)' <=> (\E k \in DOMAIN q : q[k] = r) /\ ~(Head(q) = r /\ s # "create")
                   /\ Ticking(w, r)' <=> q # <<>> /\ Head(q) = r /\ s = "ack"
<1>1. todo' \in [Worker -> Seq(Bulk!Row)] /\ step' \in [Worker -> Bulk!Step]
  BY DEF BulkTypes
<1>2. \A v \in Worker \ {w} : todo'[v] = todo[v] /\ step'[v] = step[v]
  BY DEF BulkTypes
<1>3. todo'[w] = q /\ step'[w] = s
  BY DEF BulkTypes
<1> QED
  BY <1>1, <1>2, <1>3 DEF Holds, Tries, Ticking

\* What a row may still cost, before and after one worker moved.
LEMMA OwedMoves ==
  ASSUME NEW w \in Worker, NEW r,
         \A v \in Worker \ {w} : (Holds(v, r)' <=> Holds(v, r)) /\ (Tries(v, r)' <=> Tries(v, r)),
         acked \subseteq acked'
  PROVE  /\ Owed(r) \in Nat /\ Owed(r)' \in Nat /\ Owed(r)' <= Owed(r) + 1
         /\ (Holds(w, r)' <=> Holds(w, r)) /\ (Tries(w, r)' => Tries(w, r)) => Owed(r)' <= Owed(r)
         /\ Holds(w, r)' /\ Tries(w, r) /\ ~Tries(w, r)' => Owed(r)' + 1 <= Owed(r)
         /\ ~Holds(w, r)' /\ (Tries(w, r) \/ r \in acked' \/ ~Holds(w, r)) => Owed(r)' <= Owed(r)
         /\ r \notin acked /\ (\A v \in Worker : ~Holds(v, r)) => Owed(r)' <= Owed(r)
<1>1. PICK others : others = {v \in Worker \ {w} : Tries(v, r)}
  OBVIOUS
<1>2. IsFiniteSet(others)
  BY <1>1, BulkConstants, FS_Subset
<1>3. PICK c : c = Cardinality(others)
  OBVIOUS
<1>4. c \in Nat /\ (c = 0 <=> others = {})
  BY <1>2, <1>3, FS_CardinalityType, FS_EmptySet
<1>5. Cardinality(others \cup {w}) = c + 1
  BY <1>1, <1>2, <1>3, FS_AddElement
<1>6. Cardinality({v \in Worker : Tries(v, r)}) = IF Tries(w, r) THEN c + 1 ELSE c
  <2>1. {v \in Worker : Tries(v, r)} = IF Tries(w, r) THEN others \cup {w} ELSE others
    BY <1>1
  <2> QED
    BY <1>3, <1>5, <2>1
<1>7. Cardinality({v \in Worker : Tries(v, r)})' = IF Tries(w, r)' THEN c + 1 ELSE c
  <2>1. {v \in Worker : Tries(v, r)}' = IF Tries(w, r)' THEN others \cup {w} ELSE others
    BY <1>1
  <2> QED
    BY <1>3, <1>5, <2>1
<1>8. PICK o \in BOOLEAN : o <=> \E v \in Worker \ {w} : Holds(v, r)
  OBVIOUS
<1>9. (o <=> \E v \in Worker \ {w} : Holds(v, r)') /\ (~o => c = 0)
  BY <1>1, <1>4, <1>8 DEF Tries
<1>10. Owed(r) = IF Holds(w, r) \/ o THEN IF Tries(w, r) THEN c + 1 ELSE c
                 ELSE IF r \in acked THEN 0 ELSE 1
  BY <1>6, <1>8 DEF Owed
<1>11. Owed(r)' = IF Holds(w, r)' \/ o THEN IF Tries(w, r)' THEN c + 1 ELSE c
                  ELSE IF r \in acked' THEN 0 ELSE 1
  BY <1>7, <1>9 DEF Owed
<1>12. (Tries(w, r) => Holds(w, r)) /\ (Tries(w, r)' => Holds(w, r)')
  BY DEF Tries
<1>13. (\A v \in Worker : ~Holds(v, r)) => ~o /\ ~Holds(w, r)
  BY <1>8
<1> QED
  BY <1>4, <1>9, <1>10, <1>11, <1>12, <1>13

LEMMA RestOfHand ==
  ASSUME NEW q \in Seq(Bulk!Row), q # <<>>, \A j, k \in DOMAIN q : j # k => q[j] # q[k]
  PROVE  /\ Head(q) \in Bulk!Row /\ Tail(q) \in Seq(Bulk!Row)
         /\ \A j, k \in DOMAIN Tail(q) : j # k => Tail(q)[j] # Tail(q)[k]
         /\ \A k \in DOMAIN Tail(q) : \E j \in DOMAIN q : Tail(q)[k] = q[j]
         /\ ~\E k \in DOMAIN Tail(q) : Tail(q)[k] = Head(q)
         /\ \E k \in DOMAIN q : q[k] = Head(q)
         /\ \A r : (\E k \in DOMAIN q : q[k] = r) => r = Head(q) \/ \E k \in DOMAIN Tail(q) : Tail(q)[k] = r
<1>1. /\ 1 \in DOMAIN q /\ Head(q) = q[1] /\ q[1] \in Bulk!Row /\ Tail(q) \in Seq(Bulk!Row)
      /\ \A k \in DOMAIN Tail(q) : k \in Nat /\ k + 1 \in DOMAIN q /\ k + 1 # 1 /\ Tail(q)[k] = q[k + 1]
  BY FirstAndRest
<1>2. \A j, k \in DOMAIN Tail(q) : j # k => Tail(q)[j] # Tail(q)[k]
  <2> SUFFICES ASSUME NEW j \in DOMAIN Tail(q), NEW k \in DOMAIN Tail(q), j # k PROVE Tail(q)[j] # Tail(q)[k]
    OBVIOUS
  <2>1. j + 1 # k + 1
    BY <1>1
  <2> QED
    BY <1>1, <2>1
<1>3. ASSUME NEW k \in DOMAIN q, q[k] # Head(q) PROVE \E j \in DOMAIN Tail(q) : Tail(q)[j] = q[k]
  <2>1. Len(q) \in Nat /\ DOMAIN q = 1..Len(q)
    OBVIOUS
  <2>2. k - 1 \in 1..Len(q) - 1
    BY <1>1, <1>3, <2>1
  <2>3. PICK t \in Seq(Bulk!Row) : t = Tail(q)
    BY <1>1
  <2>4. Len(t) = Len(q) - 1 /\ DOMAIN t = 1..Len(t) /\ \A i \in 1..Len(t) : t[i] = q[i + 1]
    BY <2>1, <2>3
  <2>5. k - 1 \in DOMAIN t /\ t[k - 1] = q[k]
    BY <2>1, <2>2, <2>4
  <2> QED
    BY <2>3, <2>5
<1> QED
  BY <1>1, <1>2, <1>3

\* A worker goes on with what it has in hand, all of it or less.
LEMMA HandShrinks ==
  ASSUME BulkInv, NEW w \in Worker, NEW q \in Seq(Bulk!Row), NEW s \in Bulk!Step,
         todo' = [todo EXCEPT ![w] = q], step' = [step EXCEPT ![w] = s], delivered' = delivered,
         \A j, k \in DOMAIN q : j # k => q[j] # q[k],
         \A k \in DOMAIN q : \E j \in DOMAIN todo[w] : q[k] = todo[w][j]
  PROVE  HandsHold' /\ \A v \in Worker, r \in Bulk!Row : Holds(v, r)' => Holds(v, r)
<1>1. BulkTypes /\ HandsHold
  BY DEF BulkInv
<1>2. /\ \A v \in Worker \ {w} : todo'[v] = todo[v]
      /\ todo'[w] = q
  BY <1>1, HandMoves
<1>3. HandsHold'
  BY <1>1, <1>2 DEF HandsHold
<1>4. \A v \in Worker, r \in Bulk!Row : Holds(v, r)' => Holds(v, r)
  BY <1>2 DEF Holds
<1> QED
  BY <1>3, <1>4

\* The rows that were told are rows, and finitely many.
LEMMA ToldRows == BulkTypes => Told \subseteq Bulk!Row /\ IsFiniteSet(Told) /\ Cardinality(Told) \in Nat
<1> SUFFICES ASSUME BulkTypes PROVE Told \subseteq Bulk!Row /\ IsFiniteSet(Told) /\ Cardinality(Told) \in Nat
  OBVIOUS
<1>1. acked \subseteq Bulk!Row
  BY BulkConstants DEF BulkTypes
<1>2. Told \subseteq Bulk!Row
  BY <1>1 DEF Told
<1> QED
  BY <1>2, BulkConstants, FS_Subset, FS_CardinalityType

\* As long as no row ran again, what was told stays told.
LEMMA CountKeeps ==
  ASSUME BulkInv, BulkTypes', progress' = progress, \A r \in Bulk!Row : again[r] <= again'[r],
         Once' => HandsApart' /\ Told \subseteq Told'
  PROVE  CountHolds'
<1> SUFFICES ASSUME Once'
             PROVE  HandsApart' /\ progress.done <= Cardinality(Told)' /\ (progress.finished => Told' = Bulk!Row)
  BY DEF CountHolds
<1>1. BulkTypes /\ CountHolds
  BY DEF BulkInv
<1>2. Once
  BY <1>1 DEF Once, BulkTypes
<1>3. HandsApart' /\ Told \subseteq Told'
  OBVIOUS
<1>4. /\ Told' \subseteq Bulk!Row /\ IsFiniteSet(Told') /\ Cardinality(Told') \in Nat
      /\ Told \subseteq Bulk!Row /\ Cardinality(Told) \in Nat
  <2>1. Told \subseteq Bulk!Row /\ Cardinality(Told) \in Nat
    BY <1>1, ToldRows
  <2>2. (Told \subseteq Bulk!Row /\ IsFiniteSet(Told) /\ Cardinality(Told) \in Nat)'
    BY ToldRows, PTL
  <2> QED
    BY <2>1, <2>2
<1>5. Cardinality(Told) <= Cardinality(Told')
  <2>1. PICK t : t = Told
    OBVIOUS
  <2>2. t \in SUBSET (Told')
    BY <1>3, <2>1
  <2> QED
    BY <1>4, <2>1, <2>2, FS_Subset
<1>6. progress.done \in Nat /\ progress.done <= Cardinality(Told) /\ (progress.finished => Told = Bulk!Row)
  BY <1>1, <1>2 DEF CountHolds, BulkTypes
<1> QED
  BY <1>3, <1>4, <1>5, <1>6

\* A worker deals with the row it has first: it goes on to the next statement, or to the
\* next row, or abandons what it has.
LEMMA HandWorks ==
  ASSUME BulkInv, NEW w \in Worker, todo[w] # <<>>, NEW x, x = Head(todo[w]),
         NEW q \in Seq(Bulk!Row), NEW s \in Bulk!Step,
         todo' = [todo EXCEPT ![w] = q], step' = [step EXCEPT ![w] = s],
         delivered' = delivered, acked \subseteq acked',
         \/ q = todo[w] /\ s # "create"
         \/ q = Tail(todo[w]) /\ s = "create"
         \/ q = <<>> /\ s = "create"
  PROVE  /\ x \in Bulk!Row /\ Holds(w, x)
         /\ todo' \in [Worker -> Seq(Bulk!Row)] /\ step' \in [Worker -> Bulk!Step]
         /\ HandsHold' /\ \A v \in Worker, r \in Bulk!Row : Holds(v, r)' => Holds(v, r)
         /\ q # todo[w] => ~Holds(w, x)'
         /\ \A r \in Bulk!Row :
              /\ Owed(r) \in Nat /\ Owed(r)' \in Nat /\ Owed(r)' <= Owed(r) + 1
              /\ r # x \/ step[w] = "create" \/ x \in acked' \/ q = todo[w] => Owed(r)' <= Owed(r)
         /\ q = todo[w] /\ step[w] = "create" => Owed(x)' + 1 <= Owed(x)
         /\ step[w] # "ack" \/ x \in acked' => Told \subseteq Told'
<1>1. BulkTypes /\ HandsHold
  BY DEF BulkInv
<1>2. PICK p \in Seq(Bulk!Row) : p = todo[w]
  BY <1>1 DEF BulkTypes
<1>3. p # <<>> /\ x = Head(p) /\ \A j, k \in DOMAIN p : j # k => p[j] # p[k]
  BY <1>1, <1>2 DEF HandsHold
<1>4. /\ x \in Bulk!Row /\ Tail(p) \in Seq(Bulk!Row)
      /\ \A j, k \in DOMAIN Tail(p) : j # k => Tail(p)[j] # Tail(p)[k]
      /\ \A k \in DOMAIN Tail(p) : \E j \in DOMAIN p : Tail(p)[k] = p[j]
      /\ ~\E k \in DOMAIN Tail(p) : Tail(p)[k] = x
      /\ \E k \in DOMAIN p : p[k] = x
      /\ \A r : (\E k \in DOMAIN p : p[k] = r) => r = x \/ \E k \in DOMAIN Tail(p) : Tail(p)[k] = r
  BY <1>3, RestOfHand
<1>5. \/ q = p /\ s # "create"
      \/ q = Tail(p) /\ s = "create"
      \/ q = <<>> /\ s = "create"
  BY <1>2
<1>6. DOMAIN <<>> = {}
  OBVIOUS
<1>7. /\ \A j, k \in DOMAIN q : j # k => q[j] # q[k]
      /\ \A k \in DOMAIN q : \E j \in DOMAIN p : q[k] = p[j]
  BY <1>3, <1>4, <1>5, <1>6
<1>8. HandsHold' /\ \A v \in Worker, r \in Bulk!Row : Holds(v, r)' => Holds(v, r)
  BY <1>2, <1>7, HandShrinks
<1>9. /\ todo' \in [Worker -> Seq(Bulk!Row)] /\ step' \in [Worker -> Bulk!Step]
      /\ \A r : /\ \A v \in Worker \ {w} : (Holds(v, r)' <=> Holds(v, r)) /\ (Tries(v, r)' <=> Tries(v, r))
                                             /\ (Ticking(v, r)' <=> Ticking(v, r))
                /\ Holds(w, r)' <=> \E k \in DOMAIN q : q[k] = r
                /\ Tries(w, r)' <=> (\E k \in DOMAIN q : q[k] = r) /\ ~(Head(q) = r /\ s # "create")
  BY <1>1, HandMoves
<1>10. \A r : /\ Holds(w, r) <=> \E k \in DOMAIN p : p[k] = r
              /\ Tries(w, r) <=> (\E k \in DOMAIN p : p[k] = r) /\ ~(x = r /\ step[w] # "create")
              /\ Ticking(w, r) => x = r /\ step[w] = "ack"
  BY <1>2, <1>3 DEF Holds, Tries, Ticking
<1>11. Holds(w, x) /\ (q # p => ~Holds(w, x)')
  BY <1>4, <1>5, <1>6, <1>9, <1>10
<1>12. ASSUME NEW r \in Bulk!Row
       PROVE  /\ Owed(r) \in Nat /\ Owed(r)' \in Nat /\ Owed(r)' <= Owed(r) + 1
              /\ r # x \/ step[w] = "create" \/ x \in acked' \/ q = p => Owed(r)' <= Owed(r)
              /\ r = x /\ q = p /\ step[w] = "create" => Owed(r)' + 1 <= Owed(r)
  <2>1. /\ Owed(r) \in Nat /\ Owed(r)' \in Nat /\ Owed(r)' <= Owed(r) + 1
        /\ (Holds(w, r)' <=> Holds(w, r)) /\ (Tries(w, r)' => Tries(w, r)) => Owed(r)' <= Owed(r)
        /\ Holds(w, r)' /\ Tries(w, r) /\ ~Tries(w, r)' => Owed(r)' + 1 <= Owed(r)
        /\ ~Holds(w, r)' /\ (Tries(w, r) \/ r \in acked' \/ ~Holds(w, r)) => Owed(r)' <= Owed(r)
    BY <1>9, OwedMoves
  <2>2. CASE q = p
    <3>1. (Holds(w, r)' <=> Holds(w, r)) /\ (Tries(w, r)' => Tries(w, r))
      BY <2>2, <1>3, <1>5, <1>9, <1>10
    <3>2. r = x /\ step[w] = "create" => Holds(w, r)' /\ Tries(w, r) /\ ~Tries(w, r)'
      BY <2>2, <1>3, <1>4, <1>5, <1>9, <1>10, <1>6
    <3> QED
      BY <2>1, <3>1, <3>2
  <2>3. CASE q # p /\ r = x
    BY <2>1, <2>3, <1>10, <1>11
  <2>4. CASE q # p /\ r # x
    <3>1. CASE q = Tail(p)
      <4>3. (\E k \in DOMAIN p : p[k] = r) <=> (\E k \in DOMAIN q : q[k] = r)
        <5>1. \A k \in DOMAIN q : \E j \in DOMAIN p : q[k] = p[j]
          BY <1>7
        <5>2. (\E k \in DOMAIN p : p[k] = r) => \E k \in DOMAIN q : q[k] = r
          BY <2>4, <3>1, <1>4
        <5> QED
          BY <5>1, <5>2
      <4>4. /\ Holds(w, r)' <=> \E k \in DOMAIN q : q[k] = r
            /\ Tries(w, r)' => \E k \in DOMAIN q : q[k] = r
        BY <1>9
      <4>5. /\ Holds(w, r) <=> \E k \in DOMAIN p : p[k] = r
            /\ (\E k \in DOMAIN p : p[k] = r) => Tries(w, r)
        BY <1>10, <2>4
      <4>1. (Holds(w, r)' <=> Holds(w, r)) /\ (Tries(w, r)' => Tries(w, r))
        BY <4>3, <4>4, <4>5
      <4>2. Owed(r)' <= Owed(r)
        BY <2>1, <4>1
      <4> QED
        BY <2>1, <2>4, <4>2
    <3>2. CASE q = <<>>
      <4>1. ~Holds(w, r)' /\ (Tries(w, r) \/ ~Holds(w, r))
        BY <2>4, <3>2, <1>6, <1>9, <1>10
      <4> QED
        BY <2>1, <2>4, <4>1
    <3> QED
      BY <2>4, <3>1, <3>2, <1>5
  <2> QED
    BY <2>2, <2>3, <2>4
<1>13. step[w] # "ack" \/ x \in acked' => Told \subseteq Told'
  BY <1>9, <1>10 DEF Told
<1> QED
  BY <1>2, <1>4, <1>8, <1>9, <1>11, <1>12, <1>13

\* The rows of a hand that shrinks are as apart as they were.
LEMMA ApartKeeps ==
  ASSUME BulkInv, Once, acked' = acked, \A v \in Worker, r \in Bulk!Row : Holds(v, r)' => Holds(v, r)
  PROVE  HandsApart'
<1>1. HandsApart
  BY DEF BulkInv, CountHolds
<1> QED
  BY <1>1 DEF HandsApart

\* processRow: what a row costs is a link less, or it is said why the row may run again.
LEMMA CreateKeeps ==
  ASSUME BulkInv, NEW w \in Worker, Bulk!Create(w)
  PROVE  BulkInv'
<1>1. /\ todo[w] # <<>> /\ step[w] = "create"
      /\ upload' = upload /\ progress' = progress /\ delivered' = delivered /\ acked' = acked
  BY DEF Bulk!Create, Bulk!At, Bulk!hash, Bulk!group
<1>2. BulkTypes /\ HandsHold /\ LinksHold
  BY DEF BulkInv
<1>3. PICK x : x = Head(todo[w])
  OBVIOUS
<1>4. PICK p \in Seq(Bulk!Row) : p = todo[w]
  BY <1>2 DEF BulkTypes
<1>5. /\ p \in Seq(Bulk!Row) /\ Tail(p) \in Seq(Bulk!Row) /\ <<>> \in Seq(Bulk!Row) /\ x \in Bulk!Row
      /\ {"create", "tick"} \subseteq Bulk!Step /\ todo = [todo EXCEPT ![w] = p]
  <2>1. p # <<>> /\ x = Head(p) /\ \A j, k \in DOMAIN p : j # k => p[j] # p[k]
    BY <1>1, <1>2, <1>3, <1>4 DEF HandsHold
  <2>2. Tail(p) \in Seq(Bulk!Row) /\ x \in Bulk!Row
    BY <2>1, RestOfHand
  <2>3. todo = [todo EXCEPT ![w] = p]
    BY <1>2, <1>4 DEF BulkTypes
  <2> QED
    BY <2>2, <2>3, BulkConstants
<1>6. \A l \in {0, 1} :
        /\ l = 0 => links = [links EXCEPT ![x] = links[x] + l]
        /\ l = 0 => again = [again EXCEPT ![x] = again[x] + l]
  BY <1>2, <1>5 DEF BulkTypes
<1>7. PICK l \in {0, 1}, a \in {0, 1} :
        /\ links' = [links EXCEPT ![x] = links[x] + l] /\ again' = [again EXCEPT ![x] = again[x] + a]
        /\ Bulk!Go(w, "tick") \/ ((Bulk!Abandon(w) \/ Bulk!NextRow(w)) /\ l <= a)
  <2>1. CASE Bulk!Go(w, "tick") /\ UNCHANGED again /\ links' = [links EXCEPT ![x] = links[x] + 1]
    <3>1. again' = [again EXCEPT ![x] = again[x] + 0]
      BY <2>1, <1>6
    <3> QED
      BY <2>1, <3>1
  <2>2. CASE Bulk!Go(w, "tick") /\ UNCHANGED again /\ UNCHANGED links
    <3>1. again' = [again EXCEPT ![x] = again[x] + 0] /\ links' = [links EXCEPT ![x] = links[x] + 0]
      BY <2>2, <1>6
    <3> QED
      BY <2>2, <3>1
  <2>3. CASE /\ \/ UNCHANGED <<links, again>>
                \/ links' = [links EXCEPT ![x] = links[x] + 1] /\ again' = [again EXCEPT ![x] = again[x] + 1]
             /\ Bulk!Go(w, "tick") \/ Bulk!Abandon(w) \/ Bulk!NextRow(w)
    BY <2>3, <1>6
  <2> QED
    BY <2>1, <2>2, <2>3, <1>3 DEF Bulk!Create
<1>13. PICK q \in Seq(Bulk!Row), s \in Bulk!Step :
         /\ todo' = [todo EXCEPT ![w] = q] /\ step' = [step EXCEPT ![w] = s]
         /\ q = p \/ l <= a
         /\ \/ q = p /\ s # "create"
            \/ q = Tail(p) /\ s = "create"
            \/ q = <<>> /\ s = "create"
  <2>1. CASE Bulk!Go(w, "tick")
    <3>1. todo' = [todo EXCEPT ![w] = p] /\ step' = [step EXCEPT ![w] = "tick"] /\ "tick" \in Bulk!Step
      BY <2>1, <1>5 DEF Bulk!Go
    <3> QED
      BY <3>1
  <2>2. CASE Bulk!Abandon(w) /\ l <= a
    <3>1. todo' = [todo EXCEPT ![w] = <<>>] /\ step' = [step EXCEPT ![w] = "create"] /\ "create" \in Bulk!Step
      BY <2>2, <1>5 DEF Bulk!Abandon
    <3> QED
      BY <3>1, <2>2, <1>5
  <2>3. CASE Bulk!NextRow(w) /\ l <= a
    <3>1. todo' = [todo EXCEPT ![w] = Tail(p)] /\ step' = [step EXCEPT ![w] = "create"] /\ "create" \in Bulk!Step
      BY <2>3, <1>4, <1>5 DEF Bulk!NextRow
    <3> QED
      BY <3>1, <2>3, <1>5
  <2> QED
    BY <1>7, <2>1, <2>2, <2>3
<1>8. /\ todo' \in [Worker -> Seq(Bulk!Row)] /\ step' \in [Worker -> Bulk!Step]
      /\ HandsHold' /\ \A v \in Worker, r \in Bulk!Row : Holds(v, r)' => Holds(v, r)
      /\ \A r \in Bulk!Row : Owed(r) \in Nat /\ Owed(r)' \in Nat /\ Owed(r)' <= Owed(r)
      /\ q = p => Owed(x)' + 1 <= Owed(x)
      /\ Told \subseteq Told'
  <2>1. \/ q = todo[w] /\ s # "create"
        \/ q = Tail(todo[w]) /\ s = "create"
        \/ q = <<>> /\ s = "create"
    BY <1>4, <1>13
  <2>2. todo' = [todo EXCEPT ![w] = q] /\ step' = [step EXCEPT ![w] = s] /\ acked \subseteq acked'
    BY <1>1, <1>13
  <2>3. /\ todo' \in [Worker -> Seq(Bulk!Row)] /\ step' \in [Worker -> Bulk!Step]
        /\ HandsHold' /\ \A v \in Worker, r \in Bulk!Row : Holds(v, r)' => Holds(v, r)
        /\ \A r \in Bulk!Row :
             /\ Owed(r) \in Nat /\ Owed(r)' \in Nat /\ Owed(r)' <= Owed(r) + 1
             /\ r # x \/ step[w] = "create" \/ x \in acked' \/ q = todo[w] => Owed(r)' <= Owed(r)
        /\ q = todo[w] /\ step[w] = "create" => Owed(x)' + 1 <= Owed(x)
        /\ step[w] # "ack" \/ x \in acked' => Told \subseteq Told'
    BY <1>1, <1>3, <2>1, <2>2, HandWorks
  <2>4. \A r \in Bulk!Row : Owed(r) \in Nat /\ Owed(r)' \in Nat /\ Owed(r)' <= Owed(r)
    BY <1>1, <2>3
  <2>5. q = p => Owed(x)' + 1 <= Owed(x)
    BY <1>1, <1>4, <2>3
  <2>6. Told \subseteq Told'
    BY <1>1, <2>3
  <2>7. HandsHold' /\ \A v \in Worker, r \in Bulk!Row : Holds(v, r)' => Holds(v, r)
    BY <2>3
  <2>8. todo' \in [Worker -> Seq(Bulk!Row)] /\ step' \in [Worker -> Bulk!Step]
    BY <2>3
  <2> QED
    BY <2>4, <2>5, <2>6, <2>7, <2>8
<1>9. BulkTypes'
  <2>1. links' \in [Bulk!Row -> Nat] /\ again' \in [Bulk!Row -> Nat]
    <3>1. links \in [Bulk!Row -> Nat] /\ again \in [Bulk!Row -> Nat]
      BY <1>2 DEF BulkTypes
    <3>2. links[x] + l \in Nat /\ again[x] + a \in Nat
      BY <3>1, <1>5
    <3> QED
      BY <3>1, <3>2, <1>7
  <2> QED
    BY <1>1, <1>2, <1>8, <2>1 DEF BulkTypes
<1>10. \A r \in Bulk!Row : again[r] <= again'[r]
  BY <1>2, <1>7 DEF BulkTypes
<1>11. LinksHold'
  <2> SUFFICES ASSUME NEW r \in Bulk!Row PROVE links'[r] + Owed(r)' <= 1 + again'[r]
    BY DEF LinksHold
  <2>1. /\ links'[r] = IF r = x THEN links[r] + l ELSE links[r]
        /\ again'[r] = IF r = x THEN again[r] + a ELSE again[r]
    BY <1>2, <1>7 DEF BulkTypes
  <2>2. links[r] \in Nat /\ again[r] \in Nat /\ links[r] + Owed(r) <= 1 + again[r]
    BY <1>2 DEF BulkTypes, LinksHold
  <2>3. Owed(r) \in Nat /\ Owed(r)' \in Nat /\ Owed(r)' <= Owed(r)
    BY <1>8
  <2>4. CASE r = x
    <3>1. q = p => Owed(r)' + 1 <= Owed(r)
      BY <2>4, <1>8
    <3> QED
      BY <2>1, <2>2, <2>3, <2>4, <3>1, <1>13
  <2>5. CASE r # x
    BY <2>1, <2>2, <2>3, <2>5
  <2> QED
    BY <2>4, <2>5
<1>12. CountHolds'
  <2>1. Once' => Once
    BY <1>2, <1>9, <1>10 DEF Once, BulkTypes
  <2>2. Once' => HandsApart'
    BY <2>1, <1>1, <1>8, ApartKeeps
  <2> QED
    BY <2>2, <1>1, <1>8, <1>9, <1>10, CountKeeps
<1> QED
  BY <1>8, <1>9, <1>11, <1>12 DEF BulkInv

\* The same for a step after the row was tried, of which it is known what it costs.
LEMMA HandGoes ==
  ASSUME BulkInv, NEW w \in Worker, todo[w] # <<>>, NEW x, x = Head(todo[w]),
         delivered' = delivered, acked \subseteq acked',
         Bulk!Go(w, "ack") \/ Bulk!NextRow(w) \/ Bulk!Abandon(w)
  PROVE  /\ x \in Bulk!Row /\ Holds(w, x)
         /\ todo' \in [Worker -> Seq(Bulk!Row)] /\ step' \in [Worker -> Bulk!Step]
         /\ HandsHold' /\ \A v \in Worker, r \in Bulk!Row : Holds(v, r)' => Holds(v, r)
         /\ Bulk!NextRow(w) \/ Bulk!Abandon(w) => ~Holds(w, x)'
         /\ \A r \in Bulk!Row :
              /\ Owed(r) \in Nat /\ Owed(r)' \in Nat /\ Owed(r)' <= Owed(r) + 1
              /\ r # x \/ step[w] = "create" \/ x \in acked' \/ Bulk!Go(w, "ack") => Owed(r)' <= Owed(r)
         /\ step[w] # "ack" \/ x \in acked' => Told \subseteq Told'
<1>1. BulkTypes /\ HandsHold
  BY DEF BulkInv
<1>2. PICK p \in Seq(Bulk!Row) : p = todo[w]
  BY <1>1 DEF BulkTypes
<1>3. Tail(p) \in Seq(Bulk!Row) /\ Tail(p) # p /\ <<>> \in Seq(Bulk!Row) /\ <<>> # p
  <2>1. p # <<>> /\ x = Head(p) /\ \A j, k \in DOMAIN p : j # k => p[j] # p[k]
    BY <1>1, <1>2 DEF HandsHold
  <2>2. /\ Tail(p) \in Seq(Bulk!Row) /\ ~\E k \in DOMAIN Tail(p) : Tail(p)[k] = Head(p)
        /\ \E k \in DOMAIN p : p[k] = Head(p)
    BY <2>1, RestOfHand
  <2> QED
    BY <2>1, <2>2
<1>4. {"create", "ack"} \subseteq Bulk!Step /\ todo = [todo EXCEPT ![w] = p]
  BY <1>1, <1>2, BulkConstants DEF BulkTypes
<1>5. PICK q \in Seq(Bulk!Row), s \in Bulk!Step :
        /\ todo' = [todo EXCEPT ![w] = q] /\ step' = [step EXCEPT ![w] = s]
        /\ \/ q = todo[w] /\ s # "create"
           \/ q = Tail(todo[w]) /\ s = "create"
           \/ q = <<>> /\ s = "create"
  <2>1. CASE Bulk!Go(w, "ack")
    <3>1. todo' = [todo EXCEPT ![w] = p] /\ step' = [step EXCEPT ![w] = "ack"]
      BY <2>1, <1>4 DEF Bulk!Go
    <3> QED
      BY <3>1, <1>2, <1>4
  <2>2. CASE Bulk!NextRow(w)
    <3>1. todo' = [todo EXCEPT ![w] = Tail(p)] /\ step' = [step EXCEPT ![w] = "create"]
      BY <2>2, <1>2 DEF Bulk!NextRow
    <3> QED
      BY <3>1, <1>2, <1>3, <1>4
  <2>3. CASE Bulk!Abandon(w)
    <3>1. todo' = [todo EXCEPT ![w] = <<>>] /\ step' = [step EXCEPT ![w] = "create"]
      BY <2>3 DEF Bulk!Abandon
    <3> QED
      BY <3>1, <1>3, <1>4
  <2> QED
    BY <2>1, <2>2, <2>3
<1>6. todo'[w] = q
  BY <1>1, <1>5 DEF BulkTypes
<1>7. Bulk!Go(w, "ack") => q = todo[w]
  BY <1>6 DEF Bulk!Go
<1>8. Bulk!NextRow(w) \/ Bulk!Abandon(w) => q # todo[w]
  <2>1. CASE Bulk!NextRow(w)
    <3>1. todo'[w] = Tail(p)
      BY <2>1, <1>1, <1>2 DEF Bulk!NextRow, BulkTypes
    <3> QED
      BY <3>1, <1>2, <1>3, <1>6
  <2>2. CASE Bulk!Abandon(w)
    <3>1. todo'[w] = <<>>
      BY <2>2, <1>1 DEF Bulk!Abandon, BulkTypes
    <3> QED
      BY <3>1, <1>2, <1>3, <1>6
  <2> QED
    BY <2>1, <2>2
<1>9. /\ x \in Bulk!Row /\ Holds(w, x)
      /\ todo' \in [Worker -> Seq(Bulk!Row)] /\ step' \in [Worker -> Bulk!Step]
      /\ HandsHold' /\ \A v \in Worker, r \in Bulk!Row : Holds(v, r)' => Holds(v, r)
      /\ q # todo[w] => ~Holds(w, x)'
      /\ \A r \in Bulk!Row :
           /\ Owed(r) \in Nat /\ Owed(r)' \in Nat /\ Owed(r)' <= Owed(r) + 1
           /\ r # x \/ step[w] = "create" \/ x \in acked' \/ q = todo[w] => Owed(r)' <= Owed(r)
      /\ step[w] # "ack" \/ x \in acked' => Told \subseteq Told'
  BY <1>5, HandWorks
<1>10. Bulk!NextRow(w) \/ Bulk!Abandon(w) => ~Holds(w, x)'
  BY <1>8, <1>9
<1>11. \A r \in Bulk!Row :
         /\ Owed(r) \in Nat /\ Owed(r)' \in Nat /\ Owed(r)' <= Owed(r) + 1
         /\ r # x \/ step[w] = "create" \/ x \in acked' \/ Bulk!Go(w, "ack") => Owed(r)' <= Owed(r)
  BY <1>7, <1>9
<1> QED
  BY <1>9, <1>10, <1>11

\* The link of a row is explained, or its count, when nothing is made of it.
LEMMA LinksKeep ==
  ASSUME BulkInv, NEW x, links' = links,
         \/ again' = again /\ \A r \in Bulk!Row : Owed(r)' <= Owed(r)
         \/ /\ again' = [again EXCEPT ![x] = @ + 1]
            /\ \A r \in Bulk!Row : Owed(r)' <= Owed(r) + 1 /\ (r # x => Owed(r)' <= Owed(r)),
         \A r \in Bulk!Row : Owed(r) \in Nat /\ Owed(r)' \in Nat
  PROVE  /\ LinksHold' /\ again' \in [Bulk!Row -> Nat]
         /\ \A r \in Bulk!Row : again[r] <= again'[r]
         /\ x \in Bulk!Row /\ again' # again => ~Once'
<1>1. links \in [Bulk!Row -> Nat] /\ again \in [Bulk!Row -> Nat] /\ LinksHold
  BY DEF BulkInv, BulkTypes
<1>2. again' \in [Bulk!Row -> Nat]
  <2>1. x \in Bulk!Row => again[x] + 1 \in Nat
    BY <1>1
  <2> QED
    BY <1>1, <2>1
<1>3. \A r \in Bulk!Row : again'[r] = again[r] \/ again'[r] = again[r] + 1
  BY <1>1
<1>4. LinksHold'
  <2> SUFFICES ASSUME NEW r \in Bulk!Row PROVE links[r] + Owed(r)' <= 1 + again'[r]
    BY DEF LinksHold
  <2>1. links[r] \in Nat /\ again[r] \in Nat /\ links[r] + Owed(r) <= 1 + again[r]
    BY <1>1 DEF LinksHold
  <2>2. CASE again' = again /\ Owed(r)' <= Owed(r)
    BY <2>1, <2>2
  <2>3. CASE /\ again' = [again EXCEPT ![x] = @ + 1]
             /\ Owed(r)' <= Owed(r) + 1 /\ (r # x => Owed(r)' <= Owed(r))
    <3>1. again'[r] = IF r = x THEN again[r] + 1 ELSE again[r]
      BY <2>3, <1>1
    <3> QED
      BY <2>1, <2>3, <3>1
  <2> QED
    BY <2>2, <2>3
<1>5. x \in Bulk!Row /\ again' # again => ~Once'
  <2> SUFFICES ASSUME x \in Bulk!Row, again' # again PROVE again'[x] # 0
    BY DEF Once
  <2>1. again'[x] = again[x] + 1
    BY <1>1
  <2> QED
    BY <1>1, <2>1
<1> QED
  BY <1>1, <1>2, <1>3, <1>4, <1>5

LEMMA AckKeeps ==
  ASSUME BulkInv, NEW w \in Worker, Bulk!Ack(w)
  PROVE  BulkInv'
<1>1. /\ todo[w] # <<>> /\ step[w] = "ack"
      /\ upload' = upload /\ progress' = progress /\ delivered' = delivered /\ links' = links
  BY DEF Bulk!Ack, Bulk!At, Bulk!hash
<1>2. BulkTypes /\ HandsHold /\ (Once => HandsApart)
  BY DEF BulkInv, CountHolds
<1>3. PICK x : x = Head(todo[w])
  OBVIOUS
<1>4. \/ acked' = acked \cup {x} /\ Bulk!NextRow(w) /\ again' = again
      \/ acked' = acked /\ Bulk!Abandon(w) /\ again' = [again EXCEPT ![x] = @ + 1]
  BY <1>3 DEF Bulk!Ack
<1>5. /\ x \in Bulk!Row /\ Holds(w, x)
      /\ todo' \in [Worker -> Seq(Bulk!Row)] /\ step' \in [Worker -> Bulk!Step]
      /\ HandsHold' /\ \A v \in Worker, r \in Bulk!Row : Holds(v, r)' => Holds(v, r)
      /\ ~Holds(w, x)'
      /\ \A r \in Bulk!Row :
           /\ Owed(r) \in Nat /\ Owed(r)' \in Nat /\ Owed(r)' <= Owed(r) + 1
           /\ r # x \/ x \in acked' => Owed(r)' <= Owed(r)
      /\ x \in acked' => Told \subseteq Told'
  BY <1>1, <1>3, <1>4, HandGoes
<1>6. /\ LinksHold' /\ again' \in [Bulk!Row -> Nat]
      /\ \A r \in Bulk!Row : again[r] <= again'[r]
      /\ again' # again => ~Once'
  BY <1>1, <1>4, <1>5, LinksKeep
<1>7. BulkTypes'
  <2>1. x <= delivered /\ x \in Nat \ {0}
    <3>1. PICK k \in DOMAIN todo[w] : todo[w][k] = x
      BY <1>5 DEF Holds
    <3>2. x <= delivered
      BY <3>1, <1>2 DEF HandsHold
    <3> QED
      BY <3>2, <1>5, BulkConstants
  <2>2. acked' \subseteq 1..delivered
    <3>1. acked \subseteq 1..delivered /\ delivered \in Nat
      BY <1>2 DEF BulkTypes
    <3>2. x \in 1..delivered
      BY <3>1, <2>1
    <3> QED
      BY <3>1, <3>2, <1>4
  <2> QED
    BY <2>2, <1>1, <1>2, <1>5, <1>6 DEF BulkTypes
<1>8. Once' => HandsApart' /\ Told \subseteq Told'
  <2> SUFFICES ASSUME Once' PROVE HandsApart' /\ Told \subseteq Told'
    OBVIOUS
  <2>1. again' = again
    BY <1>6
  <2>2. acked' = acked \cup {x}
    <3> SUFFICES ASSUME again' = [again EXCEPT ![x] = @ + 1] PROVE FALSE
      BY <1>4
    <3>1. again'[x] = again[x] + 1 /\ again[x] \in Nat
      BY <1>2, <1>5 DEF BulkTypes
    <3> QED
      BY <3>1, <2>1
  <2>3. HandsApart
    BY <2>1, <1>2 DEF Once
  <2>4. HandsApart'
    BY <2>2, <2>3, <1>5 DEF HandsApart
  <2> QED
    BY <2>2, <2>4, <1>5
<1>9. CountHolds'
  BY <1>1, <1>6, <1>7, <1>8, CountKeeps
<1> QED
  BY <1>5, <1>6, <1>7, <1>9 DEF BulkInv

LEMMA BulkCrashKeeps ==
  ASSUME BulkInv, NEW w \in Worker, Bulk!Crash(w)
  PROVE  BulkInv'
<1>1. /\ todo[w] # <<>> /\ Bulk!Abandon(w)
      /\ upload' = upload /\ progress' = progress /\ delivered' = delivered /\ links' = links /\ acked' = acked
  BY DEF Bulk!Crash, Bulk!hash, Bulk!group
<1>2. BulkTypes
  BY DEF BulkInv
<1>3. PICK x : x = Head(todo[w])
  OBVIOUS
<1>4. \/ step[w] = "create" /\ again' = again
      \/ step[w] # "create" /\ again' = [again EXCEPT ![x] = @ + 1]
  BY <1>3 DEF Bulk!Crash
<1>5. /\ x \in Bulk!Row
      /\ todo' \in [Worker -> Seq(Bulk!Row)] /\ step' \in [Worker -> Bulk!Step]
      /\ HandsHold' /\ \A v \in Worker, r \in Bulk!Row : Holds(v, r)' => Holds(v, r)
      /\ \A r \in Bulk!Row :
           /\ Owed(r) \in Nat /\ Owed(r)' \in Nat /\ Owed(r)' <= Owed(r) + 1
           /\ r # x \/ step[w] = "create" => Owed(r)' <= Owed(r)
      /\ step[w] # "ack" => Told \subseteq Told'
  BY <1>1, <1>3, HandGoes
<1>6. /\ LinksHold' /\ again' \in [Bulk!Row -> Nat]
      /\ \A r \in Bulk!Row : again[r] <= again'[r]
      /\ again' # again => ~Once'
  BY <1>1, <1>4, <1>5, LinksKeep
<1>7. BulkTypes'
  BY <1>1, <1>2, <1>5, <1>6 DEF BulkTypes
<1>8. Once' => HandsApart' /\ Told \subseteq Told'
  <2> SUFFICES ASSUME Once' PROVE HandsApart' /\ Told \subseteq Told'
    OBVIOUS
  <2>1. again' = again
    BY <1>6
  <2>2. step[w] = "create"
    <3> SUFFICES ASSUME again' = [again EXCEPT ![x] = @ + 1] PROVE FALSE
      BY <1>4
    <3>1. again'[x] = again[x] + 1 /\ again[x] \in Nat
      BY <1>2, <1>5 DEF BulkTypes
    <3> QED
      BY <3>1, <2>1
  <2>3. HandsApart'
    BY <2>1, <1>1, <1>5, ApartKeeps DEF Once
  <2> QED
    BY <2>2, <2>3, <1>5
<1>9. CountHolds'
  BY <1>1, <1>6, <1>7, <1>8, CountKeeps
<1> QED
  BY <1>5, <1>6, <1>7, <1>9 DEF BulkInv

\* tickProgress: the count grows with the rows that were told, or falls behind them.
LEMMA TickKeeps ==
  ASSUME BulkInv, NEW w \in Worker, Bulk!Tick(w)
  PROVE  BulkInv'
<1>1. /\ todo[w] # <<>> /\ step[w] = "tick" /\ Bulk!Go(w, "ack")
      /\ upload' = upload /\ delivered' = delivered /\ acked' = acked /\ links' = links /\ again' = again
  BY DEF Bulk!Tick, Bulk!At, Bulk!group
<1>2. BulkTypes /\ CountHolds
  BY DEF BulkInv
<1>3. PICK x : x = Head(todo[w])
  OBVIOUS
<1>4. /\ x \in Bulk!Row /\ Holds(w, x)
      /\ todo' \in [Worker -> Seq(Bulk!Row)] /\ step' \in [Worker -> Bulk!Step]
      /\ HandsHold' /\ \A v \in Worker, r \in Bulk!Row : Holds(v, r)' => Holds(v, r)
      /\ \A r \in Bulk!Row : Owed(r) \in Nat /\ Owed(r)' \in Nat /\ Owed(r)' <= Owed(r)
      /\ Told \subseteq Told'
  BY <1>1, <1>3, HandGoes
<1>5. LinksHold'
  BY <1>1, <1>4, LinksKeep
<1>6. /\ progress.done \in Nat /\ progress.total \in {0, Total} /\ progress.finished \in BOOLEAN
      /\ progress' \in [total : {0, Total}, done : Nat, finished : BOOLEAN]
      /\ progress'.done <= progress.done + 1
      /\ progress'.finished => progress.finished \/ (progress.total > 0 /\ progress'.done >= progress.total)
  <2>1. PICK n \in Nat, t \in {0, Total}, f \in BOOLEAN : progress = [total |-> t, done |-> n, finished |-> f]
    BY <1>2 DEF BulkTypes
  <2>2. Bulk!Counted = [total |-> t, done |-> n + 1, finished |-> f]
    BY <2>1 DEF Bulk!Counted
  <2>3. PICK g \in BOOLEAN : g <=> f \/ (t > 0 /\ n + 1 >= t)
    OBVIOUS
  <2>4. Bulk!Ticked = [total |-> t, done |-> n + 1, finished |-> g]
    <3>1. f \/ Bulk!Accounted(Bulk!Counted) <=> g
      BY <2>2, <2>3 DEF Bulk!Accounted
    <3>2. Bulk!Ticked = [total |-> t, done |-> n + 1, finished |-> f \/ Bulk!Accounted(Bulk!Counted)]
      BY <2>2 DEF Bulk!Ticked
    <3>3. (f \/ Bulk!Accounted(Bulk!Counted)) = g
      BY <3>1
    <3> QED
      BY <3>2, <3>3
  <2>5. progress' \in {Bulk!Ticked, Bulk!Counted, progress}
    BY DEF Bulk!Tick
  <2> QED
    BY <2>1, <2>2, <2>3, <2>4, <2>5
<1>7. BulkTypes'
  BY <1>1, <1>2, <1>4, <1>6 DEF BulkTypes
<1>8. CountHolds'
  <2> SUFFICES ASSUME Once'
               PROVE  /\ HandsApart' /\ progress'.done <= Cardinality(Told')
                      /\ (progress'.finished => Told' = Bulk!Row)
    BY DEF CountHolds
  <2>1. Once
    BY <1>1 DEF Once
  <2>2. HandsApart'
    BY <2>1, <1>1, <1>4, ApartKeeps
  <2>3. x \notin Told
    <3>1. HandsApart
      BY <2>1, <1>2 DEF CountHolds
    <3>2. x \notin acked
      BY <3>1, <1>4 DEF HandsApart
    <3>3. ASSUME NEW v \in Worker, Ticking(v, x) PROVE FALSE
      <4>1. PICK p \in Seq(Bulk!Row) : p = todo[v]
        BY <1>2 DEF BulkTypes
      <4>2. p # <<>> /\ Head(p) = x
        BY <4>1, <3>3 DEF Ticking
      <4>3. 1 \in DOMAIN p /\ p[1] = x
        BY <4>2
      <4>4. Holds(v, x)
        BY <4>1, <4>3 DEF Holds
      <4>5. v = w
        BY <4>4, <3>1, <1>4 DEF HandsApart
      <4> QED
        BY <4>5, <3>3, <1>1 DEF Ticking
    <3> QED
      BY <3>2, <3>3 DEF Told
  <2>4. x \in Told'
    <3>1. todo' = todo /\ step'[w] = "ack"
      BY <1>1, <1>2 DEF Bulk!Go, BulkTypes
    <3>2. Ticking(w, x)'
      BY <3>1, <1>1, <1>3 DEF Ticking
    <3> QED
      BY <3>2, <1>4 DEF Told
  <2>5. PICK t : t = Told
    OBVIOUS
  <2>6. /\ t \subseteq Bulk!Row /\ IsFiniteSet(t) /\ Cardinality(t) \in Nat
        /\ progress.done <= Cardinality(t) /\ (progress.finished => t = Bulk!Row)
    BY <2>1, <2>5, <1>2, ToldRows DEF CountHolds
  <2>7. Told' \subseteq Bulk!Row /\ IsFiniteSet(Told') /\ Cardinality(Told') \in Nat
    <3>1. (Told \subseteq Bulk!Row /\ IsFiniteSet(Told) /\ Cardinality(Told) \in Nat)'
      BY <1>7, ToldRows, PTL
    <3> QED
      BY <3>1
  <2>8. Cardinality(t) + 1 <= Cardinality(Told')
    <3>1. Cardinality(t \cup {x}) = Cardinality(t) + 1
      BY <2>3, <2>5, <2>6, FS_AddElement
    <3>2. t \cup {x} \in SUBSET (Told')
      BY <2>4, <2>5, <1>4
    <3>3. Cardinality(t \cup {x}) <= Cardinality(Told')
      BY <3>2, <2>7, FS_Subset
    <3> QED
      BY <3>1, <3>3
  <2>9. progress'.done <= Cardinality(Told')
    BY <1>6, <2>6, <2>7, <2>8
  <2>10. ASSUME progress'.finished PROVE Told' = Bulk!Row
    <3>1. CASE progress.finished
      BY <3>1, <2>5, <2>6, <2>7, <1>4
    <3>2. CASE progress.total > 0 /\ progress'.done >= progress.total
      <4>1. progress.total = Total /\ Total <= Cardinality(Told')
        BY <3>2, <2>7, <2>9, <1>6, BulkConstants
      <4>2. Told' \in SUBSET Bulk!Row
        BY <2>7
      <4>3. Cardinality(Told') <= Total /\ (Total = Cardinality(Told') => Bulk!Row = Told')
        BY <4>2, BulkConstants, FS_Subset
      <4> QED
        BY <4>1, <4>3, <2>7, BulkConstants
    <3> QED
      BY <2>10, <3>1, <3>2, <1>6
  <2> QED
    BY <2>2, <2>9, <2>10
<1> QED
  BY <1>4, <1>5, <1>7, <1>8 DEF BulkInv

\* A worker with nothing in hand takes some rows: each costs a link more only if another
\* worker has it.
LEMMA HandFills ==
  ASSUME BulkInv, NEW w \in Worker, todo[w] = <<>>, NEW q \in Seq(Bulk!Row),
         todo' = [todo EXCEPT ![w] = q], step' = step, acked' = acked,
         delivered' \in Nat, delivered <= delivered',
         \A j, k \in DOMAIN q : j # k => q[j] # q[k],
         \A k \in DOMAIN q : q[k] <= delivered' /\ q[k] \notin acked
  PROVE  /\ todo' \in [Worker -> Seq(Bulk!Row)] /\ step' \in [Worker -> Bulk!Step] /\ HandsHold'
         /\ \A r \in Bulk!Row :
              /\ Owed(r) \in Nat /\ Owed(r)' \in Nat /\ Owed(r)' <= Owed(r) + 1
              /\ ~((\E k \in DOMAIN q : q[k] = r) /\ \E v \in Worker : Holds(v, r)) => Owed(r)' <= Owed(r)
         /\ Told \subseteq Told'
         /\ Once /\ (\A r \in Bulk!Row : ~((\E k \in DOMAIN q : q[k] = r) /\ \E v \in Worker : Holds(v, r)))
              => HandsApart'
<1>1. BulkTypes /\ HandsHold /\ (Once => HandsApart)
  BY DEF BulkInv, CountHolds
<1>2. PICK s \in Bulk!Step : s = step[w] /\ step' = [step EXCEPT ![w] = s]
  BY <1>1 DEF BulkTypes
<1>3. /\ todo' \in [Worker -> Seq(Bulk!Row)] /\ step' \in [Worker -> Bulk!Step]
      /\ \A v \in Worker \ {w} : todo'[v] = todo[v] /\ step'[v] = step[v]
      /\ todo'[w] = q
      /\ \A r : /\ \A v \in Worker \ {w} : (Holds(v, r)' <=> Holds(v, r)) /\ (Tries(v, r)' <=> Tries(v, r))
                                             /\ (Ticking(v, r)' <=> Ticking(v, r))
                /\ Holds(w, r)' <=> \E k \in DOMAIN q : q[k] = r
  <2>2. BulkTypes /\ step' = [step EXCEPT ![w] = s] /\ todo' = [todo EXCEPT ![w] = q]
    BY <1>1, <1>2
  <2>1. /\ todo' \in [Worker -> Seq(Bulk!Row)] /\ step' \in [Worker -> Bulk!Step]
        /\ \A v \in Worker \ {w} : todo'[v] = todo[v] /\ step'[v] = step[v]
        /\ todo'[w] = q /\ step'[w] = s
        /\ \A r : /\ \A v \in Worker \ {w} : (Holds(v, r)' <=> Holds(v, r)) /\ (Tries(v, r)' <=> Tries(v, r))
                                               /\ (Ticking(v, r)' <=> Ticking(v, r))
                  /\ Holds(w, r)' <=> \E k \in DOMAIN q : q[k] = r
                  /\ Tries(w, r)' <=> (\E k \in DOMAIN q : q[k] = r) /\ ~(Head(q) = r /\ s # "create")
                  /\ Ticking(w, r)' <=> q # <<>> /\ Head(q) = r /\ s = "ack"
    BY <2>2, HandMoves
  <2> QED
    BY <2>1
<1>4. \A r : ~Holds(w, r) /\ ~Ticking(w, r)
  <2>1. DOMAIN <<>> = {}
    OBVIOUS
  <2> QED
    BY <2>1 DEF Holds, Ticking
<1>5. HandsHold'
  <2> SUFFICES ASSUME NEW v \in Worker
               PROVE  /\ \A j, k \in DOMAIN todo'[v] : j # k => todo'[v][j] # todo'[v][k]
                      /\ \A k \in DOMAIN todo'[v] : todo'[v][k] <= delivered'
    BY DEF HandsHold
  <2>1. CASE v = w
    BY <2>1, <1>3
  <2>2. CASE v # w
    <3>1. PICK p \in Seq(Bulk!Row) : p = todo[v]
      BY <1>1 DEF BulkTypes
    <3>2. todo'[v] = p
      BY <3>1, <2>2, <1>3
    <3>3. ASSUME NEW k \in DOMAIN p PROVE p[k] <= delivered'
      <4>1. p[k] <= delivered
        BY <3>1, <1>1 DEF HandsHold
      <4>2. p[k] \in Nat /\ delivered \in Nat
        <5>1. p[k] \in Bulk!Row
          OBVIOUS
        <5> QED
          BY <5>1, <1>1, BulkConstants DEF BulkTypes
      <4> QED
        BY <4>1, <4>2
    <3> QED
      BY <3>1, <3>2, <3>3, <1>1 DEF HandsHold
  <2> QED
    BY <2>1, <2>2
<1>6. ASSUME NEW r \in Bulk!Row
      PROVE  /\ Owed(r) \in Nat /\ Owed(r)' \in Nat /\ Owed(r)' <= Owed(r) + 1
             /\ ~((\E k \in DOMAIN q : q[k] = r) /\ \E v \in Worker : Holds(v, r)) => Owed(r)' <= Owed(r)
  <2>1. /\ Owed(r) \in Nat /\ Owed(r)' \in Nat /\ Owed(r)' <= Owed(r) + 1
        /\ ~Holds(w, r)' /\ ~Holds(w, r) => Owed(r)' <= Owed(r)
        /\ r \notin acked /\ (\A v \in Worker : ~Holds(v, r)) => Owed(r)' <= Owed(r)
    <3>1. acked \subseteq acked'
      OBVIOUS
    <3>2. \A v \in Worker \ {w} : (Holds(v, r)' <=> Holds(v, r)) /\ (Tries(v, r)' <=> Tries(v, r))
      BY <1>3
    <3> QED
      BY <3>1, <3>2, OwedMoves
  <2>2. CASE \E k \in DOMAIN q : q[k] = r
    <3>1. r \notin acked
      BY <2>2
    <3> QED
      BY <2>1, <2>2, <3>1
  <2>3. CASE ~\E k \in DOMAIN q : q[k] = r
    <3>1. ~Holds(w, r)' /\ ~Holds(w, r)
      BY <2>3, <1>3, <1>4
    <3> QED
      BY <2>1, <3>1
  <2> QED
    BY <2>2, <2>3
<1>7. Told \subseteq Told'
  <2>1. \A r : \A v \in Worker : Ticking(v, r) => Ticking(v, r)'
    BY <1>3, <1>4
  <2> QED
    BY <2>1 DEF Told
<1>8. ASSUME Once, \A r \in Bulk!Row : ~((\E k \in DOMAIN q : q[k] = r) /\ \E v \in Worker : Holds(v, r))
      PROVE  HandsApart'
  <2>1. HandsApart
    BY <1>1, <1>8
  <2>2. ASSUME NEW r \in Bulk!Row, NEW u \in Worker, NEW v \in Worker, Holds(u, r)', Holds(v, r)' PROVE u = v
    <3>1. CASE \E k \in DOMAIN q : q[k] = r
      BY <3>1, <1>3, <1>8, <2>2
    <3>2. CASE ~\E k \in DOMAIN q : q[k] = r
      BY <3>2, <1>3, <2>1, <2>2 DEF HandsApart
    <3> QED
      BY <3>1, <3>2
  <2>3. ASSUME NEW r \in Bulk!Row, NEW v \in Worker, Holds(v, r)' PROVE r \notin acked'
    <3>1. CASE v = w
      BY <3>1, <1>3, <2>3
    <3>2. CASE v # w
      BY <3>2, <1>3, <2>1, <2>3 DEF HandsApart
    <3> QED
      BY <3>1, <3>2
  <2> QED
    BY <2>2, <2>3 DEF HandsApart
<1> QED
  BY <1>3, <1>5, <1>6, <1>7, <1>8

\* What a worker claims is pending, each row once.
LEMMA ClaimsOnce ==
  ASSUME BulkInv, NEW all \in Bulk!Claims
  PROVE  /\ all \in Seq(Bulk!Row)
         /\ \A j, k \in DOMAIN all : j # k => all[j] # all[k]
         /\ \A k \in DOMAIN all : all[k] <= delivered /\ all[k] \notin acked
<1> DEFINE S == Bulk!Pending
<1>1. PICK q \in Bulk!SetToSeqs(S) : all = SubSeq(q, 1, IF Len(q) < ImportBatch THEN Len(q) ELSE ImportBatch)
  BY DEF Bulk!Claims, Bulk!FirstOf
<1>2. /\ delivered \in Nat /\ S \subseteq 1..delivered /\ S \cap acked = {} /\ S \subseteq Bulk!Row
      /\ IsFiniteSet(S) /\ Cardinality(S) \in Nat
  <2>1. delivered \in Nat /\ delivered <= Total
    BY BulkConstants DEF BulkInv, BulkTypes
  <2>2. S \subseteq 1..delivered /\ S \cap acked = {}
    BY DEF Bulk!Pending
  <2>3. S \subseteq Bulk!Row
    BY <2>1, <2>2, BulkConstants
  <2> QED
    BY <2>1, <2>2, <2>3, BulkConstants, FS_Subset, FS_CardinalityType
<1>3. Bulk!Cardinality(S) = Cardinality(S)
  BY DEF Bulk!Cardinality, Cardinality
<1> HIDE DEF S
<1>4. /\ q \in [1..Cardinality(S) -> S]
      /\ \A j, k \in 1..Cardinality(S) : j # k => q[j] # q[k]
  BY <1>1, <1>3 DEF Bulk!SetToSeqs
<1>5. q \in Seq(S) /\ Len(q) = Cardinality(S)
  BY <1>2, <1>4
<1>6. PICK m \in 0..Len(q) : all = SubSeq(q, 1, m)
  BY <1>1, <1>2, <1>5, BulkConstants
<1>7. Len(all) = m /\ all \in Seq(S) /\ DOMAIN all = 1..m /\ \A k \in 1..m : all[k] = q[k]
  BY <1>2, <1>5, <1>6
<1>8. all \in Seq(Bulk!Row)
  <2>1. S \subseteq Bulk!Row
    BY <1>2
  <2> QED
    BY <2>1, <1>7
<1>9. \A k \in DOMAIN all : all[k] \in S
  BY <1>7
<1>10. \A k \in DOMAIN all : all[k] <= delivered /\ all[k] \notin acked
  <2>1. \A r \in S : r <= delivered /\ r \notin acked
    BY <1>2
  <2> QED
    BY <1>9, <2>1
<1>11. \A j, k \in DOMAIN all : j # k => all[j] # all[k]
  BY <1>2, <1>4, <1>5, <1>7
<1> QED
  BY <1>8, <1>10, <1>11

LEMMA ClaimKeeps ==
  ASSUME BulkInv, NEW w \in Worker, Bulk!Claim(w)
  PROVE  BulkInv'
<1>1. /\ todo[w] = <<>> /\ step' = step /\ acked' = acked /\ delivered' = delivered
      /\ upload' = upload /\ progress' = progress /\ links' = links
  BY DEF Bulk!Claim, Bulk!hash, Bulk!group
<1>2. BulkTypes /\ LinksHold
  BY DEF BulkInv
<1>3. PICK all \in Bulk!Claims :
        /\ todo' = [todo EXCEPT ![w] = all]
        /\ again' = [r \in Bulk!Row |-> IF r \in Bulk!ToSet(all) /\ Bulk!InHand(r) # {} THEN again[r] + 1 ELSE again[r]]
  BY DEF Bulk!Claim
<1>4. /\ all \in Seq(Bulk!Row) /\ \A j, k \in DOMAIN all : j # k => all[j] # all[k]
      /\ \A k \in DOMAIN all : all[k] <= delivered /\ all[k] \notin acked
  BY ClaimsOnce
<1>5. ASSUME NEW r \in Bulk!Row
      PROVE  again'[r] = IF (\E k \in DOMAIN all : all[k] = r) /\ \E v \in Worker : Holds(v, r)
                         THEN again[r] + 1 ELSE again[r]
  <2>1. r \in Bulk!ToSet(all) <=> \E k \in DOMAIN all : all[k] = r
    BY DEF Bulk!ToSet
  <2>2. \A v \in Worker : r \in Bulk!ToSet(todo[v]) <=> Holds(v, r)
    BY DEF Bulk!ToSet, Holds
  <2>3. Bulk!InHand(r) # {} <=> \E v \in Worker : Holds(v, r)
    BY <2>2 DEF Bulk!InHand
  <2> QED
    BY <1>3, <2>1, <2>3
<1>6. /\ todo' \in [Worker -> Seq(Bulk!Row)] /\ step' \in [Worker -> Bulk!Step] /\ HandsHold'
      /\ \A r \in Bulk!Row :
           /\ Owed(r) \in Nat /\ Owed(r)' \in Nat /\ Owed(r)' <= Owed(r) + 1
           /\ ~((\E k \in DOMAIN all : all[k] = r) /\ \E v \in Worker : Holds(v, r)) => Owed(r)' <= Owed(r)
      /\ Told \subseteq Told'
      /\ Once /\ (\A r \in Bulk!Row : ~((\E k \in DOMAIN all : all[k] = r) /\ \E v \in Worker : Holds(v, r)))
           => HandsApart'
  <2>1. delivered' \in Nat /\ delivered <= delivered'
    BY <1>1, <1>2 DEF BulkTypes
  <2>2. \A k \in DOMAIN all : all[k] <= delivered' /\ all[k] \notin acked
    BY <1>1, <1>4
  <2> QED
    BY <1>1, <1>3, <1>4, <2>1, <2>2, HandFills
<1>7. BulkTypes' /\ \A r \in Bulk!Row : again[r] <= again'[r]
  <2>1. again \in [Bulk!Row -> Nat]
    BY <1>2 DEF BulkTypes
  <2>2. again' \in [Bulk!Row -> Nat]
    BY <2>1, <1>3
  <2>3. \A r \in Bulk!Row : again[r] <= again'[r]
    BY <2>1, <1>5
  <2> QED
    BY <2>2, <2>3, <1>1, <1>2, <1>6 DEF BulkTypes
<1>8. LinksHold'
  <2> SUFFICES ASSUME NEW r \in Bulk!Row PROVE links[r] + Owed(r)' <= 1 + again'[r]
    BY <1>1 DEF LinksHold
  <2>1. links[r] \in Nat /\ again[r] \in Nat /\ links[r] + Owed(r) <= 1 + again[r]
    BY <1>2 DEF BulkTypes, LinksHold
  <2>2. CASE (\E k \in DOMAIN all : all[k] = r) /\ \E v \in Worker : Holds(v, r)
    <3>1. again'[r] = again[r] + 1
      BY <2>2, <1>5
    <3>2. Owed(r) \in Nat /\ Owed(r)' \in Nat /\ Owed(r)' <= Owed(r) + 1
      BY <1>6
    <3> QED
      BY <2>1, <3>1, <3>2
  <2>3. CASE ~((\E k \in DOMAIN all : all[k] = r) /\ \E v \in Worker : Holds(v, r))
    <3>1. again'[r] = again[r]
      BY <2>3, <1>5
    <3>2. Owed(r) \in Nat /\ Owed(r)' \in Nat /\ Owed(r)' <= Owed(r)
      BY <2>3, <1>6
    <3> QED
      BY <2>1, <3>1, <3>2
  <2> QED
    BY <2>2, <2>3
<1>9. Once' => HandsApart' /\ Told \subseteq Told'
  <2> SUFFICES ASSUME Once' PROVE HandsApart'
    BY <1>6
  <2>1. ASSUME NEW r \in Bulk!Row
        PROVE  again[r] = 0 /\ ~((\E k \in DOMAIN all : all[k] = r) /\ \E v \in Worker : Holds(v, r))
    <3>1. again'[r] = 0 /\ again[r] \in Nat
      BY <1>2 DEF Once, BulkTypes
    <3> QED
      BY <3>1, <1>5
  <2> QED
    BY <2>1, <1>6 DEF Once
<1>10. CountHolds'
  BY <1>1, <1>7, <1>9, CountKeeps
<1> QED
  BY <1>6, <1>7, <1>8, <1>10 DEF BulkInv

LEMMA ReadKeeps ==
  ASSUME BulkInv, NEW w \in Worker, Bulk!Read(w)
  PROVE  BulkInv'
<1>1. /\ todo[w] = <<>> /\ step' = step /\ acked' = acked /\ again' = again
      /\ upload' = upload /\ progress' = progress /\ links' = links
  BY DEF Bulk!Read, Bulk!hash
<1>2. BulkTypes /\ HandsHold /\ LinksHold
  BY DEF BulkInv
<1>3. /\ upload \in -1..Total /\ delivered \in Nat /\ delivered <= (IF upload < 0 THEN 0 ELSE upload)
      /\ acked \subseteq 1..delivered
  BY <1>2 DEF BulkTypes
<1>4. PICK n \in Nat :
        /\ todo' = [todo EXCEPT ![w] = [k \in 1..n |-> delivered + k]] /\ delivered' = delivered + n
        /\ delivered + n <= (IF upload < 0 THEN 0 ELSE upload)
  <2> DEFINE new == IF upload < 0 THEN 0 ELSE upload - delivered
             n == IF new < ImportBatch THEN new ELSE ImportBatch
  <2>1. todo' = [todo EXCEPT ![w] = [k \in 1..n |-> delivered + k]] /\ delivered' = delivered + n
    BY DEF Bulk!Read
  <2>2. n \in Nat /\ delivered + n <= (IF upload < 0 THEN 0 ELSE upload)
    BY <1>3, BulkConstants
  <2> QED
    BY <2>1, <2>2
<1>5. PICK q : q = [k \in 1..n |-> delivered + k]
  OBVIOUS
<1>6. delivered + n <= Total /\ n <= Total - delivered
  BY <1>3, <1>4, BulkConstants
<1>7. /\ q \in Seq(Bulk!Row) /\ DOMAIN q = 1..n
      /\ \A k \in 1..n : q[k] = delivered + k
  <2>1. \A k \in 1..n : delivered + k \in Bulk!Row
    BY <1>3, <1>6, BulkConstants
  <2>2. q \in [1..n -> Bulk!Row]
    BY <1>5, <2>1
  <2> QED
    BY <1>5, <2>2
<1>8. /\ \A j, k \in DOMAIN q : j # k => q[j] # q[k]
      /\ \A k \in DOMAIN q : q[k] > delivered /\ q[k] <= delivered' /\ q[k] \notin acked
  BY <1>3, <1>4, <1>7
<1>9. \A r \in Bulk!Row : ~((\E k \in DOMAIN q : q[k] = r) /\ \E v \in Worker : Holds(v, r))
  <2> SUFFICES ASSUME NEW k \in DOMAIN q, NEW v \in Worker, Holds(v, q[k]) PROVE FALSE
    OBVIOUS
  <2>1. PICK j \in DOMAIN todo[v] : todo[v][j] = q[k]
    BY DEF Holds
  <2>2. q[k] <= delivered
    BY <2>1, <1>2 DEF HandsHold
  <2> QED
    BY <2>2, <1>3, <1>7, <1>8
<1>10. /\ todo' \in [Worker -> Seq(Bulk!Row)] /\ step' \in [Worker -> Bulk!Step] /\ HandsHold'
       /\ \A r \in Bulk!Row : Owed(r) \in Nat /\ Owed(r)' \in Nat /\ Owed(r)' <= Owed(r)
       /\ Told \subseteq Told' /\ (Once => HandsApart')
  <2>1. /\ todo' = [todo EXCEPT ![w] = q] /\ delivered' \in Nat /\ delivered <= delivered'
        /\ \A k \in DOMAIN q : q[k] <= delivered' /\ q[k] \notin acked
    BY <1>3, <1>4, <1>5, <1>8
  <2>2. /\ todo' \in [Worker -> Seq(Bulk!Row)] /\ step' \in [Worker -> Bulk!Step] /\ HandsHold'
        /\ \A r \in Bulk!Row :
             /\ Owed(r) \in Nat /\ Owed(r)' \in Nat /\ Owed(r)' <= Owed(r) + 1
             /\ ~((\E k \in DOMAIN q : q[k] = r) /\ \E v \in Worker : Holds(v, r)) => Owed(r)' <= Owed(r)
        /\ Told \subseteq Told'
        /\ Once /\ (\A r \in Bulk!Row : ~((\E k \in DOMAIN q : q[k] = r) /\ \E v \in Worker : Holds(v, r)))
             => HandsApart'
    BY <1>1, <1>7, <1>8, <2>1, HandFills
  <2>3. \A r \in Bulk!Row : Owed(r) \in Nat /\ Owed(r)' \in Nat /\ Owed(r)' <= Owed(r)
    BY <2>2, <1>9
  <2> QED
    BY <2>2, <2>3, <1>9
<1>11. BulkTypes'
  <2>1. /\ delivered' \in Nat /\ delivered' <= (IF upload' < 0 THEN 0 ELSE upload')
        /\ acked' \subseteq 1..delivered'
    BY <1>1, <1>3, <1>4
  <2> QED
    BY <2>1, <1>1, <1>2, <1>10 DEF BulkTypes
<1>12. LinksHold'
  BY <1>1, <1>10, LinksKeep
<1>13. CountHolds'
  <2>1. \A r \in Bulk!Row : again[r] <= again'[r]
    BY <1>1, <1>2 DEF BulkTypes
  <2>2. Once' => Once
    BY <1>1 DEF Once
  <2> QED
    BY <2>1, <2>2, <1>1, <1>10, <1>11, CountKeeps
<1> QED
  BY <1>10, <1>11, <1>12, <1>13 DEF BulkInv

\* The upload, and what leaves the workers alone.
LEMMA UploadKeeps ==
  ASSUME BulkInv, UNCHANGED <<delivered, acked, todo, step, links, again>>,
         upload' \in -1..Total, upload <= upload',
         progress' = progress \/ progress' = [total |-> Total, done |-> 0, finished |-> FALSE]
  PROVE  BulkInv'
<1>1. BulkTypes /\ HandsHold /\ LinksHold /\ CountHolds
  BY DEF BulkInv
<1>2. BulkTypes'
  <2>1. progress' \in [total : {0, Total}, done : Nat, finished : BOOLEAN]
    <3>1. progress \in [total : {0, Total}, done : Nat, finished : BOOLEAN]
      BY <1>1 DEF BulkTypes
    <3>2. [total |-> Total, done |-> 0, finished |-> FALSE] \in [total : {0, Total}, done : Nat, finished : BOOLEAN]
      OBVIOUS
    <3> QED
      BY <3>1, <3>2
  <2>2. delivered' <= (IF upload' < 0 THEN 0 ELSE upload')
    BY <1>1, BulkConstants DEF BulkTypes
  <2> QED
    BY <1>1, <2>1, <2>2 DEF BulkTypes
<1>3. HandsHold'
  BY <1>1 DEF HandsHold
<1>4. LinksHold'
  <2>1. \A r : Owed(r)' = Owed(r)
    BY DEF Owed, Holds, Tries
  <2> QED
    BY <1>1, <2>1 DEF LinksHold
<1>5. CountHolds'
  <2>1. (HandsApart' <=> HandsApart) /\ Told' = Told /\ (Once' <=> Once)
    BY DEF HandsApart, Holds, Told, Ticking, Once
  <2>2. Cardinality(Told) \in Nat
    BY <1>1, ToldRows
  <2>3. Once => HandsApart /\ progress.done <= Cardinality(Told) /\ (progress.finished => Told = Bulk!Row)
    BY <1>1 DEF CountHolds
  <2> QED
    BY <2>1, <2>2, <2>3 DEF CountHolds
<1> QED
  BY <1>2, <1>3, <1>4, <1>5 DEF BulkInv

LEMMA BulkBegins == Bulk!Init => BulkInv
<1> SUFFICES ASSUME Bulk!Init PROVE BulkInv
  OBVIOUS
<1>1. /\ upload = -1 /\ progress = [total |-> 0, done |-> 0, finished |-> FALSE] /\ delivered = 0 /\ acked = {}
      /\ todo = [w \in Worker |-> <<>>] /\ step = [w \in Worker |-> "create"]
      /\ links = [r \in Bulk!Row |-> 0] /\ again = [r \in Bulk!Row |-> 0]
  BY DEF Bulk!Init, Bulk!NoProgress
<1>2. \A w \in Worker : todo[w] = <<>> /\ DOMAIN todo[w] = {}
  BY <1>1
<1>3. BulkTypes
  <2>1. <<>> \in Seq(Bulk!Row)
    OBVIOUS
  <2>2. todo \in [Worker -> Seq(Bulk!Row)]
    BY <1>1, <2>1
  <2>5. step \in [Worker -> Bulk!Step]
    BY <1>1, BulkConstants
  <2>3. links \in [Bulk!Row -> Nat] /\ again \in [Bulk!Row -> Nat]
    BY <1>1
  <2>4. -1 \in -1..Total
    BY BulkConstants
  <2> QED
    BY <1>1, <2>2, <2>3, <2>4, <2>5 DEF BulkTypes
<1>4. HandsHold
  BY <1>2 DEF HandsHold
<1>5. \A w \in Worker, r \in Bulk!Row : ~Holds(w, r) /\ ~Ticking(w, r)
  BY <1>2 DEF Holds, Ticking
<1>6. LinksHold
  BY <1>1, <1>5 DEF LinksHold, Owed
<1>7. CountHolds
  <2>1. Cardinality(Told) \in Nat
    BY <1>3, ToldRows
  <2>2. HandsApart
    BY <1>5 DEF HandsApart
  <2> QED
    BY <1>1, <2>1, <2>2 DEF CountHolds
<1> QED
  BY <1>3, <1>4, <1>6, <1>7 DEF BulkInv

LEMMA BulkStep == ASSUME BulkInv, Bulk!Next PROVE BulkInv'
<1>1. CASE Bulk!Seed
  <2>1. /\ UNCHANGED <<delivered, acked, todo, step, links, again>> /\ upload = -1 /\ upload' = 0
        /\ progress' = [total |-> Total, done |-> 0, finished |-> FALSE]
    BY <1>1 DEF Bulk!Seed, Bulk!NoProgress, Bulk!group, Bulk!worker
  <2>2. upload' \in -1..Total /\ upload <= upload'
    BY <2>1, BulkConstants
  <2> QED
    BY <2>1, <2>2, UploadKeeps
<1>2. CASE Bulk!AppendEntry
  <2>1. /\ UNCHANGED <<delivered, acked, todo, step, links, again>> /\ progress' = progress
        /\ upload \in 0..Total - 1 /\ upload' \in {upload, upload + 1}
    BY <1>2 DEF Bulk!AppendEntry, Bulk!hash, Bulk!group, Bulk!worker
  <2>2. upload' \in -1..Total /\ upload <= upload'
    BY <2>1, BulkConstants
  <2> QED
    BY <2>1, <2>2, UploadKeeps
<1>3. ASSUME NEW w \in Worker, Bulk!Work(w) \/ Bulk!Crash(w) PROVE BulkInv'
  BY <1>3, ClaimKeeps, ReadKeeps, CreateKeeps, TickKeeps, AckKeeps, BulkCrashKeeps DEF Bulk!Work
<1> QED
  BY <1>1, <1>2, <1>3 DEF Bulk!Next

\* A row gets a second link only if it ran again for a reason, and the page hears of the end
\* only when every row has been dealt with, unless one was counted twice for such a reason
\* (bulk-import.ts:54, 79, 132): for any file, batches, attempts and number of workers.
THEOREM ImportAccounts == LoopsSpec => []RowsAccounted
<1>1. BulkInv /\ [LoopsNext]_loops => BulkInv'
  <2> SUFFICES ASSUME BulkInv, [LoopsNext]_loops PROVE BulkInv'
    OBVIOUS
  <2>1. CASE UNCHANGED bulk
    <3>1. upload' \in -1..Total /\ upload <= upload'
      BY <2>1, BulkConstants DEF bulk, BulkInv, BulkTypes
    <3> QED
      BY <2>1, <3>1, UploadKeeps DEF bulk
  <2>2. CASE Bulk!Next
    BY <2>2, BulkStep
  <2> QED
    BY <2>1, <2>2 DEF LoopsNext, loops
<1>2. BulkInv => RowsAccounted
  <2> SUFFICES ASSUME BulkInv PROVE Bulk!LinksExplained /\ Bulk!FinishedMeansHandled
    BY DEF RowsAccounted, Bulk!RowsAccounted
  <2>1. BulkTypes /\ LinksHold /\ CountHolds
    BY DEF BulkInv
  <2>2. Bulk!LinksExplained
    <3> SUFFICES ASSUME NEW r \in Bulk!Row PROVE links[r] <= 1 + again[r]
      BY DEF Bulk!LinksExplained
    <3>1. Owed(r) \in Nat
      <4>1. {w \in Worker : Tries(w, r)} \in SUBSET Worker
        OBVIOUS
      <4> QED
        BY <4>1, BulkConstants, FS_Subset, FS_CardinalityType DEF Owed
    <3> QED
      BY <2>1, <3>1 DEF LinksHold, BulkTypes
  <2>3. Bulk!FinishedMeansHandled
    <3> SUFFICES ASSUME Bulk!Finished, Once, NEW r \in Bulk!Row
                 PROVE  r \in acked \/ \E w \in Bulk!InHand(r) : r = Head(todo[w]) /\ step[w] # "create"
      BY DEF Bulk!FinishedMeansHandled, Once
    <3>1. Told \subseteq Bulk!Row /\ Cardinality(Told) \in Nat
      BY <2>1, ToldRows
    <3>2. progress.done <= Cardinality(Told) /\ (progress.finished => Told = Bulk!Row)
      BY <2>1 DEF CountHolds
    <3>3. Told = Bulk!Row
      <4>1. CASE progress.finished
        BY <4>1, <3>2
      <4>2. CASE progress.total > 0 /\ progress.done >= progress.total
        <5>1. progress.total \in {0, Total} /\ progress.done \in Nat
          BY <2>1 DEF BulkTypes
        <5>2. Total <= Cardinality(Told)
          BY <4>2, <5>1, <3>1, <3>2, BulkConstants
        <5>3. Cardinality(Told) <= Total /\ (Total = Cardinality(Told) => Bulk!Row = Told)
          <6>1. Told \in SUBSET Bulk!Row
            BY <3>1
          <6> QED
            BY <6>1, BulkConstants, FS_Subset
        <5> QED
          BY <5>2, <5>3, <3>1, BulkConstants
      <4> QED
        BY <4>1, <4>2 DEF Bulk!Finished, Bulk!Accounted
    <3>4. ASSUME NEW w \in Worker, Ticking(w, r) PROVE w \in Bulk!InHand(r) /\ r = Head(todo[w]) /\ step[w] # "create"
      <4>1. PICK p \in Seq(Bulk!Row) : p = todo[w]
        BY <2>1 DEF BulkTypes
      <4>2. p # <<>> /\ Head(p) = r /\ step[w] = "ack"
        BY <3>4, <4>1 DEF Ticking
      <4>3. 1 \in DOMAIN p /\ p[1] = r
        BY <4>2
      <4>4. r \in Bulk!ToSet(todo[w])
        BY <4>1, <4>3 DEF Bulk!ToSet
      <4> QED
        BY <4>1, <4>2, <4>4 DEF Bulk!InHand
    <3> QED
      BY <3>3, <3>4 DEF Told
  <2> QED
    BY <2>2, <2>3
<1>3. LoopsInit => BulkInv
  BY BulkBegins DEF LoopsInit
<1> QED
  BY <1>1, <1>2, <1>3, PTL DEF LoopsSpec
=============================================================================
