--------------------------- MODULE AccountProofs ----------------------------
(***************************************************************************)
(* Proofs about Accounts, for any number of handlers, codes, sessions and  *)
(* operations: what a revocation leaves behind, and how often a code and   *)
(* an address can be tried.                                                *)
(***************************************************************************)
EXTENDS Accounts, FiniteSetTheorems, SequenceTheorems, TLAPS

Doing(t, S) == t # <<>> /\ Head(t) \in S

\* What comes after what in a handler's statements, and what is never the last.
Follow ==
  {<<"consume", "find">>, <<"revoke", "deny">>, <<"revokeAll", "deny">>, <<"deny", "uncache">>,
   <<"deleted", "revokeAll">>, <<"suspended", "revokeAll">>, <<"active", "uncache">>,
   <<"user", "uncache">>, <<"admin", "uncache">>, <<"uncache", "revokeAll">>}
Flows(t) ==
  /\ t \in Seq(Todo)
  /\ \A i \in 1..(Len(t) - 1) : <<t[i], t[i + 1]>> \in Follow
  /\ t # <<>> => t[Len(t)] \notin {"revoke", "revokeAll", "consume"}

\* A submission on its way to a wrong answer, with a code in hand, with the right one.
Entering == {"select", "attempt", "wrong"}
Holding == {"attempt", "burn", "consume", "find", "create", "open"}
Passed == {"find", "create", "open"}

Submitted == {p \in Proc : Doing(job[p].todo, Entering)}
Holders(c) == {p \in Proc : job[p].code = c}

WorldTypes ==
  /\ tries \in [Code -> Nat \cup {Closed}] /\ sent \in 0..MaxCode
  /\ lock \in Nat /\ lockTtl \in BOOLEAN
  /\ users \in [User -> UserRow \cup {NoRow, Purged}] /\ cached \in [User -> UserRow \cup {NoRow}]
  /\ owner \in [Session -> User \cup {0}]
  /\ row \in [Session -> {"none", "live", "revoked", "purged"}]
  /\ \A s \in Session : owner[s] = 0 <=> row[s] = "none"
  /\ denied \subseteq Session
  /\ submits \in 0..MaxSubmit /\ ops \in 0..MaxOp /\ fails \in 0..MaxFail
  /\ opened \in [Code -> Nat] /\ shared \subseteq Code /\ lost \subseteq Session

\* A handler that has sessions to deny is at it.
JobsHold ==
  \A p \in Proc :
    /\ Flows(job[p].todo)
    /\ job[p].sids # {} => Doing(job[p].todo, {"deny"})
    /\ Doing(job[p].todo, {"revoke"}) => job[p].sid # 0
    /\ Doing(job[p].todo, Holding) => job[p].code \in 1..sent
    /\ Doing(job[p].todo, Passed) => tries[job[p].code] = Closed

\* A code that has opened a session is closed, and stays so.
CodesHold ==
  \A c \in Code : /\ c > sent => tries[c] = Closed
                  /\ opened[c] > 0 => tries[c] = Closed /\ c <= sent

\* Whoever holds a code may open one session more.
OpenedBounded ==
  \A c \in Code : opened[c] + Cardinality(Holders(c)) <= IF c \in shared THEN Cardinality(Proc) ELSE 1

\* Whoever was let in may count one wrong answer more.
LockHolds == lock + Cardinality(Submitted) <= LockThreshold + Cardinality(Proc) - 1

AccountInv ==
  /\ WorldTypes /\ job \in [Proc -> Job] /\ JobsHold /\ CodesHold
  /\ OpenedBounded /\ LockHolds /\ RevokedIsRefused

-----------------------------------------------------------------------------
(* Sequences of statements, and sets of handlers. *)

LEMMA TailFlows ==
  ASSUME NEW t, Flows(t), t # <<>>
  PROVE  /\ Flows(Tail(t)) /\ Head(t) \in Todo
         /\ Tail(t) # <<>> => <<Head(t), Head(Tail(t))>> \in Follow
         /\ Head(t) \in {"revoke", "revokeAll", "consume"} => Tail(t) # <<>>
<1> DEFINE r == Tail(t)
<1>1. t \in Seq(Todo) /\ Len(t) \in Nat /\ Len(t) > 0 /\ Head(t) = t[1] /\ Head(t) \in Todo
  BY DEF Flows
<1>2. r \in Seq(Todo) /\ Len(r) = Len(t) - 1 /\ \A i \in 1..Len(r) : r[i] = t[i + 1]
  BY <1>1
<1>3. r # <<>> => Len(r) > 0 /\ Head(r) = r[1]
  BY <1>2
<1>4. r = <<>> => Len(t) = 1
  <2> HIDE DEF r
  <2>1. r = <<>> => Len(r) = 0
    OBVIOUS
  <2> QED
    BY <1>1, <1>2, <2>1
<1> HIDE DEF r
<1>5. Flows(r)
  <2>1. ASSUME NEW i \in 1..(Len(r) - 1) PROVE <<r[i], r[i + 1]>> \in Follow
    <3>1. r[i] = t[i + 1] /\ r[i + 1] = t[(i + 1) + 1] /\ i + 1 \in 1..(Len(t) - 1)
      BY <1>1, <1>2
    <3> QED
      BY <3>1 DEF Flows
  <2>2. r # <<>> => r[Len(r)] = t[Len(t)]
    BY <1>1, <1>2, <1>3
  <2> QED
    BY <1>1, <1>2, <2>1, <2>2 DEF Flows
<1>6. r # <<>> => <<Head(t), Head(r)>> \in Follow
  <2>1. SUFFICES ASSUME r # <<>> PROVE <<t[1], r[1]>> \in Follow
    BY <1>1, <1>3
  <2>2. r[1] = t[1 + 1] /\ 1 \in 1..(Len(t) - 1)
    BY <1>1, <1>2, <1>3, <2>1
  <2> QED
    BY <2>2 DEF Flows
<1>7. Head(t) \in {"revoke", "revokeAll", "consume"} => r # <<>>
  BY <1>1, <1>4 DEF Flows
<1> QED
  BY <1>1, <1>5, <1>6, <1>7 DEF r

\* The plans of the operations, and of a submission.
LEMMA PlansFlow ==
  /\ Flows(<<>>) /\ \A x \in Todo \ {"revoke", "revokeAll", "consume"} : Flows(<<x>>)
  /\ Flows(<<"consume", "find">>) /\ Flows(<<"revoke", "deny">>)
  /\ \A x \in {"deleted", "suspended"} : Flows(<<x, "revokeAll", "deny", "uncache">>)
  /\ Flows(<<"active", "uncache">>)
  /\ \A r \in Role : Flows(<<r, "uncache", "revokeAll", "deny">>)
<1> USE DEF Todo, Status, Role
<1>1. Flows(<<>>)
  BY DEF Flows
<1>2. ASSUME NEW x \in Todo \ {"revoke", "revokeAll", "consume"} PROVE Flows(<<x>>)
  BY DEF Flows
<1>3. Flows(<<"consume", "find">>) /\ Flows(<<"revoke", "deny">>) /\ Flows(<<"active", "uncache">>)
  BY DEF Flows, Follow
<1>4. ASSUME NEW x \in {"deleted", "suspended"} PROVE Flows(<<x, "revokeAll", "deny", "uncache">>)
  BY DEF Flows, Follow
<1>5. ASSUME NEW r \in Role PROVE Flows(<<r, "uncache", "revokeAll", "deny">>)
  BY DEF Flows, Follow
<1> QED
  BY <1>1, <1>2, <1>3, <1>4, <1>5

LEMMA OneStatement == \A x : <<x>> # <<>> /\ Head(<<x>>) = x
OBVIOUS

LEMMA ProcCount ==
  ASSUME NEW S \in SUBSET Proc
  PROVE  /\ IsFiniteSet(S) /\ Cardinality(S) \in Nat /\ Cardinality(Proc) \in Nat
         /\ Cardinality(S) <= Cardinality(Proc)
         /\ \A T \in SUBSET S : Cardinality(T) \in Nat /\ Cardinality(T) <= Cardinality(S)
         /\ \A p \in S : Cardinality(S \ {p}) = Cardinality(S) - 1
<1>1. IsFiniteSet(Proc)
  BY AccountsAssumption
<1>2. IsFiniteSet(S) /\ Cardinality(S) <= Cardinality(Proc)
  BY <1>1, FS_Subset
<1>3. Cardinality(S) \in Nat /\ Cardinality(Proc) \in Nat
  BY <1>1, <1>2, FS_CardinalityType
<1>4. ASSUME NEW T \in SUBSET S PROVE Cardinality(T) \in Nat /\ Cardinality(T) <= Cardinality(S)
  <2>1. IsFiniteSet(T) /\ Cardinality(T) <= Cardinality(S)
    BY <1>2, FS_Subset
  <2> QED
    BY <2>1, FS_CardinalityType
<1>5. ASSUME NEW p \in S PROVE Cardinality(S \ {p}) = Cardinality(S) - 1
  BY <1>2, FS_RemoveElement
<1> QED
  BY <1>2, <1>3, <1>4, <1>5
-----------------------------------------------------------------------------
(* What a step of a handler may do. *)

\* The job of p becomes w; a revocation it carried is recorded, a code it carries was
\* sent, and a code that is closed stays so.
Moves(p, w) ==
  /\ job' = [job EXCEPT ![p] = w] /\ w \in Job /\ Flows(w.todo) /\ WorldTypes'
  /\ w.sids # {} => Doing(w.todo, {"deny"})
  /\ Doing(w.todo, {"revoke"}) => w.sid # 0
  /\ Doing(w.todo, Holding) => w.code \in 1..sent
  /\ Doing(w.todo, Passed) => tries'[w.code] = Closed
  /\ job[p].sids \subseteq w.sids \cup denied' \cup lost'
  /\ denied \subseteq denied' /\ lost \subseteq lost' /\ sent' = sent
  /\ \A s \in Session : row'[s] = "revoked" => row[s] = "revoked" \/ s \in w.sids
  /\ \A c \in Code : tries[c] = Closed => tries'[c] = Closed
  /\ \A c \in Code : opened'[c] # opened[c] => tries[c] = Closed /\ c <= sent

LEMMA MovesKeep ==
  ASSUME AccountInv, NEW p \in Proc, NEW w, Moves(p, w), OpenedBounded', LockHolds'
  PROVE  AccountInv'
<1> USE DEF Moves
<1>1. /\ job \in [Proc -> Job] /\ job' \in [Proc -> Job] /\ job'[p] = w
      /\ \A q \in Proc : q # p => job'[q] = job[q]
      /\ WorldTypes
  BY DEF AccountInv
<1>2. JobsHold'
  <2>1. Code = 1..MaxCode /\ sent \in 0..MaxCode /\ MaxCode \in Nat
    BY <1>1, AccountsAssumption DEF Code, WorldTypes
  <2>2. ASSUME NEW q \in Proc
        PROVE  /\ Flows(job'[q].todo)
               /\ job'[q].sids # {} => Doing(job'[q].todo, {"deny"})
               /\ Doing(job'[q].todo, {"revoke"}) => job'[q].sid # 0
               /\ Doing(job'[q].todo, Holding) => job'[q].code \in 1..sent'
               /\ Doing(job'[q].todo, Passed) => tries'[job'[q].code] = Closed
    <3>1. CASE q = p
      BY <1>1, <3>1
    <3>2. CASE q # p
      <4>1. /\ Flows(job[q].todo)
            /\ job[q].sids # {} => Doing(job[q].todo, {"deny"})
            /\ Doing(job[q].todo, {"revoke"}) => job[q].sid # 0
            /\ Doing(job[q].todo, Holding) => job[q].code \in 1..sent
            /\ Doing(job[q].todo, Passed) => tries[job[q].code] = Closed
        BY DEF AccountInv, JobsHold
      <4>2. Doing(job[q].todo, Passed) => job[q].code \in Code
        BY <2>1, <4>1 DEF Doing, Passed, Holding
      <4> QED
        BY <1>1, <3>2, <4>1, <4>2
    <3> QED
      BY <3>1, <3>2
  <2> QED
    BY <2>2 DEF JobsHold, Doing, Flows
<1>3. CodesHold'
  BY <1>1 DEF AccountInv, CodesHold, WorldTypes
<1>4. RevokedIsRefused'
  <2> SUFFICES ASSUME NEW s \in Session, row'[s] = "revoked"
               PROVE  s \in denied' \cup lost' \/ \E q \in Proc : s \in job'[q].sids
    BY DEF RevokedIsRefused
  <2>1. CASE s \in w.sids
    BY <1>1, <2>1
  <2>2. CASE row[s] = "revoked"
    <3>1. s \in denied \cup lost \/ \E q \in Proc : s \in job[q].sids
      BY <2>2 DEF AccountInv, RevokedIsRefused
    <3> QED
      BY <1>1, <3>1
  <2> QED
    BY <2>1, <2>2
<1> QED
  BY <1>1, <1>2, <1>3, <1>4 DEF AccountInv

\* A step that takes no code in hand and opens no session keeps the bound of codes,
LEMMA OpenedKept ==
  ASSUME AccountInv, NEW p \in Proc, NEW w, job' = [job EXCEPT ![p] = w],
         w.code \in {0, job[p].code}, UNCHANGED <<opened, shared>>
  PROVE  OpenedBounded'
<1> SUFFICES ASSUME NEW c \in Code
             PROVE  opened[c] + Cardinality(Holders(c)') <= IF c \in shared THEN Cardinality(Proc) ELSE 1
  BY DEF OpenedBounded
<1>1. c # 0
  BY AccountsAssumption DEF Code
<1>2. Holders(c)' \subseteq Holders(c)
  BY <1>1 DEF AccountInv, Holders
<1>3. /\ Cardinality(Holders(c)) \in Nat /\ Cardinality(Holders(c)') \in Nat /\ Cardinality(Proc) \in Nat
      /\ Cardinality(Holders(c)') <= Cardinality(Holders(c))
  <2>1. Holders(c) \in SUBSET Proc /\ Holders(c)' \in SUBSET Holders(c)
    BY <1>2 DEF Holders
  <2> QED
    BY <2>1, ProcCount
<1>4. opened[c] \in Nat /\ opened[c] + Cardinality(Holders(c)) <= IF c \in shared THEN Cardinality(Proc) ELSE 1
  BY DEF AccountInv, WorldTypes, OpenedBounded
<1> QED
  BY <1>3, <1>4

\* and one that lets nobody in and counts no wrong answer the bound of the lock.
LEMMA LockKept ==
  ASSUME AccountInv, NEW p \in Proc, NEW w, job' = [job EXCEPT ![p] = w],
         Doing(w.todo, Entering) => Doing(job[p].todo, Entering),
         lock' \in {0, lock}
  PROVE  LockHolds'
<1>1. Submitted' \subseteq Submitted
  BY DEF AccountInv, Submitted
<1>2. /\ Cardinality(Submitted) \in Nat /\ Cardinality(Submitted') \in Nat
      /\ Cardinality(Submitted') <= Cardinality(Submitted) /\ Cardinality(Proc) \in Nat
  <2>1. Submitted \in SUBSET Proc /\ Submitted' \in SUBSET Submitted
    BY <1>1 DEF Submitted
  <2> QED
    BY <2>1, ProcCount
<1>3. lock \in Nat /\ lock' \in Nat /\ lock' <= lock /\ LockThreshold \in Nat
  BY AccountsAssumption DEF AccountInv, WorldTypes
<1> QED
  BY <1>2, <1>3 DEF AccountInv, LockHolds

LEMMA IdleJob ==
  /\ Idle \in Job /\ Idle.todo = <<>> /\ Idle.code = 0 /\ Idle.user = 0 /\ Idle.sid = 0
  /\ Idle.sids = {} /\ Idle.seen = 0 /\ Idle.entry = NoRow /\ Flows(Idle.todo)
  /\ \A S : ~Doing(Idle.todo, S)
<1>1. /\ Idle.todo = <<>> /\ Idle.code = 0 /\ Idle.user = 0 /\ Idle.sid = 0
      /\ Idle.sids = {} /\ Idle.seen = 0 /\ Idle.entry = NoRow
  BY DEF Idle
<1>2. Idle \in Job
  BY DEF Idle, Job
<1> QED
  BY <1>1, <1>2, PlansFlow DEF Doing

LEMMA JobFacts ==
  ASSUME AccountInv, NEW p \in Proc
  PROVE  /\ job[p] \in Job /\ Flows(job[p].todo)
         /\ job[p].sids # {} => Doing(job[p].todo, {"deny"})
         /\ Doing(job[p].todo, {"revoke"}) => job[p].sid # 0
         /\ Doing(job[p].todo, Holding) => job[p].code \in 1..sent
         /\ Doing(job[p].todo, Passed) => tries[job[p].code] = Closed
         /\ WorldTypes /\ CodesHold
         /\ Code = 1..MaxCode /\ MaxCode \in Nat /\ sent \in 0..MaxCode
         /\ \A t \in Seq(Todo) :
              LET w == [job[p] EXCEPT !.todo = t]
              IN  /\ w \in Job /\ w.todo = t /\ w.code = job[p].code /\ w.sids = job[p].sids
                  /\ w.sid = job[p].sid /\ w.user = job[p].user /\ w.seen = job[p].seen
<1>1. job[p] \in Job /\ WorldTypes /\ CodesHold
  BY DEF AccountInv
<1>2. ASSUME NEW t \in Seq(Todo)
      PROVE  LET w == [job[p] EXCEPT !.todo = t]
             IN  /\ w \in Job /\ w.todo = t /\ w.code = job[p].code /\ w.sids = job[p].sids
                 /\ w.sid = job[p].sid /\ w.user = job[p].user /\ w.seen = job[p].seen
  BY <1>1 DEF Job
<1> QED
  BY <1>1, <1>2, AccountsAssumption DEF AccountInv, JobsHold, WorldTypes, Code
\* On to the next statement, or done.
LEMMA Proceeding ==
  ASSUME AccountInv, NEW p \in Proc, Proceed(p), job[p].todo # <<>>, ~Doing(job[p].todo, {"revoke", "revokeAll"})
  PROVE  \E w \in Job :
           /\ job' = [job EXCEPT ![p] = w] /\ Flows(w.todo)
           /\ w = Idle \/ /\ w.sids = job[p].sids /\ w.code = job[p].code
                          /\ w.todo # <<>> /\ <<Head(job[p].todo), Head(w.todo)>> \in Follow
<1>1. CASE Tail(job[p].todo) = <<>>
  BY <1>1, IdleJob DEF Proceed, Done
<1>2. CASE Tail(job[p].todo) # <<>>
  <2> DEFINE t == Tail(job[p].todo)
             w == [job[p] EXCEPT !.todo = t]
  <2>1. Flows(t) /\ <<Head(job[p].todo), Head(t)>> \in Follow /\ t # <<>>
    BY <1>2, JobFacts, TailFlows
  <2>2. job' = [job EXCEPT ![p] = w]
    BY <1>2 DEF Proceed, Goto
  <2> HIDE DEF t
  <2>3. w \in Job /\ w.todo = t /\ w.sids = job[p].sids /\ w.code = job[p].code
    BY <2>1, JobFacts DEF Flows
  <2> HIDE DEF w
  <2> QED
    BY <2>1, <2>2, <2>3
<1> QED
  BY <1>1, <1>2

\* The newest of some codes.
LEMMA NewestOf ==
  ASSUME NEW open \in SUBSET Code, open # {}
  PROVE  (CHOOSE d \in open : \A e \in open : e <= d) \in open
<1>1. \E d \in open : \A e \in open : e <= d
  <2>0. Code = 1..MaxCode /\ MaxCode \in Nat
    BY AccountsAssumption DEF Code
  <2> DEFINE T == {n \in Nat : MaxCode - n \in open}
  <2>1. T \subseteq Nat /\ T # {}
    <3>1. PICK e \in open : TRUE
      OBVIOUS
    <3>2. MaxCode - e \in Nat /\ MaxCode - (MaxCode - e) = e
      BY <2>0, <3>1
    <3> QED
      BY <3>1, <3>2
  <2> HIDE DEF T
  <2>2. PICK x \in T : \A y \in T : x <= y
    <3>1. \E R : /\ \A x, y \in Nat : y < x => <<y, x>> \in R
                 /\ \E x \in T : \A y \in T : ~ (<<y, x>> \in R)
      <4>1. \E x \in T : \A y \in T : ~ (<<y, x>> \in OpToRel(<, Nat))
        BY <2>1, WFMin, NatLessThanWellFounded
      <4>2. \A x, y \in Nat : y < x => <<y, x>> \in OpToRel(<, Nat)
        BY DEF OpToRel
      <4> QED
        BY <4>1, <4>2, Zenon
    <3>2. PICK R : /\ \A x, y \in Nat : y < x => <<y, x>> \in R
                   /\ \E x \in T : \A y \in T : ~ (<<y, x>> \in R)
      BY <3>1
    <3>3. PICK x \in T : \A y \in T : ~ (<<y, x>> \in R)
      BY <3>2
    <3>4. ASSUME NEW y \in T PROVE ~(y < x)
      BY <2>1, <3>2, <3>3, Zenon
    <3>5. \A y \in T : x <= y
      BY <2>1, <3>4
    <3> QED
      BY <3>5
  <2>3. x \in Nat /\ MaxCode - x \in open
    BY <2>2 DEF T
  <2>4. ASSUME NEW e \in open PROVE e <= MaxCode - x
    <3>1. e \in Nat /\ MaxCode - e \in Nat /\ MaxCode - (MaxCode - e) = e
      BY <2>0
    <3>2. MaxCode - e \in T
      BY <3>1 DEF T
    <3>3. x <= MaxCode - e
      BY <2>2, <3>2
    <3> QED
      BY <2>0, <2>3, <3>1, <3>3
  <2> QED
    BY <2>3, <2>4
<1> QED
  BY <1>1

-----------------------------------------------------------------------------
(* Signing in. *)

LEMMA SubmitKeeps ==
  ASSUME AccountInv, NEW p \in Proc, Submit(p)
  PROVE  AccountInv'
<1> DEFINE w == [job[p] EXCEPT !.todo = <<"select">>]
<1>0. /\ job[p] = Idle /\ lock < LockThreshold /\ job' = [job EXCEPT ![p] = w]
      /\ submits < MaxSubmit /\ submits' = submits + 1
      /\ UNCHANGED <<tries, sent, lock, lockTtl, users, cached, owner, row, denied, ops, fails, opened, shared, lost>>
  BY DEF Submit, Goto, signin, account, sessions, history
<1>1. /\ w \in Job /\ w.todo = <<"select">> /\ w.code = 0 /\ w.sids = {}
      /\ job[p].sids = {} /\ Flows(w.todo) /\ job[p].code = 0
  <2>1. Flows(<<"select">>)
    BY PlansFlow DEF Todo
  <2> QED
    BY <1>0, <2>1, JobFacts, IdleJob DEF Flows
<1> HIDE DEF w
<1>2. WorldTypes'
  <2>1. MaxSubmit \in Nat /\ WorldTypes
    BY AccountsAssumption, JobFacts
  <2> QED
    BY <1>0, <2>1 DEF WorldTypes
<1>3. Moves(p, w)
  BY <1>0, <1>1, <1>2, OneStatement DEF Moves, Doing, Holding, Passed
<1>4. OpenedBounded'
  BY <1>0, <1>1, OpenedKept
<1>5. LockHolds'
  <2>1. Submitted' \in SUBSET Proc
    BY DEF Submitted
  <2>2. Cardinality(Submitted') \in Nat /\ Cardinality(Submitted') <= Cardinality(Proc) /\ Cardinality(Proc) \in Nat
    BY <2>1, ProcCount
  <2>3. lock \in Nat /\ LockThreshold \in Nat
    BY JobFacts, AccountsAssumption DEF WorldTypes
  <2>4. lock + Cardinality(Submitted') <= LockThreshold + Cardinality(Proc) - 1
    BY <1>0, <2>2, <2>3
  <2> QED
    BY <1>0, <2>4 DEF LockHolds
<1> QED
  BY <1>3, <1>4, <1>5, MovesKeep

LEMMA SelectKeeps ==
  ASSUME AccountInv, NEW p \in Proc, SelectCode(p)
  PROVE  AccountInv'
<1> DEFINE open == {c \in Code : tries[c] # Closed}
           c == CHOOSE d \in open : \A e \in open : e <= d
           w == [job[p] EXCEPT !.todo = <<"attempt">>, !.code = c, !.seen = tries[c]]
<1>0. /\ Doing(job[p].todo, Entering) /\ ~Doing(job[p].todo, {"deny"}) /\ job[p].sids = {}
      /\ WorldTypes /\ CodesHold /\ job[p] \in Job
      /\ UNCHANGED <<tries, sent, lock, lockTtl, users, cached, owner, row, denied, submits, ops, fails, opened, lost>>
  <2>1. job[p].todo # <<>> /\ Head(job[p].todo) = "select"
    BY DEF SelectCode, At
  <2> QED
    BY <2>1, JobFacts DEF SelectCode, Doing, Entering, signin, account, sessions, counts
<1>1. CASE open = {}
  <2>1. job' = [job EXCEPT ![p] = Idle] /\ shared' = shared
    BY <1>1 DEF SelectCode, Done
  <2>2. WorldTypes'
    BY <1>0, <2>1 DEF WorldTypes
  <2>3. Moves(p, Idle)
    <3>1. job' = [job EXCEPT ![p] = Idle] /\ Idle \in Job /\ Flows(Idle.todo) /\ WorldTypes'
      BY <2>1, <2>2, IdleJob
    <3>2. Idle.sids = {} /\ job[p].sids \subseteq Idle.sids \cup denied' \cup lost'
      BY <1>0, IdleJob
    <3>3. /\ ~Doing(Idle.todo, {"revoke"}) /\ ~Doing(Idle.todo, Holding) /\ ~Doing(Idle.todo, Passed)
      BY IdleJob DEF Doing
    <3>4. /\ \A s \in Session : row'[s] = "revoked" => row[s] = "revoked" \/ s \in Idle.sids
          /\ \A c1 \in Code : tries[c1] = Closed => tries'[c1] = Closed
          /\ \A c1 \in Code : opened'[c1] # opened[c1] => tries[c1] = Closed /\ c1 <= sent
      BY <1>0
    <3>5. denied \subseteq denied' /\ lost \subseteq lost' /\ sent' = sent
      BY <1>0
    <3> QED
      BY <3>1, <3>2, <3>3, <3>4, <3>5 DEF Moves
  <2>4. OpenedBounded' /\ LockHolds'
    BY <1>0, <2>1, IdleJob, OpenedKept, LockKept
  <2> QED
    BY <2>3, <2>4, MovesKeep
<1>2. CASE open # {}
  <2>1. c \in open
    BY <1>2, NewestOf
  <2>2. /\ job' = [job EXCEPT ![p] = w]
        /\ shared' = shared \cup {d \in {c} : \E q \in Proc \ {p} : job[q].code = d}
    BY <1>2 DEF SelectCode
  <2> HIDE DEF c
  <2>3. c \in Code /\ tries[c] \in Nat /\ tries[c] # Closed /\ c # 0 /\ c \in 1..sent /\ opened[c] = 0
    <3>1. c \in Code /\ tries[c] # Closed
      BY <2>1
    <3>2. tries[c] \in Nat /\ opened[c] \in Nat
      BY <1>0, <3>1 DEF WorldTypes
    <3>3. c <= sent /\ ~(opened[c] > 0)
      <4>1. c \in Nat /\ sent \in Nat
        BY <3>1, JobFacts
      <4> QED
        BY <1>0, <3>1, <4>1 DEF CodesHold
    <3> QED
      BY <3>1, <3>2, <3>3, JobFacts
  <2> HIDE DEF open
  <2>4. Flows(<<"attempt">>)
    BY PlansFlow DEF Todo
  <2>5. /\ w \in Job /\ w.todo = <<"attempt">> /\ Flows(w.todo)
        /\ w.code = c /\ w.sids = {}
    BY <1>0, <2>3, <2>4 DEF Job, Flows
  <2> HIDE DEF w
  <2>6. WorldTypes'
    BY <1>0, <2>2, <2>3 DEF WorldTypes
  <2>7. Moves(p, w)
    BY <1>0, <2>2, <2>3, <2>5, <2>6, OneStatement DEF Moves, Doing, Passed
  <2>8. LockHolds'
    BY <1>0, <2>2, LockKept
  <2>9. OpenedBounded'
    <3> SUFFICES ASSUME NEW d \in Code
                 PROVE  opened[d] + Cardinality(Holders(d)') <= IF d \in shared' THEN Cardinality(Proc) ELSE 1
      BY <1>0 DEF OpenedBounded
    <3>0. /\ job'[p] = w /\ \A q \in Proc : q # p => job'[q] = job[q]
      BY <2>2 DEF AccountInv
    <3>1. CASE d # c
      <4>1. Holders(d)' \subseteq Holders(d)
        BY <2>5, <3>0, <3>1 DEF Holders
      <4>2. Holders(d) \in SUBSET Proc /\ Holders(d)' \in SUBSET Holders(d)
        BY <4>1 DEF Holders
      <4>3. /\ Cardinality(Holders(d)) \in Nat /\ Cardinality(Holders(d)') \in Nat /\ Cardinality(Proc) \in Nat
            /\ Cardinality(Holders(d)') <= Cardinality(Holders(d))
        BY <4>2, ProcCount
      <4>4. /\ opened[d] + Cardinality(Holders(d)) <= (IF d \in shared THEN Cardinality(Proc) ELSE 1)
            /\ opened[d] \in Nat
        BY <1>0 DEF AccountInv, OpenedBounded, WorldTypes
      <4>5. d \in shared' <=> d \in shared
        BY <2>2, <3>1
      <4> QED
        BY <4>3, <4>4, <4>5
    <3>2. CASE d = c
      <4>1. Holders(d)' \in SUBSET Proc
        BY DEF Holders
      <4>2. Cardinality(Holders(d)') <= Cardinality(Proc) /\ Cardinality(Holders(d)') \in Nat /\ Cardinality(Proc) \in Nat
        BY <4>1, ProcCount
      <4>3. d \notin shared' => Holders(d)' \subseteq {p}
        BY <2>2, <3>0, <3>2 DEF Holders
      <4>4. d \notin shared' => Cardinality(Holders(d)') <= 1
        <5>1. {p} \in SUBSET Proc /\ Cardinality({p}) = 1
          BY FS_Singleton
        <5> QED
          BY <4>3, <5>1, ProcCount
      <4> QED
        BY <2>3, <3>2, <4>2, <4>4
    <3> QED
      BY <3>1, <3>2
  <2> QED
    BY <2>7, <2>8, <2>9, MovesKeep
<1> QED
  BY <1>1, <1>2
\* A step that carries no revocation on, opens nothing and lets nobody in.
Steady(p) ==
  /\ WorldTypes' /\ UNCHANGED <<sent, opened, shared>> /\ lock' \in {0, lock}
  /\ denied \subseteq denied' /\ lost \subseteq lost' /\ job[p].sids \subseteq denied' \cup lost'
  /\ \A s \in Session : row'[s] = "revoked" => row[s] = "revoked"
  /\ \A c \in Code : tries[c] = Closed => tries'[c] = Closed

Becomes(p, w) ==
  /\ w \in Job /\ job' = [job EXCEPT ![p] = w] /\ Flows(w.todo) /\ w.sids = {}
  /\ ~Doing(w.todo, {"revoke"}) /\ w.code \in {0, job[p].code}
  /\ Doing(w.todo, Entering) => Doing(job[p].todo, Entering)
  /\ Doing(w.todo, Holding) => Doing(job[p].todo, Holding) /\ w.code = job[p].code
  /\ Doing(w.todo, Passed) => tries'[w.code] = Closed

LEMMA SteadyKeeps ==
  ASSUME AccountInv, NEW p \in Proc, NEW w, Becomes(p, w), Steady(p)
  PROVE  AccountInv'
<1>1. Moves(p, w)
  BY JobFacts DEF Becomes, Steady, Moves
<1>2. OpenedBounded'
  BY OpenedKept DEF Becomes, Steady
<1>3. LockHolds'
  BY LockKept DEF Becomes, Steady
<1> QED
  BY <1>1, <1>2, <1>3, MovesKeep

LEMMA DoneBecomes ==
  ASSUME NEW p, Done(p)
  PROVE  Becomes(p, Idle)
BY IdleJob DEF Becomes, Done, Doing

LEMMA FieldsBecome ==
  ASSUME AccountInv, NEW p \in Proc, NEW x \in Todo \ {"revoke", "revokeAll", "consume"}, NEW w \in Job,
         job' = [job EXCEPT ![p] = w], w.todo = <<x>>, w.code = job[p].code, w.sids = {},
         x \in Entering => Doing(job[p].todo, Entering),
         x \in Holding => Doing(job[p].todo, Holding),
         x \in Passed => tries'[job[p].code] = Closed
  PROVE  Becomes(p, w)
<1>1. Flows(<<x>>)
  BY PlansFlow
<1> QED
  BY <1>1, OneStatement DEF Becomes, Doing

LEMMA GotoBecomes ==
  ASSUME AccountInv, NEW p \in Proc, NEW x \in Todo \ {"revoke", "revokeAll", "consume"}, Goto(p, <<x>>),
         job[p].sids = {},
         x \in Entering => Doing(job[p].todo, Entering),
         x \in Holding => Doing(job[p].todo, Holding),
         x \in Passed => tries'[job[p].code] = Closed
  PROVE  \E w : Becomes(p, w)
<1> DEFINE w == [job[p] EXCEPT !.todo = <<x>>]
<1>1. Flows(<<x>>)
  BY PlansFlow
<1>2. w \in Job /\ w.todo = <<x>> /\ w.code = job[p].code /\ w.sids = {}
  BY <1>1, JobFacts DEF Flows
<1>3. job' = [job EXCEPT ![p] = w]
  BY DEF Goto
<1> HIDE DEF w
<1> QED
  BY <1>2, <1>3, FieldsBecome

\* At a statement other than the deny list's.
LEMMA AtFacts ==
  ASSUME AccountInv, NEW p \in Proc, NEW x, At(p, x)
  PROVE  /\ job[p].todo # <<>> /\ Head(job[p].todo) = x
         /\ \A S : Doing(job[p].todo, S) <=> x \in S
         /\ x # "deny" => job[p].sids = {}
<1>1. job[p].todo # <<>> /\ Head(job[p].todo) = x
  BY DEF At
<1>2. \A S : Doing(job[p].todo, S) <=> x \in S
  BY <1>1 DEF Doing
<1>3. x # "deny" => job[p].sids = {}
  BY <1>1, JobFacts DEF Doing
<1> QED
  BY <1>1, <1>2, <1>3

LEMMA AttemptKeeps ==
  ASSUME AccountInv, NEW p \in Proc, Attempt(p)
  PROVE  AccountInv'
<1> DEFINE n == job[p].seen + 1
<1>0. /\ job[p].sids = {} /\ Doing(job[p].todo, Entering) /\ Doing(job[p].todo, Holding)
      /\ tries' = [tries EXCEPT ![job[p].code] = IF @ = Closed THEN @ ELSE n]
      /\ UNCHANGED <<sent, lock, lockTtl, users, cached, owner, row, denied, submits, ops, fails, opened, shared, lost>>
  BY AtFacts DEF Attempt, Entering, Holding, account, sessions, counts, history
<1>1. /\ WorldTypes /\ job[p] \in Job /\ n \in Nat /\ job[p].code \in 1..sent /\ job[p].code \in Code
  <2>1. WorldTypes /\ job[p] \in Job /\ job[p].code \in 1..sent
    BY <1>0, JobFacts
  <2>2. n \in Nat
    BY <2>1 DEF Job
  <2>3. job[p].code \in Code
    BY <2>1, JobFacts
  <2> QED
    BY <2>1, <2>2, <2>3
<1> HIDE DEF n
<1>2. /\ tries' \in [Code -> Nat \cup {Closed}]
      /\ \A c \in Code : tries[c] = Closed => tries'[c] = Closed
  BY <1>0, <1>1 DEF WorldTypes
<1>3. WorldTypes'
  BY <1>0, <1>1, <1>2 DEF WorldTypes
<1>4. Steady(p)
  BY <1>0, <1>2, <1>3 DEF Steady
<1>5. ASSUME NEW x \in {"burn", "wrong"}, Goto(p, <<x>>) PROVE AccountInv'
  <2>1. PICK w : Becomes(p, w)
    BY <1>0, <1>5, GotoBecomes DEF Todo, Entering, Holding, Passed
  <2> QED
    BY <1>4, <2>1, SteadyKeeps
<1>6. CASE Goto(p, <<"consume", "find">>)
  <2> DEFINE t == <<"consume", "find">>
             w == [job[p] EXCEPT !.todo = t]
  <2>1. Flows(t) /\ t # <<>> /\ Head(t) = "consume"
    BY PlansFlow
  <2>2. job' = [job EXCEPT ![p] = w]
    BY <1>6 DEF Goto
  <2> HIDE DEF t
  <2>3. w \in Job /\ w.todo = t /\ w.code = job[p].code /\ w.sids = {}
    BY <1>0, <2>1, JobFacts DEF Flows
  <2> HIDE DEF w
  <2>4. Becomes(p, w)
    BY <1>0, <2>1, <2>2, <2>3 DEF Becomes, Doing, Passed, Holding, Entering
  <2> QED
    BY <1>4, <2>4, SteadyKeeps
<1> QED
  BY <1>5, <1>6 DEF Attempt

\* The last statements of a submission that fails.
LEMMA WrongKeeps ==
  ASSUME AccountInv, NEW p \in Proc, Wrong(p)
  PROVE  AccountInv'
<1>0. /\ job[p].sids = {} /\ Doing(job[p].todo, Entering) /\ lock' = lock + 1 /\ WorldTypes
      /\ UNCHANGED <<tries, sent, lockTtl, users, cached, owner, row, denied, submits, ops, fails, opened, shared, lost>>
  <2>1. At(p, "wrong")
    BY DEF Wrong
  <2>2. job[p].sids = {} /\ Doing(job[p].todo, Entering)
    BY <2>1, AtFacts DEF Entering
  <2> QED
    BY <2>2, JobFacts DEF Wrong, account, sessions, counts, history
<1>1. WorldTypes'
  BY <1>0 DEF WorldTypes
<1>2. PICK w : Becomes(p, w) /\ ~Doing(w.todo, Entering)
  <2>1. CASE Done(p)
    BY <2>1, DoneBecomes, IdleJob
  <2>2. CASE Goto(p, <<"ttl">>)
    <3>1. PICK w : Becomes(p, w)
      BY <1>0, <2>2, GotoBecomes DEF Todo, Entering, Holding, Passed
    <3>2. w = [job[p] EXCEPT !.todo = <<"ttl">>]
      BY <2>2, <3>1 DEF Becomes, Goto, AccountInv
    <3>3. w.todo = <<"ttl">>
      BY <3>2, JobFacts DEF Job
    <3>4. ~Doing(w.todo, Entering)
      BY <3>3, OneStatement DEF Doing, Entering
    <3> QED
      BY <3>1, <3>4
  <2> QED
    BY <2>1, <2>2 DEF Wrong
<1>3. Moves(p, w)
  BY <1>0, <1>1, <1>2, JobFacts DEF Becomes, Moves
<1>4. OpenedBounded'
  BY <1>0, <1>2, OpenedKept DEF Becomes
<1>5. LockHolds'
  <2>1. Submitted' = Submitted \ {p} /\ p \in Submitted
    BY <1>0, <1>2 DEF Submitted, Becomes, AccountInv
  <2>2. /\ Cardinality(Submitted') = Cardinality(Submitted) - 1
        /\ Cardinality(Submitted) \in Nat /\ Cardinality(Proc) \in Nat
    <3>1. Submitted \in SUBSET Proc
      BY DEF Submitted
    <3> QED
      BY <2>1, <3>1, ProcCount
  <2>3. lock \in Nat /\ LockThreshold \in Nat
    BY <1>0, AccountsAssumption DEF WorldTypes
  <2> QED
    BY <1>0, <2>2, <2>3 DEF AccountInv, LockHolds
<1> QED
  BY <1>3, <1>4, <1>5, MovesKeep

LEMMA RefusedKeeps ==
  ASSUME AccountInv, NEW p \in Proc, Burn(p) \/ SetTtl(p)
  PROVE  AccountInv'
<1>0. job[p].sids = {} /\ WorldTypes /\ Done(p)
  BY AtFacts, JobFacts DEF Burn, SetTtl
<1>1. /\ tries' \in [Code -> Nat \cup {Closed}] /\ lockTtl' \in BOOLEAN
      /\ \A c \in Code : tries[c] = Closed => tries'[c] = Closed
  <2>1. CASE Burn(p)
    BY <1>0, <2>1 DEF Burn, WorldTypes
  <2>2. CASE SetTtl(p)
    BY <1>0, <2>2 DEF SetTtl, WorldTypes
  <2> QED
    BY <2>1, <2>2
<1>2. UNCHANGED <<sent, lock, users, cached, owner, row, denied, submits, ops, fails, opened, shared, lost>>
  BY DEF Burn, SetTtl, account, sessions, counts, history
<1>3. WorldTypes'
  BY <1>0, <1>1, <1>2 DEF WorldTypes
<1>4. Steady(p)
  BY <1>0, <1>1, <1>2, <1>3 DEF Steady
<1> QED
  BY <1>0, <1>4, DoneBecomes, SteadyKeeps

LEMMA ConsumeKeeps ==
  ASSUME AccountInv, NEW p \in Proc, Consume(p)
  PROVE  AccountInv'
<1>0. /\ job[p].sids = {} /\ WorldTypes /\ job[p].code \in Code /\ Proceed(p)
      /\ job[p].todo # <<>> /\ Head(job[p].todo) = "consume" /\ Doing(job[p].todo, Holding)
      /\ tries' = [tries EXCEPT ![job[p].code] = Closed]
      /\ UNCHANGED <<sent, lock, lockTtl, users, cached, owner, row, denied, submits, ops, fails, opened, shared, lost>>
  BY AtFacts, JobFacts DEF Consume, Holding, account, sessions, counts, history
<1>1. /\ tries' \in [Code -> Nat \cup {Closed}] /\ tries'[job[p].code] = Closed
      /\ \A c \in Code : tries[c] = Closed => tries'[c] = Closed
  BY <1>0 DEF WorldTypes
<1>2. WorldTypes'
  BY <1>0, <1>1 DEF WorldTypes
<1>3. Steady(p)
  BY <1>0, <1>1, <1>2 DEF Steady
<1>4. PICK w \in Job : /\ job' = [job EXCEPT ![p] = w] /\ Flows(w.todo)
                       /\ w = Idle \/ /\ w.sids = job[p].sids /\ w.code = job[p].code
                                      /\ w.todo # <<>> /\ <<Head(job[p].todo), Head(w.todo)>> \in Follow
  <2>1. ~Doing(job[p].todo, {"revoke", "revokeAll"})
    BY <1>0 DEF Doing
  <2> QED
    BY <1>0, <2>1, Proceeding
<1>5. CASE w = Idle
  BY <1>3, <1>4, <1>5, DoneBecomes, SteadyKeeps DEF Done
<1>6. CASE w # Idle
  <2>1. Head(w.todo) = "find" /\ w.todo # <<>> /\ w.sids = {} /\ w.code = job[p].code
    BY <1>0, <1>4, <1>6 DEF Follow
  <2>2. Becomes(p, w)
    BY <1>0, <1>1, <1>4, <2>1 DEF Becomes, Doing, Entering
  <2> QED
    BY <1>3, <2>2, SteadyKeeps
<1> QED
  BY <1>5, <1>6
LEMMA AccountsAreUsers ==
  ASSUME WorldTypes
  PROVE  /\ Accounts \subseteq User
         /\ \A u \in Accounts : users[u] \in UserRow
         /\ \A u \in User : u # 0
<1>1. ASSUME NEW u \in Accounts PROVE u \in User /\ users[u] \in UserRow
  <2>1. u \in User /\ users[u] \in UserRow \cup {NoRow, Purged} /\ users[u].status \in Status
    BY DEF Accounts, WorldTypes
  <2>2. NoRow.status = "none" /\ Purged.status = "purged"
    BY DEF NoRow, Purged
  <2> QED
    BY <2>1, <2>2 DEF Status
<1> QED
  BY <1>1, AccountsAssumption DEF User

\* The right code: the lock is taken away, and the account found or created.
LEMMA AccountFoundKeeps ==
  ASSUME AccountInv, NEW p \in Proc, FindUser(p) \/ CreateUser(p)
  PROVE  AccountInv'
<1>0. /\ job[p].sids = {} /\ WorldTypes /\ job[p] \in Job /\ tries[job[p].code] = Closed
      /\ Doing(job[p].todo, Holding)
      /\ UNCHANGED <<tries, sent, cached, owner, row, denied, submits, ops, fails, opened, shared, lost>>
  <2>1. At(p, "find") \/ At(p, "create")
    BY DEF FindUser, CreateUser
  <2>2. job[p].sids = {} /\ Doing(job[p].todo, Holding) /\ Doing(job[p].todo, Passed)
    BY <2>1, AtFacts DEF Holding, Passed
  <2> QED
    BY <2>2, JobFacts DEF FindUser, CreateUser, account, sessions, counts, history, signin
<1>1. lock' \in {0, lock} /\ lockTtl' \in BOOLEAN /\ users' \in [User -> UserRow \cup {NoRow, Purged}]
  <2>1. CASE FindUser(p)
    BY <1>0, <2>1 DEF FindUser, WorldTypes, account
  <2>2. CASE CreateUser(p)
    <3>1. [status |-> "active", role |-> "user"] \in UserRow
      BY DEF UserRow, Status, Role
    <3> QED
      BY <1>0, <2>2, <3>1 DEF CreateUser, WorldTypes, signin
  <2> QED
    BY <2>1, <2>2
<1>2. WorldTypes'
  BY <1>0, <1>1 DEF WorldTypes
<1>3. Steady(p)
  BY <1>0, <1>1, <1>2 DEF Steady
<1>4. CASE Done(p)
  BY <1>3, <1>4, DoneBecomes, SteadyKeeps
<1>5. CASE Goto(p, <<"create">>)
  <2>1. PICK w : Becomes(p, w)
    BY <1>0, <1>5, GotoBecomes DEF Todo, Entering
  <2> QED
    BY <1>3, <2>1, SteadyKeeps
<1>6. ASSUME NEW u \in User, job' = [job EXCEPT ![p].todo = <<"open">>, ![p].user = u] PROVE AccountInv'
  <2> DEFINE w == [job[p] EXCEPT !.todo = <<"open">>, !.user = u]
  <2>1. Flows(<<"open">>)
    BY PlansFlow DEF Todo
  <2>2. w \in Job /\ w.todo = <<"open">> /\ w.code = job[p].code /\ w.sids = {}
    BY <1>0, <2>1 DEF Job, Flows
  <2>3. job' = [job EXCEPT ![p] = w]
    BY <1>6
  <2> HIDE DEF w
  <2>4. Becomes(p, w)
    BY <1>0, <2>2, <2>3, FieldsBecome DEF Todo, Entering
  <2> QED
    BY <1>3, <2>4, SteadyKeeps
<1> QED
  BY <1>0, <1>4, <1>5, <1>6, AccountsAreUsers DEF FindUser, CreateUser

LEMMA OpenKeeps ==
  ASSUME AccountInv, NEW p \in Proc, Open(p)
  PROVE  AccountInv'
<1> DEFINE c == job[p].code
<1>0. /\ job[p].sids = {} /\ WorldTypes /\ c \in 1..sent /\ c \in Code /\ tries[c] = Closed /\ Done(p)
      /\ UNCHANGED <<tries, sent, lock, lockTtl, users, cached, denied, submits, ops, fails, shared, lost>>
  <2>1. At(p, "open")
    BY DEF Open
  <2>2. job[p].sids = {} /\ Doing(job[p].todo, Holding) /\ Doing(job[p].todo, Passed)
    BY <2>1, AtFacts DEF Holding, Passed
  <2>3. job[p].code \in 1..sent /\ tries[job[p].code] = Closed /\ WorldTypes /\ job[p].code \in Code
    BY <2>2, JobFacts
  <2> QED
    BY <2>2, <2>3 DEF Open, account, counts, signin
<1> HIDE DEF c
<1>1. CASE UNCHANGED <<owner, row, opened>>
  <2>1. WorldTypes'
    BY <1>0, <1>1 DEF WorldTypes
  <2>2. Steady(p)
    BY <1>0, <1>1, <2>1 DEF Steady
  <2> QED
    BY <1>0, <2>2, DoneBecomes, SteadyKeeps
<1>2. ASSUME NEW u \in Accounts, NEW s \in Session, owner' = [owner EXCEPT ![s] = u],
             row' = [row EXCEPT ![s] = "live"], opened' = [opened EXCEPT ![c] = @ + 1]
      PROVE  AccountInv'
  <2>1. WorldTypes'
    <3>1. u \in User /\ u # 0
      BY <1>0, <1>2, AccountsAreUsers
    <3>2. /\ owner' \in [Session -> User \cup {0}]
          /\ row' \in [Session -> {"none", "live", "revoked", "purged"}]
          /\ \A r \in Session : owner'[r] = 0 <=> row'[r] = "none"
      BY <1>0, <1>2, <3>1 DEF WorldTypes
    <3>3. opened' \in [Code -> Nat]
      BY <1>0, <1>2 DEF WorldTypes
    <3> QED
      BY <1>0, <3>2, <3>3 DEF WorldTypes
  <2>2. \A d \in Code : d # c => opened'[d] = opened[d]
    BY <1>0, <1>2 DEF WorldTypes
  <2>3. \A r \in Session : row'[r] = "revoked" => row[r] = "revoked"
    BY <1>0, <1>2 DEF WorldTypes
  <2>4. \A d \in Code : opened'[d] # opened[d] => tries[d] = Closed /\ d <= sent
    BY <1>0, <2>2, JobFacts
  <2>5. Moves(p, Idle)
    BY <1>0, <2>1, <2>3, <2>4, IdleJob DEF Moves, Done, Doing
  <2>6. LockHolds'
    BY <1>0, IdleJob, LockKept DEF Done, Doing
  <2>7. OpenedBounded'
    <3> SUFFICES ASSUME NEW d \in Code
                 PROVE  opened'[d] + Cardinality(Holders(d)') <= IF d \in shared THEN Cardinality(Proc) ELSE 1
      BY <1>0 DEF OpenedBounded
    <3>0. job'[p].code = 0 /\ d # 0 /\ \A q \in Proc : q # p => job'[q] = job[q]
      BY <1>0, IdleJob, JobFacts DEF AccountInv, Done
    <3>1. /\ opened[d] + Cardinality(Holders(d)) <= (IF d \in shared THEN Cardinality(Proc) ELSE 1)
          /\ opened[d] \in Nat /\ Holders(d) \in SUBSET Proc
      BY <1>0 DEF AccountInv, OpenedBounded, WorldTypes, Holders
    <3>2. CASE d = c
      <4>1. p \in Holders(d) /\ Holders(d)' = Holders(d) \ {p}
        BY <3>0, <3>2 DEF Holders, c
      <4>2. /\ Cardinality(Holders(d)') = Cardinality(Holders(d)) - 1
            /\ Cardinality(Holders(d)) \in Nat /\ Cardinality(Proc) \in Nat
        BY <3>1, <4>1, ProcCount
      <4>3. opened'[d] = opened[d] + 1
        BY <1>0, <1>2, <3>2 DEF WorldTypes
      <4> QED
        BY <3>1, <4>2, <4>3
    <3>3. CASE d # c
      <4>1. Holders(d)' \in SUBSET Holders(d) /\ opened'[d] = opened[d]
        BY <2>2, <3>0, <3>3 DEF Holders
      <4>2. /\ Cardinality(Holders(d)') <= Cardinality(Holders(d)) /\ Cardinality(Holders(d)') \in Nat
            /\ Cardinality(Holders(d)) \in Nat /\ Cardinality(Proc) \in Nat
        BY <3>1, <4>1, ProcCount
      <4> QED
        BY <3>1, <4>1, <4>2
    <3> QED
      BY <3>2, <3>3
  <2> QED
    BY <2>5, <2>6, <2>7, MovesKeep
<1> QED
  BY <1>1, <1>2 DEF Open, c
-----------------------------------------------------------------------------
(* Requests, and what they start. *)

LEMMA RequestKeeps ==
  ASSUME AccountInv, NEW p \in Proc, QueryUser(p) \/ FillCache(p) \/ View(p) \/ \E s \in Session : Request(p, s)
  PROVE  AccountInv'
<1>0. /\ job[p].sids = {} /\ WorldTypes /\ job[p] \in Job
      /\ UNCHANGED <<tries, sent, lock, lockTtl, users, owner, row, denied, submits, ops, fails, opened, shared, lost>>
  <2>1. At(p, "query") \/ At(p, "fill") \/ At(p, "accepted") \/ job[p] = Idle
    BY DEF QueryUser, FillCache, View, Request
  <2>2. job[p].sids = {}
    BY <2>1, AtFacts, IdleJob
  <2> QED
    BY <2>2, JobFacts DEF QueryUser, FillCache, View, Request, signin, account, sessions, counts, history
<1>1. cached' \in [User -> UserRow \cup {NoRow}]
  <2>1. CASE FillCache(p)
    BY <1>0, <2>1 DEF FillCache, WorldTypes, Job
  <2>2. CASE cached' = cached
    BY <1>0, <2>2 DEF WorldTypes
  <2> QED
    BY <2>1, <2>2 DEF QueryUser, View, Request, account
<1>2. WorldTypes'
  BY <1>0, <1>1 DEF WorldTypes
<1>3. Steady(p)
  BY <1>0, <1>2 DEF Steady
<1>4. CASE Done(p)
  BY <1>3, <1>4, DoneBecomes, SteadyKeeps
<1>5. ASSUME NEW w \in Job, NEW x \in {"query", "fill", "accepted"}, job' = [job EXCEPT ![p] = w],
             w.todo = <<x>>, w.code = job[p].code, w.sids = {}
      PROVE  AccountInv'
  <2>1. Becomes(p, w)
    BY <1>5, FieldsBecome DEF Todo, Entering, Holding, Passed
  <2> QED
    BY <1>3, <2>1, SteadyKeeps
<1>6. ASSUME NEW s \in Session, Request(p, s) PROVE AccountInv'
  <2>1. PICK x \in {"query", "accepted"} : job' = [job EXCEPT ![p].todo = <<x>>, ![p].user = owner[s]]
    BY <1>6 DEF Request
  <2> DEFINE w == [job[p] EXCEPT !.todo = <<x>>, !.user = owner[s]]
  <2>2. <<x>> \in Seq(Todo) /\ owner[s] \in User \cup {0}
    BY <1>0 DEF Todo, WorldTypes
  <2>3. w \in Job /\ w.todo = <<x>> /\ w.code = job[p].code /\ w.sids = {}
    BY <1>0, <2>2 DEF Job
  <2>4. job' = [job EXCEPT ![p] = w]
    BY <2>1
  <2> HIDE DEF w
  <2> QED
    BY <1>5, <2>3, <2>4
<1>7. CASE QueryUser(p) /\ job[p].user \in Accounts
  <2> DEFINE w == [job[p] EXCEPT !.todo = <<"fill">>, !.entry = users[job[p].user]]
  <2>1. <<"fill">> \in Seq(Todo) /\ users[job[p].user] \in UserRow
    BY <1>0, <1>7, AccountsAreUsers DEF Todo
  <2>2. w \in Job /\ w.todo = <<"fill">> /\ w.code = job[p].code /\ w.sids = {}
    BY <1>0, <2>1 DEF Job
  <2>3. job' = [job EXCEPT ![p] = w]
    BY <1>7 DEF QueryUser
  <2> HIDE DEF w
  <2> QED
    BY <1>5, <2>2, <2>3
<1>8. CASE FillCache(p) /\ job[p].entry.status = "active"
  <2> DEFINE w == [job[p] EXCEPT !.todo = <<"accepted">>, !.entry = NoRow]
  <2>1. <<"accepted">> \in Seq(Todo)
    BY DEF Todo
  <2>2. w \in Job /\ w.todo = <<"accepted">> /\ w.code = job[p].code /\ w.sids = {}
    BY <1>0, <2>1 DEF Job
  <2>3. job' = [job EXCEPT ![p] = w]
    BY <1>8 DEF FillCache
  <2> HIDE DEF w
  <2> QED
    BY <1>5, <2>2, <2>3
<1> QED
  BY <1>4, <1>6, <1>7, <1>8 DEF QueryUser, FillCache, View

\* An operation begins with its statements before it.
LEMMA OperationKeeps ==
  ASSUME AccountInv, NEW p \in Proc, NEW u \in User \cup {0}, NEW s \in Session \cup {0}, NEW t,
         Operation(p, u, s, t), Flows(t), t # <<>>, Head(t) \notin Entering \cup Holding,
         Head(t) = "revoke" => s # 0, job[p].sids = {}
  PROVE  AccountInv'
<1> DEFINE w == [Idle EXCEPT !.todo = t, !.user = u, !.sid = s]
<1>0. /\ ops < MaxOp /\ ops' = ops + 1 /\ job' = [job EXCEPT ![p] = w] /\ WorldTypes
      /\ UNCHANGED <<tries, sent, lock, lockTtl, users, cached, owner, row, denied, submits, fails, opened, shared, lost>>
  BY JobFacts DEF Operation, signin, account, sessions, history
<1>1. w \in Job /\ w.todo = t /\ w.sid = s /\ w.code = 0 /\ w.sids = {}
  BY IdleJob DEF Job, Flows
<1> HIDE DEF w
<1>2. WorldTypes'
  <2>1. MaxOp \in Nat
    BY AccountsAssumption
  <2> QED
    BY <1>0, <2>1 DEF WorldTypes
<1>3. Moves(p, w)
  BY <1>0, <1>1, <1>2 DEF Moves, Doing, Entering, Holding, Passed
<1>4. OpenedBounded'
  BY <1>0, <1>1, OpenedKept
<1>5. LockHolds'
  BY <1>0, <1>1, LockKept DEF Doing
<1> QED
  BY <1>3, <1>4, <1>5, MovesKeep

LEMMA StartKeeps ==
  ASSUME AccountInv, NEW p \in Proc, Start(p)
  PROVE  AccountInv'
<1>0. WorldTypes /\ job[p] \in Job /\ Accounts \subseteq User /\ job[p].user \in User \cup {0}
  BY JobFacts, AccountsAreUsers DEF Job
<1>1. At(p, "accepted") \/ job[p] = Idle => job[p].sids = {}
  BY AtFacts, IdleJob
<1>2. ASSUME UpdateProfile(p) PROVE AccountInv'
  <2>1. Flows(<<"uncache">>)
    BY PlansFlow DEF Todo
  <2> QED
    BY <1>0, <1>1, <1>2, <2>1, OneStatement, OperationKeeps DEF UpdateProfile, Entering, Holding
<1>3. ASSUME NEW s \in Session, RevokeSession(p, s) \/ Logout(p, s) PROVE AccountInv'
  <2>1. Flows(<<"revoke", "deny">>) /\ <<"revoke", "deny">> # <<>> /\ Head(<<"revoke", "deny">>) = "revoke"
    BY PlansFlow
  <2>2. owner[s] \in User \cup {0} /\ s # 0
    BY <1>0, AccountsAssumption DEF WorldTypes, Session
  <2>3. Operation(p, owner[s], s, <<"revoke", "deny">>) /\ job[p].sids = {}
    BY <1>1, <1>3 DEF RevokeSession, Logout
  <2> QED
    BY <2>1, <2>2, <2>3, OperationKeeps DEF Entering, Holding
<1>4. ASSUME NEW u \in User \cup {0}, NEW x \in {"deleted", "suspended"},
             Operation(p, u, 0, <<x, "revokeAll", "deny", "uncache">>), job[p].sids = {}
      PROVE  AccountInv'
  <2> DEFINE t == <<x, "revokeAll", "deny", "uncache">>
  <2>1. Flows(t) /\ t # <<>> /\ Head(t) = x
    <3>1. Flows(t)
      BY PlansFlow
    <3>2. t # <<>> /\ Head(t) = x
      OBVIOUS
    <3> QED
      BY <3>1, <3>2
  <2> HIDE DEF t
  <2>2. Operation(p, u, 0, t)
    BY <1>4 DEF t
  <2> QED
    BY <1>4, <2>1, <2>2, OperationKeeps DEF Entering, Holding
<1>5. ASSUME NEW u \in User, Unsuspend(p, u) PROVE AccountInv'
  <2> DEFINE t == <<"active", "uncache">>
  <2>1. Flows(t) /\ t # <<>> /\ Head(t) = "active"
    BY PlansFlow
  <2>2. Operation(p, u, 0, t) /\ job[p].sids = {}
    BY <1>1, <1>5 DEF Unsuspend
  <2> HIDE DEF t
  <2> QED
    BY <2>1, <2>2, OperationKeeps DEF Entering, Holding
<1>6. ASSUME NEW u \in User, NEW r \in Role, ChangeRole(p, u, r) PROVE AccountInv'
  <2> DEFINE t == <<r, "uncache", "revokeAll", "deny">>
  <2>1. Flows(t) /\ t # <<>> /\ Head(t) = r
    BY PlansFlow
  <2>2. Operation(p, u, 0, t) /\ job[p].sids = {}
    BY <1>1, <1>6 DEF ChangeRole
  <2> HIDE DEF t
  <2> QED
    BY <2>1, <2>2, OperationKeeps DEF Entering, Holding, Role
<1>7. CASE DeleteAccount(p)
  BY <1>0, <1>1, <1>4, <1>7 DEF DeleteAccount
<1>8. ASSUME NEW u \in User, Suspend(p, u) PROVE AccountInv'
  BY <1>1, <1>4, <1>8 DEF Suspend
<1> QED
  BY <1>2, <1>3, <1>5, <1>6, <1>7, <1>8, SubmitKeeps, RequestKeeps DEF Start
-----------------------------------------------------------------------------
(* The statements of the operations. *)

LEMMA StatementKeeps ==
  ASSUME AccountInv, NEW p \in Proc, SetUser(p) \/ Uncache(p)
  PROVE  AccountInv'
<1>0. /\ job[p].sids = {} /\ WorldTypes /\ Proceed(p) /\ job[p].todo # <<>>
      /\ Head(job[p].todo) \in Status \cup Role \cup {"uncache"}
      /\ UNCHANGED <<tries, sent, lock, lockTtl, owner, row, denied, submits, ops, fails, opened, shared, lost>>
  <2>1. job[p].todo # <<>> /\ Head(job[p].todo) \in Status \cup Role \cup {"uncache"}
    BY DEF SetUser, Uncache, At
  <2>2. job[p].sids = {}
    BY <2>1, JobFacts DEF Doing, Status, Role
  <2> QED
    BY <2>1, <2>2, JobFacts DEF SetUser, Uncache, signin, sessions, counts, history
<1>1. users' \in [User -> UserRow \cup {NoRow, Purged}] /\ cached' \in [User -> UserRow \cup {NoRow}]
  <2>1. CASE Uncache(p)
    BY <1>0, <2>1 DEF Uncache, WorldTypes
  <2>2. CASE SetUser(p)
    <3> DEFINE u == job[p].user
               v == Head(job[p].todo)
    <3>1. cached' = cached /\ v \in Status \cup Role
          /\ users' = IF u \notin Accounts THEN users
                      ELSE IF v \in Status THEN [users EXCEPT ![u].status = v]
                      ELSE [users EXCEPT ![u].role = v]
      BY <2>2 DEF SetUser
    <3>2. ASSUME u \in Accounts
          PROVE  /\ v \in Status => [users[u] EXCEPT !.status = v] \in UserRow
                 /\ v \in Role => [users[u] EXCEPT !.role = v] \in UserRow
      BY <1>0, <3>2, AccountsAreUsers DEF UserRow
    <3> HIDE DEF u, v
    <3> QED
      BY <1>0, <3>1, <3>2 DEF WorldTypes
  <2> QED
    BY <2>1, <2>2
<1>2. WorldTypes'
  BY <1>0, <1>1 DEF WorldTypes
<1>3. Steady(p)
  BY <1>0, <1>2 DEF Steady
<1>4. PICK w \in Job : /\ job' = [job EXCEPT ![p] = w] /\ Flows(w.todo)
                       /\ w = Idle \/ /\ w.sids = job[p].sids /\ w.code = job[p].code
                                      /\ w.todo # <<>> /\ <<Head(job[p].todo), Head(w.todo)>> \in Follow
  <2>1. ~Doing(job[p].todo, {"revoke", "revokeAll"})
    BY <1>0 DEF Doing, Status, Role
  <2> QED
    BY <1>0, <2>1, Proceeding
<1>5. CASE w = Idle
  BY <1>3, <1>4, <1>5, DoneBecomes, SteadyKeeps DEF Done
<1>6. CASE w # Idle
  <2>1. /\ Head(w.todo) \in {"revokeAll", "uncache"} /\ w.todo # <<>>
        /\ w.sids = {} /\ w.code = job[p].code
    BY <1>0, <1>4, <1>6 DEF Follow, Status, Role
  <2>2. Becomes(p, w)
    BY <1>4, <2>1 DEF Becomes, Doing, Entering, Holding, Passed
  <2> QED
    BY <1>3, <2>2, SteadyKeeps
<1> QED
  BY <1>5, <1>6

\* The rows first: what they take is carried to the deny list.
LEMMA RevokeKeeps ==
  ASSUME AccountInv, NEW p \in Proc, RevokeOne(p) \/ RevokeAll(p)
  PROVE  AccountInv'
<1>0. /\ job[p].sids = {} /\ WorldTypes /\ job[p] \in Job /\ job[p].todo # <<>>
      /\ Head(job[p].todo) \in {"revoke", "revokeAll"}
      /\ (Head(job[p].todo) = "revoke" => job[p].sid \in Session)
      /\ UNCHANGED <<tries, sent, lock, lockTtl, users, cached, owner, denied, submits, ops, fails, opened, shared, lost>>
  <2>1. job[p].todo # <<>> /\ Head(job[p].todo) \in {"revoke", "revokeAll"}
    BY DEF RevokeOne, RevokeAll, At
  <2>2. job[p].sids = {} /\ (Head(job[p].todo) = "revoke" => job[p].sid \in Session)
    BY <2>1, JobFacts DEF Doing, Job
  <2> QED
    BY <2>1, <2>2, JobFacts DEF RevokeOne, RevokeAll, signin, account, counts, history
<1>1. ASSUME NEW live \in SUBSET Session, NEW t, NEW w \in Job, job' = [job EXCEPT ![p] = w],
             w.todo = t, w.sids = live, w.code = job[p].code, Flows(t), t # <<>>, Head(t) = "deny",
             row' \in [Session -> {"none", "live", "revoked", "purged"}],
             \A s \in Session : row'[s] = row[s] \/ (s \in live /\ row[s] # "none" /\ row'[s] # "none")
      PROVE  AccountInv'
  <2>1. WorldTypes'
    BY <1>0, <1>1 DEF WorldTypes
  <2>2. \A s \in Session : row'[s] = "revoked" => row[s] = "revoked" \/ s \in w.sids
    BY <1>1
  <2>3. Moves(p, w)
    BY <1>0, <1>1, <2>1, <2>2 DEF Moves, Doing, Holding, Passed
  <2>4. OpenedBounded' /\ LockHolds'
    BY <1>0, <1>1, OpenedKept, LockKept DEF Doing, Entering
  <2> QED
    BY <2>3, <2>4, MovesKeep
<1>2. CASE RevokeOne(p)
  <2> DEFINE s == job[p].sid
             w == [job[p] EXCEPT !.todo = <<"deny">>, !.sids = {s}]
  <2>1. s \in Session /\ row' = [row EXCEPT ![s] = IF @ = "live" THEN "revoked" ELSE @]
    BY <1>0, <1>2 DEF RevokeOne, At
  <2>2. Flows(<<"deny">>) /\ <<"deny">> # <<>> /\ Head(<<"deny">>) = "deny"
    BY PlansFlow, OneStatement DEF Todo
  <2>3. w \in Job /\ w.todo = <<"deny">> /\ w.sids = {s} /\ w.code = job[p].code
    BY <1>0, <2>1, <2>2 DEF Job, Flows
  <2>4. job' = [job EXCEPT ![p] = w]
    BY <1>2 DEF RevokeOne
  <2> HIDE DEF s, w
  <2>5. /\ row' \in [Session -> {"none", "live", "revoked", "purged"}]
        /\ \A r \in Session : row'[r] = row[r] \/ (r \in {s} /\ row[r] # "none" /\ row'[r] # "none")
    <3>1. row \in [Session -> {"none", "live", "revoked", "purged"}]
      BY <1>0 DEF WorldTypes
    <3>2. CASE row[s] = "live"
      <4>1. row' = [row EXCEPT ![s] = "revoked"]
        BY <2>1, <3>2
      <4> QED
        BY <2>1, <3>1, <3>2, <4>1
    <3>3. CASE row[s] # "live"
      <4>1. row' = row
        BY <2>1, <3>1, <3>3
      <4> QED
        BY <3>1, <4>1
    <3> QED
      BY <3>2, <3>3
  <2>6. {s} \in SUBSET Session
    BY <2>1
  <2> QED
    BY <1>1, <2>2, <2>3, <2>4, <2>5, <2>6
<1>3. CASE RevokeAll(p)
  <2> DEFINE live == {s \in Session : owner[s] = job[p].user /\ row[s] = "live"}
             rest == Tail(job[p].todo)
  <2>1. /\ row' = [s \in Session |-> IF s \in live THEN "revoked" ELSE row[s]]
        /\ IF live # {} THEN job' = [job EXCEPT ![p].todo = rest, ![p].sids = live]
           ELSE IF Tail(rest) = <<>> THEN Done(p)
           ELSE Goto(p, Tail(rest))
        /\ Head(job[p].todo) = "revokeAll"
    BY <1>3 DEF RevokeAll, At
  <2>2. Flows(rest) /\ rest # <<>> /\ Head(rest) = "deny"
    <3>1. Flows(rest) /\ rest # <<>> /\ <<"revokeAll", Head(rest)>> \in Follow
      BY <1>0, <2>1, JobFacts, TailFlows
    <3> QED
      BY <3>1 DEF Follow
  <2>3. /\ row' \in [Session -> {"none", "live", "revoked", "purged"}]
        /\ \A r \in Session : row'[r] = row[r] \/ (r \in live /\ row[r] # "none" /\ row'[r] # "none")
    <3>1. row \in [Session -> {"none", "live", "revoked", "purged"}]
      BY <1>0 DEF WorldTypes
    <3>2. \A r \in live : row[r] = "live"
      OBVIOUS
    <3> HIDE DEF live
    <3>3. \A r \in Session : row'[r] = (IF r \in live THEN "revoked" ELSE row[r])
      BY <2>1
    <3>4. row' \in [Session -> {"none", "live", "revoked", "purged"}]
      BY <2>1, <3>1
    <3> QED
      BY <3>2, <3>3, <3>4
  <2> HIDE DEF rest
  <2>4. CASE live # {}
    <3> DEFINE w == [job[p] EXCEPT !.todo = rest, !.sids = live]
    <3>1. w \in Job /\ w.todo = rest /\ w.sids = live /\ w.code = job[p].code
      BY <1>0, <2>2 DEF Job, Flows
    <3>2. job' = [job EXCEPT ![p] = w]
      BY <2>1, <2>4
    <3> HIDE DEF w, live
    <3>3. live \in SUBSET Session
      BY DEF live
    <3> QED
      BY <1>1, <2>2, <2>3, <3>1, <3>2, <3>3
  <2>5. CASE live = {}
    <3>1. row' = row
      BY <1>0, <2>1, <2>5 DEF WorldTypes
    <3>2. WorldTypes'
      BY <1>0, <3>1 DEF WorldTypes
    <3>3. Steady(p)
      BY <1>0, <3>1, <3>2 DEF Steady
    <3>4. CASE Tail(rest) = <<>>
      BY <2>1, <2>5, <3>3, <3>4, DoneBecomes, SteadyKeeps
    <3>5. CASE Tail(rest) # <<>>
      <4> DEFINE t == Tail(rest)
                 w == [job[p] EXCEPT !.todo = t]
      <4>1. Flows(t) /\ t # <<>> /\ Head(t) = "uncache"
        <5>1. Flows(t) /\ <<"deny", Head(t)>> \in Follow
          BY <2>2, <3>5, TailFlows
        <5> QED
          BY <3>5, <5>1 DEF Follow
      <4>2. job' = [job EXCEPT ![p] = w]
        BY <2>1, <2>5, <3>5 DEF Goto
      <4> HIDE DEF t
      <4>3. w \in Job /\ w.todo = t /\ w.sids = {} /\ w.code = job[p].code
        BY <1>0, <4>1, JobFacts DEF Flows
      <4> HIDE DEF w
      <4>4. Becomes(p, w)
        BY <4>1, <4>2, <4>3 DEF Becomes, Doing, Entering, Holding, Passed
      <4> QED
        BY <3>3, <4>4, SteadyKeeps
    <3> QED
      BY <3>4, <3>5
  <2> QED
    BY <2>4, <2>5
<1> QED
  BY <1>2, <1>3

\* Then the deny list, all of it or, when the handler dies, a part.
LEMMA DenyKeeps ==
  ASSUME AccountInv, NEW p \in Proc, Deny(p) \/ Fail(p)
  PROVE  AccountInv'
<1>0. WorldTypes /\ job[p] \in Job /\ job[p].sids \subseteq Session
  BY JobFacts DEF Job
<1>1. CASE Fail(p)
  <2>0. /\ Done(p) /\ fails < MaxFail /\ fails' = fails + 1
        /\ UNCHANGED <<tries, sent, lock, lockTtl, users, cached, owner, row, submits, ops, opened, shared>>
    BY <1>1 DEF Fail, signin, account
  <2>1. PICK part \in SUBSET job[p].sids : denied' = denied \cup part /\ lost' = lost \cup (job[p].sids \ part)
    BY <1>1 DEF Fail
  <2>2. WorldTypes'
    <3>1. MaxFail \in Nat
      BY AccountsAssumption
    <3> QED
      BY <1>0, <2>0, <2>1, <3>1 DEF WorldTypes
  <2>3. Steady(p)
    BY <2>0, <2>1, <2>2 DEF Steady
  <2> QED
    BY <2>0, <2>3, DoneBecomes, SteadyKeeps
<1>2. CASE Deny(p)
  <2>0. /\ denied' = denied \cup job[p].sids /\ job[p].todo # <<>> /\ Head(job[p].todo) = "deny"
        /\ UNCHANGED <<tries, sent, lock, lockTtl, users, cached, owner, row, submits, ops, fails, opened, shared, lost>>
    BY <1>2 DEF Deny, At, signin, account, counts, history
  <2>1. WorldTypes'
    BY <1>0, <2>0 DEF WorldTypes
  <2>2. Steady(p)
    BY <2>0, <2>1 DEF Steady
  <2>3. CASE Tail(job[p].todo) = <<>>
    <3>1. Done(p)
      BY <1>2, <2>3 DEF Deny
    <3> QED
      BY <2>2, <3>1, DoneBecomes, SteadyKeeps
  <2>4. CASE Tail(job[p].todo) # <<>>
    <3> DEFINE t == Tail(job[p].todo)
               w == [job[p] EXCEPT !.todo = t, !.sids = {}]
    <3>1. Flows(t) /\ t # <<>> /\ Head(t) = "uncache"
      <4>1. Flows(t) /\ <<"deny", Head(t)>> \in Follow
        BY <2>0, <2>4, JobFacts, TailFlows
      <4> QED
        BY <2>4, <4>1 DEF Follow
    <3>2. job' = [job EXCEPT ![p] = w]
      BY <1>2, <2>4 DEF Deny
    <3> HIDE DEF t
    <3>3. w \in Job /\ w.todo = t /\ w.sids = {} /\ w.code = job[p].code
      BY <1>0, <3>1 DEF Job, Flows
    <3> HIDE DEF w
    <3>4. Becomes(p, w)
      BY <3>1, <3>2, <3>3 DEF Becomes, Doing, Entering, Holding, Passed
    <3> QED
      BY <2>2, <3>4, SteadyKeeps
  <2> QED
    BY <2>3, <2>4
<1> QED
  BY <1>1, <1>2

-----------------------------------------------------------------------------
(* What no handler does. *)

LEMMA EnvironmentKeeps == ASSUME AccountInv, Environment PROVE AccountInv'
<1>0. /\ WorldTypes /\ CodesHold /\ job' = job /\ Code = 1..MaxCode /\ MaxCode \in Nat
      /\ UNCHANGED <<owner, denied, submits, ops, fails, opened, shared, lost>>
  <2>1. WorldTypes /\ CodesHold /\ Code = 1..MaxCode /\ MaxCode \in Nat
    BY AccountsAssumption DEF AccountInv, Code
  <2> QED
    BY <2>1 DEF Environment, SendCode, LockExpires, CodeExpires, CacheExpires, Purge,
                account, sessions, counts, history, signin
<1>1. ASSUME WorldTypes', sent' \in Nat, sent <= sent', CodesHold', lock' \in {0, lock},
             \A c \in 1..sent : tries[c] = Closed => tries'[c] = Closed,
             \A s \in Session : row'[s] = "revoked" => row[s] = "revoked"
      PROVE  AccountInv'
  <2>1. JobsHold'
    <3> SUFFICES ASSUME NEW p \in Proc
                 PROVE  /\ Doing(job[p].todo, Holding) => job[p].code \in 1..sent'
                        /\ Doing(job[p].todo, Passed) => tries'[job[p].code] = Closed
      BY <1>0 DEF AccountInv, JobsHold
    <3>1. /\ Doing(job[p].todo, Holding) => job[p].code \in 1..sent
          /\ Doing(job[p].todo, Passed) => tries[job[p].code] = Closed
      BY DEF AccountInv, JobsHold
    <3>2. Doing(job[p].todo, Passed) => Doing(job[p].todo, Holding)
      BY DEF Doing, Passed, Holding
    <3>3. sent \in Nat
      BY <1>0 DEF WorldTypes
    <3> QED
      BY <1>1, <3>1, <3>2, <3>3
  <2>2. OpenedBounded'
    BY <1>0 DEF AccountInv, OpenedBounded, Holders
  <2>3. RevokedIsRefused'
    BY <1>0, <1>1 DEF AccountInv, RevokedIsRefused
  <2>4. LockHolds'
    <3>1. Submitted' = Submitted
      BY <1>0 DEF Submitted
    <3>2. Cardinality(Submitted) \in Nat /\ Cardinality(Proc) \in Nat
      <4>1. Submitted \in SUBSET Proc
        BY DEF Submitted
      <4> QED
        BY <4>1, ProcCount
    <3>3. lock \in Nat /\ LockThreshold \in Nat
      BY <1>0, AccountsAssumption DEF WorldTypes
    <3> QED
      BY <1>1, <3>1, <3>2, <3>3 DEF AccountInv, LockHolds
  <2> QED
    BY <1>0, <1>1, <2>1, <2>2, <2>3, <2>4 DEF AccountInv
<1>2. CASE SendCode
  <2>1. /\ sent < MaxCode /\ sent' = sent + 1 /\ tries' = [tries EXCEPT ![sent + 1] = 0]
        /\ UNCHANGED <<lock, lockTtl, users, cached, row>> /\ sent \in Nat
    BY <1>0, <1>2 DEF SendCode, account, sessions, WorldTypes
  <2>2. sent + 1 \in Code
    BY <1>0, <2>1
  <2>3. /\ tries' \in [Code -> Nat \cup {Closed}]
        /\ \A c \in Code : c # sent + 1 => tries'[c] = tries[c]
    BY <1>0, <2>1 DEF WorldTypes
  <2>4. WorldTypes'
    BY <1>0, <2>1, <2>3 DEF WorldTypes
  <2>5. CodesHold'
    <3> SUFFICES ASSUME NEW c \in Code
                 PROVE  /\ c > sent + 1 => tries'[c] = Closed
                        /\ opened[c] > 0 => tries'[c] = Closed /\ c <= sent + 1
      BY <1>0, <2>1 DEF CodesHold
    <3>1. c \in Nat /\ (c > sent => tries[c] = Closed) /\ (opened[c] > 0 => tries[c] = Closed /\ c <= sent)
      BY <1>0 DEF CodesHold
    <3> QED
      BY <2>1, <2>3, <3>1
  <2>6. \A c \in 1..sent : tries[c] = Closed => tries'[c] = Closed
    BY <1>0, <2>1, <2>3
  <2> QED
    BY <1>1, <2>1, <2>4, <2>5, <2>6
<1>3. CASE LockExpires
  <2>1. lock' = 0 /\ lockTtl' = FALSE /\ UNCHANGED <<tries, sent, users, cached, row>> /\ sent \in Nat
    BY <1>0, <1>3 DEF LockExpires, account, sessions, WorldTypes
  <2>2. WorldTypes' /\ CodesHold'
    BY <1>0, <2>1 DEF WorldTypes, CodesHold
  <2> QED
    BY <1>1, <2>1, <2>2
<1>4. ASSUME NEW c \in Code, CodeExpires(c) PROVE AccountInv'
  <2>1. /\ tries' = [tries EXCEPT ![c] = Closed] /\ UNCHANGED <<lock, lockTtl, sent, users, cached, row>>
        /\ sent \in Nat /\ sent <= MaxCode
    BY <1>0, <1>4 DEF CodeExpires, account, sessions, WorldTypes
  <2>2. /\ tries' \in [Code -> Nat \cup {Closed}]
        /\ \A d \in Code : tries[d] = Closed => tries'[d] = Closed
    BY <1>0, <2>1 DEF WorldTypes
  <2>3. WorldTypes' /\ CodesHold'
    BY <1>0, <2>1, <2>2 DEF WorldTypes, CodesHold
  <2>4. \A d \in 1..sent : d \in Code
    BY <1>0, <2>1
  <2> QED
    BY <1>1, <2>1, <2>2, <2>3, <2>4
<1>5. ASSUME NEW u \in User, CacheExpires(u) PROVE AccountInv'
  <2>1. /\ cached' = [cached EXCEPT ![u] = NoRow] /\ UNCHANGED <<lock, lockTtl, sent, users, tries, row>>
        /\ sent \in Nat
    BY <1>0, <1>5 DEF CacheExpires, signin, sessions, WorldTypes
  <2>2. WorldTypes' /\ CodesHold'
    BY <1>0, <2>1 DEF WorldTypes, CodesHold
  <2> QED
    BY <1>1, <2>1, <2>2
<1>6. ASSUME NEW u \in User, Purge(u) PROVE AccountInv'
  <2>1. /\ users' = [users EXCEPT ![u] = Purged] /\ tries' = [c \in Code |-> Closed]
        /\ row' = [s \in Session |-> IF owner[s] = u THEN "purged" ELSE row[s]]
        /\ UNCHANGED <<lock, lockTtl, sent, cached>> /\ sent \in Nat /\ sent <= MaxCode /\ u # 0
    BY <1>0, <1>6, AccountsAssumption DEF Purge, WorldTypes, User
  <2>2. WorldTypes'
    BY <1>0, <2>1 DEF WorldTypes
  <2>3. CodesHold' /\ \A c \in 1..sent : tries'[c] = Closed
    BY <1>0, <2>1 DEF CodesHold
  <2> QED
    BY <1>0, <1>1, <2>1, <2>2, <2>3
<1> QED
  BY <1>2, <1>3, <1>4, <1>5, <1>6 DEF Environment

-----------------------------------------------------------------------------
LEMMA AccountInit == Init => AccountInv
<1> SUFFICES ASSUME Init PROVE AccountInv
  OBVIOUS
<1>1. /\ sent = 0 /\ lock = 0 /\ tries = [c \in Code |-> Closed] /\ opened = [c \in Code |-> 0]
      /\ job \in [Proc -> Job] /\ \A p \in Proc : job[p] = Idle
  BY IdleJob DEF Init
<1>2. WorldTypes /\ job \in [Proc -> Job]
  <2>1. 0 \in 0..MaxCode /\ 0 \in 0..MaxSubmit /\ 0 \in 0..MaxOp /\ 0 \in 0..MaxFail
    BY AccountsAssumption
  <2>2. tries \in [Code -> Nat \cup {Closed}] /\ opened \in [Code -> Nat]
    BY <1>1
  <2>3. users \in [User -> UserRow \cup {NoRow, Purged}] /\ cached \in [User -> UserRow \cup {NoRow}]
    BY DEF Init
  <2>4. /\ owner \in [Session -> User \cup {0}] /\ row \in [Session -> {"none", "live", "revoked", "purged"}]
        /\ \A s \in Session : owner[s] = 0 <=> row[s] = "none"
    BY DEF Init
  <2>5. /\ lockTtl = FALSE /\ denied = {} /\ shared = {} /\ lost = {}
        /\ submits = 0 /\ ops = 0 /\ fails = 0
    BY DEF Init
  <2> QED
    BY <1>1, <2>1, <2>2, <2>3, <2>4, <2>5 DEF WorldTypes
<1>3. JobsHold
  BY <1>1, IdleJob DEF JobsHold, Doing
<1>4. CodesHold
  BY <1>1 DEF CodesHold
<1>5. OpenedBounded
  <2> SUFFICES ASSUME NEW c \in Code
               PROVE  opened[c] + Cardinality(Holders(c)) <= IF c \in shared THEN Cardinality(Proc) ELSE 1
    BY DEF OpenedBounded
  <2>1. Holders(c) = {}
    BY <1>1, IdleJob, AccountsAssumption DEF Holders, Code
  <2>2. Cardinality(Holders(c)) = 0 /\ opened[c] = 0 /\ shared = {}
    BY <1>1, <2>1, FS_EmptySet DEF Init
  <2> QED
    BY <2>2
<1>6. LockHolds
  <2>1. Submitted = {}
    BY <1>1, IdleJob DEF Submitted, Doing
  <2>2. Cardinality(Submitted) = 0
    BY <2>1, FS_EmptySet
  <2>3. Cardinality(Proc) \in Nat
    BY AccountsAssumption, FS_CardinalityType
  <2> QED
    BY <1>1, <2>2, <2>3, AccountsAssumption DEF LockHolds
<1>7. RevokedIsRefused
  BY DEF Init, RevokedIsRefused
<1> QED
  BY <1>2, <1>3, <1>4, <1>5, <1>6, <1>7 DEF AccountInv

LEMMA AccountStep == AccountInv /\ [Next]_vars => AccountInv'
<1> SUFFICES ASSUME AccountInv, [Next]_vars PROVE AccountInv'
  OBVIOUS
<1>1. CASE UNCHANGED vars
  BY <1>1 DEF vars, signin, account, sessions, counts, history, AccountInv, WorldTypes, JobsHold,
              CodesHold, OpenedBounded, LockHolds, RevokedIsRefused, Holders, Submitted
<1>2. ASSUME NEW p \in Proc, Step(p) PROVE AccountInv'
  BY <1>2, SelectKeeps, AttemptKeeps, RefusedKeeps, WrongKeeps, ConsumeKeeps, AccountFoundKeeps, OpenKeeps,
     RequestKeeps, StatementKeeps, RevokeKeeps, DenyKeeps
  DEF Step, SignInStep, RequestStep, OperationStep
<1> QED
  BY <1>1, <1>2, EnvironmentKeeps, StartKeeps, DenyKeeps DEF Next

\* Variables have their types, and a session has a row as soon as it has an owner, for
\* any number of handlers and operations.
THEOREM AccountTypes == Spec => []TypeOK
<1>1. AccountInv => TypeOK
  BY DEF AccountInv, WorldTypes, TypeOK
<1> QED
  BY <1>1, AccountInit, AccountStep, PTL DEF Spec

\* A session revoked in Postgres is on the deny list, or a handler carries it there, or
\* a failure came between the two stores (packages/auth/src/session.ts), however many
\* revocations, log-outs and purges overlap.
THEOREM RevocationArrives == Spec => []RevokedIsRefused
<1>1. AccountInv => RevokedIsRefused
  BY DEF AccountInv
<1> QED
  BY <1>1, AccountInit, AccountStep, PTL DEF Spec

\* A code opens one session at most unless two submissions held it at once, and an
\* address is tried no more often than its lock allows and submissions overlap
\* (verifyCodeAction), for any threshold and any number of submissions.
THEOREM GuessesAreBounded == Spec => []GuessesBounded
<1>1. AccountInv => GuessesBounded
  <2> SUFFICES ASSUME AccountInv PROVE GuessesBounded
    OBVIOUS
  <2>1. ASSUME NEW c \in Code PROVE opened[c] <= IF c \in shared THEN Cardinality(Proc) ELSE 1
    <3>1. opened[c] + Cardinality(Holders(c)) <= (IF c \in shared THEN Cardinality(Proc) ELSE 1)
          /\ opened[c] \in Nat /\ Holders(c) \in SUBSET Proc
      BY DEF AccountInv, OpenedBounded, WorldTypes, Holders
    <3>2. Cardinality(Holders(c)) \in Nat /\ Cardinality(Proc) \in Nat
      BY <3>1, ProcCount
    <3> QED
      BY <3>1, <3>2
  <2>2. lock + Cardinality({p \in Proc : At(p, "wrong")}) <= LockThreshold + Cardinality(Proc) - 1
    <3> DEFINE W == {p \in Proc : At(p, "wrong")}
    <3>1. W \in SUBSET Submitted /\ Submitted \in SUBSET Proc
      BY DEF Submitted, Doing, At, Entering
    <3> HIDE DEF W
    <3>2. /\ Cardinality(W) \in Nat /\ Cardinality(W) <= Cardinality(Submitted)
          /\ Cardinality(Submitted) \in Nat /\ Cardinality(Proc) \in Nat
      BY <3>1, ProcCount
    <3>3. lock \in Nat /\ LockThreshold \in Nat
      BY AccountsAssumption DEF AccountInv, WorldTypes
    <3>4. lock + Cardinality(W) <= LockThreshold + Cardinality(Proc) - 1
      BY <3>2, <3>3 DEF AccountInv, LockHolds
    <3> QED
      BY <3>4 DEF W
  <2> QED
    BY <2>1, <2>2 DEF GuessesBounded
<1> QED
  BY <1>1, AccountInit, AccountStep, PTL DEF Spec
=============================================================================
