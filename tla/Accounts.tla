------------------------------ MODULE Accounts ------------------------------
(***************************************************************************)
(* One e-mail address: its login codes, its account, its sessions.         *)
(*                                                                         *)
(* A session lives in two stores: the row in Postgres, which sign-in,      *)
(* log-out and administration write, and the deny list in Redis, which is  *)
(* all that a request looks at (packages/auth/src/session.ts).  The user   *)
(* of a request comes from a Redis entry that lives a minute.  The sign-in *)
(* form is (auth)/actions.ts.  Every awaited call is a step; a handler may *)
(* fail between any two, and nothing is undone or repeated for it.  The    *)
(* reapers are left out: they delete codes and session rows that no        *)
(* statement finds any more.                                               *)
(*                                                                         *)
(* A handler is what is left of it to do: job[p].todo.  Captcha and rate   *)
(* limits may refuse any form, which then does nothing.  Tokens outlive    *)
(* the runs: a deny entry is kept as long as a token is valid.             *)
(***************************************************************************)
EXTENDS Integers, Sequences, FiniteSets

CONSTANTS
  Proc,           \* handlers that may run at the same time
  MaxAttempts,    \* AUTH_CODE_MAX_ATTEMPTS (5)
  LockThreshold,  \* AUTH_VERIFY_LOCK_THRESHOLD (10)
  MaxCode,        \* bound: codes sent
  MaxSubmit,      \* bound: submissions of a code, each opens a session at most
  MaxOp,          \* bound: operations on account and sessions
  MaxFail         \* bound: failures

ASSUME AccountsAssumption ==
  /\ MaxAttempts \in Nat /\ LockThreshold \in Nat \ {0} /\ IsFiniteSet(Proc)
  /\ {MaxCode, MaxSubmit, MaxOp, MaxFail} \subseteq Nat

Code == 1..MaxCode
Session == 1..MaxSubmit
User == 1..MaxSubmit
Status == {"active", "suspended", "deleted"}
Role == {"user", "admin"}
Closed == -1
UserRow == [status : Status, role : Role]
NoRow == [status |-> "none", role |-> "user"]
Purged == [status |-> "purged", role |-> "user"]

VARIABLES
  tries,     \* tries[c]: attempts of a code that is neither consumed nor expired
  sent,      \* codes sent; the newest is the last
  lock,      \* Redis verifyAttempts: wrong codes counted
  lockTtl,   \* whether that key will expire
  users,     \* users[u]: the row of the address's u-th account
  cached,    \* cached[u]: Redis user entry
  owner,     \* owner[s]: the user the token of s names, 0: no such session yet
  row,       \* row[s]: its row
  denied,    \* sessions on the Redis deny list
  job,       \* job[p]: the handler p is at
  submits, ops, fails,
  opened,    \* history: sessions opened with each code
  shared,    \* history: codes two submissions held at once
  lost       \* history: sessions revoked whose deny entry a failure lost

signin == <<tries, sent, lock, lockTtl>>
account == <<users, cached>>
sessions == <<owner, row, denied>>
counts == <<submits, ops, fails>>
history == <<opened, shared, lost>>
vars == <<signin, account, sessions, job, counts, history>>

Todo == Status \cup Role \cup
  {"select", "attempt", "burn", "wrong", "ttl", "consume", "find", "create",
   "open", "query", "fill", "accepted", "revoke", "revokeAll", "deny", "uncache"}

\* code, seen: what a submission works on and the attempts it read.  user, sid:
\* whose account, and the session to revoke.  sids: what a revocation is to deny.
\* entry: the user row a request has read.
Job == [todo : Seq(Todo), code : Code \cup {0}, seen : Nat, user : User \cup {0},
        sid : Session \cup {0}, sids : SUBSET Session, entry : UserRow \cup {NoRow}]
Idle == [todo |-> <<>>, code |-> 0, seen |-> 0, user |-> 0, sid |-> 0, sids |-> {},
         entry |-> NoRow]

\* Variables have their types; a session has a row as soon as it has an owner.
TypeOK ==
  /\ tries \in [Code -> Nat \cup {Closed}] /\ sent \in 0..MaxCode
  /\ lock \in Nat /\ lockTtl \in BOOLEAN
  /\ users \in [User -> UserRow \cup {NoRow, Purged}] /\ cached \in [User -> UserRow \cup {NoRow}]
  /\ owner \in [Session -> User \cup {0}]
  /\ row \in [Session -> {"none", "live", "revoked", "purged"}]
  /\ \A s \in Session : owner[s] = 0 <=> row[s] = "none"
  /\ denied \subseteq Session /\ job \in [Proc -> Job]
  /\ submits \in 0..MaxSubmit /\ ops \in 0..MaxOp /\ fails \in 0..MaxFail
  /\ opened \in [Code -> Nat] /\ shared \subseteq Code /\ lost \subseteq Session

Init ==
  /\ tries = [c \in Code |-> Closed] /\ sent = 0
  /\ lock = 0 /\ lockTtl = FALSE
  /\ users = [u \in User |-> NoRow] /\ cached = [u \in User |-> NoRow]
  /\ owner = [s \in Session |-> 0] /\ row = [s \in Session |-> "none"] /\ denied = {}
  /\ job = [p \in Proc |-> Idle]
  /\ submits = 0 /\ ops = 0 /\ fails = 0
  /\ opened = [c \in Code |-> 0] /\ shared = {} /\ lost = {}

\* The account the address has now: users.email is unique.
Accounts == {u \in User : users[u].status \in Status}

At(p, step) == job[p].todo # <<>> /\ Head(job[p].todo) = step
Goto(p, todo) == job' = [job EXCEPT ![p].todo = todo]
Done(p) == job' = [job EXCEPT ![p] = Idle]
Proceed(p) ==
  IF Tail(job[p].todo) = <<>> THEN Done(p) ELSE Goto(p, Tail(job[p].todo))

-----------------------------------------------------------------------------
(* Signing in. *)

SendCode ==
  /\ sent < MaxCode
  /\ sent' = sent + 1
  /\ tries' = [tries EXCEPT ![sent + 1] = 0]
  /\ UNCHANGED <<lock, lockTtl, account, sessions, job, counts, history>>

\* Ten minutes have passed, for the older codes first.
CodeExpires(c) ==
  /\ tries[c] # Closed /\ \A d \in 1..(c - 1) : tries[d] = Closed
  /\ tries' = [tries EXCEPT ![c] = Closed]
  /\ UNCHANGED <<sent, lock, lockTtl, account, sessions, job, counts, history>>

Submit(p) ==
  /\ job[p] = Idle /\ submits < MaxSubmit
  /\ lock < LockThreshold
  /\ submits' = submits + 1
  /\ Goto(p, <<"select">>)
  /\ UNCHANGED <<signin, account, sessions, ops, fails, history>>

\* The newest code that is open.
SelectCode(p) ==
  /\ At(p, "select")
  /\ LET open == {c \in Code : tries[c] # Closed}
         c == CHOOSE d \in open : \A e \in open : e <= d
     IN IF open = {} THEN Done(p) /\ shared' = shared
        ELSE /\ job' = [job EXCEPT ![p].todo = <<"attempt">>, ![p].code = c,
                                   ![p].seen = tries[c]]
             /\ shared' = shared \cup {d \in {c} : \E q \in Proc \ {p} : job[q].code = d}
  /\ UNCHANGED <<signin, account, sessions, counts, opened, lost>>

\* attempts is written as the value that was read plus one; then the code that
\* was typed in is compared.
Attempt(p) ==
  LET n == job[p].seen + 1 IN
  /\ At(p, "attempt")
  /\ tries' = [tries EXCEPT ![job[p].code] = IF @ = Closed THEN @ ELSE n]
  /\ IF n > MaxAttempts THEN Goto(p, <<"burn">>)
     ELSE \/ Goto(p, <<"wrong">>)
          \/ Goto(p, <<"consume", "find">>)
  /\ UNCHANGED <<sent, lock, lockTtl, account, sessions, counts, history>>

Burn(p) ==
  /\ At(p, "burn")
  /\ tries' = [tries EXCEPT ![job[p].code] = Closed]
  /\ Done(p)
  /\ UNCHANGED <<sent, lock, lockTtl, account, sessions, counts, history>>

\* Mutant of Wrong: the counter is given no time to live.
WrongNoTtl(p) ==
  /\ At(p, "wrong")
  /\ lock' = lock + 1
  /\ Done(p)
  /\ UNCHANGED <<tries, sent, lockTtl, account, sessions, counts, history>>

Wrong(p) ==
  /\ At(p, "wrong")
  /\ lock' = lock + 1
  /\ IF lock = 0 THEN Goto(p, <<"ttl">>) ELSE Done(p)
  /\ UNCHANGED <<tries, sent, lockTtl, account, sessions, counts, history>>

\* EXPIRE, which does nothing to a key that is gone.
SetTtl(p) ==
  /\ At(p, "ttl")
  /\ lockTtl' = (lockTtl \/ lock > 0)
  /\ Done(p)
  /\ UNCHANGED <<tries, sent, lock, account, sessions, counts, history>>

LockExpires ==
  /\ lockTtl
  /\ lock' = 0 /\ lockTtl' = FALSE
  /\ UNCHANGED <<tries, sent, account, sessions, job, counts, history>>

\* Mutant of Consume: the code stays open.
ConsumeNot(p) ==
  /\ At(p, "consume")
  /\ Proceed(p)
  /\ UNCHANGED <<signin, account, sessions, counts, history>>

Consume(p) ==
  /\ At(p, "consume")
  /\ tries' = [tries EXCEPT ![job[p].code] = Closed]
  /\ Proceed(p)
  /\ UNCHANGED <<sent, lock, lockTtl, account, sessions, counts, history>>

\* The lock is deleted; then the user is looked up.
FindUser(p) ==
  /\ At(p, "find")
  /\ lock' = 0 /\ lockTtl' = FALSE
  /\ IF Accounts = {} THEN Goto(p, <<"create">>)
     ELSE \E u \in Accounts : job' = [job EXCEPT ![p].todo = <<"open">>, ![p].user = u]
  /\ UNCHANGED <<tries, sent, account, sessions, counts, history>>

\* INSERT INTO users: the address may have got its account meanwhile.
CreateUser(p) ==
  /\ At(p, "create")
  /\ IF Accounts # {} THEN Done(p) /\ users' = users
     ELSE \E u \in User :
            /\ users[u] = NoRow /\ \A v \in 1..(u - 1) : users[v] # NoRow
            /\ users' = [users EXCEPT ![u] = [status |-> "active", role |-> "user"]]
            /\ job' = [job EXCEPT ![p].todo = <<"open">>, ![p].user = u]
  /\ UNCHANGED <<signin, cached, sessions, counts, history>>

\* createSession: the row refers to its user.
Open(p) ==
  /\ At(p, "open")
  /\ IF job[p].user \notin Accounts THEN UNCHANGED <<owner, row, opened>>
     ELSE \E s \in Session :
            /\ owner[s] = 0 /\ \A r \in 1..(s - 1) : owner[r] # 0
            /\ owner' = [owner EXCEPT ![s] = job[p].user]
            /\ row' = [row EXCEPT ![s] = "live"]
            /\ opened' = [opened EXCEPT ![job[p].code] = @ + 1]
  /\ Done(p)
  /\ UNCHANGED <<signin, account, denied, counts, shared, lost>>

-----------------------------------------------------------------------------
(* Requests.  A request that is let in may go on to an operation. *)

\* A token is signed for a session and its user, and is not checked against rows.
Issued(s) == owner[s] # 0

\* What validateSession asks Redis: the deny list, then the user's entry, whose
\* absence sends it to the row and whose status must be active.
CachedUser(s) == IF s \in denied THEN Purged ELSE cached[owner[s]]

\* Anything that is refused or goes wrong is the answer for nobody signed in.
Request(p, s) ==
  /\ job[p] = Idle /\ Issued(s)
  /\ CachedUser(s).status \in {"none", "active"}
  /\ job' = [job EXCEPT
       ![p].todo = IF CachedUser(s) = NoRow THEN <<"query">> ELSE <<"accepted">>,
       ![p].user = owner[s]]
  /\ UNCHANGED <<signin, account, sessions, counts, history>>

QueryUser(p) ==
  LET u == job[p].user IN
  /\ At(p, "query")
  /\ IF u \notin Accounts THEN Done(p)
     ELSE job' = [job EXCEPT ![p].todo = <<"fill">>, ![p].entry = users[u]]
  /\ UNCHANGED <<signin, account, sessions, counts, history>>

\* SET; an error is swallowed, which is a fill that has expired already.
FillCache(p) ==
  LET e == job[p].entry IN
  /\ At(p, "fill")
  /\ cached' = [cached EXCEPT ![job[p].user] = e]
  /\ IF e.status = "active"
     THEN job' = [job EXCEPT ![p].todo = <<"accepted">>, ![p].entry = NoRow]
     ELSE Done(p)
  /\ UNCHANGED <<signin, users, sessions, counts, history>>

\* Mutant of CacheExpires: the entry has no time to live.
CacheKept(u) == FALSE /\ u \in User /\ UNCHANGED vars

CacheExpires(u) ==
  /\ cached[u] # NoRow
  /\ cached' = [cached EXCEPT ![u] = NoRow]
  /\ UNCHANGED <<signin, users, sessions, job, counts, history>>

\* A page, or the answer of an operation that is not about the account.
View(p) ==
  /\ At(p, "accepted")
  /\ Done(p)
  /\ UNCHANGED <<signin, account, sessions, counts, history>>

-----------------------------------------------------------------------------
(* Operations on the account: the statements each has to execute, in order. *)

Operation(p, u, s, todo) ==
  /\ ops < MaxOp /\ ops' = ops + 1
  /\ job' = [job EXCEPT ![p] = [Idle EXCEPT !.todo = todo, !.user = u, !.sid = s]]
  /\ UNCHANGED <<signin, account, sessions, submits, fails, history>>

UpdateProfile(p) ==
  /\ At(p, "accepted")
  /\ Operation(p, job[p].user, 0, <<"uncache">>)

\* The settings page lists the live sessions and may be old.
Own(u) == {s \in Session : owner[s] = u /\ row[s] \in {"live", "revoked"}}

\* The form asks again whose session it is, not whether it is live.
RevokeSession(p, s) ==
  /\ At(p, "accepted")
  /\ s \in Own(job[p].user)
  /\ Operation(p, owner[s], s, <<"revoke", "deny">>)

DeleteAccount(p) ==
  /\ At(p, "accepted")
  /\ Operation(p, job[p].user, 0, <<"deleted", "revokeAll", "deny", "uncache">>)

\* The route checks the token's signature only.
Logout(p, s) ==
  /\ job[p] = Idle /\ Issued(s)
  /\ Operation(p, owner[s], s, <<"revoke", "deny">>)

Suspend(p, u) ==
  /\ job[p] = Idle /\ u \in Accounts
  /\ Operation(p, u, 0, <<"suspended", "revokeAll", "deny", "uncache">>)

\* The page offers it for suspended users, and may be old.
Unsuspend(p, u) ==
  /\ job[p] = Idle /\ u \in Accounts
  /\ Operation(p, u, 0, <<"active", "uncache">>)

ChangeRole(p, u, r) ==
  /\ job[p] = Idle /\ u \in Accounts
  /\ users[u].role # r
  /\ Operation(p, u, 0, <<r, "uncache", "revokeAll", "deny">>)

-----------------------------------------------------------------------------
(* Their statements. *)

\* UPDATE users: a purged user has no row any more.
SetUser(p) ==
  LET u == job[p].user  v == Head(job[p].todo) IN
  /\ job[p].todo # <<>> /\ v \in Status \cup Role
  /\ users' = IF u \notin Accounts THEN users
              ELSE IF v \in Status THEN [users EXCEPT ![u].status = v]
              ELSE [users EXCEPT ![u].role = v]
  /\ Proceed(p)
  /\ UNCHANGED <<signin, cached, sessions, counts, history>>

RevokeOne(p) ==
  LET s == job[p].sid IN
  /\ At(p, "revoke")
  /\ row' = [row EXCEPT ![s] = IF @ = "live" THEN "revoked" ELSE @]
  /\ job' = [job EXCEPT ![p].todo = <<"deny">>, ![p].sids = {s}]
  /\ UNCHANGED <<signin, account, owner, denied, counts, history>>

\* Mutant of RevokeAll: a single session is not worth the second store.
RevokeSome(p) ==
  LET live == {s \in Session : owner[s] = job[p].user /\ row[s] = "live"}
      rest == Tail(job[p].todo)
  IN /\ At(p, "revokeAll")
     /\ row' = [s \in Session |-> IF s \in live THEN "revoked" ELSE row[s]]
     /\ IF Cardinality(live) > 1 THEN job' = [job EXCEPT ![p].todo = rest, ![p].sids = live]
        ELSE IF Tail(rest) = <<>> THEN Done(p)
        ELSE Goto(p, Tail(rest))
     /\ UNCHANGED <<signin, account, owner, denied, counts, history>>

\* UPDATE sessions ... WHERE revoked_at IS NULL RETURNING id: only these go on to
\* the deny list.
RevokeAll(p) ==
  LET live == {s \in Session : owner[s] = job[p].user /\ row[s] = "live"}
      rest == Tail(job[p].todo)
  IN /\ At(p, "revokeAll")
     /\ row' = [s \in Session |-> IF s \in live THEN "revoked" ELSE row[s]]
     /\ IF live # {} THEN job' = [job EXCEPT ![p].todo = rest, ![p].sids = live]
        ELSE IF Tail(rest) = <<>> THEN Done(p)
        ELSE Goto(p, Tail(rest))
     /\ UNCHANGED <<signin, account, owner, denied, counts, history>>

Deny(p) ==
  /\ At(p, "deny")
  /\ denied' = denied \cup job[p].sids
  /\ IF Tail(job[p].todo) = <<>> THEN Done(p)
     ELSE job' = [job EXCEPT ![p].todo = Tail(@), ![p].sids = {}]
  /\ UNCHANGED <<signin, account, owner, row, counts, history>>

Uncache(p) ==
  /\ At(p, "uncache")
  /\ cached' = [cached EXCEPT ![job[p].user] = NoRow]
  /\ Proceed(p)
  /\ UNCHANGED <<signin, users, sessions, counts, history>>

-----------------------------------------------------------------------------
(* Failures and the worker. *)

\* A command fails or the process dies: the rest is not done.  A pipeline may
\* have written some of its keys.  A handler that has only read leaves no trace
\* when it fails, and is not counted.
Fail(p) ==
  /\ job[p] # Idle /\ Head(job[p].todo) \notin {"select", "query", "fill", "accepted"}
  /\ fails < MaxFail /\ fails' = fails + 1
  /\ \E part \in SUBSET job[p].sids :
       /\ At(p, "deny") \/ part = {}
       /\ denied' = denied \cup part
       /\ lost' = lost \cup (job[p].sids \ part)
  /\ Done(p)
  /\ UNCHANGED <<signin, account, owner, row, submits, ops, opened, shared>>

\* purgeDeletedAccounts, one transaction, when the grace period is over.
Purge(u) ==
  /\ users[u].status = "deleted"
  /\ users' = [users EXCEPT ![u] = Purged]
  /\ row' = [s \in Session |-> IF owner[s] = u THEN "purged" ELSE row[s]]
  /\ tries' = [c \in Code |-> Closed]
  /\ UNCHANGED <<sent, lock, lockTtl, cached, owner, denied, job, counts, history>>

SignInStep(p) ==
  \/ SelectCode(p) \/ Attempt(p) \/ Burn(p) \/ Wrong(p) \/ SetTtl(p)
  \/ Consume(p) \/ FindUser(p) \/ CreateUser(p) \/ Open(p)
RequestStep(p) == QueryUser(p) \/ FillCache(p) \/ View(p)
OperationStep(p) == SetUser(p) \/ RevokeOne(p) \/ RevokeAll(p) \/ Deny(p) \/ Uncache(p)
Step(p) == SignInStep(p) \/ RequestStep(p) \/ OperationStep(p)

Start(p) ==
  \/ Submit(p) \/ UpdateProfile(p) \/ DeleteAccount(p)
  \/ \E s \in Session : Request(p, s) \/ RevokeSession(p, s) \/ Logout(p, s)
  \/ \E u \in User : Suspend(p, u) \/ Unsuspend(p, u) \/ \E r \in Role : ChangeRole(p, u, r)

Environment ==
  \/ SendCode \/ LockExpires
  \/ \E c \in Code : CodeExpires(c)
  \/ \E u \in User : CacheExpires(u) \/ Purge(u)

Next == Environment \/ \E p \in Proc : Start(p) \/ Step(p) \/ Fail(p)

\* Handlers go on, and Redis expires keys.
Fairness ==
  /\ \A p \in Proc : WF_vars(Step(p))
  /\ WF_vars(LockExpires) /\ \A u \in User : WF_vars(CacheExpires(u))

Spec == Init /\ [][Next]_vars /\ Fairness

-----------------------------------------------------------------------------
\* A code that no two submissions held at the same time opens one session at
\* most, and any code no more than there are submissions at a time: the row is
\* read, counted and consumed by three statements (verifyCodeAction).  The lock
\* of an address counts every wrong code, whatever becomes of the attempts of a
\* code, which are written from stale values: it is passed by no more
\* submissions than are under way when it closes.
GuessesBounded ==
  /\ \A c \in Code : opened[c] <= (IF c \in shared THEN Cardinality(Proc) ELSE 1)
  /\ lock + Cardinality({p \in Proc : At(p, "wrong")}) <= LockThreshold + Cardinality(Proc) - 1

\* A revocation reaches the deny list: a session that is revoked in Postgres is
\* denied, or a handler is about to, or a failure came between the two stores.
\* The repeated revocation of such a session finds no row and does not help.
RevokedIsRefused ==
  \A s \in Session : row[s] = "revoked" =>
    \/ s \in denied \cup lost
    \/ \E p \in Proc : s \in job[p].sids

\* The user a request with the token of s acts as, NoRow if it is refused.
ActsAs(s) ==
  LET u == owner[s]
      e == IF cached[u] # NoRow THEN cached[u] ELSE users[u]
  IN IF u = 0 \/ s \in denied THEN NoRow
     ELSE IF e.status = "active" THEN e ELSE NoRow

\* In the end nobody acts with rights the user's row does not give: a suspended,
\* deleted or demoted user loses them whatever failed and whoever filled the
\* cache meanwhile.
RightsFollowRow ==
  <>[](\A s \in Session : ActsAs(s) = NoRow \/ ActsAs(s) = users[owner[s]])

\* A locked address is unlocked again, unless a failure came between the count
\* and its time to live.
EventuallyUnlocked ==
  lock >= LockThreshold ~> (lock < LockThreshold \/ (fails > 0 /\ ~lockTtl))

=============================================================================
