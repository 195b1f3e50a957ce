------------------------------- MODULE Codes -------------------------------
(***************************************************************************)
(* The back-halves of several links: who gets a code, whom it answers for. *)
(*                                                                         *)
(* Five ways lead to createLink (packages/shorten/src/create.ts): the      *)
(* dashboard's form with a monthly quota, the public API with an           *)
(* idempotency key, the home page with and without an account, and the     *)
(* bulk import, which is BulkImport.  A link without an owner is claimed   *)
(* by the browser that made it.  changeSlugAction renames a link and keeps *)
(* its old codes as aliases.  deleteLinkAction deletes one link and the     *)
(* worker's purge those of an account; their codes and aliases are free    *)
(* again.  LinkCache looks at one link and all that is cached of it; here  *)
(* an entry is the link it leads to, or says that there is none.           *)
(*                                                                         *)
(* A handler is what is left of it to do: job[p].todo.  A refusal by the   *)
(* safety checks, a captcha, a plan or a rate limit is one outcome.        *)
(***************************************************************************)
EXTENDS Integers, Sequences, FiniteSets, Functions

CONSTANTS
  Proc,          \* handlers that may run at the same time
  Code,          \* back-halves
  Reserved,      \* those of the reserved list, and profanities
  First,         \* the code of the link that is there in the beginning
  Retries,       \* SLUG_MAX_RETRIES (3)
  HistoryMax,    \* CUSTOM_SLUG_HISTORY_MAX (5)
  Quota,         \* linksPerMonth of the owner's plan
  MaxIds,        \* MAX_IDS: links a browser remembers (20)
  MaxLink,       \* bound: links
  MaxStart,      \* bound: operations started
  MaxFail        \* bound: failures

AllOp == {"form", "api", "quick", "anon", "claim", "rename", "delete"}

NoCode == "none"

ASSUME CodesAssumption ==
  /\ First \in Code \ Reserved /\ NoCode \notin Code /\ IsFiniteSet(Code) /\ IsFiniteSet(Proc)
  /\ {Retries, Quota, MaxStart, MaxFail} \subseteq Nat
  /\ {HistoryMax, MaxIds, MaxLink} \subseteq Nat \ {0}

Link == 1..MaxLink
NoLink == 0

\* 'DISABLED' under the code of a deleted link: answered without a query.
Off == -1

VARIABLES
  code,      \* code[l]: links.code, NoCode while there is no such row
  prev,      \* prev[l]: links.previous_codes, oldest first
  owned,     \* links that have an owner
  gone,      \* links that were deleted; an id is not given again
  hot,       \* hot[c]: the link whose payload Redis has under c, or Off
  used,      \* the owner's counter of the month
  stored,    \* the answer kept under the owner's idempotency key
  cookie,    \* the browser's claim cookie, newest first
  job,       \* job[p]: the operation p is at
  look,      \* a visitor's lookup
  starts, fails,
  formed,    \* history: links made through the form
  keyed,     \* history: links made under the idempotency key
  overlaps,  \* history: operations that ran beside another of their kind
  taken,     \* history: codes given away although somebody answered for them
  late       \* history: codes whose entry nobody is obliged to flush or correct

rows == <<code, prev, owned, gone>>
redis == <<hot, used, stored>>
counts == <<starts, fails>>
history == <<formed, keyed, overlaps, taken, late>>
vars == <<rows, redis, cookie, job, look, counts, history>>

\* What is left of each operation.
Todo ==
  [form   |-> <<"quota", "reserve", "persist", "count", "flush">>,
   api    |-> <<"replay", "reserve", "persist", "store">>,
   quick  |-> <<"reserve", "persist">>,
   anon   |-> <<"reserve", "persist", "remember">>,
   claim  |-> <<"claim", "clear">>,
   rename |-> <<"reserve", "holder", "update", "flushOld", "flush">>,
   delete |-> <<"delete", "sentinel">>]

Step == UNION {Range(Todo[o]) : o \in AllOp}

\* to: the code it is about.  custom: the owner chose it.  link: the link it
\* works on, was and before: its code and aliases as they were read.  ids: the
\* cookie the request carried.  raced: links were renamed since it read.
Job == [op : AllOp \cup {"idle"}, todo : Seq(Step), to : Code \cup {NoCode}, custom : BOOLEAN,
        tries : Nat, link : Link \cup {NoLink}, was : Code \cup {NoCode}, before : Seq(Code),
        ids : Seq(Link), raced : BOOLEAN]
Idle == [op |-> "idle", todo |-> <<>>, to |-> NoCode, custom |-> FALSE, tries |-> 0,
         link |-> NoLink, was |-> NoCode, before |-> <<>>, ids |-> <<>>, raced |-> FALSE]

Look == [pc : {"idle", "alias", "fill"}, key : Code, found : Link \cup {NoLink}]
NoLook == [pc |-> "idle", key |-> First, found |-> NoLink]

\* Types; codes of links are unique, the index of the table; a history of codes
\* is bounded and free of repetitions.
TypeOK ==
  /\ code \in [Link -> Code \cup {NoCode}]
  /\ \A a, b \in Link : a # b /\ code[a] = code[b] => code[a] = NoCode
  /\ prev \in [Link -> Seq(Code)]
  /\ \A l \in Link : Len(prev[l]) <= HistoryMax /\ Cardinality(Range(prev[l])) = Len(prev[l])
  /\ owned \subseteq Link /\ gone \subseteq Link
  /\ hot \in [Code -> Link \cup {NoLink, Off}]
  /\ used \in Nat /\ stored \in Link \cup {NoLink}
  /\ cookie \in Seq(Link) /\ Len(cookie) <= MaxIds
  /\ job \in [Proc -> Job] /\ look \in Look
  /\ starts \in 0..MaxStart /\ fails \in 0..MaxFail
  /\ formed \in Nat /\ keyed \subseteq Link
  /\ overlaps \subseteq AllOp /\ taken \subseteq Code /\ late \subseteq Code

\* One link of the owner, which had another code before or had not.
Init ==
  /\ code = [l \in Link |-> IF l = 1 THEN First ELSE NoCode]
  /\ \E old \in {<<>>} \cup {<<c>> : c \in Code \ (Reserved \cup {First})} :
       prev = [l \in Link |-> IF l = 1 THEN old ELSE <<>>]
  /\ owned = {1} /\ gone = {}
  /\ hot = [c \in Code |-> NoLink] /\ used = 0 /\ stored = NoLink /\ cookie = <<>>
  /\ job = [p \in Proc |-> Idle] /\ look = NoLook
  /\ starts = 0 /\ fails = 0
  /\ formed = 0 /\ keyed = {} /\ overlaps = {} /\ taken = {} /\ late = {}

At(p, step) == job[p].todo # <<>> /\ Head(job[p].todo) = step
Done(p) == job' = [job EXCEPT ![p] = Idle]
Proceed(p) ==
  IF Tail(job[p].todo) = <<>> THEN Done(p)
  ELSE job' = [job EXCEPT ![p].todo = Tail(@)]

Exists(l) == code[l] # NoCode
Holders(c) == {l \in Link : code[l] = c}

\* The unique index over codes lets link l have c.
Free(c, l) == Holders(c) \subseteq {l}

Aliased(c) == {l \in Link : Exists(l) /\ c \in Range(prev[l])}

-----------------------------------------------------------------------------
(* Starting an operation. *)

\* A link is asked for under a code, or under one that is drawn.
Begin(p, o, c) ==
  /\ job[p] = Idle /\ starts < MaxStart
  /\ job' = [job EXCEPT ![p] = [Idle EXCEPT !.op = o, !.todo = Todo[o], !.to = c,
                                   !.custom = (c # NoCode), !.ids = cookie]]
  /\ starts' = starts + 1
  /\ overlaps' = IF \E q \in Proc : job[q].op = o THEN overlaps \cup {o} ELSE overlaps
  /\ UNCHANGED <<rows, redis, cookie, look, fails, formed, keyed, taken, late>>

CreatePowerLink(p) == \E c \in Code \cup {NoCode} : Begin(p, "form", c)

\* With an idempotency key, and without.
PostLink(p) == \E c \in Code \cup {NoCode}, o \in {"api", "quick"} : Begin(p, o, c)

\* The home page, signed in or not.
Shorten(p) == \E o \in {"quick", "anon"} : Begin(p, o, NoCode)

\* Signing in.
Claim(p) ==
  /\ job[p] = Idle /\ starts < MaxStart
  /\ job' = [job EXCEPT ![p] = [Idle EXCEPT !.op = "claim", !.ids = cookie,
       !.todo = IF cookie = <<>> THEN <<"clear">> ELSE Todo.claim]]
  /\ starts' = starts + 1
  /\ UNCHANGED <<rows, redis, cookie, look, fails, history>>

\* The owner renames a link; the row is read first, and a code that stays the
\* same is no operation.
Rename(p, l, c) ==
  /\ job[p] = Idle /\ starts < MaxStart
  /\ Exists(l) /\ l \in owned /\ c # code[l]
  /\ job' = [job EXCEPT ![p] = [Idle EXCEPT !.op = "rename", !.todo = Todo.rename,
       !.to = c, !.link = l, !.was = code[l], !.before = prev[l]]]
  /\ starts' = starts + 1
  /\ UNCHANGED <<rows, redis, cookie, look, fails, history>>

\* The owner deletes a link; the row is read first.
DeleteLink(p, l) ==
  /\ job[p] = Idle /\ starts < MaxStart
  /\ Exists(l) /\ l \in owned
  /\ job' = [job EXCEPT ![p] = [Idle EXCEPT !.op = "delete", !.todo = Todo.delete,
                                   !.to = code[l], !.link = l]]
  /\ starts' = starts + 1
  /\ UNCHANGED <<rows, redis, cookie, look, fails, history>>

\* A gate before the code is looked at: a plan, a captcha, the safety checks.
Refuse(p) ==
  /\ At(p, "reserve") /\ job[p].op # "rename" /\ job[p].tries = 0
  /\ Done(p)
  /\ UNCHANGED <<rows, redis, cookie, look, counts, history>>

-----------------------------------------------------------------------------
(* createLink. *)

CheckQuota(p) ==
  /\ At(p, "quota")
  /\ IF used >= Quota THEN Done(p) ELSE Proceed(p)
  /\ UNCHANGED <<rows, redis, cookie, look, counts, history>>

\* Mutant of Replay: a kept answer is not looked for.
ReplayNot(p) ==
  /\ At(p, "replay")
  /\ Proceed(p)
  /\ UNCHANGED <<rows, redis, cookie, look, counts, history>>

Replay(p) ==
  /\ At(p, "replay")
  /\ IF stored # NoLink THEN Done(p) ELSE Proceed(p)
  /\ UNCHANGED <<rows, redis, cookie, look, counts, history>>

\* A chosen code is tried once; of the others generateSlug draws any.
Chosen(p) == job[p].custom \/ job[p].op = "rename"
Tried(p) == IF job[p].to = NoCode THEN Code ELSE {job[p].to}

\* A code that is not to be had: a chosen one is refused, another is drawn as
\* long as attempts are left.
Collide(p) ==
  IF Chosen(p) \/ job[p].tries = Retries THEN Done(p)
  ELSE job' = [job EXCEPT ![p].tries = @ + 1, ![p].to = NoCode,
                          ![p].todo = IF Head(@) = "reserve" THEN @ ELSE <<"reserve">> \o @]

Reserve(p) ==
  /\ At(p, "reserve")
  /\ \E c \in Tried(p) :
       IF c \in Reserved THEN Collide(p)
       ELSE job' = [job EXCEPT ![p].todo = Tail(@), ![p].to = c]
  /\ UNCHANGED <<rows, redis, cookie, look, counts, history>>

\* A write of the links table, as seen by the renames that have read it.
Racing(p, next) ==
  [q \in Proc |-> IF q = p THEN next
                  ELSE [job[q] EXCEPT !.raced = @ \/ job[q].op = "rename"]]

\* INSERT ... ON CONFLICT DO NOTHING.  The index is over codes; nobody asks who
\* else may have had this one.
Persist(p) ==
  LET c == job[p].to IN
  /\ At(p, "persist")
  /\ IF ~Free(c, NoLink)
     THEN Collide(p) /\ UNCHANGED <<rows, history>>
     ELSE \E l \in Link :
       /\ ~Exists(l) /\ l \notin gone
       /\ \A k \in 1..(l - 1) : Exists(k) \/ k \in gone
       /\ code' = [code EXCEPT ![l] = c]
       /\ owned' = IF job[p].op = "anon" THEN owned ELSE owned \cup {l}
       /\ job' = Racing(p, IF Tail(job[p].todo) = <<>> THEN Idle
                           ELSE [job[p] EXCEPT !.todo = Tail(@), !.link = l])
       /\ taken' = IF Aliased(c) # {} THEN taken \cup {c} ELSE taken
       \* Only the form drops what is cached under the code.
       /\ late' = IF hot[c] # NoLink /\ job[p].op # "form" THEN late \cup {c} ELSE late
       /\ formed' = IF job[p].op = "form" THEN formed + 1 ELSE formed
       /\ keyed' = IF job[p].op = "api" THEN keyed \cup {l} ELSE keyed
       /\ UNCHANGED <<prev, gone, overlaps>>
  /\ UNCHANGED <<redis, cookie, look, counts>>

Count(p) ==
  /\ At(p, "count")
  /\ used' = used + 1
  /\ Proceed(p)
  /\ UNCHANGED <<rows, hot, stored, cookie, look, counts, history>>

\* SET NX: the first answer is kept.
Store(p) ==
  /\ At(p, "store")
  /\ stored' = IF stored = NoLink THEN job[p].link ELSE stored
  /\ Proceed(p)
  /\ UNCHANGED <<rows, hot, used, cookie, look, counts, history>>

-----------------------------------------------------------------------------
(* The claim cookie: a request carries it, the response replaces it. *)

\* What the response p is about to give overtakes what other responses said.
Reply(p, ids) ==
  /\ cookie' = ids
  /\ job' = [job EXCEPT ![p] = Idle]

\* addClaimableLink
Remember(p) ==
  LET ids == <<job[p].link>> \o job[p].ids
  IN /\ At(p, "remember")
     /\ Reply(p, SubSeq(ids, 1, IF Len(ids) > MaxIds THEN MaxIds ELSE Len(ids)))
     /\ UNCHANGED <<rows, redis, look, counts, history>>

\* claimPendingLinks: the links that still have no owner.  A day is not over.
ClaimPending(p) ==
  /\ At(p, "claim")
  /\ owned' = owned \cup {l \in Range(job[p].ids) : Exists(l)}
  /\ Proceed(p)
  /\ UNCHANGED <<code, prev, gone, redis, cookie, look, counts, history>>

\* The response deletes the cookie.
Clear(p) ==
  /\ At(p, "clear")
  /\ Reply(p, <<>>)
  /\ UNCHANGED <<rows, redis, look, counts, history>>

-----------------------------------------------------------------------------
(* changeSlugAction. *)

\* Mutant of Holder: only present codes are looked at.
HolderNow(p) ==
  /\ At(p, "holder")
  /\ IF Holders(job[p].to) \ {job[p].link} # {} THEN Done(p) ELSE Proceed(p)
  /\ UNCHANGED <<rows, redis, cookie, look, counts, history>>

\* One of the links that have the code or had it: it must be this one.
Holder(p) ==
  LET holders == Holders(job[p].to) \cup Aliased(job[p].to) IN
  /\ At(p, "holder")
  /\ \/ holders \ {job[p].link} # {} /\ Done(p)
     \/ (holders = {} \/ job[p].link \in holders) /\ Proceed(p)
  /\ UNCHANGED <<rows, redis, cookie, look, counts, history>>

\* s without c, which it has once at the most.
Without(s, c) ==
  IF c \in Range(s) THEN LET i == CHOOSE i \in DOMAIN s : s[i] = c
                         IN  SubSeq(s, 1, i - 1) \o SubSeq(s, i + 1, Len(s))
  ELSE s

\* rollPreviousCodes: the retired code joins, the claimed one leaves, the oldest
\* fall out.  A history has no code twice.
Roll(previous, retired, claimed) ==
  LET all == IF retired \in Range(previous) THEN previous ELSE Append(previous, retired)
      kept == Without(all, claimed)
  IN SubSeq(kept, IF Len(kept) > HistoryMax THEN Len(kept) - HistoryMax + 1 ELSE 1, Len(kept))

\* The row as it was read decides what is written; the index over codes is the
\* only thing that is asked again.  Of a link that is gone nothing is written,
\* and the rename goes on as if it were.
Update(p) ==
  LET l == job[p].link  c == job[p].to
      was == Roll(job[p].before, job[p].was, c)
      before == {code[l]} \cup Range(prev[l])
      others == UNION {{code[k]} \cup Range(prev[k]) : k \in Link \ {l}}
  IN /\ At(p, "update")
     /\ IF ~Exists(l) THEN Proceed(p) /\ UNCHANGED <<rows, history>>
        ELSE IF ~Free(c, l) THEN Done(p) /\ UNCHANGED <<rows, history>>
        ELSE /\ code' = [code EXCEPT ![l] = c]
             /\ prev' = [prev EXCEPT ![l] = was]
             /\ job' = Racing(p, [job[p] EXCEPT !.todo = Tail(@)])
             /\ taken' = IF job[p].raced THEN taken \cup (({c} \cup Range(was)) \cap others)
                         ELSE taken
             \* Nobody flushes a code that falls out, one that was not read, or an
             \* alias that comes back where another link was deleted.
             /\ late' = late \cup {d \in before \ ({c} \cup Range(was)) : hot[d] # NoLink}
                             \cup {d \in Range(was) \ {job[p].was} : hot[d] = Off}
             /\ UNCHANGED <<owned, gone, formed, keyed, overlaps>>
     /\ UNCHANGED <<redis, cookie, look, counts>>

\* DEL: whatever comes next is read from the rows.
Drop(c) ==
  /\ hot' = [hot EXCEPT ![c] = NoLink]
  /\ late' = late \ {c}

FlushOld(p) ==
  /\ At(p, "flushOld")
  /\ Drop(job[p].was)
  /\ Proceed(p)
  /\ UNCHANGED <<rows, used, stored, cookie, look, counts, formed, keyed, overlaps, taken>>

\* The end of a rename, and of a link made through the form.
Flush(p) ==
  /\ At(p, "flush")
  /\ Drop(job[p].to)
  /\ Proceed(p)
  /\ UNCHANGED <<rows, used, stored, cookie, look, counts, formed, keyed, overlaps, taken>>

-----------------------------------------------------------------------------
(* Deletion, by the owner or with the account. *)

\* The links a lookup of c may find now.
Answers(c) == IF Holders(c) # {} THEN Holders(c) ELSE Aliased(c)

Names(l) == {code[l]} \cup Range(prev[l])

\* The rows of ls are deleted.
Remove(ls) ==
  /\ code' = [l \in Link |-> IF l \in ls THEN NoCode ELSE code[l]]
  /\ prev' = [l \in Link |-> IF l \in ls THEN <<>> ELSE prev[l]]
  /\ owned' = owned \ ls /\ gone' = gone \cup ls

\* By id: whatever codes the link has by now are free.  The sentinel is for the
\* code that was read; nobody does anything about the entries of the others.
DeleteRow(p) ==
  LET l == job[p].link IN
  /\ At(p, "delete")
  /\ IF Exists(l)
     THEN /\ Remove({l})
          /\ late' = late \cup {d \in Names(l) \ {job[p].to} : hot[d] = l}
     ELSE UNCHANGED <<rows, late>>
  /\ Proceed(p)
  /\ UNCHANGED <<redis, cookie, look, counts, formed, keyed, overlaps, taken>>

\* SET 'DISABLED', whoever has the code by now.
Sentinel(p) ==
  LET c == job[p].to IN
  /\ At(p, "sentinel")
  /\ hot' = [hot EXCEPT ![c] = Off]
  /\ late' = IF Answers(c) = {} THEN late \ {c} ELSE late \cup {c}
  /\ Proceed(p)
  /\ UNCHANGED <<rows, used, stored, cookie, look, counts, formed, keyed, overlaps, taken>>

\* purgeDeletedAccounts, for the owner: a month after he could do anything.  Not
\* one entry is touched.  The next account has a counter and a key of its own.
Purge ==
  /\ owned # {} /\ \A p \in Proc : job[p].op \in {"idle", "anon"}
  /\ Remove(owned)
  /\ late' = late \cup {c \in Code : hot[c] \in owned}
  /\ used' = 0 /\ stored' = NoLink /\ formed' = 0 /\ keyed' = {}
  /\ UNCHANGED <<hot, cookie, job, look, counts, overlaps, taken>>

-----------------------------------------------------------------------------
(* A visitor: resolveCachedLink and lookupLink, down to which link it is. *)

\* Nothing is cached; the first query.
ExactQuery(c) ==
  /\ look.pc = "idle" /\ hot[c] = NoLink
  /\ IF Holders(c) = {} THEN look' = [NoLook EXCEPT !.pc = "alias", !.key = c]
     ELSE \E l \in Holders(c) : look' = [pc |-> "fill", key |-> c, found |-> l]
  /\ UNCHANGED <<rows, redis, cookie, job, counts, history>>

AliasQuery ==
  /\ look.pc = "alias"
  /\ IF Aliased(look.key) = {} THEN look' = NoLook
     ELSE \E l \in Aliased(look.key) : look' = [look EXCEPT !.pc = "fill", !.found = l]
  /\ UNCHANGED <<rows, redis, cookie, job, counts, history>>

Fill ==
  LET c == look.key IN
  /\ look.pc = "fill"
  /\ hot' = [hot EXCEPT ![c] = look.found]
  /\ late' = IF look.found \in Answers(c) THEN late \ {c} ELSE late \cup {c}
  /\ look' = NoLook
  /\ UNCHANGED <<rows, used, stored, cookie, job, counts, formed, keyed, overlaps, taken>>

Expire(c) ==
  /\ hot[c] # NoLink
  /\ Drop(c)
  /\ UNCHANGED <<rows, used, stored, cookie, job, look, counts, formed, keyed, overlaps, taken>>

-----------------------------------------------------------------------------
(* Failures. *)

\* Codes whose entry p is still to flush or to replace, its rows being written.
Owes(p) ==
  IF \/ job[p].todo = <<>>
     \/ ~(Range(job[p].todo) \subseteq {"count", "flushOld", "flush", "sentinel"}) THEN {}
  ELSE {job[p].to} \cup (IF At(p, "flushOld") THEN {job[p].was} ELSE {})

\* A Redis command fails whose error is swallowed.
Swallow(p) ==
  /\ fails < MaxFail /\ fails' = fails + 1
  /\ \E s \in {"quota", "replay", "count", "store", "flushOld", "flush", "sentinel"} : At(p, s)
  /\ Proceed(p)
  /\ late' = late \cup (IF At(p, "flush") \/ At(p, "sentinel") THEN {job[p].to}
                        ELSE IF At(p, "flushOld") THEN {job[p].was} ELSE {})
  /\ UNCHANGED <<rows, redis, cookie, look, starts, formed, keyed, overlaps, taken>>

\* The handler dies, or an error ends it; the browser gets no answer, though
\* the cookie may be gone all the same.
Fail(p) ==
  /\ fails < MaxFail /\ fails' = fails + 1
  /\ job[p] # Idle
  /\ late' = late \cup Owes(p)
  /\ \/ Done(p) /\ cookie' = cookie
     \/ job[p].op = "claim" /\ Reply(p, <<>>)
  /\ UNCHANGED <<rows, redis, look, starts, formed, keyed, overlaps, taken>>

Operate(p) ==
  \/ CreatePowerLink(p) \/ PostLink(p) \/ Shorten(p) \/ Claim(p)
  \/ Refuse(p) \/ CheckQuota(p) \/ Replay(p) \/ Reserve(p) \/ Persist(p)
  \/ Count(p) \/ Store(p) \/ Remember(p) \/ ClaimPending(p) \/ Clear(p)
  \/ Holder(p) \/ Update(p) \/ FlushOld(p) \/ Flush(p)
  \/ DeleteRow(p) \/ Sentinel(p) \/ Swallow(p) \/ Fail(p)

Next ==
  \/ \E p \in Proc, l \in Link, c \in Code : Rename(p, l, c)
  \/ \E p \in Proc, l \in Link : DeleteLink(p, l)
  \/ \E p \in Proc : Operate(p)
  \/ Purge
  \/ \E c \in Code : ExactQuery(c) \/ Expire(c)
  \/ AliasQuery \/ Fill

Spec == Init /\ [][Next]_vars

-----------------------------------------------------------------------------
(* Properties. *)

\* A client that repeats a POST under one idempotency key gets one link, unless
\* its requests overlap (each may have looked before the first answer was kept)
\* or a Redis command fails: api-response.ts looks the answer up before the link
\* is made and keeps it after.  The quota is read before a link is made and
\* counted after; the links made through the form exceed it by no more than the
\* handlers beside, one for each command that failed aside.  The API and the home
\* page do not count at all.
CreationBounded ==
  /\ Cardinality(keyed) <= fails + (IF "api" \in overlaps THEN Cardinality(Proc) ELSE 1)
  /\ formed <= Quota + fails + (IF "form" \in overlaps THEN Cardinality(Proc) - 1 ELSE 0)

\* What is cached under c is what a lookup would find now.
Right(c) == hot[c] \in Answers(c) \cup {NoLink} \/ (hot[c] = Off /\ Answers(c) = {})

\* Old codes keep redirecting, so nobody else is to get them: two links have a
\* code in common, present or former, only if createLink gave it away, which
\* does not ask, or a rename was overtaken by another write.  And what is cached
\* under a code is what a lookup would find now, or somebody is about to flush it
\* or to replace it, or for a named reason nobody is: a fill or a write that
\* overlapped, an alias that fell out of the history, a failed command, a new
\* link that was not made through the form; an alias of a link that its owner
\* deleted, any code of an account that was purged; or the sentinel of a deleted
\* link, left where its code has come to another link meanwhile.
CodesAnswerForOne ==
  /\ \A a, b \in Link : a # b => (Names(a) \cap Names(b)) \ {NoCode} \subseteq taken
  /\ \A c \in Code : Right(c) \/ c \in late \/ \E p \in Proc : c \in Owes(p)
=============================================================================
