----------------------------- MODULE LinkCache -----------------------------
(***************************************************************************)
(* One short link and the Redis entries the redirect serves it from.       *)
(*                                                                         *)
(* A visitor's miss reads Postgres in up to three queries and stores the   *)
(* payload without waiting for the answer (apps/web/lib/resolve.ts and     *)
(* hotpath.ts).  The owner, the API, administrators, reporting visitors    *)
(* and the worker's rescan read the link, write its row and then flush     *)
(* the entries of the codes they read.  Nothing orders the two sides.      *)
(*                                                                         *)
(* Every column baked into a payload is abstracted to one version number;  *)
(* the routing rules, which live in another table and are read by another  *)
(* query, have a version of their own, 0 when the link is not routed.      *)
(***************************************************************************)
EXTENDS Integers, Sequences, Functions, SequencesExt

CONSTANTS
  Code,         \* back-halves the link may be given
  First,        \* the code it is created with
  Default,      \* the default host
  Host,         \* the default host, and the custom domain of the link if it has one
  Visitor,      \* redirect requests
  Editor,       \* requests and worker passes that change the link
  Op,           \* the operations the editors use
  HistoryMax,   \* CUSTOM_SLUG_HISTORY_MAX (5)
  Threshold,    \* REPORT_AUTO_REVIEW_THRESHOLD (5)
  MaxOpen,      \* bound: operations started
  MaxLost       \* bound: Redis commands that fail

AllOp == {"edit", "patch", "power", "route", "rename", "disable", "enable",
          "delete", "apiDelete", "adminDisable", "malicious", "clean",
          "dismiss", "report", "rescan"}

ASSUME LinkCacheAssumption ==
  /\ First \in Code
  /\ Default \in Host
  /\ Op \subseteq AllOp /\ Op # {}
  /\ HistoryMax \in Nat \ {0}
  /\ Threshold \in Nat \ {0}
  /\ MaxOpen \in Nat /\ MaxLost \in Nat

VARIABLES
  link,     \* the links row (and, by version, its link_destinations rows)
  cache,    \* cache[k]: the Redis entry under key k
  fill,     \* fill[v]: where visitor v's lookup stands
  edit,     \* edit[e]: where editor e's operation stands
  opened,   \* operations started so far
  lost,     \* Redis commands that failed so far
  late      \* history: keys whose entry nobody is obliged to flush

vars == <<link, cache, fill, edit, opened, lost, late>>

Status == {"active", "disabled_by_user", "disabled_by_admin",
           "disabled_by_safety", "pending_review", "gone"}
Safety == {"unchecked", "clean", "suspicious", "malicious"}

\* gone: the row was deleted.
Row == [code : Code, prev : Seq(Code), status : Status, safety : Safety,
        ver : Nat, rules : Nat, reports : Nat]

Key == Host \X Code

Entry == [kind : {"none", "disabled", "ok"}, ver : Nat, rules : Nat]
None == [kind |-> "none", ver |-> 0, rules |-> 0]
Disabled == [None EXCEPT !.kind = "disabled"]

\* The columns of a served link: ver stands for those the redirect reads, which
\* are all but the rules, kept in rows of their own.
Ok(ver, rules) == [kind |-> "ok", ver |-> ver, rules |-> rules]

Fill == [pc : {"idle", "exact", "alias", "rules", "store"}, key : Key, entry : Entry]
NoFill == [pc |-> "idle", key |-> <<Default, First>>, entry |-> None]

Edit == [pc : {"idle", "write", "flush"}, op : Op, seen : Row, to : Code,
         todo : SUBSET Key, value : Entry]
Fresh == [code |-> First, prev |-> <<>>, status |-> "active", safety |-> "unchecked",
          ver |-> 1, rules |-> 0, reports |-> 0]
Closed == [pc |-> "idle", op |-> CHOOSE o \in Op : TRUE, seen |-> Fresh,
           to |-> First, todo |-> {}, value |-> None]

TypeOK ==
  /\ link \in Row
  /\ Len(link.prev) <= HistoryMax /\ link.code \notin Range(link.prev)
  /\ cache \in [Key -> Entry]
  /\ fill \in [Visitor -> Fill]
  /\ edit \in [Editor -> Edit]
  /\ opened \in 0..MaxOpen
  /\ lost \in 0..MaxLost
  /\ late \subseteq Key

\* A link just created, plain or routed, and a cold cache.
Init ==
  /\ \E routed \in BOOLEAN : link = [Fresh EXCEPT !.rules = IF routed THEN 1 ELSE 0]
  /\ cache = [k \in Key |-> None]
  /\ fill = [v \in Visitor |-> NoFill]
  /\ edit = [e \in Editor |-> Closed]
  /\ opened = 0 /\ lost = 0
  /\ late = {}

-----------------------------------------------------------------------------
(***************************************************************************)
(* What the row says of a key.                                             *)
(***************************************************************************)
Exists == link.status # "gone"

Servable ==
  /\ link.status = "active"
  /\ link.safety \notin {"suspicious", "malicious"}

Resolves(k) == Exists /\ (k[2] = link.code \/ k[2] \in Range(link.prev))

\* What a lookup that runs undisturbed would store.
Answer(k) ==
  IF ~Resolves(k) THEN None
  ELSE IF Servable THEN Ok(link.ver, link.rules) ELSE Disabled

\* A redirect is served from k that the row does not ask for.
Stale(k) == cache[k].kind = "ok" /\ cache[k] # Answer(k)

-----------------------------------------------------------------------------
(***************************************************************************)
(* The visitor: resolveCachedLink, lookupLink, buildCachedLink.            *)
(***************************************************************************)

\* GET misses, or fails and counts as a miss. A hit changes nothing.
Get(v, k) ==
  /\ fill[v].pc = "idle"
  /\ \/ cache[k] = None /\ UNCHANGED lost
     \/ lost < MaxLost /\ lost' = lost + 1
  /\ fill' = [fill EXCEPT ![v] = [pc |-> "exact", key |-> k, entry |-> None]]
  /\ UNCHANGED <<link, cache, edit, opened, late>>

\* The row is found: a routed link has its rules read next.
Found(v) ==
  fill' = [fill EXCEPT
    ![v].pc = IF Servable /\ link.rules # 0 THEN "rules" ELSE "store",
    ![v].entry = IF Servable THEN Ok(link.ver, 0) ELSE Disabled]

ExactQuery(v) ==
  /\ fill[v].pc = "exact"
  /\ IF Exists /\ fill[v].key[2] = link.code
     THEN Found(v)
     ELSE fill' = [fill EXCEPT ![v].pc = "alias"]
  /\ UNCHANGED <<link, cache, edit, opened, lost, late>>

AliasQuery(v) ==
  /\ fill[v].pc = "alias"
  /\ IF Exists /\ fill[v].key[2] \in Range(link.prev)
     THEN Found(v)
     ELSE fill' = [fill EXCEPT ![v] = NoFill]      \* 404, not cached
  /\ UNCHANGED <<link, cache, edit, opened, lost, late>>

RulesQuery(v) ==
  /\ fill[v].pc = "rules"
  /\ fill' = [fill EXCEPT ![v].pc = "store",
                ![v].entry.rules = IF Exists THEN link.rules ELSE 0]
  /\ UNCHANGED <<link, cache, edit, opened, lost, late>>

\* An entry that is wrong when it is written stays wrong until it expires.
Write(k, entry) ==
  /\ cache' = [cache EXCEPT ![k] = entry]
  /\ late' = IF entry.kind = "ok" /\ entry # Answer(k) THEN late \cup {k} ELSE late \ {k}

\* cacheSet is not awaited, and its failure is swallowed.
Store(v) ==
  /\ fill[v].pc = "store"
  /\ Write(fill[v].key, fill[v].entry) \/ UNCHANGED <<cache, late>>
  /\ fill' = [fill EXCEPT ![v] = NoFill]
  /\ UNCHANGED <<link, edit, opened, lost>>

\* Variant: entries are stored without a time to live.
ExpireNever(k) == FALSE /\ UNCHANGED vars

\* HOT_TTL or DISABLED_TTL passes.
Expire(k) ==
  /\ cache[k] # None
  /\ cache' = [cache EXCEPT ![k] = None]
  /\ late' = late \ {k}
  /\ UNCHANGED <<link, fill, edit, opened, lost>>

-----------------------------------------------------------------------------
(***************************************************************************)
(* The editors: read the link, write it, flush the codes that were read.   *)
(***************************************************************************)

\* What the pages offer: the owner's toggle is hidden on a link that an
\* administrator or the safety system turned off; the rescan passes over
\* malicious links; a report names the current code.
Offered(op) ==
  CASE op = "disable" -> link.status = "active"
    [] op = "enable" ->
         link.status \in {"disabled_by_user", "pending_review"}
    [] op = "rescan" -> link.safety # "malicious"
    [] OTHER -> TRUE

Open(e, op, c) ==
  /\ edit[e] = Closed /\ opened < MaxOpen
  /\ Exists /\ Offered(op)
  /\ c = link.code <=> op # "rename"
  /\ opened' = opened + 1
  /\ edit' = [edit EXCEPT ![e] = [Closed EXCEPT !.pc = "write", !.op = op,
                                    !.seen = link, !.to = c]]
  /\ UNCHANGED <<link, cache, fill, lost, late>>

\* The UPDATE by id, which touches nothing when the row is gone; then the
\* entries of codes are to become value. An editor whose link was renamed
\* since it looked will flush codes the link no longer has.
Commit(e, op, row, codes, value) ==
  /\ edit[e].pc = "write" /\ edit[e].op = op
  /\ link' = IF Exists THEN row ELSE link
  /\ edit' = [edit EXCEPT ![e] =
                IF codes = {} THEN Closed
                ELSE [@ EXCEPT !.pc = "flush", !.todo = {Default} \X codes, !.value = value]]
  /\ late' = IF edit[e].seen.code = link.code THEN late ELSE late \cup {<<Default, link.code>>}
  /\ UNCHANGED <<cache, fill, opened, lost>>

Seen(e) == edit[e].seen
SeenCode(e) == {Seen(e).code}
AllCodes(e) == SeenCode(e) \cup Range(Seen(e).prev)

\* editDestinationAction: the new destination was scanned, or is flagged.
EditDestination(e) ==
  \E s \in {"unchecked", "clean", "suspicious"} :
    Commit(e, "edit", [link EXCEPT !.ver = @ + 1, !.safety = s], SeenCode(e), None)

\* PATCH /api/v1/links/:code: a destination, a cap or an expiry; no scan. The
\* code to flush is the one the UPDATE returned.
Patch(e) ==
  Commit(e, "patch", [link EXCEPT !.ver = @ + 1],
         IF Exists THEN {link.code} ELSE {}, None)

\* Password, expiry, click limit, campaign.
PowerEdit(e) == Commit(e, "power", [link EXCEPT !.ver = @ + 1], AllCodes(e), None)

\* Mode and rules are replaced in one transaction.
SetRouting(e) ==
  \E r \in {0, link.ver + 1} :
    Commit(e, "route", [link EXCEPT !.ver = @ + 1, !.rules = r], AllCodes(e), None)

\* rollPreviousCodes: the retired code joins, the claimed one leaves, only the
\* most recent HistoryMax stay.
KeptCodes(previous, retired, claimed) ==
  SelectSeq(IF retired \in Range(previous) THEN previous ELSE Append(previous, retired),
            LAMBDA c : c # claimed)

Roll(previous, retired, claimed) ==
  LET kept == KeptCodes(previous, retired, claimed)
      drop == IF Len(kept) > HistoryMax THEN Len(kept) - HistoryMax ELSE 0
  IN  SubSeq(kept, drop + 1, Len(kept))

\* Variant: the claimed code is thought to have no entry.
RenameCodesOld(e) == SeenCode(e)
RenameCodes(e) == SeenCode(e) \cup {edit[e].to}

Rename(e) ==
  Commit(e, "rename",
         [link EXCEPT !.code = edit[e].to,
                      !.prev = Roll(Seen(e).prev, Seen(e).code, edit[e].to)],
         RenameCodes(e), None)

Disable(e) ==
  Commit(e, "disable", [link EXCEPT !.status = "disabled_by_user"], SeenCode(e), Disabled)

\* The status is not looked at again.
Enable(e) == Commit(e, "enable", [link EXCEPT !.status = "active"], SeenCode(e), None)

Delete(e) == Commit(e, "delete", [link EXCEPT !.status = "gone"], SeenCode(e), Disabled)

\* DELETE /api/v1/links/:code, whatever the status was.
ApiDelete(e) ==
  Commit(e, "apiDelete", [link EXCEPT !.status = "disabled_by_user"], SeenCode(e), Disabled)

AdminDisable(e) ==
  Commit(e, "adminDisable", [link EXCEPT !.status = "disabled_by_admin"],
         SeenCode(e), Disabled)

MarkMalicious(e) ==
  Commit(e, "malicious",
         [link EXCEPT !.safety = "malicious", !.status = "disabled_by_safety"],
         SeenCode(e), Disabled)

\* The administrator vouches for the link. It comes back on only if the status
\* that was read says that the safety system had turned it off.
MarkClean(e) ==
  LET on == Seen(e).status = "disabled_by_safety" IN
  Commit(e, "clean",
         [link EXCEPT !.safety = "clean",
                      !.status = IF on THEN "active" ELSE @],
         SeenCode(e), None)

DismissReports(e) ==
  LET on == Seen(e).status = "pending_review" IN
  Commit(e, "dismiss",
         [link EXCEPT !.reports = 0, !.status = IF on THEN "active" ELSE @],
         IF on THEN SeenCode(e) ELSE {}, None)

\* The count that was read decides; the column is incremented in place.
Report(e) ==
  LET move == Seen(e).reports + 1 >= Threshold /\ Seen(e).safety # "malicious" IN
  Commit(e, "report",
         [link EXCEPT !.reports = @ + 1, !.status = IF move THEN "pending_review" ELSE @],
         IF move THEN SeenCode(e) ELSE {}, Disabled)

\* The verdict on the destination that was read, written by id.
Rescan(e) ==
  \E bad \in BOOLEAN :
    Commit(e, "rescan",
           [link EXCEPT !.safety = IF bad THEN "malicious" ELSE "clean",
                        !.status = IF bad THEN "disabled_by_safety" ELSE @],
           IF bad THEN SeenCode(e) ELSE {}, Disabled)

-----------------------------------------------------------------------------
\* One DEL, or one SET of the sentinel.
Flush(e) ==
  /\ edit[e].pc = "flush"
  /\ \E k \in edit[e].todo :
       /\ Write(k, edit[e].value)
       /\ edit' = [edit EXCEPT ![e] = IF @.todo = {k} THEN Closed
                                      ELSE [@ EXCEPT !.todo = edit[e].todo \ {k}]]
  /\ UNCHANGED <<link, fill, opened, lost>>

\* Redis does not answer, which is swallowed, or the process dies.
FlushLost(e) ==
  /\ edit[e].pc = "flush" /\ lost < MaxLost
  /\ lost' = lost + 1
  /\ late' = late \cup edit[e].todo
  /\ edit' = [edit EXCEPT ![e] = Closed]
  /\ UNCHANGED <<link, cache, fill, opened>>

\* The deletions of a whole account come weeks after its owner's last request.
Outsider == {"adminDisable", "malicious", "clean", "dismiss", "report", "rescan"}

\* purgeDeletedAccounts: the rows go, and nothing is done about their entries.
Purge ==
  /\ Exists /\ \A e \in Editor : edit[e] = Closed \/ edit[e].op \in Outsider
  /\ link' = [link EXCEPT !.status = "gone"]
  /\ late' = late \cup {<<Default, link.code>>}
  /\ UNCHANGED <<cache, fill, edit, opened, lost>>

-----------------------------------------------------------------------------
Visit(v) == ExactQuery(v) \/ AliasQuery(v) \/ RulesQuery(v) \/ Store(v)

WriteRow(e) ==
  \/ EditDestination(e) \/ Patch(e) \/ PowerEdit(e) \/ SetRouting(e) \/ Rename(e)
  \/ Disable(e) \/ Enable(e) \/ Delete(e) \/ ApiDelete(e)
  \/ AdminDisable(e) \/ MarkMalicious(e) \/ MarkClean(e) \/ DismissReports(e)
  \/ Report(e) \/ Rescan(e)

Next ==
  \/ \E v \in Visitor : (\E k \in Key : Get(v, k)) \/ Visit(v)
  \/ \E e \in Editor :
       \/ \E op \in Op, c \in Code : Open(e, op, c)
       \/ WriteRow(e) \/ Flush(e) \/ FlushLost(e)
  \/ \E k \in Key : Expire(k)
  \/ Purge

\* A lookup ends within the route's timeout, a handler goes on, and Redis
\* expires what it was told to; nobody has to visit or edit.
Fairness ==
  /\ \A v \in Visitor : WF_vars(Visit(v))
  /\ \A e \in Editor : WF_vars(WriteRow(e)) /\ WF_vars(Flush(e))
  /\ \A k \in Key : WF_vars(Expire(k))

Spec == Init /\ [][Next]_vars /\ Fairness

-----------------------------------------------------------------------------
(***************************************************************************)
(* Properties.                                                             *)
(***************************************************************************)

\* On the default host and under its current code, a link is redirected the old
\* way only while an editor that has written still has to flush that entry, or
\* if a lookup overlapped the edit, the flush was lost, a rename got between an
\* editor's read and its write, or the link was purged with its account
\* (purge.ts:42, which flushes nothing). No sequence of whole operations leaves
\* the current code of a link with an entry that nobody will flush.
StaleOnlyByOverlap ==
  LET k == <<Default, link.code>> IN
  Stale(k) => k \in late \/ \E e \in Editor : k \in edit[e].todo

\* Whatever raced or was lost, once the editing stops every entry, under old
\* codes and on the custom domain too, comes to serve what the row says.
EventuallyFresh == <>[](\A k \in Key : ~Stale(k))
=============================================================================
