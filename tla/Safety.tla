------------------------------- MODULE Safety -------------------------------
(***************************************************************************)
(* The blocklist and the checks of a destination.                          *)
(*                                                                         *)
(* The entries are rows in Postgres and, for the checks, two hashes in     *)
(* Redis.  A web process rebuilds the hashes when it starts, from rows it  *)
(* has read before; an administrator's form writes the row and then the    *)
(* hashes, one command at a time.  Nothing ends or repairs an entry until  *)
(* the next start.                                                         *)
(***************************************************************************)
EXTENDS Integers, FiniteSets

CONSTANTS
  Value,          \* what an entry blocks: a registrable domain or a word
  Brand,          \* BRAND_TERMS, seeded when there is no keyword yet
  Host,           \* hosts of destinations that pass validateDestination
  Domain,         \* Domain[h]: the registrable domain of h
  Contains,       \* Contains[h]: words in h that are not all of its second level
  Admin, Server, Check,
  MaxForm, MaxBoot, MaxFail   \* bounds: forms, starts, failures

\* What the constants satisfy; an administrator is not a server.
SafetyAssumption ==
  /\ Brand \subseteq Value /\ {MaxForm, MaxBoot, MaxFail} \subseteq Nat
  /\ Admin \cap Server = {}
  /\ \A h \in Host : Contains[h] \subseteq Value

Policy == {"flag", "reject"}
Entry == [match : {"domain", "keyword"}, policy : Policy]
NoEntry == [match |-> "none", policy |-> "none"]

VARIABLES
  row,               \* row[v]: the row of blocked_domains
  domains, keywords, \* the two hashes: the policy of v, or "none"
  form,              \* form[a]: the administrator's request
  boot,              \* boot[s]: the start of a web process
  check,             \* check[c]: a creation or an edit on its way
  forms, boots, fails,
  alone,             \* history: writers that have met no other
  astray             \* history: values last written to the hashes by writers that met,
                     \* or by one that failed

hashes == <<domains, keywords>>
bounds == <<forms, boots, fails>>
vars == <<row, hashes, form, boot, check, bounds, alone, astray>>

Done == [pc |-> "idle"]
Init ==
  /\ row \in [Value -> {NoEntry} \cup Entry]
  /\ domains = [v \in Value |-> "none"] /\ keywords = [v \in Value |-> "none"]
  /\ form = [a \in Admin |-> Done] /\ boot = [s \in Server |-> Done]
  /\ check = [c \in Check |-> Done]
  /\ forms = 0 /\ boots = 0 /\ fails = 0
  /\ alone = {} /\ astray = Value

-----------------------------------------------------------------------------
(* The decision of checkBlocklist. *)

\* matchKeyword: a keyword that rejects wins over one that flags.
Keyword(words, h) ==
  LET hits == {words[v] : v \in Contains[h]} \cap Policy
  IN  IF "reject" \in hits THEN "reject" ELSE IF hits # {} THEN "flag" ELSE "none"

\* A rejection by either wins over a flag by either.
Decision(domain, keyword) ==
  IF "reject" \in {domain, keyword} THEN "reject"
  ELSE IF "flag" \in {domain, keyword} THEN "flag" ELSE "none"

InDomains(table, h) == IF Domain[h] \in Value THEN table[Domain[h]] ELSE "none"
Kept(match) == [v \in Value |-> IF row[v].match = match THEN row[v].policy ELSE "none"]
ByRows(h) == Decision(InDomains(Kept("domain"), h), Keyword(Kept("keyword"), h))

-----------------------------------------------------------------------------
(* Who writes, and who has met whom. *)

Writing == {a \in Admin : form[a] # Done} \cup {s \in Server : boot[s] # Done}
Comes(w) == alone' = IF Writing = {} THEN {w} ELSE {}
Goes(w, values) ==
  /\ astray' = IF w \in alone THEN astray \ values ELSE astray \cup values
  /\ alone' = alone \ {w}

\* A check that meets a writer may find the hashes on the way.
Meets == check' = [c \in Check |-> IF check[c] = Done THEN Done ELSE [check[c] EXCEPT !.met = TRUE]]

\* The request or the start ends with a failure of Redis, Postgres or the process.
Fail(w, values) ==
  /\ fails < MaxFail /\ fails' = fails + 1
  /\ astray' = astray \cup values /\ alone' = alone \ {w}
  /\ UNCHANGED <<row, hashes, check, forms, boots>>

(* The administrator. *)

\* adminAddBlockEntryAction, adminRemoveBlockEntryAction (NoEntry): the row,
Submit(a, v, e) ==
  /\ form[a] = Done /\ forms < MaxForm
  /\ forms' = forms + 1
  /\ row' = [row EXCEPT ![v] = e]
  /\ form' = [form EXCEPT ![a] = [pc |-> "domain", value |-> v, entry |-> e]]
  /\ Comes(a) /\ Meets
  /\ UNCHANGED <<hashes, boot, boots, fails, astray>>

DropDomainOnRemoval(a) ==
  /\ form[a].pc = "domain"
  /\ domains' = IF form[a].entry = NoEntry THEN [domains EXCEPT ![form[a].value] = "none"] ELSE domains
  /\ form' = [form EXCEPT ![a].pc = "keyword"]
  /\ UNCHANGED <<row, keywords, boot, check, bounds, alone, astray>>

\* two deletions from the hashes,
DropDomain(a) ==
  /\ form[a].pc = "domain"
  /\ domains' = [domains EXCEPT ![form[a].value] = "none"]
  /\ form' = [form EXCEPT ![a].pc = "keyword"]
  /\ UNCHANGED <<row, keywords, boot, check, bounds, alone, astray>>

DropKeyword(a) ==
  /\ form[a].pc = "keyword"
  /\ keywords' = [keywords EXCEPT ![form[a].value] = "none"]
  /\ IF form[a].entry = NoEntry
     THEN form' = [form EXCEPT ![a] = Done] /\ Goes(a, {form[a].value})
     ELSE form' = [form EXCEPT ![a].pc = "add"] /\ UNCHANGED <<alone, astray>>
  /\ UNCHANGED <<row, domains, boot, check, bounds>>

\* and one insertion.
AddEntry(a) ==
  /\ form[a].pc = "add"
  /\ LET v == form[a].value
         set(table) == [table EXCEPT ![v] = form[a].entry.policy]
     IN  IF form[a].entry.match = "domain"
         THEN domains' = set(domains) /\ UNCHANGED keywords
         ELSE keywords' = set(keywords) /\ UNCHANGED domains
  /\ form' = [form EXCEPT ![a] = Done] /\ Goes(a, {form[a].value})
  /\ UNCHANGED <<row, boot, check, bounds>>

FormFails(a) == form[a] # Done /\ form' = [form EXCEPT ![a] = Done] /\ Fail(a, {form[a].value}) /\ UNCHANGED boot

-----------------------------------------------------------------------------
(* A web process starts. *)

\* seedBrandKeywords looks for a keyword,
Start(s) ==
  /\ boot[s] = Done /\ boots < MaxBoot
  /\ boots' = boots + 1
  /\ boot' = [boot EXCEPT ![s] = [pc |-> IF \E v \in Value : row[v].match = "keyword"
                                         THEN "select" ELSE "seed"]]
  /\ Comes(s) /\ Meets
  /\ UNCHANGED <<row, hashes, form, forms, fails, astray>>

\* and adds the brands that have no row;
Seed(s) ==
  /\ boot[s].pc = "seed"
  /\ row' = [v \in Value |-> IF v \in Brand /\ row[v] = NoEntry
                             THEN [match |-> "keyword", policy |-> "flag"] ELSE row[v]]
  /\ boot' = [boot EXCEPT ![s].pc = "select"]
  /\ UNCHANGED <<hashes, form, check, bounds, alone, astray>>

Select(s) ==
  /\ boot[s].pc = "select"
  /\ boot' = [boot EXCEPT ![s] = [pc |-> "clear", domains |-> Kept("domain"), keywords |-> Kept("keyword")]]
  /\ UNCHANGED <<row, hashes, form, check, bounds, alone, astray>>

\* loadBlocklist: a pipeline, which other commands may interrupt.
Clear(s) ==
  /\ boot[s].pc = "clear"
  /\ domains' = [v \in Value |-> "none"] /\ keywords' = [v \in Value |-> "none"]
  /\ boot' = [boot EXCEPT ![s].pc = "load"]
  /\ UNCHANGED <<row, form, check, bounds, alone, astray>>

Merged(table, loaded) == [v \in Value |-> IF loaded[v] # "none" THEN loaded[v] ELSE table[v]]
Load(s) ==
  /\ boot[s].pc = "load"
  /\ domains' = Merged(domains, boot[s].domains) /\ keywords' = Merged(keywords, boot[s].keywords)
  /\ boot' = [boot EXCEPT ![s] = Done] /\ Goes(s, Value)
  /\ UNCHANGED <<row, form, check, bounds>>

\* register catches the failure: the process serves without.
StartFails(s) == boot[s] # Done /\ boot' = [boot EXCEPT ![s] = Done] /\ Fail(s, Value) /\ UNCHANGED form

-----------------------------------------------------------------------------
(* A destination is checked: createLink, editDestinationAction. *)

Begin(c, h) ==
  /\ check[c] = Done
  /\ check' = [check EXCEPT ![c] =
       [pc |-> "domain", host |-> h, domain |-> "none", keyword |-> "none",
        met |-> Writing # {}, astray |-> ({Domain[h]} \cup Contains[h]) \cap astray # {}, open |-> FALSE]]
  /\ UNCHANGED <<row, hashes, form, boot, bounds, alone, astray>>

\* A lookup that fails lets the destination through.
Look(c, from, next, found) ==
  /\ check[c].pc = from
  /\ \/ check' = [check EXCEPT ![c] = [found EXCEPT !.pc = next]] /\ UNCHANGED fails
     \/ /\ fails < MaxFail /\ fails' = fails + 1
        /\ check' = [check EXCEPT ![c].pc = next, ![c].open = TRUE]
  /\ UNCHANGED <<row, hashes, form, boot, forms, boots, alone, astray>>

LookDomain(c) ==
  Look(c, "domain", "keyword", [check[c] EXCEPT !.domain = InDomains(domains, check[c].host)])
\* getBlockKeywords and matchKeyword
LookKeyword(c) ==
  Look(c, "keyword", "scan", [check[c] EXCEPT !.keyword = Keyword(keywords, check[c].host)])

\* What is not rejected is scanned, which may refuse it, pass it or, without an
\* answer, leave it unchecked; a flag makes the link one to review.
Scan(c) ==
  /\ check[c].pc = "scan"
  /\ LET d == Decision(check[c].domain, check[c].keyword)
     IN  \E answer \in (IF d = "reject" THEN {"rejected"} ELSE {"malicious", "clean", "unchecked"}) :
           check' = [check EXCEPT ![c] =
             [pc |-> "decided", host |-> @.host, met |-> @.met, astray |-> @.astray, open |-> @.open,
              admitted |-> answer \in {"clean", "unchecked"}, review |-> d = "flag",
              safety |-> answer]]
  /\ UNCHANGED <<row, hashes, form, boot, bounds, alone, astray>>

Leave(c) ==
  /\ check[c].pc = "decided" /\ check' = [check EXCEPT ![c] = Done]
  /\ UNCHANGED <<row, hashes, form, boot, bounds, alone, astray>>

Next ==
  \/ \E a \in Admin :
       \/ \E v \in Value, e \in Entry \cup {NoEntry} : Submit(a, v, e)
       \/ DropDomain(a) \/ DropKeyword(a) \/ AddEntry(a) \/ FormFails(a)
  \/ \E s \in Server : Start(s) \/ Seed(s) \/ Select(s) \/ Clear(s) \/ Load(s) \/ StartFails(s)
  \/ \E c \in Check :
       LookDomain(c) \/ LookKeyword(c) \/ Scan(c) \/ Leave(c) \/ \E h \in Host : Begin(c, h)

Spec == Init /\ [][Next]_vars

-----------------------------------------------------------------------------
(* Properties. *)

\* A destination is admitted, and queued for review, as the rows say, although
\* only the hashes are asked: unless a lookup failed, a writer was at work
\* meanwhile, or the hashes were last written by writers that met (a start over
\* a form that came after its SELECT, bootstrap.ts:16, or two forms) or failed.
RowsDecide ==
  \A c \in Check :
    check[c].pc = "decided" /\ ~check[c].open /\ ~check[c].met /\ ~check[c].astray =>
      IF ByRows(check[c].host) = "reject" THEN check[c].safety = "rejected"
      ELSE check[c].safety # "rejected" /\ (check[c].review <=> ByRows(check[c].host) = "flag")
=============================================================================
