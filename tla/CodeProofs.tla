----------------------------- MODULE CodeProofs ------------------------------
(***************************************************************************)
(* Proofs about Codes and Safety, for any number of handlers, links, codes *)
(* and operations: the types of the tables, how many links an idempotency  *)
(* key and a quota allow, that a code, present or former, answers for one  *)
(* link, and that the rows of the blocklist decide.                        *)
(***************************************************************************)
EXTENDS MCCodes, FiniteSetTheorems, SequenceTheorems, TLAPS

Runs(j, S) == j.todo # <<>> /\ Head(j.todo) \in S

\* The statements of an operation, what comes after what, and what may be left.
Statements(o) ==
  CASE o = "form" -> {"quota", "reserve", "persist", "count", "flush"}
    [] o = "api" -> {"replay", "reserve", "persist", "store"}
    [] o = "quick" -> {"reserve", "persist"}
    [] o = "anon" -> {"reserve", "persist", "remember"}
    [] o = "claim" -> {"claim", "clear"}
    [] o = "rename" -> {"reserve", "holder", "update", "flushOld", "flush"}
    [] o = "delete" -> {"delete", "sentinel"}
    [] OTHER -> {}

After(o, s) ==
  CASE s \in {"quota", "replay"} -> "reserve"
    [] s = "reserve" -> IF o = "rename" THEN "holder" ELSE "persist"
    [] s = "persist" /\ o = "form" -> "count"
    [] s = "persist" /\ o = "api" -> "store"
    [] s = "persist" /\ o = "anon" -> "remember"
    [] s = "claim" -> "clear"
    [] s = "holder" -> "update"
    [] s = "update" -> "flushOld"
    [] s \in {"count", "flushOld"} -> "flush"
    [] s = "delete" -> "sentinel"
    [] OTHER -> "end"

Left(o, t) ==
  /\ t \in Seq(Step) /\ o \in AllOp \cup {"idle"}
  /\ \A i \in 1..Len(t) : /\ t[i] \in Statements(o)
                          /\ i < Len(t) => t[i + 1] = After(o, t[i])
  /\ t # <<>> => After(o, t[Len(t)]) = "end"

\* A history of codes: bounded and free of repetitions.
Distinct(s) == \A i, j \in 1..Len(s) : s[i] = s[j] => i = j
IsHistory(s) == s \in Seq(Code) /\ Len(s) <= HistoryMax /\ Distinct(s)

\* A code is in hand when the row is written and later, a link once it is made; a
\* rename and a deletion have read one.
JobHolds(j) ==
  /\ Left(j.op, j.todo)
  /\ Runs(j, {"persist", "count", "store", "remember", "flush"}) => j.to \in Code
  /\ Runs(j, {"count", "store", "remember"}) => j.link \in Link
  /\ j.op \in {"rename", "delete"} => j.link \in Link /\ j.to \in Code
  /\ j.op = "rename" => j.was \in Code /\ IsHistory(j.before)

\* A link that is not there has no history.
Tables ==
  /\ code \in [Link -> Code \cup {NoCode}]
  /\ \A a, b \in Link : a # b /\ code[a] = code[b] => code[a] = NoCode
  /\ prev \in [Link -> Seq(Code)]
  /\ \A l \in Link : IsHistory(prev[l]) /\ (~Exists(l) => prev[l] = <<>>)

World ==
  /\ owned \subseteq Link /\ gone \subseteq Link
  /\ hot \in [Code -> Link \cup {NoLink, Off}]
  /\ used \in Nat /\ stored \in Link \cup {NoLink}
  /\ cookie \in Seq(Link) /\ Len(cookie) <= MaxIds /\ look \in Look
  /\ look.pc = "fill" => look.found \in Link
  /\ starts \in 0..MaxStart /\ fails \in 0..MaxFail
  /\ formed \in Nat /\ keyed \subseteq Link
  /\ overlaps \subseteq AllOp /\ taken \subseteq Code /\ late \subseteq Code

CodeTables == Tables /\ World /\ job \in [Proc -> Job] /\ \A p \in Proc : JobHolds(job[p])

-----------------------------------------------------------------------------
(* Sequences of statements, and histories. *)

\* What is left after the statement at hand.
LEMMA TailLeft ==
  ASSUME NEW o, NEW t, Left(o, t), t # <<>>
  PROVE  /\ Left(o, Tail(t)) /\ Head(t) \in Statements(o) /\ Head(t) = t[1] /\ 1 \in DOMAIN t
         /\ Tail(t) = <<>> => After(o, Head(t)) = "end"
         /\ Tail(t) # <<>> => Head(Tail(t)) = After(o, Head(t)) /\ After(o, Head(t)) \in Statements(o)
<1> DEFINE r == Tail(t)
<1>1. t \in Seq(Step) /\ Len(t) \in Nat /\ Len(t) > 0 /\ Head(t) = t[1] /\ 1 \in DOMAIN t
  BY DEF Left
<1>2. r \in Seq(Step) /\ Len(r) = Len(t) - 1 /\ \A i \in 1..Len(r) : r[i] = t[i + 1]
  BY <1>1
<1>3. r # <<>> => Len(r) > 0 /\ Head(r) = r[1]
  BY <1>2
<1>4. r = <<>> => Len(t) = 1
  <2> HIDE DEF r
  <2>1. r = <<>> => Len(r) = 0
    OBVIOUS
  <2> QED
    BY <1>1, <1>2, <2>1
<1> HIDE DEF r
<1>5. Left(o, r)
  <2>1. ASSUME NEW i \in 1..Len(r)
        PROVE  r[i] \in Statements(o) /\ (i < Len(r) => r[i + 1] = After(o, r[i]))
    <3>1. r[i] = t[i + 1] /\ i + 1 \in 1..Len(t) /\ (i < Len(r) => r[i + 1] = t[(i + 1) + 1] /\ i + 1 < Len(t))
      BY <1>1, <1>2
    <3> QED
      BY <3>1 DEF Left
  <2>2. r # <<>> => r[Len(r)] = t[Len(t)]
    BY <1>1, <1>2, <1>3
  <2> QED
    BY <1>1, <1>2, <2>1, <2>2 DEF Left
<1>6. r = <<>> => After(o, Head(t)) = "end"
  BY <1>1, <1>4 DEF Left
<1>7. r # <<>> => Head(r) = After(o, Head(t)) /\ Head(r) \in Statements(o)
  <2>1. SUFFICES ASSUME r # <<>> PROVE r[1] = After(o, t[1]) /\ r[1] \in Statements(o)
    BY <1>1, <1>3
  <2>2. r[1] = t[1 + 1] /\ 1 \in 1..Len(t) /\ 1 < Len(t) /\ 1 + 1 \in 1..Len(t)
    BY <1>1, <1>2, <1>3, <2>1
  <2> QED
    BY <2>2 DEF Left
<1> QED
  BY <1>1, <1>5, <1>6, <1>7 DEF r, Left

LEMMA Onward ==
  ASSUME NEW o, NEW t, Left(o, t), t # <<>>
  PROVE  /\ Head(t) \in {"quota", "replay", "reserve", "persist", "count", "store", "remember",
                         "claim", "clear", "holder", "update", "flushOld", "flush",
                         "delete", "sentinel"}
         /\ Head(t) = "quota" => o = "form" /\ Tail(t) # <<>> /\ Head(Tail(t)) = "reserve"
         /\ Head(t) = "replay" => o = "api" /\ Tail(t) # <<>> /\ Head(Tail(t)) = "reserve"
         /\ Head(t) = "reserve" => /\ o \notin {"idle", "claim", "delete"} /\ Tail(t) # <<>>
                                   /\ Head(Tail(t)) = IF o = "rename" THEN "holder" ELSE "persist"
         /\ Head(t) = "persist" => /\ o \in {"form", "api", "quick", "anon"}
                                   /\ Tail(t) = <<>> <=> o = "quick"
                                   /\ o = "form" => Head(Tail(t)) = "count"
                                   /\ o = "api" => Head(Tail(t)) = "store"
                                   /\ o = "anon" => Head(Tail(t)) = "remember"
         /\ Head(t) = "count" => o = "form" /\ Tail(t) # <<>> /\ Head(Tail(t)) = "flush"
         /\ Head(t) = "store" => o = "api" /\ Tail(t) = <<>>
         /\ Head(t) = "remember" => o = "anon" /\ Tail(t) = <<>>
         /\ Head(t) = "claim" => o = "claim" /\ Tail(t) # <<>> /\ Head(Tail(t)) = "clear"
         /\ Head(t) = "clear" => o = "claim" /\ Tail(t) = <<>>
         /\ Head(t) = "holder" => o = "rename" /\ Tail(t) # <<>> /\ Head(Tail(t)) = "update"
         /\ Head(t) = "update" => o = "rename" /\ Tail(t) # <<>> /\ Head(Tail(t)) = "flushOld"
         /\ Head(t) = "flushOld" => o = "rename" /\ Tail(t) # <<>> /\ Head(Tail(t)) = "flush"
         /\ Head(t) = "flush" => o \in {"form", "rename"} /\ Tail(t) = <<>>
         /\ Head(t) = "delete" => o = "delete" /\ Tail(t) # <<>> /\ Head(Tail(t)) = "sentinel"
         /\ Head(t) = "sentinel" => o = "delete" /\ Tail(t) = <<>>
<1>1. o \in AllOp \cup {"idle"}
  BY DEF Left
<1>2. Head(t) \in Statements(o)
  BY TailLeft
<1>3. IF Tail(t) = <<>> THEN After(o, Head(t)) = "end"
      ELSE Head(Tail(t)) = After(o, Head(t)) /\ After(o, Head(t)) \in Statements(o)
  BY TailLeft
<1> DEFINE h == Head(t)
           r == Tail(t)
<1> HIDE DEF h, r
<1> QED
  BY <1>1, <1>2, <1>3 DEF h, r, AllOp, Statements, After

\* Drawing again.
LEMMA Again ==
  ASSUME NEW o, NEW t, Left(o, t), t # <<>>, Head(t) = "persist"
  PROVE  /\ Left(o, <<"reserve">> \o t) /\ <<"reserve">> \o t # <<>>
         /\ Head(<<"reserve">> \o t) = "reserve"
<1> DEFINE u == <<"reserve">> \o t
           r == <<"reserve">>
<1>1. o \in {"form", "api", "quick", "anon"} /\ Head(t) = t[1]
  BY Onward, TailLeft
<1>2. r \in Seq(Step) /\ t \in Seq(Step) /\ Len(r) = 1 /\ r[1] = "reserve" /\ Len(t) \in Nat \ {0}
  <2>1. "reserve" \in Step
    <3>1. "reserve" \in Range(Todo["quick"])
      BY DEF Todo, Range
    <3> QED
      BY <3>1 DEF Step, AllOp
  <2> QED
    BY <2>1 DEF Left
<1>3. /\ u \in Seq(Step) /\ Len(u) = 1 + Len(t)
      /\ u[1] = "reserve" /\ \A i \in 1..Len(t) : u[i + 1] = t[i]
  <2>1. /\ r \o t \in Seq(Step) /\ Len(r \o t) = Len(r) + Len(t)
        /\ \A i \in 1..(Len(r) + Len(t)) : (r \o t)[i] = IF i <= Len(r) THEN r[i] ELSE t[i - Len(r)]
    <3> HIDE DEF r
    <3> QED
      BY <1>2, ConcatProperties
  <2> HIDE DEF r
  <2>2. u = r \o t
    BY DEF r
  <2> HIDE DEF u
  <2> QED
    BY <1>2, <2>1, <2>2
<1> HIDE DEF u
<1>4. ASSUME NEW i \in 1..Len(u)
      PROVE  u[i] \in Statements(o) /\ (i < Len(u) => u[i + 1] = After(o, u[i]))
  <2>1. CASE i = 1
    <3>1. u[i] = "reserve" /\ u[i + 1] = "persist"
      BY <1>1, <1>2, <1>3, <2>1
    <3> QED
      BY <1>1, <3>1 DEF Statements, After
  <2>2. CASE i # 1
    <3> DEFINE j == i - 1
    <3>1. j \in 1..Len(t) /\ i = j + 1 /\ (i < Len(u) => j < Len(t) /\ j + 1 \in 1..Len(t))
      BY <1>2, <1>3, <2>2
    <3>2. t[j] \in Statements(o) /\ (j < Len(t) => t[j + 1] = After(o, t[j]))
      BY <3>1 DEF Left
    <3>3. u[i] = t[j] /\ (i < Len(u) => u[i + 1] = t[j + 1])
      BY <1>3, <3>1
    <3> QED
      BY <3>1, <3>2, <3>3
  <2> QED
    BY <2>1, <2>2
<1>5. After(o, u[Len(u)]) = "end"
  <2>1. u[Len(u)] = t[Len(t)]
    BY <1>2, <1>3
  <2> QED
    BY <2>1 DEF Left
<1>6. u # <<>> /\ Head(u) = "reserve"
  BY <1>2, <1>3
<1> QED
  BY <1>3, <1>4, <1>5, <1>6 DEF Left, u

\* What a job owes at the end of a form, a rename or a deletion; else nothing.
Debt(j) ==
  IF Runs(j, {"flushOld"}) THEN {j.to, j.was} ELSE IF Runs(j, {"count", "flush", "sentinel"}) THEN {j.to}
  ELSE {}

\* Owes, of a job.
DebtOf(j) ==
  IF j.todo = <<>> \/ ~(Range(j.todo) \subseteq {"count", "flushOld", "flush", "sentinel"}) THEN {}
  ELSE {j.to} \cup (IF j.todo # <<>> /\ Head(j.todo) = "flushOld" THEN {j.was} ELSE {})

LEMMA DebtWhat ==
  ASSUME NEW j, Left(j.op, j.todo)
  PROVE  DebtOf(j) = Debt(j)
<1> DEFINE t == j.todo
           E == {"count", "flushOld", "flush", "sentinel"}
<1>1. CASE t = <<>>
  BY <1>1 DEF DebtOf, Debt, Runs
<1>2. CASE Runs(j, {"count", "flushOld", "flush", "sentinel"})
  <2>1. Head(t) \in E /\ t # <<>> /\ Left(j.op, t)
    BY <1>2 DEF Runs
  <2>2. \A i \in 1..Len(t) : t[i] \in E
    <3>1. Head(t) = t[1] /\ t[1] \in E /\ Len(t) \in Nat /\ t \in Seq(Step)
      BY <2>1, TailLeft DEF Left
    <3>2. \A s \in E : After(j.op, s) \in {"flush", "end"} /\ After(j.op, "flush") = "end"
      BY DEF After
    <3>3. \A i \in 1..Len(t) : i # Len(t) => t[i + 1] = After(j.op, t[i]) /\ t[i + 1] # "end"
      <4>1. \A i \in 1..Len(t) : t[i] # "end"
        <5>1. "end" \notin Statements(j.op)
          BY <2>1 DEF Left, AllOp, Statements
        <5> QED
          BY <2>1, <5>1 DEF Left
      <4> QED
        BY <2>1, <3>1, <4>1 DEF Left
    <3>4. Len(t) <= 2
      <4>1. SUFFICES ASSUME Len(t) > 2 PROVE FALSE
        BY <3>1
      <4>2. t[1 + 1] \in {"flush", "end"} /\ t[2 + 1] = After(j.op, t[2]) /\ t[2 + 1] # "end" /\ t[1 + 1] # "end"
        BY <3>1, <3>2, <3>3, <4>1
      <4> QED
        BY <3>2, <4>2
    <3> QED
      BY <3>1, <3>2, <3>3, <3>4
  <2>3. Range(t) \subseteq E /\ t # <<>>
    BY <2>1, <2>2 DEF Range, Left
  <2> QED
    BY <1>2, <2>3 DEF DebtOf, Debt, Runs
<1>3. CASE t # <<>> /\ ~Runs(j, {"count", "flushOld", "flush", "sentinel"})
  <2>1. Head(t) \notin E
    BY <1>3 DEF Runs
  <2>2. Head(t) = t[1] /\ 1 \in DOMAIN t
    BY <1>3, TailLeft
  <2>3. ~(Range(t) \subseteq E)
    BY <2>1, <2>2 DEF Range
  <2> QED
    BY <1>3, <2>3 DEF DebtOf, Debt, Runs
<1> QED
  BY <1>1, <1>2, <1>3

LEMMA OwesWhat ==
  ASSUME NEW p \in Proc, Left(job[p].op, job[p].todo)
  PROVE  Owes(p) = Debt(job[p])
<1>1. Owes(p) = DebtOf(job[p])
  BY DEF Owes, At, DebtOf
<1> QED
  BY <1>1, DebtWhat

LEMMA Plans ==
  /\ \A o \in AllOp : Left(o, Todo[o]) /\ Todo[o] # <<>>
  /\ Left("claim", <<"clear">>) /\ <<"clear">> # <<>>
  /\ Head(Todo.form) = "quota" /\ Head(Todo.api) = "replay" /\ Head(<<"clear">>) = "clear"
  /\ \A o \in {"quick", "anon", "rename"} : Head(Todo[o]) = "reserve"
  /\ Head(Todo.claim) = "claim" /\ Head(Todo.delete) = "delete"
<1>1. ASSUME NEW o \in AllOp, NEW i \in DOMAIN Todo[o] PROVE Todo[o][i] \in Step
  <2>1. Todo[o][i] \in Range(Todo[o])
    BY DEF Range
  <2> QED
    BY <2>1 DEF Step
<1>2. Left("form", Todo["form"]) /\ Todo["form"] # <<>> /\ Head(Todo["form"]) = "quota"
  <2>1. Todo["form"] = <<"quota", "reserve", "persist", "count", "flush">> /\ "form" \in AllOp
    BY DEF Todo, AllOp
  <2>2. <<"quota", "reserve", "persist", "count", "flush">> \in Seq(Step)
    <3>1. "quota" \in Step /\ "reserve" \in Step /\ "persist" \in Step /\ "count" \in Step /\ "flush" \in Step
      BY <1>1, <2>1
    <3> QED
      BY <3>1
  <2> QED
    BY <2>1, <2>2 DEF Left, Statements, After
<1>3. Left("api", Todo["api"]) /\ Todo["api"] # <<>> /\ Head(Todo["api"]) = "replay"
  <2>1. Todo["api"] = <<"replay", "reserve", "persist", "store">> /\ "api" \in AllOp
    BY DEF Todo, AllOp
  <2>2. <<"replay", "reserve", "persist", "store">> \in Seq(Step)
    <3>1. "replay" \in Step /\ "reserve" \in Step /\ "persist" \in Step /\ "store" \in Step
      BY <1>1, <2>1
    <3> QED
      BY <3>1
  <2> QED
    BY <2>1, <2>2 DEF Left, Statements, After
<1>4. Left("quick", Todo["quick"]) /\ Todo["quick"] # <<>> /\ Head(Todo["quick"]) = "reserve"
  <2>1. Todo["quick"] = <<"reserve", "persist">> /\ "quick" \in AllOp
    BY DEF Todo, AllOp
  <2>2. <<"reserve", "persist">> \in Seq(Step)
    <3>1. "reserve" \in Step /\ "persist" \in Step
      BY <1>1, <2>1
    <3> QED
      BY <3>1
  <2> QED
    BY <2>1, <2>2 DEF Left, Statements, After
<1>5. Left("anon", Todo["anon"]) /\ Todo["anon"] # <<>> /\ Head(Todo["anon"]) = "reserve"
  <2>1. Todo["anon"] = <<"reserve", "persist", "remember">> /\ "anon" \in AllOp
    BY DEF Todo, AllOp
  <2>2. <<"reserve", "persist", "remember">> \in Seq(Step)
    <3>1. "reserve" \in Step /\ "persist" \in Step /\ "remember" \in Step
      BY <1>1, <2>1
    <3> QED
      BY <3>1
  <2> QED
    BY <2>1, <2>2 DEF Left, Statements, After
<1>6. Left("claim", Todo["claim"]) /\ Todo["claim"] # <<>> /\ Head(Todo["claim"]) = "claim"
  <2>1. Todo["claim"] = <<"claim", "clear">> /\ "claim" \in AllOp
    BY DEF Todo, AllOp
  <2>2. <<"claim", "clear">> \in Seq(Step)
    <3>1. "claim" \in Step /\ "clear" \in Step
      BY <1>1, <2>1
    <3> QED
      BY <3>1
  <2> QED
    BY <2>1, <2>2 DEF Left, Statements, After
<1>7. Left("rename", Todo["rename"]) /\ Todo["rename"] # <<>> /\ Head(Todo["rename"]) = "reserve"
  <2>1. Todo["rename"] = <<"reserve", "holder", "update", "flushOld", "flush">> /\ "rename" \in AllOp
    BY DEF Todo, AllOp
  <2>2. <<"reserve", "holder", "update", "flushOld", "flush">> \in Seq(Step)
    <3>1. "reserve" \in Step /\ "holder" \in Step /\ "update" \in Step /\ "flushOld" \in Step /\ "flush" \in Step
      BY <1>1, <2>1
    <3> QED
      BY <3>1
  <2> QED
    BY <2>1, <2>2 DEF Left, Statements, After
<1>8. Left("claim", <<"clear">>) /\ <<"clear">> # <<>> /\ Head(<<"clear">>) = "clear"
  <2>1. "clear" \in Step /\ "claim" \in AllOp
    BY <1>1 DEF Todo, AllOp
  <2> QED
    BY <2>1 DEF Left, Statements, After
<1>9. Left("delete", Todo["delete"]) /\ Todo["delete"] # <<>> /\ Head(Todo["delete"]) = "delete"
  <2>1. Todo["delete"] = <<"delete", "sentinel">> /\ "delete" \in AllOp
    BY DEF Todo, AllOp
  <2>2. <<"delete", "sentinel">> \in Seq(Step)
    <3>1. "delete" \in Step /\ "sentinel" \in Step
      BY <1>1, <2>1
    <3> QED
      BY <3>1
  <2> QED
    BY <2>1, <2>2 DEF Left, Statements, After
<1> QED
  BY <1>2, <1>3, <1>4, <1>5, <1>6, <1>7, <1>8, <1>9 DEF AllOp
-----------------------------------------------------------------------------
(* Histories. *)

LEMMA RangeIs ==
  ASSUME NEW s \in Seq(Code)
  PROVE  Range(s) = {s[i] : i \in 1..Len(s)} /\ Range(s) \subseteq Code
BY DEF Range

LEMMA DistinctCounts ==
  ASSUME NEW s \in Seq(Code), Distinct(s)
  PROVE  Cardinality(Range(s)) = Len(s)
<1> DEFINE D == 1..Len(s)
           R == Range(s)
<1>1. s \in [D -> R] /\ Len(s) \in Nat
  BY DEF Range
<1>2. s \in Surjection(D, R)
  BY <1>1, RangeIs DEF Surjection
<1>3. s \in Injection(D, R)
  BY <1>1 DEF Injection, IsInjective, Distinct
<1>4. IsFiniteSet(D) /\ Cardinality(D) = Len(s)
  <2>1. IsFiniteSet(D) /\ Cardinality(D) = IF 1 > Len(s) THEN 0 ELSE Len(s) - 1 + 1
    BY <1>1, FS_Interval
  <2> QED
    BY <1>1, <2>1
<1> HIDE DEF D, R
<1>5. Cardinality(R) = Cardinality(D)
  BY <1>2, <1>3, <1>4, FS_Surjection
<1> QED
  BY <1>4, <1>5 DEF R

LEMMA WithoutKeeps ==
  ASSUME NEW s \in Seq(Code), Distinct(s), NEW c
  PROVE  /\ Without(s, c) \in Seq(Code) /\ Distinct(Without(s, c)) /\ Len(Without(s, c)) <= Len(s)
         /\ Range(Without(s, c)) \subseteq Range(s)
<1>1. CASE c \notin Range(s)
  BY <1>1 DEF Without
<1>2. CASE c \in Range(s)
  <2> DEFINE i == CHOOSE i \in DOMAIN s : s[i] = c
             u == SubSeq(s, 1, i - 1)
             v == SubSeq(s, i + 1, Len(s))
             r == u \o v
             at(k) == IF k <= i - 1 THEN k ELSE k + 1
  <2>1. i \in 1..Len(s) /\ Len(s) \in Nat /\ \A j \in 1..Len(s) : s[j] \in Code
    BY <1>2 DEF Range
  <2> HIDE DEF i
  <2>2. u \in Seq(Code) /\ Len(u) = i - 1 /\ \A k \in 1..(i - 1) : u[k] = s[k]
    <3>1. \A j \in 1..(i - 1) : s[j] \in Code
      BY <2>1
    <3>2. /\ u \in Seq(Code) /\ Len(u) = IF 1 <= i - 1 THEN i - 1 - 1 + 1 ELSE 0
          /\ \A k \in 1..(i - 1 - 1 + 1) : u[k] = s[1 + k - 1]
      BY <2>1, <3>1, SubSeqProperties
    <3> QED
      BY <2>1, <3>2
  <2>3. v \in Seq(Code) /\ Len(v) = Len(s) - i /\ \A k \in 1..(Len(s) - i) : v[k] = s[i + k]
    <3>1. \A j \in (i + 1)..Len(s) : s[j] \in Code
      BY <2>1
    <3>2. /\ v \in Seq(Code) /\ Len(v) = IF i + 1 <= Len(s) THEN Len(s) - (i + 1) + 1 ELSE 0
          /\ \A k \in 1..(Len(s) - (i + 1) + 1) : v[k] = s[(i + 1) + k - 1]
      BY <2>1, <3>1, SubSeqProperties
    <3> QED
      BY <2>1, <3>2
  <2> HIDE DEF u, v
  <2>4. /\ r \in Seq(Code) /\ Len(r) = Len(s) - 1
        /\ \A k \in 1..Len(r) : r[k] = s[at(k)] /\ at(k) \in 1..Len(s)
    <3>1. /\ r \in Seq(Code) /\ Len(r) = Len(u) + Len(v)
          /\ \A k \in 1..(Len(u) + Len(v)) : r[k] = IF k <= Len(u) THEN u[k] ELSE v[k - Len(u)]
      BY <2>2, <2>3, ConcatProperties
    <3> QED
      BY <2>1, <2>2, <2>3, <3>1
  <2> HIDE DEF r
  <2>5. \A j, k \in 1..Len(r) : at(j) = at(k) => j = k
    BY <2>1, <2>4
  <2>6. Distinct(r) /\ Len(r) <= Len(s)
    <3> HIDE DEF at
    <3> QED
      BY <2>1, <2>4, <2>5 DEF Distinct
  <2>7. Range(r) \subseteq Range(s)
    <3> HIDE DEF at
    <3> QED
      BY <2>4, RangeIs
  <2>8. Without(s, c) = r
    BY <1>2 DEF Without, r, u, v, i
  <2> QED
    BY <2>4, <2>6, <2>7, <2>8
<1> QED
  BY <1>1, <1>2

\* What a rename writes is a history, of codes it has read.
LEMMA RollKeeps ==
  ASSUME NEW s, IsHistory(s), NEW w \in Code, NEW c
  PROVE  IsHistory(Roll(s, w, c)) /\ Range(Roll(s, w, c)) \subseteq Range(s) \cup {w}
<1> DEFINE all == IF w \in Range(s) THEN s ELSE Append(s, w)
           kept == Without(all, c)
           from == IF Len(kept) > HistoryMax THEN Len(kept) - HistoryMax + 1 ELSE 1
           r == SubSeq(kept, from, Len(kept))
<1>1. HistoryMax \in Nat /\ HistoryMax > 0 /\ s \in Seq(Code) /\ Distinct(s)
  BY CodesAssumption DEF IsHistory
<1>2. all \in Seq(Code) /\ Distinct(all) /\ Range(all) \subseteq Range(s) \cup {w}
  <2>1. CASE w \in Range(s)
    BY <1>1, <2>1
  <2>2. CASE w \notin Range(s)
    <3> DEFINE a == Append(s, w)
    <3>1. /\ a \in Seq(Code) /\ Len(a) = Len(s) + 1
          /\ \A i \in 1..Len(s) : a[i] = s[i] /\ s[i] # w
          /\ a[Len(s) + 1] = w /\ Len(s) \in Nat
      BY <1>1, <2>2, RangeIs
    <3> HIDE DEF a
    <3>2. Distinct(a) /\ Range(a) \subseteq Range(s) \cup {w}
      <4>1. \A i \in 1..Len(a) : i # Len(s) + 1 => i \in 1..Len(s)
        BY <3>1
      <4>2. Distinct(a)
        BY <1>1, <3>1, <4>1 DEF Distinct
      <4>3. Range(a) \subseteq Range(s) \cup {w}
        BY <1>1, <3>1, <4>1, RangeIs
      <4> QED
        BY <4>2, <4>3
    <3> QED
      BY <2>2, <3>1, <3>2 DEF a
  <2> QED
    BY <2>1, <2>2
<1> HIDE DEF all
<1>3. kept \in Seq(Code) /\ Distinct(kept) /\ Range(kept) \subseteq Range(s) \cup {w} /\ Len(kept) \in Nat
  <2>1. kept \in Seq(Code) /\ Distinct(kept) /\ Range(kept) \subseteq Range(all)
    BY <1>2, WithoutKeeps
  <2> QED
    BY <1>2, <2>1
<1> HIDE DEF kept
<1>4. from \in Nat /\ from >= 1 /\ Len(kept) - from + 1 <= HistoryMax
  BY <1>1, <1>3
<1> HIDE DEF from
<1>5. /\ r \in Seq(Code) /\ Len(r) = (IF from <= Len(kept) THEN Len(kept) - from + 1 ELSE 0)
      /\ \A i \in 1..(Len(kept) - from + 1) : r[i] = kept[from + i - 1]
  <2>1. \A i \in from..Len(kept) : kept[i] \in Code
    BY <1>3, <1>4
  <2> QED
    BY <1>3, <1>4, <2>1, SubSeqProperties
<1> HIDE DEF r
<1>6. \A i \in 1..Len(r) : r[i] = kept[from + i - 1] /\ from + i - 1 \in 1..Len(kept)
  BY <1>3, <1>4, <1>5
<1>7. Distinct(r)
  <2> SUFFICES ASSUME NEW i \in 1..Len(r), NEW j \in 1..Len(r), r[i] = r[j] PROVE i = j
    BY DEF Distinct
  <2>1. from + i - 1 = from + j - 1
    BY <1>3, <1>6 DEF Distinct
  <2> QED
    BY <1>4, <2>1
<1>8. Range(r) \subseteq Range(s) \cup {w}
  <2>1. \A i \in 1..Len(r) : r[i] \in Range(kept)
    BY <1>3, <1>6, RangeIs
  <2>2. Range(r) = {r[i] : i \in 1..Len(r)}
    BY <1>5, RangeIs
  <2> QED
    BY <1>3, <2>1, <2>2
<1>10. Len(r) <= HistoryMax
  BY <1>1, <1>3, <1>4, <1>5
<1>9. Roll(s, w, c) = r
  BY DEF Roll, r, from, kept, all
<1> QED
  BY <1>5, <1>7, <1>8, <1>9, <1>10 DEF IsHistory
-----------------------------------------------------------------------------
(* The tables and the jobs. *)

\* The job of p becomes w; of the others at most the mark of a race changes.
Moves(p, w) ==
  /\ w \in Job /\ JobHolds(w)
  /\ job' = [job EXCEPT ![p] = w] \/ job' = Racing(p, w)

LEMMA MovesOthers ==
  ASSUME job \in [Proc -> Job], NEW p \in Proc, NEW w, Moves(p, w)
  PROVE  /\ job' \in [Proc -> Job] /\ job'[p] = w
         /\ \A q \in Proc : q # p =>
              /\ job'[q] = job[q] \/ job'[q] = [job[q] EXCEPT !.raced = @ \/ job[q].op = "rename"]
              /\ job'[q].op = job[q].op /\ job'[q].todo = job[q].todo /\ job'[q].to = job[q].to
              /\ job'[q].link = job[q].link /\ job'[q].was = job[q].was
              /\ job'[q].before = job[q].before
<1>1. CASE job' = [job EXCEPT ![p] = w]
  BY <1>1 DEF Moves
<1>2. CASE job' = Racing(p, w)
  <2>1. \A q \in Proc : job'[q] = IF q = p THEN w ELSE [job[q] EXCEPT !.raced = @ \/ job[q].op = "rename"]
    BY <1>2 DEF Racing
  <2>2. \A q \in Proc : LET r == [job[q] EXCEPT !.raced = @ \/ job[q].op = "rename"]
                       IN  /\ r \in Job /\ r.op = job[q].op /\ r.todo = job[q].todo /\ r.to = job[q].to
                           /\ r.link = job[q].link /\ r.was = job[q].was /\ r.before = job[q].before
    BY DEF Job
  <2>3. job' \in [Proc -> Job]
    <3>1. \A q \in Proc : job'[q] \in Job
      BY <2>1, <2>2 DEF Moves
    <3> QED
      BY <1>2, <3>1 DEF Racing
  <2> QED
    BY <2>1, <2>2, <2>3
<1> QED
  BY <1>1, <1>2 DEF Moves

LEMMA MovesKeep ==
  ASSUME CodeTables, NEW p \in Proc, NEW w, Moves(p, w), Tables', World'
  PROVE  CodeTables'
<1>1. /\ job' \in [Proc -> Job] /\ job'[p] = w
      /\ \A q \in Proc : q # p =>
              /\ job'[q].op = job[q].op /\ job'[q].todo = job[q].todo /\ job'[q].to = job[q].to
              /\ job'[q].link = job[q].link /\ job'[q].was = job[q].was
              /\ job'[q].before = job[q].before
  BY MovesOthers DEF CodeTables
<1>2. ASSUME NEW q \in Proc PROVE JobHolds(job[q])'
  <2>1. CASE q = p
    BY <1>1, <2>1 DEF Moves, JobHolds, Runs
  <2>2. CASE q # p
    <3>1. JobHolds(job[q])
      BY DEF CodeTables
    <3> QED
      BY <1>1, <2>2, <3>1 DEF JobHolds, Runs
  <2> QED
    BY <2>1, <2>2
<1> QED
  BY <1>1, <1>2 DEF CodeTables

\* What the next statement of p is, and what is known of its job.
LEMMA AtStep ==
  ASSUME CodeTables, NEW p \in Proc, NEW s, At(p, s)
  PROVE  /\ job[p] \in Job /\ JobHolds(job[p]) /\ Runs(job[p], {s}) /\ s \in Statements(job[p].op)
         /\ Tail(job[p].todo) = <<>> => After(job[p].op, s) = "end"
         /\ Tail(job[p].todo) # <<>> => /\ Left(job[p].op, Tail(job[p].todo))
                                        /\ Head(Tail(job[p].todo)) = After(job[p].op, s)
<1>1. job[p] \in Job /\ JobHolds(job[p]) /\ Runs(job[p], {s})
  BY DEF CodeTables, At, Runs
<1>2. Left(job[p].op, job[p].todo) /\ job[p].todo # <<>> /\ Head(job[p].todo) = s
  BY <1>1 DEF At, JobHolds
<1> QED
  BY <1>1, <1>2, TailLeft

LEMMA IdleHolds == Idle \in Job /\ JobHolds(Idle) /\ Idle.op = "idle" /\ Idle.todo = <<>>
<1>1. Idle \in Job
  BY DEF Idle, Job, AllOp
<1>2. Left("idle", <<>>)
  BY DEF Left
<1> QED
  BY <1>1, <1>2 DEF Idle, JobHolds, Runs

\* A statement is done with; a code and a link stay in hand, or there is none to have.
Onto(j, w) ==
  /\ w.op = j.op /\ w.to = j.to /\ w.link = j.link /\ w.was = j.was /\ w.before = j.before
  /\ w.raced = j.raced

LEMMA ProceedMoves ==
  ASSUME CodeTables, NEW p \in Proc, NEW s, At(p, s), Proceed(p),
         s \in {"quota", "replay", "count", "store", "claim", "holder", "update", "flushOld", "flush",
               "delete", "sentinel"}
  PROVE  \E w : /\ Moves(p, w) /\ job' = [job EXCEPT ![p] = w]
                /\ IF After(job[p].op, s) = "end" THEN w = Idle
                   ELSE Onto(job[p], w) /\ Runs(w, {After(job[p].op, s)})
<1> DEFINE r == Tail(job[p].todo)
           j == job[p]
<1>1. /\ j \in Job /\ JobHolds(j) /\ s \in Statements(j.op) /\ Runs(j, {s})
      /\ r = <<>> => After(j.op, s) = "end"
      /\ r # <<>> => Left(j.op, r) /\ Head(r) = After(j.op, s)
  BY AtStep
<1>2. CASE r = <<>>
  <2>1. job' = [job EXCEPT ![p] = Idle]
    BY <1>2 DEF Proceed, Done
  <2> QED
    BY <1>1, <1>2, <2>1, IdleHolds DEF Moves
<1>3. CASE r # <<>>
  <2> DEFINE w == [j EXCEPT !.todo = r]
  <2>1. job' = [job EXCEPT ![p] = w]
    BY <1>3 DEF Proceed
  <2>2. w \in Job /\ w.todo = r /\ Onto(j, w)
    <3>1. r \in Seq(Step)
      BY <1>1, <1>3 DEF Left
    <3> QED
      BY <1>1, <3>1 DEF Job, Onto
  <2> HIDE DEF w
  <2>3. JobHolds(w)
    <3>1. Left(w.op, w.todo)
      BY <1>1, <1>3, <2>2 DEF Onto
    <3>2. Head(r) \in {"reserve", "clear", "update", "flushOld", "flush", "sentinel", "end"}
      BY <1>1, <1>3 DEF After
    <3>3. Head(r) = "flush" => w.to \in Code
      <4>1. Head(r) = "flush" => s = "count" \/ j.op = "rename"
        BY <1>1, <1>3 DEF After, Statements
      <4> QED
        BY <1>1, <2>2, <4>1 DEF JobHolds, Runs, Onto
    <3> HIDE DEF r
    <3> QED
      BY <1>1, <2>2, <3>1, <3>2, <3>3 DEF JobHolds, Runs, Onto
  <2>4. Runs(w, {After(j.op, s)}) /\ After(j.op, s) # "end"
    <3>1. Head(r) \in Statements(j.op) /\ "end" \notin Statements(j.op)
      <4>1. j.op \in AllOp \cup {"idle"}
        BY <1>1 DEF Job
      <4>2. Head(r) \in Statements(j.op)
        BY <1>1, <1>3, TailLeft
      <4> QED
        BY <4>1, <4>2 DEF AllOp, Statements
    <3> QED
      BY <1>1, <1>3, <2>2, <3>1 DEF Runs
  <2> QED
    BY <2>1, <2>2, <2>3, <2>4 DEF Moves
<1> QED
  BY <1>2, <1>3
LEMMA DoneMoves ==
  ASSUME NEW p \in Proc, Done(p)
  PROVE  Moves(p, Idle) /\ job' = [job EXCEPT ![p] = Idle]
BY IdleHolds DEF Done, Moves

LEMMA BeginMoves ==
  ASSUME CodeTables, NEW p \in Proc, NEW o \in {"form", "api", "quick", "anon"},
         NEW c \in Code \cup {NoCode}, Begin(p, o, c)
  PROVE  \E w : /\ Moves(p, w) /\ job' = [job EXCEPT ![p] = w]
                /\ w.op = o /\ Runs(w, {"quota", "replay", "reserve"})
                /\ o = "form" => Runs(w, {"quota"})
                /\ o = "api" => Runs(w, {"replay"})
<1> DEFINE w == [Idle EXCEPT !.op = o, !.todo = Todo[o], !.to = c, !.custom = (c # NoCode), !.ids = cookie]
<1>1. /\ Left(o, Todo[o]) /\ Todo[o] # <<>> /\ Head(Todo[o]) \in {"quota", "replay", "reserve"}
      /\ o = "form" => Head(Todo[o]) = "quota"
      /\ o = "api" => Head(Todo[o]) = "replay"
  BY Plans DEF AllOp
<1>2. w \in Job /\ w.op = o /\ w.todo = Todo[o]
  <2>1. Todo[o] \in Seq(Step) /\ o \in AllOp /\ cookie \in Seq(Link)
    BY <1>1 DEF Left, CodeTables, World, AllOp
  <2> QED
    BY <2>1, IdleHolds DEF Job
<1>3. job' = [job EXCEPT ![p] = w]
  BY DEF Begin
<1> HIDE DEF w
<1>4. Moves(p, w)
  BY <1>1, <1>2, <1>3 DEF Moves, JobHolds, Runs
<1> QED
  BY <1>1, <1>2, <1>3, <1>4 DEF Runs

LEMMA ClaimMoves ==
  ASSUME CodeTables, NEW p \in Proc, Claim(p)
  PROVE  \E w : /\ Moves(p, w) /\ job' = [job EXCEPT ![p] = w]
                /\ w.op = "claim" /\ Runs(w, {"claim", "clear"})
<1> DEFINE t == IF cookie = <<>> THEN <<"clear">> ELSE Todo.claim
           w == [Idle EXCEPT !.op = "claim", !.ids = cookie, !.todo = t]
<1>1. Left("claim", t) /\ t # <<>> /\ Head(t) \in {"claim", "clear"}
  BY Plans DEF AllOp
<1> HIDE DEF t
<1>2. w \in Job /\ w.op = "claim" /\ w.todo = t
  <2>1. t \in Seq(Step) /\ "claim" \in AllOp /\ cookie \in Seq(Link)
    BY <1>1 DEF Left, CodeTables, World, AllOp
  <2> QED
    BY <2>1, IdleHolds DEF Job
<1>3. job' = [job EXCEPT ![p] = w]
  BY DEF Claim, t
<1> HIDE DEF w
<1>4. Moves(p, w)
  BY <1>1, <1>2, <1>3 DEF Moves, JobHolds, Runs
<1> QED
  BY <1>1, <1>2, <1>3, <1>4 DEF Runs

LEMMA RenameMoves ==
  ASSUME CodeTables, NEW p \in Proc, NEW l \in Link, NEW c \in Code, Rename(p, l, c)
  PROVE  \E w : /\ Moves(p, w) /\ job' = [job EXCEPT ![p] = w]
                /\ w.op = "rename" /\ Runs(w, {"reserve"})
                /\ w.link = l /\ w.was = code[l] /\ w.before = prev[l] /\ w.to = c
<1> DEFINE w == [Idle EXCEPT !.op = "rename", !.todo = Todo.rename, !.to = c, !.link = l,
                             !.was = code[l], !.before = prev[l]]
<1>1. Left("rename", Todo.rename) /\ Todo.rename # <<>> /\ Head(Todo.rename) = "reserve"
  BY Plans DEF AllOp
<1>2. /\ code[l] \in Code /\ IsHistory(prev[l]) /\ Exists(l)
  BY DEF Rename, Exists, CodeTables, Tables
<1>3. /\ w \in Job /\ w.op = "rename" /\ w.todo = Todo.rename /\ w.to = c /\ w.link = l
      /\ w.was = code[l] /\ w.before = prev[l]
  <2>1. Todo.rename \in Seq(Step) /\ "rename" \in AllOp /\ prev[l] \in Seq(Code)
    BY <1>1, <1>2 DEF Left, AllOp, IsHistory
  <2> QED
    BY <1>2, <2>1, IdleHolds DEF Job
<1>4. job' = [job EXCEPT ![p] = w]
  BY DEF Rename
<1> HIDE DEF w
<1>5. Moves(p, w)
  BY <1>1, <1>2, <1>3, <1>4 DEF Moves, JobHolds, Runs
<1> QED
  BY <1>1, <1>2, <1>3, <1>4, <1>5 DEF Runs

LEMMA DeleteMoves ==
  ASSUME CodeTables, NEW p \in Proc, NEW l \in Link, DeleteLink(p, l)
  PROVE  \E w : /\ Moves(p, w) /\ job' = [job EXCEPT ![p] = w]
                /\ w.op = "delete" /\ Runs(w, {"delete"})
<1> DEFINE w == [Idle EXCEPT !.op = "delete", !.todo = Todo.delete, !.to = code[l], !.link = l]
<1>1. Left("delete", Todo.delete) /\ Todo.delete # <<>> /\ Head(Todo.delete) = "delete"
  BY Plans DEF AllOp
<1>2. code[l] \in Code
  BY DEF DeleteLink, Exists, CodeTables, Tables
<1>3. w \in Job /\ w.op = "delete" /\ w.todo = Todo.delete /\ w.to = code[l] /\ w.link = l
  <2>1. Todo.delete \in Seq(Step) /\ "delete" \in AllOp
    BY <1>1 DEF Left, AllOp
  <2> QED
    BY <1>2, <2>1, IdleHolds DEF Job
<1>4. job' = [job EXCEPT ![p] = w]
  BY DEF DeleteLink
<1> HIDE DEF w
<1>5. Moves(p, w)
  BY <1>1, <1>2, <1>3, <1>4 DEF Moves, JobHolds, Runs
<1> QED
  BY <1>1, <1>3, <1>4, <1>5 DEF Runs

LEMMA CollideMoves ==
  ASSUME CodeTables, NEW p \in Proc, NEW s \in {"reserve", "persist"}, At(p, s), Collide(p)
  PROVE  \E w : /\ Moves(p, w) /\ job' = [job EXCEPT ![p] = w]
                /\ \/ w = Idle
                   \/ w.op = job[p].op /\ w.op # "rename" /\ Runs(w, {"reserve"})
<1> DEFINE j == job[p]
           t == IF Head(j.todo) = "reserve" THEN j.todo ELSE <<"reserve">> \o j.todo
           w == [j EXCEPT !.tries = @ + 1, !.to = NoCode, !.todo = t]
<1>1. j \in Job /\ JobHolds(j) /\ Runs(j, {s})
  BY AtStep
<1>2. CASE Chosen(p) \/ j.tries = Retries
  BY <1>2, DoneMoves DEF Collide
<1>3. CASE ~(Chosen(p) \/ j.tries = Retries)
  <2>1. job' = [job EXCEPT ![p] = w] /\ j.op # "rename"
    BY <1>3 DEF Collide, Chosen
  <2>2. Left(j.op, t) /\ t # <<>> /\ Head(t) = "reserve" /\ j.op # "delete"
    <3>1. Left(j.op, j.todo) /\ j.todo # <<>> /\ Head(j.todo) = s
      BY <1>1 DEF JobHolds, Runs
    <3>2. CASE s = "reserve"
      BY <3>1, <3>2, Onward
    <3>3. CASE s = "persist"
      BY <3>1, <3>3, Again, Onward
    <3> QED
      BY <3>2, <3>3
  <2> HIDE DEF t
  <2>3. w \in Job /\ w.op = j.op /\ w.todo = t
    <3>1. t \in Seq(Step)
      BY <2>2 DEF Left
    <3>2. j.tries + 1 \in Nat /\ NoCode \in Code \cup {NoCode}
      BY <1>1 DEF Job
    <3> HIDE DEF j
    <3> QED
      BY <1>1, <3>1, <3>2 DEF Job
  <2> HIDE DEF w
  <2>4. Moves(p, w)
    BY <2>1, <2>2, <2>3 DEF Moves, JobHolds, Runs
  <2> QED
    BY <2>1, <2>2, <2>3, <2>4 DEF Runs
<1> QED
  BY <1>2, <1>3

LEMMA ReserveMoves ==
  ASSUME CodeTables, NEW p \in Proc, Reserve(p)
  PROVE  \E w : /\ Moves(p, w) /\ job' = [job EXCEPT ![p] = w]
                /\ \/ w = Idle
                   \/ w.op = job[p].op /\ w.op # "rename" /\ Runs(w, {"reserve", "persist"})
                   \/ job[p].op = "rename" /\ Onto(job[p], w) /\ Runs(w, {"holder"})
<1> DEFINE j == job[p]
           r == Tail(j.todo)
<1>1. /\ j \in Job /\ JobHolds(j) /\ "reserve" \in Statements(j.op) /\ Runs(j, {"reserve"}) /\ At(p, "reserve")
      /\ r = <<>> => After(j.op, "reserve") = "end"
      /\ r # <<>> => Left(j.op, r) /\ Head(r) = After(j.op, "reserve")
  BY AtStep DEF Reserve
<1>2. PICK c \in Tried(p) : IF c \in Reserved THEN Collide(p)
                           ELSE job' = [job EXCEPT ![p].todo = Tail(@), ![p].to = c]
  BY DEF Reserve
<1>3. c \in Code /\ (j.op = "rename" => c = j.to)
  BY <1>1, <1>2, CodesAssumption DEF Tried, JobHolds, Job
<1>4. CASE c \in Reserved
  BY <1>1, <1>2, <1>4, CollideMoves DEF Runs
<1>5. CASE c \notin Reserved
  <2> DEFINE w == [j EXCEPT !.todo = r, !.to = c]
  <2>1. job' = [job EXCEPT ![p] = w]
    BY <1>2, <1>5
  <2>2. r # <<>> /\ Head(r) = IF j.op = "rename" THEN "holder" ELSE "persist"
    BY <1>1 DEF After
  <2>3. /\ w \in Job /\ w.op = j.op /\ w.todo = r /\ w.to = c /\ w.link = j.link /\ w.was = j.was
        /\ w.before = j.before /\ w.raced = j.raced
    <3>1. r \in Seq(Step)
      BY <1>1, <2>2 DEF Left
    <3> QED
      BY <1>1, <1>3, <3>1 DEF Job
  <2> HIDE DEF w
  <2>4. Moves(p, w)
    BY <1>1, <1>3, <2>1, <2>2, <2>3 DEF Moves, JobHolds, Runs
  <2> QED
    BY <1>3, <2>1, <2>2, <2>3, <2>4 DEF Runs, Onto
<1> QED
  BY <1>4, <1>5

\* A row written for c, and what the handler goes on with.
LEMMA PersistMoves ==
  ASSUME CodeTables, NEW p \in Proc, Persist(p), Free(job[p].to, NoLink)
  PROVE  /\ job[p].to \in Code /\ Runs(job[p], {"persist"}) /\ Holders(job[p].to) = {}
         /\ \E l \in Link : \E w :
              /\ ~Exists(l) /\ code' = [code EXCEPT ![l] = job[p].to]
              /\ Moves(p, w) /\ job' = Racing(p, w)
              /\ \/ job[p].op = "quick" /\ w = Idle
                 \/ /\ w.op = job[p].op /\ w.to = job[p].to
                    /\ Runs(w, {After(job[p].op, "persist")}) /\ w.op \in {"form", "api", "anon"}
              /\ owned' \subseteq owned \cup {l}
              /\ taken' = IF Aliased(job[p].to) # {} THEN taken \cup {job[p].to} ELSE taken
              /\ late' = IF hot[job[p].to] # NoLink /\ job[p].op # "form" THEN late \cup {job[p].to} ELSE late
              /\ formed' = IF job[p].op = "form" THEN formed + 1 ELSE formed
              /\ keyed' = IF job[p].op = "api" THEN keyed \cup {l} ELSE keyed
              /\ UNCHANGED <<prev, gone, overlaps, redis, cookie, look, counts>>
<1> DEFINE j == job[p]
           r == Tail(j.todo)
<1>1. /\ j \in Job /\ JobHolds(j) /\ "persist" \in Statements(j.op) /\ Runs(j, {"persist"})
      /\ r = <<>> => After(j.op, "persist") = "end"
      /\ r # <<>> => Left(j.op, r) /\ Head(r) = After(j.op, "persist")
  BY AtStep DEF Persist
<1>2. j.to \in Code
  BY <1>1 DEF JobHolds, Runs
<1>3. Holders(j.to) = {}
  <2>1. NoLink \notin Link
    BY CodesAssumption DEF Link, NoLink
  <2> QED
    BY <2>1 DEF Free, Holders
<1>4. PICK l \in Link :
       /\ ~Exists(l)
       /\ code' = [code EXCEPT ![l] = j.to]
       /\ owned' = IF j.op = "anon" THEN owned ELSE owned \cup {l}
       /\ job' = Racing(p, IF r = <<>> THEN Idle ELSE [j EXCEPT !.todo = r, !.link = l])
       /\ taken' = IF Aliased(j.to) # {} THEN taken \cup {j.to} ELSE taken
       /\ late' = IF hot[j.to] # NoLink /\ j.op # "form" THEN late \cup {j.to} ELSE late
       /\ formed' = IF j.op = "form" THEN formed + 1 ELSE formed
       /\ keyed' = IF j.op = "api" THEN keyed \cup {l} ELSE keyed
       /\ UNCHANGED <<prev, gone, overlaps>>
  BY DEF Persist
<1>5. UNCHANGED <<redis, cookie, look, counts>>
  BY DEF Persist
<1>6. j.op \in {"form", "api", "quick", "anon"} /\ (r = <<>> <=> j.op = "quick")
  <2>1. Left(j.op, j.todo) /\ j.todo # <<>> /\ Head(j.todo) = "persist"
    BY <1>1 DEF JobHolds, Runs
  <2> QED
    BY <2>1, Onward
<1>7. \E w : /\ Moves(p, w) /\ job' = Racing(p, w)
             /\ \/ j.op = "quick" /\ w = Idle
                \/ /\ w.op = j.op /\ w.to = j.to
                   /\ Runs(w, {After(j.op, "persist")}) /\ w.op \in {"form", "api", "anon"}
  <2>1. CASE r = <<>>
    BY <1>4, <1>6, <2>1, IdleHolds DEF Moves
  <2>2. CASE r # <<>>
    <3> DEFINE w == [j EXCEPT !.todo = r, !.link = l]
    <3>1. job' = Racing(p, w)
      BY <1>4, <2>2
    <3>2. Head(r) \in {"count", "store", "remember"}
      BY <1>1, <1>6, <2>2 DEF After
    <3>3. w \in Job /\ w.op = j.op /\ w.todo = r /\ w.to = j.to /\ w.link = l
      <4>1. r \in Seq(Step)
        BY <1>1, <2>2 DEF Left
      <4> QED
        BY <1>1, <4>1 DEF Job
    <3> HIDE DEF w
    <3>4. Moves(p, w)
      BY <1>1, <1>2, <1>6, <2>2, <3>1, <3>2, <3>3 DEF Moves, JobHolds, Runs
    <3> QED
      BY <1>1, <1>6, <2>2, <3>1, <3>2, <3>3, <3>4 DEF Runs
  <2> QED
    BY <2>1, <2>2
<1> QED
  BY <1>1, <1>2, <1>3, <1>4, <1>5, <1>6, <1>7

\* The row of a rename.
LEMMA UpdateMoves ==
  ASSUME CodeTables, NEW p \in Proc, Update(p), Exists(job[p].link), Free(job[p].to, job[p].link)
  PROVE  /\ job[p] \in Job /\ JobHolds(job[p]) /\ Runs(job[p], {"update"}) /\ job[p].op = "rename"
         /\ \E w : /\ Moves(p, w) /\ job' = Racing(p, w) /\ Onto(job[p], w) /\ Runs(w, {"flushOld"})
<1> DEFINE j == job[p]
           r == Tail(j.todo)
<1>1. /\ j \in Job /\ JobHolds(j) /\ "update" \in Statements(j.op) /\ Runs(j, {"update"})
      /\ r = <<>> => After(j.op, "update") = "end"
      /\ r # <<>> => Left(j.op, r) /\ Head(r) = After(j.op, "update")
  BY AtStep DEF Update
<1>2. j.op = "rename" /\ r # <<>> /\ Head(r) = "flushOld"
  <2>1. Left(j.op, j.todo) /\ j.todo # <<>> /\ Head(j.todo) = "update"
    BY <1>1 DEF JobHolds, Runs
  <2> QED
    BY <2>1, Onward
<1> DEFINE w == [j EXCEPT !.todo = r]
<1>3. job' = Racing(p, w)
  BY DEF Update
<1>4. w \in Job /\ Onto(j, w) /\ w.todo = r
  <2>1. r \in Seq(Step)
    BY <1>1, <1>2 DEF Left
  <2> QED
    BY <1>1, <2>1 DEF Job, Onto
<1> HIDE DEF w
<1>5. Moves(p, w)
  BY <1>1, <1>2, <1>3, <1>4 DEF Moves, JobHolds, Runs, Onto
<1> QED
  BY <1>1, <1>2, <1>3, <1>4, <1>5 DEF Runs
LEMMA TablesStay ==
  ASSUME Tables, UNCHANGED <<code, prev>>
  PROVE  Tables'
BY DEF Tables, Exists

LEMMA PersistTables ==
  ASSUME CodeTables, NEW l \in Link, NEW c \in Code, Holders(c) = {},
         code' = [code EXCEPT ![l] = c], prev' = prev
  PROVE  Tables'
<1>1. Tables /\ NoCode \notin Code /\ \A k \in Link : code[k] # c
  BY CodesAssumption DEF CodeTables, Holders
<1>2. /\ code' \in [Link -> Code \cup {NoCode}]
      /\ \A a, b \in Link : a # b /\ code'[a] = code'[b] => code'[a] = NoCode
      /\ \A k \in Link : Exists(k)' <=> Exists(k) \/ k = l
  BY <1>1 DEF Tables, Exists
<1> QED
  BY <1>1, <1>2 DEF Tables

LEMMA UpdateTables ==
  ASSUME CodeTables, NEW l \in Link, NEW c \in Code, NEW s, IsHistory(s), Free(c, l),
         code' = [code EXCEPT ![l] = c], prev' = [prev EXCEPT ![l] = s]
  PROVE  Tables'
<1>1. Tables /\ NoCode \notin Code /\ \A k \in Link : k # l => code[k] # c
  BY CodesAssumption DEF CodeTables, Free, Holders
<1>2. /\ code' \in [Link -> Code \cup {NoCode}]
      /\ \A a, b \in Link : a # b /\ code'[a] = code'[b] => code'[a] = NoCode
      /\ \A k \in Link : Exists(k)' <=> Exists(k) \/ k = l
  BY <1>1 DEF Tables, Exists
<1>3. prev' \in [Link -> Seq(Code)] /\ \A k \in Link : k # l => prev'[k] = prev[k]
  BY <1>1 DEF Tables, IsHistory
<1>4. prev'[l] = s
  BY <1>1 DEF Tables
<1> QED
  BY <1>1, <1>2, <1>3, <1>4 DEF Tables

LEMMA RemoveTables ==
  ASSUME CodeTables, NEW ls \in SUBSET Link, Remove(ls)
  PROVE  /\ Tables'
         /\ \A k \in Link : IF k \in ls THEN ~Exists(k)' /\ Names(k)' = {NoCode}
                            ELSE (Exists(k)' <=> Exists(k)) /\ code'[k] = code[k] /\ prev'[k] = prev[k]
                                 /\ Names(k)' = Names(k)
<1>1. IsHistory(<<>>) /\ Range(<<>>) = {}
  BY CodesAssumption DEF IsHistory, Distinct, Range
<1>2. ASSUME NEW k \in Link
      PROVE  /\ code'[k] = IF k \in ls THEN NoCode ELSE code[k]
             /\ prev'[k] = IF k \in ls THEN <<>> ELSE prev[k]
  BY DEF Remove
<1>3. /\ code' \in [Link -> Code \cup {NoCode}] /\ prev' \in [Link -> Seq(Code)]
  BY <1>1 DEF Remove, CodeTables, Tables, IsHistory
<1> QED
  BY <1>1, <1>2, <1>3 DEF CodeTables, Tables, Exists, Names

LEMMA CodesInit == Init => CodeTables
<1> SUFFICES ASSUME Init PROVE CodeTables
  OBVIOUS
<1>1. /\ First \in Code /\ NoCode \notin Code /\ {HistoryMax, MaxIds, MaxLink} \subseteq Nat \ {0}
      /\ {MaxStart, MaxFail} \subseteq Nat
  BY CodesAssumption
<1>2. 1 \in Link /\ Link \subseteq Nat
  BY <1>1 DEF Link
<1>3. PICK old \in {<<>>} \cup {<<c>> : c \in Code \ (Reserved \cup {First})} :
        prev = [l \in Link |-> IF l = 1 THEN old ELSE <<>>]
  BY DEF Init
<1>4. IsHistory(old) /\ IsHistory(<<>>)
  <2>1. IsHistory(<<>>)
    BY <1>1 DEF IsHistory, Distinct
  <2>2. ASSUME NEW c \in Code PROVE IsHistory(<<c>>)
    BY <1>1 DEF IsHistory, Distinct
  <2> QED
    BY <2>1, <2>2
<1>5. code = [l \in Link |-> IF l = 1 THEN First ELSE NoCode]
  BY DEF Init
<1>6. Tables
  <2>1. \A l \in Link : prev[l] = (IF l = 1 THEN old ELSE <<>>) /\ (Exists(l) <=> l = 1)
    BY <1>1, <1>3, <1>5 DEF Exists
  <2>2. prev \in [Link -> Seq(Code)]
    BY <1>3, <1>4 DEF IsHistory
  <2>3. /\ code \in [Link -> Code \cup {NoCode}]
        /\ \A a, b \in Link : a # b /\ code[a] = code[b] => code[a] = NoCode
    BY <1>1, <1>5
  <2>4. \A l \in Link : IsHistory(prev[l]) /\ (~Exists(l) => prev[l] = <<>>)
    BY <1>4, <2>1
  <2> QED
    BY <2>2, <2>3, <2>4 DEF Tables
<1>7. World
  BY <1>1, <1>2 DEF Init, World, Look, NoLook, NoLink
<1>8. job \in [Proc -> Job] /\ \A p \in Proc : JobHolds(job[p])
  BY IdleHolds DEF Init
<1> QED
  BY <1>6, <1>7, <1>8 DEF CodeTables

\* A step that leaves the rows alone.
LEMMA CalmKeeps ==
  ASSUME CodeTables, NEW p \in Proc, NEW w, Moves(p, w), UNCHANGED <<code, prev>>, World'
  PROVE  CodeTables'
BY TablesStay, MovesKeep DEF CodeTables

\* A statement that is done with, whatever it was, and the end of a handler.
LEMMA ProceedKeeps ==
  ASSUME CodeTables, NEW p \in Proc, NEW s, At(p, s),
         s \in {"quota", "replay", "count", "store", "claim", "holder", "update", "flushOld", "flush",
               "delete", "sentinel"},
         Proceed(p) \/ Done(p), UNCHANGED <<code, prev>>, World'
  PROVE  CodeTables'
<1>1. CASE Done(p)
  BY <1>1, DoneMoves, CalmKeeps
<1>2. CASE Proceed(p)
  BY <1>2, ProceedMoves, CalmKeeps
<1> QED
  BY <1>1, <1>2

LEMMA RenameTables ==
  ASSUME CodeTables, NEW p \in Proc, NEW l \in Link, NEW c \in Code, Rename(p, l, c)
  PROVE  CodeTables'
<1>1. UNCHANGED <<code, prev>> /\ World'
  BY CodesAssumption DEF Rename, CodeTables, World, rows, redis, history
<1> QED
  BY <1>1, RenameMoves, CalmKeeps

LEMMA DeleteTables ==
  ASSUME CodeTables, NEW p \in Proc, NEW l \in Link, DeleteLink(p, l)
  PROVE  CodeTables'
<1>1. UNCHANGED <<code, prev>> /\ World'
  BY CodesAssumption DEF DeleteLink, CodeTables, World, rows, redis, history
<1> QED
  BY <1>1, DeleteMoves, CalmKeeps

LEMMA PurgeTables ==
  ASSUME CodeTables, Purge
  PROVE  CodeTables'
<1>1. owned \in SUBSET Link /\ Remove(owned) /\ job' = job
  BY DEF Purge, CodeTables, World
<1>2. Tables'
  BY <1>1, RemoveTables
<1>3. World'
  <2>1. NoLink \in Link \cup {NoLink} /\ 0 \in Nat
    OBVIOUS
  <2> QED
    BY <1>1, <2>1 DEF Purge, Remove, CodeTables, World, counts
<1> QED
  BY <1>1, <1>2, <1>3 DEF CodeTables, JobHolds, Runs

LEMMA OperateTables ==
  ASSUME CodeTables, NEW p \in Proc, Operate(p)
  PROVE  CodeTables'
<1> USE DEF rows, redis, counts, history
<1>a. World /\ {MaxStart, MaxFail} \subseteq Nat /\ MaxIds \in Nat /\ NoLink \notin Link
  BY CodesAssumption DEF CodeTables, Link, NoLink
<1>1. ASSUME NEW o \in {"form", "api", "quick", "anon"}, NEW c \in Code \cup {NoCode}, Begin(p, o, c)
      PROVE  CodeTables'
  <2>1. UNCHANGED <<code, prev>> /\ World'
    BY <1>a, <1>1 DEF Begin, World, AllOp
  <2> QED
    BY <1>1, <2>1, BeginMoves, CalmKeeps
<1>2. CASE CreatePowerLink(p) \/ PostLink(p) \/ Shorten(p)
  BY <1>1, <1>2 DEF CreatePowerLink, PostLink, Shorten
<1>3. CASE Claim(p)
  <2>1. UNCHANGED <<code, prev>> /\ World'
    BY <1>a, <1>3 DEF Claim, World
  <2> QED
    BY <1>3, <2>1, ClaimMoves, CalmKeeps
<1>4. CASE Refuse(p)
  <2>1. UNCHANGED <<code, prev>> /\ World' /\ Done(p)
    BY <1>a, <1>4 DEF Refuse, World
  <2> QED
    BY <2>1, DoneMoves, CalmKeeps
<1>5. CASE CheckQuota(p)
  <2>1. UNCHANGED <<code, prev>> /\ World' /\ At(p, "quota") /\ (Proceed(p) \/ Done(p))
    BY <1>a, <1>5 DEF CheckQuota, World
  <2> QED
    BY <2>1, ProceedKeeps
<1>6. CASE Replay(p)
  <2>1. UNCHANGED <<code, prev>> /\ World' /\ At(p, "replay") /\ (Proceed(p) \/ Done(p))
    BY <1>a, <1>6 DEF Replay, World
  <2> QED
    BY <2>1, ProceedKeeps
<1>7. CASE Reserve(p)
  <2>1. UNCHANGED <<code, prev>> /\ World'
    BY <1>a, <1>7 DEF Reserve, World
  <2> QED
    BY <1>7, <2>1, ReserveMoves, CalmKeeps
<1>8. CASE Persist(p) /\ ~Free(job[p].to, NoLink)
  <2>1. UNCHANGED <<code, prev>> /\ World' /\ At(p, "persist") /\ Collide(p)
    BY <1>a, <1>8 DEF Persist, World
  <2> QED
    BY <2>1, CollideMoves, CalmKeeps
<1>9. CASE Persist(p) /\ Free(job[p].to, NoLink)
  <2> DEFINE c == job[p].to
  <2>1. c \in Code /\ Holders(c) = {}
    BY <1>9, PersistMoves
  <2>2. PICK l \in Link : \E w :
              /\ ~Exists(l) /\ code' = [code EXCEPT ![l] = c]
              /\ Moves(p, w)
              /\ w.op \in {"idle", "form", "api", "anon"}
              /\ owned' \subseteq owned \cup {l}
              /\ taken' = IF Aliased(c) # {} THEN taken \cup {c} ELSE taken
              /\ late' = IF hot[c] # NoLink /\ job[p].op # "form" THEN late \cup {c} ELSE late
              /\ formed' = IF job[p].op = "form" THEN formed + 1 ELSE formed
              /\ keyed' = IF job[p].op = "api" THEN keyed \cup {l} ELSE keyed
              /\ UNCHANGED <<prev, gone, overlaps, redis, cookie, look, counts>>
    BY <1>9, PersistMoves, IdleHolds
  <2>3. Tables'
    BY <2>1, <2>2, PersistTables
  <2>4. World'
    BY <1>a, <2>1, <2>2 DEF World
  <2>5. PICK w : Moves(p, w) /\ w.op \in {"idle", "form", "api", "anon"}
    BY <2>2
  <2> QED
    BY <2>3, <2>4, <2>5, MovesKeep
<1>10. CASE Count(p)
  <2>1. UNCHANGED <<code, prev>> /\ World' /\ At(p, "count") /\ Proceed(p)
    BY <1>a, <1>10 DEF Count, World
  <2> QED
    BY <2>1, ProceedKeeps
<1>11. CASE Store(p)
  <2>1. job[p].link \in Link \cup {NoLink}
    BY DEF CodeTables, Job
  <2>2. UNCHANGED <<code, prev>> /\ World' /\ At(p, "store") /\ Proceed(p)
    BY <1>a, <1>11, <2>1 DEF Store, World
  <2> QED
    BY <2>2, ProceedKeeps
<1>12. CASE Remember(p)
  <2> DEFINE ids == <<job[p].link>> \o job[p].ids
             m == IF Len(ids) > MaxIds THEN MaxIds ELSE Len(ids)
  <2>1. job[p].link \in Link /\ job[p].ids \in Seq(Link)
    <3>1. job[p] \in Job /\ JobHolds(job[p]) /\ Runs(job[p], {"remember"})
      BY <1>12, AtStep DEF Remember
    <3> QED
      BY <3>1 DEF JobHolds, Runs, Job
  <2>2. ids \in Seq(Link) /\ Len(ids) \in Nat
    <3>1. <<job[p].link>> \in Seq(Link)
      BY <2>1
    <3>2. ids \in Seq(Link)
      BY <2>1, <3>1, ConcatProperties
    <3> QED
      BY <3>2
  <2>3. cookie' = SubSeq(ids, 1, m) /\ job' = [job EXCEPT ![p] = Idle]
    BY <1>12 DEF Remember, Reply
  <2> HIDE DEF ids
  <2>4. cookie' \in Seq(Link) /\ Len(cookie') <= MaxIds
    <3>1. m \in Nat /\ m <= MaxIds /\ \A i \in 1..m : ids[i] \in Link
      BY <1>a, <2>2
    <3> HIDE DEF m
    <3>2. /\ SubSeq(ids, 1, m) \in Seq(Link)
          /\ Len(SubSeq(ids, 1, m)) = IF 1 <= m THEN m - 1 + 1 ELSE 0
      BY <3>1, SubSeqProperties
    <3> QED
      BY <1>a, <2>3, <3>1, <3>2
  <2>5. UNCHANGED <<code, prev>> /\ World'
    BY <1>a, <1>12, <2>4 DEF Remember, World
  <2> QED
    BY <2>3, <2>5, DoneMoves, CalmKeeps DEF Done
<1>13. CASE ClaimPending(p)
  <2>1. Range(job[p].ids) \subseteq Link
    <3>1. job[p].ids \in Seq(Link)
      BY DEF CodeTables, Job
    <3> QED
      BY <3>1 DEF Range
  <2>2. UNCHANGED <<code, prev>> /\ World' /\ At(p, "claim") /\ Proceed(p)
    BY <1>a, <1>13, <2>1 DEF ClaimPending, World
  <2> QED
    BY <2>2, ProceedKeeps
<1>14. CASE Clear(p)
  <2>1. UNCHANGED <<code, prev>> /\ World' /\ Done(p)
    BY <1>a, <1>14 DEF Clear, Reply, Done, World
  <2> QED
    BY <2>1, DoneMoves, CalmKeeps
<1>15. CASE Holder(p)
  <2>1. UNCHANGED <<code, prev>> /\ World' /\ At(p, "holder") /\ (Proceed(p) \/ Done(p))
    BY <1>a, <1>15 DEF Holder, World
  <2> QED
    BY <2>1, ProceedKeeps
<1>16. CASE Update(p) /\ ~(Exists(job[p].link) /\ Free(job[p].to, job[p].link))
  <2>1. UNCHANGED <<code, prev>> /\ World' /\ At(p, "update") /\ (Proceed(p) \/ Done(p))
    BY <1>a, <1>16 DEF Update, World
  <2> QED
    BY <2>1, ProceedKeeps
<1>17. CASE Update(p) /\ Exists(job[p].link) /\ Free(job[p].to, job[p].link)
  <2> DEFINE l == job[p].link
             c == job[p].to
             was == Roll(job[p].before, job[p].was, c)
  <2>1. l \in Link /\ Exists(l) /\ c \in Code /\ job[p].was \in Code /\ IsHistory(job[p].before)
    BY <1>17, UpdateMoves DEF JobHolds
  <2>2. IsHistory(was)
    BY <2>1, RollKeeps
  <2>3. /\ code' = [code EXCEPT ![l] = c] /\ prev' = [prev EXCEPT ![l] = was]
        /\ UNCHANGED <<owned, gone, formed, keyed, overlaps, redis, cookie, look, counts>>
        /\ taken' \subseteq taken \cup ({c} \cup Range(was))
        /\ late' \subseteq late \cup ({code[l]} \cup Range(prev[l])) \cup Range(was)
    BY <1>17 DEF Update
  <2> HIDE DEF was
  <2>4. Tables'
    BY <1>17, <2>1, <2>2, <2>3, UpdateTables
  <2>5. code[l] \in Code /\ Range(was) \subseteq Code /\ Range(prev[l]) \subseteq Code
    BY <2>1, <2>2, RangeIs DEF CodeTables, Tables, IsHistory, Exists
  <2>6. World'
    BY <1>a, <2>1, <2>3, <2>5 DEF World
  <2>7. PICK w : Moves(p, w) /\ Onto(job[p], w)
    BY <1>17, UpdateMoves
  <2> QED
    BY <2>4, <2>6, <2>7, MovesKeep
<1>18. CASE FlushOld(p) \/ Flush(p)
  <2>1. PICK s \in {"flushOld", "flush"} : At(p, s) /\ Proceed(p)
    BY <1>18 DEF FlushOld, Flush
  <2>2. UNCHANGED <<code, prev>> /\ World'
    BY <1>a, <1>18 DEF FlushOld, Flush, Drop, World
  <2> QED
    BY <2>1, <2>2, ProceedKeeps
<1>19. CASE Swallow(p)
  <2>1. PICK s \in {"quota", "replay", "count", "store", "flushOld", "flush", "sentinel"} : At(p, s) /\ Proceed(p)
    BY <1>19 DEF Swallow
  <2>2. /\ At(p, "flush") \/ At(p, "sentinel") => job[p].to \in Code
        /\ At(p, "flushOld") => job[p].was \in Code
    <3>1. job[p] \in Job /\ JobHolds(job[p])
      BY DEF CodeTables
    <3>2. /\ At(p, "flushOld") => job[p].op = "rename"
          /\ At(p, "sentinel") => job[p].op = "delete"
      BY <3>1, Onward DEF JobHolds, At
    <3> QED
      BY <3>1, <3>2 DEF JobHolds, Runs, At
  <2>3. UNCHANGED <<code, prev>> /\ World'
    BY <1>a, <1>19, <2>2 DEF Swallow, World
  <2> QED
    BY <2>1, <2>3, ProceedKeeps
<1>20. CASE Fail(p)
  <2>1. Owes(p) \subseteq Code
    <3>1. job[p] \in Job /\ JobHolds(job[p])
      BY DEF CodeTables
    <3>2. /\ Runs(job[p], {"flushOld"}) => job[p].op = "rename"
          /\ Runs(job[p], {"sentinel"}) => job[p].op = "delete"
      BY <3>1, Onward DEF JobHolds, Runs
    <3>3. Owes(p) = IF Runs(job[p], {"flushOld"}) THEN {job[p].to, job[p].was}
                    ELSE IF Runs(job[p], {"count", "flush", "sentinel"}) THEN {job[p].to} ELSE {}
      BY <3>1, OwesWhat DEF JobHolds, Debt
    <3>4. Runs(job[p], {"count", "flush", "sentinel"}) => job[p].to \in Code
      BY <3>1, <3>2 DEF JobHolds, Runs
    <3>5. Runs(job[p], {"flushOld"}) => job[p].to \in Code /\ job[p].was \in Code
      BY <3>1, <3>2 DEF JobHolds
    <3> QED
      BY <3>3, <3>4, <3>5
  <2>2. Done(p) /\ UNCHANGED <<code, prev>> /\ World'
    <3>1. Done(p) /\ cookie' \in {cookie, <<>>}
      BY <1>20 DEF Fail, Reply, Done
    <3>2. cookie' \in Seq(Link) /\ Len(cookie') <= MaxIds
      <4>1. cookie \in Seq(Link) /\ Len(cookie) <= MaxIds
        BY <1>a DEF World
      <4>2. <<>> \in Seq(Link) /\ Len(<<>>) = 0
        OBVIOUS
      <4>3. CASE cookie' = <<>>
        BY <1>a, <4>2, <4>3
      <4>4. CASE cookie' = cookie
        BY <4>1, <4>4
      <4> QED
        BY <3>1, <4>3, <4>4
    <3> QED
      BY <1>a, <1>20, <2>1, <3>1, <3>2 DEF Fail, World
  <2> QED
    BY <2>2, DoneMoves, CalmKeeps
<1>21. CASE DeleteRow(p)
  <2> DEFINE j == job[p]
  <2>1. At(p, "delete") /\ Proceed(p) /\ j.link \in Link
    <3>1. /\ At(p, "delete") /\ Left(j.op, j.todo) /\ j.todo # <<>> /\ Head(j.todo) = "delete" /\ JobHolds(j)
      BY <1>21, AtStep DEF DeleteRow, JobHolds, At
    <3> QED
      BY <1>21, <3>1, Onward DEF DeleteRow, JobHolds
  <2>2. CASE ~Exists(j.link)
    <3>1. UNCHANGED <<code, prev>> /\ World'
      BY <1>a, <1>21, <2>2 DEF DeleteRow, World
    <3> QED
      BY <2>1, <3>1, ProceedKeeps
  <2>3. CASE Exists(j.link)
    <3>1. Remove({j.link}) /\ late' = late \cup {d \in Names(j.link) \ {j.to} : hot[d] = j.link}
      BY <1>21, <2>3 DEF DeleteRow
    <3>2. Tables'
      BY <2>1, <3>1, RemoveTables
    <3>3. Names(j.link) \subseteq Code
      <4>1. code[j.link] \in Code /\ IsHistory(prev[j.link])
        BY <2>1, <2>3 DEF CodeTables, Tables, Exists
      <4>2. Range(prev[j.link]) \subseteq Code
        BY <4>1, RangeIs DEF IsHistory
      <4> QED
        BY <4>1, <4>2 DEF Names
    <3>4. World'
      BY <1>a, <1>21, <2>1, <3>1, <3>3 DEF DeleteRow, Remove, World
    <3>5. \E w : Moves(p, w)
      BY <2>1, ProceedMoves
    <3> QED
      BY <3>2, <3>4, <3>5, MovesKeep
  <2> QED
    BY <2>2, <2>3
<1>22. CASE Sentinel(p)
  <2>1. At(p, "sentinel") /\ Proceed(p) /\ UNCHANGED <<code, prev>>
    BY <1>22 DEF Sentinel
  <2>2. job[p].to \in Code
    <3>1. /\ Left(job[p].op, job[p].todo) /\ job[p].todo # <<>> /\ Head(job[p].todo) = "sentinel"
          /\ JobHolds(job[p])
      BY <2>1, AtStep DEF JobHolds, At
    <3> QED
      BY <3>1, Onward DEF JobHolds
  <2>3. World'
    BY <1>a, <1>22, <2>2 DEF Sentinel, World
  <2> QED
    BY <2>1, <2>3, ProceedKeeps
<1> QED
  BY <1>2, <1>3, <1>4, <1>5, <1>6, <1>7, <1>8, <1>9, <1>10, <1>11, <1>12, <1>13, <1>14, <1>15,
     <1>16, <1>17, <1>18, <1>19, <1>20, <1>21, <1>22 DEF Operate

LEMMA VisitorTables ==
  ASSUME CodeTables, AliasQuery \/ Fill \/ \E c \in Code : ExactQuery(c) \/ Expire(c)
  PROVE  CodeTables' /\ UNCHANGED <<rows, job, used, stored, cookie, counts, formed, keyed, overlaps, taken>>
<1> USE DEF rows, redis, counts, history
<1>1. UNCHANGED <<rows, job, used, stored, cookie, counts, formed, keyed, overlaps, taken>>
  BY DEF AliasQuery, Fill, ExactQuery, Expire, Drop
<1>2. World'
  <2>1. World
    BY DEF CodeTables
  <2>2. CASE AliasQuery
    <3>1. look' \in Look /\ (look'.pc = "fill" => look'.found \in Link)
      <4>1. NoLook \in Look /\ NoLook.pc = "idle" /\ look \in Look
        BY <2>1, CodesAssumption DEF World, Look, NoLook
      <4>2. \A l \in Link : LET w == [look EXCEPT !.pc = "fill", !.found = l]
                            IN  w \in Look /\ w.found = l
        BY <4>1 DEF Look
      <4>3. look' = NoLook \/ \E l \in Link : look' = [look EXCEPT !.pc = "fill", !.found = l]
        BY <2>2 DEF AliasQuery, Aliased
      <4> QED
        BY <4>1, <4>2, <4>3
    <3> QED
      BY <2>1, <2>2, <3>1 DEF AliasQuery, World
  <2>3. CASE Fill
    <3>1. look.key \in Code /\ look.found \in Link /\ NoLook \in Look /\ NoLook.pc = "idle"
      BY <2>1, <2>3, CodesAssumption DEF Fill, World, Look, NoLook
    <3> QED
      BY <2>1, <2>3, <3>1 DEF Fill, World
  <2>4. ASSUME NEW c \in Code, ExactQuery(c) PROVE World'
    <3>1. NoLook \in Look
      BY CodesAssumption DEF Look, NoLook
    <3>2. \A l \in Link : [pc |-> "fill", key |-> c, found |-> l] \in Look
      BY DEF Look
    <3>3. LET w == [NoLook EXCEPT !.pc = "alias", !.key = c] IN w \in Look /\ w.pc = "alias"
      BY <3>1 DEF Look
    <3>4. \/ look' = [NoLook EXCEPT !.pc = "alias", !.key = c]
          \/ \E l \in Link : look' = [pc |-> "fill", key |-> c, found |-> l]
      BY <2>4 DEF ExactQuery, Holders
    <3>5. look' \in Look /\ (look'.pc = "fill" => look'.found \in Link)
      <4>1. CASE look' = [NoLook EXCEPT !.pc = "alias", !.key = c]
        BY <3>3, <4>1
      <4>2. ASSUME NEW l \in Link, look' = [pc |-> "fill", key |-> c, found |-> l]
            PROVE  look' \in Look /\ look'.found \in Link
        BY <3>2, <4>2
      <4> QED
        BY <3>4, <4>1, <4>2
    <3> QED
      BY <2>1, <2>4, <3>5 DEF ExactQuery, World
  <2>5. ASSUME NEW c \in Code, Expire(c) PROVE World'
    BY <2>1, <2>5 DEF Expire, Drop, World
  <2> QED
    BY <2>2, <2>3, <2>4, <2>5
<1>3. Tables'
  BY <1>1, TablesStay DEF CodeTables
<1>4. \A p \in Proc : JobHolds(job[p])'
  BY <1>1 DEF CodeTables, JobHolds, Runs
<1> QED
  BY <1>1, <1>2, <1>3, <1>4 DEF CodeTables
-----------------------------------------------------------------------------
(* How many links are made. *)

\* The handlers of an operation, those that will make a link, and those that have
\* made one that is not yet counted, or whose answer is not yet kept.
Busy(o) == {p \in Proc : job[p].op = o}
Pending(o) == {p \in Proc : job[p].op = o /\ Runs(job[p], {"reserve", "persist"})}
Made(o) == {p \in Proc : job[p].op = o /\ Runs(job[p], {"count", "store"})}

Width(o) == IF o \in overlaps THEN Cardinality(Proc) ELSE 1

\* As long as no answer is kept every link is at the statement that keeps it; once
\* one is, nobody who looks goes on to make another.  A link that is not counted is
\* on its way to be; who was let in saw a counter below the quota.
Counting ==
  /\ \A o \in {"api", "form"} : Cardinality(Busy(o)) <= Width(o)
  /\ stored = NoLink => Cardinality(keyed) <= fails + Cardinality(Made("api"))
  /\ stored # NoLink => Cardinality(keyed) + Cardinality(Pending("api")) <= fails + Width("api")
  /\ formed <= used + fails + Cardinality(Made("form"))
  /\ formed + Cardinality(Pending("form")) <= Quota + fails + Width("form") - 1

LEMMA ProcCount ==
  ASSUME NEW S \in SUBSET Proc
  PROVE  /\ IsFiniteSet(S) /\ Cardinality(S) \in Nat /\ Cardinality(Proc) \in Nat
         /\ Cardinality(S) <= Cardinality(Proc)
         /\ \A T \in SUBSET S : IsFiniteSet(T) /\ Cardinality(T) \in Nat /\ Cardinality(T) <= Cardinality(S)
         /\ \A p \in Proc : Cardinality(S) = Cardinality(S \ {p}) + IF p \in S THEN 1 ELSE 0
<1>1. IsFiniteSet(Proc)
  BY CodesAssumption
<1>2. IsFiniteSet(S) /\ Cardinality(S) <= Cardinality(Proc)
  BY <1>1, FS_Subset
<1>3. Cardinality(S) \in Nat /\ Cardinality(Proc) \in Nat
  BY <1>1, <1>2, FS_CardinalityType
<1>4. ASSUME NEW T \in SUBSET S
      PROVE  IsFiniteSet(T) /\ Cardinality(T) \in Nat /\ Cardinality(T) <= Cardinality(S)
  <2>1. IsFiniteSet(T) /\ Cardinality(T) <= Cardinality(S)
    BY <1>2, FS_Subset
  <2> QED
    BY <2>1, FS_CardinalityType
<1>5. ASSUME NEW p \in Proc PROVE Cardinality(S) = Cardinality(S \ {p}) + IF p \in S THEN 1 ELSE 0
  <2>1. Cardinality(S \ {p}) = IF p \in S THEN Cardinality(S) - 1 ELSE Cardinality(S)
    BY <1>2, FS_RemoveElement
  <2> QED
    BY <1>3, <2>1
<1> QED
  BY <1>2, <1>3, <1>4, <1>5

\* A step of p counted: b, d and m are the numbers without p.
Counted(o, p, w, b, d, m) ==
  /\ b \in Nat /\ d \in Nat /\ m \in Nat /\ d + m <= b /\ b + 1 <= Cardinality(Proc)
  /\ Cardinality(Busy(o)) = b + (IF job[p].op = o THEN 1 ELSE 0)
  /\ Cardinality(Busy(o)') = b + (IF w.op = o THEN 1 ELSE 0)
  /\ Cardinality(Pending(o)) = d + (IF job[p].op = o /\ Runs(job[p], {"reserve", "persist"}) THEN 1 ELSE 0)
  /\ Cardinality(Pending(o)') = d + (IF w.op = o /\ Runs(w, {"reserve", "persist"}) THEN 1 ELSE 0)
  /\ Cardinality(Made(o)) = m + (IF job[p].op = o /\ Runs(job[p], {"count", "store"}) THEN 1 ELSE 0)
  /\ Cardinality(Made(o)') = m + (IF w.op = o /\ Runs(w, {"count", "store"}) THEN 1 ELSE 0)

LEMMA Recount ==
  ASSUME CodeTables, NEW p \in Proc, NEW w, Moves(p, w), NEW o
  PROVE  Cardinality(Proc) \in Nat /\ \E b, d, m \in Nat : Counted(o, p, w, b, d, m)
<1> DEFINE B == Busy(o) \ {p}
           D == Pending(o) \ {p}
           M == Made(o) \ {p}
<1>1. /\ job'[p] = w
      /\ \A q \in Proc : q # p => job'[q].op = job[q].op /\ job'[q].todo = job[q].todo
  BY MovesOthers DEF CodeTables
<1>2. /\ Busy(o)' \ {p} = B /\ Pending(o)' \ {p} = D /\ Made(o)' \ {p} = M
      /\ p \in Busy(o) <=> job[p].op = o
      /\ p \in Busy(o)' <=> w.op = o
      /\ p \in Pending(o) <=> job[p].op = o /\ Runs(job[p], {"reserve", "persist"})
      /\ p \in Pending(o)' <=> w.op = o /\ Runs(w, {"reserve", "persist"})
      /\ p \in Made(o) <=> job[p].op = o /\ Runs(job[p], {"count", "store"})
      /\ p \in Made(o)' <=> w.op = o /\ Runs(w, {"count", "store"})
  BY <1>1 DEF Busy, Pending, Made, Runs
<1>3. /\ Busy(o) \in SUBSET Proc /\ Busy(o)' \in SUBSET Proc
      /\ Pending(o) \in SUBSET Proc /\ Pending(o)' \in SUBSET Proc
      /\ Made(o) \in SUBSET Proc /\ Made(o)' \in SUBSET Proc
  BY DEF Busy, Pending, Made
<1>4. /\ Cardinality(Busy(o)) = Cardinality(B) + IF p \in Busy(o) THEN 1 ELSE 0
      /\ Cardinality(Busy(o)') = Cardinality(B) + IF p \in Busy(o)' THEN 1 ELSE 0
      /\ Cardinality(Pending(o)) = Cardinality(D) + IF p \in Pending(o) THEN 1 ELSE 0
      /\ Cardinality(Pending(o)') = Cardinality(D) + IF p \in Pending(o)' THEN 1 ELSE 0
      /\ Cardinality(Made(o)) = Cardinality(M) + IF p \in Made(o) THEN 1 ELSE 0
      /\ Cardinality(Made(o)') = Cardinality(M) + IF p \in Made(o)' THEN 1 ELSE 0
  <2>1. \A S \in SUBSET Proc : Cardinality(S) = Cardinality(S \ {p}) + IF p \in S THEN 1 ELSE 0
    BY ProcCount
  <2> HIDE DEF B, D, M
  <2>2. B = Busy(o) \ {p} /\ D = Pending(o) \ {p} /\ M = Made(o) \ {p}
    BY DEF B, D, M
  <2> QED
    BY <1>2, <1>3, <2>1, <2>2
<1>5. B \in SUBSET Proc /\ D \in SUBSET B /\ M \in SUBSET B /\ D \cap M = {}
  BY DEF Busy, Pending, Made, Runs
<1> HIDE DEF B, D, M
<1>6. /\ Cardinality(B) \in Nat /\ Cardinality(D) \in Nat /\ Cardinality(M) \in Nat
      /\ Cardinality(Proc) \in Nat
  BY <1>5, ProcCount
<1>7. Cardinality(D) + Cardinality(M) <= Cardinality(B)
  <2>1. IsFiniteSet(D) /\ IsFiniteSet(M) /\ D \cup M \in SUBSET B
    BY <1>5, ProcCount
  <2>2. Cardinality(D \cup M) = Cardinality(D) + Cardinality(M) - Cardinality(D \cap M)
    BY <2>1, FS_Union
  <2>3. Cardinality(D \cap M) = 0
    BY <1>5, FS_EmptySet
  <2>4. Cardinality(D \cup M) <= Cardinality(B)
    BY <1>5, <2>1, ProcCount
  <2> QED
    BY <1>6, <2>2, <2>3, <2>4
<1>8. Cardinality(B) + 1 <= Cardinality(Proc)
  <2>1. B \cup {p} \in SUBSET Proc /\ p \notin B
    BY <1>5 DEF B
  <2>2. Cardinality(B \cup {p}) = Cardinality((B \cup {p}) \ {p}) + 1 /\ (B \cup {p}) \ {p} = B
    BY <2>1, ProcCount
  <2>3. Cardinality(B \cup {p}) <= Cardinality(Proc)
    BY <2>1, ProcCount
  <2> QED
    BY <2>2, <2>3
<1> QED
  BY <1>2, <1>4, <1>6, <1>7, <1>8 DEF Counted

LEMMA KeyedCount ==
  ASSUME CodeTables
  PROVE  /\ IsFiniteSet(keyed) /\ Cardinality(keyed) \in Nat
         /\ \A l : Cardinality(keyed \cup {l}) \in Nat /\ Cardinality(keyed \cup {l}) <= Cardinality(keyed) + 1
<1>1. keyed \in SUBSET Link /\ IsFiniteSet(Link)
  BY CodesAssumption, FS_Interval DEF CodeTables, World, Link
<1>2. IsFiniteSet(keyed)
  BY <1>1, FS_Subset
<1>3. Cardinality(keyed) \in Nat
  BY <1>2, FS_CardinalityType
<1>4. ASSUME NEW l PROVE Cardinality(keyed \cup {l}) = IF l \in keyed THEN Cardinality(keyed) ELSE Cardinality(keyed) + 1
  BY <1>2, FS_AddElement
<1> QED
  BY <1>2, <1>3, <1>4

\* What all the steps below know of the numbers.
LEMMA Numbers ==
  ASSUME CodeTables
  PROVE  formed \in Nat /\ used \in Nat /\ fails \in Nat /\ Quota \in Nat
BY CodesAssumption DEF CodeTables, World

\* Nobody new is let in, nothing made is forgotten.
LEMMA CalmCounts ==
  ASSUME CodeTables, Counting, NEW p \in Proc, NEW w, Moves(p, w),
         UNCHANGED <<keyed, stored, used, formed, fails>>, overlaps \subseteq overlaps',
         \A o \in {"api", "form"} :
           /\ w.op = o => job[p].op = o
           /\ w.op = o /\ Runs(w, {"reserve", "persist"}) => Runs(job[p], {"reserve", "persist"})
           /\ job[p].op = o /\ Runs(job[p], {"count", "store"}) => w.op = o /\ Runs(w, {"count", "store"})
  PROVE  Counting'
<1>1. \A o \in {"api", "form"} : Cardinality(Proc) \in Nat /\ \E b, d, m \in Nat : Counted(o, p, w, b, d, m)
  BY Recount
<1>2. formed \in Nat /\ used \in Nat /\ fails \in Nat /\ Quota \in Nat /\ Cardinality(keyed) \in Nat
  BY Numbers, KeyedCount
<1>3. \A o \in {"api", "form"} : Width(o) \in Nat /\ Width(o)' \in Nat /\ Width(o) <= Width(o)'
  BY <1>1 DEF Width, Counted
<1>4. ASSUME NEW o \in {"api", "form"}
      PROVE  /\ Cardinality(Busy(o)) \in Nat /\ Cardinality(Busy(o)') \in Nat /\ Cardinality(Busy(o)') <= Cardinality(Busy(o))
             /\ Cardinality(Pending(o)) \in Nat /\ Cardinality(Pending(o)') \in Nat
             /\ Cardinality(Pending(o)') <= Cardinality(Pending(o))
             /\ Cardinality(Made(o)) \in Nat /\ Cardinality(Made(o)') \in Nat
             /\ Cardinality(Made(o)') >= Cardinality(Made(o))
  <2>1. PICK b \in Nat, d \in Nat, m \in Nat : Counted(o, p, w, b, d, m)
    BY <1>1
  <2> QED
    BY <2>1 DEF Counted
<1> QED
  BY <1>2, <1>3, <1>4 DEF Counting

\* A failure: one is let in, or one link forgotten, at the most.
LEMMA FailCounts ==
  ASSUME CodeTables, Counting, NEW p \in Proc, NEW w, Moves(p, w),
         UNCHANGED <<keyed, stored, used, formed, overlaps>>, fails' = fails + 1,
         w.op \in {"idle", job[p].op}
  PROVE  Counting'
<1>1. \A o \in {"api", "form"} : Cardinality(Proc) \in Nat /\ \E b, d, m \in Nat : Counted(o, p, w, b, d, m)
  BY Recount
<1>2. formed \in Nat /\ used \in Nat /\ fails \in Nat /\ Quota \in Nat /\ Cardinality(keyed) \in Nat
  BY Numbers, KeyedCount
<1>3. \A o \in {"api", "form"} : Width(o) \in Nat /\ Width(o)' = Width(o)
  BY <1>1 DEF Width
<1>4. ASSUME NEW o \in {"api", "form"}
      PROVE  /\ Cardinality(Busy(o)) \in Nat /\ Cardinality(Busy(o)') \in Nat /\ Cardinality(Busy(o)') <= Cardinality(Busy(o))
             /\ Cardinality(Pending(o)) \in Nat /\ Cardinality(Pending(o)') \in Nat
             /\ Cardinality(Pending(o)') <= Cardinality(Pending(o)) + 1
             /\ Cardinality(Made(o)) \in Nat /\ Cardinality(Made(o)') \in Nat
             /\ Cardinality(Made(o)') + 1 >= Cardinality(Made(o))
  <2>1. PICK b \in Nat, d \in Nat, m \in Nat : Counted(o, p, w, b, d, m)
    BY <1>1
  <2> QED
    BY <2>1 DEF Counted
<1> QED
  BY <1>2, <1>3, <1>4 DEF Counting
LEMMA BeginCounts ==
  ASSUME CodeTables, Counting, NEW p \in Proc, NEW o \in {"form", "api", "quick", "anon"},
         NEW c \in Code \cup {NoCode}, Begin(p, o, c)
  PROVE  Counting'
<1>1. PICK w : /\ Moves(p, w) /\ w.op = o
               /\ o \in {"form", "api"} => Runs(w, {"quota", "replay"})
  BY BeginMoves DEF Runs
<1>2. /\ UNCHANGED <<keyed, stored, used, formed, fails>> /\ job[p].op = "idle" /\ job[p].todo = <<>>
      /\ overlaps' = IF \E q \in Proc : job[q].op = o THEN overlaps \cup {o} ELSE overlaps
  BY IdleHolds DEF Begin, redis
<1>3. CASE o \in {"quick", "anon"}
  <2>1. overlaps \subseteq overlaps'
    BY <1>2
  <2> QED
    BY <1>1, <1>2, <1>3, <2>1, CalmCounts DEF Runs
<1>4. CASE o \in {"form", "api"}
  <2>1. \A x \in {"api", "form"} : Cardinality(Proc) \in Nat /\ \E b, d, m \in Nat : Counted(x, p, w, b, d, m)
    BY <1>1, Recount
  <2>2. formed \in Nat /\ used \in Nat /\ fails \in Nat /\ Quota \in Nat /\ Cardinality(keyed) \in Nat
    BY Numbers, KeyedCount
  <2>3. \A x \in {"api", "form"} : Width(x) \in Nat /\ Width(x)' \in Nat /\ Width(x) <= Width(x)'
    <3>1. overlaps \subseteq overlaps'
      BY <1>2
    <3> QED
      BY <2>1, <3>1 DEF Width, Counted
  <2>4. ASSUME NEW x \in {"api", "form"}
        PROVE  /\ Cardinality(Pending(x)') = Cardinality(Pending(x)) /\ Cardinality(Pending(x)) \in Nat
               /\ Cardinality(Made(x)') = Cardinality(Made(x)) /\ Cardinality(Made(x)) \in Nat
               /\ Cardinality(Busy(x)') <= Width(x)'
    <3>1. PICK b \in Nat, d \in Nat, m \in Nat : Counted(x, p, w, b, d, m)
      BY <2>1
    <3>2. w.op = x => ~Runs(w, {"reserve", "persist"}) /\ ~Runs(w, {"count", "store"})
      BY <1>1, <1>4 DEF Runs
    <3>3. /\ Cardinality(Pending(x)') = Cardinality(Pending(x)) /\ Cardinality(Pending(x)) \in Nat
          /\ Cardinality(Made(x)') = Cardinality(Made(x)) /\ Cardinality(Made(x)) \in Nat
          /\ Cardinality(Busy(x)') = b + (IF w.op = x THEN 1 ELSE 0) /\ Cardinality(Busy(x)) = b
          /\ b + 1 <= Cardinality(Proc)
      BY <1>2, <3>1, <3>2 DEF Counted, Runs
    <3>4. Cardinality(Busy(x)') <= Width(x)'
      <4>1. CASE x # o
        BY <1>1, <2>3, <3>3, <4>1 DEF Counting
      <4>2. CASE x = o /\ x \in overlaps'
        BY <2>1, <3>3, <4>2 DEF Width
      <4>3. CASE x = o /\ x \notin overlaps'
        <5>1. Busy(x) = {}
          BY <1>2, <4>3 DEF Busy
        <5>2. b = 0
          BY <3>3, <5>1, FS_EmptySet
        <5> QED
          BY <3>3, <4>3, <5>2 DEF Width
      <4> QED
        BY <4>1, <4>2, <4>3
    <3> QED
      BY <3>3, <3>4
  <2>5. ASSUME NEW x \in {"api", "form"} PROVE Cardinality(Busy(x)') <= Width(x)'
    BY <2>4
  <2>6. /\ stored = NoLink => Cardinality(keyed) <= fails + Cardinality(Made("api")')
        /\ stored # NoLink => Cardinality(keyed) + Cardinality(Pending("api")') <= fails + Width("api")'
    BY <2>2, <2>3, <2>4 DEF Counting
  <2>7. /\ formed <= used + fails + Cardinality(Made("form")')
        /\ formed + Cardinality(Pending("form")') <= Quota + fails + Width("form")' - 1
    BY <2>2, <2>3, <2>4 DEF Counting
  <2> QED
    BY <1>2, <2>5, <2>6, <2>7 DEF Counting
<1> QED
  BY <1>3, <1>4

\* The one who passes the quota or finds no answer,
LEMMA AdmitCounts ==
  ASSUME CodeTables, Counting, NEW p \in Proc, NEW w, Moves(p, w),
         UNCHANGED <<keyed, stored, used, formed, fails, overlaps>>,
         NEW o \in {"api", "form"}, job[p].op = o, w.op = o, Runs(w, {"reserve"}),
         Runs(job[p], {"quota", "replay"}),
         IF o = "form" THEN used < Quota ELSE stored = NoLink
  PROVE  Counting'
<1>1. \A x \in {"api", "form"} : Cardinality(Proc) \in Nat /\ \E b, d, m \in Nat : Counted(x, p, w, b, d, m)
  BY Recount
<1>2. formed \in Nat /\ used \in Nat /\ fails \in Nat /\ Quota \in Nat /\ Cardinality(keyed) \in Nat
  BY Numbers, KeyedCount
<1>3. \A x \in {"api", "form"} : Width(x) \in Nat /\ Width(x)' = Width(x)
  BY <1>1 DEF Width
<1>4. ASSUME NEW x \in {"api", "form"}
      PROVE  /\ Cardinality(Busy(x)) \in Nat /\ Cardinality(Busy(x)') = Cardinality(Busy(x))
             /\ Cardinality(Pending(x)) \in Nat
             /\ Cardinality(Pending(x)') = Cardinality(Pending(x)) + (IF x = o THEN 1 ELSE 0)
             /\ Cardinality(Made(x)) \in Nat /\ Cardinality(Made(x)') = Cardinality(Made(x))
             /\ x = o => Cardinality(Pending(x)) + Cardinality(Made(x)) + 1 <= Cardinality(Busy(x))
  <2>1. PICK b \in Nat, d \in Nat, m \in Nat : Counted(x, p, w, b, d, m)
    BY <1>1
  <2> QED
    BY <2>1 DEF Counted, Runs
<1>5. CASE o = "form"
  BY <1>2, <1>3, <1>4, <1>5 DEF Counting
<1>6. CASE o = "api"
  BY <1>2, <1>3, <1>4, <1>6 DEF Counting
<1> QED
  BY <1>5, <1>6

\* the one who makes a link,
LEMMA MakeCounts ==
  ASSUME CodeTables, Counting, NEW p \in Proc, NEW w, Moves(p, w), NEW l,
         UNCHANGED <<stored, used, fails, overlaps>>, Runs(job[p], {"persist"}),
         \/ w = Idle /\ job[p].op = "quick"
         \/ w.op = job[p].op /\ Runs(w, {After(job[p].op, "persist")}),
         formed' = IF job[p].op = "form" THEN formed + 1 ELSE formed,
         keyed' = IF job[p].op = "api" THEN keyed \cup {l} ELSE keyed
  PROVE  Counting'
<1>1. \A x \in {"api", "form"} : Cardinality(Proc) \in Nat /\ \E b, d, m \in Nat : Counted(x, p, w, b, d, m)
  BY Recount
<1>2. /\ formed \in Nat /\ used \in Nat /\ fails \in Nat /\ Quota \in Nat
      /\ Cardinality(keyed) \in Nat /\ Cardinality(keyed') \in Nat
      /\ Cardinality(keyed') <= Cardinality(keyed) + (IF job[p].op = "api" THEN 1 ELSE 0)
  <2>1. formed \in Nat /\ used \in Nat /\ fails \in Nat /\ Quota \in Nat /\ Cardinality(keyed) \in Nat
    BY Numbers, KeyedCount
  <2>2. Cardinality(keyed \cup {l}) \in Nat /\ Cardinality(keyed \cup {l}) <= Cardinality(keyed) + 1
    BY KeyedCount
  <2>3. CASE job[p].op = "api"
    BY <2>1, <2>2, <2>3
  <2>4. CASE job[p].op # "api"
    BY <2>1, <2>4
  <2> QED
    BY <2>3, <2>4
<1>3. \A x \in {"api", "form"} : Width(x) \in Nat /\ Width(x)' = Width(x)
  BY <1>1 DEF Width
<1>4. ASSUME NEW x \in {"api", "form"}
      PROVE  /\ Cardinality(Busy(x)) \in Nat /\ Cardinality(Busy(x)') = Cardinality(Busy(x))
             /\ Cardinality(Pending(x)') \in Nat
             /\ Cardinality(Pending(x)) = Cardinality(Pending(x)') + (IF x = job[p].op THEN 1 ELSE 0)
             /\ Cardinality(Made(x)) \in Nat
             /\ Cardinality(Made(x)') = Cardinality(Made(x)) + (IF x = job[p].op THEN 1 ELSE 0)
  <2>1. PICK b \in Nat, d \in Nat, m \in Nat : Counted(x, p, w, b, d, m)
    BY <1>1
  <2>2. x = job[p].op => w.op = x /\ Runs(w, {"count", "store"})
    BY DEF After, Runs
  <2>3. x # job[p].op => w.op # x
    BY IdleHolds
  <2> QED
    BY <2>1, <2>2, <2>3 DEF Counted, Runs
<1> QED
  BY <1>2, <1>3, <1>4 DEF Counting

\* and the two who record it.
LEMMA RecordCounts ==
  ASSUME CodeTables, Counting, NEW p \in Proc, NEW w, Moves(p, w),
         UNCHANGED <<keyed, formed, fails, overlaps>>,
         \/ /\ Runs(job[p], {"count"}) /\ job[p].op = "form" /\ w.op \in {"idle", "form"}
            /\ ~Runs(w, {"reserve", "persist"})
            /\ used' = used + 1 /\ stored' = stored
         \/ /\ Runs(job[p], {"store"}) /\ job[p].op = "api" /\ w = Idle
            /\ used' = used /\ stored' # NoLink
  PROVE  Counting'
<1>1. \A x \in {"api", "form"} : Cardinality(Proc) \in Nat /\ \E b, d, m \in Nat : Counted(x, p, w, b, d, m)
  BY Recount
<1>2. formed \in Nat /\ used \in Nat /\ fails \in Nat /\ Quota \in Nat /\ Cardinality(keyed) \in Nat
  BY Numbers, KeyedCount
<1>3. \A x \in {"api", "form"} : Width(x) \in Nat /\ Width(x)' = Width(x)
  BY <1>1 DEF Width
<1>4. ASSUME NEW x \in {"api", "form"}
      PROVE  /\ Cardinality(Busy(x)) \in Nat /\ Cardinality(Busy(x)') \in Nat
             /\ Cardinality(Busy(x)') <= Cardinality(Busy(x))
             /\ Cardinality(Pending(x)) \in Nat /\ Cardinality(Pending(x)') = Cardinality(Pending(x))
             /\ Cardinality(Made(x)) \in Nat /\ Cardinality(Made(x)') \in Nat
             /\ Cardinality(Made(x)') + 1 >= Cardinality(Made(x))
             /\ x # job[p].op => Cardinality(Made(x)') = Cardinality(Made(x))
             /\ Cardinality(Pending(x)) + Cardinality(Made(x)) <= Cardinality(Busy(x))
  <2>1. PICK b \in Nat, d \in Nat, m \in Nat : Counted(x, p, w, b, d, m)
    BY <1>1
  <2>2. w.op \in {"idle", job[p].op} /\ (w.op # "idle" => ~Runs(w, {"reserve", "persist"}))
    BY IdleHolds
  <2>3. ~Runs(job[p], {"reserve", "persist"}) /\ Runs(job[p], {"count", "store"})
    BY DEF Runs
  <2> QED
    BY <2>1, <2>2, <2>3 DEF Counted
<1>5. CASE job[p].op = "form"
  BY <1>2, <1>3, <1>4, <1>5 DEF Counting
<1>6. CASE job[p].op = "api"
  BY <1>2, <1>3, <1>4, <1>6 DEF Counting
<1> QED
  BY <1>5, <1>6

\* Statements that have to do with neither.
LEMMA AsideCounts ==
  ASSUME CodeTables, Counting, NEW p \in Proc, NEW s \in Statements(job[p].op), At(p, s),
         s \notin {"count", "store"}, Done(p) \/ Proceed(p),
         s \in {"quota", "replay"} => Done(p),
         s \in {"quota", "replay", "reserve", "persist", "remember", "claim", "clear", "holder", "update",
                "flushOld", "flush", "delete", "sentinel"},
         s \in {"reserve", "persist", "remember", "clear"} => Done(p),
         UNCHANGED <<keyed, stored, used, formed, fails, overlaps>>
  PROVE  Counting'
<1>1. ~Runs(job[p], {"count", "store"})
  BY DEF At, Runs
<1>2. CASE Done(p)
  BY <1>1, <1>2, DoneMoves, IdleHolds, CalmCounts
<1>3. CASE Proceed(p) /\ ~Done(p)
  <2>1. s \in {"claim", "holder", "update", "flushOld", "flush", "delete", "sentinel"}
    BY <1>3
  <2>2. PICK w : Moves(p, w) /\ (IF After(job[p].op, s) = "end" THEN w = Idle
                                 ELSE Onto(job[p], w) /\ Runs(w, {After(job[p].op, s)}))
    BY <1>3, <2>1, ProceedMoves
  <2>3. w.op \in {"idle", job[p].op} /\ (w.op # "idle" => ~Runs(w, {"reserve", "persist"}))
    BY <2>1, <2>2, IdleHolds DEF After, Onto, Runs
  <2> QED
    BY <1>1, <2>2, <2>3, CalmCounts
<1> QED
  BY <1>2, <1>3
LEMMA OperateCounts ==
  ASSUME CodeTables, Counting, NEW p \in Proc, Operate(p)
  PROVE  Counting'
<1> USE DEF rows, redis, counts, history
<1>1. CASE CreatePowerLink(p) \/ PostLink(p) \/ Shorten(p)
  BY <1>1, BeginCounts DEF CreatePowerLink, PostLink, Shorten
<1>2. CASE Claim(p)
  <2>1. PICK w : Moves(p, w) /\ w.op = "claim"
    BY <1>2, ClaimMoves
  <2>2. job[p].op = "idle" /\ UNCHANGED <<keyed, stored, used, formed, fails, overlaps>>
    BY <1>2, IdleHolds DEF Claim
  <2> QED
    BY <2>1, <2>2, CalmCounts
<1>3. CASE Refuse(p) \/ Clear(p) \/ Remember(p) \/ (Holder(p) /\ Done(p)) \/ (CheckQuota(p) /\ Done(p))
           \/ (Replay(p) /\ Done(p))
  <2>1. PICK s \in {"reserve", "clear", "remember", "holder", "quota", "replay"} : At(p, s)
    BY <1>3 DEF Refuse, Clear, Remember, Holder, CheckQuota, Replay
  <2>2. Done(p) /\ UNCHANGED <<keyed, stored, used, formed, fails, overlaps>>
    BY <1>3 DEF Refuse, Clear, Remember, Holder, CheckQuota, Replay, Reply, Done
  <2>3. s \in Statements(job[p].op)
    BY <2>1, AtStep
  <2> QED
    BY <2>1, <2>2, <2>3, AsideCounts
<1>4. CASE (Holder(p) /\ ~Done(p)) \/ ClaimPending(p) \/ FlushOld(p) \/ Flush(p) \/ DeleteRow(p) \/ Sentinel(p)
  <2>1. PICK s \in {"holder", "claim", "flushOld", "flush", "delete", "sentinel"} : At(p, s)
    BY <1>4 DEF Holder, ClaimPending, FlushOld, Flush, DeleteRow, Sentinel
  <2>2. Proceed(p) /\ UNCHANGED <<keyed, stored, used, formed, fails, overlaps>>
    BY <1>4 DEF Holder, ClaimPending, FlushOld, Flush, Drop, DeleteRow, Sentinel
  <2>3. s \in Statements(job[p].op)
    BY <2>1, AtStep
  <2> QED
    BY <2>1, <2>2, <2>3, AsideCounts
<1>5. CASE CheckQuota(p) /\ ~Done(p)
  <2>1. At(p, "quota") /\ Proceed(p) /\ ~(used >= Quota)
    BY <1>5 DEF CheckQuota
  <2>2. UNCHANGED <<keyed, stored, used, formed, fails, overlaps>>
    BY <1>5 DEF CheckQuota
  <2>3. job[p].op = "form" /\ Runs(job[p], {"quota"}) /\ After("form", "quota") = "reserve"
    <3>1. Left(job[p].op, job[p].todo) /\ job[p].todo # <<>> /\ Head(job[p].todo) = "quota" /\ Runs(job[p], {"quota"})
      BY <2>1, AtStep DEF JobHolds, At
    <3> QED
      BY <3>1, Onward DEF After
  <2>4. PICK w : Moves(p, w) /\ Onto(job[p], w) /\ Runs(w, {"reserve"})
    BY <2>1, <2>3, ProceedMoves
  <2>5. used < Quota
    BY <2>1, Numbers
  <2> QED
    BY <2>2, <2>3, <2>4, <2>5, AdmitCounts DEF Onto, Runs
<1>6. CASE Replay(p) /\ ~Done(p)
  <2>1. At(p, "replay") /\ Proceed(p) /\ stored = NoLink
    BY <1>6 DEF Replay
  <2>2. UNCHANGED <<keyed, stored, used, formed, fails, overlaps>>
    BY <1>6 DEF Replay
  <2>3. job[p].op = "api" /\ Runs(job[p], {"replay"}) /\ After("api", "replay") = "reserve"
    <3>1. Left(job[p].op, job[p].todo) /\ job[p].todo # <<>> /\ Head(job[p].todo) = "replay" /\ Runs(job[p], {"replay"})
      BY <2>1, AtStep DEF JobHolds, At
    <3> QED
      BY <3>1, Onward DEF After
  <2>4. PICK w : Moves(p, w) /\ Onto(job[p], w) /\ Runs(w, {"reserve"})
    BY <2>1, <2>3, ProceedMoves
  <2> QED
    BY <2>1, <2>2, <2>3, <2>4, AdmitCounts DEF Onto, Runs
<1>7. CASE Reserve(p)
  <2>1. PICK w : /\ Moves(p, w)
                 /\ \/ w = Idle
                    \/ w.op = job[p].op /\ w.op # "rename" /\ Runs(w, {"reserve", "persist"})
                    \/ job[p].op = "rename" /\ Onto(job[p], w) /\ Runs(w, {"holder"})
    BY <1>7, ReserveMoves
  <2>2. Runs(job[p], {"reserve"}) /\ UNCHANGED <<keyed, stored, used, formed, fails, overlaps>>
    BY <1>7 DEF Reserve, At, Runs
  <2> QED
    BY <2>1, <2>2, IdleHolds, CalmCounts DEF Runs, Onto
<1>8. CASE Persist(p) /\ ~Free(job[p].to, NoLink)
  <2>1. PICK w : Moves(p, w) /\ (w = Idle \/ (w.op = job[p].op /\ w.op # "rename" /\ Runs(w, {"reserve"})))
    BY <1>8, CollideMoves DEF Persist
  <2>2. Runs(job[p], {"persist"}) /\ UNCHANGED <<keyed, stored, used, formed, fails, overlaps>>
    BY <1>8 DEF Persist, At, Runs
  <2> QED
    BY <2>1, <2>2, IdleHolds, CalmCounts DEF Runs
<1>9. CASE Persist(p) /\ Free(job[p].to, NoLink)
  <2>1. PICK l \in Link : \E w :
              /\ Moves(p, w)
              /\ \/ job[p].op = "quick" /\ w = Idle
                 \/ w.op = job[p].op /\ Runs(w, {After(job[p].op, "persist")})
              /\ formed' = IF job[p].op = "form" THEN formed + 1 ELSE formed
              /\ keyed' = IF job[p].op = "api" THEN keyed \cup {l} ELSE keyed
              /\ UNCHANGED <<stored, used, fails, overlaps>>
    BY <1>9, PersistMoves
  <2>2. Runs(job[p], {"persist"})
    BY <1>9, PersistMoves
  <2> QED
    BY <2>1, <2>2, MakeCounts
<1>10. CASE Count(p)
  <2>1. At(p, "count") /\ Proceed(p) /\ used' = used + 1 /\ UNCHANGED <<keyed, stored, formed, fails, overlaps>>
    BY <1>10 DEF Count
  <2>2. job[p].op = "form" /\ Runs(job[p], {"count"}) /\ After("form", "count") = "flush"
    <3>1. Left(job[p].op, job[p].todo) /\ job[p].todo # <<>> /\ Head(job[p].todo) = "count" /\ Runs(job[p], {"count"})
      BY <2>1, AtStep DEF JobHolds, At
    <3> QED
      BY <3>1, Onward DEF After
  <2>3. PICK w : Moves(p, w) /\ Onto(job[p], w) /\ Runs(w, {"flush"})
    BY <2>1, <2>2, ProceedMoves
  <2> QED
    BY <2>1, <2>2, <2>3, RecordCounts DEF Onto, Runs
<1>11. CASE Store(p)
  <2>1. At(p, "store") /\ Proceed(p) /\ UNCHANGED <<keyed, used, formed, fails, overlaps>>
    BY <1>11 DEF Store
  <2>2. job[p].op = "api" /\ Runs(job[p], {"store"}) /\ After("api", "store") = "end" /\ job[p].link \in Link
    <3>1. /\ Left(job[p].op, job[p].todo) /\ job[p].todo # <<>> /\ Head(job[p].todo) = "store"
          /\ Runs(job[p], {"store"}) /\ job[p].link \in Link
      BY <2>1, AtStep DEF JobHolds, At, Runs
    <3> QED
      BY <3>1, Onward DEF After
  <2>3. Moves(p, Idle)
    BY <2>1, <2>2, ProceedMoves
  <2>4. stored' # NoLink
    <3>1. NoLink \notin Link
      BY CodesAssumption DEF Link, NoLink
    <3> QED
      BY <1>11, <2>2, <3>1 DEF Store
  <2> QED
    BY <2>1, <2>2, <2>3, <2>4, RecordCounts
<1>12. CASE Update(p)
  <2>1. PICK w : Moves(p, w) /\ (w = Idle \/ (Onto(job[p], w) /\ Runs(w, {"flushOld"})))
    <3>1. CASE ~Exists(job[p].link)
      <4>1. At(p, "update") /\ Proceed(p) /\ After(job[p].op, "update") = "flushOld"
        BY <1>12, <3>1 DEF Update, After
      <4> QED
        BY <4>1, ProceedMoves
    <3>2. CASE Exists(job[p].link)
      BY <1>12, <3>2, UpdateMoves, DoneMoves DEF Update
    <3> QED
      BY <3>1, <3>2
  <2>2. UNCHANGED <<keyed, stored, used, formed, fails, overlaps>> /\ Runs(job[p], {"update"})
    BY <1>12 DEF Update, At, Runs
  <2> QED
    BY <2>1, <2>2, IdleHolds, CalmCounts DEF Runs, Onto
<1>13. CASE Swallow(p)
  <2>1. PICK s \in {"quota", "replay", "count", "store", "flushOld", "flush", "sentinel"} : At(p, s)
    BY <1>13 DEF Swallow
  <2>2. /\ Proceed(p) /\ UNCHANGED <<keyed, stored, used, formed, overlaps>> /\ fails' = fails + 1
    BY <1>13 DEF Swallow
  <2>3. PICK w : Moves(p, w) /\ w.op \in {"idle", job[p].op}
    BY <2>1, <2>2, ProceedMoves, IdleHolds DEF Onto
  <2> QED
    BY <2>2, <2>3, FailCounts
<1>14. CASE Fail(p)
  <2>1. Done(p) /\ UNCHANGED <<keyed, stored, used, formed, overlaps>> /\ fails' = fails + 1
    BY <1>14 DEF Fail, Reply, Done
  <2> QED
    BY <2>1, DoneMoves, IdleHolds, FailCounts
<1> QED
  BY <1>1, <1>2, <1>3, <1>4, <1>5, <1>6, <1>7, <1>8, <1>9, <1>10, <1>11, <1>12, <1>13, <1>14 DEF Operate

LEMMA CountsStay ==
  ASSUME Counting, UNCHANGED <<job, keyed, stored, used, formed, fails, overlaps>>
  PROVE  Counting'
BY DEF Counting, Busy, Pending, Made, Runs, Width

\* The next account starts anew, beside nobody of the last.
LEMMA PurgeCounts ==
  ASSUME CodeTables, Counting, Purge
  PROVE  Counting'
<1>1. /\ \A p \in Proc : job[p].op \in {"idle", "anon"}
      /\ used' = 0 /\ stored' = NoLink /\ formed' = 0 /\ keyed' = {} /\ UNCHANGED <<job, fails, overlaps>>
  BY DEF Purge, counts
<1>2. ASSUME NEW o \in {"api", "form"}
      PROVE  Busy(o)' = {} /\ Pending(o)' = {} /\ Made(o)' = {} /\ Width(o)' = Width(o) /\ Width(o) \in Nat
  <2>1. Cardinality(Proc) \in Nat
    BY ProcCount
  <2> QED
    BY <1>1, <2>1 DEF Busy, Pending, Made, Width
<1>3. /\ \A x : x = {} => Cardinality(x) = 0
      /\ formed \in Nat /\ fails \in Nat /\ Quota \in Nat
  BY FS_EmptySet, Numbers
<1>4. Quota + fails + Width("form") - 1 >= 0
  <2>1. Pending("form") \in SUBSET Proc
    BY DEF Pending
  <2>2. Cardinality(Pending("form")) \in Nat
    BY <2>1, ProcCount
  <2> QED
    BY <1>2, <1>3, <2>2 DEF Counting
<1>5. /\ \A o \in {"api", "form"} : /\ Cardinality(Busy(o)') = 0 /\ Cardinality(Pending(o)') = 0
                                    /\ Cardinality(Made(o)') = 0
      /\ Cardinality(keyed') = 0
  BY <1>1, <1>2, <1>3
<1> QED
  BY <1>1, <1>2, <1>3, <1>4, <1>5 DEF Counting

LEMMA CountsInit == ASSUME Init PROVE Counting
<1>1. /\ \A o : Busy(o) \subseteq {p \in Proc : o = "idle"} /\ Pending(o) = {} /\ Made(o) = {}
      /\ keyed = {} /\ stored = NoLink /\ fails = 0 /\ used = 0 /\ formed = 0 /\ overlaps = {}
  BY IdleHolds DEF Init, Busy, Pending, Made, Runs
<1>2. \A o \in {"api", "form"} : Busy(o) = {} /\ Pending(o) = {} /\ Made(o) = {}
  BY <1>1
<1>3. Quota \in Nat
  BY CodesAssumption
<1> QED
  BY <1>1, <1>2, <1>3, FS_EmptySet DEF Counting, Width

LEMMA CreationHolds == ASSUME CodeTables, Counting PROVE CreationBounded
<1>1. /\ Busy("api") \in SUBSET Proc /\ Busy("form") \in SUBSET Proc
      /\ Made("api") \in SUBSET Busy("api") /\ Pending("api") \in SUBSET Busy("api")
      /\ Pending("form") \in SUBSET Busy("form")
  BY DEF Busy, Made, Pending
<1>2. /\ Cardinality(Made("api")) \in Nat /\ Cardinality(Pending("api")) \in Nat /\ Cardinality(Busy("api")) \in Nat
      /\ Cardinality(Made("api")) <= Cardinality(Busy("api"))
      /\ Cardinality(Pending("form")) \in Nat /\ Cardinality(Proc) \in Nat
  BY <1>1, ProcCount
<1>3. formed \in Nat /\ used \in Nat /\ fails \in Nat /\ Quota \in Nat /\ Cardinality(keyed) \in Nat
  BY Numbers, KeyedCount
<1>4. Width("api") \in Nat /\ Width("form") \in Nat
  BY <1>2 DEF Width
<1>5. Cardinality(keyed) <= fails + Width("api")
  BY <1>2, <1>3, <1>4 DEF Counting
<1>6. formed <= Quota + fails + Width("form") - 1
  BY <1>2, <1>3, <1>4 DEF Counting
<1> QED
  BY <1>2, <1>3, <1>5, <1>6 DEF CreationBounded, Width
-----------------------------------------------------------------------------
(* Whom a code answers for. *)

Shared == \A a, b \in Link : a # b => (Names(a) \cap Names(b)) \ {NoCode} \subseteq taken

\* What a rename has read still holds while no other write has passed by and the link
\* is there: its codes, and, once it is about to write, that nobody else has or had
\* the new one.
Reads(j) ==
  j.op = "rename" /\ ~j.raced /\ Exists(j.link) /\ Runs(j, {"reserve", "holder", "update"}) =>
    /\ j.was = code[j.link] /\ j.before = prev[j.link]
    /\ Runs(j, {"update"}) => j.to \in Names(j.link) \/ Holders(j.to) \cup Aliased(j.to) = {}

Apart == Shared /\ \A p \in Proc : Reads(job[p])

LEMMA CalmApart ==
  ASSUME CodeTables, Apart, NEW p \in Proc, NEW w, Moves(p, w), job' = [job EXCEPT ![p] = w],
         UNCHANGED <<code, prev, taken>>, Reads(w)
  PROVE  Apart'
<1>1. Shared'
  BY DEF Apart, Shared, Names
<1>2. ASSUME NEW q \in Proc PROVE Reads(job[q])'
  <2>1. Reads(job'[q])
    BY DEF CodeTables, Apart
  <2> QED
    BY <2>1 DEF Reads, Names, Holders, Aliased, Exists, Runs
<1> QED
  BY <1>1, <1>2 DEF Apart

LEMMA RaceApart ==
  ASSUME CodeTables, NEW p \in Proc, NEW w, Moves(p, w), job' = Racing(p, w), Shared',
         w.op # "rename" \/ Runs(w, {"flushOld"})
  PROVE  Apart'
<1>1. ASSUME NEW q \in Proc PROVE Reads(job[q])'
  <2>1. job'[p] = w /\ (q # p => job'[q].op = job[q].op)
    BY MovesOthers DEF CodeTables
  <2>2. q # p /\ job[q].op = "rename" => job'[q].raced
    <3>1. SUFFICES ASSUME q # p, job[q].op = "rename" PROVE job'[q].raced
      OBVIOUS
    <3>2. job'[q] = [job[q] EXCEPT !.raced = @ \/ job[q].op = "rename"] /\ job[q] \in Job
      BY <3>1 DEF Racing, CodeTables
    <3> QED
      BY <3>1, <3>2 DEF Job
  <2>3. q = p => ~(job'[q].op = "rename" /\ Runs(job'[q], {"reserve", "holder", "update"}))
    BY <2>1 DEF Runs
  <2>4. ~(job'[q].op = "rename" /\ ~job'[q].raced /\ Runs(job'[q], {"reserve", "holder", "update"}))
    BY <2>1, <2>2, <2>3
  <2> QED
    BY <2>4 DEF Reads, Runs
<1> QED
  BY <1>1 DEF Apart

\* Every name of a link that is not there, and of one that is.
LEMMA HasName ==
  ASSUME CodeTables, NEW k \in Link, NEW x \in Names(k), x # NoCode
  PROVE  x \in Code /\ Exists(k) /\ (k \in Holders(x) \/ k \in Aliased(x))
<1>1. /\ IsHistory(prev[k]) /\ (~Exists(k) => prev[k] = <<>>) /\ code[k] \in Code \cup {NoCode}
      /\ NoCode \notin Code
  BY CodesAssumption DEF CodeTables, Tables
<1>2. Range(prev[k]) \subseteq Code /\ (prev[k] = <<>> => Range(prev[k]) = {})
  BY <1>1, RangeIs DEF IsHistory
<1> QED
  BY <1>1, <1>2 DEF Names, Exists, Holders, Aliased

LEMMA PersistApart ==
  ASSUME CodeTables, Apart, NEW p \in Proc, Persist(p), Free(job[p].to, NoLink)
  PROVE  Apart'
<1> DEFINE c == job[p].to
<1>1. c \in Code /\ Holders(c) = {}
  BY PersistMoves
<1>2. PICK l \in Link : \E w :
         /\ ~Exists(l) /\ code' = [code EXCEPT ![l] = c]
         /\ Moves(p, w) /\ job' = Racing(p, w) /\ w.op \in {"idle", "form", "api", "anon"}
         /\ taken' = IF Aliased(c) # {} THEN taken \cup {c} ELSE taken
         /\ prev' = prev
  BY PersistMoves, IdleHolds
<1>3. code \in [Link -> Code \cup {NoCode}] /\ prev[l] = <<>>
  BY <1>2 DEF CodeTables, Tables
<1>4. Names(l)' = {c} /\ \A k \in Link : k # l => Names(k)' = Names(k)
  <2>1. Range(prev[l]) = {}
    BY <1>3 DEF Range
  <2> QED
    BY <1>2, <1>3, <2>1 DEF Names
<1>5. \A k \in Link : c \in Names(k) => c \in taken'
  <2>1. NoCode \notin Code
    BY CodesAssumption
  <2> QED
    BY <1>1, <1>2, <2>1, HasName
<1>6. taken \subseteq taken'
  BY <1>2
<1>7. Shared'
  BY <1>4, <1>5, <1>6 DEF Shared, Apart
<1>8. PICK w : Moves(p, w) /\ job' = Racing(p, w) /\ w.op \in {"idle", "form", "api", "anon"}
  BY <1>2
<1> QED
  BY <1>7, <1>8, RaceApart

LEMMA UpdateApart ==
  ASSUME CodeTables, Apart, NEW p \in Proc, Update(p), Exists(job[p].link), Free(job[p].to, job[p].link)
  PROVE  Apart'
<1>0. \E l, c : l = job[p].link /\ c = job[p].to
  OBVIOUS
<1> PICK l, c : l = job[p].link /\ c = job[p].to
  BY <1>0
<1> DEFINE j == job[p]
           was == Roll(j.before, j.was, c)
           others == UNION {{code[k]} \cup Range(prev[k]) : k \in Link \ {l}}
<1>1. /\ l \in Link /\ Exists(l) /\ c \in Code /\ j.was \in Code /\ IsHistory(j.before)
      /\ Runs(j, {"update"}) /\ j.op = "rename" /\ NoCode \notin Code
  BY UpdateMoves, CodesAssumption DEF JobHolds
<1>2. IsHistory(was) /\ Range(was) \subseteq Range(j.before) \cup {j.was}
  BY <1>1, RollKeeps
<1>3. /\ code' = [code EXCEPT ![l] = c] /\ prev' = [prev EXCEPT ![l] = was]
      /\ taken' = IF j.raced THEN taken \cup (({c} \cup Range(was)) \cap others) ELSE taken
  BY DEF Update
<1> HIDE DEF was
<1>a. \E s : s = was
  OBVIOUS
<1> PICK now : now = was
  BY <1>a
<1>4. /\ Names(l)' = {c} \cup Range(now) /\ \A k \in Link : k # l => Names(k)' = Names(k)
  <2>1. code \in [Link -> Code \cup {NoCode}] /\ prev \in [Link -> Seq(Code)]
    BY DEF CodeTables, Tables
  <2>2. code'[l] = c /\ prev'[l] = now /\ \A k \in Link : k # l => code'[k] = code[k] /\ prev'[k] = prev[k]
    BY <1>1, <1>3, <2>1
  <2> QED
    BY <2>2 DEF Names
<1>5. taken \subseteq taken'
  BY <1>3
<1>6. ASSUME NEW k \in Link, k # l, NEW x \in Names(k), x \in {c} \cup Range(now), x # NoCode
      PROVE  x \in taken'
  <2>1. CASE j.raced
    <3>1. x \in others
      BY <1>6 DEF Names
    <3> QED
      BY <1>3, <1>6, <2>1, <3>1
  <2>2. CASE ~j.raced
    <3>1. /\ j.was = code[l] /\ j.before = prev[l]
          /\ c \in Names(l) \/ Holders(c) \cup Aliased(c) = {}
      <4>1. Reads(j)
        BY DEF Apart
      <4> QED
        BY <1>1, <2>2, <4>1 DEF Reads, Runs
    <3>2. CASE x \in Names(l)
      <4>1. x \in (Names(k) \cap Names(l)) \ {NoCode}
        BY <1>6, <3>2
      <4>2. (Names(k) \cap Names(l)) \ {NoCode} \subseteq taken
        BY <1>1, <1>6 DEF Apart, Shared
      <4> QED
        BY <1>5, <4>1, <4>2
    <3>3. CASE x \notin Names(l)
      <4>1. x = c /\ Holders(c) \cup Aliased(c) = {}
        BY <1>2, <1>6, <3>1, <3>3 DEF Names
      <4>2. k \in Holders(x) \/ k \in Aliased(x)
        BY <1>6, HasName
      <4> QED
        BY <4>1, <4>2
    <3> QED
      BY <3>2, <3>3
  <2> QED
    BY <2>1, <2>2
<1>7. Shared'
  <2> SUFFICES ASSUME NEW a \in Link, NEW b \in Link, a # b, NEW x \in Names(a)' \cap Names(b)', x # NoCode
               PROVE  x \in taken'
    BY DEF Shared
  <2>1. CASE a # l /\ b # l
    <3>1. x \in (Names(a) \cap Names(b)) \ {NoCode}
      BY <1>4, <2>1
    <3>2. (Names(a) \cap Names(b)) \ {NoCode} \subseteq taken
      BY DEF Apart, Shared
    <3> QED
      BY <1>5, <3>1, <3>2
  <2>2. CASE a = l
    <3>1. b # l /\ x \in Names(b) /\ x \in {c} \cup Range(now)
      BY <1>4, <2>2
    <3> QED
      BY <1>6, <3>1
  <2>3. CASE b = l
    <3>1. a # l /\ x \in Names(a) /\ x \in {c} \cup Range(now)
      BY <1>4, <2>3
    <3> QED
      BY <1>6, <3>1
  <2> QED
    BY <2>1, <2>2, <2>3
<1>8. PICK w : Moves(p, w) /\ job' = Racing(p, w) /\ Runs(w, {"flushOld"})
  BY UpdateMoves
<1> QED
  BY <1>7, <1>8, RaceApart
\* Rows that are deleted leave the others what they have.
LEMMA RemoveApart ==
  ASSUME CodeTables, Apart, NEW ls \in SUBSET Link, Remove(ls), taken' = taken
  PROVE  Shared' /\ \A q \in Proc : job'[q] = job[q] => Reads(job[q])'
<1>1. \A k \in Link : IF k \in ls THEN ~Exists(k)' /\ Names(k)' = {NoCode}
                      ELSE (Exists(k)' <=> Exists(k)) /\ code'[k] = code[k] /\ prev'[k] = prev[k]
                           /\ Names(k)' = Names(k)
  BY RemoveTables
<1>2. Shared'
  <2>1. \A k \in Link : Names(k)' \ {NoCode} \subseteq Names(k)
    BY <1>1
  <2> SUFFICES ASSUME NEW a \in Link, NEW b \in Link, a # b, NEW x \in Names(a)' \cap Names(b)', x # NoCode
               PROVE  x \in taken'
    BY DEF Shared
  <2>2. (Names(a) \cap Names(b)) \ {NoCode} \subseteq taken
    BY DEF Apart, Shared
  <2> QED
    BY <2>1, <2>2
<1>3. ASSUME NEW q \in Proc, job'[q] = job[q] PROVE Reads(job[q])'
  <2>0. \E j : j = job[q]
    OBVIOUS
  <2> PICK j : j = job[q]
    BY <2>0
  <2>1. JobHolds(j) /\ Reads(j) /\ job'[q] = j
    BY <1>3 DEF CodeTables, Apart
  <2>2. SUFFICES ASSUME j.op = "rename", ~j.raced, code'[j.link] # NoCode, Runs(j, {"reserve", "holder", "update"})
                 PROVE  /\ j.was = code'[j.link] /\ j.before = prev'[j.link]
                        /\ \/ ~Runs(j, {"update"})
                           \/ j.to \in {code'[j.link]} \cup Range(prev'[j.link])
                           \/ \A k \in Link : code'[k] # j.to /\ ~(code'[k] # NoCode /\ j.to \in Range(prev'[k]))
    BY <2>1 DEF Reads, Runs, Exists, Names, Holders, Aliased
  <2>3. j.link \in Link /\ j.to \in Code /\ NoCode \notin Code
    BY <2>1, <2>2, CodesAssumption DEF JobHolds
  <2>4. j.link \notin ls /\ Exists(j.link)
    BY <1>1, <2>2, <2>3 DEF Exists
  <2>5. /\ j.was = code[j.link] /\ j.before = prev[j.link]
        /\ Runs(j, {"update"}) => j.to \in Names(j.link) \/ Holders(j.to) \cup Aliased(j.to) = {}
    BY <2>1, <2>2, <2>4 DEF Reads
  <2>6. \A k \in Link : IF k \in ls THEN code'[k] = NoCode ELSE code'[k] = code[k] /\ prev'[k] = prev[k]
    BY <1>1 DEF Exists
  <2>7. Holders(j.to) \cup Aliased(j.to) = {} =>
          \A k \in Link : code'[k] # j.to /\ ~(code'[k] # NoCode /\ j.to \in Range(prev'[k]))
    BY <2>3, <2>6 DEF Holders, Aliased, Exists
  <2>8. code'[j.link] = code[j.link] /\ prev'[j.link] = prev[j.link]
    BY <2>3, <2>4, <2>6
  <2> QED
    BY <2>5, <2>7, <2>8 DEF Names
<1> QED
  BY <1>2, <1>3

LEMMA OperateApart ==
  ASSUME CodeTables, Apart, NEW p \in Proc, Operate(p)
  PROVE  Apart'
<1> USE DEF rows, redis, counts, history
<1>1. ASSUME NEW o \in {"form", "api", "quick", "anon"}, NEW c \in Code \cup {NoCode}, Begin(p, o, c)
      PROVE  Apart'
  <2>1. PICK w : Moves(p, w) /\ job' = [job EXCEPT ![p] = w] /\ w.op = o
    BY <1>1, BeginMoves
  <2> QED
    BY <1>1, <2>1, CalmApart DEF Begin, Reads
<1>2. CASE CreatePowerLink(p) \/ PostLink(p) \/ Shorten(p)
  BY <1>1, <1>2 DEF CreatePowerLink, PostLink, Shorten
<1>3. CASE Claim(p)
  <2>1. PICK w : Moves(p, w) /\ job' = [job EXCEPT ![p] = w] /\ w.op = "claim"
    BY <1>3, ClaimMoves
  <2> QED
    BY <1>3, <2>1, CalmApart DEF Claim, Reads
<1>4. ASSUME Done(p), UNCHANGED <<code, prev, taken>> PROVE Apart'
  <2>1. Moves(p, Idle) /\ job' = [job EXCEPT ![p] = Idle] /\ Reads(Idle)
    BY <1>4, DoneMoves, IdleHolds DEF Reads
  <2> QED
    BY <1>4, <2>1, CalmApart
<1>5. ASSUME NEW s \in {"quota", "replay", "count", "store", "claim", "update", "flushOld", "flush", "sentinel"},
             At(p, s), Proceed(p),
             UNCHANGED <<code, prev, taken>>
      PROVE  Apart'
  <2>1. PICK w : /\ Moves(p, w) /\ job' = [job EXCEPT ![p] = w]
                 /\ IF After(job[p].op, s) = "end" THEN w = Idle
                    ELSE Onto(job[p], w) /\ Runs(w, {After(job[p].op, s)})
    BY <1>5, ProceedMoves
  <2>2. Reads(w)
    <3>1. s \in Statements(job[p].op)
      BY <1>5, AtStep
    <3>2. job[p].op = "rename" => s \in {"update", "flushOld", "flush"}
      BY <3>1 DEF Statements
    <3> QED
      BY <2>1, <3>2, IdleHolds DEF Reads, Onto, Runs, After
  <2> QED
    BY <1>5, <2>1, <2>2, CalmApart
<1>6. CASE Refuse(p) \/ Remember(p) \/ Clear(p) \/ Fail(p)
  <2>1. Done(p) /\ UNCHANGED <<code, prev, taken>>
    BY <1>6 DEF Refuse, Remember, Clear, Fail, Reply, Done
  <2> QED
    BY <1>4, <2>1
<1>7. CASE CheckQuota(p) \/ Replay(p) \/ Count(p) \/ Store(p) \/ ClaimPending(p) \/ FlushOld(p) \/ Flush(p)
           \/ Sentinel(p) \/ Swallow(p)
  <2>1. PICK s \in {"quota", "replay", "count", "store", "claim", "flushOld", "flush", "sentinel"} : At(p, s)
    BY <1>7 DEF CheckQuota, Replay, Count, Store, ClaimPending, FlushOld, Flush, Sentinel, Swallow
  <2>2. (Done(p) \/ Proceed(p)) /\ UNCHANGED <<code, prev, taken>>
    BY <1>7 DEF CheckQuota, Replay, Count, Store, ClaimPending, FlushOld, Flush, Sentinel, Swallow, Drop
  <2> QED
    BY <1>4, <1>5, <2>1, <2>2
<1>8. CASE Reserve(p)
  <2>1. PICK w : /\ Moves(p, w) /\ job' = [job EXCEPT ![p] = w]
                 /\ \/ w = Idle
                    \/ w.op = job[p].op /\ w.op # "rename" /\ Runs(w, {"reserve", "persist"})
                    \/ job[p].op = "rename" /\ Onto(job[p], w) /\ Runs(w, {"holder"})
    BY <1>8, ReserveMoves
  <2>2. Reads(w)
    <3>1. Reads(job[p]) /\ Runs(job[p], {"reserve"})
      BY <1>8 DEF Apart, Reserve, At, Runs
    <3> QED
      BY <2>1, <3>1, IdleHolds DEF Reads, Onto, Runs
  <2> QED
    BY <1>8, <2>1, <2>2, CalmApart DEF Reserve
<1>9. CASE Persist(p) /\ ~Free(job[p].to, NoLink)
  <2>1. PICK w : /\ Moves(p, w) /\ job' = [job EXCEPT ![p] = w]
                 /\ (w = Idle \/ (w.op = job[p].op /\ w.op # "rename"))
    BY <1>9, CollideMoves DEF Persist
  <2>2. Reads(w)
    BY <2>1, IdleHolds DEF Reads
  <2> QED
    BY <1>9, <2>1, <2>2, CalmApart DEF Persist
<1>10. CASE Persist(p) /\ Free(job[p].to, NoLink)
  BY <1>10, PersistApart
<1>11. CASE Update(p) /\ ~(Exists(job[p].link) /\ Free(job[p].to, job[p].link))
  <2>1. At(p, "update") /\ (Done(p) \/ Proceed(p)) /\ UNCHANGED <<code, prev, taken>>
    BY <1>11 DEF Update
  <2> QED
    BY <1>4, <1>5, <2>1
<1>12. CASE Update(p) /\ Exists(job[p].link) /\ Free(job[p].to, job[p].link)
  BY <1>12, UpdateApart
<1>13. CASE Holder(p) /\ Done(p)
  BY <1>4, <1>13 DEF Holder
<1>14. CASE Holder(p) /\ ~Done(p)
  <2> DEFINE j == job[p]
             holders == Holders(j.to) \cup Aliased(j.to)
  <2>1. (holders = {} \/ j.link \in holders) /\ Proceed(p) /\ At(p, "holder")
    BY <1>14 DEF Holder
  <2>2. j.op = "rename" /\ Runs(j, {"holder"}) /\ After("rename", "holder") = "update"
    <3>1. Left(j.op, j.todo) /\ j.todo # <<>> /\ Head(j.todo) = "holder" /\ Runs(j, {"holder"})
      BY <2>1, AtStep DEF JobHolds, At
    <3> QED
      BY <3>1, Onward DEF After
  <2>3. PICK w : Moves(p, w) /\ job' = [job EXCEPT ![p] = w] /\ Onto(j, w) /\ Runs(w, {"update"})
    BY <2>1, <2>2, ProceedMoves
  <2>4. j.to \in Names(j.link) \/ holders = {}
    BY <2>1 DEF Holders, Aliased, Names
  <2>5. Reads(w)
    <3>1. Reads(j)
      BY DEF Apart
    <3> QED
      BY <2>2, <2>3, <2>4, <3>1 DEF Reads, Onto, Runs
  <2> QED
    BY <1>14, <2>3, <2>5, CalmApart DEF Holder
<1>15. CASE DeleteRow(p)
  <2> DEFINE j == job[p]
  <2>1. At(p, "delete") /\ Proceed(p) /\ j.op = "delete" /\ j.link \in Link /\ taken' = taken
    <3>1. /\ At(p, "delete") /\ Left(j.op, j.todo) /\ j.todo # <<>> /\ Head(j.todo) = "delete" /\ JobHolds(j)
      BY <1>15, AtStep DEF DeleteRow, JobHolds, At
    <3> QED
      BY <1>15, <3>1, Onward DEF DeleteRow, JobHolds
  <2>a. After(j.op, "delete") = "sentinel"
    BY DEF After
  <2>2. PICK w : Moves(p, w) /\ job' = [job EXCEPT ![p] = w] /\ w.op = "delete"
    <3>1. \E w : Moves(p, w) /\ job' = [job EXCEPT ![p] = w] /\ Onto(j, w)
      BY <2>1, <2>a, ProceedMoves
    <3> QED
      BY <2>1, <3>1 DEF Onto
  <2>3. Reads(w)
    BY <2>2 DEF Reads
  <2>4. CASE ~Exists(j.link)
    <3>1. UNCHANGED <<code, prev, taken>>
      BY <1>15, <2>4 DEF DeleteRow
    <3> QED
      BY <2>2, <2>3, <3>1, CalmApart
  <2>5. CASE Exists(j.link)
    <3>1. Remove({j.link}) /\ {j.link} \in SUBSET Link
      BY <1>15, <2>1, <2>5 DEF DeleteRow
    <3>2. Shared' /\ \A q \in Proc : job'[q] = job[q] => Reads(job[q])'
      BY <2>1, <3>1, RemoveApart
    <3>3. ASSUME NEW q \in Proc PROVE Reads(job[q])'
      <4>1. CASE q = p
        <5>1. job'[p] = w
          BY <2>2 DEF CodeTables
        <5> QED
          BY <2>2, <4>1, <5>1 DEF Reads
      <4>2. CASE q # p
        BY <2>2, <3>2, <4>2 DEF CodeTables
      <4> QED
        BY <4>1, <4>2
    <3> QED
      BY <3>2, <3>3 DEF Apart
  <2> QED
    BY <2>4, <2>5
<1> QED
  BY <1>2, <1>3, <1>6, <1>7, <1>8, <1>9, <1>10, <1>11, <1>12, <1>13, <1>14, <1>15 DEF Operate

LEMMA DeleteApart ==
  ASSUME CodeTables, Apart, NEW p \in Proc, NEW l \in Link, DeleteLink(p, l)
  PROVE  Apart'
<1>1. PICK w : Moves(p, w) /\ job' = [job EXCEPT ![p] = w] /\ w.op = "delete"
  BY DeleteMoves
<1>2. Reads(w)
  BY <1>1 DEF Reads
<1> QED
  BY <1>1, <1>2, CalmApart DEF DeleteLink, rows, history

LEMMA PurgeApart ==
  ASSUME CodeTables, Apart, Purge
  PROVE  Apart'
<1>1. owned \in SUBSET Link /\ Remove(owned) /\ job' = job /\ taken' = taken
  BY DEF Purge, CodeTables, World
<1> QED
  BY <1>1, RemoveApart DEF Apart

LEMMA RenameApart ==
  ASSUME CodeTables, Apart, NEW p \in Proc, NEW l \in Link, NEW c \in Code, Rename(p, l, c)
  PROVE  Apart'
<1>1. PICK w : /\ Moves(p, w) /\ job' = [job EXCEPT ![p] = w] /\ Runs(w, {"reserve"})
               /\ w.link = l /\ w.was = code[l] /\ w.before = prev[l]
  BY RenameMoves
<1>2. Reads(w)
  BY <1>1 DEF Reads, Runs
<1> QED
  BY <1>1, <1>2, CalmApart DEF Rename, rows, history

-----------------------------------------------------------------------------
(* What is cached under a code. *)

Settled(c) == Right(c) \/ c \in late
Cached == \A c \in Code : Settled(c) \/ \E p \in Proc : c \in Debt(job[p])

\* A step of p keeps it if what becomes unsettled is p's to settle.
LEMMA CacheKept ==
  ASSUME CodeTables, Cached, NEW p \in Proc, NEW w, Moves(p, w),
         \A c \in Code : Settled(c)' \/ c \in Debt(w)
                         \/ ~(Settled(c) \/ c \in Debt(job[p]))
  PROVE  Cached'
<1>1. /\ job'[p] = w
      /\ \A q \in Proc : q # p => /\ job'[q].todo = job[q].todo /\ job'[q].to = job[q].to
                                  /\ job'[q].was = job[q].was
  BY MovesOthers DEF CodeTables
<1>2. \A q \in Proc : q # p => Debt(job[q])' = Debt(job[q])
  BY <1>1 DEF Debt, Runs
<1>3. Debt(job[p])' = Debt(w)
  BY <1>1 DEF Debt, Runs
<1> SUFFICES ASSUME NEW c \in Code, ~Settled(c)' PROVE \E q \in Proc : c \in Debt(job[q])'
  BY DEF Cached
<1>4. CASE c \in Debt(w)
  BY <1>3, <1>4
<1>5. CASE c \notin Debt(w)
  <2>1. ~Settled(c) /\ c \notin Debt(job[p])
    BY <1>5
  <2>2. PICK q \in Proc : c \in Debt(job[q])
    BY <2>1 DEF Cached
  <2> QED
    BY <1>2, <2>1, <2>2
<1> QED
  BY <1>4, <1>5

\* A step that touches neither rows nor entries and passes on what p owes.
LEMMA CalmCached ==
  ASSUME CodeTables, Cached, NEW p \in Proc, NEW w, Moves(p, w),
         UNCHANGED <<code, prev, hot>>, late \subseteq late', Debt(job[p]) \subseteq Debt(w) \cup late'
  PROVE  Cached'
<1>1. \A c \in Code : Settled(c) => Settled(c)'
  BY DEF Settled, Right, Answers, Holders, Aliased, Exists
<1>2. \A c \in Code : c \in Debt(job[p]) => Settled(c)' \/ c \in Debt(w)
  BY DEF Settled
<1> QED
  BY <1>1, <1>2, CacheKept

LEMMA NoDebt ==
  ASSUME CodeTables, NEW p \in Proc, NEW s, At(p, s), s \notin {"count", "flushOld", "flush", "sentinel"}
  PROVE  Debt(job[p]) = {}
BY DEF At, Debt, Runs

\* The entry under d is dropped, and d was all that p owed but for what it still owes.
LEMMA DropCached ==
  ASSUME CodeTables, Cached, NEW p \in Proc, NEW w, Moves(p, w), NEW d, Drop(d),
         UNCHANGED <<code, prev>>, Debt(job[p]) \subseteq Debt(w) \cup {d}
  PROVE  Cached'
<1>1. ASSUME NEW c \in Code, c = d PROVE Settled(c)'
  BY <1>1 DEF Settled, Right, Drop, CodeTables, World
<1>2. ASSUME NEW c \in Code, c # d, Settled(c) PROVE Settled(c)'
  <2>1. hot'[c] = hot[c] /\ (c \in late' <=> c \in late)
    BY <1>2 DEF Drop, CodeTables, World
  <2> QED
    BY <1>2, <2>1 DEF Settled, Right, Answers, Holders, Aliased, Exists
<1> QED
  BY <1>1, <1>2, CacheKept

\* Rows that are deleted unsettle the entries that lead to them.
LEMMA RemoveSettles ==
  ASSUME CodeTables, NEW ls \in SUBSET Link, Remove(ls), hot' = hot, late \subseteq late',
         NEW c \in Code, Settled(c), hot[c] \in ls /\ hot[c] \in Answers(c) => c \in late'
  PROVE  Settled(c)'
<1>1. \A k \in Link : IF k \in ls THEN code'[k] = NoCode ELSE code'[k] = code[k] /\ prev'[k] = prev[k]
  BY RemoveTables DEF Exists
<1>2. NoCode \notin Code
  BY CodesAssumption
<1>3. Holders(c)' = Holders(c) \ ls /\ Aliased(c)' = Aliased(c) \ ls
  BY <1>1, <1>2 DEF Holders, Aliased, Exists
<1>4. CASE c \in late \/ hot[c] = NoLink
  BY <1>4 DEF Settled, Right
<1>5. CASE hot[c] \in Answers(c)
  BY <1>3, <1>5 DEF Settled, Right, Answers
<1>6. CASE hot[c] = Off /\ Answers(c) = {}
  BY <1>3, <1>6 DEF Settled, Right, Answers
<1> QED
  BY <1>4, <1>5, <1>6 DEF Settled, Right

LEMMA PersistCached ==
  ASSUME CodeTables, Cached, NEW p \in Proc, Persist(p), Free(job[p].to, NoLink)
  PROVE  Cached'
<1>0. \E c : c = job[p].to
  OBVIOUS
<1> PICK c : c = job[p].to
  BY <1>0
<1>1. c \in Code /\ Holders(c) = {} /\ Runs(job[p], {"persist"})
  BY PersistMoves
<1>2. PICK l \in Link : \E w :
         /\ ~Exists(l) /\ code' = [code EXCEPT ![l] = c]
         /\ Moves(p, w)
         /\ job[p].op = "form" => w.to = c /\ Runs(w, {"count"})
         /\ late' = IF hot[c] # NoLink /\ job[p].op # "form" THEN late \cup {c} ELSE late
         /\ prev' = prev /\ hot' = hot
  <2>1. After("form", "persist") = "count"
    BY DEF After
  <2> QED
    BY <2>1, PersistMoves DEF redis
<1>3. PICK w : Moves(p, w) /\ (job[p].op = "form" => w.to = c /\ Runs(w, {"count"}))
  BY <1>2
<1>4. /\ code \in [Link -> Code \cup {NoCode}] /\ prev[l] = <<>> /\ code[l] = NoCode /\ NoCode \notin Code
  BY <1>2, CodesAssumption DEF CodeTables, Tables, Exists
<1>5. ASSUME NEW d \in Code, d # c PROVE Answers(d)' = Answers(d)
  <2>1. Range(prev[l]) = {}
    BY <1>4 DEF Range
  <2>2. \A k \in Link : k # l => code'[k] = code[k] /\ (Exists(k)' <=> Exists(k))
    BY <1>2, <1>4 DEF Exists
  <2>3. Holders(d)' = Holders(d)
    BY <1>2, <1>4, <1>5, <2>2 DEF Holders
  <2>4. Aliased(d)' = Aliased(d)
    BY <1>2, <2>1, <2>2 DEF Aliased
  <2> QED
    BY <2>3, <2>4 DEF Answers
<1>6. ASSUME NEW d \in Code, Settled(d) PROVE Settled(d)' \/ d \in Debt(w)
  <2>1. CASE d # c
    <3>1. Answers(d)' = Answers(d)
      BY <1>5, <2>1
    <3> QED
      BY <1>2, <1>6, <3>1 DEF Settled, Right
  <2>2. CASE d = c /\ job[p].op = "form"
    BY <1>3, <2>2 DEF Debt, Runs
  <2>3. CASE d = c /\ job[p].op # "form"
    BY <1>2, <2>3 DEF Settled, Right
  <2> QED
    BY <2>1, <2>2, <2>3
<1>7. Debt(job[p]) = {}
  BY <1>1 DEF Debt, Runs
<1> QED
  BY <1>3, <1>6, <1>7, CacheKept

LEMMA UpdateCached ==
  ASSUME CodeTables, Cached, NEW p \in Proc, Update(p), Exists(job[p].link), Free(job[p].to, job[p].link)
  PROVE  Cached'
<1>0. \E l, c : l = job[p].link /\ c = job[p].to
  OBVIOUS
<1> PICK l, c : l = job[p].link /\ c = job[p].to
  BY <1>0
<1>1. /\ l \in Link /\ Exists(l) /\ c \in Code /\ NoCode \notin Code /\ Runs(job[p], {"update"})
  BY UpdateMoves, CodesAssumption DEF JobHolds
<1>2. PICK now :
      /\ code' = [code EXCEPT ![l] = c] /\ prev' = [prev EXCEPT ![l] = now] /\ hot' = hot
      /\ late' = late \cup {d \in ({code[l]} \cup Range(prev[l])) \ ({c} \cup Range(now)) : hot[d] # NoLink}
                     \cup {d \in Range(now) \ {job[p].was} : hot[d] = Off}
  BY DEF Update, redis
<1>3. PICK w : Moves(p, w) /\ w.to = c /\ w.was = job[p].was /\ Runs(w, {"flushOld"})
  BY UpdateMoves DEF Onto
<1>4. /\ \A a, b \in Link : a # b /\ code[a] = code[b] => code[a] = NoCode
      /\ code'[l] = c /\ prev'[l] = now /\ Exists(l)'
      /\ \A k \in Link : k # l => code'[k] = code[k] /\ prev'[k] = prev[k] /\ (Exists(k)' <=> Exists(k))
  BY <1>1, <1>2 DEF CodeTables, Tables, Exists
<1>5. ASSUME NEW d \in Code, d # c, d # job[p].was, Settled(d) PROVE Settled(d)'
  <2>1. CASE hot[d] = NoLink \/ d \in late
    BY <1>2, <2>1 DEF Settled, Right
  <2>2. CASE hot[d] # NoLink /\ d \in ({code[l]} \cup Range(prev[l])) \ ({c} \cup Range(now))
    BY <1>2, <2>2 DEF Settled, Right
  <2>3. CASE hot[d] \in Answers(d) /\ d \notin {code[l]} \cup Range(prev[l]) /\ d \notin Range(now)
    <3>1. Holders(d)' = Holders(d)
      BY <1>4, <1>5, <2>3 DEF Holders
    <3>2. Aliased(d)' = Aliased(d)
      BY <1>4, <2>3 DEF Aliased
    <3> QED
      BY <1>2, <2>3, <3>1, <3>2 DEF Settled, Right, Answers
  <2>4. CASE hot[d] \in Answers(d) /\ d \in Range(now)
    <3>1. l \in Aliased(d)' /\ l \notin Holders(d)'
      BY <1>1, <1>4, <1>5, <2>4 DEF Aliased, Holders
    <3>2. CASE Holders(d) = {}
      <4>1. Holders(d)' = {}
        BY <1>4, <1>5, <3>2 DEF Holders
      <4>2. hot[d] \in Aliased(d)'
        BY <1>4, <2>4, <3>1, <3>2 DEF Answers, Aliased
      <4> QED
        BY <1>2, <4>1, <4>2 DEF Settled, Right, Answers
    <3>3. CASE Holders(d) # {} /\ hot[d] # l
      <4>1. hot[d] \in Holders(d)'
        BY <1>4, <2>4, <3>3 DEF Answers, Holders
      <4> QED
        BY <1>2, <4>1 DEF Settled, Right, Answers
    <3>4. CASE Holders(d) # {} /\ hot[d] = l
      <4>1. l \in Holders(d)
        BY <2>4, <3>4 DEF Answers
      <4>2. \A k \in Link : k # l => code[k] # d
        BY <1>1, <1>4, <1>5, <4>1 DEF Holders
      <4>3. Holders(d)' = {}
        BY <1>4, <1>5, <4>2 DEF Holders
      <4> QED
        BY <1>2, <3>1, <3>4, <4>3 DEF Settled, Right, Answers
    <3> QED
      BY <3>2, <3>3, <3>4
  <2>5. CASE hot[d] = Off /\ Answers(d) = {} /\ d \in Range(now)
    BY <1>2, <1>5, <2>5 DEF Settled
  <2>6. CASE hot[d] = Off /\ Answers(d) = {} /\ d \notin Range(now)
    <3>1. Holders(d)' = {} /\ Aliased(d)' = {}
      BY <1>4, <1>5, <2>6 DEF Answers, Holders, Aliased
    <3> QED
      BY <1>2, <2>6, <3>1 DEF Settled, Right, Answers
  <2> QED
    BY <1>5, <2>1, <2>2, <2>3, <2>4, <2>5, <2>6 DEF Settled, Right
<1>6. c \in Debt(w) /\ job[p].was \in Debt(w)
  BY <1>3 DEF Debt
<1>7. Debt(job[p]) = {}
  BY <1>1 DEF Debt, Runs
<1> QED
  BY <1>3, <1>5, <1>6, <1>7, CacheKept
\* The sentinel: it is right, or the code has come to another link.
LEMMA SentinelCached ==
  ASSUME CodeTables, Cached, NEW p \in Proc, Sentinel(p)
  PROVE  Cached'
<1> DEFINE d == job[p].to
<1>1. /\ At(p, "sentinel") /\ Proceed(p) /\ UNCHANGED <<code, prev>> /\ hot' = [hot EXCEPT ![d] = Off]
      /\ late' = IF Answers(d) = {} THEN late \ {d} ELSE late \cup {d}
  BY DEF Sentinel, rows
<1>2. PICK w : Moves(p, w)
  BY <1>1, ProceedMoves
<1>3. Debt(job[p]) = {d}
  BY <1>1 DEF Debt, Runs, At
<1>4. \A c \in Code : Answers(c)' = Answers(c)
  BY <1>1 DEF Answers, Holders, Aliased, Exists
<1>5. ASSUME NEW c \in Code, c = d PROVE Settled(c)'
  <2>1. hot'[c] = Off
    BY <1>1, <1>5 DEF CodeTables, World
  <2> QED
    BY <1>1, <1>4, <1>5, <2>1 DEF Settled, Right
<1>6. ASSUME NEW c \in Code, c # d, Settled(c) PROVE Settled(c)'
  <2>1. hot'[c] = hot[c] /\ (c \in late' <=> c \in late)
    BY <1>1, <1>6 DEF CodeTables, World
  <2> QED
    BY <1>4, <1>6, <2>1 DEF Settled, Right
<1> HIDE DEF d
<1>7. \A c \in Code : Settled(c)' \/ ~(Settled(c) \/ c \in Debt(job[p]))
  BY <1>3, <1>5, <1>6
<1> QED
  BY <1>2, <1>7, CacheKept

\* The row: the sentinel of its code is to come, the entries of the others are late.
LEMMA DeleteRowCached ==
  ASSUME CodeTables, Cached, NEW p \in Proc, DeleteRow(p)
  PROVE  Cached'
<1>0. \E l, d : l = job[p].link /\ d = job[p].to
  OBVIOUS
<1> PICK l, d : l = job[p].link /\ d = job[p].to
  BY <1>0
<1>1. At(p, "delete") /\ Proceed(p) /\ hot' = hot /\ After(job[p].op, "delete") = "sentinel"
  BY DEF DeleteRow, redis, After
<1>2. l \in Link
  <2>1. /\ Left(job[p].op, job[p].todo) /\ job[p].todo # <<>> /\ Head(job[p].todo) = "delete"
        /\ JobHolds(job[p])
    BY <1>1, AtStep DEF JobHolds, At
  <2> QED
    BY <2>1, Onward DEF JobHolds
<1>3. PICK w : Moves(p, w) /\ w.to = d /\ Runs(w, {"sentinel"})
  BY <1>1, ProceedMoves DEF Onto
<1>4. Debt(job[p]) = {} /\ d \in Debt(w)
  BY <1>1, <1>3, NoDebt DEF Debt, Runs
<1>5. CASE ~Exists(l)
  <2>1. UNCHANGED <<code, prev, late>>
    BY <1>5 DEF DeleteRow, rows
  <2> QED
    BY <1>1, <1>3, <1>4, <2>1, CalmCached
<1>6. CASE Exists(l)
  <2>1. Remove({l}) /\ late' = late \cup {x \in Names(l) \ {d} : hot[x] = l}
    BY <1>6 DEF DeleteRow
  <2>2. ASSUME NEW c \in Code, c # d, Settled(c) PROVE Settled(c)'
    <3>1. l \in Answers(c) => c \in Names(l)
      BY DEF Answers, Holders, Aliased, Names
    <3>2. hot[c] \in {l} /\ hot[c] \in Answers(c) => c \in late'
      BY <2>1, <2>2, <3>1
    <3> QED
      BY <1>1, <1>2, <2>1, <2>2, <3>2, RemoveSettles
  <2> QED
    BY <1>3, <1>4, <2>2, CacheKept
<1> QED
  BY <1>5, <1>6

LEMMA OperateCached ==
  ASSUME CodeTables, Cached, NEW p \in Proc, Operate(p)
  PROVE  Cached'
<1> USE DEF rows, redis, counts, history
<1>a. ASSUME NEW w, Moves(p, w), UNCHANGED <<code, prev, hot, late>>, Debt(job[p]) = {} PROVE Cached'
  BY <1>a, CalmCached
<1>b. ASSUME Done(p), UNCHANGED <<code, prev, hot, late>>, Debt(job[p]) = {} PROVE Cached'
  BY <1>a, <1>b, DoneMoves
<1>c. job[p] = Idle => Debt(job[p]) = {}
  BY IdleHolds DEF Debt, Runs
<1>1. ASSUME NEW o \in {"form", "api", "quick", "anon"}, NEW c \in Code \cup {NoCode}, Begin(p, o, c)
      PROVE  Cached'
  <2>1. PICK w : Moves(p, w)
    BY <1>1, BeginMoves
  <2> QED
    BY <1>a, <1>c, <1>1, <2>1 DEF Begin
<1>2. CASE CreatePowerLink(p) \/ PostLink(p) \/ Shorten(p)
  BY <1>1, <1>2 DEF CreatePowerLink, PostLink, Shorten
<1>3. CASE Claim(p)
  <2>1. PICK w : Moves(p, w)
    BY <1>3, ClaimMoves
  <2> QED
    BY <1>a, <1>c, <1>3, <2>1 DEF Claim
<1>4. CASE Refuse(p) \/ Remember(p) \/ Clear(p)
  <2>1. PICK s \in {"reserve", "remember", "clear"} : At(p, s)
    BY <1>4 DEF Refuse, Remember, Clear
  <2>2. Done(p) /\ UNCHANGED <<code, prev, hot, late>>
    BY <1>4 DEF Refuse, Remember, Clear, Reply, Done
  <2> QED
    BY <1>b, <2>1, <2>2, NoDebt
<1>5. CASE CheckQuota(p) \/ Replay(p) \/ Store(p) \/ ClaimPending(p) \/ Holder(p)
  <2>1. PICK s \in {"quota", "replay", "store", "claim", "holder"} : At(p, s)
    BY <1>5 DEF CheckQuota, Replay, Store, ClaimPending, Holder
  <2>2. (Done(p) \/ Proceed(p)) /\ UNCHANGED <<code, prev, hot, late>>
    BY <1>5 DEF CheckQuota, Replay, Store, ClaimPending, Holder
  <2>3. Debt(job[p]) = {}
    BY <2>1, NoDebt
  <2>4. \E w : Moves(p, w)
    BY <2>1, <2>2, ProceedMoves, DoneMoves
  <2> QED
    BY <1>a, <2>2, <2>3, <2>4
<1>6. CASE Reserve(p)
  <2>1. \E w : Moves(p, w)
    BY <1>6, ReserveMoves
  <2>2. Debt(job[p]) = {} /\ UNCHANGED <<code, prev, hot, late>>
    BY <1>6, NoDebt DEF Reserve
  <2> QED
    BY <1>a, <2>1, <2>2
<1>7. CASE Persist(p) /\ ~Free(job[p].to, NoLink)
  <2>1. At(p, "persist") /\ Collide(p) /\ UNCHANGED <<code, prev, hot, late>>
    BY <1>7 DEF Persist
  <2>2. \E w : Moves(p, w)
    BY <2>1, CollideMoves
  <2>3. Debt(job[p]) = {}
    BY <2>1, NoDebt
  <2> QED
    BY <1>a, <2>1, <2>2, <2>3
<1>8. CASE Persist(p) /\ Free(job[p].to, NoLink)
  BY <1>8, PersistCached
<1>9. CASE Update(p) /\ ~(Exists(job[p].link) /\ Free(job[p].to, job[p].link))
  <2>1. At(p, "update") /\ (Done(p) \/ Proceed(p)) /\ UNCHANGED <<code, prev, hot, late>>
    BY <1>9 DEF Update
  <2>2. Debt(job[p]) = {} /\ \E w : Moves(p, w)
    BY <2>1, NoDebt, ProceedMoves, DoneMoves
  <2> QED
    BY <1>a, <2>1, <2>2
<1>10. CASE Update(p) /\ Exists(job[p].link) /\ Free(job[p].to, job[p].link)
  BY <1>10, UpdateCached
<1>11. ASSUME NEW s \in {"count", "flushOld", "flush", "sentinel"}, At(p, s), Proceed(p)
       PROVE  \E w : /\ Moves(p, w) /\ Debt(job[p]) = IF s = "flushOld" THEN {job[p].to, job[p].was} ELSE {job[p].to}
                     /\ s \in {"count", "flushOld"} => Debt(w) = {job[p].to}
  <2>1. PICK w : /\ Moves(p, w)
                 /\ IF After(job[p].op, s) = "end" THEN w = Idle
                    ELSE Onto(job[p], w) /\ Runs(w, {After(job[p].op, s)})
    BY <1>11, ProceedMoves
  <2>2. After(job[p].op, "count") = "flush" /\ After(job[p].op, "flushOld") = "flush"
    BY DEF After
  <2>3. s \in {"count", "flushOld"} => w.to = job[p].to /\ Runs(w, {"flush"})
    BY <2>1, <2>2 DEF Onto
  <2> QED
    BY <1>11, <2>1, <2>3 DEF Debt, Runs, At
<1>12. CASE Count(p)
  <2>1. At(p, "count") /\ Proceed(p) /\ UNCHANGED <<code, prev, hot, late>>
    BY <1>12 DEF Count
  <2>2. PICK w : Moves(p, w) /\ Debt(job[p]) = {job[p].to} /\ Debt(w) = {job[p].to}
    BY <1>11, <2>1
  <2> QED
    BY <2>1, <2>2, CalmCached
<1>13. CASE FlushOld(p)
  <2>1. At(p, "flushOld") /\ Proceed(p) /\ Drop(job[p].was) /\ UNCHANGED <<code, prev>>
    BY <1>13 DEF FlushOld
  <2>2. PICK w : Moves(p, w) /\ Debt(job[p]) = {job[p].to, job[p].was} /\ Debt(w) = {job[p].to}
    BY <1>11, <2>1
  <2> QED
    BY <2>1, <2>2, DropCached
<1>14. CASE Flush(p)
  <2>1. At(p, "flush") /\ Proceed(p) /\ Drop(job[p].to) /\ UNCHANGED <<code, prev>>
    BY <1>14 DEF Flush
  <2>2. PICK w : Moves(p, w) /\ Debt(job[p]) = {job[p].to}
    BY <1>11, <2>1
  <2> QED
    BY <2>1, <2>2, DropCached
<1>15. CASE Swallow(p)
  <2>1. PICK s \in {"quota", "replay", "count", "store", "flushOld", "flush", "sentinel"} : At(p, s)
    BY <1>15 DEF Swallow
  <2>2. /\ Proceed(p) /\ UNCHANGED <<code, prev, hot>> /\ late \subseteq late'
        /\ s \in {"flush", "sentinel"} => job[p].to \in late'
        /\ s = "flushOld" => job[p].was \in late'
    BY <1>15, <2>1 DEF Swallow, At
  <2>3. CASE s \in {"quota", "replay", "store"}
    <3>1. PICK w : Moves(p, w)
      BY <2>1, <2>2, <2>3, ProceedMoves
    <3>2. Debt(job[p]) = {}
      BY <2>1, <2>3, NoDebt
    <3> QED
      BY <2>2, <3>1, <3>2, CalmCached
  <2>4. CASE s \in {"count", "flushOld", "flush", "sentinel"}
    <3>1. PICK w : /\ Moves(p, w) /\ Debt(job[p]) = IF s = "flushOld" THEN {job[p].to, job[p].was} ELSE {job[p].to}
                   /\ s \in {"count", "flushOld"} => Debt(w) = {job[p].to}
      BY <1>11, <2>1, <2>2, <2>4
    <3>2. Debt(job[p]) \subseteq Debt(w) \cup late'
      BY <2>2, <2>4, <3>1
    <3> QED
      BY <2>2, <3>1, <3>2, CalmCached
  <2> QED
    BY <2>1, <2>3, <2>4
<1>16. CASE Fail(p)
  <2>1. Done(p) /\ late' = late \cup Owes(p) /\ UNCHANGED <<code, prev, hot>>
    BY <1>16 DEF Fail, Reply, Done
  <2>2. Owes(p) = Debt(job[p])
    BY OwesWhat DEF CodeTables, JobHolds
  <2>3. late \subseteq late' /\ Debt(job[p]) \subseteq Debt(Idle) \cup late'
    BY <2>1, <2>2
  <2> QED
    BY <2>1, <2>3, DoneMoves, CalmCached
<1>17. CASE DeleteRow(p) \/ Sentinel(p)
  BY <1>17, DeleteRowCached, SentinelCached
<1> QED
  BY <1>2, <1>3, <1>4, <1>5, <1>6, <1>7, <1>8, <1>9, <1>10, <1>12, <1>13, <1>14, <1>15, <1>16, <1>17 DEF Operate

LEMMA DeleteCached ==
  ASSUME CodeTables, Cached, NEW p \in Proc, NEW l \in Link, DeleteLink(p, l)
  PROVE  Cached'
<1>1. PICK w : Moves(p, w)
  BY DeleteMoves
<1>2. Debt(job[p]) = {} /\ UNCHANGED <<code, prev, hot, late>>
  BY IdleHolds DEF DeleteLink, rows, redis, history, Debt, Runs
<1> QED
  BY <1>1, <1>2, CalmCached

LEMMA PurgeCached ==
  ASSUME CodeTables, Cached, Purge
  PROVE  Cached'
<1>1. /\ owned \in SUBSET Link /\ Remove(owned) /\ job' = job /\ hot' = hot
      /\ late' = late \cup {c \in Code : hot[c] \in owned}
  BY DEF Purge, CodeTables, World
<1>2. ASSUME NEW c \in Code, Settled(c) PROVE Settled(c)'
  BY <1>1, <1>2, RemoveSettles
<1>3. \A p \in Proc : Debt(job[p])' = Debt(job[p])
  BY <1>1 DEF Debt, Runs
<1> QED
  BY <1>2, <1>3 DEF Cached

LEMMA RenameCached ==
  ASSUME CodeTables, Cached, NEW p \in Proc, NEW l \in Link, NEW c \in Code, Rename(p, l, c)
  PROVE  Cached'
<1>1. PICK w : Moves(p, w)
  BY RenameMoves
<1>2. Debt(job[p]) = {} /\ UNCHANGED <<code, prev, hot, late>>
  BY IdleHolds DEF Rename, rows, redis, history, Debt, Runs
<1> QED
  BY <1>1, <1>2, CalmCached

\* A visitor writes under a code what a lookup finds, or the code is late.
LEMMA VisitorCached ==
  ASSUME CodeTables, Cached, AliasQuery \/ Fill \/ \E c \in Code : ExactQuery(c) \/ Expire(c)
  PROVE  Cached'
<1> USE DEF rows, redis, counts, history
<1>1. UNCHANGED <<code, prev, owned, job>>
  BY DEF AliasQuery, Fill, ExactQuery, Expire, Drop
<1>2. ASSUME NEW c \in Code, Settled(c) PROVE Settled(c)'
  <2>1. Answers(c)' = Answers(c)
    BY <1>1 DEF Answers, Holders, Aliased, Exists
  <2>2. CASE UNCHANGED <<hot, late>>
    BY <1>2, <2>1, <2>2 DEF Settled, Right
  <2>3. CASE Fill
    <3>1. look.key \in Code /\ hot \in [Code -> Link \cup {NoLink, Off}]
      BY DEF CodeTables, World, Look
    <3>2. CASE c = look.key
      <4>1. hot'[c] = look.found
        BY <2>3, <3>1, <3>2 DEF Fill
      <4>2. look.found \notin Answers(c) => c \in late'
        BY <2>3, <3>2 DEF Fill
      <4> QED
        BY <2>1, <4>1, <4>2 DEF Settled, Right
    <3>3. CASE c # look.key
      <4>1. hot'[c] = hot[c] /\ (c \in late => c \in late')
        BY <2>3, <3>1, <3>3 DEF Fill
      <4> QED
        BY <1>2, <2>1, <4>1 DEF Settled, Right
    <3> QED
      BY <3>2, <3>3
  <2>4. ASSUME NEW d \in Code, Expire(d) PROVE Settled(c)'
    <3>1. hot \in [Code -> Link \cup {NoLink, Off}] /\ hot' = [hot EXCEPT ![d] = NoLink] /\ late' = late \ {d}
      BY <2>4 DEF CodeTables, World, Expire, Drop
    <3>2. CASE c = d
      BY <3>1, <3>2 DEF Settled, Right
    <3>3. CASE c # d
      <4>1. hot'[c] = hot[c] /\ (c \in late => c \in late')
        BY <3>1, <3>3
      <4> QED
        BY <1>2, <2>1, <4>1 DEF Settled, Right
    <3> QED
      BY <3>2, <3>3
  <2>5. AliasQuery \/ (\E d \in Code : ExactQuery(d)) => UNCHANGED <<hot, late>>
    BY DEF AliasQuery, ExactQuery
  <2> QED
    BY <2>2, <2>3, <2>4, <2>5
<1>3. \A p \in Proc : Debt(job[p])' = Debt(job[p])
  BY <1>1 DEF Debt, Runs
<1> QED
  BY <1>2, <1>3 DEF Cached

LEMMA AnswersHold ==
  ASSUME CodeTables, Apart, Cached
  PROVE  CodesAnswerForOne
<1>1. \A p \in Proc : Owes(p) = Debt(job[p])
  BY OwesWhat DEF CodeTables, JobHolds
<1> QED
  BY <1>1 DEF Apart, Shared, Cached, Settled, CodesAnswerForOne
-----------------------------------------------------------------------------
(* All of it: the handlers, the visitor, and the part that rests. *)

CodesHold == CodeTables /\ Counting /\ Apart /\ Cached

LEMMA CodesBegin == Init => CodesHold
<1> SUFFICES ASSUME Init PROVE CodesHold
  OBVIOUS
<1>1. CodeTables /\ Counting
  BY CodesInit, CountsInit
<1>2. Apart
  <2>1. ASSUME NEW a \in Link, NEW b \in Link, a # b, NEW x \in Names(a) \cap Names(b), x # NoCode
        PROVE  FALSE
    <3>1. Exists(a) /\ Exists(b)
      BY <1>1, <2>1, HasName
    <3> QED
      BY <2>1, <3>1 DEF Init, Exists
  <2>2. \A p \in Proc : job[p].op = "idle"
    BY IdleHolds DEF Init
  <2> QED
    BY <2>1, <2>2 DEF Apart, Shared, Reads
<1>3. Cached
  BY DEF Init, Cached, Settled, Right
<1> QED
  BY <1>1, <1>2, <1>3 DEF CodesHold

LEMMA CodesStep == CodesHold /\ [Next]_vars => CodesHold'
<1> SUFFICES ASSUME CodesHold, [Next]_vars PROVE CodesHold'
  OBVIOUS
<1> USE DEF CodesHold
<1>1. ASSUME NEW p \in Proc, NEW l \in Link, NEW c \in Code, Rename(p, l, c) PROVE CodesHold'
  <2>1. PICK w : Moves(p, w) /\ w.op = "rename"
    BY <1>1, RenameMoves
  <2>2. UNCHANGED <<keyed, stored, used, formed, fails, overlaps>> /\ job[p].op = "idle"
    BY <1>1, IdleHolds DEF Rename, redis, history
  <2>3. Counting'
    BY <2>1, <2>2, CalmCounts
  <2> QED
    BY <1>1, <2>3, RenameTables, RenameApart, RenameCached
<1>5. ASSUME NEW p \in Proc, NEW l \in Link, DeleteLink(p, l) PROVE CodesHold'
  <2>1. PICK w : Moves(p, w) /\ w.op = "delete"
    BY <1>5, DeleteMoves
  <2>2. UNCHANGED <<keyed, stored, used, formed, fails, overlaps>> /\ job[p].op = "idle"
    BY <1>5, IdleHolds DEF DeleteLink, redis, history
  <2>3. Counting'
    BY <2>1, <2>2, CalmCounts
  <2> QED
    BY <1>5, <2>3, DeleteTables, DeleteApart, DeleteCached
<1>6. CASE Purge
  BY <1>6, PurgeTables, PurgeCounts, PurgeApart, PurgeCached
<1>2. ASSUME NEW p \in Proc, Operate(p) PROVE CodesHold'
  BY <1>2, OperateTables, OperateCounts, OperateApart, OperateCached
<1>3. CASE AliasQuery \/ Fill \/ \E c \in Code : ExactQuery(c) \/ Expire(c)
  <2>1. CodeTables' /\ UNCHANGED <<rows, job, used, stored, cookie, counts, formed, keyed, overlaps, taken>>
    BY <1>3, VisitorTables
  <2>2. Counting'
    BY <2>1, CountsStay DEF counts
  <2>3. Apart'
    BY <2>1 DEF Apart, Shared, Names, Reads, Holders, Aliased, Exists, Runs, rows
  <2>4. Cached'
    BY <1>3, VisitorCached
  <2> QED
    BY <2>1, <2>2, <2>3, <2>4
<1>4. CASE UNCHANGED vars
  <2> USE DEF vars, rows, redis, counts, history
  <2>1. CodeTables'
    BY <1>4 DEF CodeTables, Tables, World, JobHolds, Runs, Exists
  <2>2. Counting'
    BY <1>4, CountsStay
  <2>3. Apart'
    BY <1>4 DEF Apart, Shared, Names, Reads, Holders, Aliased, Exists, Runs
  <2>4. Cached'
    BY <1>4 DEF Cached, Settled, Right, Answers, Debt, Runs, Holders, Aliased, Exists
  <2> QED
    BY <2>1, <2>2, <2>3, <2>4
<1> QED
  BY <1>1, <1>2, <1>3, <1>4, <1>5, <1>6 DEF Next

LEMMA CodesAlways == PartSpec => []CodesHold
<1>1. PartInit => CodesHold
  BY CodesBegin DEF PartInit
<1>2. CodesHold /\ [PartNext]_<<part, vars, safety>> => CodesHold'
  BY CodesStep DEF PartNext
<1> QED
  BY <1>1, <1>2, PTL DEF PartSpec

\* The rows, the cache, the cookie and the jobs have the types they are declared with;
\* no two links have one code, the index of the table; a history of codes is bounded
\* and has no code twice, whatever rollPreviousCodes was given.
THEOREM CodeTypes == PartSpec => []TypeOK
<1>1. CodesHold => TypeOK
  <2> SUFFICES ASSUME CodesHold PROVE TypeOK
    OBVIOUS
  <2>1. \A l \in Link : Len(prev[l]) <= HistoryMax /\ Cardinality(Range(prev[l])) = Len(prev[l])
    BY DistinctCounts DEF CodesHold, CodeTables, Tables, IsHistory
  <2> QED
    BY <2>1 DEF CodesHold, CodeTables, Tables, World, TypeOK
<1> QED
  BY <1>1, CodesAlways, PTL

\* Under one idempotency key there is one link, one more for each failed command,
\* and as many as handlers run at a time if requests of that kind overlapped; the
\* links made through the form exceed the month's quota by no more than that.
THEOREM CreationIsBounded == PartSpec => []CreationBounded
<1>1. CodesHold => CreationBounded
  BY CreationHolds DEF CodesHold
<1> QED
  BY <1>1, CodesAlways, PTL

\* Two links share a code, present or former, only for one of the two reasons named,
\* and what is cached under a code is what a lookup would find now, unless somebody is
\* about to flush or replace it or a named reason keeps everybody from it, deletions
\* of links and of whole accounts included.
THEOREM CodesAnswer == PartSpec => []CodesAnswerForOne
<1>1. CodesHold => CodesAnswerForOne
  BY AnswersHold DEF CodesHold
<1> QED
  BY <1>1, CodesAlways, PTL
-----------------------------------------------------------------------------
(* The blocklist.  What its records are. *)

Mark == Safety!Policy \cup {"none"}
RowOf == Safety!Entry \cup {Safety!NoEntry}
OpenForm == [pc : {"domain", "keyword", "add"}, value : Value, entry : RowOf]
EarlyBoot == [pc : {"seed", "select"}]
LateBoot == [pc : {"clear", "load"}, domains : [Value -> Mark], keywords : [Value -> Mark]]
Asked == [pc : {"domain", "keyword", "scan"}, host : Host, domain : Mark, keyword : Mark,
          met : BOOLEAN, astray : BOOLEAN, open : BOOLEAN]
Decided == [pc : {"decided"}, host : Host, met : BOOLEAN, astray : BOOLEAN, open : BOOLEAN,
            admitted : BOOLEAN, review : BOOLEAN,
            safety : {"rejected", "malicious", "clean", "unchecked"}]

\* Who has met nobody is the only writer there is.
Loners == \A w \in alone : Safety!Writing = {w}

\* A value is right in the hashes, or somebody writes it, or it was last written by
\* writers that met or by one that failed.
Touched(v) == \/ \E a \in Admin : form[a] # Safety!Done /\ form[a].value = v
              \/ \E s \in Server : boot[s] # Safety!Done
Agrees(v) == domains[v] = Safety!Kept("domain")[v] /\ keywords[v] = Safety!Kept("keyword")[v]
Straight == \A v \in Value : v \in astray \/ Touched(v) \/ Agrees(v)

\* How far a writer that has met nobody has come.
FormReady(a) ==
  a \in alone /\ form[a] # Safety!Done =>
    LET v == form[a].value IN
      /\ row[v] = form[a].entry
      /\ form[a].pc \in {"keyword", "add"} => domains[v] = "none"
      /\ form[a].pc = "add" => keywords[v] = "none"

BootReady(s) ==
  s \in alone /\ boot[s].pc \in {"clear", "load"} =>
    /\ boot[s].domains = Safety!Kept("domain") /\ boot[s].keywords = Safety!Kept("keyword")
    /\ boot[s].pc = "load" => \A v \in Value : domains[v] = "none" /\ keywords[v] = "none"

Hashes ==
  /\ row \in [Value -> RowOf] /\ domains \in [Value -> Mark] /\ keywords \in [Value -> Mark]
  /\ form \in [Admin -> {Safety!Done} \cup OpenForm]
  /\ \A a \in Admin : form[a].pc = "add" => form[a].entry # Safety!NoEntry
  /\ boot \in [Server -> {Safety!Done} \cup EarlyBoot \cup LateBoot]
  /\ Loners /\ Straight
  /\ \A a \in Admin : FormReady(a)
  /\ \A s \in Server : BootReady(s)

\* A check that has met no writer has found the hashes at rest; what it has found is
\* what the rows give.
Found(r) ==
  ~r.met =>
    /\ Safety!Writing = {}
    /\ ~r.astray => ({Domain[r.host]} \cup Contains[r.host]) \cap astray = {}
    /\ ~r.astray /\ ~r.open =>
         /\ r.pc \in {"keyword", "scan"} => r.domain = Safety!InDomains(Safety!Kept("domain"), r.host)
         /\ r.pc = "scan" => r.keyword = Safety!Keyword(Safety!Kept("keyword"), r.host)
         /\ r.pc = "decided" =>
              IF Safety!ByRows(r.host) = "reject" THEN r.safety = "rejected"
              ELSE r.safety # "rejected" /\ (r.review <=> Safety!ByRows(r.host) = "flag")

Checks ==
  /\ check \in [Check -> {Safety!Done} \cup Asked \cup Decided]
  /\ \A c \in Check : check[c] # Safety!Done => Found(check[c])
\* The states of the rows and of the hashes are all that a check's findings depend on.
LEMMA SafetyConstants ==
  /\ Brand \subseteq Value /\ Admin \cap Server = {} /\ \A h \in Host : Contains[h] \subseteq Value
  /\ Safety!Done \notin OpenForm /\ Safety!Done \notin EarlyBoot /\ Safety!Done \notin LateBoot
  /\ Safety!Done \notin Asked /\ Safety!Done \notin Decided /\ Safety!Done.pc = "idle"
  /\ Safety!NoEntry.match = "none" /\ Safety!NoEntry.policy = "none"
  /\ \A e \in Safety!Entry : e # Safety!NoEntry /\ e.match \in {"domain", "keyword"} /\ e.policy \in Safety!Policy
<1>1. Brand \subseteq Value /\ Admin \cap Server = {} /\ \A h \in Host : Contains[h] \subseteq Value
  BY MCCodesAssumption DEF Safety!SafetyAssumption
<1>2. Safety!Done.pc = "idle"
  BY DEF Safety!Done
<1>3. /\ Safety!Done \notin OpenForm /\ Safety!Done \notin EarlyBoot /\ Safety!Done \notin LateBoot
      /\ Safety!Done \notin Asked /\ Safety!Done \notin Decided
  BY <1>2 DEF OpenForm, EarlyBoot, LateBoot, Asked, Decided
<1>4. Safety!NoEntry.match = "none" /\ Safety!NoEntry.policy = "none"
  BY DEF Safety!NoEntry
<1>5. \A e \in Safety!Entry : e # Safety!NoEntry /\ e.match \in {"domain", "keyword"} /\ e.policy \in Safety!Policy
  BY <1>4 DEF Safety!Entry
<1> QED
  BY <1>1, <1>2, <1>3, <1>4, <1>5

LEMMA KeptIs ==
  ASSUME NEW m \in {"domain", "keyword"}, row \in [Value -> RowOf]
  PROVE  /\ Safety!Kept(m) \in [Value -> Mark]
         /\ \A v \in Value : Safety!Kept(m)[v] = IF row[v].match = m THEN row[v].policy ELSE "none"
<1>1. \A v \in Value : row[v].match = m => row[v].policy \in Mark
  BY SafetyConstants DEF RowOf, Mark
<1> QED
  BY <1>1 DEF Safety!Kept, Mark

\* A writer at work: no check has been spared it.
LEMMA ChecksMeet ==
  ASSUME Checks, Safety!Meets
  PROVE  Checks'
<1>1. ASSUME NEW c \in Check
      PROVE  /\ check'[c] \in {Safety!Done} \cup Asked \cup Decided
             /\ check'[c] # Safety!Done => check'[c].met
  <2> DEFINE r == [check[c] EXCEPT !.met = TRUE]
  <2>1. check'[c] = IF check[c] = Safety!Done THEN Safety!Done ELSE r
    BY <1>1 DEF Safety!Meets
  <2>2. CASE check[c] \in Asked
    <3>1. r \in Asked /\ r.met
      BY <2>2 DEF Asked
    <3> QED
      BY <2>1, <3>1
  <2>3. CASE check[c] \in Decided
    <3>1. r \in Decided /\ r.met
      BY <2>3 DEF Decided
    <3> QED
      BY <2>1, <3>1
  <2>4. CASE check[c] = Safety!Done
    BY <2>1, <2>4
  <2> QED
    BY <2>2, <2>3, <2>4 DEF Checks
<1>2. check' \in [Check -> {Safety!Done} \cup Asked \cup Decided]
  BY <1>1 DEF Safety!Meets
<1>3. ASSUME NEW c \in Check, check'[c] # Safety!Done PROVE Found(check[c])'
  <2>1. check'[c].met
    BY <1>1, <1>3
  <2> QED
    BY <2>1 DEF Found
<1> QED
  BY <1>2, <1>3 DEF Checks, Safety!Done

LEMMA ChecksBusy ==
  ASSUME Checks, Safety!Writing # {}, UNCHANGED check
  PROVE  Checks'
<1>1. ASSUME NEW c \in Check, check[c] # Safety!Done PROVE Found(check[c])'
  <2>1. check[c].met
    BY <1>1 DEF Checks, Found
  <2> QED
    BY <2>1 DEF Found
<1> QED
  BY <1>1 DEF Checks, Safety!Done

-----------------------------------------------------------------------------
(* The administrator's form. *)

\* A step of the form a that goes on: it becomes g, and the tables change under its value.
LEMMA FormGoes ==
  ASSUME Hashes, NEW a \in Admin, form[a] # Safety!Done, NEW g \in OpenForm,
         form' = [form EXCEPT ![a] = g], g.value = form[a].value, g.entry = form[a].entry,
         g.pc = "add" => g.entry # Safety!NoEntry,
         domains' \in [Value -> Mark], keywords' \in [Value -> Mark],
         \A v \in Value : v # g.value => domains'[v] = domains[v] /\ keywords'[v] = keywords[v],
         a \in alone => /\ g.pc \in {"keyword", "add"} => domains'[g.value] = "none"
                        /\ g.pc = "add" => keywords'[g.value] = "none",
         UNCHANGED <<row, boot, alone, astray>>
  PROVE  Hashes'
<1>1. g # Safety!Done /\ form \in [Admin -> {Safety!Done} \cup OpenForm] /\ row \in [Value -> RowOf]
  BY SafetyConstants DEF Hashes
<1>2. form'[a] = g /\ \A b \in Admin : b # a => form'[b] = form[b]
  BY <1>1
<1>3. Safety!Writing' = Safety!Writing /\ a \in Safety!Writing
  BY <1>1, <1>2 DEF Safety!Writing, Safety!Done
<1>4. a \in alone => Safety!Writing = {a}
  BY DEF Hashes, Loners
<1>5. \A w \in alone : w = a
  BY <1>3 DEF Hashes, Loners
<1>6. \A m : Safety!Kept(m)' = Safety!Kept(m)
  BY DEF Safety!Kept
<1>7. Straight'
  <2> SUFFICES ASSUME NEW v \in Value, v \notin astray', ~Touched(v)' PROVE Agrees(v)'
    BY DEF Straight
  <2>1. v # g.value
    BY <1>1, <1>2 DEF Touched, Safety!Done
  <2>2. ~Touched(v)
    BY <1>1, <1>2, <2>1 DEF Touched, Safety!Done
  <2>3. Agrees(v)
    BY <2>2 DEF Hashes, Straight
  <2> QED
    BY <1>6, <2>1, <2>3 DEF Agrees
<1>8. \A b \in Admin : FormReady(b)'
  <2>1. ASSUME NEW b \in Admin, b # a PROVE FormReady(b)'
    BY <1>5, <2>1 DEF FormReady
  <2>2. FormReady(a)'
    <3>1. FormReady(a)
      BY DEF Hashes
    <3> QED
      BY <1>2, <3>1 DEF FormReady, Safety!Done
  <2> QED
    BY <2>1, <2>2
<1>9. \A s \in Server : BootReady(s)'
  <2>1. \A s \in Server : s # a
    BY SafetyConstants
  <2> QED
    BY <1>5, <2>1 DEF BootReady
<1>10. Loners'
  BY <1>3 DEF Hashes, Loners
<1>11. \A b \in Admin : form'[b].pc = "add" => form'[b].entry # Safety!NoEntry
  BY <1>2 DEF Hashes
<1>12. form' \in [Admin -> {Safety!Done} \cup OpenForm]
  BY <1>1
<1> QED
  BY <1>7, <1>8, <1>9, <1>10, <1>11, <1>12 DEF Hashes, Safety!Done, Safety!NoEntry

\* The form a ends: its value is right, or goes astray.
LEMMA FormEnds ==
  ASSUME Hashes, NEW a \in Admin, form[a] # Safety!Done, form' = [form EXCEPT ![a] = Safety!Done],
         NEW u, u = form[a].value,
         domains' \in [Value -> Mark], keywords' \in [Value -> Mark],
         \A v \in Value : v # u => domains'[v] = domains[v] /\ keywords'[v] = keywords[v],
         astray \ {u} \subseteq astray', u \in astray' \/ Agrees(u)',
         alone' = alone \ {a}, UNCHANGED <<row, boot>>
  PROVE  Hashes'
<1>1. /\ form \in [Admin -> {Safety!Done} \cup OpenForm] /\ row \in [Value -> RowOf]
      /\ form'[a] = Safety!Done /\ \A b \in Admin : b # a => form'[b] = form[b]
  BY DEF Hashes
<1>2. a \in Safety!Writing
  BY DEF Safety!Writing
<1>3. alone' = {}
  <2>1. \A w \in alone : w = a
    BY <1>2 DEF Hashes, Loners
  <2> QED
    BY <2>1
<1>4. \A m : Safety!Kept(m)' = Safety!Kept(m)
  BY DEF Safety!Kept
<1>5. Straight'
  <2> SUFFICES ASSUME NEW v \in Value, v \notin astray', ~Touched(v)' PROVE Agrees(v)'
    BY DEF Straight
  <2>1. CASE v = u
    BY <2>1
  <2>2. CASE v # u
    <3>1. ~Touched(v)
      BY <1>1, <2>2 DEF Touched, Safety!Done
    <3>2. Agrees(v)
      BY <2>2, <3>1 DEF Hashes, Straight
    <3> QED
      BY <1>4, <2>2, <3>2 DEF Agrees
  <2> QED
    BY <2>1, <2>2
<1>6. form' \in [Admin -> {Safety!Done} \cup OpenForm]
  BY <1>1
<1>7. \A b \in Admin : form'[b].pc = "add" => form'[b].entry # Safety!NoEntry
  BY <1>1, SafetyConstants DEF Hashes
<1> QED
  BY <1>3, <1>5, <1>6, <1>7 DEF Hashes, Loners, FormReady, BootReady, Safety!Done, Safety!NoEntry
\* The row is written and the form begins.
LEMMA SubmitHashes ==
  ASSUME Hashes, NEW a \in Admin, NEW v \in Value, NEW e \in RowOf, Safety!Submit(a, v, e)
  PROVE  Hashes'
<1> DEFINE g == [pc |-> "domain", value |-> v, entry |-> e]
<1>1. g \in OpenForm /\ g.pc = "domain" /\ g.value = v /\ g.entry = e
  BY DEF OpenForm
<1>2. /\ form[a] = Safety!Done /\ form' = [form EXCEPT ![a] = g] /\ row' = [row EXCEPT ![v] = e]
      /\ alone' = (IF Safety!Writing = {} THEN {a} ELSE {}) /\ UNCHANGED <<domains, keywords, boot, astray>>
  BY DEF Safety!Submit, Safety!Comes, Safety!hashes
<1> HIDE DEF g
<1>3. g # Safety!Done /\ form \in [Admin -> {Safety!Done} \cup OpenForm] /\ row \in [Value -> RowOf]
  BY <1>1, SafetyConstants DEF Hashes
<1>4. form'[a] = g /\ \A b \in Admin : b # a => form'[b] = form[b]
  BY <1>2, <1>3
<1>5. row' \in [Value -> RowOf] /\ row'[v] = e /\ \A u \in Value : u # v => row'[u] = row[u]
  BY <1>2, <1>3
<1>6. \A u \in Value : u # v => \A m \in {"domain", "keyword"} : Safety!Kept(m)'[u] = Safety!Kept(m)[u]
  BY <1>5 DEF Safety!Kept
<1>7. Safety!Writing' = Safety!Writing \cup {a}
  BY <1>2, <1>3, <1>4 DEF Safety!Writing, Safety!Done
<1>8. Straight'
  <2> SUFFICES ASSUME NEW u \in Value, u \notin astray', ~Touched(u)' PROVE Agrees(u)'
    BY DEF Straight
  <2>1. u # v
    BY <1>1, <1>3, <1>4 DEF Touched, Safety!Done
  <2>2. ~Touched(u)
    BY <1>2, <1>4 DEF Touched, Safety!Done
  <2>3. Agrees(u)
    BY <1>2, <2>2 DEF Hashes, Straight
  <2> QED
    BY <1>2, <1>6, <2>1, <2>3 DEF Agrees
<1>9. \A b \in Admin : FormReady(b)'
  BY <1>1, <1>2, <1>4, <1>5 DEF FormReady
<1>10. \A s \in Server : BootReady(s)'
  <2>1. \A s \in Server : s # a
    BY SafetyConstants
  <2> QED
    BY <1>2, <2>1 DEF BootReady
<1>11. Loners'
  BY <1>2, <1>7 DEF Loners
<1>12. \A b \in Admin : form'[b].pc = "add" => form'[b].entry # Safety!NoEntry
  BY <1>1, <1>4 DEF Hashes
<1>13. form' \in [Admin -> {Safety!Done} \cup OpenForm]
  BY <1>1, <1>2, <1>3
<1> QED
  BY <1>2, <1>5, <1>8, <1>9, <1>10, <1>11, <1>12, <1>13 DEF Hashes, Safety!Done, Safety!NoEntry

LEMMA FormIs ==
  ASSUME Hashes, NEW a \in Admin, form[a] # Safety!Done
  PROVE  form[a] \in OpenForm /\ form[a].value \in Value /\ form[a].entry \in RowOf
BY DEF Hashes, OpenForm

LEMMA FormHashes ==
  ASSUME Hashes, NEW a \in Admin,
         Safety!DropDomain(a) \/ Safety!DropKeyword(a) \/ Safety!AddEntry(a) \/ Safety!FormFails(a)
  PROVE  Hashes' /\ a \in Safety!Writing
<1>0. form[a] # Safety!Done
  BY SafetyConstants DEF Safety!DropDomain, Safety!DropKeyword, Safety!AddEntry, Safety!FormFails
<1>a. \E f, u, e : f = form[a] /\ u = form[a].value /\ e = form[a].entry
  OBVIOUS
<1> PICK f, u, e : f = form[a] /\ u = form[a].value /\ e = form[a].entry
  BY <1>a
<1>1. f \in OpenForm /\ u \in Value /\ e \in RowOf /\ f.value = u /\ f.entry = e
  BY <1>0, FormIs
<1>2. /\ domains \in [Value -> Mark] /\ keywords \in [Value -> Mark] /\ row \in [Value -> RowOf]
      /\ "none" \in Mark /\ form \in [Admin -> {Safety!Done} \cup OpenForm]
  BY DEF Hashes, Mark
<1>3. a \in alone => /\ row[u] = e
                     /\ f.pc \in {"keyword", "add"} => domains[u] = "none"
                     /\ f.pc = "add" => keywords[u] = "none"
  BY <1>0 DEF Hashes, FormReady
<1>4. f.pc = "add" => e # Safety!NoEntry
  BY DEF Hashes
<1>5. ASSUME NEW t \in [Value -> Mark], NEW x \in Mark
      PROVE  /\ [t EXCEPT ![u] = x] \in [Value -> Mark] /\ [t EXCEPT ![u] = x][u] = x
             /\ \A v \in Value : v # u => [t EXCEPT ![u] = x][v] = t[v]
  BY <1>1
<1>6. ASSUME UNCHANGED row
      PROVE  \A m \in {"domain", "keyword"} :
               Safety!Kept(m)'[u] = IF row[u].match = m THEN row[u].policy ELSE "none"
  BY <1>1, <1>2, <1>6 DEF Safety!Kept
<1>7. CASE Safety!DropDomain(a)
  <2> DEFINE g == [f EXCEPT !.pc = "keyword"]
  <2>1. g \in OpenForm /\ g.pc = "keyword" /\ g.value = u /\ g.entry = e
    BY <1>1 DEF OpenForm
  <2>2. /\ form' = [form EXCEPT ![a] = g] /\ domains' = [domains EXCEPT ![u] = "none"] /\ keywords' = keywords
        /\ UNCHANGED <<row, boot, alone, astray>>
    BY <1>7 DEF Safety!DropDomain
  <2> HIDE DEF g
  <2>3. /\ domains' \in [Value -> Mark] /\ domains'[u] = "none"
        /\ \A v \in Value : v # u => domains'[v] = domains[v]
    BY <1>2, <1>5, <2>2
  <2> QED
    BY <1>0, <1>2, <2>1, <2>2, <2>3, FormGoes DEF Safety!Writing
<1>8. CASE Safety!DropKeyword(a) /\ e # Safety!NoEntry
  <2> DEFINE g == [f EXCEPT !.pc = "add"]
  <2>1. g \in OpenForm /\ g.pc = "add" /\ g.value = u /\ g.entry = e
    BY <1>1 DEF OpenForm
  <2>2. /\ form' = [form EXCEPT ![a] = g] /\ keywords' = [keywords EXCEPT ![u] = "none"] /\ domains' = domains
        /\ UNCHANGED <<row, boot, alone, astray>> /\ f.pc = "keyword"
    BY <1>8 DEF Safety!DropKeyword
  <2> HIDE DEF g
  <2>3. /\ keywords' \in [Value -> Mark] /\ keywords'[u] = "none"
        /\ \A v \in Value : v # u => keywords'[v] = keywords[v]
    BY <1>2, <1>5, <2>2
  <2> QED
    BY <1>0, <1>2, <1>3, <1>8, <2>1, <2>2, <2>3, FormGoes DEF Safety!Writing
<1>9. CASE Safety!DropKeyword(a) /\ e = Safety!NoEntry
  <2>1. /\ form' = [form EXCEPT ![a] = Safety!Done] /\ keywords' = [keywords EXCEPT ![u] = "none"]
        /\ domains' = domains /\ UNCHANGED <<row, boot>> /\ f.pc = "keyword"
        /\ astray' = (IF a \in alone THEN astray \ {u} ELSE astray \cup {u}) /\ alone' = alone \ {a}
    BY <1>9 DEF Safety!DropKeyword, Safety!Goes
  <2>2. /\ keywords' \in [Value -> Mark] /\ keywords'[u] = "none"
        /\ \A v \in Value : v # u => keywords'[v] = keywords[v]
    BY <1>2, <1>5, <2>1
  <2>3. a \in alone => Agrees(u)'
    BY <1>3, <1>6, <1>9, <2>1, <2>2, SafetyConstants DEF Agrees
  <2> QED
    BY <1>0, <1>2, <2>1, <2>2, <2>3, FormEnds DEF Safety!Writing
<1>10. CASE Safety!AddEntry(a)
  <2>1. /\ form' = [form EXCEPT ![a] = Safety!Done]
        /\ UNCHANGED <<row, boot>> /\ f.pc = "add"
        /\ astray' = (IF a \in alone THEN astray \ {u} ELSE astray \cup {u}) /\ alone' = alone \ {a}
        /\ IF e.match = "domain" THEN domains' = [domains EXCEPT ![u] = e.policy] /\ keywords' = keywords
                                 ELSE keywords' = [keywords EXCEPT ![u] = e.policy] /\ domains' = domains
    BY <1>10 DEF Safety!AddEntry, Safety!Goes
  <2>2. e \in Safety!Entry /\ e.match \in {"domain", "keyword"} /\ e.policy \in Mark
    BY <1>1, <1>4, <2>1, SafetyConstants DEF RowOf, Mark
  <2>3. /\ domains' \in [Value -> Mark] /\ keywords' \in [Value -> Mark]
        /\ \A v \in Value : v # u => domains'[v] = domains[v] /\ keywords'[v] = keywords[v]
        /\ e.match = "domain" => domains'[u] = e.policy /\ keywords'[u] = keywords[u]
        /\ e.match = "keyword" => keywords'[u] = e.policy /\ domains'[u] = domains[u]
    BY <1>2, <1>5, <2>1, <2>2
  <2>4. a \in alone => Agrees(u)'
    BY <1>3, <1>6, <2>1, <2>2, <2>3 DEF Agrees
  <2> QED
    BY <1>0, <2>1, <2>3, <2>4, FormEnds DEF Safety!Writing
<1>11. CASE Safety!FormFails(a)
  <2>1. /\ form' = [form EXCEPT ![a] = Safety!Done] /\ UNCHANGED <<row, domains, keywords, boot>>
        /\ astray' = astray \cup {u} /\ alone' = alone \ {a}
    BY <1>11 DEF Safety!FormFails, Safety!Fail, Safety!hashes
  <2> QED
    BY <1>0, <1>2, <2>1, FormEnds DEF Safety!Writing
<1> QED
  BY <1>7, <1>8, <1>9, <1>10, <1>11

-----------------------------------------------------------------------------
(* The start of a web process. *)

LEMMA BootGoes ==
  ASSUME Hashes, NEW s \in Server, NEW g \in EarlyBoot \cup LateBoot, boot' = [boot EXCEPT ![s] = g],
         row' \in [Value -> RowOf], domains' \in [Value -> Mark], keywords' \in [Value -> Mark],
         (boot[s] # Safety!Done /\ alone' = alone) \/ (Safety!Comes(s) /\ g \in EarlyBoot),
         s \in alone /\ g.pc \in {"clear", "load"} =>
           /\ g.domains = Safety!Kept("domain")' /\ g.keywords = Safety!Kept("keyword")'
           /\ g.pc = "load" => \A v \in Value : domains'[v] = "none" /\ keywords'[v] = "none",
         UNCHANGED <<form, astray>>
  PROVE  Hashes'
<1>1. g # Safety!Done /\ boot \in [Server -> {Safety!Done} \cup EarlyBoot \cup LateBoot]
  BY SafetyConstants DEF Hashes
<1>2. boot'[s] = g /\ \A t \in Server : t # s => boot'[t] = boot[t]
  BY <1>1
<1>3. Safety!Writing' = Safety!Writing \cup {s} /\ (boot[s] # Safety!Done => s \in Safety!Writing)
  BY <1>1, <1>2 DEF Safety!Writing, Safety!Done
<1>4. (\A w \in alone' : w = s) /\ Loners'
  <2>1. CASE boot[s] # Safety!Done /\ alone' = alone
    BY <1>3, <2>1 DEF Hashes, Loners
  <2>2. CASE Safety!Comes(s)
    BY <1>3, <2>2 DEF Loners, Safety!Comes
  <2> QED
    BY <2>1, <2>2
<1>5. Straight'
  BY <1>1, <1>2 DEF Straight, Touched, Safety!Done
<1>6. \A b \in Admin : FormReady(b)'
  <2>1. \A b \in Admin : b # s
    BY SafetyConstants
  <2> QED
    BY <1>4, <2>1 DEF FormReady
<1>7. \A t \in Server : BootReady(t)'
  <2>1. ASSUME NEW t \in Server, t # s PROVE BootReady(t)'
    BY <1>4, <2>1 DEF BootReady
  <2>2. g \in EarlyBoot => g.pc \notin {"clear", "load"}
    BY DEF EarlyBoot
  <2>3. BootReady(s)'
    BY <1>2, <2>2 DEF BootReady
  <2> QED
    BY <2>1, <2>3
<1>8. boot' \in [Server -> {Safety!Done} \cup EarlyBoot \cup LateBoot]
  BY <1>1
<1> QED
  BY <1>4, <1>5, <1>6, <1>7, <1>8 DEF Hashes, Safety!Done, Safety!NoEntry

LEMMA BootEnds ==
  ASSUME Hashes, NEW s \in Server, boot[s] # Safety!Done, boot' = [boot EXCEPT ![s] = Safety!Done],
         domains' \in [Value -> Mark], keywords' \in [Value -> Mark],
         \A v \in Value : v \in astray' \/ Agrees(v)',
         alone' = alone \ {s}, UNCHANGED <<row, form>>
  PROVE  Hashes'
<1>1. s \in Safety!Writing
  BY DEF Safety!Writing
<1>2. alone' = {}
  <2>1. \A w \in alone : w = s
    BY <1>1 DEF Hashes, Loners
  <2> QED
    BY <2>1
<1>3. boot' \in [Server -> {Safety!Done} \cup EarlyBoot \cup LateBoot]
  BY DEF Hashes
<1> QED
  BY <1>2, <1>3 DEF Hashes, Loners, Straight, FormReady, BootReady, Safety!Done, Safety!NoEntry

LEMMA BootHashes ==
  ASSUME Hashes, NEW s \in Server,
         Safety!Seed(s) \/ Safety!Select(s) \/ Safety!Clear(s) \/ Safety!Load(s) \/ Safety!StartFails(s)
  PROVE  Hashes' /\ s \in Safety!Writing
<1>1. boot[s] # Safety!Done
  BY SafetyConstants DEF Safety!Seed, Safety!Select, Safety!Clear, Safety!Load, Safety!StartFails
<1>2. /\ domains \in [Value -> Mark] /\ keywords \in [Value -> Mark] /\ row \in [Value -> RowOf]
      /\ "none" \in Mark /\ boot[s] \in EarlyBoot \cup LateBoot
  BY <1>1 DEF Hashes, Mark
<1>3. s \in Safety!Writing
  BY <1>1 DEF Safety!Writing
<1>4. \A m \in {"domain", "keyword"} :
        /\ Safety!Kept(m) \in [Value -> Mark]
        /\ \A v \in Value : Safety!Kept(m)[v] = IF row[v].match = m THEN row[v].policy ELSE "none"
  BY <1>2, KeptIs
<1>5. CASE Safety!Seed(s)
  <2> DEFINE g == [boot[s] EXCEPT !.pc = "select"]
  <2>1. g \in EarlyBoot /\ g.pc = "select"
    <3>1. boot[s] \in EarlyBoot
      BY <1>2, <1>5 DEF Safety!Seed, LateBoot
    <3> QED
      BY <3>1 DEF EarlyBoot
  <2>2. boot' = [boot EXCEPT ![s] = g] /\ UNCHANGED <<domains, keywords, form, astray, alone>>
    BY <1>5 DEF Safety!Seed, Safety!hashes
  <2> HIDE DEF g
  <2>3. row' \in [Value -> RowOf]
    <3>1. [match |-> "keyword", policy |-> "flag"] \in RowOf
      BY DEF RowOf, Safety!Entry, Safety!Policy
    <3> QED
      BY <1>2, <1>5, <3>1 DEF Safety!Seed
  <2> QED
    BY <1>1, <1>2, <1>3, <2>1, <2>2, <2>3, BootGoes
<1>6. CASE Safety!Select(s)
  <2> DEFINE g == [pc |-> "clear", domains |-> Safety!Kept("domain"), keywords |-> Safety!Kept("keyword")]
  <2>1. /\ g \in LateBoot /\ g.pc = "clear"
        /\ g.domains = Safety!Kept("domain") /\ g.keywords = Safety!Kept("keyword")
    BY <1>4 DEF LateBoot
  <2>2. boot' = [boot EXCEPT ![s] = g] /\ UNCHANGED <<row, domains, keywords, form, astray, alone>>
    BY <1>6 DEF Safety!Select, Safety!hashes
  <2> HIDE DEF g
  <2>3. g.domains = Safety!Kept("domain")' /\ g.keywords = Safety!Kept("keyword")'
    BY <2>1, <2>2 DEF Safety!Kept
  <2>4. row' \in [Value -> RowOf] /\ domains' \in [Value -> Mark] /\ keywords' \in [Value -> Mark]
    BY <1>2, <2>2
  <2> QED
    BY <1>1, <1>3, <2>1, <2>2, <2>3, <2>4, BootGoes
<1>7. CASE Safety!Clear(s)
  <2> DEFINE g == [boot[s] EXCEPT !.pc = "load"]
  <2>1. /\ g \in LateBoot /\ g.pc = "load"
        /\ g.domains = boot[s].domains /\ g.keywords = boot[s].keywords /\ boot[s].pc = "clear"
    <3>1. boot[s] \in LateBoot /\ boot[s].pc = "clear"
      BY <1>2, <1>7 DEF Safety!Clear, EarlyBoot
    <3> QED
      BY <3>1 DEF LateBoot
  <2>2. boot' = [boot EXCEPT ![s] = g] /\ UNCHANGED <<row, form, astray, alone>>
    BY <1>7 DEF Safety!Clear
  <2> HIDE DEF g
  <2>3. /\ domains' \in [Value -> Mark] /\ keywords' \in [Value -> Mark]
        /\ \A v \in Value : domains'[v] = "none" /\ keywords'[v] = "none"
    BY <1>2, <1>7 DEF Safety!Clear
  <2>4. \A m : Safety!Kept(m)' = Safety!Kept(m)
    BY <2>2 DEF Safety!Kept
  <2>5. s \in alone => boot[s].domains = Safety!Kept("domain") /\ boot[s].keywords = Safety!Kept("keyword")
    BY <2>1 DEF Hashes, BootReady
  <2>6. s \in alone => g.domains = Safety!Kept("domain")' /\ g.keywords = Safety!Kept("keyword")'
    BY <2>1, <2>4, <2>5
  <2>7. row' \in [Value -> RowOf]
    BY <1>2, <2>2
  <2> QED
    BY <1>1, <1>3, <2>1, <2>2, <2>3, <2>6, <2>7, BootGoes
<1>8. CASE Safety!Load(s)
  <2>1. /\ boot' = [boot EXCEPT ![s] = Safety!Done] /\ UNCHANGED <<row, form>> /\ boot[s].pc = "load"
        /\ astray' = (IF s \in alone THEN astray \ Value ELSE astray \cup Value) /\ alone' = alone \ {s}
        /\ domains' = Safety!Merged(domains, boot[s].domains)
        /\ keywords' = Safety!Merged(keywords, boot[s].keywords)
    BY <1>8 DEF Safety!Load, Safety!Goes
  <2>2. boot[s].domains \in [Value -> Mark] /\ boot[s].keywords \in [Value -> Mark]
    BY <1>2, <2>1 DEF EarlyBoot, LateBoot
  <2>3. domains' \in [Value -> Mark] /\ keywords' \in [Value -> Mark]
    BY <1>2, <2>1, <2>2 DEF Safety!Merged
  <2>4. ASSUME s \in alone, NEW v \in Value PROVE Agrees(v)'
    <3>1. /\ boot[s].domains = Safety!Kept("domain") /\ boot[s].keywords = Safety!Kept("keyword")
          /\ domains[v] = "none" /\ keywords[v] = "none"
      BY <2>1, <2>4 DEF Hashes, BootReady
    <3>2. domains'[v] = Safety!Kept("domain")[v] /\ keywords'[v] = Safety!Kept("keyword")[v]
      BY <2>1, <3>1 DEF Safety!Merged
    <3>3. Safety!Kept("domain")' = Safety!Kept("domain") /\ Safety!Kept("keyword")' = Safety!Kept("keyword")
      BY <2>1 DEF Safety!Kept
    <3> QED
      BY <3>2, <3>3 DEF Agrees
  <2>5. \A v \in Value : v \in astray' \/ Agrees(v)'
    BY <2>1, <2>4
  <2> QED
    BY <1>1, <1>3, <2>1, <2>3, <2>5, BootEnds
<1>9. CASE Safety!StartFails(s)
  <2>1. /\ boot' = [boot EXCEPT ![s] = Safety!Done] /\ UNCHANGED <<row, domains, keywords, form>>
        /\ astray' = astray \cup Value /\ alone' = alone \ {s}
    BY <1>9 DEF Safety!StartFails, Safety!Fail, Safety!hashes
  <2>2. \A v \in Value : v \in astray'
    BY <2>1
  <2> QED
    BY <1>1, <1>2, <1>3, <2>1, <2>2, BootEnds
<1> QED
  BY <1>5, <1>6, <1>7, <1>8, <1>9

LEMMA StartHashes ==
  ASSUME Hashes, NEW s \in Server, Safety!Start(s)
  PROVE  Hashes'
<1> DEFINE g == [pc |-> IF \E v \in Value : row[v].match = "keyword" THEN "select" ELSE "seed"]
<1>1. g \in EarlyBoot /\ g.pc \notin {"clear", "load"}
  BY DEF EarlyBoot
<1>2. boot' = [boot EXCEPT ![s] = g] /\ Safety!Comes(s) /\ UNCHANGED <<row, domains, keywords, form, astray>>
  BY DEF Safety!Start, Safety!hashes
<1> HIDE DEF g
<1>3. row' \in [Value -> RowOf] /\ domains' \in [Value -> Mark] /\ keywords' \in [Value -> Mark]
  BY <1>2 DEF Hashes
<1> QED
  BY <1>1, <1>2, <1>3, BootGoes
-----------------------------------------------------------------------------
(* A check. *)

\* Nobody writes and the values of h are not astray: the hashes give what the rows give.
LEMMA AtRest ==
  ASSUME Hashes, Safety!Writing = {}, NEW h \in Host, ({Domain[h]} \cup Contains[h]) \cap astray = {}
  PROVE  /\ Safety!InDomains(domains, h) = Safety!InDomains(Safety!Kept("domain"), h)
         /\ Safety!Keyword(keywords, h) = Safety!Keyword(Safety!Kept("keyword"), h)
<1>1. \A v \in Value : ~Touched(v)
  BY DEF Touched, Safety!Writing
<1>2. \A v \in Value : v \notin astray => Agrees(v)
  BY <1>1 DEF Hashes, Straight
<1>3. Domain[h] \in Value => domains[Domain[h]] = Safety!Kept("domain")[Domain[h]]
  BY <1>2 DEF Agrees
<1>4. \A v \in Contains[h] : keywords[v] = Safety!Kept("keyword")[v]
  BY <1>2, SafetyConstants DEF Agrees
<1>5. {keywords[v] : v \in Contains[h]} = {Safety!Kept("keyword")[v] : v \in Contains[h]}
  BY <1>4
<1>6. Safety!InDomains(domains, h) = Safety!InDomains(Safety!Kept("domain"), h)
  BY <1>3 DEF Safety!InDomains
<1>7. Safety!Keyword(keywords, h) = Safety!Keyword(Safety!Kept("keyword"), h)
  BY <1>5 DEF Safety!Keyword
<1> QED
  BY <1>6, <1>7

LEMMA MarksOf ==
  ASSUME Hashes, NEW h \in Host
  PROVE  Safety!InDomains(domains, h) \in Mark /\ Safety!Keyword(keywords, h) \in Mark
BY DEF Hashes, Safety!InDomains, Safety!Keyword, Mark, Safety!Policy

LEMMA FoundStays ==
  ASSUME NEW r, Found(r), UNCHANGED <<row, form, boot, astray>>
  PROVE  Found(r)'
<1>1. Safety!Writing' = Safety!Writing
  BY DEF Safety!Writing, Safety!Done
<1>2. \A m : Safety!Kept(m)' = Safety!Kept(m)
  BY DEF Safety!Kept
<1>3. \A h : /\ Safety!InDomains(Safety!Kept("domain"), h)' = Safety!InDomains(Safety!Kept("domain"), h)
             /\ Safety!Keyword(Safety!Kept("keyword"), h)' = Safety!Keyword(Safety!Kept("keyword"), h)
  BY <1>2 DEF Safety!InDomains, Safety!Keyword, Safety!Policy
<1>4. \A h : Safety!ByRows(h)' = Safety!ByRows(h)
  BY <1>3 DEF Safety!ByRows, Safety!Decision
<1> QED
  BY <1>1, <1>3, <1>4 DEF Found

LEMMA CheckGoes ==
  ASSUME Checks, NEW c \in Check, NEW g \in {Safety!Done} \cup Asked \cup Decided,
         check' = [check EXCEPT ![c] = g], g # Safety!Done => Found(g),
         UNCHANGED <<row, form, boot, astray>>
  PROVE  Checks'
<1>1. check' \in [Check -> {Safety!Done} \cup Asked \cup Decided] /\ check'[c] = g
  BY DEF Checks
<1>2. ASSUME NEW d \in Check, check'[d] # Safety!Done PROVE Found(check[d])'
  <2>1. \E r : r = check'[d] /\ Found(r)
    <3>1. CASE d = c
      BY <1>1, <1>2, <3>1
    <3>2. CASE d # c
      <4>1. check'[d] = check[d]
        BY <3>2
      <4> QED
        BY <1>2, <4>1 DEF Checks
    <3> QED
      BY <3>1, <3>2
  <2>2. PICK r : r = check'[d] /\ Found(r)
    BY <2>1
  <2>3. Found(r)'
    BY <2>2, FoundStays
  <2> QED
    BY <2>2, <2>3 DEF Found
<1> QED
  BY <1>1, <1>2 DEF Checks, Safety!Done

LEMMA BeginChecks ==
  ASSUME Checks, NEW c \in Check, NEW h \in Host, Safety!Begin(c, h)
  PROVE  Checks'
<1>0. \E m, a \in BOOLEAN : /\ m = (Safety!Writing # {})
                            /\ a = (({Domain[h]} \cup Contains[h]) \cap astray # {})
  OBVIOUS
<1> PICK m \in BOOLEAN, a \in BOOLEAN : /\ m = (Safety!Writing # {})
                                        /\ a = (({Domain[h]} \cup Contains[h]) \cap astray # {})
  BY <1>0
<1> DEFINE g == [pc |-> "domain", host |-> h, domain |-> "none", keyword |-> "none",
                 met |-> m, astray |-> a, open |-> FALSE]
<1>1. check' = [check EXCEPT ![c] = g] /\ UNCHANGED <<row, form, boot, astray>>
  BY DEF Safety!Begin
<1>2. g \in Asked /\ g.pc = "domain" /\ g.host = h /\ g.met = m /\ g.astray = a
  BY DEF Asked, Mark
<1> HIDE DEF g
<1>3. Found(g)
  BY <1>2 DEF Found
<1> QED
  BY <1>1, <1>2, <1>3, CheckGoes

\* A lookup: it finds what the rows give, or the check has been let through.
LEMMA LookChecks ==
  ASSUME Hashes, Checks, NEW c \in Check, Safety!LookDomain(c) \/ Safety!LookKeyword(c)
  PROVE  Checks'
<1>0. \E r, h : r = check[c] /\ h = check[c].host
  OBVIOUS
<1> PICK r, h : r = check[c] /\ h = check[c].host
  BY <1>0
<1>1. r.pc \in {"domain", "keyword"} /\ UNCHANGED <<row, form, boot, astray>>
  BY DEF Safety!LookDomain, Safety!LookKeyword, Safety!Look
<1>2. r \in Asked /\ h \in Host /\ h = r.host /\ Found(r)
  <2>1. r \in {Safety!Done} \cup Asked \cup Decided
    BY DEF Checks
  <2>2. r \in Asked
    BY <1>1, <2>1, SafetyConstants DEF Decided
  <2>3. r # Safety!Done
    BY <1>1, SafetyConstants
  <2> QED
    BY <2>2, <2>3 DEF Asked, Checks
<1>3. Safety!InDomains(domains, h) \in Mark /\ Safety!Keyword(keywords, h) \in Mark
  BY <1>2, MarksOf
<1>4. ~r.met /\ ~r.astray =>
        /\ Safety!InDomains(domains, h) = Safety!InDomains(Safety!Kept("domain"), h)
        /\ Safety!Keyword(keywords, h) = Safety!Keyword(Safety!Kept("keyword"), h)
  BY <1>2, AtRest DEF Found
<1>5. ASSUME NEW next \in {"keyword", "scan"}, check' = [check EXCEPT ![c].pc = next, ![c].open = TRUE]
      PROVE  Checks'
  <2> DEFINE g == [r EXCEPT !.pc = next, !.open = TRUE]
  <2>1. check' = [check EXCEPT ![c] = g]
    BY <1>5
  <2>2. g \in Asked /\ g.open /\ g.met = r.met /\ g.astray = r.astray /\ g.host = h
    BY <1>2 DEF Asked
  <2> HIDE DEF g
  <2>3. Found(g)
    BY <1>2, <2>2 DEF Found
  <2> QED
    BY <1>1, <2>1, <2>2, <2>3, CheckGoes
<1>6. CASE Safety!LookDomain(c)
  <2> DEFINE f == [r EXCEPT !.domain = Safety!InDomains(domains, h)]
             g == [f EXCEPT !.pc = "keyword"]
  <2>1. CASE check' = [check EXCEPT ![c] = g]
    <3>1. /\ g \in Asked /\ g.pc = "keyword" /\ g.met = r.met /\ g.astray = r.astray /\ g.host = h
          /\ g.domain = Safety!InDomains(domains, h)
      BY <1>2, <1>3 DEF Asked
    <3> HIDE DEF g
    <3>2. Found(g)
      BY <1>2, <1>4, <3>1 DEF Found
    <3> QED
      BY <1>1, <2>1, <3>1, <3>2, CheckGoes
  <2>2. check' = [check EXCEPT ![c] = g] \/ check' = [check EXCEPT ![c].pc = "keyword", ![c].open = TRUE]
    BY <1>6 DEF Safety!LookDomain, Safety!Look
  <2> QED
    BY <1>5, <2>1, <2>2
<1>7. CASE Safety!LookKeyword(c)
  <2> DEFINE f == [r EXCEPT !.keyword = Safety!Keyword(keywords, h)]
             g == [f EXCEPT !.pc = "scan"]
  <2>1. CASE check' = [check EXCEPT ![c] = g]
    <3>1. /\ g \in Asked /\ g.pc = "scan" /\ g.met = r.met /\ g.astray = r.astray /\ g.host = h
          /\ g.domain = r.domain /\ g.open = r.open
          /\ g.keyword = Safety!Keyword(keywords, h) /\ r.pc = "keyword"
      BY <1>2, <1>3, <1>7 DEF Asked, Safety!LookKeyword, Safety!Look
    <3> HIDE DEF g
    <3>2. Found(g)
      BY <1>2, <1>4, <3>1 DEF Found
    <3> QED
      BY <1>1, <2>1, <3>1, <3>2, CheckGoes
  <2>2. check' = [check EXCEPT ![c] = g] \/ check' = [check EXCEPT ![c].pc = "scan", ![c].open = TRUE]
    BY <1>7 DEF Safety!LookKeyword, Safety!Look
  <2> QED
    BY <1>5, <2>1, <2>2
<1> QED
  BY <1>6, <1>7

LEMMA ScanChecks ==
  ASSUME Checks, NEW c \in Check, Safety!Scan(c)
  PROVE  Checks'
<1>0. \E r, d : r = check[c] /\ d = Safety!Decision(r.domain, r.keyword)
  OBVIOUS
<1> PICK r, d : r = check[c] /\ d = Safety!Decision(r.domain, r.keyword)
  BY <1>0
<1>1. r.pc = "scan" /\ UNCHANGED <<row, form, boot, astray>>
  BY DEF Safety!Scan
<1>2. r \in Asked /\ Found(r)
  <2>1. r \in {Safety!Done} \cup Asked \cup Decided
    BY DEF Checks
  <2>2. r \in Asked /\ r # Safety!Done
    BY <1>1, <2>1, SafetyConstants DEF Decided
  <2> QED
    BY <2>2 DEF Checks
<1>3. PICK answer \in (IF d = "reject" THEN {"rejected"} ELSE {"malicious", "clean", "unchecked"}) :
        check' = [check EXCEPT ![c] =
             [pc |-> "decided", host |-> r.host, met |-> r.met, astray |-> r.astray, open |-> r.open,
              admitted |-> answer \in {"clean", "unchecked"}, review |-> d = "flag",
              safety |-> answer]]
  BY DEF Safety!Scan
<1>4. (\E a \in BOOLEAN : a = (answer \in {"clean", "unchecked"})) /\ (\E v \in BOOLEAN : v = (d = "flag"))
  <2>1. ASSUME NEW x, NEW S PROVE \E a \in BOOLEAN : a = (x \in S)
    <3>1. CASE x \in S
      BY <3>1, (x \in S) = TRUE
    <3>2. CASE x \notin S
      BY <3>2, (x \in S) = FALSE
    <3> QED
      BY <3>1, <3>2
  <2>2. \A x, y : \E v \in BOOLEAN : v = (x = y)
    OBVIOUS
  <2> QED
    BY <2>1, <2>2
<1>5. PICK a \in BOOLEAN, v \in BOOLEAN : a = (answer \in {"clean", "unchecked"}) /\ v = (d = "flag")
  BY <1>4
<1> DEFINE g == [pc |-> "decided", host |-> r.host, met |-> r.met, astray |-> r.astray, open |-> r.open,
                 admitted |-> a, review |-> v, safety |-> answer]
<1>6. check' = [check EXCEPT ![c] = g]
  BY <1>3, <1>5
<1>7. /\ g \in Decided /\ g.pc = "decided" /\ g.host = r.host /\ g.met = r.met /\ g.astray = r.astray
      /\ g.open = r.open /\ g.review = v /\ g.safety = answer
  BY <1>2, <1>3, <1>5 DEF Asked, Decided
<1> HIDE DEF g
<1>8. ~r.met /\ ~r.astray /\ ~r.open => d = Safety!ByRows(r.host)
  BY <1>1, <1>2 DEF Found, Safety!ByRows
<1>9. ~r.met /\ ~r.astray /\ ~r.open =>
        IF Safety!ByRows(r.host) = "reject" THEN g.safety = "rejected"
        ELSE g.safety # "rejected" /\ (g.review <=> Safety!ByRows(r.host) = "flag")
  BY <1>3, <1>5, <1>7, <1>8
<1>10. Found(g)
  BY <1>2, <1>7, <1>9 DEF Found
<1> QED
  BY <1>1, <1>6, <1>7, <1>10, CheckGoes

LEMMA LeaveChecks ==
  ASSUME Checks, NEW c \in Check, Safety!Leave(c)
  PROVE  Checks'
<1>1. check' = [check EXCEPT ![c] = Safety!Done] /\ UNCHANGED <<row, form, boot, astray>>
  BY DEF Safety!Leave
<1> QED
  BY <1>1, CheckGoes

-----------------------------------------------------------------------------
(* All of it. *)

SafetyHolds == Hashes /\ Checks

LEMMA SafetyBegins == Safety!Init => SafetyHolds
<1> SUFFICES ASSUME Safety!Init PROVE SafetyHolds
  OBVIOUS
<1>1. Hashes
  BY SafetyConstants DEF Safety!Init, Hashes, Loners, Straight, FormReady, BootReady, RowOf, Mark
<1>2. Checks
  BY DEF Safety!Init, Checks
<1> QED
  BY <1>1, <1>2 DEF SafetyHolds

\* A part of the state that rests.
LEMMA HashesStay ==
  ASSUME Hashes, UNCHANGED <<row, domains, keywords, form, boot, alone, astray>>
  PROVE  Hashes'
BY DEF Hashes, Loners, Straight, Touched, Agrees, FormReady, BootReady, Safety!Writing, Safety!Kept,
       Safety!Done, Safety!NoEntry

LEMMA SafetyStep == SafetyHolds /\ [Safety!Next]_safety => SafetyHolds'
<1> SUFFICES ASSUME Hashes, Checks, [Safety!Next]_safety PROVE Hashes' /\ Checks'
  BY DEF SafetyHolds
<1>1. ASSUME NEW a \in Admin, NEW v \in Value, NEW e \in Safety!Entry \cup {Safety!NoEntry}, Safety!Submit(a, v, e)
      PROVE  Hashes' /\ Checks'
  <2>1. e \in RowOf /\ Safety!Meets
    BY <1>1 DEF RowOf, Safety!Submit
  <2> QED
    BY <1>1, <2>1, SubmitHashes, ChecksMeet
<1>2. ASSUME NEW a \in Admin,
             Safety!DropDomain(a) \/ Safety!DropKeyword(a) \/ Safety!AddEntry(a) \/ Safety!FormFails(a)
      PROVE  Hashes' /\ Checks'
  <2>1. Hashes' /\ Safety!Writing # {}
    BY <1>2, FormHashes
  <2>2. check' = check
    BY <1>2 DEF Safety!DropDomain, Safety!DropKeyword, Safety!AddEntry, Safety!FormFails, Safety!Fail
  <2> QED
    BY <2>1, <2>2, ChecksBusy
<1>3. ASSUME NEW s \in Server, Safety!Start(s) PROVE Hashes' /\ Checks'
  BY <1>3, StartHashes, ChecksMeet DEF Safety!Start
<1>4. ASSUME NEW s \in Server,
             Safety!Seed(s) \/ Safety!Select(s) \/ Safety!Clear(s) \/ Safety!Load(s) \/ Safety!StartFails(s)
      PROVE  Hashes' /\ Checks'
  <2>1. Hashes' /\ Safety!Writing # {}
    BY <1>4, BootHashes
  <2>2. check' = check
    BY <1>4 DEF Safety!Seed, Safety!Select, Safety!Clear, Safety!Load, Safety!StartFails, Safety!Fail
  <2> QED
    BY <2>1, <2>2, ChecksBusy
<1>5. ASSUME NEW c \in Check,
             Safety!LookDomain(c) \/ Safety!LookKeyword(c) \/ Safety!Scan(c) \/ Safety!Leave(c)
             \/ \E h \in Host : Safety!Begin(c, h)
      PROVE  Hashes' /\ Checks'
  <2>1. Checks'
    BY <1>5, LookChecks, ScanChecks, LeaveChecks, BeginChecks
  <2>2. UNCHANGED <<row, domains, keywords, form, boot, alone, astray>>
    BY <1>5 DEF Safety!LookDomain, Safety!LookKeyword, Safety!Look, Safety!Scan, Safety!Leave, Safety!Begin,
                Safety!hashes
  <2> QED
    BY <2>1, <2>2, HashesStay
<1>6. CASE UNCHANGED safety
  <2>1. UNCHANGED <<row, domains, keywords, form, boot, alone, astray>> /\ check' = check
    BY <1>6 DEF safety
  <2>2. ASSUME NEW c \in Check, check[c] # Safety!Done PROVE Found(check[c])'
    <3>1. Found(check[c])
      BY <2>2 DEF Checks
    <3>2. PICK r : r = check[c] /\ Found(r)
      BY <3>1
    <3>3. Found(r)'
      BY <2>1, <3>2, FoundStays
    <3> QED
      BY <2>1, <3>2, <3>3
  <2> QED
    BY <2>1, <2>2, HashesStay DEF Checks, Safety!Done
<1> QED
  BY <1>1, <1>2, <1>3, <1>4, <1>5, <1>6 DEF Safety!Next

\* A destination is refused, and queued for review, as the rows of the blocklist say,
\* although the check asks the hashes: unless a lookup failed, a writer was at work
\* meanwhile, or the last writers of the hashes had met or one had failed.
THEOREM RowsAreFollowed == PartSpec => []RowsDecide
<1>1. PartInit => SafetyHolds
  BY SafetyBegins DEF PartInit
<1>2. SafetyHolds /\ [PartNext]_<<part, vars, safety>> => SafetyHolds'
  BY SafetyStep DEF PartNext
<1>3. SafetyHolds => RowsDecide
  BY SafetyConstants DEF SafetyHolds, Checks, Found, RowsDecide, Safety!RowsDecide
<1> QED
  BY <1>1, <1>2, <1>3, PTL DEF PartSpec
=============================================================================
