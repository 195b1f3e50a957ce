----------------------------- MODULE LinkProofs -----------------------------
(***************************************************************************)
(* Proofs about LinkCache, the part of MCLinks for one link, for any       *)
(* hosts, codes, visitors and editors, and any set of the operations they  *)
(* may use: which entries can be stale.                                    *)
(***************************************************************************)
EXTENDS MCLinks, TLAPS

-----------------------------------------------------------------------------
(***************************************************************************)
(* The inductive invariant: the property, and that an editor which has     *)
(* not written yet, or is done, has nothing left to flush.                 *)
(***************************************************************************)
Current == <<Default, link.code>>

RowShape(r) ==
  r \in [code : Back, prev : {r.prev}, status : {r.status}, safety : {r.safety},
         ver : {r.ver}, rules : {r.rules}, reports : {r.reports}]

EditShape(d) ==
  d \in [pc : {d.pc}, op : {d.op}, seen : {d.seen}, to : Back, todo : {d.todo}, value : {d.value}]

Shapes ==
  /\ RowShape(link)
  /\ cache = [k \in One!Key |-> cache[k]]
  /\ edit = [e \in Editor |-> edit[e]]
  /\ \A e \in Editor : EditShape(edit[e])

NothingToFlush == \A e \in Editor : edit[e].pc # "flush" => edit[e].todo = {}

Awaited == \E e \in Editor : Current \in edit[e].todo

LinkInv == Shapes /\ NothingToFlush /\ One!StaleOnlyByOverlap

-----------------------------------------------------------------------------
LEMMA LinkConstants == FirstBack \in Back /\ Default \in Site
BY MCLinksAssumption DEF One!LinkCacheAssumption

LEMMA ClosedShape == EditShape(One!Closed) /\ One!Closed.todo = {} /\ One!Closed.pc = "idle"
BY LinkConstants DEF EditShape, One!Closed

LEMMA LinkInit == One!Init => LinkInv
<1> SUFFICES ASSUME One!Init PROVE LinkInv
  OBVIOUS
<1>1. PICK routed \in BOOLEAN : link = [One!Fresh EXCEPT !.rules = IF routed THEN 1 ELSE 0]
  BY DEF One!Init
<1>2. RowShape(link)
  BY <1>1, LinkConstants DEF RowShape, One!Fresh
<1>3. Shapes
  BY <1>2, ClosedShape DEF One!Init, Shapes
<1>4. NothingToFlush
  BY ClosedShape DEF One!Init, NothingToFlush
<1>5. Current \in One!Key
  BY <1>2, LinkConstants DEF Current, One!Key, RowShape
<1>6. cache[Current].kind = "none"
  BY <1>5 DEF One!Init, One!None
<1> QED
  BY <1>3, <1>4, <1>6 DEF LinkInv, One!StaleOnlyByOverlap, One!Stale, Current

\* The entry under the current code may be stale, and nobody answers for it.
Unanswered == One!Stale(Current) /\ Current \notin unflushed /\ ~Awaited

LEMMA Answered == One!StaleOnlyByOverlap <=> ~Unanswered
BY DEF One!StaleOnlyByOverlap, Unanswered, Awaited, Current

-----------------------------------------------------------------------------
(***************************************************************************)
(* A write of an entry, by a lookup or a flush, settles whether its key is *)
(* late; a write of the row is answered for.                               *)
(***************************************************************************)
LEMMA WriteSettles ==
  ASSUME NEW STATE k, NEW STATE entry, Shapes, One!Write(k, entry), UNCHANGED link
  PROVE  /\ cache' = [j \in One!Key |-> cache'[j]]
         /\ k = Current /\ One!Stale(Current)' => (Current \in unflushed)'
         /\ k # Current /\ One!Stale(Current)' => One!Stale(Current)
         /\ k # Current /\ Current \in unflushed => (Current \in unflushed)'
<1>1. Current \in One!Key /\ Current' = Current
  BY LinkConstants DEF Shapes, Current, One!Key, RowShape
<1>2. \A j : One!Answer(j)' = One!Answer(j)
  BY DEF One!Answer, One!Resolves, One!Exists, One!Servable
<1>3. cache' = [cache EXCEPT ![k] = entry]
  BY DEF One!Write
<1>4. cache' = [j \in One!Key |-> cache'[j]]
  BY <1>3 DEF Shapes
<1>5. ASSUME k = Current, One!Stale(Current)' PROVE (Current \in unflushed)'
  <2>1. cache'[Current] = entry
    BY <1>1, <1>3, <1>5 DEF Shapes
  <2>2. entry.kind = "ok" /\ entry # One!Answer(Current)
    BY <1>1, <1>2, <1>5, <2>1 DEF One!Stale
  <2> QED
    BY <1>1, <1>5, <2>2 DEF One!Write
<1>6. ASSUME k # Current PROVE cache'[Current] = cache[Current]
  BY <1>1, <1>3, <1>6 DEF Shapes
<1>7. ASSUME k # Current, One!Stale(Current)' PROVE One!Stale(Current)
  BY <1>1, <1>2, <1>6, <1>7 DEF One!Stale
<1>8. ASSUME k # Current, Current \in unflushed PROVE (Current \in unflushed)'
  BY <1>1, <1>8 DEF One!Write
<1> QED
  BY <1>4, <1>5, <1>7, <1>8

\* How an operation may answer for the row it writes: it flushes the entry of
\* the code that the link then has, it was overtaken by a rename, or what is
\* served stays as it was.
Covers(e, new, codes) ==
  \/ new.code \in codes
  \/ new.code = link.code /\ One!Seen(e).code # link.code
  \/ /\ new.code = link.code /\ new.prev = link.prev
     /\ new.ver = link.ver /\ new.rules = link.rules
     /\ One!Servable => new.status = "active" /\ new.safety \notin {"suspicious", "malicious"}

LEMMA CommitKeeps ==
  ASSUME LinkInv, NEW e \in Editor, NEW STATE op, NEW STATE new, NEW STATE codes, NEW STATE value,
         One!Commit(e, op, new, codes, value), One!Exists => RowShape(new) /\ Covers(e, new, codes)
  PROVE  LinkInv'
<1> USE DEF LinkInv
<1> DEFINE d == IF codes = {} THEN One!Closed
                ELSE [edit[e] EXCEPT !.pc = "flush", !.todo = {Default} \X codes, !.value = value]
<1>1. /\ edit[e].pc = "write" /\ link' = IF One!Exists THEN new ELSE link
      /\ edit' = [edit EXCEPT ![e] = d] /\ UNCHANGED cache
      /\ unflushed' = IF One!Seen(e).code = link.code THEN unflushed ELSE unflushed \cup {Current}
  BY DEF One!Commit, Current, One!Seen
<1>2. EditShape(d) /\ (d.pc # "flush" => d.todo = {}) /\ (d.todo = {Default} \X codes)
  <2>1. CASE codes = {}
    BY <2>1, ClosedShape
  <2>2. CASE codes # {}
    <3>1. EditShape(edit[e])
      BY DEF Shapes
    <3>2. d = [edit[e] EXCEPT !.pc = "flush", !.todo = {Default} \X codes, !.value = value]
      BY <2>2
    <3> HIDE DEF d
    <3> QED
      BY <3>1, <3>2 DEF EditShape
  <2> QED
    BY <2>1, <2>2
<1> HIDE DEF d
<1>3. edit'[e] = d /\ \A o \in Editor : o # e => edit'[o] = edit[o]
  BY <1>1 DEF Shapes
<1>4. RowShape(link')
  BY <1>1 DEF Shapes
<1>5. Shapes'
  <2>1. edit' = [o \in Editor |-> edit'[o]]
    BY <1>1 DEF Shapes
  <2>2. \A o \in Editor : EditShape(edit'[o])
    BY <1>2, <1>3 DEF Shapes
  <2> QED
    BY <1>1, <1>4, <2>1, <2>2 DEF Shapes
<1>6. NothingToFlush'
  BY <1>2, <1>3 DEF NothingToFlush
<1>7. edit[e].todo = {}
  BY <1>1 DEF NothingToFlush
<1>8. link'.code = link.code /\ Awaited => Awaited'
  BY <1>3, <1>7 DEF Awaited, Current
<1>9. CASE One!Exists /\ new.code \in codes
  <2>1. Current' \in edit'[e].todo
    BY <1>1, <1>2, <1>3, <1>9 DEF Current
  <2> QED
    BY <1>5, <1>6, <2>1, Answered DEF One!StaleOnlyByOverlap, Current
<1>10. CASE One!Exists /\ new.code = link.code /\ One!Seen(e).code # link.code
  <2>1. Current' \in unflushed'
    BY <1>1, <1>10 DEF Current
  <2> QED
    BY <1>5, <1>6, <2>1 DEF One!StaleOnlyByOverlap, Current
<1>11. ASSUME ~One!Exists
              \/ /\ new.code = link.code /\ new.prev = link.prev
                 /\ new.ver = link.ver /\ new.rules = link.rules
                 /\ One!Servable => new.status = "active"
                                /\ new.safety \notin {"suspicious", "malicious"}
       PROVE LinkInv'
  <2>1. link'.code = link.code /\ Current' = Current
    BY <1>1, <1>11 DEF Current
  <2>2. One!Stale(Current)' => One!Stale(Current)
    <3>1. CASE ~One!Exists
      BY <1>1, <3>1 DEF One!Stale, One!Answer, One!Resolves, One!Exists, One!Servable, Current
    <3>2. CASE One!Exists
      <4>1. link' = new /\ new.ver = link.ver /\ new.rules = link.rules
        BY <1>1, <1>11, <3>2
      <4>2. One!Resolves(Current)
        BY <3>2 DEF One!Resolves, Current
      <4>3. One!Servable => One!Resolves(Current)' /\ One!Servable'
        BY <1>11, <2>1, <3>2, <4>1 DEF One!Servable, One!Resolves, One!Exists, Current
      <4>4. One!Servable => One!Answer(Current)' = One!Answer(Current)
        BY <2>1, <4>1, <4>2, <4>3 DEF One!Answer
      <4>5. ~One!Servable => One!Answer(Current) = One!Disabled
        BY <4>2 DEF One!Answer
      <4>6. One!Disabled.kind # "ok"
        BY DEF One!Disabled, One!None
      <4> QED
        BY <1>1, <2>1, <4>4, <4>5, <4>6 DEF One!Stale
    <3> QED
      BY <3>1, <3>2
  <2>3. Current \in unflushed => Current' \in unflushed'
    BY <1>1, <2>1
  <2> QED
    BY <1>5, <1>6, <1>8, <2>1, <2>2, <2>3, Answered DEF Unanswered, One!StaleOnlyByOverlap, Awaited, Current
<1> QED
  BY <1>9, <1>10, <1>11 DEF Covers

-----------------------------------------------------------------------------
(***************************************************************************)
(* The operations: each of the rows written is answered for.               *)
(***************************************************************************)
\* Most operations keep the code and flush it, unless a rename overtook them.
LEMMA OwnCodeCovers ==
  ASSUME Shapes, NEW e \in Editor, NEW STATE new, NEW STATE codes,
         One!SeenCode(e) \subseteq codes, new.code = link.code
  PROVE  Covers(e, new, codes)
BY DEF Covers, One!SeenCode

LEMMA EditsKeep ==
  ASSUME LinkInv, NEW e \in Editor,
         One!EditDestination(e) \/ One!Patch(e) \/ One!PowerEdit(e) \/ One!SetRouting(e)
  PROVE  LinkInv'
<1>0. RowShape(link) /\ Shapes
  BY DEF LinkInv, Shapes
<1>1. CASE One!EditDestination(e)
  <2>1. PICK s \in {"unchecked", "clean", "suspicious"} :
          One!Commit(e, "edit", [link EXCEPT !.ver = @ + 1, !.safety = s], One!SeenCode(e), One!None)
    BY <1>1 DEF One!EditDestination
  <2>2. [link EXCEPT !.ver = @ + 1, !.safety = s].code = link.code
        /\ RowShape([link EXCEPT !.ver = @ + 1, !.safety = s])
    BY <1>0 DEF RowShape
  <2> QED
    BY <1>0, <2>1, <2>2, OwnCodeCovers, CommitKeeps
<1>2. CASE One!Patch(e)
  <2> DEFINE new == [link EXCEPT !.ver = @ + 1]
  <2>1. new.code = link.code /\ RowShape(new)
    BY <1>0 DEF RowShape
  <2>2. One!Exists => Covers(e, new, IF One!Exists THEN {link.code} ELSE {})
    BY <2>1 DEF Covers
  <2>3. One!Commit(e, "patch", new, IF One!Exists THEN {link.code} ELSE {}, One!None)
    BY <1>2 DEF One!Patch
  <2> HIDE DEF new
  <2> QED
    BY <2>1, <2>2, <2>3, CommitKeeps
<1>3. CASE One!PowerEdit(e)
  <2>1. [link EXCEPT !.ver = @ + 1].code = link.code /\ RowShape([link EXCEPT !.ver = @ + 1])
    BY <1>0 DEF RowShape
  <2>2. One!SeenCode(e) \subseteq One!AllCodes(e)
    BY DEF One!AllCodes
  <2> QED
    BY <1>0, <1>3, <2>1, <2>2, OwnCodeCovers, CommitKeeps DEF One!PowerEdit
<1>4. CASE One!SetRouting(e)
  <2>1. PICK r \in {0, link.ver + 1} :
          One!Commit(e, "route", [link EXCEPT !.ver = @ + 1, !.rules = r], One!AllCodes(e), One!None)
    BY <1>4 DEF One!SetRouting
  <2>2. [link EXCEPT !.ver = @ + 1, !.rules = r].code = link.code
        /\ RowShape([link EXCEPT !.ver = @ + 1, !.rules = r])
    BY <1>0 DEF RowShape
  <2>3. One!SeenCode(e) \subseteq One!AllCodes(e)
    BY DEF One!AllCodes
  <2> QED
    BY <1>0, <2>1, <2>2, <2>3, OwnCodeCovers, CommitKeeps
<1> QED
  BY <1>1, <1>2, <1>3, <1>4

\* A rename flushes the code it claims, too.
LEMMA RenameKeeps ==
  ASSUME LinkInv, NEW e \in Editor, One!Rename(e)
  PROVE  LinkInv'
<1> DEFINE new == [link EXCEPT !.code = edit[e].to,
                               !.prev = One!Roll(One!Seen(e).prev, One!Seen(e).code, edit[e].to)]
<1>1. RowShape(link) /\ EditShape(edit[e])
  BY DEF LinkInv, Shapes
<1>2. new.code = edit[e].to /\ RowShape(new)
  BY <1>1 DEF RowShape, EditShape
<1>3. One!Commit(e, "rename", new, One!RenameCodes(e), One!None)
  BY DEF One!Rename
<1> HIDE DEF new
<1>4. Covers(e, new, One!RenameCodes(e))
  BY <1>2 DEF Covers, One!RenameCodes
<1> QED
  BY <1>2, <1>3, <1>4, CommitKeeps

LEMMA TogglesKeep ==
  ASSUME LinkInv, NEW e \in Editor,
         One!Disable(e) \/ One!Enable(e) \/ One!Delete(e) \/ One!ApiDelete(e) \/ One!AdminDisable(e)
         \/ One!MarkMalicious(e) \/ One!MarkClean(e)
  PROVE  LinkInv'
<1>0. RowShape(link) /\ Shapes
  BY DEF LinkInv, Shapes
<1>1. ASSUME NEW s PROVE [link EXCEPT !.status = s].code = link.code
                         /\ RowShape([link EXCEPT !.status = s])
  BY <1>0 DEF RowShape
<1>2. CASE One!Disable(e)
  BY <1>0, <1>1, <1>2, OwnCodeCovers, CommitKeeps DEF One!Disable
<1>3. CASE One!Enable(e)
  BY <1>0, <1>1, <1>3, OwnCodeCovers, CommitKeeps DEF One!Enable
<1>4. CASE One!Delete(e)
  BY <1>0, <1>1, <1>4, OwnCodeCovers, CommitKeeps DEF One!Delete
<1>5. CASE One!ApiDelete(e)
  BY <1>0, <1>1, <1>5, OwnCodeCovers, CommitKeeps DEF One!ApiDelete
<1>6. CASE One!AdminDisable(e)
  BY <1>0, <1>1, <1>6, OwnCodeCovers, CommitKeeps DEF One!AdminDisable
<1>7. ASSUME NEW s, NEW t PROVE [link EXCEPT !.safety = s, !.status = t].code = link.code
                                /\ RowShape([link EXCEPT !.safety = s, !.status = t])
  BY <1>0 DEF RowShape
<1>8. CASE One!MarkMalicious(e)
  BY <1>0, <1>7, <1>8, OwnCodeCovers, CommitKeeps DEF One!MarkMalicious
<1>9. CASE One!MarkClean(e)
  <2> DEFINE t == IF One!Seen(e).status = "disabled_by_safety" THEN "active" ELSE link.status
  <2>1. One!Commit(e, "clean", [link EXCEPT !.safety = "clean", !.status = t], One!SeenCode(e), One!None)
    BY <1>9 DEF One!MarkClean
  <2> HIDE DEF t
  <2> QED
    BY <1>0, <1>7, <2>1, OwnCodeCovers, CommitKeeps
<1> QED
  BY <1>2, <1>3, <1>4, <1>5, <1>6, <1>8, <1>9

\* Those that flush nothing leave what is served as it was: a count is reset
\* or raised, or a destination that was served is found clean.
LEMMA ReviewsKeep ==
  ASSUME LinkInv, NEW e \in Editor, One!DismissReports(e) \/ One!Report(e) \/ One!Rescan(e)
  PROVE  LinkInv'
<1>0. RowShape(link) /\ Shapes
  BY DEF LinkInv, Shapes
<1>1. CASE One!DismissReports(e)
  <2> DEFINE on == One!Seen(e).status = "pending_review"
             new == [link EXCEPT !.reports = 0, !.status = IF on THEN "active" ELSE @]
  <2>1. RowShape(new) /\ new.code = link.code
    BY <1>0 DEF RowShape
  <2>2. Covers(e, new, IF on THEN One!SeenCode(e) ELSE {})
    <3>1. CASE on
      BY <1>0, <2>1, <3>1, OwnCodeCovers
    <3>2. CASE ~on
      <4>1. new = [link EXCEPT !.reports = 0, !.status = link.status]
        BY <3>2
      <4> QED
        BY <1>0, <4>1 DEF Covers, RowShape, One!Servable
    <3> QED
      BY <3>1, <3>2
  <2>3. One!Commit(e, "dismiss", new, IF on THEN One!SeenCode(e) ELSE {}, One!None)
    BY <1>1 DEF One!DismissReports
  <2> HIDE DEF on, new
  <2> QED
    BY <2>1, <2>2, <2>3, CommitKeeps
<1>2. CASE One!Report(e)
  <2> DEFINE move == One!Seen(e).reports + 1 >= Threshold /\ One!Seen(e).safety # "malicious"
             new == [link EXCEPT !.reports = @ + 1,
                                 !.status = IF move THEN "pending_review" ELSE @]
  <2>3. One!Commit(e, "report", new, IF move THEN One!SeenCode(e) ELSE {}, One!Disabled)
    BY <1>2 DEF One!Report
  <2> HIDE DEF move
  <2>1. RowShape(new) /\ new.code = link.code
    BY <1>0 DEF RowShape
  <2>2. Covers(e, new, IF move THEN One!SeenCode(e) ELSE {})
    <3>1. CASE move
      BY <1>0, <2>1, <3>1, OwnCodeCovers
    <3>2. CASE ~move
      <4>1. new = [link EXCEPT !.reports = @ + 1, !.status = link.status]
        BY <3>2
      <4> QED
        BY <1>0, <4>1 DEF Covers, RowShape, One!Servable
    <3> QED
      BY <3>1, <3>2
  <2> HIDE DEF new
  <2> QED
    BY <2>1, <2>2, <2>3, CommitKeeps
<1>3. CASE One!Rescan(e)
  <2>0. PICK bad \in BOOLEAN :
      One!Commit(e, "rescan",
             [link EXCEPT !.safety = IF bad THEN "malicious" ELSE "clean",
                          !.status = IF bad THEN "disabled_by_safety" ELSE @],
             IF bad THEN One!SeenCode(e) ELSE {}, One!Disabled)
    BY <1>3 DEF One!Rescan
  <2> DEFINE new == [link EXCEPT !.safety = IF bad THEN "malicious" ELSE "clean",
                                 !.status = IF bad THEN "disabled_by_safety" ELSE @]
  <2>1. RowShape(new) /\ new.code = link.code
    BY <1>0 DEF RowShape
  <2>2. Covers(e, new, IF bad THEN One!SeenCode(e) ELSE {})
    <3>1. CASE bad
      BY <1>0, <2>1, <3>1, OwnCodeCovers
    <3>2. CASE ~bad
      <4>1. new = [link EXCEPT !.safety = "clean", !.status = link.status]
        BY <3>2
      <4> QED
        BY <1>0, <4>1 DEF Covers, RowShape, One!Servable
    <3> QED
      BY <3>1, <3>2
  <2> HIDE DEF new
  <2> QED
    BY <2>0, <2>1, <2>2, CommitKeeps DEF new
<1> QED
  BY <1>1, <1>2, <1>3

-----------------------------------------------------------------------------
(***************************************************************************)
(* The other steps.                                                        *)
(***************************************************************************)
\* A step that moves neither the row nor an entry nor an editor.
LEMMA QuietKeeps ==
  ASSUME LinkInv, UNCHANGED <<link, cache, edit, unflushed>>
  PROVE  LinkInv'
BY DEF LinkInv, Shapes, NothingToFlush, One!StaleOnlyByOverlap, One!Stale, One!Answer, One!Resolves,
       One!Exists, One!Servable

LEMMA VisitsKeep ==
  ASSUME LinkInv, NEW v \in Visitor, (\E k \in One!Key : One!Get(v, k)) \/ One!Visit(v)
  PROVE  LinkInv'
<1>1. CASE (\E k \in One!Key : One!Get(v, k)) \/ One!ExactQuery(v) \/ One!AliasQuery(v) \/ One!RulesQuery(v)
  BY <1>1, QuietKeeps DEF One!Get, One!ExactQuery, One!AliasQuery, One!RulesQuery
<1>2. CASE One!Store(v)
  <2>1. CASE UNCHANGED <<cache, unflushed>>
    BY <1>2, <2>1, QuietKeeps DEF One!Store
  <2>2. CASE One!Write(fill[v].key, fill[v].entry)
    <3>1. UNCHANGED <<link, edit>> /\ Shapes
      BY <1>2 DEF One!Store, LinkInv
    <3>2. cache' = [j \in One!Key |-> cache'[j]]
          /\ (One!Stale(Current)' => (Current \in unflushed)' \/ One!Stale(Current))
          /\ (One!Stale(Current)' /\ Current \in unflushed => (Current \in unflushed)')
      BY <2>2, <3>1, WriteSettles
    <3>3. Shapes' /\ NothingToFlush' /\ (Awaited => Awaited') /\ Current' = Current
      BY <3>1, <3>2 DEF LinkInv, Shapes, NothingToFlush, Awaited, Current, RowShape, EditShape
    <3> QED
      BY <3>2, <3>3 DEF LinkInv, One!StaleOnlyByOverlap, Awaited, Current
  <2> QED
    BY <1>2, <2>1, <2>2 DEF One!Store
<1> QED
  BY <1>1, <1>2 DEF One!Visit

LEMMA ExpireKeeps ==
  ASSUME LinkInv, NEW k \in One!Key, One!Expire(k)
  PROVE  LinkInv'
<1>1. UNCHANGED <<link, edit>> /\ cache' = [cache EXCEPT ![k] = One!None] /\ unflushed' = unflushed \ {k}
  BY DEF One!Expire
<1>2. Shapes' /\ NothingToFlush' /\ (Awaited => Awaited') /\ Current' = Current
  BY <1>1 DEF LinkInv, Shapes, NothingToFlush, Awaited, Current, RowShape, EditShape
<1>3. Current \in One!Key
  BY LinkConstants DEF LinkInv, Shapes, Current, One!Key, RowShape
<1>4. One!Stale(Current)' => One!Stale(Current) /\ k # Current
  BY <1>1, <1>2, <1>3 DEF LinkInv, Shapes, One!Stale, One!None, One!Answer, One!Resolves, One!Exists, One!Servable
<1> QED
  BY <1>1, <1>2, <1>4 DEF LinkInv, One!StaleOnlyByOverlap, Awaited, Current

LEMMA OpenKeeps ==
  ASSUME LinkInv, NEW e \in Editor, NEW op \in Used, NEW c \in Back, One!Open(e, op, c)
  PROVE  LinkInv'
<1> DEFINE d == [One!Closed EXCEPT !.pc = "write", !.op = op, !.seen = link, !.to = c]
<1>1. edit[e] = One!Closed /\ edit' = [edit EXCEPT ![e] = d] /\ UNCHANGED <<link, cache, unflushed>>
  BY DEF One!Open
<1>2. EditShape(d) /\ d.todo = {}
  <2> DEFINE o == CHOOSE o \in Used : TRUE
  <2>1. One!Closed = [pc |-> "idle", op |-> o, seen |-> One!Fresh, to |-> FirstBack,
                  todo |-> {}, value |-> One!None]
    BY DEF One!Closed
  <2> HIDE DEF o
  <2> QED
    BY <2>1 DEF EditShape
<1> HIDE DEF d
<1>3. edit'[e] = d /\ \A o \in Editor : o # e => edit'[o] = edit[o]
  BY <1>1 DEF LinkInv, Shapes
<1>4. Shapes' /\ NothingToFlush'
  BY <1>1, <1>2, <1>3 DEF LinkInv, Shapes, NothingToFlush, RowShape, EditShape
<1>5. Awaited => Awaited'
  BY <1>1, <1>3, ClosedShape DEF Awaited, Current
<1>6. One!Stale(Current)' => One!Stale(Current)
  BY <1>1 DEF One!Stale, Current, One!Answer, One!Resolves, One!Exists, One!Servable
<1> QED
  BY <1>1, <1>4, <1>5, <1>6 DEF LinkInv, One!StaleOnlyByOverlap, Awaited, Current

LEMMA FlushKeeps ==
  ASSUME LinkInv, NEW e \in Editor, One!Flush(e) \/ One!FlushLost(e)
  PROVE  LinkInv'
<1>0. EditShape(edit[e]) /\ Shapes
  BY DEF LinkInv, Shapes
<1>1. CASE One!Flush(e)
  <2> DEFINE D(k) == IF edit[e].todo = {k} THEN One!Closed
                     ELSE [edit[e] EXCEPT !.todo = edit[e].todo \ {k}]
  <2>1. PICK k \in edit[e].todo : One!Write(k, edit[e].value) /\ edit' = [edit EXCEPT ![e] = D(k)]
    BY <1>1 DEF One!Flush
  <2> DEFINE d == D(k)
  <2>2. edit' = [edit EXCEPT ![e] = d] /\ UNCHANGED link /\ edit[e].pc = "flush"
    BY <1>1, <2>1 DEF One!Flush
  <2>3. EditShape(d) /\ d.todo = edit[e].todo \ {k} /\ (d.pc # "flush" => d.todo = {})
    <3>1. CASE edit[e].todo = {k}
      BY <3>1, ClosedShape
    <3>2. CASE edit[e].todo # {k}
      BY <1>0, <2>2, <3>2 DEF EditShape
    <3> QED
      BY <3>1, <3>2
  <2> HIDE DEF d
  <2>4. edit'[e] = d /\ \A o \in Editor : o # e => edit'[o] = edit[o]
    BY <1>0, <2>2 DEF Shapes
  <2>5. /\ cache' = [j \in One!Key |-> cache'[j]]
        /\ k = Current /\ One!Stale(Current)' => (Current \in unflushed)'
        /\ k # Current /\ One!Stale(Current)' => One!Stale(Current)
        /\ k # Current /\ Current \in unflushed => (Current \in unflushed)'
    BY <1>0, <2>1, <2>2, WriteSettles
  <2>6. Shapes'
    BY <1>0, <2>2, <2>3, <2>4, <2>5 DEF Shapes, RowShape
  <2>7. NothingToFlush'
    BY <2>3, <2>4 DEF LinkInv, NothingToFlush
  <2>8. Current' = Current
    BY <2>2 DEF Current
  <2>9. k # Current /\ Awaited => Awaited'
    BY <2>3, <2>4, <2>8 DEF Awaited
  <2> QED
    BY <2>5, <2>6, <2>7, <2>8, <2>9 DEF LinkInv, One!StaleOnlyByOverlap, Awaited, Current
<1>2. CASE One!FlushLost(e)
  <2>1. /\ edit' = [edit EXCEPT ![e] = One!Closed] /\ UNCHANGED <<link, cache>>
        /\ unflushed' = unflushed \cup edit[e].todo
    BY <1>2 DEF One!FlushLost
  <2>2. edit'[e] = One!Closed /\ \A o \in Editor : o # e => edit'[o] = edit[o]
    BY <1>0, <2>1 DEF Shapes
  <2>3. Shapes'
    BY <1>0, <2>1, <2>2, ClosedShape DEF Shapes, RowShape
  <2>4. NothingToFlush'
    BY <2>2, ClosedShape DEF LinkInv, NothingToFlush
  <2>5. Current' = Current /\ (One!Stale(Current)' => One!Stale(Current))
    BY <2>1 DEF Current, One!Stale, One!Answer, One!Resolves, One!Exists, One!Servable
  <2>6. Awaited => Awaited' \/ Current \in unflushed'
    BY <2>1, <2>2, <2>5 DEF Awaited
  <2> QED
    BY <2>1, <2>3, <2>4, <2>5, <2>6 DEF LinkInv, One!StaleOnlyByOverlap, Awaited, Current
<1> QED
  BY <1>1, <1>2

LEMMA PurgeKeeps == LinkInv /\ One!Purge => LinkInv'
<1> SUFFICES ASSUME LinkInv, One!Purge PROVE LinkInv'
  OBVIOUS
<1>1. /\ link' = [link EXCEPT !.status = "gone"] /\ UNCHANGED <<cache, edit>>
      /\ unflushed' = unflushed \cup {Current}
  BY DEF One!Purge, Current
<1>2. Shapes' /\ NothingToFlush'
  BY <1>1 DEF LinkInv, Shapes, NothingToFlush, RowShape, EditShape
<1>3. Current' = Current
  BY <1>1 DEF LinkInv, Shapes, Current, RowShape
<1> QED
  BY <1>1, <1>2, <1>3 DEF LinkInv, One!StaleOnlyByOverlap, Current

-----------------------------------------------------------------------------
(***************************************************************************)
(* The theorem.                                                            *)
(***************************************************************************)
LEMMA LinkStep == LinkInv /\ [One!Next]_one => LinkInv'
<1> SUFFICES ASSUME LinkInv, [One!Next]_one PROVE LinkInv'
  OBVIOUS
<1>1. ASSUME NEW v \in Visitor, (\E k \in One!Key : One!Get(v, k)) \/ One!Visit(v) PROVE LinkInv'
  BY <1>1, VisitsKeep
<1>2. ASSUME NEW e \in Editor, \E op \in Used, c \in Back : One!Open(e, op, c) PROVE LinkInv'
  BY <1>2, OpenKeeps
<1>3. ASSUME NEW e \in Editor, One!WriteRow(e) PROVE LinkInv'
  BY <1>3, EditsKeep, RenameKeeps, TogglesKeep, ReviewsKeep DEF One!WriteRow
<1>4. ASSUME NEW e \in Editor, One!Flush(e) \/ One!FlushLost(e) PROVE LinkInv'
  BY <1>4, FlushKeeps
<1>5. ASSUME NEW k \in One!Key, One!Expire(k) PROVE LinkInv'
  BY <1>5, ExpireKeeps
<1>6. CASE One!Purge
  BY <1>6, PurgeKeeps
<1>7. CASE UNCHANGED one
  BY <1>7, QuietKeeps DEF one
<1> QED
  BY <1>1, <1>2, <1>3, <1>4, <1>5, <1>6, <1>7 DEF One!Next

\* On the default host and under the current code, a redirect is served that the
\* row does not ask for only while an editor that has written still has to flush
\* that entry, or after an overlap, a lost flush, an overtaking rename or the purge
\* of the account: however many visitors, editors and operations there are.
THEOREM StaleIsExplained == LinksSpec => []StaleOnlyByOverlap
<1>1. LinksInit => LinkInv
  BY LinkInit DEF LinksInit
<1>2. LinkInv /\ [LinksNext]_<<part, vars, safety, one>> => LinkInv'
  BY LinkStep DEF LinksNext
<1>3. LinkInv => StaleOnlyByOverlap
  BY DEF LinkInv, StaleOnlyByOverlap
<1> QED
  BY <1>1, <1>2, <1>3, PTL DEF LinksSpec
=============================================================================
