-------------------------- MODULE UsageLedgerProofs --------------------------
(***************************************************************************)
(* Proofs about UsageLedger, for any graph, any batch size, any set of     *)
(* links that cannot be written and any number of failures and crashes:    *)
(*   NothingLost   a settled row owes the graph nothing;                   *)
(*   NothingMade   no recall is counted twice;                             *)
(*   OneCharge     a superseded link is charged once, or its charge is     *)
(*                 known to be lost;                                       *)
(*   LedgerTyped   the state keeps its type and rows their ids.            *)
(* They share the invariant LedgerInv.  Its heart is PageOK: what the      *)
(* settlement holds of a row stays true of it while recalls and forget     *)
(* requests go on, because an id is never used again, only the settlement  *)
(* cleans a row, and a row is removed only after its entity has left the   *)
(* graph for good (ForgetOK), which is what BornOK is about.  ChargesOK    *)
(* ties the charge in memory to the row and to what was written.           *)
(***************************************************************************)
EXTENDS UsageLedger, TLAPS

Rows == [id : Nat, recalls : Nat, flushed : Nat, dirty : BOOLEAN, corrected : BOOLEAN]
PageRows == [entity : Entities, id : Nat, recalls : Nat]

\* The types of the graph and of the ledger.
Types ==
  /\ graph \subseteq Entities /\ superseded \subseteq graph /\ marked \subseteq superseded
  /\ superseded \subseteq Links /\ born \subseteq Links
  /\ shown \in [Links -> Nat]
  /\ row \in [Entities -> Rows] /\ nextId \in Nat \ {0}
  /\ held \subseteq Entities
  /\ used \in [Entities -> Nat]
  /\ charges \in [Links -> Nat] /\ saved \in [Links -> Nat] /\ lost \subseteq Links

\* What the settlement holds.
SettleTypes ==
  /\ settle = [pc |-> settle.pc, after |-> settle.after, next |-> settle.next,
               batch |-> settle.batch, page |-> settle.page, hits |-> settle.hits,
               cur |-> settle.cur]
  /\ settle.page \subseteq PageRows
  /\ settle.hits \subseteq Links

\* The ledger: ids name rows, and an absent row is empty.
RowsOK ==
  \A e \in Entities :
    /\ row[e].id < nextId /\ row[e].flushed <= row[e].recalls /\ row[e].recalls <= used[e]
    /\ ~HasRow(e) => row[e] = NoRow
    /\ \A f \in Entities : HasRow(e) /\ row[e].id = row[f].id => e = f

\* A link that was never formed has left no trace, and one that is formed
\* again would be another link.
BornOK ==
  /\ graph \cap Links \subseteq born /\ held \cap Links \subseteq born
  /\ settle.hits \subseteq born /\ (settle.pc = "settled" => settle.cur \in born)
  /\ \A l \in Links \ born : charges[l] = 0 /\ saved[l] = 0 /\ l \notin lost /\ ~HasRow(l)

\* What the graph shows.
ShownOK ==
  \A l \in Links : /\ shown[l] <= used[l]
                   /\ l \notin graph \/ ~HasRow(l) => shown[l] = 0

\* The page against the rows it was copied from.
PageOK ==
  \A r \in settle.page :
    /\ r.id # 0 /\ r.id < nextId /\ r.recalls <= used[r.entity]
    /\ r.entity \in Links => r.entity \in born
    /\ r.entity \in graph => row[r.entity].id = r.id
    /\ \A f \in Entities : row[f].id = r.id =>
         f = r.entity /\ r.recalls <= row[f].recalls /\ row[f].dirty
    /\ \A q \in settle.page : q.id = r.id => q = r

\* Between the write and the mark the graph shows what is about to be marked.
WrittenOK ==
  settle.pc = "mark" =>
    \A r \in settle.page : Turn(r) /\ r.entity \in Links \cap graph =>
                             shown[r.entity] = r.recalls

\* Rows are removed when their entities are gone from the graph.
ForgetOK ==
  /\ forget \in [pc : {"idle", "next", "delete", "rows"}, todo : SUBSET Entities,
                 target : Entities \cup {"none"}, cascade : SUBSET Entities]
  /\ forget.cascade \cap Links \subseteq born
  /\ forget.pc = "delete" =>
       forget.cascade \subseteq {forget.target}
         \cup {l \in Links : forget.target \in Concepts /\ Subject[l] = forget.target}
  /\ forget.pc = "rows" => forget.cascade \cap graph = {}

\* A row that is corrected stands for a charge, in memory at least, or for one
\* that is lost; what was written is a charge of before.
ChargesOK ==
  /\ \A l \in Links \cap graph :
       charges[l] = IF row[l].corrected /\ l \notin lost THEN 1 ELSE 0
  /\ \A l \in Links \cap graph : l \in lost => row[l].corrected
  /\ \A l \in Links \cap graph : saved[l] = 0 \/ saved[l] = charges[l]
  /\ \A l \in marked : row[l].corrected
  /\ settle.hits \cap graph \subseteq superseded
  /\ settle.pc = "settled" /\ settle.cur \in graph =>
       settle.cur \in superseded /\ row[settle.cur].corrected

LedgerInv ==
  /\ Types /\ SettleTypes /\ RowsOK /\ BornOK /\ ShownOK
  /\ PageOK /\ WrittenOK /\ ForgetOK /\ ChargesOK /\ NoUsageLost
-----------------------------------------------------------------------------
(* Steps of one actor                                                      *)

\* A step of the forget request alone.
LEMMA ForgetFrame ==
  ASSUME LedgerInv, ForgetOK', UNCHANGED <<graphVars, ledger, held, settle, history>>
  PROVE  LedgerInv'
BY DEF LedgerInv, graphVars, ledger, history, sources, Types, SettleTypes, RowsOK, BornOK,
   ShownOK, PageOK, WrittenOK, ChargesOK, NoUsageLost, HasRow, Turn

\* A step of the settlement alone, or a write of the metadata.
LEMMA SettleFrame ==
  ASSUME LedgerInv, SettleTypes', PageOK', WrittenOK', settle'.hits \subseteq born,
         settle'.hits \cap graph \subseteq superseded,
         settle'.pc = "settled" => settle' = settle,
         saved' \in {saved, charges},
         UNCHANGED <<graphVars, ledger, held, forget, used, charges, lost>>
  PROVE  LedgerInv'
BY DEF LedgerInv, graphVars, ledger, history, sources, Types, RowsOK, BornOK, ShownOK, ForgetOK,
   ChargesOK, NoUsageLost, HasRow

\* The settlement ends early, or starts anew: it holds nothing.
LEMMA SettleReset ==
  ASSUME LedgerInv, NEW p, p # "settled", settle' = [IdleSettle EXCEPT !.pc = p],
         saved' \in {saved, charges},
         UNCHANGED <<graphVars, ledger, held, forget, used, charges, lost>>
  PROVE  LedgerInv'
<1>1. settle'.page = {} /\ settle'.hits = {} /\ settle'.pc = p
  BY DEF IdleSettle
<1>2. SettleTypes' /\ PageOK' /\ WrittenOK'
  BY <1>1 DEF SettleTypes, IdleSettle, PageOK, WrittenOK
<1> QED
  BY <1>1, <1>2, SettleFrame

\* The metadata is written.
LEMMA FlushKeeps == LedgerInv /\ Flush => LedgerInv'
<1> SUFFICES ASSUME LedgerInv, Flush PROVE LedgerInv'
  OBVIOUS
<1>1. UNCHANGED <<graphVars, ledger, held, settle, forget, used, charges, lost>> /\ saved' = charges
  BY DEF Flush
<1>2. /\ SettleTypes' /\ PageOK' /\ WrittenOK'
      /\ settle'.hits \subseteq born /\ settle'.hits \cap graph \subseteq superseded
  BY <1>1 DEF LedgerInv, SettleTypes, PageOK, WrittenOK, Turn, BornOK, ChargesOK, graphVars, ledger
<1> QED
  BY <1>1, <1>2, SettleFrame

\* Every step of a forget request that leaves graph and rows alone.
LEMMA ForgetSteps ==
  ASSUME LedgerInv,
         \/ \E targets \in Requests : BeginForget(targets)
         \/ SkipTarget \/ Enumerate \/ TargetDone \/ EndForget \/ AbortForget
  PROVE  LedgerInv'
<1> USE UsageLedgerAssumption DEF LedgerInv, graphVars, ledger, history, sources
<1>1. ForgetOK'
  <2>1. ASSUME NEW targets \in Requests, BeginForget(targets) PROVE ForgetOK'
    BY <2>1 DEF BeginForget, IdleForget, ForgetOK, Entities
  <2>2. CASE SkipTarget
    BY <2>2 DEF SkipTarget, ForgetOK
  <2>3. CASE Enumerate
    <3>1. PICK t \in forget.todo \cap graph, found \in SUBSET (Links \cap graph) :
            /\ \A l \in found : t \in Concepts /\ Subject[l] = t
            /\ forget' = [pc |-> "delete", todo |-> forget.todo \ {t}, target |-> t,
                          cascade |-> {t} \cup found]
      BY <2>3 DEF Enumerate
    <3> QED
      BY <2>3, <3>1 DEF Enumerate, ForgetOK, Types, BornOK, Entities
  <2>4. CASE TargetDone
    BY <2>4 DEF TargetDone, ForgetOK
  <2>5. CASE EndForget \/ AbortForget
    BY <2>5 DEF EndForget, AbortForget, IdleForget, ForgetOK, Entities
  <2> QED
    BY <2>1, <2>2, <2>3, <2>4, <2>5
<1>2. UNCHANGED <<graphVars, ledger, held, settle, history>>
  BY DEF BeginForget, SkipTarget, Enumerate, TargetDone, EndForget, AbortForget, counters
<1> QED
  BY <1>1, <1>2, ForgetFrame

\* The rows read for a page are those of the ledger.
LEMMA ScanStep == LedgerInv /\ ScanPage => LedgerInv'
<1> SUFFICES ASSUME LedgerInv, ScanPage PROVE LedgerInv'
  OBVIOUS
<1> USE UsageLedgerAssumption DEF LedgerInv, graphVars, ledger, history, sources
<1> DEFINE read == {f \in Batch(settle.after) : row[f].recalls > row[f].flushed}
           copy == {[entity |-> e, id |-> row[e].id, recalls |-> row[e].recalls] : e \in read}
<1>1. /\ settle'.page = copy /\ settle'.hits = settle.hits /\ settle'.pc = "flush"
      /\ settle' = [pc |-> settle'.pc, after |-> settle'.after, next |-> settle'.next,
                    batch |-> settle'.batch, page |-> settle'.page, hits |-> settle'.hits,
                    cur |-> settle'.cur]
  BY DEF ScanPage, ReadPage, SettleTypes
<1>2. \A e \in read : /\ e \in Entities /\ row[e] \in Rows /\ row[e].dirty
                      /\ row[e].id > settle.after
                      /\ row[e].recalls > row[e].flushed
  BY DEF Batch, Types
<1>3. \A e \in read : HasRow(e)
  BY <1>2 DEF RowsOK, HasRow, NoRow
<1> HIDE DEF read
<1>4. SettleTypes'
  BY <1>1, <1>2 DEF SettleTypes, PageRows, Rows
<1>5. PageOK'
  <2> SUFFICES ASSUME NEW e \in read
               PROVE  /\ row[e].id # 0 /\ row[e].id < nextId /\ row[e].recalls <= used[e]
                      /\ e \in Links => e \in born
                      /\ \A f \in Entities : row[f].id = row[e].id => f = e
    BY <1>1, <1>2 DEF PageOK, ScanPage, Rows
  <2> QED
    BY <1>2, <1>3 DEF RowsOK, BornOK, HasRow
<1>6. WrittenOK' /\ UNCHANGED <<graphVars, ledger, held, forget, history>>
  BY <1>1 DEF WrittenOK, ScanPage
<1> QED
  BY <1>1, <1>4, <1>5, <1>6, SettleFrame DEF BornOK, ChargesOK

\* The settlement turns to the next page or to the corrections.
LEMMA PageDoneStep == LedgerInv /\ PageDone => LedgerInv'
<1> SUFFICES ASSUME LedgerInv, PageDone PROVE LedgerInv'
  OBVIOUS
<1> USE DEF LedgerInv, graphVars, ledger, history, sources
<1>1. CASE settle.next # 0 /\ settle.batch < MaxBatches
  <2>1. settle' = [settle EXCEPT !.pc = "scan", !.after = settle.next]
    BY <1>1 DEF PageDone
  <2>2. /\ SettleTypes' /\ settle'.pc = "scan"
        /\ settle'.page = settle.page /\ settle'.hits = settle.hits
    BY <2>1 DEF SettleTypes
  <2> QED
    BY <2>2, SettleFrame DEF PageDone, PageOK, WrittenOK, BornOK, ChargesOK
<1>2. CASE ~(settle.next # 0 /\ settle.batch < MaxBatches)
  <2>1. PICK hits \in SUBSET ((superseded \cap graph) \ marked) :
          settle' = [IdleSettle EXCEPT !.pc = "correct", !.hits = hits]
    BY <1>2 DEF PageDone
  <2>2. /\ SettleTypes' /\ settle'.pc = "correct"
        /\ settle'.page = {} /\ settle'.hits = hits
    BY <2>1 DEF SettleTypes, Types, IdleSettle, PageDone
  <2>3. settle'.hits \subseteq born
    BY <2>2 DEF Types, BornOK
  <2> QED
    BY <2>2, <2>3, SettleFrame DEF PageDone, PageOK, WrittenOK
<1> QED
  BY <1>1, <1>2

-----------------------------------------------------------------------------
(* The settlement writes                                                   *)

\* mark_flushed of a row that the settlement holds.
LEMMA Marked ==
  ASSUME LedgerInv, NEW r \in settle.page, MarkFlushed(r),
         r.entity \in Links \cap graph => shown[r.entity] = r.recalls,
         settle'.pc = "flush", settle'.page = settle.page \ {r},
         settle'.hits = settle.hits, SettleTypes',
         UNCHANGED <<graphVars, nextId, held, forget, history>>
  PROVE  LedgerInv'
<1> USE UsageLedgerAssumption DEF LedgerInv, graphVars, history, sources
<1>1. /\ row' \in [Entities -> Rows]
      /\ \A e \in Entities :
           /\ row'[e].id = row[e].id /\ row'[e].recalls = row[e].recalls
           /\ row'[e].corrected = row[e].corrected
           /\ row[e].id # r.id => row'[e] = row[e]
           /\ row[e].id = r.id => /\ row'[e].flushed = r.recalls
                                  /\ row'[e].dirty = (row[e].recalls > r.recalls)
  <2> DEFINE new(e) == IF row[e].id = r.id
                         THEN [row[e] EXCEPT !.flushed = r.recalls, !.dirty = row[e].recalls > r.recalls]
                         ELSE row[e]
  <2>1. row' = [e \in Entities |-> new(e)]
    BY DEF MarkFlushed
  <2>2. ASSUME NEW e \in Entities
        PROVE  /\ new(e) \in Rows
               /\ new(e).id = row[e].id /\ new(e).recalls = row[e].recalls
               /\ new(e).corrected = row[e].corrected
               /\ row[e].id # r.id => new(e) = row[e]
               /\ row[e].id = r.id => /\ new(e).flushed = r.recalls
                                       /\ new(e).dirty = (row[e].recalls > r.recalls)
    <3>1. row[e] \in Rows /\ r.recalls \in Nat /\ (row[e].recalls > r.recalls) \in BOOLEAN
      BY DEF Types, SettleTypes, PageRows
    <3> QED
      BY <3>1 DEF Rows
  <2> HIDE DEF new
  <2> QED
    BY <2>1, <2>2
<1>2. /\ r.id # 0 /\ r.recalls \in Nat
      /\ \A e \in Entities : row[e].id = r.id =>
           e = r.entity /\ r.recalls <= row[e].recalls /\ row[e].dirty
      /\ \A q \in settle'.page : q \in settle.page /\ q.id # r.id
  BY DEF PageOK, SettleTypes, PageRows
<1>3. Types'
  BY <1>1 DEF Types
<1>4. RowsOK'
  BY <1>1, <1>2 DEF RowsOK, HasRow, Types, Rows, NoRow
<1>5. BornOK' /\ ShownOK' /\ WrittenOK' /\ ForgetOK'
  BY <1>1 DEF BornOK, ShownOK, HasRow, WrittenOK, ForgetOK, Types, Entities
<1>6. PageOK'
  BY <1>1, <1>2 DEF PageOK, Types, SettleTypes, PageRows
<1>7. ChargesOK'
  BY <1>1 DEF ChargesOK, Types, Entities
<1>8. NoUsageLost'
  <2> SUFFICES ASSUME NEW e \in Entities, HasRow(e)', ~row'[e].dirty
               PROVE  /\ row'[e].flushed = row'[e].recalls
                      /\ e \in Links \cap graph => shown[e] = row'[e].recalls
    BY DEF NoUsageLost
  <2>1. CASE row[e].id = r.id
    <3>1. row[e].recalls \in Nat /\ ~(row[e].recalls > r.recalls) /\ r.recalls <= row[e].recalls
      BY <1>1, <1>2, <2>1 DEF Types, Rows
    <3>2. row[e].recalls = r.recalls
      BY <3>1, <1>2
    <3> QED
      BY <3>2, <2>1, <1>1, <1>2
  <2>2. CASE row[e].id # r.id
    BY <2>2, <1>1 DEF NoUsageLost, HasRow
  <2> QED
    BY <2>1, <2>2
<1> QED
  BY <1>3, <1>4, <1>5, <1>6, <1>7, <1>8

\* A row of the page is marked, behind a link's write or for a concept at once.
LEMMA FlushStep == LedgerInv /\ (FlushConcept \/ MarkLink) => LedgerInv'
<1> SUFFICES ASSUME LedgerInv, FlushConcept \/ MarkLink PROVE LedgerInv'
  OBVIOUS
<1> USE UsageLedgerAssumption DEF LedgerInv, At
<1>1. CASE FlushConcept
  <2>1. PICK r \in settle.page :
          r.entity \in Concepts /\ MarkFlushed(r) /\ settle' = [settle EXCEPT !.page = @ \ {r}]
    BY <1>1 DEF FlushConcept
  <2>2. /\ settle'.pc = "flush" /\ settle'.page = settle.page \ {r}
        /\ settle'.hits = settle.hits /\ SettleTypes'
    BY <1>1, <2>1 DEF FlushConcept, SettleTypes
  <2> QED
    BY <1>1, <2>1, <2>2, Marked DEF FlushConcept
<1>2. CASE MarkLink
  <2>1. PICK r \in settle.page :
          /\ Turn(r) /\ MarkFlushed(r)
          /\ settle' = [settle EXCEPT !.page = @ \ {r}, !.pc = "flush"]
    BY <1>2 DEF MarkLink
  <2>2. /\ settle'.pc = "flush" /\ settle'.page = settle.page \ {r}
        /\ settle'.hits = settle.hits /\ SettleTypes'
    BY <2>1 DEF SettleTypes
  <2>3. r.entity \in Links \cap graph => shown[r.entity] = r.recalls
    BY <1>2, <2>1 DEF MarkLink, WrittenOK
  <2> QED
    BY <1>2, <2>1, <2>2, <2>3, Marked DEF MarkLink
<1> QED
  BY <1>1, <1>2

\* A write of a link's total, whether it is known to have succeeded or not.
LEMMA Wrote ==
  ASSUME LedgerInv, settle.pc = "flush", NEW r \in settle.page, Turn(r),
         r.entity \in Links, SettleTypes',
         \/ shown' = shown
         \/ r.entity \in graph /\ shown' = [shown EXCEPT ![r.entity] = r.recalls],
         settle'.hits = settle.hits,
         \/ settle'.pc = "flush" /\ settle'.page = settle.page \ {r}
         \/ /\ settle'.pc = "mark" /\ settle'.page = settle.page
            /\ r.entity \in graph => shown'[r.entity] = r.recalls,
         UNCHANGED <<graph, superseded, marked, born, ledger, held, forget, history>>
  PROVE  LedgerInv'
<1> USE UsageLedgerAssumption DEF LedgerInv, ledger, history, sources
<1>1. /\ shown' \in [Links -> Nat]
      /\ \A l \in Links : l # r.entity => shown'[l] = shown[l]
      /\ r.entity \notin graph => shown'[r.entity] = shown[r.entity]
      /\ shown'[r.entity] \in {shown[r.entity], r.recalls}
  BY DEF Types, SettleTypes, PageRows
<1>2. /\ r.recalls <= used[r.entity]
      /\ r.entity \in graph => row[r.entity].id = r.id /\ HasRow(r.entity) /\ row[r.entity].dirty
  BY DEF PageOK, HasRow, Entities
<1>3. Types' /\ RowsOK' /\ BornOK' /\ ForgetOK' /\ ChargesOK'
  BY <1>1 DEF Types, RowsOK, BornOK, ForgetOK, ChargesOK, HasRow
<1>4. ShownOK'
  BY <1>1, <1>2 DEF ShownOK, HasRow
<1>5. PageOK'
  BY DEF PageOK
<1>6. WrittenOK'
  BY DEF WrittenOK, Turn, PageOK, SettleTypes, PageRows
<1>7. NoUsageLost'
  BY <1>1, <1>2 DEF NoUsageLost, HasRow
<1> QED
  BY <1>3, <1>4, <1>5, <1>6, <1>7

\* The graph commands of the flush.
LEMMA WriteStep == LedgerInv /\ (WriteLink \/ WriteLinkFails) => LedgerInv'
<1> SUFFICES ASSUME LedgerInv, WriteLink \/ WriteLinkFails PROVE LedgerInv'
  OBVIOUS
<1> USE DEF LedgerInv, At, Goto
<1>1. CASE WriteLink
  <2>1. PICK r \in settle.page :
          /\ Turn(r) /\ r.entity \in (Links \ Broken)
          /\ shown' = IF r.entity \in graph THEN [shown EXCEPT ![r.entity] = r.recalls]
                                            ELSE shown
    BY <1>1 DEF WriteLink
  <2>2. /\ settle'.pc = "mark" /\ settle'.page = settle.page
        /\ settle'.hits = settle.hits /\ SettleTypes'
    BY <1>1 DEF WriteLink, SettleTypes
  <2>3. r.entity \in graph => shown'[r.entity] = r.recalls
    BY <2>1 DEF Types
  <2> QED
    BY <1>1, <2>1, <2>2, <2>3, Wrote DEF WriteLink
<1>2. CASE WriteLinkFails
  <2>1. PICK r \in settle.page :
          /\ Turn(r) /\ r.entity \in Links
          /\ \/ shown' = shown
             \/ r.entity \in graph /\ shown' = [shown EXCEPT ![r.entity] = r.recalls]
          /\ settle' = [settle EXCEPT !.page = @ \ {r}]
    BY <1>2 DEF WriteLinkFails
  <2>2. /\ settle'.pc = "flush" /\ settle'.page = settle.page \ {r}
        /\ settle'.hits = settle.hits /\ SettleTypes'
    BY <1>2, <2>1 DEF WriteLinkFails, SettleTypes
  <2> QED
    BY <1>2, <2>1, <2>2, Wrote DEF WriteLinkFails
<1> QED
  BY <1>1, <1>2

-----------------------------------------------------------------------------
(* The rows change                                                         *)

\* record_recall, record_self_test and record_correction: a row may be new,
\* its counts may grow if it is left dirty, and it may be corrected.
LEMMA Recorded ==
  ASSUME LedgerInv, NEW e \in Entities, NEW new \in Rows,
         e \in Links => e \in born,
         row' = [row EXCEPT ![e] = new], new.id = NewId(e), TakeId(e),
         new.recalls >= row[e].recalls, new.flushed = row[e].flushed,
         \/ new.dirty
         \/ new.dirty = row[e].dirty /\ new.recalls = row[e].recalls,
         used' \in [Entities -> Nat], new.recalls <= used'[e],
         \A f \in Entities : used[f] <= used'[f]
  PROVE  /\ RowsOK' /\ row' \in [Entities -> Rows] /\ nextId' \in Nat \ {0}
         /\ new.id # 0
         /\ \A f \in Entities \ {e} : row'[f] = row[f]
         /\ row'[e] = new
         /\ UNCHANGED graphVars => NoUsageLost' /\ ShownOK'
         /\ settle'.page = settle.page /\ UNCHANGED <<graph, born>> => PageOK'
<1> USE DEF LedgerInv, Types
<1>1. /\ row' \in [Entities -> Rows] /\ row'[e] = new
      /\ \A f \in Entities \ {e} : row'[f] = row[f]
  OBVIOUS
<1>2. /\ nextId' \in Nat \ {0} /\ nextId <= nextId' /\ new.id # 0 /\ new.id < nextId'
      /\ HasRow(e) => new.id = row[e].id
      /\ ~HasRow(e) => new.id = nextId
  BY DEF NewId, TakeId, HasRow, RowsOK, Rows
<1>3. RowsOK'
  <2>1. \A f \in Entities : row'[f].id < nextId' /\ row'[f].flushed <= row'[f].recalls
                            /\ row'[f].recalls <= used'[f]
    BY <1>1, <1>2 DEF RowsOK, Rows
  <2>2. \A f \in Entities : row'[f].id = 0 => row'[f] = NoRow
    BY <1>1, <1>2 DEF RowsOK, HasRow
  <2>3. \A f, g \in Entities : row'[f].id # 0 /\ row'[f].id = row'[g].id => f = g
    BY <1>1, <1>2 DEF RowsOK, HasRow, Rows
  <2> QED
    BY <2>1, <2>2, <2>3 DEF RowsOK, HasRow
<1>4. ASSUME UNCHANGED graphVars PROVE NoUsageLost' /\ ShownOK'
  <2>1. \A f \in Entities : (row'[f].id # 0 /\ ~row'[f].dirty) =>
                               /\ row'[f].flushed = row'[f].recalls
                               /\ f \in Links \cap graph => shown[f] = row'[f].recalls
    <3> SUFFICES ASSUME ~row'[e].dirty
                 PROVE  /\ new.flushed = new.recalls
                        /\ e \in Links \cap graph => shown[e] = new.recalls
      BY <1>1 DEF NoUsageLost, HasRow
    <3>1. CASE HasRow(e)
      BY <3>1, <1>1 DEF NoUsageLost
    <3>2. CASE ~HasRow(e)
      BY <3>2, <1>1 DEF RowsOK, NoRow, ShownOK
    <3> QED
      BY <3>1, <3>2
  <2>2. ShownOK'
    <3> SUFFICES ASSUME NEW l \in Links
                 PROVE  shown[l] <= used'[l] /\ (l \notin graph \/ row'[l].id = 0 => shown[l] = 0)
      BY <1>4 DEF ShownOK, HasRow, graphVars
    <3> QED
      BY <1>1, <1>2 DEF ShownOK, HasRow, Entities
  <2> QED
    BY <1>4, <2>1, <2>2 DEF NoUsageLost, HasRow, graphVars
<1>5. ASSUME settle'.page = settle.page, UNCHANGED <<graph, born>> PROVE PageOK'
  <2> SUFFICES ASSUME NEW r \in settle.page
               PROVE  /\ r.id < nextId' /\ r.recalls <= used'[r.entity]
                      /\ r.entity \in graph => row'[r.entity].id = r.id
                      /\ \A f \in Entities : row'[f].id = r.id =>
                           f = r.entity /\ r.recalls <= row'[f].recalls /\ row'[f].dirty
    BY <1>5 DEF PageOK
  <2>1. /\ r \in PageRows /\ r.id # 0 /\ r.id < nextId /\ r.recalls <= used[r.entity]
        /\ r.entity \in graph => row[r.entity].id = r.id
        /\ \A f \in Entities : row[f].id = r.id =>
             f = r.entity /\ r.recalls <= row[f].recalls /\ row[f].dirty
    BY DEF PageOK, SettleTypes
  <2>2. r.id < nextId' /\ r.recalls <= used'[r.entity]
    <3>1. /\ r.id \in Nat /\ r.recalls \in Nat /\ r.entity \in Entities
          /\ used[r.entity] \in Nat /\ used'[r.entity] \in Nat
          /\ used[r.entity] <= used'[r.entity]
      BY <2>1 DEF PageRows
    <3> QED
      BY <3>1, <2>1, <1>2
  <2>3. r.entity \in graph => row'[r.entity].id = r.id
    BY <2>1, <1>1, <1>2 DEF HasRow, PageRows
  <2>4. ASSUME NEW f \in Entities, row'[f].id = r.id
        PROVE  f = r.entity /\ r.recalls <= row'[f].recalls /\ row'[f].dirty
    <3>1. CASE f = e /\ HasRow(e)
      BY <3>1, <2>4, <2>1, <1>1, <1>2 DEF PageRows, Rows
    <3>2. CASE f = e /\ ~HasRow(e)
      BY <3>2, <2>4, <2>1, <1>1, <1>2 DEF PageRows, Rows
    <3>3. CASE f # e
      BY <3>3, <2>4, <2>1, <1>1
    <3> QED
      BY <3>1, <3>2, <3>3
  <2> QED
    BY <2>2, <2>3, <2>4
<1> QED
  BY <1>1, <1>2, <1>3, <1>4, <1>5

\* A recall or a self-test has completed.
LEMMA RecordStep ==
  ASSUME LedgerInv,
         \/ \E e \in Entities : RecordRecall(e)
         \/ \E l \in Links : RecordSelfTest(l)
  PROVE  LedgerInv'
<1> USE DEF LedgerInv, graphVars, ledger, counters
<1>1. ASSUME NEW e \in Entities, RecordRecall(e) PROVE LedgerInv'
  <2> DEFINE count == row[e].recalls + 1
             new == [row[e] EXCEPT !.id = NewId(e), !.recalls = count, !.dirty = TRUE]
  <2>1. /\ row[e] \in Rows /\ NewId(e) \in Nat /\ row[e].recalls <= used[e]
        /\ row[e].recalls \in Nat /\ count \in Nat
    BY DEF Types, NewId, Rows, RowsOK
  <2>2. /\ new \in Rows /\ new.id = NewId(e) /\ new.recalls = count
        /\ new.flushed = row[e].flushed /\ new.dirty /\ new.corrected = row[e].corrected
    <3> HIDE DEF count
    <3> QED
      BY <2>1 DEF Rows
  <2>3. row' = [row EXCEPT ![e] = new] /\ TakeId(e) /\ (e \in Links => e \in born)
    BY <1>1 DEF RecordRecall, BornOK, Types
  <2>4. /\ used' \in [Entities -> Nat] /\ new.recalls <= used'[e]
        /\ \A f \in Entities : used[f] <= used'[f]
    <3>1. /\ used' \in [Entities -> Nat] /\ used'[e] = used[e] + 1
          /\ \A f \in Entities \ {e} : used'[f] = used[f]
      <4>1. used' = [used EXCEPT ![e] = @ + 1]
        BY <1>1 DEF RecordRecall
      <4>2. used \in [Entities -> Nat]
        BY DEF Types
      <4> HIDE DEF LedgerInv
      <4> QED
        BY <4>1, <4>2
    <3>2. row[e].recalls \in Nat /\ \A f \in Entities : used[f] \in Nat
      BY <2>1 DEF Rows, Types
    <3> QED
      BY <2>1, <2>2, <3>1, <3>2
  <2> HIDE DEF new
  <2>5. /\ RowsOK' /\ row' \in [Entities -> Rows] /\ nextId' \in Nat \ {0}
        /\ \A f \in Entities \ {e} : row'[f] = row[f]
        /\ row'[e] = new /\ NoUsageLost' /\ ShownOK' /\ PageOK'
    <3>1. new.recalls >= row[e].recalls
      BY <2>1, <2>2 DEF Rows
    <3> QED
      BY <1>1, <2>2, <2>3, <2>4, <3>1, Recorded DEF RecordRecall
  <2>6. Types' /\ SettleTypes' /\ WrittenOK' /\ ForgetOK'
    BY <1>1, <2>4, <2>5 DEF RecordRecall, sources, Types, SettleTypes, WrittenOK, Turn, ForgetOK
  <2>7. BornOK' /\ ChargesOK'
    <3>1. BornOK'
      <4>1. /\ UNCHANGED <<graph, born, settle, charges, saved, lost>> /\ held' \subseteq held
            /\ \A l \in Links \ born : row'[l] = row[l]
        BY <1>1, <2>3, <2>5 DEF RecordRecall, sources, Entities
      <4> QED
        BY <4>1 DEF BornOK, HasRow
    <3>2. ChargesOK'
      BY <1>1, <2>2, <2>3, <2>5 DEF RecordRecall, sources, ChargesOK, Entities, Types
    <3> QED
      BY <3>1, <3>2
  <2> QED
    BY <2>5, <2>6, <2>7
<1>2. ASSUME NEW l \in Links, RecordSelfTest(l) PROVE LedgerInv'
  <2> DEFINE new == [row[l] EXCEPT !.id = NewId(l)]
  <2>1. /\ l \in Entities /\ row[l] \in Rows /\ NewId(l) \in Nat /\ row[l].recalls <= used[l]
    BY DEF Types, NewId, Rows, RowsOK, Entities
  <2>2. /\ new \in Rows /\ new.id = NewId(l) /\ new.recalls = row[l].recalls
        /\ new.flushed = row[l].flushed /\ new.dirty = row[l].dirty
        /\ new.corrected = row[l].corrected
    BY <2>1 DEF Rows
  <2>3. row' = [row EXCEPT ![l] = new] /\ TakeId(l) /\ l \in born
    BY <1>2, <2>1 DEF RecordSelfTest, BornOK, Types
  <2>4. used' = used /\ used' \in [Entities -> Nat] /\ new.recalls <= used'[l]
    BY <1>2, <2>1, <2>2 DEF RecordSelfTest, Types, history, sources
  <2> HIDE DEF new
  <2>5. /\ RowsOK' /\ row' \in [Entities -> Rows] /\ nextId' \in Nat \ {0}
        /\ \A f \in Entities \ {l} : row'[f] = row[f]
        /\ row'[l] = new /\ NoUsageLost' /\ ShownOK' /\ PageOK'
    <3>1. new.recalls >= row[l].recalls /\ \A f \in Entities : used[f] <= used'[f]
      BY <2>1, <2>2, <2>4 DEF Rows
    <3> QED
      BY <1>2, <2>1, <2>2, <2>3, <2>4, <3>1, Recorded DEF RecordSelfTest
  <2>6. Types' /\ SettleTypes' /\ WrittenOK' /\ ForgetOK'
    BY <1>2, <2>4, <2>5 DEF RecordSelfTest, Types, SettleTypes, WrittenOK, Turn, ForgetOK, history, sources
  <2>7. BornOK' /\ ChargesOK'
    BY <1>2, <2>1, <2>2, <2>3, <2>5 DEF RecordSelfTest, BornOK, ChargesOK, HasRow, Types, history, sources
  <2> QED
    BY <2>5, <2>6, <2>7
<1> QED
  BY <1>1, <1>2

\* record_correction and the charge of the source.
LEMMA CorrectionStep == LedgerInv /\ (RecordCorrection \/ RecordCorrectionCut) => LedgerInv'
<1> SUFFICES ASSUME LedgerInv, RecordCorrection \/ RecordCorrectionCut PROVE LedgerInv'
  OBVIOUS
<1> USE DEF LedgerInv, graphVars
<1>0. UNCHANGED <<graphVars, held, forget, used, saved>>
  BY DEF RecordCorrection, RecordCorrectionCut
<1>1. PICK l \in settle.hits :
        /\ row' = [row EXCEPT ![l].id = NewId(l), ![l].corrected = TRUE]
        /\ TakeId(l)
        /\ \/ /\ charges' = IF row[l].corrected THEN charges ELSE [charges EXCEPT ![l] = @ + 1]
              /\ settle' = [settle EXCEPT !.pc = "settled", !.hits = @ \ {l}, !.cur = l]
              /\ lost' = lost
           \/ /\ ~row[l].corrected /\ charges' = charges /\ lost' = lost \cup {l}
              /\ settle' = [IdleSettle EXCEPT !.pc = "cycle"]
  <2>1. CASE RecordCorrection
    BY <2>1 DEF RecordCorrection
  <2>2. CASE RecordCorrectionCut
    BY <2>2 DEF RecordCorrectionCut
  <2> QED
    BY <2>1, <2>2
<1> DEFINE new == [row[l] EXCEPT !.id = NewId(l), !.corrected = TRUE]
<1>2. /\ l \in Links /\ l \in Entities /\ l \in born /\ row[l] \in Rows /\ NewId(l) \in Nat
      /\ row[l].recalls <= used[l]
  BY DEF Types, SettleTypes, NewId, Rows, RowsOK, Entities, BornOK
<1>3. /\ new \in Rows /\ new.id = NewId(l) /\ new.recalls = row[l].recalls
      /\ new.flushed = row[l].flushed /\ new.dirty = row[l].dirty /\ new.corrected
  BY <1>2 DEF Rows
<1>4. row' = [row EXCEPT ![l] = new]
  BY <1>1, <1>2 DEF Types
<1>5. /\ SettleTypes' /\ settle'.page \in {settle.page, {}} /\ settle'.hits \subseteq settle.hits
      /\ settle'.pc # "mark" /\ (settle'.pc = "settled" => settle'.cur = l)
  <2>1. CASE settle' = [IdleSettle EXCEPT !.pc = "cycle"]
    BY <2>1 DEF SettleTypes, IdleSettle
  <2>2. CASE settle' = [settle EXCEPT !.pc = "settled", !.hits = @ \ {l}, !.cur = l]
    <3>1. settle' = [pc |-> "settled", after |-> settle.after, next |-> settle.next,
                     batch |-> settle.batch, page |-> settle.page, hits |-> settle.hits \ {l},
                     cur |-> l]
      BY <2>2 DEF SettleTypes
    <3> QED
      BY <3>1 DEF SettleTypes
  <2> QED
    BY <1>1, <2>1, <2>2
<1> HIDE DEF new
<1>6. /\ RowsOK' /\ row' \in [Entities -> Rows] /\ nextId' \in Nat \ {0}
      /\ new.id # 0 /\ \A f \in Entities \ {l} : row'[f] = row[f]
      /\ row'[l] = new /\ NoUsageLost' /\ ShownOK' /\ PageOK'
  <2>1. /\ used' = used /\ used' \in [Entities -> Nat] /\ new.recalls <= used'[l]
        /\ \A f \in Entities : used[f] <= used'[f]
        /\ new.recalls >= row[l].recalls
    BY <1>0, <1>2, <1>3 DEF Types, Rows
  <2>2. /\ RowsOK' /\ row' \in [Entities -> Rows] /\ nextId' \in Nat \ {0}
        /\ new.id # 0 /\ \A f \in Entities \ {l} : row'[f] = row[f]
        /\ row'[l] = new /\ NoUsageLost' /\ ShownOK'
        /\ settle'.page = settle.page => PageOK'
    BY <1>0, <1>1, <1>2, <1>3, <1>4, <2>1, Recorded
  <2>3. settle'.page = {} => PageOK'
    BY DEF PageOK
  <2> QED
    BY <1>5, <2>2, <2>3
<1>7. /\ charges' \in [Links -> Nat] /\ lost' \subseteq lost \cup {l} /\ lost \subseteq lost'
      /\ \A k \in Links \ {l} : charges'[k] = charges[k]
      /\ l \in graph => /\ charges'[l] = IF l \notin lost' THEN 1 ELSE 0
                        /\ saved[l] = 0 \/ saved[l] = charges'[l]
  <2>1. /\ charges \in [Links -> Nat]
        /\ l \in graph => /\ charges[l] = IF row[l].corrected /\ l \notin lost THEN 1 ELSE 0
                          /\ l \in lost => row[l].corrected
                          /\ saved[l] = 0 \/ saved[l] = charges[l]
    BY <1>2 DEF Types, ChargesOK
  <2> QED
    BY <1>1, <1>2, <2>1
<1>8. Types' /\ WrittenOK' /\ ForgetOK'
  BY <1>0, <1>2, <1>5, <1>6, <1>7 DEF Types, WrittenOK, ForgetOK
<1>9. BornOK'
  BY <1>0, <1>2, <1>5, <1>6, <1>7 DEF BornOK, HasRow, Entities
<1>10. ChargesOK'
  <2>1. \A k \in Links \cap graph :
          IF k = l THEN row'[k].corrected
                   ELSE row'[k] = row[k] /\ charges'[k] = charges[k] /\ (k \in lost' <=> k \in lost)
    BY <1>2, <1>3, <1>6, <1>7 DEF Entities
  <2> QED
    BY <1>0, <1>2, <1>5, <1>7, <2>1 DEF ChargesOK, Types
<1> QED
  BY <1>5, <1>6, <1>8, <1>9, <1>10

\* forget_entity: the entity has left the graph before.
LEMMA ForgetRowStep == LedgerInv /\ ForgetRow => LedgerInv'
<1> SUFFICES ASSUME LedgerInv, ForgetRow PROVE LedgerInv'
  OBVIOUS
<1> USE DEF LedgerInv
<1>1. PICK e \in forget.cascade :
        /\ row' = [row EXCEPT ![e] = NoRow] \/ row' = row
        /\ forget' = [forget EXCEPT !.cascade = @ \ {e}]
  BY DEF ForgetRow
<1>2. /\ e \in Entities /\ e \notin graph /\ (e \in Links => e \in born)
      /\ forget' \in [pc : {"idle", "next", "delete", "rows"}, todo : SUBSET Entities,
                      target : Entities \cup {"none"}, cascade : SUBSET Entities]
      /\ forget.pc = "rows" /\ forget'.pc = "rows"
      /\ forget'.cascade \subseteq forget.cascade
  BY <1>1 DEF ForgetRow, ForgetOK
<1>3. UNCHANGED <<graphVars, nextId, held, settle, used, sources>>
  BY DEF ForgetRow
<1>4. /\ row' \in [Entities -> Rows]
      /\ \A f \in Entities : row'[f] = row[f] \/ (f = e /\ row'[f] = NoRow)
  <2>1. NoRow \in Rows
    BY DEF NoRow, Rows
  <2> QED
    BY <1>1, <1>2, <2>1 DEF Types
<1> USE <1>3 DEF graphVars, sources
<1>5. Types' /\ SettleTypes' /\ WrittenOK'
  BY <1>4 DEF Types, SettleTypes, WrittenOK, Turn
<1>6. RowsOK'
  BY <1>2, <1>4 DEF RowsOK, HasRow, NoRow, Types
<1>7. BornOK' /\ ShownOK' /\ NoUsageLost'
  BY <1>2, <1>4 DEF BornOK, ShownOK, NoUsageLost, HasRow, NoRow, Entities
<1>8. PageOK'
  BY <1>2, <1>4 DEF PageOK, NoRow, SettleTypes, PageRows
<1>9. ForgetOK'
  BY <1>2 DEF ForgetOK
<1>10. ChargesOK'
  BY <1>2, <1>4 DEF ChargesOK, Entities, Types
<1> QED
  BY <1>5, <1>6, <1>7, <1>8, <1>9, <1>10

-----------------------------------------------------------------------------
(* The graph changes                                                       *)

\* A new link is named like no other before.
LEMMA FormStep == ASSUME LedgerInv, NEW l \in Links, Form(l) PROVE LedgerInv'
<1> USE UsageLedgerAssumption DEF LedgerInv, ledger, history, sources
<1>1. /\ l \notin born /\ graph' = graph \cup {l} /\ born' = born \cup {l}
      /\ UNCHANGED <<shown, superseded, marked, ledger, held, settle, forget, history>>
      /\ row[l] = NoRow /\ ~HasRow(l) /\ charges[l] = 0 /\ saved[l] = 0 /\ l \notin lost
  BY DEF Form, BornOK, RowsOK, Entities
<1>2. Types' /\ SettleTypes' /\ RowsOK' /\ BornOK' /\ ShownOK' /\ WrittenOK' /\ NoUsageLost'
  BY <1>1 DEF Types, SettleTypes, RowsOK, BornOK, ShownOK, WrittenOK, NoUsageLost, HasRow,
     Turn, Entities, PageOK, SettleTypes, PageRows
<1>3. PageOK' /\ ForgetOK'
  BY <1>1 DEF PageOK, ForgetOK
<1>4. ChargesOK'
  <2>1. row[l].corrected = FALSE
    BY <1>1 DEF NoRow
  <2>2. l \notin settle.hits /\ (settle.pc = "settled" => settle.cur # l)
    BY <1>1 DEF BornOK
  <2> QED
    BY <1>1, <2>1, <2>2 DEF ChargesOK
<1> QED
  BY <1>2, <1>3, <1>4

\* metadata.superseded and metadata.correction_settled.
LEMMA MarkStep == LedgerInv /\ ((\E l \in Links : Supersede(l)) \/ SettleCorrection) => LedgerInv'
<1> SUFFICES ASSUME LedgerInv, (\E l \in Links : Supersede(l)) \/ SettleCorrection
             PROVE  LedgerInv'
  OBVIOUS
<1> USE DEF LedgerInv, ledger, history, sources
<1>1. CASE \E l \in Links : Supersede(l)
  BY <1>1 DEF Supersede, Types, SettleTypes, RowsOK, BornOK, ShownOK, PageOK, WrittenOK,
     ForgetOK, ChargesOK, NoUsageLost, HasRow, Turn
<1>2. CASE SettleCorrection
  <2>1. /\ marked' \subseteq marked \cup (graph \cap {settle.cur}) /\ marked \subseteq marked'
        /\ settle.pc = "settled" /\ settle' = [settle EXCEPT !.pc = "correct", !.cur = "none"]
        /\ UNCHANGED <<graph, shown, superseded, born, ledger, held, forget, history>>
    BY <1>2 DEF SettleCorrection, At, Goto
  <2>2. /\ SettleTypes' /\ settle'.pc = "correct"
        /\ settle'.page = settle.page /\ settle'.hits = settle.hits
    BY <2>1 DEF SettleTypes
  <2>3. Types'
    BY <2>1 DEF Types, ChargesOK
  <2>4. RowsOK' /\ ShownOK' /\ ForgetOK' /\ NoUsageLost'
    BY <2>1 DEF RowsOK, ShownOK, ForgetOK, NoUsageLost, HasRow
  <2>5. BornOK' /\ PageOK' /\ WrittenOK'
    BY <2>1, <2>2 DEF BornOK, PageOK, WrittenOK, HasRow
  <2>6. ChargesOK'
    BY <2>1, <2>2 DEF ChargesOK, Types
  <2> QED
    BY <2>2, <2>3, <2>4, <2>5, <2>6
<1> QED
  BY <1>1, <1>2

\* A deletion, whether its outcome is known or not.
LEMMA DeleteStep == LedgerInv /\ (Delete \/ DeleteFails) => LedgerInv'
<1> SUFFICES ASSUME LedgerInv, Delete \/ DeleteFails PROVE LedgerInv'
  OBVIOUS
<1> USE UsageLedgerAssumption DEF LedgerInv, ledger, history, sources
<1>1. CASE UNCHANGED graphVars /\ DeleteFails
  <2>1. ForgetOK'
    BY <1>1 DEF DeleteFails, ForgetOK, graphVars
  <2> QED
    BY <1>1, <2>1, ForgetFrame DEF DeleteFails
<1>2. CASE RemoveFromGraph(forget.target)
  <2> DEFINE gone == {forget.target}
                \cup {l \in Links : forget.target \in Concepts /\ Subject[l] = forget.target}
  <2>1. /\ graph' = graph \ gone /\ superseded' = superseded \ gone /\ marked' = marked \ gone
        /\ shown' = [l \in Links |-> IF l \in gone THEN 0 ELSE shown[l]]
        /\ UNCHANGED <<born, ledger, held, settle, history>>
        /\ forget.pc = "delete"
    BY <1>2 DEF RemoveFromGraph, Delete, DeleteFails
  <2>2. forget.cascade \subseteq gone
    BY <2>1 DEF ForgetOK
  <2>3. ForgetOK'
    BY <2>1, <2>2 DEF ForgetOK, Delete, DeleteFails
  <2> HIDE DEF gone
  <2>4. /\ shown' \in [Links -> Nat]
        /\ \A l \in Links : shown'[l] = 0 \/ (l \notin gone /\ shown'[l] = shown[l])
        /\ \A l \in Links : l \in graph' => shown'[l] = shown[l]
    BY <2>1 DEF Types
  <2>5. Types' /\ SettleTypes' /\ RowsOK' /\ BornOK' /\ PageOK'
    BY <2>1, <2>4 DEF Types, SettleTypes, RowsOK, BornOK, PageOK, HasRow
  <2>6. ShownOK' /\ WrittenOK' /\ ChargesOK' /\ NoUsageLost'
    BY <2>1, <2>4 DEF ShownOK, WrittenOK, ChargesOK, NoUsageLost, HasRow, Turn, Types, Entities
  <2> QED
    BY <2>3, <2>5, <2>6
<1> QED
  BY <1>1, <1>2 DEF Delete, DeleteFails

\* What is in flight begins, or is lost.
LEMMA FlightStep ==
  ASSUME LedgerInv, (\E e \in Entities : Retrieve(e) \/ Discard(e)) \/ Crash
  PROVE  LedgerInv'
<1> USE DEF LedgerInv, graphVars, ledger, history, sources
<1>1. ASSUME NEW e \in Entities, Retrieve(e) \/ Discard(e) PROVE LedgerInv'
  BY <1>1 DEF Retrieve, Discard, Types, SettleTypes, RowsOK, BornOK, ShownOK, PageOK,
     WrittenOK, ForgetOK, ChargesOK, NoUsageLost, HasRow, Turn
<1>2. CASE Crash
  <2>1. /\ held' = {} /\ settle' = IdleSettle /\ forget' = IdleForget
        /\ charges' = saved /\ lost' = lost \cup {l \in Links : charges[l] # saved[l]}
        /\ UNCHANGED <<graphVars, ledger, used, saved>>
    BY <1>2 DEF Crash
  <2>2. SettleTypes' /\ PageOK' /\ WrittenOK' /\ ForgetOK'
    BY <2>1 DEF SettleTypes, PageOK, WrittenOK, ForgetOK, IdleSettle, IdleForget
  <2>3. Types' /\ RowsOK' /\ ShownOK' /\ NoUsageLost'
    BY <2>1 DEF Types, RowsOK, ShownOK, NoUsageLost, HasRow
  <2>4. BornOK'
    BY <2>1 DEF BornOK, HasRow, IdleSettle
  <2>5. ChargesOK'
    <3>1. ASSUME NEW l \in Links \cap graph
          PROVE  /\ charges'[l] = IF row[l].corrected /\ l \notin lost' THEN 1 ELSE 0
                 /\ l \in lost' => row[l].corrected
      BY <2>1 DEF ChargesOK
    <3> QED
      BY <2>1, <3>1 DEF ChargesOK, IdleSettle
  <2> QED
    BY <2>2, <2>3, <2>4, <2>5
<1> QED
  BY <1>1, <1>2

-----------------------------------------------------------------------------
(* The invariant and the theorems                                          *)

\* An empty ledger is sound.
LEMMA LedgerInit == Init => LedgerInv
BY UsageLedgerAssumption DEF Init, LedgerInv, Types, SettleTypes, RowsOK, BornOK, ShownOK,
   PageOK, WrittenOK, ForgetOK, ChargesOK, NoUsageLost, HasRow, NoRow, Rows, PageRows,
   Entities, IdleSettle, IdleForget

\* Every step keeps the ledger sound.
LEMMA LedgerNext == LedgerInv /\ [Next]_vars => LedgerInv'
<1> SUFFICES ASSUME LedgerInv, [Next]_vars PROVE LedgerInv'
  OBVIOUS
<1>1. ASSUME NEW l \in Links, Form(l) \/ Supersede(l) \/ RecordSelfTest(l) PROVE LedgerInv'
  BY <1>1, FormStep, MarkStep, RecordStep
<1>2. ASSUME NEW e \in Entities, Retrieve(e) \/ RecordRecall(e) \/ Discard(e) PROVE LedgerInv'
  BY <1>2, FlightStep, RecordStep
<1>3. ASSUME NEW targets \in Requests, BeginForget(targets) PROVE LedgerInv'
  BY <1>3, ForgetSteps
<1>4. CASE BeginSettle \/ AbortSettle \/ EndSettle \/ EndCycle
  BY <1>4, SettleReset DEF BeginSettle, AbortSettle, EndSettle, EndCycle, IdleSettle,
     history, sources
<1>5. CASE SettleStep
  BY <1>4, <1>5, ScanStep, FlushStep, WriteStep, PageDoneStep, CorrectionStep, MarkStep
     DEF SettleStep
<1>6. CASE ForgetStep \/ AbortForget
  BY <1>6, ForgetSteps, DeleteStep, ForgetRowStep DEF ForgetStep
<1>7. CASE DeleteFails \/ Crash
  BY <1>7, DeleteStep, FlightStep
<1>8. CASE Flush \/ RecordCorrectionCut
  BY <1>8, FlushKeeps, CorrectionStep
<1>9. CASE UNCHANGED vars
  <2>1. UNCHANGED <<graphVars, ledger, held, settle, history>> /\ forget' = forget
    BY <1>9 DEF vars
  <2>2. ForgetOK'
    BY <2>1 DEF LedgerInv, ForgetOK, graphVars
  <2> QED
    BY <2>1, <2>2, ForgetFrame
<1> QED
  BY <1>1, <1>2, <1>3, <1>4, <1>5, <1>6, <1>7, <1>8, <1>9 DEF Next, Request

\* A clean row owes the graph nothing (mark_flushed against concurrent
\* recalls, forget requests, failed writes and crashes).
THEOREM NothingLost == Spec => []NoUsageLost
<1>1. LedgerInv => NoUsageLost
  BY DEF LedgerInv
<1> QED
  BY <1>1, LedgerInit, LedgerNext, PTL DEF Spec

\* What the ledger and the graph count are recalls that were recorded.
THEOREM NothingMade == Spec => []UsageIsReal
<1>1. LedgerInv => UsageIsReal
  BY DEF LedgerInv, UsageIsReal, RowsOK, ShownOK
<1> QED
  BY <1>1, LedgerInit, LedgerNext, PTL DEF Spec

\* A superseded link is charged at most once, in memory and in the written
\* metadata, and leaves the scan charged unless its charge was lost with the
\* process (record_correction, its graph marker and the metadata writes).
THEOREM OneCharge == Spec => []ChargedOnce
<1>1. LedgerInv => ChargedOnce
  BY DEF LedgerInv, ChargedOnce, ChargesOK, Types
<1> QED
  BY <1>1, LedgerInit, LedgerNext, PTL DEF Spec

\* The graph's marks stay on its links, and no two rows share an id.
THEOREM LedgerTyped == Spec => []TypeOK
<1>1. LedgerInv => TypeOK
  BY DEF LedgerInv, TypeOK, Types, RowsOK, HasRow, Rows
<1> QED
  BY <1>1, LedgerInit, LedgerNext, PTL DEF Spec
=============================================================================
