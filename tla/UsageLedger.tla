---------------------------- MODULE UsageLedger -----------------------------
(***************************************************************************)
(* How use of memories reaches the graph, src/anda_brain/src/ledger.rs and *)
(* settle_memory_metabolism, forget_memory and the recall hook of          *)
(* space.rs.  Recalls are counted in ledger rows; a settlement, run before *)
(* every maintenance cycle, writes the counts to the graph and charges     *)
(* superseded links to their source; forget removes entities from both.    *)
(* Each ledger write is one step, as all of them serialize on write_lock,  *)
(* and is stored at once; the charges are metadata of the space, held in   *)
(* memory until the metadata is written.                                   *)
(* The graph is external: a KIP command takes effect at once, or fails.    *)
(***************************************************************************)
EXTENDS Naturals, FiniteSets

CONSTANTS
  Links, Concepts,   \* the entities of the graph
  Subject,           \* the concept a link hangs on
  Broken,            \* links whose metadata the graph always fails to write
  BatchLimit,        \* SETTLEMENT_BATCH_LIMIT
  MaxBatches,        \* SETTLEMENT_MAX_BATCHES
  Requests,          \* the entity sets of forget requests
  MaxRetrievals,     \* bound: entities that recalls and self-tests retrieve
  MaxFailures        \* bound: failed calls, aborted settlements and crashes

ASSUME UsageLedgerAssumption ==
  /\ IsFiniteSet(Links) /\ IsFiniteSet(Concepts) /\ Links \cap Concepts = {}
  /\ Requests \subseteq SUBSET (Links \cup Concepts)
  /\ Subject \in [Links -> Concepts] /\ Broken \subseteq Links
  /\ BatchLimit \in Nat \ {0} /\ MaxBatches \in Nat \ {0}
  /\ MaxRetrievals \in Nat /\ MaxFailures \in Nat

VARIABLES
  graph,       \* entities in the graph
  shown,       \* metadata.recall_count of a link
  superseded,  \* links with metadata.superseded
  marked,      \* links with metadata.correction_settled
  row,         \* the ledger row of an entity
  nextId,      \* _id of the next row
  held,        \* entities that a running recall or self-test has retrieved
  settle,      \* the maintenance: it settles, then runs its cycle
  forget,      \* the forget request in work
  born,        \* history: links that were ever formed
  used,        \* history: recorded recalls of an entity
  charges,     \* source_reliability: corrections charged for a link
  saved,       \* source_reliability as the metadata was last written
  lost,        \* history: links recorded as corrected whose charge is lost
  retrievals,  \* retrievals so far
  failures     \* failures so far

graphVars == <<graph, shown, superseded, marked, born>>
counters == <<retrievals, failures>>
ledger == <<row, nextId>>
sources == <<charges, saved, lost>>
history == <<used, sources>>
vars == <<graphVars, ledger, held, settle, forget, history, counters>>

Entities == Links \cup Concepts

NoRow == [id |-> 0, recalls |-> 0, flushed |-> 0, dirty |-> FALSE, corrected |-> FALSE]

IdleSettle == [pc |-> "idle", after |-> 0, next |-> 0, batch |-> 0,
               page |-> {}, hits |-> {}, cur |-> "none"]
IdleForget == [pc |-> "idle", todo |-> {}, target |-> "none", cascade |-> {}]

Init ==
  /\ graph = Concepts
  /\ shown = [l \in Links |-> 0]
  /\ superseded = {} /\ marked = {} /\ born = {}
  /\ row = [e \in Entities |-> NoRow]
  /\ nextId = 1
  /\ held = {}
  /\ settle = IdleSettle
  /\ forget = IdleForget
  /\ used = [e \in Entities |-> 0]
  /\ charges = [l \in Links |-> 0] /\ saved = charges /\ lost = {}
  /\ retrievals = 0 /\ failures = 0

HasRow(e) == row[e].id # 0
NewId(e) == IF HasRow(e) THEN row[e].id ELSE nextId
TakeId(e) == nextId' = IF HasRow(e) THEN nextId ELSE nextId + 1

MayFail == failures < MaxFailures /\ failures' = failures + 1
KipFails(l) == IF l \in Broken THEN UNCHANGED failures ELSE MayFail

-----------------------------------------------------------------------------
(* Formation and recall                                                    *)

\* A formation encodes a new link.
Form(l) ==
  /\ l \notin born /\ Subject[l] \in graph
  /\ graph' = graph \cup {l}
  /\ born' = born \cup {l}
  /\ UNCHANGED <<shown, superseded, marked, ledger, held, settle, forget, history, counters>>

Supersede(l) ==
  /\ l \in graph \ superseded
  /\ superseded' = superseded \cup {l}
  /\ UNCHANGED <<graph, shown, marked, born, ledger, held, settle, forget, history, counters>>

\* A recall or a self-test retrieves an entity.
Retrieve(e) ==
  /\ e \in graph \ held /\ retrievals < MaxRetrievals
  /\ retrievals' = retrievals + 1
  /\ held' = held \cup {e}
  /\ UNCHANGED <<graphVars, ledger, settle, forget, history, failures>>

\* record_recall, when the recall has completed.
RecordRecall(e) ==
  /\ e \in held
  /\ row' = [row EXCEPT ![e].id = NewId(e), ![e].recalls = @ + 1, ![e].dirty = TRUE]
  /\ TakeId(e)
  /\ used' = [used EXCEPT ![e] = @ + 1]
  /\ held' = held \ {e}
  /\ UNCHANGED <<graphVars, settle, forget, sources, counters>>

\* record_self_test: a row that no recall has touched stays clean.
RecordSelfTest(l) ==
  /\ l \in held
  /\ row' = [row EXCEPT ![l].id = NewId(l)]
  /\ TakeId(l)
  /\ held' = held \ {l}
  /\ UNCHANGED <<graphVars, settle, forget, history, counters>>

\* The recall fails, and nothing is recorded.
Discard(e) ==
  /\ e \in held
  /\ held' = held \ {e}
  /\ UNCHANGED <<graphVars, ledger, settle, forget, history, counters>>

-----------------------------------------------------------------------------
(* Settlement                                                              *)

\* The metadata is written: by the keeper's periodic flush, by another writer
\* of extensions, or when the space closes.
Flush ==
  /\ saved # charges /\ saved' = charges
  /\ UNCHANGED <<graphVars, ledger, held, settle, forget, used, charges, lost, counters>>

At(pc) == settle.pc = pc
Goto(pc) == settle' = [settle EXCEPT !.pc = pc]

BeginSettle ==
  /\ At("idle")
  /\ settle' = [IdleSettle EXCEPT !.pc = "scan"]
  /\ UNCHANGED <<graphVars, ledger, held, forget, history, counters>>

\* unflushed_recalls: the first dirty rows behind the cursor, and the last
\* of them if there are more.
Batch(after) ==
  LET due == {e \in Entities : row[e].dirty /\ row[e].id > after}
  IN  {e \in due : Cardinality({f \in due : row[f].id < row[e].id}) < BatchLimit}

Behind(after) == {e \in Entities : row[e].dirty /\ row[e].id > after} # Batch(after)

\* The page is a copy: recalls go on while it is worked off.
ReadPage(after) ==
  settle' = [settle EXCEPT
    !.pc = "flush",
    !.batch = @ + 1,
    !.next = IF Behind(after) THEN LET ids == {row[e].id : e \in Batch(after)}
                                   IN  CHOOSE i \in ids : \A j \in ids : j <= i
                              ELSE 0,
    !.page = {[entity |-> e, id |-> row[e].id, recalls |-> row[e].recalls] :
                e \in {f \in Batch(after) : row[f].recalls > row[f].flushed}}]

\* Mutant: every batch starts at the first row.
ScanPageAgain ==
  /\ At("scan") /\ ReadPage(0)
  /\ UNCHANGED <<graphVars, ledger, held, forget, history, counters>>

ScanPage ==
  /\ At("scan") /\ ReadPage(settle.after)
  /\ UNCHANGED <<graphVars, ledger, held, forget, history, counters>>

\* The row of the page that is next.
Turn(r) == r \in settle.page /\ \A q \in settle.page : r.id <= q.id

\* Mutant: the row is not read again.
MarkFlushedBlind(r) ==
  row' = [e \in Entities |->
            IF row[e].id = r.id
              THEN [row[e] EXCEPT !.flushed = r.recalls, !.dirty = FALSE]
              ELSE row[e]]

\* mark_flushed re-reads the row by its id: it may have been recalled since,
\* or be gone.
MarkFlushed(r) ==
  row' = [e \in Entities |->
            IF row[e].id = r.id
              THEN [row[e] EXCEPT !.flushed = r.recalls, !.dirty = row[e].recalls > r.recalls]
              ELSE row[e]]

FlushConcept ==
  /\ At("flush")
  /\ \E r \in settle.page : /\ Turn(r) /\ r.entity \in Concepts
                            /\ MarkFlushed(r)
                            /\ settle' = [settle EXCEPT !.page = @ \ {r}]
  /\ UNCHANGED <<graphVars, nextId, held, forget, history, counters>>

\* Mutant: the graph is told what is new, not the total.
WriteLinkDelta ==
  /\ At("flush")
  /\ \E r \in settle.page :
       /\ Turn(r) /\ r.entity \in (Links \ Broken)
       /\ shown' = IF r.entity \in graph
                     THEN [shown EXCEPT ![r.entity] = @ + r.recalls - row[r.entity].flushed]
                     ELSE shown
  /\ Goto("mark")
  /\ UNCHANGED <<graph, superseded, marked, born, ledger, held, forget, history, counters>>

\* reinforcement_update_command: an update of a link that is gone updates
\* nothing and succeeds.
WriteLink ==
  /\ At("flush")
  /\ \E r \in settle.page :
       /\ Turn(r) /\ r.entity \in (Links \ Broken)
       /\ shown' = IF r.entity \in graph THEN [shown EXCEPT ![r.entity] = r.recalls]
                                         ELSE shown
  /\ Goto("mark")
  /\ UNCHANGED <<graph, superseded, marked, born, ledger, held, forget, history, counters>>

\* The row stays dirty.  A command that timed out may have taken effect.
WriteLinkFails ==
  /\ At("flush")
  /\ \E r \in settle.page :
       /\ Turn(r) /\ r.entity \in Links /\ KipFails(r.entity)
       /\ \/ shown' = shown
          \/ r.entity \in (graph \ Broken) /\ shown' = [shown EXCEPT ![r.entity] = r.recalls]
       /\ settle' = [settle EXCEPT !.page = @ \ {r}]
  /\ UNCHANGED <<graph, superseded, marked, born, ledger, held, forget, history, retrievals>>

MarkLink ==
  /\ At("mark")
  /\ \E r \in settle.page :
       /\ Turn(r) /\ MarkFlushed(r)
       /\ settle' = [settle EXCEPT !.page = @ \ {r}, !.pc = "flush"]
  /\ UNCHANGED <<graphVars, nextId, held, forget, history, counters>>

\* The next batch, or the superseded links not yet settled.
PageDone ==
  /\ At("flush") /\ settle.page = {}
  /\ IF settle.next # 0 /\ settle.batch < MaxBatches
       THEN settle' = [settle EXCEPT !.pc = "scan", !.after = settle.next]
       ELSE \E hits \in SUBSET ((superseded \cap graph) \ marked) :
              /\ Cardinality(hits) <= BatchLimit
              /\ hits # (superseded \cap graph) \ marked => Cardinality(hits) = BatchLimit
              /\ settle' = [IdleSettle EXCEPT !.pc = "correct", !.hits = hits]
  /\ UNCHANGED <<graphVars, ledger, held, forget, history, counters>>

\* Mutant: a correction that is in the ledger is recorded again.
RecordCorrectionAgain ==
  /\ At("correct")
  /\ \E l \in settle.hits :
       /\ row' = [row EXCEPT ![l].id = NewId(l), ![l].corrected = TRUE]
       /\ TakeId(l)
       /\ charges' = [charges EXCEPT ![l] = @ + 1]
       /\ settle' = [settle EXCEPT !.pc = "settled", !.hits = @ \ {l}, !.cur = l]
  /\ UNCHANGED <<graphVars, held, forget, used, saved, lost, counters>>

\* record_correction dedupes; only a first correction charges the source, in
\* memory.
RecordCorrection ==
  /\ At("correct")
  /\ \E l \in settle.hits :
       /\ row' = [row EXCEPT ![l].id = NewId(l), ![l].corrected = TRUE]
       /\ TakeId(l)
       /\ charges' = IF row[l].corrected THEN charges ELSE [charges EXCEPT ![l] = @ + 1]
       /\ settle' = [settle EXCEPT !.pc = "settled", !.hits = @ \ {l}, !.cur = l]
  /\ UNCHANGED <<graphVars, held, forget, used, saved, lost, counters>>

\* The row is written, but the call fails, or the process dies, before the
\* source is charged.  No later cycle charges it, as the row is there.
RecordCorrectionCut ==
  /\ At("correct") /\ MayFail
  /\ \E l \in settle.hits :
       /\ ~row[l].corrected
       /\ row' = [row EXCEPT ![l].id = NewId(l), ![l].corrected = TRUE]
       /\ TakeId(l)
       /\ lost' = lost \cup {l}
  /\ settle' = [IdleSettle EXCEPT !.pc = "cycle"]
  /\ UNCHANGED <<graphVars, held, forget, used, charges, saved, retrievals>>

\* metadata.correction_settled takes the link out of later scans.  If that
\* fails, the link is scanned again.
SettleCorrection ==
  /\ At("settled")
  /\ \/ /\ settle.cur \notin Broken /\ UNCHANGED failures
        /\ marked' = marked \cup (graph \cap {settle.cur})
     \/ /\ KipFails(settle.cur)
        /\ marked' \in {marked, marked \cup ((graph \ Broken) \cap {settle.cur})}
  /\ settle' = [settle EXCEPT !.pc = "correct", !.cur = "none"]
  /\ UNCHANGED <<graph, shown, superseded, born, ledger, held, forget, history, retrievals>>

\* A ledger call fails: the settlement ends early, the cycle runs anyway.
AbortSettle ==
  /\ settle.pc \in {"scan", "flush", "mark", "correct"} /\ MayFail
  /\ settle' = [IdleSettle EXCEPT !.pc = "cycle"]
  /\ UNCHANGED <<graphVars, ledger, held, forget, history, retrievals>>

\* The metadata is written; an error of that is ignored.
EndSettle ==
  /\ At("correct") /\ settle.hits = {}
  /\ \/ saved' = charges /\ UNCHANGED failures
     \/ saved # charges /\ MayFail /\ UNCHANGED saved
  /\ settle' = [IdleSettle EXCEPT !.pc = "cycle"]
  /\ UNCHANGED <<graphVars, ledger, held, forget, used, charges, lost, retrievals>>

EndCycle ==
  /\ At("cycle")
  /\ settle' = IdleSettle
  /\ UNCHANGED <<graphVars, ledger, held, forget, history, counters>>

-----------------------------------------------------------------------------
(* Forget                                                                  *)

\* Refused while a maintenance runs; the check is made once.
BeginForget(targets) ==
  /\ forget.pc = "idle" /\ At("idle")
  /\ forget' = [IdleForget EXCEPT !.pc = "next", !.todo = targets]
  /\ UNCHANGED <<graphVars, ledger, held, settle, history, counters>>

\* An entity that is not there, or whose look-up fails, is passed over.
SkipTarget ==
  /\ forget.pc = "next"
  /\ \E t \in forget.todo :
       /\ IF t \in graph THEN MayFail ELSE UNCHANGED failures
       /\ forget' = [forget EXCEPT !.todo = @ \ {t}]
  /\ UNCHANGED <<graphVars, ledger, held, settle, history, retrievals>>

\* The links of a concept are enumerated before they are gone; an error
\* leaves some of them out.
Enumerate ==
  /\ forget.pc = "next"
  /\ \E t \in forget.todo \cap graph :
       LET links == {l \in Links \cap graph : t \in Concepts /\ Subject[l] = t}
       IN  \E found \in SUBSET links :
             /\ IF found = links THEN UNCHANGED failures ELSE MayFail
             /\ forget' = [pc |-> "delete", todo |-> forget.todo \ {t}, target |-> t,
                           cascade |-> {t} \cup found]
  /\ UNCHANGED <<graphVars, ledger, held, settle, history, retrievals>>

\* DELETE PROPOSITIONS, or DELETE CONCEPT DETACH.
RemoveFromGraph(t) ==
  LET gone == {t} \cup {l \in Links : t \in Concepts /\ Subject[l] = t}
  IN  /\ graph' = graph \ gone
      /\ superseded' = superseded \ gone
      /\ marked' = marked \ gone
      /\ shown' = [l \in Links |-> IF l \in gone THEN 0 ELSE shown[l]]
      /\ UNCHANGED born

Delete ==
  /\ forget.pc = "delete"
  /\ RemoveFromGraph(forget.target)
  /\ forget' = [forget EXCEPT !.pc = "rows"]
  /\ UNCHANGED <<ledger, held, settle, history, counters>>

\* The rows stay.  A deletion that timed out may have taken effect.
DeleteFails ==
  /\ forget.pc = "delete" /\ MayFail
  /\ RemoveFromGraph(forget.target) \/ UNCHANGED graphVars
  /\ forget' = [forget EXCEPT !.pc = "next", !.target = "none", !.cascade = {}]
  /\ UNCHANGED <<ledger, held, settle, history, retrievals>>

\* The look-up times out: the request ends with an error.
AbortForget ==
  /\ forget.pc = "next" /\ forget.todo # {} /\ MayFail
  /\ forget' = IdleForget
  /\ UNCHANGED <<graphVars, ledger, held, settle, history, retrievals>>

\* The target first, then the links.  An error of forget_entity is ignored.
ForgetRow ==
  /\ forget.pc = "rows"
  /\ \E e \in forget.cascade :
       /\ forget.target \in forget.cascade => e = forget.target
       /\ \/ row' = [row EXCEPT ![e] = NoRow] /\ UNCHANGED failures
          \/ MayFail /\ UNCHANGED row
       /\ forget' = [forget EXCEPT !.cascade = @ \ {e}]
  /\ UNCHANGED <<graphVars, nextId, held, settle, used, sources, retrievals>>

TargetDone ==
  /\ forget.pc = "rows" /\ forget.cascade = {}
  /\ forget' = [forget EXCEPT !.pc = "next", !.target = "none"]
  /\ UNCHANGED <<graphVars, ledger, held, settle, history, counters>>

EndForget ==
  /\ forget.pc = "next" /\ forget.todo = {}
  /\ forget' = IdleForget
  /\ UNCHANGED <<graphVars, ledger, held, settle, history, counters>>

-----------------------------------------------------------------------------
\* The process dies: what is in flight is lost, and so is every charge that
\* was not written with the metadata; the rows stay.
Crash ==
  /\ MayFail
  /\ held' = {} /\ settle' = IdleSettle /\ forget' = IdleForget
  /\ charges' = saved
  /\ lost' = lost \cup {l \in Links : charges[l] # saved[l]}
  /\ UNCHANGED <<graphVars, ledger, used, saved, retrievals>>

SettleStep ==
  \/ ScanPage \/ FlushConcept \/ WriteLink \/ MarkLink \/ PageDone
  \/ RecordCorrection \/ SettleCorrection \/ EndSettle \/ EndCycle
  \/ WriteLinkFails

ForgetStep ==
  \/ SkipTarget \/ Enumerate \/ Delete \/ ForgetRow \/ TargetDone \/ EndForget

Request ==
  \/ \E l \in Links : Form(l) \/ Supersede(l) \/ RecordSelfTest(l)
  \/ \E e \in Entities : Retrieve(e) \/ RecordRecall(e) \/ Discard(e)
  \/ \E targets \in Requests : BeginForget(targets)

Next ==
  \/ Request \/ BeginSettle \/ SettleStep \/ ForgetStep
  \/ Flush \/ RecordCorrectionCut
  \/ AbortSettle \/ DeleteFails \/ AbortForget \/ Crash

Spec == Init /\ [][Next]_vars

\* Maintenance is requested again and again, and a running one goes on.
FairSpec == Spec /\ WF_vars(BeginSettle) /\ WF_vars(SettleStep)

-----------------------------------------------------------------------------
(* Properties                                                              *)

\* The graph's marks are on its links, and rows are told apart by their ids.
TypeOK ==
  /\ graph \subseteq Entities /\ superseded \subseteq graph /\ marked \subseteq superseded
  /\ shown \in [Links -> Nat]
  /\ \A e \in Entities : /\ row[e].id < nextId /\ row[e].flushed <= row[e].recalls
                         /\ row[e].dirty \in BOOLEAN
  /\ \A e, f \in Entities : HasRow(e) /\ row[e].id = row[f].id => e = f

\* CHANGELOG: "Usage counts can no longer be lost by settlement".  A clean
\* row owes the graph nothing, however recalls, failures, crashes and forget
\* requests fall between the scan, the write and the mark.
NoUsageLost ==
  \A e \in Entities :
    HasRow(e) /\ ~row[e].dirty =>
      /\ row[e].flushed = row[e].recalls
      /\ e \in Links \cap graph => shown[e] = row[e].recalls

\* Re-running a settlement that was cut short counts no recall twice.
UsageIsReal ==
  \A e \in Entities : row[e].recalls <= used[e] /\ (e \in Links => shown[e] <= used[e])

\* space.rs:1753: "re-processing never double-counts".  However often a link
\* is processed, after aborted settlements, failed marks and crashes, its
\* source is charged at most once, in memory and in the written metadata; and
\* a link leaves the scan charged, unless it is one of those whose charge
\* went between the row and the metadata write, which nothing makes good.
ChargedOnce ==
  \A l \in Links \cap graph :
    /\ charges[l] <= 1 /\ saved[l] <= charges[l]
    /\ l \in lost => charges[l] = 0
    /\ l \in marked => charges[l] = 1 \/ l \in lost

\* Rows that cannot be written do not keep the rows behind them from the graph.
UsageSettles == []<>(\A e \in Entities \ Broken : row[e].recalls = row[e].flushed)

\* space.rs:5044: "usage traces of a forgotten memory must not survive".
ForgottenLeavesNoRow == \A e \in Entities \ (graph \cup forget.cascade) : ~HasRow(e)
=============================================================================
