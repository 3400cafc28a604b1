--------------------------- MODULE WikiStoreProofs ---------------------------
(***************************************************************************)
(* The row writes of the wiki's write path implement the atomic history of *)
(* WikiHistory, for any documents, bodies and chunks and any number of     *)
(* failures.  The invariant WikiInv says why: a version has its final row  *)
(* before Flip makes it current (CommitOK), ids only grow, so the current  *)
(* version is the newest (HeadsOK), and the write lock keeps every other   *)
(* writer away from a document between the check of parent_version and     *)
(* Flip, so the version the author had read is still current there.  The   *)
(* sweep removes a document row only while the document never had a        *)
(* version, which readers cannot tell from its absence.                    *)
(*                                                                         *)
(* SearchInv speaks of the chunk rows that searches see.  From it follows  *)
(* AlwaysServed, that a commit takes a version from the searches only when *)
(* they have the next one whole, and ExactSweeps, that a document a sweep  *)
(* has visited shows exactly its current version from then on.             *)
(***************************************************************************)
EXTENDS WikiStore, TLAPS

\* The tables, as far as the history depends on them.
TablesOK ==
  /\ status \in [Docs -> {"none", "active", "archived"}]
  /\ current \in [Docs -> Nat]
  /\ written \in 0 .. MaxVersions
  /\ owner \in [Versions -> Docs \cup {"none"}]
  /\ body \in [Versions -> Bodies \cup {"none"}]
  /\ seen \in [Versions -> Nat]

\* The current version of a document is the newest that was ever its own.
HeadsOK ==
  /\ flipped \subseteq 1 .. written
  /\ \A v \in flipped : owner[v] \in Docs /\ v <= current[owner[v]]
  /\ \A d \in Docs : /\ current[d] # 0 => current[d] \in flipped /\ owner[current[d]] = d
                     /\ status[d] = "none" => current[d] = 0

\* Nobody but the commit that holds the lock touches its document: what its
\* author had read is still current when it flips.
CommitOK ==
  op.kind = "commit" =>
    /\ op = [kind |-> "commit", step |-> op.step, doc |-> op.doc, ver |-> op.ver,
             prev |-> op.prev, body |-> op.body, seen |-> op.seen]
    /\ op.doc \in Docs /\ op.body \in Bodies /\ status[op.doc] = "active"
    /\ op.step \in {"version", "chunks", "show"}
    /\ op.step = "version" => op.seen = current[op.doc] /\ written < MaxVersions
    /\ op.step = "chunks" =>
         /\ op.ver = written /\ written # 0 /\ written \notin flipped
         /\ owner[written] = op.doc /\ body[written] = op.body
         /\ seen[written] = current[op.doc]

\* The inductive invariant.
WikiInv == TablesOK /\ HeadsOK /\ CommitOK

\* An empty store satisfies it.
LEMMA WikiInit == Init => WikiInv
BY WikiStoreAssumption DEF Init, WikiInv, TablesOK, HeadsOK, CommitOK, Free, Versions

\* Every row write, failure and crash preserves it.
LEMMA WikiNext == WikiInv /\ [Next]_vars => WikiInv'
<1> SUFFICES ASSUME WikiInv, [Next]_vars PROVE WikiInv'
  OBVIOUS
<1> USE WikiStoreAssumption DEF WikiInv, docTable, verTable
<1>1. ASSUME NEW d \in Docs, NEW b \in Bodies, BeginCreate(d, b) PROVE WikiInv'
  BY <1>1 DEF BeginCreate, TablesOK, HeadsOK, CommitOK, Versions
<1>2. ASSUME NEW d \in Docs, NEW b \in Bodies, NEW parent \in Versions, BeginUpdate(d, parent, b)
      PROVE WikiInv'
  BY <1>2 DEF BeginUpdate, TablesOK, HeadsOK, CommitOK, Versions
<1>3. CASE AddVersion
  <2>1. /\ op.kind = "commit" /\ written < MaxVersions /\ written' = written + 1
        /\ written' \in Versions /\ op.doc \in Docs /\ op.body \in Bodies
        /\ op.seen = current[op.doc] /\ status[op.doc] = "active"
    BY <1>3 DEF AddVersion, Doing, TablesOK, CommitOK, Versions
  <2>2. /\ owner' = [owner EXCEPT ![written'] = op.doc]
        /\ body' = [body EXCEPT ![written'] = op.body]
        /\ seen' = [seen EXCEPT ![written'] = op.seen]
        /\ op' = [op EXCEPT !.ver = written', !.step = "chunks"]
        /\ UNCHANGED <<status, current, flipped>>
    BY <1>3 DEF AddVersion
  <2>3. TablesOK'
    BY <2>1, <2>2 DEF TablesOK
  <2>4. HeadsOK'
    <3>1. \A v \in flipped : v \in Versions /\ v # written' /\ owner'[v] = owner[v]
      BY <2>1, <2>2 DEF TablesOK, HeadsOK, Versions
    <3> QED
      BY <2>1, <2>2, <3>1 DEF TablesOK, HeadsOK
  <2>5. CommitOK'
    <3>1. /\ op'.kind = "commit" /\ op'.step = "chunks" /\ op'.doc = op.doc
          /\ op'.body = op.body /\ op'.ver = written'
          /\ op' = [kind |-> "commit", step |-> "chunks", doc |-> op.doc, ver |-> written',
                    prev |-> op.prev, body |-> op.body, seen |-> op.seen]
      BY <2>1, <2>2 DEF CommitOK
    <3>2. /\ written' # 0 /\ written' \notin flipped
          /\ owner'[written'] = op.doc /\ body'[written'] = op.body
          /\ seen'[written'] = current[op.doc]
      BY <2>1, <2>2 DEF TablesOK, HeadsOK
    <3> QED
      BY <2>1, <2>2, <3>1, <3>2 DEF CommitOK
  <2> QED
    BY <2>3, <2>4, <2>5
<1>4. CASE Flip
  <2>1. /\ op.kind = "commit" /\ op.step = "chunks" /\ op.doc \in Docs /\ op.ver = written
        /\ owner[written] = op.doc /\ status[op.doc] = "active" /\ written \in Nat \ {0}
    BY <1>4 DEF Flip, Doing, CommitOK, TablesOK
  <2>2. /\ status' = [status EXCEPT ![op.doc] = "active"]
        /\ current' = [current EXCEPT ![op.doc] = written]
        /\ flipped' = flipped \cup {written}
        /\ op' = [op EXCEPT !.step = "show"]
        /\ UNCHANGED verTable
    BY <1>4, <2>1 DEF Flip
  <2>3. TablesOK'
    BY <2>1, <2>2 DEF TablesOK
  <2>4. HeadsOK'
    <3>1. flipped' \subseteq 1 .. written
      BY <2>1, <2>2 DEF HeadsOK
    <3>2. ASSUME NEW v \in flipped' PROVE owner[v] \in Docs /\ v <= current'[owner[v]]
      BY <2>1, <2>2, <3>1 DEF HeadsOK, TablesOK
    <3>3. ASSUME NEW d \in Docs
          PROVE  /\ current'[d] # 0 => current'[d] \in flipped' /\ owner[current'[d]] = d
                 /\ status'[d] = "none" => current'[d] = 0
      BY <2>1, <2>2 DEF HeadsOK, TablesOK
    <3> QED
      BY <2>2, <3>1, <3>2, <3>3 DEF HeadsOK
  <2>5. CommitOK'
    <3>1. /\ op' = [kind |-> "commit", step |-> "show", doc |-> op.doc, ver |-> op.ver,
                    prev |-> op.prev, body |-> op.body, seen |-> op.seen]
          /\ status' = status
      BY <2>1, <2>2 DEF CommitOK, TablesOK
    <3> QED
      BY <2>1, <3>1 DEF CommitOK
  <2> QED
    BY <2>3, <2>4, <2>5
<1>5. ASSUME NEW d \in Docs, BeginArchive(d) \/ BeginRestore(d) PROVE WikiInv'
  BY <1>5 DEF BeginArchive, BeginRestore, Exists, TablesOK, HeadsOK, CommitOK
<1>6. ASSUME NEW d \in Docs, SweepAbandoned(d) PROVE WikiInv'
  BY <1>6 DEF SweepAbandoned, Sweeping, RemoveRow, RemoveChunk, TablesOK, HeadsOK, CommitOK
<1>7. ASSUME UNCHANGED <<docTable, written, owner, body, seen, flipped>>,
             op' = op \/ op'.kind # "commit" PROVE WikiInv'
  BY <1>7 DEF TablesOK, HeadsOK, CommitOK
<1>8. CASE \/ AddChunk \/ ShowChunk \/ DropChunk \/ CommitReturns \/ HideChunk
           \/ ArchiveOrRestoreReturns \/ BeginSweep \/ Fail \/ UNCHANGED vars
           \/ \E d \in Docs : SweepOrphan(d) \/ SweepStray(d) \/ SweepRepair(d) \/ SweepNext(d)
           \/ \E d \in Docs, parent \in Versions, b \in Bodies : CommitNothing(d, parent, b)
  BY <1>7, <1>8 DEF AddChunk, ShowChunk, DropChunk, CommitReturns, HideChunk,
     ArchiveOrRestoreReturns, BeginSweep, Visit, Fail, vars, SweepOrphan, SweepStray,
     SweepRepair, SweepNext, RemoveRow, RemoveChunk, CommitNothing, Free
<1> QED
  BY <1>1, <1>2, <1>3, <1>4, <1>5, <1>6, <1>8 DEF Next, Request, OpStep

\* No document, no history.
LEMMA HistoryInit == Init => History!HInit
BY DEF Init, History!HInit

\* Flip commits, the first write of an archive or a restore changes the view,
\* and no other row write shows in the history.
LEMMA HistoryNext == WikiInv /\ [Next]_vars => [History!HNext]_(History!hvars)
<1> SUFFICES ASSUME WikiInv, [Next]_vars PROVE [History!HNext]_(History!hvars)
  OBVIOUS
<1> USE WikiStoreAssumption DEF WikiInv, docTable, verTable
<1>1. CASE Flip
  <2>1. PICK d \in Docs, v \in Versions, b \in Bodies :
           /\ d = op.doc /\ v = op.ver /\ v # 0 /\ v \notin flipped
           /\ owner[v] = d /\ body[v] = b /\ seen[v] = current[d] /\ status[d] = "active"
           /\ \A u \in flipped : u < v
    BY <1>1 DEF Flip, Doing, CommitOK, TablesOK, HeadsOK, Versions
  <2>2. /\ status' = status /\ current' = [current EXCEPT ![d] = v]
        /\ flipped' = flipped \cup {v} /\ UNCHANGED verTable
    BY <1>1, <2>1 DEF Flip, TablesOK
  <2>3. [e \in Docs |-> IF current'[e] = 0 THEN "absent" ELSE status'[e]]
          = [[e \in Docs |-> IF current[e] = 0 THEN "absent" ELSE status[e]]
               EXCEPT ![d] = "active"]
    BY <2>1, <2>2 DEF TablesOK
  <2>4. [e \in Docs |-> {u \in flipped' : owner'[u] = e}]
          = [[e \in Docs |-> {u \in flipped : owner[u] = e}] EXCEPT ![d] = @ \cup {v}]
    BY <2>1, <2>2
  <2>5. [u \in Versions |-> IF u \in flipped' THEN seen'[u] ELSE 0]
          = [[u \in Versions |-> IF u \in flipped THEN seen[u] ELSE 0]
               EXCEPT ![v] = current[d]]
    BY <2>1, <2>2
  <2>6. [u \in Versions |-> IF u \in flipped' THEN body'[u] ELSE "none"]
          = [[u \in Versions |-> IF u \in flipped THEN body[u] ELSE "none"]
               EXCEPT ![v] = b]
    BY <2>1, <2>2
  <2>7. History!Commit(d, v, b)
    BY <2>1, <2>2, <2>3, <2>4, <2>5, <2>6 DEF History!Commit
  <2> QED
    BY <2>1, <2>7 DEF History!HNext
<1>2. ASSUME NEW d \in Docs, BeginArchive(d) PROVE History!Archive(d)
  <2>1. /\ current[d] # 0 /\ status[d] = "active" /\ status' = [status EXCEPT ![d] = "archived"]
        /\ UNCHANGED <<current, verTable, flipped>>
    BY <1>2 DEF BeginArchive, Exists, TablesOK
  <2>2. [e \in Docs |-> IF current'[e] = 0 THEN "absent" ELSE status'[e]]
          = [[e \in Docs |-> IF current[e] = 0 THEN "absent" ELSE status[e]]
               EXCEPT ![d] = "archived"]
    BY <2>1 DEF TablesOK
  <2> QED
    BY <2>1, <2>2 DEF History!Archive
<1>3. ASSUME NEW d \in Docs, BeginRestore(d) PROVE History!Restore(d)
  <2>1. /\ current[d] # 0 /\ status[d] = "archived" /\ status' = [status EXCEPT ![d] = "active"]
        /\ UNCHANGED <<current, verTable, flipped>>
    BY <1>3 DEF BeginRestore, Exists
  <2>2. [e \in Docs |-> IF current'[e] = 0 THEN "absent" ELSE status'[e]]
          = [[e \in Docs |-> IF current[e] = 0 THEN "absent" ELSE status[e]]
               EXCEPT ![d] = "active"]
    BY <2>1 DEF TablesOK
  <2> QED
    BY <2>1, <2>2 DEF History!Restore
<1>4. CASE AddVersion
  BY <1>4 DEF AddVersion, Doing, TablesOK, HeadsOK, CommitOK, Versions, History!hvars
<1>5. ASSUME NEW d \in Docs, SweepAbandoned(d) PROVE UNCHANGED History!hvars
  BY <1>5 DEF SweepAbandoned, RemoveRow, RemoveChunk, TablesOK, HeadsOK, History!hvars
<1>6. ASSUME NEW d \in Docs, NEW b \in Bodies, BeginCreate(d, b) PROVE UNCHANGED History!hvars
  BY <1>6 DEF BeginCreate, TablesOK, HeadsOK, History!hvars
<1>7. ASSUME UNCHANGED <<docTable, written, owner, body, seen, flipped>>
      PROVE UNCHANGED History!hvars
  BY <1>7 DEF History!hvars
<1>8. CASE \/ AddChunk \/ ShowChunk \/ DropChunk \/ CommitReturns \/ HideChunk
           \/ ArchiveOrRestoreReturns \/ BeginSweep \/ Fail \/ UNCHANGED vars
           \/ \E d \in Docs : SweepOrphan(d) \/ SweepStray(d) \/ SweepRepair(d) \/ SweepNext(d)
           \/ \E d \in Docs, parent \in Versions, b \in Bodies :
                CommitNothing(d, parent, b) \/ BeginUpdate(d, parent, b)
  BY <1>7, <1>8 DEF AddChunk, ShowChunk, DropChunk, CommitReturns, HideChunk,
     ArchiveOrRestoreReturns, BeginSweep, Visit, Fail, vars, SweepOrphan, SweepStray,
     SweepRepair, SweepNext, RemoveRow, RemoveChunk, CommitNothing, BeginUpdate
<1> QED
  BY <1>1, <1>2, <1>3, <1>4, <1>5, <1>6, <1>8 DEF Next, Request, OpStep, History!HNext

\* Commit, archive, restore and the sweep of src/anda_brain/src/wiki/mod.rs,
\* each a sequence of row writes that may stop anywhere, act on a document's
\* history at once or not at all, and no commit overwrites a version that its
\* author had not read.
THEOREM AtomicHistory == Spec => ImplementsHistory
BY WikiInit, WikiNext, HistoryInit, HistoryNext, PTL DEF Spec, ImplementsHistory, History!HSpec

-----------------------------------------------------------------------------
(* What a search finds                                                     *)

ChunkStates == {"none", "hidden", "shown"}
OfDoc(v, d) == v \in flipped /\ owner[v] = d

\* A version that became current had all its chunks, and nothing takes them
\* from it while it is current.
CurrentWhole == \A d \in Docs : current[d] # 0 => Chunks(current[d], {"none"}) = {}

\* A commit supersedes a version of its own document, and once it has flipped
\* its new version is the current one.
CommitServes ==
  op.kind = "commit" =>
    /\ op.prev # 0 => OfDoc(op.prev, op.doc)
    /\ op.step = "show" => op.ver # 0 /\ op.ver = current[op.doc] /\ op.ver # op.prev

\* An archive hides the current version of a document that is archived already.
ArchiveHides ==
  op.kind = "archive" =>
    /\ op.doc \in Docs /\ status[op.doc] = "archived"
    /\ op.ver # 0 /\ op.ver = current[op.doc]

\* What a sweep has left behind, or had no reason to visit, is in order.
SweepOrders ==
  op.kind = "sweep" =>
    /\ op = [kind |-> "sweep", step |-> "rows", doc |-> op.doc, todo |-> op.todo, old |-> op.old]
    /\ op.doc \in Docs /\ op.todo \subseteq Docs
    /\ \A d \in Docs \ ({op.doc} \cup op.todo) : Exact(d)

SearchInv ==
  /\ chunk \in [Versions -> [Parts -> ChunkStates]] /\ failures \in Nat
  /\ CurrentWhole /\ CommitServes /\ ArchiveHides /\ SweepOrders

LEMMA InitSearch == Init => SearchInv
BY WikiStoreAssumption
DEF Init, SearchInv, ChunkStates, CurrentWhole, CommitServes, ArchiveHides, SweepOrders, Free

\* A chunk write changes one chunk of one version.
LEMMA OneChunk ==
  ASSUME chunk \in [Versions -> [Parts -> ChunkStates]],
         NEW v, NEW p \in Parts, NEW s \in ChunkStates, SetChunk(v, p, s)
  PROVE  /\ chunk' \in [Versions -> [Parts -> ChunkStates]]
         /\ \A u \in Versions, q \in Parts :
              chunk'[u][q] = IF u = v /\ q = p THEN s ELSE chunk[u][q]
BY DEF SetChunk

\* The current version of a document is its own.
LEMMA OwnHead ==
  ASSUME WikiInv, NEW d \in Docs, current[d] # 0
  PROVE  current[d] \in flipped /\ current[d] \in Versions /\ owner[current[d]] = d
BY WikiStoreAssumption DEF WikiInv, TablesOK, HeadsOK, Versions

\* A document whose row and chunks a step leaves alone stays in order.
LEMMA Untouched ==
  ASSUME WikiInv, NEW d \in Docs, Exact(d), owner' = owner,
         status'[d] = status[d], current'[d] = current[d],
         \A v \in Versions, p \in Parts : owner[v] = d => chunk'[v][p] = chunk[v][p]
  PROVE  Exact(d)'
<1>1. Exists(d)' => Exists(d)
  BY DEF Exists
<1>2. ASSUME Exists(d) PROVE current[d] \in Versions /\ owner[current[d]] = d
  BY <1>2, OwnHead DEF Exists
<1> QED
  BY <1>1, <1>2 DEF Exact, Chunks

\* Once a visit has nothing left to do its document is in order.
LEMMA SweptIsExact ==
  ASSUME WikiInv, SearchInv, NEW d \in Docs, current[d] # 0,
         Strays(d) = {}, Mismatched(d) = {}
  PROVE  Exact(d)
<1>1. current[d] \in Versions /\ Chunks(current[d], {"none"}) = {}
  BY OwnHead DEF SearchInv, CurrentWhole
<1>2. \A p \in Parts : chunk[current[d]][p] \in {"hidden", "shown"}
  BY <1>1 DEF SearchInv, ChunkStates, Chunks, Versions
<1>3. \A p \in Parts : chunk[current[d]][p] = IF status[d] = "active" THEN "shown" ELSE "hidden"
  BY <1>1, <1>2 DEF Mismatched, Chunks, Versions
<1> QED
  BY <1>3 DEF Exact, Strays

\* Removing a chunk of d that is not current leaves what is current whole, and
\* the other documents in order.
LEMMA ChunkRemoved ==
  ASSUME WikiInv, SearchInv, NEW d \in Docs, op.kind = "sweep", op.doc = d,
         NEW v, owner[v] = d, v # current[d], RemoveChunk(v)
  PROVE  SearchInv'
<1>1. PICK p \in Parts : SetChunk(v, p, "none")
  BY DEF RemoveChunk, Chunks
<1>2. /\ chunk' \in [Versions -> [Parts -> ChunkStates]]
      /\ \A u \in Versions, q \in Parts : u # v => chunk'[u][q] = chunk[u][q]
  BY <1>1, OneChunk DEF SearchInv, ChunkStates
<1>3. UNCHANGED <<status, current, owner, op, failures>>
  BY DEF RemoveChunk, docTable, verTable
<1>4. CurrentWhole'
  <2>1. ASSUME NEW e \in Docs, current[e] # 0 PROVE Chunks(current[e], {"none"})' = {}
    <3>1. current[e] \in Versions /\ current[e] # v
      BY <2>1, OwnHead
    <3> QED
      BY <1>2, <1>3, <2>1, <3>1 DEF Chunks, SearchInv, CurrentWhole
  <2> QED
    BY <1>3, <2>1 DEF CurrentWhole
<1>5. SweepOrders'
  <2>1. ASSUME NEW e \in Docs \ ({op.doc} \cup op.todo) PROVE Exact(e)'
    <3>1. Exact(e)
      BY <2>1 DEF SearchInv, SweepOrders
    <3> QED
      BY <1>2, <1>3, <2>1, <3>1, Untouched
  <2> QED
    BY <1>3, <2>1 DEF SearchInv, SweepOrders
<1> QED
  BY <1>2, <1>3, <1>4, <1>5 DEF SearchInv, CommitServes, ArchiveHides

\* Every step of every operation keeps the search plane as it should be.
LEMMA NextSearch == WikiInv /\ SearchInv /\ [Next]_vars => SearchInv'
<1> SUFFICES ASSUME WikiInv, SearchInv, [Next]_vars PROVE SearchInv'
  OBVIOUS
<1> USE WikiStoreAssumption DEF docTable, verTable
<1>1. ASSUME NEW d \in Docs, NEW b \in Bodies, BeginCreate(d, b) PROVE SearchInv'
  <2>1. /\ op' = [kind |-> "commit", step |-> "version", doc |-> d, ver |-> 0,
                  prev |-> 0, body |-> b, seen |-> 0]
        /\ UNCHANGED <<current, chunk, failures>>
    BY <1>1 DEF BeginCreate
  <2> QED
    BY <2>1 DEF SearchInv, CurrentWhole, CommitServes, ArchiveHides, SweepOrders, Chunks
<1>2. ASSUME NEW d \in Docs, NEW b \in Bodies, NEW parent \in Versions, BeginUpdate(d, parent, b)
      PROVE SearchInv'
  <2>1. /\ op' = [kind |-> "commit", step |-> "version", doc |-> d, ver |-> 0,
                  prev |-> current[d], body |-> b, seen |-> parent]
        /\ current[d] # 0 /\ UNCHANGED <<current, chunk, flipped, owner, failures>>
    BY <1>2 DEF BeginUpdate, Exists
  <2>2. OfDoc(current[d], d)'
    BY <2>1, OwnHead DEF OfDoc
  <2> QED
    BY <2>1, <2>2 DEF SearchInv, CurrentWhole, CommitServes, ArchiveHides, SweepOrders, Chunks
<1>3. CASE AddVersion
  <2>1. /\ op.kind = "commit" /\ op'.kind = "commit" /\ op'.step = "chunks"
        /\ op'.doc = op.doc /\ op'.prev = op.prev
        /\ \A v \in flipped : owner'[v] = owner[v]
        /\ UNCHANGED <<current, chunk, flipped, failures>>
    BY <1>3 DEF AddVersion, Doing, WikiInv, CommitOK, TablesOK, HeadsOK, Versions
  <2> QED
    BY <2>1 DEF SearchInv, CurrentWhole, CommitServes, ArchiveHides, SweepOrders, Chunks, OfDoc
<1>4. CASE AddChunk
  <2>1. op.kind = "commit" /\ op.step = "chunks" /\ UNCHANGED <<current, flipped, owner, op, failures>>
    BY <1>4 DEF AddChunk, Doing
  <2>2. PICK p \in Parts : SetChunk(op.ver, p, "hidden")
    BY <1>4 DEF AddChunk, Chunks
  <2>3. chunk' \in [Versions -> [Parts -> ChunkStates]]
    BY <2>2, OneChunk DEF SearchInv, ChunkStates
  <2>4. \A u \in Versions, q \in Parts : chunk'[u][q] = "none" => chunk[u][q] = "none"
    BY <2>2, OneChunk DEF SearchInv, ChunkStates
  <2>5. CurrentWhole'
    BY <2>1, <2>4, OwnHead DEF SearchInv, CurrentWhole, Chunks
  <2> QED
    BY <2>1, <2>3, <2>5 DEF SearchInv, CommitServes, ArchiveHides, SweepOrders, OfDoc
<1>5. CASE Flip
  <2>1. /\ op.kind = "commit" /\ op.step = "chunks" /\ op.ver = written /\ written # 0
        /\ written \notin flipped /\ op.doc \in Docs
    BY <1>5 DEF Flip, Doing, WikiInv, CommitOK
  <2>2. /\ op'.kind = "commit" /\ op'.step = "show" /\ op'.doc = op.doc /\ op'.prev = op.prev
        /\ op'.ver = op.ver
    BY <1>5, <2>1 DEF Flip, WikiInv, CommitOK
  <2>3. /\ current' = [current EXCEPT ![op.doc] = op.ver] /\ flipped \subseteq flipped'
        /\ Chunks(op.ver, {"none"}) = {} /\ UNCHANGED <<owner, chunk, failures>>
    BY <1>5 DEF Flip
  <2>4. current'[op.doc] = op.ver /\ \A d \in Docs \ {op.doc} : current'[d] = current[d]
    BY <2>1, <2>3 DEF WikiInv, TablesOK
  <2>5. CurrentWhole'
    BY <2>3, <2>4 DEF SearchInv, CurrentWhole, Chunks
  <2>6. CommitServes'
    BY <2>1, <2>2, <2>3, <2>4 DEF SearchInv, CommitServes, OfDoc
  <2> QED
    BY <2>2, <2>3, <2>5, <2>6 DEF SearchInv, ArchiveHides, SweepOrders
<1>6. CASE ShowChunk
  <2>1. op.kind \in {"commit", "restore"} /\ UNCHANGED <<current, flipped, owner, op, failures>>
    BY <1>6 DEF ShowChunk
  <2>2. PICK p \in Parts : SetChunk(op.ver, p, "shown")
    BY <1>6 DEF ShowChunk, Chunks
  <2>3. /\ chunk' \in [Versions -> [Parts -> ChunkStates]]
        /\ \A u \in Versions, q \in Parts : chunk'[u][q] = "none" => chunk[u][q] = "none"
    BY <2>2, OneChunk DEF SearchInv, ChunkStates
  <2>5. CurrentWhole'
    BY <2>1, <2>3, OwnHead DEF SearchInv, CurrentWhole, Chunks
  <2> QED
    BY <2>1, <2>3, <2>5 DEF SearchInv, CommitServes, ArchiveHides, SweepOrders, OfDoc
<1>7. CASE DropChunk
  <2>1. /\ op.kind = "commit" /\ op.step = "show" /\ op.doc \in Docs
        /\ UNCHANGED <<current, flipped, owner, op, failures>>
    BY <1>7 DEF DropChunk, Doing, WikiInv, CommitOK
  <2>2. PICK p \in Parts : op.prev # 0 /\ SetChunk(op.prev, p, "none")
    BY <1>7 DEF DropChunk, Chunks
  <2>3. /\ chunk' \in [Versions -> [Parts -> ChunkStates]]
        /\ \A u \in Versions, q \in Parts : u # op.prev => chunk'[u][q] = chunk[u][q]
    BY <2>2, OneChunk DEF SearchInv, ChunkStates
  <2>4. \A d \in Docs : current[d] # op.prev
    BY <2>1, <2>2, OwnHead DEF SearchInv, CommitServes, OfDoc
  <2>5. CurrentWhole'
    BY <2>1, <2>3, <2>4, OwnHead DEF SearchInv, CurrentWhole, Chunks
  <2> QED
    BY <2>1, <2>3, <2>5 DEF SearchInv, CommitServes, ArchiveHides, SweepOrders, OfDoc
<1>8. CASE HideChunk
  <2>1. /\ op.kind = "archive" /\ UNCHANGED <<status, current, flipped, owner, op, failures>>
    BY <1>8 DEF HideChunk, Doing
  <2>2. PICK p \in Parts : SetChunk(op.ver, p, "hidden")
    BY <1>8 DEF HideChunk, Chunks
  <2>3. /\ chunk' \in [Versions -> [Parts -> ChunkStates]]
        /\ \A u \in Versions, q \in Parts : chunk'[u][q] = "none" => chunk[u][q] = "none"
    BY <2>2, OneChunk DEF SearchInv, ChunkStates
  <2>5. CurrentWhole'
    BY <2>1, <2>3, OwnHead DEF SearchInv, CurrentWhole, Chunks
  <2> QED
    BY <2>1, <2>3, <2>5 DEF SearchInv, CommitServes, ArchiveHides, SweepOrders
<1>9. ASSUME NEW d \in Docs, BeginArchive(d) PROVE SearchInv'
  <2>1. /\ op' = [kind |-> "archive", step |-> "hide", doc |-> d, ver |-> current[d]]
        /\ status'[d] = "archived" /\ current[d] # 0 /\ UNCHANGED <<current, chunk, failures>>
    BY <1>9 DEF BeginArchive, Exists, WikiInv, TablesOK
  <2> QED
    BY <2>1 DEF SearchInv, CurrentWhole, CommitServes, ArchiveHides, SweepOrders, Chunks
<1>10. ASSUME UNCHANGED <<current, chunk>>, failures' \in Nat,
              op'.kind \notin {"commit", "archive", "sweep"} PROVE SearchInv'
  BY <1>10 DEF SearchInv, CurrentWhole, CommitServes, ArchiveHides, SweepOrders, Chunks
<1>11. CASE \/ CommitReturns \/ ArchiveOrRestoreReturns \/ Fail \/ \E d \in Docs : BeginRestore(d)
  <2>1. /\ UNCHANGED <<current, chunk>> /\ failures' \in Nat
        /\ op'.kind \notin {"commit", "archive", "sweep"}
    BY <1>11 DEF CommitReturns, ArchiveOrRestoreReturns, Fail, BeginRestore, Free, SearchInv
  <2> QED
    BY <1>10, <2>1
<1>12. ASSUME UNCHANGED <<status, current, owner, chunk, flipped, op, failures>> PROVE SearchInv'
  BY <1>12 DEF SearchInv, CurrentWhole, CommitServes, ArchiveHides, SweepOrders, Chunks, OfDoc,
     Exact, Exists
<1>13. CASE \/ UNCHANGED vars
            \/ \E d \in Docs, parent \in Versions, b \in Bodies : CommitNothing(d, parent, b)
  BY <1>12, <1>13 DEF vars, CommitNothing
<1>14. CASE BeginSweep
  <2>1. PICK d \in StoredDocs, old \in BOOLEAN :
          op' = [kind |-> "sweep", step |-> "rows", doc |-> d, todo |-> StoredDocs \ {d}, old |-> old]
    BY <1>14 DEF BeginSweep, Visit
  <2>2. UNCHANGED <<status, current, chunk, owner, failures>>
    BY <1>14 DEF BeginSweep
  <2>3. \A e \in Docs \ StoredDocs : Exact(e)'
    BY <2>2 DEF StoredDocs, Exact, Exists
  <2>4. SweepOrders'
    BY <2>1, <2>2, <2>3 DEF SweepOrders, StoredDocs
  <2> QED
    BY <2>1, <2>2, <2>4 DEF SearchInv, CurrentWhole, CommitServes, ArchiveHides, Chunks
<1>15. ASSUME NEW d \in Docs, SweepAbandoned(d) PROVE SearchInv'
  <2>1. op.kind = "sweep" /\ op.doc = d /\ current[d] = 0
    BY <1>15 DEF SweepAbandoned, Sweeping
  <2>2. ASSUME NEW v \in Leftover(d), RemoveRow(v) PROVE SearchInv'
    BY <1>12, <2>2 DEF RemoveRow
  <2>3. ASSUME NEW v \in Strays(d), RemoveChunk(v) PROVE SearchInv'
    BY <2>1, <2>3, ChunkRemoved DEF Strays
  <2>4. ASSUME status' = [status EXCEPT ![d] = "none"],
               UNCHANGED <<current, owner, chunk, op, failures>> PROVE SearchInv'
    <3>1. ASSUME NEW e \in Docs \ ({op.doc} \cup op.todo) PROVE Exact(e)'
      <4>1. e # d /\ status'[e] = status[e] /\ Exact(e)
        BY <2>1, <2>4, <3>1 DEF SearchInv, SweepOrders, WikiInv, TablesOK
      <4> QED
        BY <2>4, <4>1, Untouched
    <3>2. SweepOrders'
      BY <2>4, <3>1 DEF SearchInv, SweepOrders
    <3> QED
      BY <2>1, <2>4, <3>2 DEF SearchInv, CurrentWhole, CommitServes, ArchiveHides, Chunks
  <2> QED
    BY <1>15, <2>2, <2>3, <2>4 DEF SweepAbandoned
<1>16. ASSUME NEW d \in Docs, SweepOrphan(d) \/ SweepStray(d) PROVE SearchInv'
  <2>1. op.kind = "sweep" /\ op.doc = d
    BY <1>16 DEF SweepOrphan, SweepStray, Sweeping
  <2>2. PICK v : /\ owner[v] = d /\ v # current[d]
                 /\ RemoveChunk(v) \/ RemoveRow(v)
    <3>1. CASE SweepStray(d)
      BY <3>1 DEF SweepStray, Strays
    <3>2. CASE SweepOrphan(d)
      <4>1. PICK v \in Leftover(d) : RemoveChunk(v) \/ RemoveRow(v)
        BY <3>2 DEF SweepOrphan
      <4>2. v # current[d]
        BY <4>1 DEF Leftover, WikiInv, TablesOK
      <4> QED
        BY <4>1, <4>2 DEF Leftover
    <3> QED
      BY <1>16, <3>1, <3>2
  <2>3. ASSUME RemoveRow(v) PROVE SearchInv'
    BY <1>12, <2>3 DEF RemoveRow
  <2> QED
    BY <2>1, <2>2, <2>3, ChunkRemoved
<1>17. ASSUME NEW d \in Docs, SweepRepair(d) PROVE SearchInv'
  <2>1. /\ op.kind = "sweep" /\ op.doc = d /\ current[d] # 0
        /\ UNCHANGED <<status, current, owner, op, failures>>
    BY <1>17 DEF SweepRepair, Sweeping
  <2>2. PICK p \in Parts, s \in {"shown", "hidden"} : SetChunk(current[d], p, s)
    BY <1>17 DEF SweepRepair, Mismatched, Chunks
  <2>3. /\ chunk' \in [Versions -> [Parts -> ChunkStates]]
        /\ \A u \in Versions, q \in Parts : chunk'[u][q] = "none" => chunk[u][q] = "none"
        /\ \A u \in Versions, q \in Parts : u # current[d] => chunk'[u][q] = chunk[u][q]
    BY <2>2, OneChunk DEF SearchInv, ChunkStates
  <2>4. CurrentWhole'
    BY <2>1, <2>3, OwnHead DEF SearchInv, CurrentWhole, Chunks
  <2>5. owner[current[d]] = d
    BY <2>1, OwnHead
  <2>6. ASSUME NEW e \in Docs \ ({op.doc} \cup op.todo) PROVE Exact(e)'
    <3>1. Exact(e) /\ e # d
      BY <2>1, <2>6 DEF SearchInv, SweepOrders
    <3> QED
      BY <2>1, <2>3, <2>5, <3>1, Untouched
  <2>7. SweepOrders'
    BY <2>1, <2>6 DEF SearchInv, SweepOrders
  <2> QED
    BY <2>1, <2>3, <2>4, <2>7 DEF SearchInv, CommitServes, ArchiveHides
<1>18. ASSUME NEW d \in Docs, SweepNext(d) PROVE SearchInv'
  <2>1. /\ op.kind = "sweep" /\ op.doc = d /\ Swept(d)
        /\ UNCHANGED <<status, current, owner, chunk, failures>>
    BY <1>18 DEF SweepNext, Sweeping
  <2>2. Exact(d)
    BY <2>1, SweptIsExact DEF Swept, Exact, Exists
  <2>3. \A e \in Docs \ op.todo : Exact(e)'
    BY <2>1, <2>2 DEF SearchInv, SweepOrders, Exact, Exists, Chunks
  <2>4. CASE op' = Free
    BY <1>10, <2>1, <2>4 DEF Free, SearchInv
  <2>5. ASSUME NEW e \in op.todo, Visit(e, op.todo \ {e}) PROVE SearchInv'
    <3>1. PICK old \in BOOLEAN :
            op' = [kind |-> "sweep", step |-> "rows", doc |-> e, todo |-> op.todo \ {e}, old |-> old]
      BY <2>5 DEF Visit
    <3>2. op.todo \subseteq Docs
      BY <2>1 DEF SearchInv, SweepOrders
    <3>3. SweepOrders'
      BY <2>3, <2>5, <3>1, <3>2 DEF SweepOrders
    <3> QED
      BY <2>1, <3>1, <3>3 DEF SearchInv, CurrentWhole, CommitServes, ArchiveHides, Chunks
  <2> QED
    BY <1>18, <2>4, <2>5 DEF SweepNext
<1> QED
  BY <1>1, <1>2, <1>3, <1>4, <1>5, <1>6, <1>7, <1>8, <1>9, <1>11, <1>13, <1>14, <1>15, <1>16,
     <1>17, <1>18 DEF Next, Request, OpStep

LEMMA WikiAlways == Spec => [](WikiInv /\ SearchInv)
BY WikiInit, WikiNext, InitSearch, NextSearch, PTL DEF Spec

-----------------------------------------------------------------------------
(* Commits keep serving                                                    *)

\* A search finds the whole of version v of d.
Serves(v, d) == OfDoc(v, d) /\ \A p \in Parts : chunk[v][p] \notin {"none", "hidden"}

LEMMA ServedBy == WikiInv => \A d \in Docs : Served(d) <=> \E v \in Versions : Serves(v, d)
<1> SUFFICES ASSUME WikiInv, NEW d \in Docs
             PROVE  Served(d) <=> \E v \in Versions : Serves(v, d)
  OBVIOUS
<1>1. \A v \in flipped : v \in Versions /\ v # 0
  BY WikiStoreAssumption DEF WikiInv, HeadsOK, TablesOK, Versions
<1>2. \A v \in flipped :
        Chunks(v, {"none", "hidden"}) = {} <=> \A p \in Parts : chunk[v][p] \notin {"none", "hidden"}
  BY <1>1 DEF Chunks
<1> QED
  BY <1>1, <1>2 DEF Served, Serves, OfDoc

\* A version that serves goes on serving, or the one that supersedes it does.
LEMMA ServiceGoesOn ==
  ASSUME WikiInv, SearchInv, [Next]_vars, op.kind # "sweep",
         NEW d \in Docs, status'[d] = "active", NEW v \in Versions, Serves(v, d)
  PROVE  \E u \in Versions : Serves(u, d)'
<1> USE WikiStoreAssumption DEF docTable, verTable
<1>1. ASSUME flipped \subseteq flipped', owner'[v] = owner[v],
             \A p \in Parts : chunk'[v][p] \in {chunk[v][p], "shown"}
      PROVE  Serves(v, d)'
  BY <1>1 DEF Serves, OfDoc
<1>2. CASE AddVersion
  <2>1. v # written' /\ owner' = [owner EXCEPT ![written'] = op.doc] /\ UNCHANGED <<chunk, flipped>>
    BY <1>2 DEF AddVersion, Serves, OfDoc, WikiInv, HeadsOK, TablesOK
  <2> QED
    BY <1>1, <2>1 DEF WikiInv, TablesOK
<1>3. CASE AddChunk
  <2>1. PICK p \in Parts : chunk[op.ver][p] = "none" /\ SetChunk(op.ver, p, "hidden")
    BY <1>3 DEF AddChunk, Chunks
  <2>2. \A q \in Parts : chunk'[v][q] = chunk[v][q]
    BY <2>1, OneChunk DEF Serves, SearchInv, ChunkStates
  <2> QED
    BY <1>1, <1>3, <2>2 DEF AddChunk
<1>4. CASE ShowChunk
  <2>1. PICK p \in Parts : SetChunk(op.ver, p, "shown")
    BY <1>4 DEF ShowChunk, Chunks
  <2>2. \A q \in Parts : chunk'[v][q] \in {chunk[v][q], "shown"}
    BY <2>1, OneChunk DEF SearchInv, ChunkStates
  <2> QED
    BY <1>1, <1>4, <2>2 DEF ShowChunk
<1>5. CASE DropChunk
  <2>1. /\ op.kind = "commit" /\ op.step = "show" /\ op.doc \in Docs
        /\ Chunks(op.ver, {"hidden"}) = {} /\ UNCHANGED <<flipped, owner>>
    BY <1>5 DEF DropChunk, Doing, WikiInv, CommitOK
  <2>2. PICK p \in Parts : op.prev # 0 /\ SetChunk(op.prev, p, "none")
    BY <1>5 DEF DropChunk, Chunks
  <2>3. \A u \in Versions, q \in Parts : u # op.prev => chunk'[u][q] = chunk[u][q]
    BY <2>2, OneChunk DEF SearchInv, ChunkStates
  <2>4. CASE v # op.prev
    BY <1>1, <2>1, <2>3, <2>4
  <2>5. CASE v = op.prev
    <3>1. /\ op.doc = d /\ op.ver = current[d] /\ current[d] # 0 /\ op.ver # op.prev
      BY <2>1, <2>2, <2>5 DEF SearchInv, CommitServes, Serves, OfDoc
    <3>2. OfDoc(op.ver, d) /\ op.ver \in Versions
      BY <3>1, OwnHead DEF OfDoc
    <3>3. Chunks(op.ver, {"none"}) = {}
      BY <3>1 DEF SearchInv, CurrentWhole
    <3>4. \A q \in Parts : chunk'[op.ver][q] \notin {"none", "hidden"}
      BY <2>1, <2>3, <3>1, <3>2, <3>3 DEF Chunks
    <3> QED
      BY <2>1, <3>2, <3>4 DEF Serves, OfDoc
  <2> QED
    BY <2>4, <2>5
<1>6. CASE HideChunk
  <2>1. op.kind = "archive" /\ UNCHANGED <<status, flipped, owner>>
    BY <1>6 DEF HideChunk, Doing
  <2>2. PICK p \in Parts : SetChunk(op.ver, p, "hidden")
    BY <1>6 DEF HideChunk, Chunks
  <2>3. /\ op.ver = current[op.doc] /\ op.ver # 0 /\ op.doc \in Docs /\ status[op.doc] = "archived"
    BY <2>1 DEF SearchInv, ArchiveHides
  <2>4. v # op.ver
    BY <2>1, <2>3, OwnHead DEF Serves, OfDoc
  <2>5. \A q \in Parts : chunk'[v][q] = chunk[v][q]
    BY <2>2, <2>4, OneChunk DEF SearchInv, ChunkStates
  <2> QED
    BY <1>1, <2>1, <2>5
<1>7. CASE /\ UNCHANGED <<owner, chunk>> /\ flipped \subseteq flipped'
  BY <1>1, <1>7
<1>8. CASE \/ Flip \/ CommitReturns \/ ArchiveOrRestoreReturns \/ BeginSweep \/ Fail \/ UNCHANGED vars
           \/ \E e \in Docs : BeginArchive(e) \/ BeginRestore(e)
           \/ \E e \in Docs, b \in Bodies : BeginCreate(e, b)
           \/ \E e \in Docs, b \in Bodies, parent \in Versions :
                BeginUpdate(e, parent, b) \/ CommitNothing(e, parent, b)
  BY <1>7, <1>8 DEF Flip, CommitReturns, ArchiveOrRestoreReturns, BeginSweep, Fail, vars,
     BeginArchive, BeginRestore, BeginCreate, BeginUpdate, CommitNothing
<1>9. ASSUME NEW e \in Docs, \/ SweepAbandoned(e) \/ SweepOrphan(e) \/ SweepStray(e)
                             \/ SweepRepair(e) \/ SweepNext(e)
      PROVE  FALSE
  BY <1>9 DEF SweepAbandoned, SweepOrphan, SweepStray, SweepRepair, SweepNext, Sweeping
<1> QED
  BY <1>2, <1>3, <1>4, <1>5, <1>6, <1>8, <1>9 DEF Next, Request, OpStep

\* Whatever is committed, archived, restored or breaks off, an active document
\* that a search finds whole in some version is found whole after every step.
THEOREM AlwaysServed == Spec => CommitsKeepServing
<1>0. (WikiInv => \A d \in Docs : Served(d) <=> \E v \in Versions : Serves(v, d))'
  BY ServedBy, PTL
<1>1. WikiInv /\ SearchInv /\ WikiInv' /\ [Next]_vars =>
        [op.kind # "sweep" => \A d \in Docs : Served(d) /\ status'[d] = "active" => Served(d)']_vars
  <2> SUFFICES ASSUME WikiInv, SearchInv, WikiInv', [Next]_vars, op.kind # "sweep",
                      NEW d \in Docs, Served(d), status'[d] = "active"
               PROVE  Served(d)'
    OBVIOUS
  <2>1. PICK v \in Versions : Serves(v, d)
    BY ServedBy
  <2>2. \E u \in Versions : Serves(u, d)'
    BY <2>1, ServiceGoesOn
  <2> QED
    BY <1>0, <2>2
<1> QED
  BY <1>1, WikiAlways, PTL DEF Spec, CommitsKeepServing

\* A sweep that was not cut short leaves the search plane of every document in
\* agreement with its row, whatever it met.
THEOREM ExactSweeps == Spec => SweepEndsExact
<1>1. WikiInv /\ SearchInv /\ [Next]_vars =>
        [op.kind = "sweep" /\ op' = Free /\ failures' = failures => \A d \in Docs : Exact(d)]_vars
  <2> SUFFICES ASSUME WikiInv, SearchInv, [Next]_vars, op.kind = "sweep", op' = Free,
                      failures' = failures, NEW d \in Docs
               PROVE  Exact(d)
    OBVIOUS
  <2>1. op # Free /\ ~Fail /\ op' # op
    BY DEF Free, Fail, SearchInv
  <2>2. PICK e \in Docs : SweepNext(e)
    BY <2>1 DEF Next, Request, OpStep, vars, BeginArchive, BeginRestore, BeginCreate, BeginUpdate,
       CommitNothing, AddVersion, AddChunk, Flip, ShowChunk, DropChunk, CommitReturns, HideChunk,
       ArchiveOrRestoreReturns, Doing, SweepAbandoned, SweepOrphan, SweepStray, SweepRepair,
       RemoveChunk, RemoveRow, BeginSweep
  <2>3. op.doc = e /\ Swept(e) /\ op.todo = {}
    BY <2>2 DEF SweepNext, Sweeping, Visit, Free
  <2>4. Exact(e)
    BY <2>3, SweptIsExact DEF Swept, Exact, Exists
  <2> QED
    BY <2>3, <2>4 DEF SearchInv, SweepOrders
<1> QED
  BY <1>1, WikiAlways, PTL DEF Spec, SweepEndsExact
==============================================================================
