----------------------------- MODULE WikiStore ------------------------------
(***************************************************************************)
(* The write path of the wiki, src/anda_brain/src/wiki/mod.rs: commit,     *)
(* archive, restore and orphan_sweep as sequences of single row writes.    *)
(* The write lock admits one operation at a time.  Any write may fail, and *)
(* the process may die between any two: both release the lock and leave    *)
(* the writes so far in the store.  Readers take no lock, so every state   *)
(* is one that a search or a read can see.                                 *)
(*                                                                         *)
(* A body stands for all that a commit carries: text, title, tags, label,  *)
(* slug and namespace.  A version has one chunk row per member of Parts.   *)
(***************************************************************************)
EXTENDS Naturals, FiniteSets

CONSTANTS
  Docs,         \* document slots
  Bodies,       \* what a commit may carry
  Parts,        \* the chunks of a version
  MaxVersions,  \* bound: version rows ever written
  MaxFailures   \* bound: failed writes and crashes

ASSUME WikiStoreAssumption ==
  /\ IsFiniteSet(Docs) /\ IsFiniteSet(Parts)
  /\ MaxVersions \in Nat /\ MaxFailures \in Nat
  /\ "none" \notin Bodies /\ "none" \notin Docs

VARIABLES
  status,    \* status of the document row, "none" when there is no row
  current,   \* its current_version, 0 while the document initializes
  written,   \* version ids handed out so far
  rows,      \* the version rows in the store
  owner,     \* doc_id of a version's row and chunk rows
  body,      \* content (and checksum) of a version
  chunk,     \* the chunk rows of a version: absent, hidden or shown
  op,        \* the operation that holds the write lock
  flipped,   \* history: the versions that became current
  seen,      \* history: the version the author of a version had read
  acked,     \* history: the version of the last commit a client saw succeed
  lost,      \* history: documents whose archive, restore or sweep was cut short
  failures   \* failures so far

docTable   == <<status, current>>
verTable   == <<written, rows, owner, body, seen>>
vars == <<docTable, verTable, chunk, op, flipped, acked, lost, failures>>

Versions == 1..MaxVersions

Free == [kind |-> "free"]

Init ==
  /\ status = [d \in Docs |-> "none"]
  /\ current = [d \in Docs |-> 0]
  /\ written = 0
  /\ rows = {}
  /\ owner = [v \in Versions |-> "none"]
  /\ body = [v \in Versions |-> "none"]
  /\ chunk = [v \in Versions |-> [p \in Parts |-> "none"]]
  /\ op = Free
  /\ flipped = {}
  /\ seen = [v \in Versions |-> 0]
  /\ acked = [d \in Docs |-> 0]
  /\ lost = {}
  /\ failures = 0

-----------------------------------------------------------------------------
(* Helpers                                                                 *)

\* doc_record: an initializing document reads as absent.
Exists(d) == status[d] # "none" /\ current[d] # 0

Chunks(v, states) == {p \in Parts : v # 0 /\ chunk[v][p] \in states}
SetChunk(v, p, s) == chunk' = [chunk EXCEPT ![v][p] = s]

Doing(kind, step) == op.kind = kind /\ op.step = step

-----------------------------------------------------------------------------
(* commit_prepared                                                         *)

\* A new document begins as a row with current_version 0.
BeginCreate(d, b) ==
  /\ op = Free /\ written < MaxVersions
  /\ status[d] = "none"
  /\ status' = [status EXCEPT ![d] = "active"]
  /\ op' = [kind |-> "commit", step |-> "version", doc |-> d, ver |-> 0,
            prev |-> 0, body |-> b, seen |-> 0]
  /\ UNCHANGED <<current, verTable, chunk, flipped, acked, lost, failures>>

\* Mutant: parent_version is not compared with the current version.
BeginUpdateUnchecked(d, parent, b) ==
  /\ op = Free /\ written < MaxVersions
  /\ Exists(d) /\ status[d] = "active" /\ parent <= current[d]
  /\ body[current[d]] # b
  /\ op' = [kind |-> "commit", step |-> "version", doc |-> d, ver |-> 0,
            prev |-> current[d], body |-> b, seen |-> parent]
  /\ UNCHANGED <<docTable, verTable, chunk, flipped, acked, lost, failures>>

\* A commit of an archived document or with an outdated parent is refused.
BeginUpdate(d, parent, b) ==
  /\ op = Free /\ written < MaxVersions
  /\ Exists(d) /\ status[d] = "active" /\ parent = current[d]
  /\ body[current[d]] # b
  /\ op' = [kind |-> "commit", step |-> "version", doc |-> d, ver |-> 0,
            prev |-> current[d], body |-> b, seen |-> parent]
  /\ UNCHANGED <<docTable, verTable, chunk, flipped, acked, lost, failures>>

\* Nothing changed, nothing written, and the client is told so.
CommitNothing(d, parent, b) ==
  /\ op = Free
  /\ Exists(d) /\ status[d] = "active" /\ parent = current[d]
  /\ body[current[d]] = b
  /\ acked' = [acked EXCEPT ![d] = current[d]]
  /\ UNCHANGED <<docTable, verTable, chunk, op, flipped, lost, failures>>

AddVersion ==
  /\ Doing("commit", "version")
  /\ written' = written + 1
  /\ rows' = rows \cup {written'}
  /\ owner' = [owner EXCEPT ![written'] = op.doc]
  /\ body' = [body EXCEPT ![written'] = op.body]
  /\ seen' = [seen EXCEPT ![written'] = op.seen]
  /\ op' = [op EXCEPT !.ver = written', !.step = "chunks"]
  /\ UNCHANGED <<docTable, chunk, flipped, acked, lost, failures>>

AddChunk ==
  /\ Doing("commit", "chunks")
  /\ \E p \in Chunks(op.ver, {"none"}) : SetChunk(op.ver, p, "hidden")
  /\ UNCHANGED <<docTable, verTable, op, flipped, acked, lost, failures>>

\* The activation point.
Flip ==
  /\ Doing("commit", "chunks") /\ Chunks(op.ver, {"none"}) = {}
  /\ status' = [status EXCEPT ![op.doc] = "active"]
  /\ current' = [current EXCEPT ![op.doc] = op.ver]
  /\ flipped' = flipped \cup {op.ver}
  /\ op' = [op EXCEPT !.step = "show"]
  /\ UNCHANGED <<verTable, chunk, acked, lost, failures>>

\* The chunks of the new, or of the restored, version.
ShowChunk ==
  /\ op.kind \in {"commit", "restore"} /\ op.step = "show"
  /\ \E p \in Chunks(op.ver, {"hidden"}) : SetChunk(op.ver, p, "shown")
  /\ UNCHANGED <<docTable, verTable, op, flipped, acked, lost, failures>>

\* Mutant: the superseded chunks go before the new ones are shown.
DropChunkEarly ==
  /\ Doing("commit", "show")
  /\ \E p \in Chunks(op.prev, {"hidden", "shown"}) : SetChunk(op.prev, p, "none")
  /\ UNCHANGED <<docTable, verTable, op, flipped, acked, lost, failures>>

DropChunk ==
  /\ Doing("commit", "show") /\ Chunks(op.ver, {"hidden"}) = {}
  /\ \E p \in Chunks(op.prev, {"hidden", "shown"}) : SetChunk(op.prev, p, "none")
  /\ UNCHANGED <<docTable, verTable, op, flipped, acked, lost, failures>>

\* The audit event is written and the client sees success.
CommitReturns ==
  /\ Doing("commit", "show")
  /\ Chunks(op.ver, {"hidden"}) = {}
  /\ Chunks(op.prev, {"hidden", "shown"}) = {}
  /\ acked' = [acked EXCEPT ![op.doc] = op.ver]
  /\ op' = Free
  /\ UNCHANGED <<docTable, verTable, chunk, flipped, lost, failures>>

-----------------------------------------------------------------------------
(* archive and restore                                                     *)

BeginArchive(d) ==
  /\ op = Free
  /\ Exists(d) /\ status[d] # "archived"
  /\ status' = [status EXCEPT ![d] = "archived"]
  /\ op' = [kind |-> "archive", step |-> "hide", doc |-> d, ver |-> current[d]]
  /\ UNCHANGED <<current, verTable, chunk, flipped, acked, lost, failures>>

HideChunk ==
  /\ Doing("archive", "hide")
  /\ \E p \in Chunks(op.ver, {"shown"}) : SetChunk(op.ver, p, "hidden")
  /\ UNCHANGED <<docTable, verTable, op, flipped, acked, lost, failures>>

BeginRestore(d) ==
  /\ op = Free
  /\ Exists(d) /\ status[d] = "archived"
  /\ status' = [status EXCEPT ![d] = "active"]
  /\ op' = [kind |-> "restore", step |-> "show", doc |-> d, ver |-> current[d]]
  /\ UNCHANGED <<current, verTable, chunk, flipped, acked, lost, failures>>

\* The chunks are done; the audit event follows.
ArchiveOrRestoreReturns ==
  /\ \/ Doing("archive", "hide") /\ Chunks(op.ver, {"shown"}) = {}
     \/ Doing("restore", "show") /\ Chunks(op.ver, {"hidden"}) = {}
  /\ op' = Free
  /\ UNCHANGED <<docTable, verTable, chunk, flipped, acked, lost, failures>>

-----------------------------------------------------------------------------
(* orphan_sweep                                                            *)

\* Versions that never activated.
Leftover(d) == {v \in rows : owner[v] = d /\ v > current[d]}

\* Mutant: chunks of other versions are not looked for.
StraysNone(d) == {}

\* Chunk rows of a document that its current version does not have.
Strays(d) == {v \in Versions : owner[v] = d /\ v # current[d]
                               /\ Chunks(v, {"hidden", "shown"}) # {}}

\* Mutant: hidden chunks of an active document are left alone.
MismatchedShown(d) == Chunks(current[d], IF status[d] = "active" THEN {} ELSE {"shown"})

\* Chunks of the current version whose visibility contradicts the row.
Mismatched(d) ==
  Chunks(current[d], IF status[d] = "active" THEN {"hidden"} ELSE {"shown"})

\* The rows are visited one by one.  An initializing document is taken for
\* a leftover once it is older than SENTINEL_TTL_MS.
Visit(d, todo) ==
  \E old \in BOOLEAN : op' = [kind |-> "sweep", step |-> "rows", doc |-> d,
                              todo |-> todo, old |-> old]

StoredDocs == {d \in Docs : status[d] # "none"}

BeginSweep ==
  /\ op = Free
  /\ \E d \in StoredDocs : Visit(d, StoredDocs \ {d})
  /\ UNCHANGED <<docTable, verTable, chunk, flipped, acked, lost, failures>>

Sweeping(d) == op.kind = "sweep" /\ op.doc = d

RemoveChunk(v) ==
  /\ \E p \in Chunks(v, {"hidden", "shown"}) : SetChunk(v, p, "none")
  /\ UNCHANGED <<docTable, verTable, op, flipped, acked, lost, failures>>

RemoveRow(v) ==
  /\ rows' = rows \ {v}
  /\ UNCHANGED <<docTable, written, owner, body, seen, chunk, op, flipped,
                 acked, lost, failures>>

\* An abandoned create: version rows, then chunks, then the document.
SweepAbandoned(d) ==
  /\ Sweeping(d) /\ current[d] = 0 /\ op.old /\ status[d] # "none"
  /\ \/ \E v \in Leftover(d) : RemoveRow(v)
     \/ Leftover(d) = {} /\ \E v \in Strays(d) : RemoveChunk(v)
     \/ /\ Leftover(d) = {} /\ Strays(d) = {}
        /\ status' = [status EXCEPT ![d] = "none"]
        /\ UNCHANGED <<current, verTable, chunk, op, flipped, acked, lost, failures>>

\* An orphan version loses its chunks, then its row.
SweepOrphan(d) ==
  /\ Sweeping(d) /\ current[d] # 0
  /\ \E v \in Leftover(d) :
       \/ RemoveChunk(v)
       \/ Chunks(v, {"hidden", "shown"}) = {} /\ RemoveRow(v)

SweepStray(d) ==
  /\ Sweeping(d) /\ current[d] # 0 /\ Leftover(d) = {}
  /\ \E v \in Strays(d) : RemoveChunk(v)

SweepRepair(d) ==
  /\ Sweeping(d) /\ current[d] # 0 /\ Leftover(d) = {} /\ Strays(d) = {}
  /\ \E p \in Mismatched(d) :
       SetChunk(current[d], p, IF status[d] = "active" THEN "shown" ELSE "hidden")
  /\ UNCHANGED <<docTable, verTable, op, flipped, acked, lost, failures>>

Swept(d) ==
  IF current[d] = 0
    THEN ~op.old \/ status[d] = "none"
    ELSE Leftover(d) = {} /\ Strays(d) = {} /\ Mismatched(d) = {}

\* On to the next row, or done: the event OrphanSwept is written.
SweepNext(d) ==
  /\ Sweeping(d) /\ Swept(d)
  /\ \/ \E e \in op.todo : Visit(e, op.todo \ {e})
     \/ op.todo = {} /\ op' = Free
  /\ lost' = lost \ {d}
  /\ UNCHANGED <<docTable, verTable, chunk, flipped, acked, failures>>

-----------------------------------------------------------------------------
\* A write fails, or the process dies: the lock is free again.
Fail ==
  /\ op # Free /\ failures < MaxFailures
  /\ failures' = failures + 1
  /\ lost' = IF op.kind = "commit" THEN lost ELSE lost \cup {op.doc}
  /\ op' = Free
  /\ UNCHANGED <<docTable, verTable, chunk, flipped, acked>>

Request ==
  \E d \in Docs :
    \/ BeginArchive(d)
    \/ BeginRestore(d)
    \/ \E b \in Bodies :
         \/ BeginCreate(d, b)
         \/ \E parent \in Versions :
              BeginUpdate(d, parent, b) \/ CommitNothing(d, parent, b)

OpStep ==
  \/ AddVersion \/ AddChunk \/ Flip \/ ShowChunk \/ DropChunk \/ CommitReturns
  \/ HideChunk \/ ArchiveOrRestoreReturns
  \/ \E d \in Docs : \/ SweepAbandoned(d) \/ SweepOrphan(d) \/ SweepStray(d)
                     \/ SweepRepair(d) \/ SweepNext(d)

Next == Request \/ BeginSweep \/ OpStep \/ Fail

Spec == Init /\ [][Next]_vars

\* The holder of the lock goes on, and housekeeping, which runs after every
\* maintenance, gets the lock: tokio's mutex serves waiters in order.
FairSpec == Spec /\ WF_vars(OpStep) /\ SF_vars(BeginSweep)

-----------------------------------------------------------------------------
(* Properties                                                              *)

\* The row writes of an operation add up to one atomic change of the
\* document's history, whatever fails.
History == INSTANCE WikiHistory WITH
  view <- [d \in Docs |-> IF current[d] = 0 THEN "absent" ELSE status[d]],
  head <- current,
  past <- [d \in Docs |-> {v \in flipped : owner[v] = d}],
  base <- [v \in Versions |-> IF v \in flipped THEN seen[v] ELSE 0],
  text <- [v \in Versions |-> IF v \in flipped THEN body[v] ELSE "none"]
ImplementsHistory == History!HSpec

\* Can a search find the whole of a version of d?
Served(d) == \E v \in flipped : owner[v] = d /\ Chunks(v, {"none", "hidden"}) = {}

\* No step of a commit, an archive or a restore, finished or failed, takes
\* away the last version of an active document that a search finds whole.
CommitsKeepServing ==
  [][op.kind # "sweep" =>
       \A d \in Docs : Served(d) /\ status'[d] = "active" => Served(d)']_vars

\* The search plane agrees with the document row.
Exact(d) ==
  Exists(d) =>
    /\ \A p \in Parts :
         chunk[current[d]][p] = IF status[d] = "active" THEN "shown" ELSE "hidden"
    /\ \A v \in Versions : owner[v] = d /\ v # current[d]
                             => Chunks(v, {"hidden", "shown"}) = {}

\* A sweep that ends has brought every document it visited back in order.
SweepEndsExact ==
  [][op.kind = "sweep" /\ op' = Free /\ failures' = failures
       => \A d \in Docs : Exact(d)]_vars

\* Whatever was cut short, the search plane is in order again and again.
RepairedInTheEnd == []<>(\A d \in Docs : Exact(d))

\* SKILL.md:404: committing identical content is "safe to retry": success
\* means that the version is searchable.
AckedIsSearchable ==
  \A d \in Docs :
    op = Free /\ status[d] = "active" /\ d \notin lost /\ acked[d] # 0
      /\ acked[d] = current[d] => Chunks(current[d], {"none", "hidden"}) = {}

\* mod.rs:145: "leftovers are invisible and reclaimed by orphan_sweep", so a
\* row below the current version is a version that once was current.
HistoryWasCurrent ==
  \A v \in rows : v <= current[owner[v]] => v \in flipped
=============================================================================
