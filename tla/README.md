# Verification of Anda Brain

TLA+ models, TLC runs and TLAPS proofs for `anda_brain`, the memory service of
this repository: a server that keeps, per *space*, a knowledge graph fed by
conversations, tidied by maintenance, queried by recall and enriched by a
versioned wiki.

    tlc -workers 2 -config SchedulerSafety.cfg MCScheduler
    tlc -workers 2 -config Requests.cfg MCRequests
    tlapm SchedulerProofs.tla

and likewise for the other runs of section 3 and the other `*Proofs.tla`. Paths
below are relative to `src/anda_brain/src/`.

## 1. Inventory

| Component | State it keeps | Operations | What makes it correct | Modules |
|---|---|---|---|---|
| **Formation** `agents/formation.rs` | slot `processing_conversation` (atomic, 0 = idle); watermark `brain_processed` and conversation statuses in the store | ingest (`run`), `start_process`, `try_process`, `process_loop` | one loop at a time; conversations encoded in order; the watermark never passes one that was not encoded; nothing queued is forgotten | `Scheduler`, `FormationQueue` |
| **Maintenance** `agents/maintenance.rs` | flag `processing`, `external_claim`, one mark per scope | claim, inherit, run a cycle, record the mark | one cycle at a time, settlement included; marks grow; the flag is always given back | `Scheduler` |
| **Space** `space.rs` | both agents, counters, tokens, models, the database | ingest, recall, probe, maintenance, settle, self-test, forget, fork, shadow evaluation | debts are booked once; forget reaches every store; a comparison is blind | `UsageLedger`, `ShadowEval`, `Access` |
| **Space registry** `space.rs` (`AppState`), `bin/main.rs` | map id to lazily opened space, last access | load, flush, evict, create, fork, delete, shutdown | one open database per storage; users keep their space; a shutdown closes every space | `SpaceRegistry` |
| **Runner loop** `agents.rs`, `agents/recall.rs` | turn, token and time budget of one agent run; history ring | `drive_runner_loop`, compact, persist, push | a run ends within its budget; its transcript and final status are stored | `RunnerLoop` |
| **Primer** `agents/recall.rs` | one cached description of the graph | look up, cache | it is no older than its TTL and one lookup | `PrimerCache` |
| **Usage ledger** `ledger.rs` | per-memory recall and flush counters, self-test record | record, read unflushed, mark flushed, forget | each recall reaches the graph once; a failed flush is retried | `UsageLedger` |
| **Miss cache** `ledger.rs` | fingerprints of empty probes | record, look up, purge, clear | "nothing known" is served no longer than the TTL after the memory was written | `MissCache` |
| **Wiki store** `wiki/mod.rs` | documents, versions, chunks, slugs, events | commit, archive, restore, search, read, guard, list, sweep, prune | a commit shows completely or not at all; leftovers are reclaimed; citations verify for ever; listings are complete | `WikiStore`, `WikiHistory`, `Citations`, `Listing`, `EventLog` |
| **Wiki digest** `wiki/digest.rs` | cursor, pending restores, fuse, ledger of facts | run, digest a version, retract | every live version reaches the graph; what an older version, or one that was archived or labeled, left there is retracted | `WikiDigest` |
| **OKF bundles** `wiki/okf.rs` | none | import, export | imports converge; an export says what its documents say | `Bundle` |
| **Chunker** `wiki/chunk.rs` | none | split a page | chunks tile the page, in bounds, under a path true of every line | `Chunker` |
| **Authorization** `authz.rs`, `space.rs` | admin keys, space tokens, tier, public flag | check, authorize; mint, verify, revoke, publish | no caller sees or does more than the credential opens | `Access` |
| **HTTP and MCP** `handler.rs`, `mcp.rs` | budget of model calls | one handler per route, one function per tool | both channels admit the same callers to the same things | `Routes`, `Access` |
| **Evaluation** `eval.rs`, `eval/*` | suites, bases and forks, optimizer state | replay, score, aggregate, compare, optimize | a comparison compares alike; only what improves is kept | `EvalTimeline`, `EvalScore`, `EvalAggregate`, `EvalSuite`, `Optimizer` |
| **Mining, assessment** `eval/mine.rs`, `assess.rs` | none | logs to scenarios; one-shot report | not modelled: text transformation | |
| **Wiki tools, prompts, types, test kit** `wiki/tool.rs`, `wiki/evalset.rs`, `agents/prompts.rs`, `types.rs`, `lib.rs`, `testkit.rs` | none | adapters, data | not modelled: thin, mapped where used | |
| **CLI, plugin** `src/anda-cli`, `src/anda-brain-openclaw` | none | client commands and hooks | not modelled: stateless clients | |

Interaction: a request handler authorizes, loads the space and calls it. Ingest
stores a conversation and may spawn the formation loop. The loop, after each
conversation, asks `Hooks::try_start_maintenance`, which settles the graph and
spawns a maintenance cycle; when the cycle ends it calls
`Hooks::try_start_formation`, which resumes formation and kicks the wiki digest,
the housekeeping and the self-test. The agents know each other only through two
atomics, read and written from many tokio tasks; everything durable is in
collections whose single writes are atomic and whose sequences are not. A space
may be evicted and reloaded between requests, and the process may die anywhere.

The hard behaviours are therefore: check-then-act on the atomics across an
`await`; handoffs between tasks that end and tasks that start; error paths that
release what somebody else already took; crashes between two writes; read-through
caches invalidated while they are filled; readers of many rows beside writers of
single ones; locks that must span a check and the write after it. `PROJECT.json`
lists them, each at its line, under `hazards`.

## 2. Plan and state

| Step | Modules | Composition and abstract specification | State |
|---|---|---|---|
| 1 | `Scheduler` | implements `FormationQueue` | checked, eight theorems |
| 2 | `WikiStore` | implements `WikiHistory` | checked, three theorems |
| 3 | `UsageLedger` | settlement, recall and forget over an external graph | checked, four theorems |
| 4 | `WikiDigest` | digest and graph beside the writers of the wiki | checked, three theorems |
| 5 | `Access` EXTENDS `Routes` | one decision, asked by every route of both channels | checked, three theorems |
| 6 | `SpaceRegistry`, `RunnerLoop` | composed for TLC in `MCRuntime` | checked, three theorems on the registry, one on the runner |
| 7 | `MissCache`, `PrimerCache`, `Chunker`, `Bundle`, `Citations`, `Listing`, `EventLog` | composed with `Access` in `MCRequests` | checked, one theorem on the caches, four on what goes over many rows of the wiki, one on the chunker |
| 8 | `EvalTimeline`, `EvalScore`, `EvalAggregate`, `EvalSuite`, `ShadowEval`, `Optimizer` | composed in `MCEvaluation` | checked, five theorems |

Nothing of the plan is open.
All modules are written to be proved about: constants with their meaning, one action per step, no RECURSIVE operator.

`MCRuntime`, `MCRequests` and `MCEvaluation` put parts side by side that share
no state in the code either: a variable `focus` names the part that a behaviour
follows while the others stand still, so the run explores the sum of the parts
and not their product. Nothing is lost by it, because no property relates two
parts. Where parts do share state they are one module: formation with
maintenance, eviction and restart; settlement with recall and forget; the digest
with the wiki's writers; tokens with requests and publishing; a service's keeper
with its loads.

## 3. Runs

| Run | Module | Shows |
|---|---|---|
| `SchedulerSafety` | `MCScheduler` | one owner of the slot, sound watermark, one maintenance, growing scope marks, `FormationQueue` |
| `SchedulerDrain` | `MCScheduler` | where nothing failed, the last task to end leaves no backlog; the watermark never goes back, whatever fails |
| `SchedulerLiveness` | `MCScheduler` | every conversation is encoded; slot and flag are freed again and again |
| `SchedulerClaimLost` | `MCScheduler` | violation: a late drop takes the next maintenance's flag |
| `WikiStoreSafety` | `WikiStore` | `WikiHistory`; commits never take away the last version a search finds whole; sweeps end exact; repair in the end |
| `UsageLedgerSettle` | `MCUsageLedger` | nothing lost, nothing made, no second charge, everything settles |
| `WikiDigest` | `WikiDigest` | nothing passed is forgotten but in the recorded ways, facts are accounted for, the fuse is earned, every version is digested |
| `WikiDigestCreate` | `WikiDigest` | violation: the cursor passes a first version before its flip |
| `Runtime` | `MCRuntime` | one open database, eviction spares users, orderly exit, sound runs, and the end of everything that should end |
| `Requests` | `MCRequests` | channels, access, accounts, caches, chunks, bundles, citations, listings, pruning |
| `BundleReimport` | `MCBundle` | violation: a bundle with an evaded name grows on every import |
| `Evaluation` | `MCEvaluation` | fair timelines, scores, suites, shadow evaluations and optimizer |

Further instances, each with a counterexample that section 12 explains:
`SchedulerMidSettlement` and `SchedulerReadError` (`MCScheduler`),
`WikiStoreRetry` and `WikiStorePhantom` (`WikiStore`), `UsageLedgerForget`
(`MCUsageLedger`), `RunnerConverged` (`RunnerLoop`), `ChunkPaths` (`MCChunker`)
and `MissCacheClear` (`MissCache`).

Deadlock is checked for the scheduler, the wiki store, the ledger and the digest.
The other runs switch it off: they bound requests, edits, rows or generations, and
when those are used up, or the process has exited, the system really stops.

## 4. The scheduler

`Scheduler` models one space. *Tasks* are tokio tasks. One action is the code
between two accesses to shared state that another task can interleave with.

| Model | Code |
|---|---|
| `total`, `status` | the conversation collection; `Ingest` is `add_conversation` |
| `processed`, `at` | extensions `brain_processed`, `full`, `quick`, `daydream` |
| `slot`, `processing`, `claim` | `processing_conversation`, `processing`, `external_claim` |
| `pc[t] = "ingest" ...` | `FormationAgent::run` between its loads and the swap |
| `"resume"`, `"start" ...` | `try_start_formation`, autostart, `start_process` |
| `"encode" ... "recheck"` | `process_loop`, one label per shared access |
| `"claim" ... "dropClaim"` | `Space::maintenance` and `MaintenanceAgent::run` |
| `"cycle"`, `"cycleEnd"` | the spawned cycle |
| `up`, `Load`, `Evict`, `Crash` | `load_space` with autostart, `try_evict_idle_space`, process death |

`formed` (encoded at least once) and `waived` (jumped over by an operator) are
history variables; `faults` and `manual` count what the bounds limit. `Faults`
selects which of the code's failures can happen: `llm` a failed or unfinished
model run, `panic`, `crash`, `dispatch` the engine refusing a call, `add` a
cycle's conversation that cannot be stored, `save` a watermark write that is
lost, `read` a conversation that cannot be read.

Abstractions. The scan of `find_next_submitted` is one step, as conversations
are only appended and a status it passes is final. A request that spawns a task
becomes that task, because it only returns afterwards; the formation loop, which
goes on after it scheduled a cycle, takes an idle task for it. Dropping a
`MaintenanceClaim` is one step. Conversations of other labels and cancelled ones
are not in the model: the collection holds formation conversations. A space is
evicted only while all tasks rest; in the code a cycle between the release of its
flag and its resume does not hold the space, and an eviction there loses only
that resume, which the next load makes up for. Operators name conversations that
exist.

`FormationQueue` is what users rely on: conversations are accepted, each is
encoded at least once, first encodings happen in order of the ids unless an
operator waived what is before, and the watermark moves forward over encoded
conversations only. `Queue!QSpec` is checked as a property under the identity
mapping.

| Run | Bounds |
|---|---|
| `SchedulerSafety` | 3 tasks, 2 conversations, 1 request, operator restarts, 1 fault of 5 kinds, thresholds 3/2/1 |
| `SchedulerDrain` | 3 tasks, 3 conversations, 1 request, operator restarts, a daydream every second conversation, 1 fault of `add`, `read`, `dispatch` (3.6 million states) |
| `SchedulerLiveness` | 2 tasks, 2 conversations, 1 fault of 5 kinds |
| `SchedulerClaimLost` | 2 tasks, fault `add`, 2 requests |

Three tasks are the least number at which a starter, a loop and a cycle meet;
two conversations let one be in work while one arrives, and the third of `SchedulerDrain` waits behind both. The
thresholds 168/42/21 are scaled so that every scope falls due within the bound.
One fault per behaviour is enough for each error path to meet every
interleaving. The model never stops because a space can always be evicted and
loaded again. `NoStrandedBacklog` is an action property of the step with which the last task of
a loaded space ends. It speaks of behaviours without a fault, because after a failure
a backlog waits for the next ingest, maintenance or load by design, and it exempts
one step: the hand-off of a loop to a cycle that has already ended and found the slot
taken, the race that `space.rs:3215` documents.

Fairness (`FairSpec`): each task that can go on goes on (tokio is a fair
executor and the runner bounds turns and time of every model call), the
background task evicts an idle space, and requests keep loading it. No fairness
is assumed of requests, operators or faults. `EveryConversationIsFormed` needs
the reload, because of that hand-off race; `NoStrandedBacklog` says that no other
step of the code leaves a backlog in a loaded space.

## 5. The wiki store

`WikiStore` models the write path of `wiki/mod.rs`. An operation holds
`write_lock` (`op`) and writes one row per step, so every state in between is
one that a search sees, and `Fail` (an error or a crash) may end it after any
step.

| Model | Code |
|---|---|
| `status`, `current` | a document row and its `current_version` |
| `rows`, `owner`, `body` | the version rows, their `doc_id`, content and checksum |
| `chunk[v][p]` | a chunk row: absent, or `current` 0 (hidden) or 1 (shown) |
| `BeginCreate` ... `CommitReturns` | `commit_prepared`: sentinel row, version, chunks, flip, show, drop |
| `CommitNothing` | its idempotent short-circuit |
| `BeginArchive`, `BeginRestore`, ... | `archive`, `restore` |
| `BeginSweep` ... `SweepNext` | `orphan_sweep` with `sweep_doc`, one document at a time |

`flipped`, `seen`, `acked` and `lost` are history variables. A body stands for all
that a commit carries, and a version has the same chunk slots whatever its body.
Slugs are in `Bundle`, readers in `Citations`, events in `EventLog`; the sweep's
age test (`SENTINEL_TTL_MS`) is a free choice per visit. `WikiHistory` is the
promise: commits, archives and restores take effect at once, and a commit follows
the version its author had read, so no update is lost. The mapping shows only
versions that became current, and an initializing document as absent.

Bounds of `WikiStoreSafety`: 2 documents, 2 bodies, 2 chunks, 3 versions, 1
failure. Two chunks make a set half written; three versions are a failed commit, a
successful one and one behind it; two documents let a sweep be cut between them.
One failure is followed by every sequence of operations the versions allow.

`FairSpec`: the holder of the lock goes on (weak fairness of the operation's
steps) and housekeeping, which every maintenance starts, gets the lock: tokio's
mutex serves waiters in order, hence strong fairness of `BeginSweep`. Requests
and failures have no fairness.

## 6. The usage ledger

`UsageLedger` models `ledger.rs` with its callers in `space.rs`: recalls and
self-tests that write ledger rows when they complete, the settlement that pages
through dirty rows, writes totals to the graph and marks the rows, the discovery
of corrections, and forget requests that delete from the graph and then from the
ledger. The graph is external (`anda_kip`): a command takes effect at once, fails,
or times out and may have taken effect.

| Model | Code |
|---|---|
| `row`, `nextId` | the `memory_usage` collection, stored with every write; an id is never used again |
| `charges`, `saved` | the extension `source_reliability` in memory, and as the metadata was last written |
| `graph`, `shown`, `superseded`, `marked` | links with `metadata.recall_count`, `superseded`, `correction_settled` |
| `held` | entities in the messages of a recall or self-test that has not ended |
| `settle` | `settle_memory_metabolism_with`: cursor, batch, page, and the cycle behind it |
| `forget` | `forget_memory`: the entities to do and the cascade of the current one |

A recall of several entities is several single ones: `record_recall` writes row by
row under a lock, and no property relates two rows of one recall. A page is read
in one step; the code fetches its rows one by one, and a row that changes in
between is read as of a moment within the scan. Bulk decay, the schema census,
`last_recalled_at` and the reports are left out: single graph commands that no
property here reads. All links of the runs hang on one concept, so that forgetting it cascades over
every row.

A ledger row is stored at once (`space.rs:1736`), a charge is set in memory (`1739`) and
written later: by the settlement's own `flush_metadata` (`1820`, an error of which is
ignored), or by the keeper, another writer of extensions or the close of the space
(`Flush`). `Crash` therefore keeps the rows and puts `charges` back to `saved`, and
`RecordCorrectionCut` stores a row and goes no further. Either way the charge is gone
for good, as the next cycle finds the row and marks the link; the history `lost` names
these links. `ChargedOnce` says what is left of `space.rs:1753`: no source is ever
charged twice, not even in the written metadata, and a link that is marked was charged,
or is in `lost`. A row names each link alone; a charge of several sources, or of none,
counts as one.

Bounds of `UsageLedgerSettle`: 2 links (1 that the graph never writes), 1 concept,
batches of 1, 2 batches, 2 retrievals, 1 failure. Batches of one make every row a batch boundary, and the broken link fills the first
batch when it is recalled first; then only the cursor reaches the row behind it.
`UsageSettles` needs a batch that broken rows do not fill: in the code too, rows
behind `SETTLEMENT_MAX_BATCHES` times `SETTLEMENT_BATCH_LIMIT` broken ones would
starve. `FairSpec`: maintenance is requested again and again and a running one goes
on; retrievals, forget requests and failures are free.

## 7. The digest

`WikiDigest` models `wiki/digest.rs` next to the writers of the wiki. Of the row
writes of `WikiStore` it keeps those a digest can tell apart: the document row of a
create, the version row, the flip, the status, the end of a restore.

| Model | Code |
|---|---|
| `cursor`, `pending`, `strikes` | extensions `wiki_digested`, `wiki_digest_pending`, `wiki_digest_failure`, in memory |
| `stored` | the same three as the metadata was last written |
| `dg` | a run: the page of versions, then the pending documents, and the step of `digest_version` |
| `ledger` | the `DigestExtracted` events of a document |
| `graph` | the propositions of facts, external: active, superseded or none |
| `op` | commit, archive, restore under the write lock |

A body asserts at most one fact; what an extraction finds of it is free. `adrift`,
`failed`, `fused` and `missed` are history.

Rows, ledger and graph are stored with every write. The three extensions change in
memory: `save_cursor` writes the metadata, and with it whatever marks and strikes there
are by then (`Saved`); marks and strikes alone wait for that, for another writer, the
keeper or the close (`Flush`). `Restart` takes writer and run away and reads `stored`;
`RunDies` is the death of the task alone.

The ways to miss a version that the code has are recorded in `missed`, not hidden:

* the cursor passes a first version before its flip (section 12);
* `clear_pending` takes away a mark that was set again while the document was digested;
* a restore fails between the status and the mark, and cannot be repeated;
* the process restarts after a restore and before the mark is written. The document is
  active, its version lies behind the cursor, and nothing queues it again.

`DigestedOrQueued` says that there is no other: a current version behind the cursor that
may be distilled is recorded, marked, given up by the fuse, being restored, or missed in
one of these ways. A version leaves `missed` when it is superseded, archived or marked.

Bounds: one document, three versions, two bodies, one of them withheld, two faults
out of eight kinds (a failed commit or restore, a failed extraction, graph write, mark
or save, a run that dies, a restart). Three versions are one digested, one that fails and one
behind it; two faults are what the fuse needs to blow (`MaxStrikes` = 2 stands for
3), and one more version to be blamed wrongly. Two documents with three versions and
one fault (12.7 million states up to swapping the documents) were explored once
without a violation. `DigestedOrQueued`,
`FactsAreAccountedFor` and `FuseIsEarned` are proved for every instance (section 11).

Fairness: as for the wiki store, and each maintenance kicks a digest run, which
goes on. `Flush` has no fairness: a save that fails and is lost by a restart only makes the
digest repeat itself. `EveryVersionIsDigested` says that no version stays for ever current,
distillable and neither recorded, given up nor missed.

## 8. The server process

`SpaceRegistry` models `AppState` in `space.rs`, the keeper that flushes and evicts,
and the two service tasks of `bin/main.rs`. A *slot* is an entry of the map with its
one-time cell; `EntryRefs` and `SpaceRefs` are the two reference counts eviction
looks at. A request looks its space up, inserts a placeholder under the write lock
of the map, queues for the cell, opens or fails, and uses the space; formation,
maintenance and digest hold it by a task or by a flag. The keeper looks at a snapshot
of the map, evicts under its write lock, and at shutdown closes what it finds.

`RunnerLoop` models `drive_runner_loop` with its hosts formation and maintenance,
and the loop of recall; the engine's runner is external: it speaks, converges, fails
or asks for compaction as it likes.

Bounds of `Runtime` (155 thousand states): one space id, two slots and two requests,
and with the service's end one request (a load that races an eviction needs two
slots; a queue for a cell two requests); three turns, a snapshot every second one,
three conversations (the history holds two) and one restart.

Fairness: tokio's mutexes and `OnceCell` serve in order, hence strong fairness for
those who queue; tasks, the clock of an idle space, keeper and runner go on.
Requests, failures and the signal to stop have none.

What the properties leave out, because the code does: the task that a hook starts
after a flag went down holds nothing for a moment (`EvictionSparesUsers` does not
count it); a space created while it is being loaded is not excluded; a space that a
request loads after the shutdown has taken its snapshot is not closed
(`OrderlyExitCloses` speaks of those loaded before). `pinned` is used by the
evaluation only and is not modelled.

## 9. Requests

`Routes` is a table of what each HTTP handler and MCP tool asks of its caller,
`Access` the decision of `authz.rs` with two slots of callers, any credential (none,
keys' CWT of each scope and audience, space tokens, with or without label), and the
managers who mint, revoke, publish and create beside them; every await of the code
is a step. `ChannelsAgree` compares, in every state, what the two channels would
answer to the same credential. Bounds: the three rosters of `MCRequests` (a manager
and a visitor with one token of any kind; two managers and three tokens over a cap
of two; two visitors of a space that may have to be created).

| Module | Under | Beside it | Bounds |
|---|---|---|---|
| `MissCache` | `probe_memory` | a writer that clears when done, or fails before | 2 probes, 2 keys, a cache of 1 row, TTL 1, 3 ticks |
| `PrimerCache` | `describe_primer_cached` | other recalls | 2 recalls, TTL 2, timeout 1 |
| `Chunker` | `chunk_markdown` | nothing, it is pure: all pages up to 5 lines | 8 kinds of lines, targets 4 to 11 bytes |
| `Bundle` | `import_bundle`, `export_bundle` | edits, a second import | 2 calls, 3 imports, 4 documents, 1 edit |
| `Citations` | `search`, `expand_hits`, `read`, `guard` | commits that show, flip and drop rows | 2 documents of 3 parts, 2 versions |
| `Listing` | every paged listing | rows that come, go and change | 5 rows, pages of 2 |
| `EventLog` | `prune_events` | `write_event` | 8 events, a cap of at most 2, batches of 2 |

The run has 2.1 million states. Notes:

* `Access`: a write CWT does not include read (`TokenScope::allows`), and yet mints a
  read token (`handler.rs:1198`); `MintingDoesNotEscalate` says that this is all it can
  give away. The wiki tools of a recall on a public space are limited to unlabeled
  documents (`space.rs:2928`).
* `MissCache`: a probe that searched before a clear may record its miss after it. What
  holds is that the miss carries the time its probe began (`HiddenAtMostTTL`).
* `Bundle`: slugs, titles, tags and texts consist of `Words`; titles and tags are single lines; a tag with a comma comes back as two
  when the block is replayed, and a repeated tag counts as drift.
* `Citations`: one query of AndaDB is atomic, rows go in the order of their ids. A read
  that races a commit may get a partial table of contents of the version that was just
  replaced; `SectionsAreWhole` exempts exactly that. Labels are in `Access`.
* `EventLog`: while a prune runs, fewer events are written than the cap keeps.
* `Chunker`: sizes are bytes and a character has a width, so that a cut inside one
  would show. Each pass is a recursive function of the number of lines, units, packs or
  drafts it has gone through, as the loop it stands for. `ChunkAssumption` orders the
  limits as `chunk.rs` does and makes no character wider than the hard limit.

## 10. Evaluation

| Module | Models | Bounds |
|---|---|---|
| `EvalTimeline` | validation, noise, hooks, waits and checkpoints of a replay, whole and in two phases | 3 authored turns, cadence 0 to 2, 1 wait that times out |
| `EvalScore` | probes, lexical and judged scores, findings and their attribution | 2 expectations, one verdict that agrees, 720 for 1.0 |
| `EvalAggregate` | samples, median, majority, weights | 3 samples, 2 checkpoints |
| `EvalSuite` | profiles by scenarios, alone or with shared formation, aborts, ranking and gate | 2 profiles, 3 scenarios |
| `ShadowEval` | two forks, blind judging in alternating order | 2 calls, 3 queries, biased and fair judges |
| `Optimizer` | propose, install, measure, keep or put back | 3 generations, scores 0 to 3 |

The run has 1.1 million states. Noise is at every position it can take; 720 is
divisible by every denominator that occurs, so sums are exact. Three generations are
two acceptances and one that must not ratchet. Notes:

* After a shared formation, an explicit maintenance turn runs behind all formation, by
  design; `PhasesMakeTheRun` therefore compares the phases kind by kind.
* A scenario that aborts counts as a stand-in with score zero. Where the baseline
  profile aborts, it is easier to beat; `AbortsNeverPay` says that nobody gains by an
  abort of his own.
* `EvalSuite` assumes distinct space ids; with `--keep-spaces` a rerun may meet its own.
  Findings of a shared formation are not attributed to the suites that fork it.
* When the optimizer is broken off, only the policy override is dropped at once; the
  prompts are put back by the command.
* `kick_memory_self_test` may write sleep tasks while a checkpoint reads; `flux` is about
  formation and maintenance only.
* `EvalScore` is about what `score_checkpoint` and `judge_checkpoint` report. A checkpoint
  also carries the finding of a failed recall (`agent_failure_finding`, `eval.rs:2247`) and
  those of waits that timed out (`eval.rs:2199`). They cost no points and are outside
  `ScoringIsFair`: that points are lost exactly when a finding says why holds of the
  scorer's own findings, not of every finding of a checkpoint.

## 11. Proofs

`SchedulerProofs`, from `SchedulerAssumption` (the bounds are naturals, `Faults`
is a set of the named faults) and for any set of tasks:

* `TypeCorrect`: `Spec => []TypeOK`, one step per action.
* `OneFormationLoop`: `Spec => []OneLoopOwnsSlot`. Not inductive alone: an owner
  is recognised by a conversation other than 0, so `LoopInv` adds
  `ConvMatchesPC`, which labels carry a conversation. The slot is only given
  away by `TryProcess`, when it is 0, and then no owner exists.
* `OneMaintenance`: if `"add"` is not among the faults, `Spec =>
  []MaintenanceExclusive`. `MaintInv` extends the holders by the error path
  `dropClaim`, and says that the claim is marked from settlement until it is
  inherited or dropped; hence `run` never competes for the flag itself. The
  assumption is necessary: `SchedulerClaimLost` violates the property without it.

And of what becomes of the conversations:

* `SoundWatermark` and `Implementation`: if `"read"` is not among the faults, `Spec =>
  []WatermarkSound` and `Spec => ImplementsQueue`. `FormationQueue` says that a
  conversation is encoded behind all others, but the scan that chose it may be long
  past when its task takes the slot. `QueueInv` says what a task knows from the choice
  on: the conversation exists, everything before it is encoded or waived (`Behind`), and
  from the mark on so is the conversation itself. What is encoded stays encoded, so the
  knowledge survives whatever others do meanwhile. The assumption is necessary:
  `SchedulerReadError` violates the property without it.
* `ForwardOnly`: `Spec => WatermarkNeverRewinds`, whatever fails.
* `MarksForward`: if `"add"` is not among the faults, `Spec => ScopeMarksGrow`, from
  `MaintInv`: the marks are written by the one holder of the flag.
* `NoWakeupLost`: `Spec => NoStrandedBacklog`. While nothing failed, `WakeInv`
  holds: a slot or a flag that turns a task away has an owner, who will look at the queue
  later than that task; and what is encoded lies behind the watermark, or its loop is
  about to move it. `MaintInv` is needed too, and needs no assumption on `"add"` as long
  as `faults = 0`, which is all the property speaks of.

`WikiDigestProofs`, from `WikiDigestAssumption`:

* `NothingForgotten`: `Spec => []DigestedOrQueued`, by the invariant `DigestInv` of the
  tables, the commit beside the run and the run. `RunOK`: no live version lies between
  the cursor, the version at hand and those that wait. `AheadOK`: what a commit is about
  to make current lies ahead of the run, was given up, or is a first version that was
  read too early. `ReadOK`: whatever the run has read of a document still holds or has
  left a trace (a label, a mark, a restore under way, a recorded miss) that excuses the version
  at hand (`Excused`). Restarts need `StoredOK` as well: the written cursor is never ahead
  of the one in memory, so a restart goes back over versions and does not skip any, and a
  mark it drops is entered in `missed` (`RestartKeeps`). The theorems of this module rest
  on one lemma, `Invariant`.
* `EveryFuseEarned`: `Spec => []FuseIsEarned`. Here the strikes of the version they name
  never exceed its failures.
* `EveryFactAccounted`: `Spec => []FactsAreAccountedFor`, from `DigestInv` and
  `FactsInv`. `FactsAtHand` follows the run: while it works on a version no newer one
  has a ledger entry, it reads only text that may be used, and what the newest entry
  had and the next one will not have is out of the graph, or in `adrift`, by the time the
  next is written. `SilentOK` says that a withheld version behind the run left nothing
  active.

`RequestProofs`, from `AccessAssumption` (bounds are naturals, rosters are made of the
credentials that exist), `MissAssumption` and `PrimerAssumption`. The parts of
`MCRequests` share no state; `PartsFollow` says that each follows its own specification.

* `RecentCaches`: `RequestsSpec => []CachesAreRecent`. `MissDated`: a miss, cached or
  about to be, is dated no later than the moment its key became known.
  `ClearSweeps`: during a clear the rows there are those it still has to take and those
  it could not remove. `PrimerInv`: a reading was made within the lookup that stores it.
* `ExactAccounts` and `NoWiderAccess`: `RequestsSpec => []AccountsAddUp` and
  `[]AccessIsNotWidened`, by `AccessInv`. `LockInv`: what a mint checked under the lock
  (cap, name) stays true until it saves, for whoever changes tokens holds the lock.
  `RequestsInv`: every request is idle or in one of its stages, with the caller its
  credential gave it and the permit its route is charged for; every missing permit is one
  request's, so a step that moves one moves both sides of the sum. `SoundRoute` states what the proofs need
  of the route table: which needs and views can meet. Revoking and publishing happen
  between any two awaits; a request is judged by what it was admitted as (`who`).
* `AlikeChannels`: `RequestsSpec => []ChannelsAdmitAlike`. It needs no invariant: the
  two tables ask the same (`SameDemands`), and the decision depends on nothing else.

`RuntimeProofs`, from `SpaceRegistryAssumption` (an id exists, requests are finite, the
value for "no slot" is none) and `RunnerAssumption` (the turn limit is a natural number):

* `OneDatabase`, `SparesUsers`, `ClosedAtTheEnd`: `RegistrySpec =>` always
  `OneOpenDatabase`, `EvictionSparesUsers`, `ClosesInOrder`, by `RegistryInv`. Eviction
  decides by reference counts; the lemma `Counts` says which holders a count rules out.
  `HoldersOK`: whoever holds an entry holds the one the map has for its id. `CellsOK`:
  an open database belongs to a mapped entry, and one initializer works on an empty
  cell. `KeeperOK`: while a space is being closed nobody holds it, nor can come to.
* `SoundRuns`: `RunnerSpec => []RunsAreSound`. The property speaks of a loop between two
  iterations; `RunnerInv` says what the loop's locals stand for at every label:
  `CountOK` (the turns counted are the turns taken, so the guard bounds them also across
  compactions), `SaidOK` (what the runner said and is not yet recorded follows exactly on
  what is), `UsageOK` (usage is with the runner while it goes on, then with the
  conversation), `StoreOK` (the store has the conversation unless a snapshot is due) and
  `ContextOK` (the ring is sorted, and has the conversation at hand only completed).

`UsageLedgerProofs`, from `UsageLedgerAssumption` (finite disjoint sets of links and
concepts, each link on a concept, a positive batch size):

* `NothingLost`, `NothingMade`, `OneCharge`, `LedgerTyped`: `Spec =>` always
  `NoUsageLost`, `UsageIsReal`, `ChargedOnce`, `TypeOK`. They share the invariant
  `LedgerInv`, also checked by TLC. `NoUsageLost` says nothing of the page that a
  settlement holds, so it is not inductive: `PageOK` says that a row of the page
  still belongs to its entity, is dirty and has lost no recall, or is gone with
  its entity; `WrittenOK` that between write and mark the graph shows the page's
  total; `ForgetOK` that rows are removed only after their entities; `ChargesOK` that a link
  recorded as corrected was charged once or is in `lost`, and that what is written is
  nothing or what is in memory; `BornOK` that
  an entity which left the graph does not return under its old id. `Marked`,
  `Wrote` and `Recorded` are the three lemmas that carry the argument: marking,
  writing and recording keep all of it.

`WikiStoreProofs`, from `WikiStoreAssumption` (finite documents and chunks, natural
bounds, `"none"` neither a document nor a body):

* `AtomicHistory`: `Spec => ImplementsHistory`. The refinement needs more than the
  abstract guards say: that `Flip` finds `seen` equal to the current version, and a
  version newer than every other. The invariant `WikiInv`, checked by TLC as well,
  keeps both from the check of `parent_version` on: `CommitOK` says that the
  document of the commit that holds the lock stays active at the version the author
  had read, `HeadsOK` that a current version is the newest of its document and that
  a document without one has no history, so the sweep may drop its row.
* `AlwaysServed` and `ExactSweeps`: `Spec => CommitsKeepServing` and
  `Spec => SweepEndsExact`, by `SearchInv` of the chunk rows. `CurrentWhole`: the current
  version of a document has a row in every slot, shown or hidden. `CommitServes`: from its
  flip on a commit's version is the current one, so when all its rows are shown and it
  drops those of the version before, these are no longer the last to serve. `ArchiveHides`: rows are hidden only while the document is archived.
  `SweepOrders`: a document that a sweep has behind it, or need not visit, is exact,
  and stays so until the sweep ends, for the sweep holds the lock.

`RequestProofs` also has those who go over many rows of the wiki, from
`CitationsAssumption` (bounds are naturals, parts are counted through), `ListingAssumption`,
`EventLogAssumption` and `BundleAssumption` (what users and bundles write is of `Words`, a set
without the value for "nothing"; no importer is 0; pages have a row):

* `SoundCitations`: `RequestsSpec => []CitationsAreSound`. A search widens a hit by rows
  it reads later. `SuffixesStay`: rows go from the first on, so whatever is left of a
  version, and any window of it, is a range without gaps, whose checksum verifies. It is
  false when rows go in another order. `CurrentHasRows` and `ReaderOK`: a reader whose
  version was not replaced meanwhile still finds all of its rows.
* `CompleteListings`: `RequestsSpec => []ListingsAreComplete`. `WalkOK`: at or above the
  cursor every steady row has been shown, below it none. `PageOK` is the reason that the cursor
  may move to the last id of a page: the page is full or has everything that is steady
  below the cursor. Rows that arrive have greater ids (`OldestFirst`).
* `SafeBulk`: `RequestsSpec => BulkOperationsAreSafe`. A prune works with heads and an
  excess it computed before. `BatchOK`: fewer events come late than the cap keeps, so the
  oldest beyond the cursor are never among them; `GoneOver`: what the cursor passed is a
  head, and counted, so the excess is never overdrawn; `HeadsStay`: the newest event of a
  ledger is a head, or younger than the prune.
* `FaithfulBundles`: `RequestsSpec => []BundlesAreFaithful`. `LockIsHeld`: whoever has
  looked a slug up holds the lock, so what it found is still so when it commits, and a
  slug that it did not find is free (`FreshIsFree`, by counting: there are more suffixes
  than documents). Hence `SlugsAreUnique`; `WrittenAsSaid`, that a document still says
  what it was last written from, is what makes a second import idle (a part of
  `SafeBulk`). `ExportsTellTheTruth` follows from `RenderedIsTrue`, a fact about the
  format.

`ChunkerProofs`, from `ChunkAssumption`:

* `SoundChunks`: `RequestsSpec => []ChunkingIsSound`, for pages of any length. The
  invariant says no more than that `chunks` are what `chunk_markdown` makes of the
  page; the work is in the passes. Each has a lemma that the recursive function is what
  its steps make it (by `StepByStep`), one that a step preserves what holds so far, and one
  about its result (by `Climb`). What every pass hands on: its pieces are a `Chain` from the
  first byte to the last, so they tile; and each bearable atomic unit is inside one of them
  (`UnitsWhole`). From the drafts on each piece is `Fit`, which is to begin between two
  characters and to stand under a path that is a prefix of its lines' paths (a merge takes
  the common prefix, `PrefixJoins`); until the cap is applied it is also `Snug`: bounded,
  and under some heading if one of its lines is. `CutIsClean` is what
  forced splits need: a cut within a line falls a multiple of its character width after
  its start, beyond the cut before because no character is wider than the limit; hence
  `CutsReach`: they come to the end of the pack.

`EvaluationProofs`, from `ShadowAssumption`, `OptimizerAssumption` (scores, deviations,
thresholds and policy values are naturals, the default policy is valid, a prompt run has a
prompt for its target), `SuiteAssumption` (a profile, a scenario and a place in the
stream exist, qualities are naturals), `AggregateAssumption` and `ScoreAssumption` (weights
are positive; no more expectations and terms than `Whole`, so that a share that is not
all rounds to less than all). `LevelsFollow`: each level of `MCEvaluation` follows its own
specification.

* `FairShadows`: `EvaluationSpec => []ShadowIsFair`. `BiasOK` counts what a biased judge
  has given to each side by the parity of the queries so far, `ForksOK` who has a fork
  open under the guard.
* `SoundOptimizing`: `EvaluationSpec => []OptimizingIsSound`, by `OptInv`. `InstalledOK`:
  between generations what was accepted is installed, within one all of it but the
  candidate, so a reject that puts back one slot puts back everything. `BarOK`: the bar is
  the highest holdout total so far and the last one within epsilon of it (it is false
  if the bar follows the last total), and what waits for its holdout is
  better than the suite last reported. `OneStepAway`: a policy that comes of any number of
  patches is valid and one bounded step away in every field.
* `AlikeSuites`: `EvaluationSpec => []SuitesCompareAlike`, by `SuiteInv`: what is reported
  is over for good, and a base that can be forked has its whole formation in store. The rest
  is about scores: `SumIsAFold` says what the recursive sum computes, `SumsCompare` that it
  is monotone and `SumCovers` that it is no less than any of its numbers. `RanksAre` reduces the ranking to
  sums, findings and names, `SomeBest` finds the profile that ranks first, and
  `FewerAbortsWin` that an abort only costs.
* `FairScoring`: `EvaluationSpec => []ScoringIsFair`. `ScoreInv`: the tally is `Flawless`
  exactly when no expectation so far gives a finding (`TallyStep`), no part of it exceeds
  its share, and it is `Alike` the tally of the rubric without its errored probes, whose
  recursion `RestsGrow` extends by one. `Quotients` and `Shares` say when an integer
  division reaches its whole, hence a total is whole only where every part is (`UtilityIs`,
  `HealthIs`, `TotalIs`). `AggregateInv`: a finished checkpoint is typical of its rolls
  (`SomeMedian`: ranks are an injection, so one sample has half of the others before it)
  and decided by most. `LaterWeighsMore`: of two weighted sums that differ by a swap, the
  one with the larger number later is larger (`SumsApart`, by the prefixes).
* `FairTimelines`: `EvaluationSpec => []TimelineIsFair`, from `TimelineAssumption` (noise,
  cadences and the bound on stalls are naturals, the tail shows something). `PlaceOK` says
  where the replay is in the effective timeline, `KindOK` which steps belong to its turn
  and its phase. `Reference` is what that timeline asks of a space, turn by turn;
  `WordsFollow` and `AsksFollow` say that a phase has asked its part of it so far, so two
  phases that are over have asked what the full replay has. `FluxOK`: while no wait gave
  up, only the wait for a formation sees one under way, and no maintenance is in
  sight of a probe. `CadenceOK` and the tail (`TailGrows`) follow the list of what was
  asked as it grows (`PickedGrows`). `TimelineIs` is the arithmetic of noise between
  turns: each authored turn has its own place.

Model-checked only: all liveness (`EveryConversationIsFormed`, `FlagsAreReleased`,
`RepairedInTheEnd`, `UsageSettles`, `EveryVersionIsDigested`, `EverythingEnds`). Liveness
and ENABLED are out of the prover's reach. The library's induction theorems are as well,
since they take an operator; where a proof needs induction (a least row, a sum, a first
profile) it takes a least counterexample of a set of numbers (`Least`, `Climb`), and
`StepByStep` gives the recursive functions that the proofs reason about.

## 12. Findings

Listed in `PROJECT.json`, each with its run:

1. *Claim lost* (`SchedulerClaimLost`). `MaintenanceAgent::run` releases the flag when
   `add_conversation` fails and returns the error; `Space::maintenance` then drops its
   claim. If another maintenance took the flag in between, the drop swaps away the
   other's claim and clears the flag under it. The comment at `space.rs:1355`
   describes this window and closes it on the success path only.
2. *First version missed* (`WikiDigestCreate`). A digest that meets a version while its
   new document has no current version reads the document as gone, before it comes to
   the check that would hold the cursor back (`digest.rs:496`, `503`).
3. *Bundles that grow* (`BundleReimport`). `_index.md` slugifies to the reserved
   `index`, is stored as `index-2`, and is not found there by the next import.

Met with further instances:

4. *Formation starts mid-settlement* (`SchedulerMidSettlement`). The change log says it
   cannot; the maintenance flag is read before an `await`, the slot is taken after it.
5. *A read error is a skip* (`SchedulerReadError`). `find_next_submitted` passes over a
   conversation it cannot read, and the high-water mark then passes it too, for good.
6. *Success without activation* (`WikiStoreRetry`). A commit that fails behind its flip
   has stored its checksum. The retry compares the checksum only and reports an
   idempotent success, while chunks stay hidden until the next sweep.
7. *Phantom history* (`WikiStorePhantom`). A commit that fails before its flip leaves a
   version row. Once a later commit succeeds the sweep takes it for history.
8. *A forgotten memory leaves a trace* (`UsageLedgerForget`). A recall that ends after
   the deletion writes the ledger row again, and a second forget skips the absent
   entity.
9. *Completed, then failed* (`RunnerConverged`). A maintenance that has converged is
   stored Completed and loops once more; if a budget strikes at the top of that
   iteration, it is stored as Failed with the usage of a drained runner
   (`agents.rs:155-169`, `248-260`; the comment at 283 guards the handoff only).
10. *Paths that are not honest* (`ChunkPaths`). The comment at `wiki/chunk.rs:498-500`
    calls heading paths honest about what a chunk covers. A heading's path is the one
    before, cut to `level - 1` entries: where a page skips levels (a third-level heading
    before a second-level one), the deeper heading stays as a parent of the higher.
11. *Misses that outlive a clear* (`MissCacheClear`). `CHANGELOG.md:62` and `83` describe
    a guard that drops a miss whose search began before a clear; `record_miss` has none
    (`ledger.rs:451-455`), and the miss stays until its TTL.

## 13. Not modelled

Model calls, prompts, KIP text and query evaluation (external or pure I/O); encoding
and MCP sessions; namespace strings, ranking and the full-text index; YAML quoting and
link rewriting; metrics, status reports, bulk decay and the schema census; mining of
scenarios and the one-shot assessment (`eval/mine.rs`, `assess.rs`), which turn text
into text; configuration; the CLI, the OpenClaw plugin and the test kit.
