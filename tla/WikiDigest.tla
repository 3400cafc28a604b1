----------------------------- MODULE WikiDigest -----------------------------
(***************************************************************************)
(* The wiki digest, src/anda_brain/src/wiki/digest.rs, next to the writers *)
(* of the wiki.  A run walks the version rows behind a cursor, then the    *)
(* documents that were restored after the cursor had passed them.  The     *)
(* current version of a document that may be distilled is extracted, its   *)
(* facts are written to the graph, facts that the ledger records of the    *)
(* digest before and that are gone are marked superseded, and the ledger   *)
(* gets an entry.  Between any two of these steps documents are committed, *)
(* archived, restored and swept.                                           *)
(* Rows, ledger and graph are stored at once.  The cursor, the marks and   *)
(* the strikes are metadata: they change in memory, all of them are        *)
(* written together now and then, and a restart reads what was written.    *)
(*                                                                         *)
(* Of WikiStore's row writes only those that the digest can tell apart are *)
(* steps here: the document row of a create, the version row, the flip,    *)
(* the status, and the end of a restore.  A body asserts at most one fact, *)
(* named like the body; the extraction may miss it.                        *)
(***************************************************************************)
EXTENDS Naturals, FiniteSets, Sequences

CONSTANTS
  Docs,             \* document slots
  Bodies,           \* what a commit may carry
  Withheld,         \* bodies with an acl_label or in the evaluation namespace
  PerRun,           \* MAX_VERSIONS_PER_RUN
  MaxStrikes,       \* MAX_VERSION_FAILURES
  Faults,           \* what may go wrong
  MaxVersions,      \* bound: version rows ever written
  MaxFaults         \* bound: faults

ASSUME WikiDigestAssumption ==
  /\ Withheld \subseteq Bodies
  /\ PerRun \in Nat \ {0} /\ MaxStrikes \in Nat \ {0}
  /\ MaxVersions \in Nat /\ MaxFaults \in Nat
  /\ Faults \subseteq {"commit", "restore", "extract", "write", "mark", "save", "die", "restart"}

VARIABLES
  status,    \* status of the document row, "none" when there is no row
  current,   \* its current_version, 0 while the document initializes
  versions,  \* the version rows: what was ever written, by id
  gone,      \* the rows that the sweep has removed
  op,        \* the writer that holds the write lock
  dg,        \* the digest run, if one is under way
  cursor,    \* extension wiki_digested
  pending,   \* extension wiki_digest_pending
  strikes,   \* extension wiki_digest_failure: a version and its failures
  stored,    \* the three of them as the metadata was last written
  ledger,    \* per document, the DigestExtracted events, newest last
  graph,     \* status of the proposition of every fact
  adrift,    \* history: active facts that no ledger entry accounts for
  failed,    \* history: failed attempts of every version
  fused,     \* history: versions given up
  missed,    \* history: current or future versions that no run will read again
  mishaps    \* faults so far

docVars    == <<status, current, versions, gone, op>>
graphVars  == <<ledger, graph, adrift>>
metadata   == <<cursor, pending, strikes, stored>>
runVars    == <<dg, metadata, graphVars, failed, fused, missed>>
vars       == <<docVars, runVars, mishaps>>

Free == [kind |-> "free"]
Idle == [pc |-> "idle"]

Versions == 1..MaxVersions
rows == DOMAIN versions \ gone
owner(v) == versions[v].doc
body(v)  == versions[v].body

Init ==
  /\ status = [d \in Docs |-> "none"]
  /\ current = [d \in Docs |-> 0]
  /\ versions = <<>> /\ gone = {}
  /\ op = Free
  /\ dg = Idle
  /\ cursor = 0
  /\ pending = {}
  /\ strikes = [ver |-> 0, count |-> 0]
  /\ stored = [cursor |-> cursor, pending |-> pending, strikes |-> strikes]
  /\ ledger = [d \in Docs |-> <<>>]
  /\ graph = [b \in Bodies |-> "none"]
  /\ adrift = {}
  /\ failed = [v \in Versions |-> 0]
  /\ fused = {}
  /\ missed = {}
  /\ mishaps = 0

\* doc_record: an initializing document reads as absent.
Exists(d) == status[d] # "none" /\ current[d] # 0

Slip(fault) == fault \in Faults /\ mishaps < MaxFaults /\ mishaps' = mishaps + 1

-----------------------------------------------------------------------------
(* The writers                                                             *)

\* A commit holds the lock from its checks to the end; a document that does
\* not exist yet begins as a row with current_version 0.
BeginCommit(d, b) ==
  /\ op = Free /\ Len(versions) < MaxVersions
  /\ IF Exists(d)
       THEN status[d] = "active" /\ body(current[d]) # b /\ UNCHANGED status
       ELSE status[d] = "none" /\ status' = [status EXCEPT ![d] = "active"]
  /\ op' = [kind |-> "commit", doc |-> d, ver |-> 0, body |-> b]
  /\ UNCHANGED <<current, versions, gone, runVars, mishaps>>

AddVersion ==
  /\ op.kind = "commit" /\ op.ver = 0
  /\ versions' = Append(versions, [doc |-> op.doc, body |-> op.body])
  /\ op' = [op EXCEPT !.ver = Len(versions')]
  /\ UNCHANGED <<status, current, gone, runVars, mishaps>>

Flip ==
  /\ op.kind = "commit" /\ op.ver # 0
  /\ current' = [current EXCEPT ![op.doc] = op.ver]
  /\ missed' = missed \ {current[op.doc]}
  /\ op' = Free
  /\ UNCHANGED <<status, versions, gone, dg, metadata, graphVars, failed, fused, mishaps>>

\* An error or a crash before the flip; what is written stays.
CommitFails ==
  /\ op.kind = "commit" /\ Slip("commit")
  /\ op' = Free
  /\ UNCHANGED <<status, current, versions, gone, runVars>>

Archive(d) ==
  /\ op = Free /\ Exists(d) /\ status[d] = "active"
  /\ status' = [status EXCEPT ![d] = "archived"]
  /\ missed' = missed \ {current[d]}   \* a restore would queue it
  /\ UNCHANGED <<current, versions, gone, op, dg, metadata, graphVars, failed, fused, mishaps>>

BeginRestore(d) ==
  /\ op = Free /\ Exists(d) /\ status[d] = "archived"
  /\ status' = [status EXCEPT ![d] = "active"]
  /\ op' = [kind |-> "restore", doc |-> d, ver |-> current[d]]
  /\ UNCHANGED <<current, versions, gone, runVars, mishaps>>

\* Mutant: a restored document is not queued.
RestoreReturnsUnmarked ==
  /\ op.kind = "restore"
  /\ op' = Free
  /\ UNCHANGED <<status, current, versions, gone, runVars, mishaps>>

\* mark_digest_pending sets the mark in memory, behind the status, which is
\* stored.  `again` notes a mark that the pending pass, which is at this
\* document, is about to clear.
RestoreReturns ==
  /\ op.kind = "restore"
  /\ pending' = pending \cup {op.doc}
  /\ missed' = missed \ {op.ver}
  /\ dg' = IF dg # Idle /\ dg.mode = "pending" /\ dg.doc = op.doc
             THEN [dg EXCEPT !.again = TRUE] ELSE dg
  /\ op' = Free
  /\ UNCHANGED <<status, current, versions, gone, cursor, strikes, stored, graphVars, failed,
                 fused, mishaps>>

\* A restore that fails behind its first write leaves no mark, and cannot be
\* repeated: the document is active.
RestoreFails ==
  /\ op.kind = "restore" /\ Slip("restore")
  /\ op' = Free
  /\ missed' = missed \cup {op.ver}
  /\ UNCHANGED <<status, current, versions, gone, dg, metadata, graphVars, failed, fused>>

\* orphan_sweep: the rows that never activated go, and with an abandoned
\* create its document.
Leftover(d) == {v \in rows : owner(v) = d /\ v > current[d]}

Sweep(d) ==
  /\ op = Free /\ status[d] # "none"
  /\ Leftover(d) # {} \/ current[d] = 0
  /\ gone' = gone \cup Leftover(d)
  /\ status' = [status EXCEPT ![d] = IF current[d] = 0 THEN "none" ELSE @]
  /\ UNCHANGED <<current, versions, op, runVars, mishaps>>

-----------------------------------------------------------------------------
(* The ledger                                                              *)

\* Where the events of a document lie that are older than a version.  An
\* event is never read again once a newer one of the same version exists.
Before(d, v) == {i \in DOMAIN ledger[d] : ledger[d][i].ver < v}

\* previous_digest_facts: the last of them.
PreviousFacts(d, v) ==
  UNION {ledger[d][i].facts : i \in {j \in Before(d, v) : \A k \in Before(d, v) : k <= j}}

Newest(d) == ledger[d][Len(ledger[d])]

\* Mutant: a retraction counts as a digest.
RecordedAny(d, v) == ledger[d] # <<>> /\ Newest(d).ver = v

\* version_digested: a retraction does not count.
Recorded(d, v) == ledger[d] # <<>> /\ Newest(d).ver = v /\ ~Newest(d).retracted

\* The facts that an entry of the same version had and the new one has not.
Disowned(d, v, facts) ==
  (UNION {ledger[d][i].facts : i \in {j \in DOMAIN ledger[d] : ledger[d][j].ver = v}}) \ facts

\* The events without the one of a version, of which there is one at most.
Without(events, v) ==
  LET its == {i \in DOMAIN events : events[i].ver = v}
      at  == CHOOSE i \in its : TRUE
  IN  IF its = {} THEN events
      ELSE SubSeq(events, 1, at - 1) \o SubSeq(events, at + 1, Len(events))

Record(d, v, facts, retracted) ==
  ledger' = [ledger EXCEPT ![d] =
    Append(Without(@, v), [ver |-> v, facts |-> facts, retracted |-> retracted])]

-----------------------------------------------------------------------------
(* A run                                                                   *)

RunsAt(pc) == dg.pc = pc

Go(pc) == dg' = [dg EXCEPT !.pc = pc]

\* The compare_exchange on `running` admits one run.
StartDigest ==
  /\ dg = Idle
  /\ dg' = [pc |-> "pick", mode |-> "main", at |-> cursor, left |-> PerRun, todo |-> {},
            doc |-> "none", ver |-> 0, facts |-> {}, again |-> FALSE]
  /\ UNCHANGED <<docVars, metadata, graphVars, failed, fused, missed, mishaps>>

FirstOf(S, n) == {v \in S : Cardinality({u \in S : u < v}) < n}

\* digest_pending_restores reads the marks once.
PendingPass == [dg EXCEPT !.mode = "pending", !.todo = pending]

\* The next rows behind the cursor; none or no budget ends the main pass.
FetchVersions ==
  /\ RunsAt("pick") /\ dg.mode = "main" /\ dg.todo = {}
  /\ LET batch == FirstOf({v \in rows : v > dg.at}, PerRun)
     IN  dg' = IF dg.left = 0 \/ batch = {} THEN PendingPass ELSE [dg EXCEPT !.todo = batch]
  /\ UNCHANGED <<docVars, metadata, graphVars, failed, fused, missed, mishaps>>

PickVersion ==
  /\ RunsAt("pick") /\ dg.mode = "main" /\ dg.todo # {}
  /\ \E v \in dg.todo :
       /\ \A u \in dg.todo : v <= u
       /\ dg' = IF dg.left = 0 THEN PendingPass
                ELSE [dg EXCEPT !.pc = "read", !.todo = @ \ {v}, !.left = @ - 1,
                                !.doc = owner(v), !.ver = v]
  /\ UNCHANGED <<docVars, metadata, graphVars, failed, fused, missed, mishaps>>

ClearPending(d) == pending' = pending \ {d}

\* A document that is gone or recorded is unqueued; one ahead of the cursor
\* stays queued for the main pass; the others are digested.
PickPending ==
  /\ RunsAt("pick") /\ dg.mode = "pending" /\ dg.todo # {} /\ dg.left > 0
  /\ \E d \in dg.todo :
       LET v    == current[d]
           drop == ~Exists(d) \/ (v <= dg.at /\ Recorded(d, v)) \/ (v <= dg.at /\ v \notin rows)
       IN  /\ IF drop THEN ClearPending(d) ELSE UNCHANGED pending
           /\ dg' = IF drop \/ v > dg.at
                      THEN [dg EXCEPT !.todo = @ \ {d}]
                      ELSE [dg EXCEPT !.pc = "read", !.todo = @ \ {d}, !.left = @ - 1,
                                      !.doc = d, !.ver = v]
  /\ UNCHANGED <<docVars, cursor, strikes, stored, graphVars, failed, fused, missed, mishaps>>

EndRun ==
  /\ RunsAt("pick") /\ dg.mode = "pending" /\ (dg.todo = {} \/ dg.left = 0)
  /\ dg' = Idle
  /\ UNCHANGED <<docVars, metadata, graphVars, failed, fused, missed, mishaps>>

-----------------------------------------------------------------------------
(* digest_version                                                          *)

\* Mutant: labels are not looked at.
DistillableAnyLabel(d) == status[d] = "active"

Distillable(d) == status[d] = "active" /\ body(current[d]) \notin Withheld

\* What the document says of the version.  A document that is initializing
\* reads as gone.
Outcome(d, v) ==
  CASE ~Exists(d)                         -> "retire"
    [] Exists(d) /\ v > current[d]        -> "notReady"
    [] Exists(d) /\ v < current[d]        -> "retire"
    [] Exists(d) /\ v = current[d]        -> IF Distillable(d) THEN "chunks" ELSE "retract"

\* A version that is not activated yet ends the main pass; the pending pass
\* takes it for done.  `again` notes a version whose document is initializing.
ReadDoc ==
  /\ RunsAt("read")
  /\ LET out == Outcome(dg.doc, dg.ver)
     IN  dg' = IF out = "notReady"
                 THEN IF dg.mode = "main" THEN [PendingPass EXCEPT !.pc = "pick"]
                                          ELSE [dg EXCEPT !.pc = "retire"]
                 ELSE [dg EXCEPT !.pc = out, !.again = dg.ver > current[dg.doc]]
  /\ UNCHANGED <<docVars, metadata, graphVars, failed, fused, missed, mishaps>>

\* No chunks: the version was superseded in the meantime.
ReadChunks ==
  /\ RunsAt("chunks")
  /\ Go(IF dg.ver # current[dg.doc] THEN "retire" ELSE "extract")
  /\ UNCHANGED <<docVars, metadata, graphVars, failed, fused, missed, mishaps>>

\* The model's answer is not the same every time.
Extract ==
  /\ RunsAt("extract")
  /\ \E facts \in SUBSET {body(dg.ver)} : dg' = [dg EXCEPT !.pc = "write", !.facts = facts]
  /\ UNCHANGED <<docVars, metadata, graphVars, failed, fused, missed, mishaps>>

\* One capsule asserts the facts, clearing a tombstone.
WriteFacts ==
  /\ RunsAt("write")
  /\ graph' = [f \in Bodies |-> IF f \in dg.facts THEN "active" ELSE graph[f]]
  /\ adrift' = adrift \cup dg.facts
  /\ Go("supersede")
  /\ UNCHANGED <<docVars, metadata, ledger, failed, fused, missed, mishaps>>

\* supersede_facts: each is marked if it still exists; one that cannot be
\* marked is passed over with a warning.
MarkSuperseded(stale) ==
  \E skipped \in SUBSET {f \in stale : graph[f] # "none"} :
    /\ IF skipped = {} THEN UNCHANGED mishaps ELSE Slip("mark")
    /\ graph' = [f \in Bodies |->
                   IF f \in stale \ skipped /\ graph[f] # "none" THEN "superseded" ELSE graph[f]]
    /\ adrift' = (adrift \ stale) \cup {f \in skipped : graph[f] = "active"}

Supersede ==
  /\ RunsAt("supersede")
  /\ MarkSuperseded(PreviousFacts(dg.doc, dg.ver) \ dg.facts)
  /\ Go("record")
  /\ UNCHANGED <<docVars, metadata, ledger, failed, fused, missed>>

RecordDigest ==
  /\ RunsAt("record")
  /\ Record(dg.doc, dg.ver, dg.facts, FALSE)
  /\ adrift' = (adrift \ dg.facts)
                 \cup {f \in Disowned(dg.doc, dg.ver, dg.facts) : graph[f] = "active"}
  /\ Go("retire")
  /\ UNCHANGED <<docVars, metadata, graph, failed, fused, missed, mishaps>>

\* retract_digested covers the version's own digest too.
Retract ==
  /\ RunsAt("retract")
  /\ LET facts == PreviousFacts(dg.doc, dg.ver + 1)
     IN  IF facts = {}
           THEN Go("retire") /\ UNCHANGED <<graph, adrift, mishaps>>
           ELSE Go("retracted") /\ MarkSuperseded(facts)
  /\ UNCHANGED <<docVars, metadata, ledger, failed, fused, missed>>

RecordRetraction ==
  /\ RunsAt("retracted")
  /\ Record(dg.doc, dg.ver, {}, TRUE)
  /\ Go("retire")
  /\ UNCHANGED <<docVars, metadata, graph, adrift, failed, fused, missed, mishaps>>

\* save_extension sets the cursor and writes the metadata as it is by then.
Saved(v, marks, count) ==
  cursor' = v /\ stored' = [cursor |-> v, pending |-> marks, strikes |-> count]

\* The write fails, before or after the cursor is set in memory; the run goes
\* on with its own copy.
SaveFails(v) == cursor' \in {cursor, v} /\ UNCHANGED stored

\* A version retired although its document was restored, or activated, since it
\* was read, is missed, unless it is recorded.
Passed ==
  IF dg.again /\ dg.ver >= current[dg.doc] /\ ~Recorded(dg.doc, dg.ver)
    THEN missed \cup {dg.ver} ELSE missed

NoStrikes == strikes' = [ver |-> 0, count |-> 0]

\* Done with a version: the cursor moves on and is saved, or the mark goes, in
\* memory.  The strikes are cleared last.
Retire ==
  /\ RunsAt("retire")
  /\ NoStrikes
  /\ dg' = [dg EXCEPT !.pc = "pick", !.at = IF dg.mode = "main" THEN dg.ver ELSE @]
  /\ IF dg.mode = "main"
       THEN /\ \/ Saved(dg.ver, pending, strikes) /\ UNCHANGED mishaps
               \/ SaveFails(dg.ver) /\ Slip("save")
            /\ UNCHANGED pending
       ELSE ClearPending(dg.doc) /\ UNCHANGED <<cursor, stored, mishaps>>
  /\ missed' = Passed
  /\ UNCHANGED <<docVars, graphVars, failed, fused>>

-----------------------------------------------------------------------------
(* Failures                                                                *)

\* Mutant: the failures of all versions are counted together.
BumpAny(v) == strikes.count + 1

\* bump_failure: one slot, for the version that failed last.
Bump(v) == IF strikes.ver = v THEN strikes.count + 1 ELSE 1

\* An error of the model, or of a read or write around it.
Fails == \/ RunsAt("extract") /\ Slip("extract")
         \/ dg.pc \in {"read", "chunks", "write", "supersede", "record", "retract", "retracted"}
            /\ Slip("write")

\* The attempt ends the run, unless the fuse gives the version up.
AttemptFails ==
  /\ Fails
  /\ failed' = [failed EXCEPT ![dg.ver] = @ + 1]
  /\ IF Bump(dg.ver) < MaxStrikes
       THEN /\ strikes' = [ver |-> dg.ver, count |-> Bump(dg.ver)]
            /\ dg' = Idle
            /\ UNCHANGED <<cursor, pending, stored, fused, missed>>
       ELSE /\ NoStrikes
            /\ fused' = fused \cup {dg.ver}
            /\ dg' = [dg EXCEPT !.pc = "pick", !.at = IF dg.mode = "main" THEN dg.ver ELSE @]
            /\ IF dg.mode = "main"
                 THEN /\ \/ Saved(dg.ver, pending, strikes')
                         \/ "save" \in Faults /\ SaveFails(dg.ver)
                      /\ UNCHANGED pending
                 ELSE ClearPending(dg.doc) /\ UNCHANGED <<cursor, stored>>
            /\ missed' = Passed
  /\ UNCHANGED <<docVars, graphVars>>

\* The task dies; RunningGuard resets the flag.
RunDies ==
  /\ dg # Idle /\ Slip("die")
  /\ dg' = Idle
  /\ UNCHANGED <<docVars, metadata, graphVars, failed, fused, missed>>

\* The metadata is written by another writer of extensions, by the keeper's
\* periodic flush, or when the space closes.
Flush ==
  /\ stored # [cursor |-> cursor, pending |-> pending, strikes |-> strikes]
  /\ stored' = [cursor |-> cursor, pending |-> pending, strikes |-> strikes]
  /\ UNCHANGED <<docVars, dg, cursor, pending, strikes, graphVars, failed, fused, missed, mishaps>>

\* Documents whose mark is not in the written metadata, or not yet set.
Unstored ==
  {d \in Docs : (d \in pending \/ (op.kind = "restore" /\ op.doc = d)) /\ d \notin stored.pending}

\* The process restarts: writer and run are gone, and the metadata is what was
\* written.  A mark that is lost leaves its version behind the cursor for good.
Restart ==
  /\ Slip("restart")
  /\ op' = Free /\ dg' = Idle
  /\ cursor' = stored.cursor /\ pending' = stored.pending /\ strikes' = stored.strikes
  /\ missed' = missed \cup {current[d] : d \in
       {e \in Unstored : /\ status[e] = "active" /\ current[e] <= stored.cursor
                         /\ ~Recorded(e, current[e])}}
  /\ UNCHANGED <<status, current, versions, gone, stored, graphVars, failed, fused>>

-----------------------------------------------------------------------------
WriterStep == AddVersion \/ Flip \/ RestoreReturns

Request ==
  \E d \in Docs : Archive(d) \/ BeginRestore(d) \/ \E b \in Bodies : BeginCommit(d, b)

DigestStep ==
  \/ FetchVersions \/ PickVersion \/ PickPending \/ EndRun
  \/ ReadDoc \/ ReadChunks \/ Extract \/ WriteFacts \/ Supersede \/ RecordDigest
  \/ Retract \/ RecordRetraction \/ Retire

Next ==
  \/ Request \/ WriterStep \/ CommitFails \/ RestoreFails
  \/ \E d \in Docs : Sweep(d)
  \/ StartDigest \/ DigestStep \/ AttemptFails \/ RunDies \/ Flush \/ Restart

Spec == Init /\ [][Next]_vars

\* Housekeeping and a digest run are kicked after every maintenance, and what
\* is under way goes on.
FairSpec ==
  /\ Spec
  /\ WF_vars(WriterStep) /\ SF_vars(\E d \in Docs : Sweep(d))
  /\ WF_vars(StartDigest) /\ WF_vars(DigestStep)

-----------------------------------------------------------------------------
(* Properties                                                              *)

TypeOK ==
  /\ cursor \in 0..MaxVersions /\ pending \subseteq Docs
  /\ \A s \in {strikes, stored.strikes} :
       s.ver \in 0..MaxVersions /\ s.count \in 0..MaxStrikes - 1
  /\ stored.cursor \in 0..cursor /\ stored.pending \subseteq Docs
  /\ \A d \in Docs : \A i \in DOMAIN ledger[d] : ledger[d][i].ver \in Versions
  /\ graph \in [Bodies -> {"none", "active", "superseded"}]

\* The newest digest of a document is of this version, and not taken back.
Digested(d, v) == ledger[d] # <<>> /\ Newest(d).ver = v /\ ~Newest(d).retracted

\* Nothing that the cursor passed is forgotten: the current version of an
\* active document that may be distilled is recorded, queued, given up by the
\* fuse or being restored, also across restarts, or one of the recorded ways
\* to miss it was taken: it was read before its first flip, its mark was set
\* again while it was being cleared, its restore failed behind the status, or
\* a restart came before its mark was written.
DigestedOrQueued ==
  \A d \in Docs :
    Exists(d) /\ Distillable(d) /\ current[d] <= cursor =>
      \/ Digested(d, current[d])
      \/ d \in pending \/ current[d] \in missed \cup fused
      \/ op.kind = "restore" /\ op.doc = d

\* digest.rs:525: once the digest has passed a version that must not be
\* distilled, the ledger vouches for no fact of the document.
WithheldIsRetracted ==
  \A d \in Docs :
    Exists(d) /\ body(current[d]) \in Withheld /\ current[d] <= cursor
      /\ current[d] \notin fused
        => ledger[d] = <<>> \/ Newest(d).facts = {}

\* What the graph asserts, some document's newest digest accounts for, except
\* what a failure between two of the digest's writes set adrift.
NothingLeaks ==
  \A f \in Bodies :
    graph[f] = "active" =>
      f \in adrift \/ \E d \in Docs : ledger[d] # <<>> /\ f \in Newest(d).facts

\* The fuse gives a version up only after that many failures of its own.
FuseIsEarned == \A v \in fused : failed[v] >= MaxStrikes

\* No version stays current and distillable for ever without being recorded,
\* however commits, sweeps, restores, failed attempts, failed saves and restarts
\* come in between, unless it was given up or missed in a way recorded above.
EveryVersionIsDigested ==
  \A d \in Docs :
    []<>(Exists(d) /\ Distillable(d) =>
           Digested(d, current[d]) \/ current[d] \in fused \cup missed)

\* digest.rs:91: until its document has flipped to a version, "the cursor must
\* NOT advance, or the version would silently never be digested".
CursorAwaitsFlip == [][\A d \in Docs : current'[d] # current[d] => cursor < current'[d]]_vars

\* What the graph asserts about documents, their digests vouch for, and no
\* digest vouches for what has been withheld.
FactsAreAccountedFor == TypeOK /\ WithheldIsRetracted /\ NothingLeaks
=============================================================================
