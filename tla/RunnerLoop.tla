----------------------------- MODULE RunnerLoop -----------------------------
(***************************************************************************)
(* One agent's conversations, from the first model turn to the snapshot    *)
(* that stays: drive_runner_loop and its two hosts (agents.rs), and the    *)
(* loop that recall keeps of its own (agents/recall.rs).  The completion   *)
(* runner belongs to the engine: it says something, converges, fails or    *)
(* asks for compaction as it likes.  A turn says one message, named by the *)
(* number of the turn, and costs one unit of usage; message 0 is the input.*)
(***************************************************************************)
EXTENDS Naturals, Sequences

CONSTANTS
  MaxModelTurns,     \* RUNNER_MAX_MODEL_TURNS, RECALL_MAX_MODEL_TURNS
  PersistEvery,      \* PERSIST_EVERY_N_TURNS
  MaxRuns,           \* bound: conversations
  MaxRestarts        \* bound: restarts of the process

ASSUME RunnerAssumption == MaxModelTurns \in Nat

VARIABLES
  host,      \* "formation", "maintenance" or "recall"
  runner,    \* the engine's CompletionRunner
  conv,      \* the conversation in memory
  loop,      \* the locals of the loop
  ring,      \* the completed conversations given to the model, oldest first
  kept,      \* what the conversation store holds, by id
  spent,     \* history: model turns of this conversation that succeeded
  late,      \* the wall clock has passed the budget
  restarts

runnerVars == <<host, runner, conv, loop, ring, kept, spent, late, restarts>>

HistoryLen == IF host = "recall" THEN 1 ELSE 2

NoConv == [id |-> 0, status |-> "none", msgs |-> <<>>, usage |-> 0]
NoRunner == [phase |-> "done", turns |-> 0, said |-> <<>>, total |-> 0]
AtRest == [pc |-> "rest", replace |-> TRUE, known |-> 0, total |-> 0,
           accounted |-> 0, unpersisted |-> 0, failure |-> "none", review |-> "none"]

RunnerInit ==
  /\ host \in {"formation", "maintenance", "recall"}
  /\ runner = NoRunner /\ conv = NoConv /\ loop = AtRest
  /\ ring = <<>> /\ kept = <<>>
  /\ spent = 0 /\ late = FALSE /\ restarts = 0

Finished(status) == status \in {"Completed", "Failed"}
Persist == kept' = [kept EXCEPT ![conv.id] = conv']
\* Of an earlier conversation only the status is looked at again.
Bare(c) == [c EXCEPT !.msgs = <<>>, !.usage = 0]

\* The conversation is stored as Working before the first turn; a long
\* formation prompt asks for a review pass.
Begin ==
  /\ loop.pc = "rest" /\ Len(kept) < MaxRuns
  /\ conv' = [id |-> Len(kept) + 1, status |-> "Working", msgs |-> <<0>>, usage |-> 0]
  /\ kept' = Append([i \in 1..Len(kept) |-> Bare(kept[i])], conv')
  /\ runner' = [phase |-> "running", turns |-> 0, said |-> <<0>>, total |-> 0]
  /\ \E review \in {"none"} \cup (IF host = "formation" THEN {"pending"} ELSE {}) :
       loop' = [AtRest EXCEPT !.pc = "budget", !.review = review]
  /\ spent' = 0 /\ late' = FALSE
  /\ UNCHANGED <<host, ring, restarts>>

TimePasses ==
  /\ loop.pc \notin {"rest", "exit"} /\ ~late
  /\ late' = TRUE
  /\ UNCHANGED <<host, runner, conv, loop, ring, kept, spent, restarts>>

Leave(failure) == loop' = [loop EXCEPT !.pc = "exit", !.failure = failure]

\* The guards at the top of the loop.
CheckBudget ==
  /\ loop.pc = "budget"
  /\ IF loop.total >= MaxModelTurns THEN Leave("limit")
     ELSE IF late THEN Leave("clock")
     ELSE loop' = [loop EXCEPT !.pc = "compact"]
  /\ UNCHANGED <<host, runner, conv, ring, kept, spent, late, restarts>>

\* compact_runner_if_needed: a runner that is done is never handed off.
SkipCompaction ==
  /\ loop.pc = "compact"
  /\ loop' = [loop EXCEPT !.pc = "next"]
  /\ UNCHANGED <<host, runner, conv, ring, kept, spent, late, restarts>>

\* Mutant: the new runner's history is taken to continue the old one's.
CompactedAsBefore == [loop EXCEPT !.pc = "next", !.total = @ + 1, !.accounted = 0, !.replace = FALSE]

Compacted == [loop EXCEPT !.pc = "next", !.total = @ + 1, !.accounted = 0,
                          !.known = 0, !.replace = FALSE]

\* The handoff costs a turn; the new runner begins with the summary, takes
\* over the usage, and is asked to continue.
Compact ==
  /\ loop.pc = "compact" /\ runner.phase # "done"
  /\ spent' = spent + 1
  /\ runner' = [phase |-> "running", turns |-> 0, said |-> <<spent'>>,
                total |-> runner.total + 1]
  /\ loop' = Compacted
  /\ UNCHANGED <<host, conv, ring, kept, late, restarts>>

\* A failed handoff may have drained the runner's usage: it is put back.
RestoredUsage(pre, left) == IF left = 0 THEN pre ELSE left

CompactFails ==
  /\ loop.pc = "compact" /\ runner.phase # "done"
  /\ \E left \in {0, runner.total} :
       runner' = [runner EXCEPT !.total = RestoredUsage(runner.total, left)]
  /\ Leave("runner")
  /\ UNCHANGED <<host, conv, ring, kept, spent, late, restarts>>

\* Recall alone cancels a call that outlasts the clock, and looks at the
\* clock again before the turn.
Cancel ==
  /\ host = "recall" /\ late
  /\ loop.pc \in {"compact", "next"} /\ runner.phase # "done"
  /\ Leave("clock")
  /\ UNCHANGED <<host, runner, conv, ring, kept, spent, late, restarts>>

MayCall == loop.pc = "next" /\ (host = "recall" => ~late)

NoMoreTurns ==
  /\ MayCall
  /\ Leave("none")
  /\ UNCHANGED <<host, runner, conv, ring, kept, spent, late, restarts>>

TurnErrs ==
  /\ MayCall /\ runner.phase # "done"
  /\ Leave("runner")
  /\ UNCHANGED <<host, runner, conv, ring, kept, spent, late, restarts>>

\* append_runner_history: the runner's history is cumulative, so only what
\* follows the part already recorded is new; the first output repeats the input.
AppendHistory(msgs, said, known, replace) ==
  (IF replace THEN <<>> ELSE msgs)
    \o (IF Len(said) >= known THEN SubSeq(said, known + 1, Len(said)) ELSE said)

\* turn_is_done; formation's runner is unbound: it idles, and is done when
\* there is no review left.
TurnIsDone(phase) ==
  phase = "done" \/ (host = "formation" /\ phase = "idle" /\ loop.review # "pending")

\* push_completed_history.
Pushed(entries, c) ==
  IF c.status # "Completed" THEN entries
  ELSE LET all == Append(entries, c.id)
       IN  SubSeq(all, 1 + (IF Len(all) > HistoryLen THEN Len(all) - HistoryLen ELSE 0), Len(all))

\* Where the loop goes after a turn: a refusal ends it, recall stops at
\* Completed, maintenance comes back for the runner's own end, formation first
\* asks for the review.
AfterTurn(status, phase) ==
  IF \/ status = "Failed"
     \/ host = "recall" /\ status = "Completed"
     \/ host = "formation" /\ TurnIsDone(phase)
  THEN "exit" ELSE "budget"

\* Snapshots are throttled until the status is final.
Due(status, unpersisted) == Finished(status) \/ unpersisted >= PersistEvery

TakeTurn(phase, refused) ==
  LET said     == Append(runner.said, spent + 1)
      status   == IF refused THEN "Failed" ELSE IF TurnIsDone(phase) THEN "Completed" ELSE "Working"
      used     == runner.total + 1
      asked    == loop.review = "pending" /\ phase = "idle" /\ ~refused
      unsaved  == loop.unpersisted + 1
      counted  == IF runner.turns + 1 > loop.accounted THEN runner.turns + 1 - loop.accounted ELSE 0
  IN  /\ MayCall /\ runner.phase # "done"
      /\ spent' = spent + 1
      \* the final output takes the usage out of the runner
      /\ runner' = [phase |-> IF asked THEN "running" ELSE phase,
                    turns |-> runner.turns + 1, said |-> said,
                    total |-> IF phase = "running" THEN used ELSE 0]
      /\ conv' = [conv EXCEPT !.msgs = AppendHistory(@, said, loop.known, loop.replace),
                              !.status = status, !.usage = used]
      /\ ring' = Pushed(ring, conv')
      /\ loop' = [loop EXCEPT !.pc = AfterTurn(status, phase), !.replace = FALSE,
                              !.known = Len(said), !.total = @ + counted,
                              !.accounted = runner.turns + 1,
                              !.review = IF asked THEN "asked" ELSE @,
                              !.unpersisted = IF Due(status, unsaved) THEN 0 ELSE unsaved]
      /\ IF Due(status, unsaved) THEN Persist ELSE UNCHANGED kept
      /\ UNCHANGED <<host, late, restarts>>

\* A bound runner ends by being done, an unbound one by idling.
Turn ==
  \/ TakeTurn("running", FALSE)
  \/ TakeTurn(IF host = "formation" THEN "idle" ELSE "done", FALSE)
  \/ TakeTurn("done", TRUE)

\* The single failure exit backfills the usage and stores the failure; a
\* Working exit flushes the turns that the throttle held back.
LeaveLoop ==
  /\ loop.pc = "exit"
  /\ conv' = IF loop.failure = "none" THEN conv
             ELSE [conv EXCEPT !.usage = runner.total, !.status = "Failed"]
  /\ IF loop.failure # "none" \/ (loop.unpersisted > 0 /\ conv.status = "Working")
       THEN Persist ELSE UNCHANGED kept
  /\ loop' = [loop EXCEPT !.pc = "rest"]
  /\ UNCHANGED <<host, runner, ring, spent, late, restarts>>

Newest(ids) == CHOOSE i \in ids : \A j \in ids : j <= i

\* init of the three agents: the newest completed conversations, turned round;
\* maintenance looks at the last two only, recall at the last three.
Recalled ==
  LET window  == CASE host = "maintenance" -> 2 [] host = "recall" -> 3 [] OTHER -> 32
      done    == {i \in 1..Len(kept) : i + window > Len(kept) /\ kept[i].status = "Completed"}
      earlier == {i \in done \ {Newest(done)} : HistoryLen > 1}
  IN  IF done = {} THEN <<>>
      ELSE IF earlier = {} THEN <<Newest(done)>> ELSE <<Newest(earlier), Newest(done)>>

Restart ==
  /\ restarts < MaxRestarts
  /\ restarts' = restarts + 1
  /\ runner' = NoRunner /\ conv' = NoConv /\ loop' = AtRest
  /\ ring' = Recalled
  /\ spent' = 0 /\ late' = FALSE
  /\ UNCHANGED <<host, kept>>

RunnerStep ==
  \/ CheckBudget \/ SkipCompaction \/ Compact \/ CompactFails \/ Cancel
  \/ NoMoreTurns \/ TurnErrs \/ Turn \/ LeaveLoop

RunnerNext == Begin \/ TimePasses \/ RunnerStep \/ Restart

RunnerSpec == RunnerInit /\ [][RunnerNext]_runnerVars /\ WF_runnerVars(RunnerStep)

-----------------------------------------------------------------------------
(* Properties                                                              *)

RunnerTypeOK ==
  /\ runner.phase \in {"running", "idle", "done"} /\ runner.turns \in Nat
  /\ conv.status \in {"none", "Working", "Completed", "Failed"}
  /\ loop.pc \in {"rest", "budget", "compact", "next", "exit"}
  /\ loop.failure \in {"none", "limit", "clock", "runner"}
  /\ \A i \in 1..Len(kept) : kept[i].id = i

\* RUNNER_MAX_MODEL_TURNS counts across compactions, each of which restarts
\* the runner's own counter; one iteration may compact and then take a turn.
TurnsAreBounded == spent <= MaxModelTurns + 1

\* However compactions fall, the conversation is the input and every turn
\* said since, each once and in order.
TranscriptIsWhole ==
  /\ conv.msgs = [i \in 1..Len(conv.msgs) |-> i - 1]
  /\ loop.pc = "budget" => Len(conv.msgs) = spent + 1

\* The budgets are checked before the runner is asked for its end, and may
\* strike a maintenance that has converged.
Overtaken == runner.phase = "done" /\ loop.failure \in {"limit", "clock"}

\* Whichever of its exits the loop takes, what is stored is what the
\* conversation was at the end, and no usage is lost on the way.  Not
\* counted: a review, for which the engine starts a new count, and a runner
\* that ends unconverged, of which the last turn's usage is kept.
ExitIsStored ==
  loop.pc = "rest" /\ conv # NoConv =>
    /\ kept[conv.id] = conv
    /\ loop.review = "asked" \/ Overtaken \/ conv.status = "Working" \/ conv.usage = spent

\* The context ring holds the latest completed conversations of the agent,
\* oldest first, also after a restart has rebuilt it.
RingIsLatest ==
  /\ Len(ring) <= HistoryLen
  /\ \A i, j \in 1..Len(ring) : i < j => ring[i] < ring[j]
  /\ loop.pc = "rest" /\ conv.status = "Completed" => ring # <<>> /\ ring[Len(ring)] = conv.id
  /\ \A i \in 1..Len(ring) :
       \/ kept[ring[i]].status = "Completed"
       \/ ring[i] = conv.id /\ Overtaken
       \/ kept[ring[i]].status = "Failed" /\ host = "maintenance"

\* A model that never converges still leaves the loop.
EveryRunEnds == loop.pc # "rest" ~> loop.pc = "rest"

\* agents.rs:283: a finished runner must not "flip an already-persisted
\* Completed conversation to Failed with zeroed usage".
CompletedStays == [][conv.status = "Completed" => conv'.status # "Failed" \/ conv'.id # conv.id]_runnerVars

\* What an agent run leaves behind can be relied on: its budget held, and its
\* conversation, its exit and its place in the context are as they happened.
RunsAreSound ==
  RunnerTypeOK /\ TurnsAreBounded /\ TranscriptIsWhole /\ ExitIsStored /\ RingIsLatest
=============================================================================
