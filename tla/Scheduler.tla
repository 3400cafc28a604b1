----------------------------- MODULE Scheduler ------------------------------
(***************************************************************************)
(* The formation / maintenance scheduler of one memory space:              *)
(*   FormationAgent    src/anda_brain/src/agents/formation.rs              *)
(*   MaintenanceAgent  src/anda_brain/src/agents/maintenance.rs            *)
(*   Space::maintenance, restart_formation, Hooks, eviction and reload     *)
(*                     src/anda_brain/src/space.rs                         *)
(*                                                                         *)
(* Tasks are the asynchronous tasks of the tokio runtime: requests,        *)
(* spawned formation loops and spawned maintenance cycles.  One action is  *)
(* the code between two accesses to shared state another task can          *)
(* interleave with.  Requests arrive on idle tasks.  A request that        *)
(* spawns a task only returns afterwards, so it becomes that task; the     *)
(* formation loop is the one spawner that goes on, and it takes an idle    *)
(* task for the maintenance cycle it schedules.                            *)
(***************************************************************************)
EXTENDS Naturals, FiniteSets

CONSTANTS
  Tasks,                                \* task identities
  MaxConversations,                     \* bound: conversations ever ingested
  FullEvery, QuickEvery, DaydreamEvery, \* 168, 42 and 21 in the source
  Faults,                               \* the kinds of fault that may happen
  MaxFaults,                            \* bound: faults in one behaviour
  MaxManual,                            \* bound: maintenance requests
  Operator                              \* may an operator restart formation?

FaultKinds == {"llm", "panic", "crash", "dispatch", "add", "save", "read"}

ASSUME SchedulerAssumption ==
  /\ MaxConversations \in Nat
  /\ FullEvery \in Nat /\ QuickEvery \in Nat /\ DaydreamEvery \in Nat
  /\ Faults \subseteq FaultKinds
  /\ MaxFaults \in Nat
  /\ MaxManual \in Nat
  /\ Operator \in BOOLEAN

VARIABLES
  total,       \* conversations 1..total exist in the store
  status,      \* persisted ConversationStatus of each
  processed,   \* persisted watermark `brain_processed`, 0 when missing
  at,          \* persisted maintenance watermarks, one per scope
  slot,        \* FormationAgent::processing_conversation, 0 when idle
  processing,  \* MaintenanceAgent::processing
  claim,       \* MaintenanceAgent::external_claim
  up,          \* is the space loaded?
  pc,          \* what each task does next
  conv,        \* the conversation (or start id) a task works on, 0 if none
  cycle,       \* scope and formation_id of a task's MaintenanceInput
  formed,      \* history: conversations encoded at least once
  waived,      \* history: conversations an operator jumped over
  faults,      \* faults so far
  manual       \* maintenance requests so far

store   == <<total, status, processed, at>>
flags   == <<slot, processing, claim>>
history == <<formed, waived>>
budget  == <<faults, manual>>
vars == <<store, flags, up, pc, conv, cycle, history, budget>>

Ids    == 1..MaxConversations
Scopes == {"full", "quick", "daydream"}
Status == {"none", "submitted", "working", "failed", "completed"}

\* Where a task that runs the formation loop and owns the slot can be.
LoopPCs == {"encode", "reencode", "mark", "schedule", "claim", "claimed",
            "settle", "dispatch", "runCas", "run", "dropClaim", "handOff",
            "abort", "next", "release"}
\* Where a task that entered Space::maintenance or runs a cycle can be.
MaintPCs == {"claimed", "settle", "dispatch", "run", "cycle", "cycleEnd"}

PCs == LoopPCs \cup MaintPCs \cup
         {"idle", "ingest", "ingestIdle", "ingestPick", "resume", "start",
          "startIdle", "startPick", "tryProcess", "recheck"}

NoCycle == [scope |-> "daydream", formation |-> 0]

Init ==
  /\ total = 0
  /\ status = [i \in Ids |-> "none"]
  /\ processed = 0
  /\ at = [s \in Scopes |-> 0]
  /\ slot = 0
  /\ processing = FALSE
  /\ claim = FALSE
  /\ up = FALSE
  /\ pc = [t \in Tasks |-> "idle"]
  /\ conv = [t \in Tasks |-> 0]
  /\ cycle = [t \in Tasks |-> NoCycle]
  /\ formed = {}
  /\ waived = {}
  /\ faults = 0
  /\ manual = 0

-----------------------------------------------------------------------------
(* Helpers                                                                 *)

GoTo(t, p) == pc' = [pc EXCEPT ![t] = p]

Exit(t) ==
  /\ GoTo(t, "idle")
  /\ conv' = [conv EXCEPT ![t] = 0]

Fault(kind) ==
  /\ kind \in Faults
  /\ faults < MaxFaults
  /\ faults' = faults + 1
  /\ UNCHANGED manual

\* The conversations find_next_submitted(after) would stop at ...
Candidates(after) ==
  {i \in Ids : after < i /\ i <= total /\ status[i] # "completed"}

\* Mutant: the newest conversation first.
IsLast(i, S) == i \in S /\ \A j \in S : i >= j

IsFirst(i, S) == i \in S /\ \A j \in S : i <= j

\* ... it takes the lowest, and skips one it fails to read.
Found(i, after) ==
  \/ IsFirst(i, Candidates(after)) /\ UNCHANGED budget
  \/ /\ Fault("read")
     /\ \E j \in Candidates(after) :
          j < i /\ IsFirst(i, Candidates(after) \ {j})

FoundNone(after) ==
  \/ Candidates(after) = {} /\ UNCHANGED budget
  \/ Fault("read") /\ \E j \in Ids : Candidates(after) = {j}

-----------------------------------------------------------------------------
(* FormationAgent::run, the ingest path                                    *)

\* add_conversation persists the conversation before anything is decided.
Ingest(t) ==
  /\ up /\ pc[t] = "idle" /\ total < MaxConversations
  /\ total' = total + 1
  /\ status' = [status EXCEPT ![total + 1] = "submitted"]
  /\ conv' = [conv EXCEPT ![t] = total + 1]
  /\ GoTo(t, "ingest")
  /\ UNCHANGED <<processed, at, flags, up, cycle, history, budget>>

\* `is_idle`: a running loop will find the new conversation by itself.
IngestCheckSlot(t) ==
  /\ pc[t] = "ingest"
  /\ IF slot = 0 THEN GoTo(t, "ingestIdle") /\ UNCHANGED conv ELSE Exit(t)
  /\ UNCHANGED <<store, flags, up, cycle, history, budget>>

IngestCheckMaintenance(t) ==
  /\ pc[t] = "ingestIdle"
  /\ IF processing THEN Exit(t) ELSE GoTo(t, "ingestPick") /\ UNCHANGED conv
  /\ UNCHANGED <<store, flags, up, cycle, history, budget>>

\* Mutant: never look back for missed conversations.
IngestPickSelf(t) ==
  /\ pc[t] = "ingestPick"
  /\ GoTo(t, "tryProcess")
  /\ UNCHANGED <<store, flags, up, conv, cycle, history, budget>>

\* The new conversation itself, unless older ones were missed.
IngestPick(t) ==
  /\ pc[t] = "ingestPick"
  /\ \/ /\ processed + 1 >= conv[t]
        /\ GoTo(t, "tryProcess")
        /\ UNCHANGED <<conv, budget>>
     \/ /\ processed + 1 < conv[t]
        /\ \E i \in Ids : Found(i, processed) /\ conv' = [conv EXCEPT ![t] = i]
        /\ GoTo(t, "tryProcess")
     \/ /\ processed + 1 < conv[t]
        /\ FoundNone(processed)
        /\ Exit(t)
  /\ UNCHANGED <<store, flags, up, cycle, history>>

-----------------------------------------------------------------------------
(* FormationAgent::start_process: operator restart, reload, end of a cycle *)

\* PATCH restart_formation at an id the operator chose.
OperatorRestart(t) ==
  /\ Operator /\ up /\ pc[t] = "idle"
  /\ \E from \in 1..total :
       /\ conv' = [conv EXCEPT ![t] = from]
       /\ waived' = waived \cup 1..(from - 1)
  /\ GoTo(t, "start")
  /\ UNCHANGED <<store, flags, up, cycle, formed, budget>>

\* try_start_formation and the autostart task resume after the watermark.
Resume(t) ==
  /\ pc[t] = "resume"
  /\ conv' = [conv EXCEPT ![t] = processed + 1]
  /\ GoTo(t, "start")
  /\ UNCHANGED <<store, flags, up, cycle, history, budget>>

StartCheckSlot(t) ==
  /\ pc[t] = "start"
  /\ IF slot = 0 THEN GoTo(t, "startIdle") /\ UNCHANGED conv ELSE Exit(t)
  /\ UNCHANGED <<store, flags, up, cycle, history, budget>>

StartCheckMaintenance(t) ==
  /\ pc[t] = "startIdle"
  /\ IF processing THEN Exit(t) ELSE GoTo(t, "startPick") /\ UNCHANGED conv
  /\ UNCHANGED <<store, flags, up, cycle, history, budget>>

StartPick(t) ==
  /\ pc[t] = "startPick"
  /\ \/ /\ \E i \in Ids : Found(i, conv[t] - 1) /\ conv' = [conv EXCEPT ![t] = i]
        /\ GoTo(t, "tryProcess")
     \/ FoundNone(conv[t] - 1) /\ Exit(t)
  /\ UNCHANGED <<store, flags, up, cycle, history>>

\* Mutant: a plain store instead of the compare-and-swap.
TryProcessStore(t) ==
  /\ pc[t] = "tryProcess"
  /\ slot' = conv[t]
  /\ GoTo(t, "encode")
  /\ UNCHANGED <<store, processing, claim, up, conv, cycle, history, budget>>

\* try_process: compare-and-swap the slot from 0, then spawn the loop.  The
\* same step ends the double check of a loop that had released the slot.
TryProcess(t) ==
  /\ pc[t] = "tryProcess"
  /\ \/ slot = 0 /\ slot' = conv[t] /\ GoTo(t, "encode") /\ UNCHANGED conv
     \/ slot # 0 /\ Exit(t) /\ UNCHANGED slot
  /\ UNCHANGED <<store, processing, claim, up, cycle, history, budget>>

-----------------------------------------------------------------------------
(* FormationAgent::process_loop                                            *)

Encoding(t) == pc[t] \in {"encode", "reencode"}

\* drive_runner_loop persists an unfinished conversation now and then.
EncodeSnapshot(t) ==
  /\ Encoding(t)
  /\ status' = [status EXCEPT ![conv[t]] = "working"]
  /\ UNCHANGED <<total, processed, at, flags, up, pc, conv, cycle, history, budget>>

EncodeCompletes(t) ==
  /\ Encoding(t)
  /\ status' = [status EXCEPT ![conv[t]] = "completed"]
  /\ formed' = formed \cup {conv[t]}
  /\ GoTo(t, "mark")
  /\ UNCHANGED <<total, processed, at, flags, up, conv, cycle, waived, budget>>

\* A failed conversation is tried once more, then the loop gives up.
EncodeFails(t) ==
  /\ Encoding(t) /\ Fault("llm")
  /\ status' = [status EXCEPT ![conv[t]] = "failed"]
  /\ GoTo(t, IF pc[t] = "encode" THEN "reencode" ELSE "abort")
  /\ UNCHANGED <<total, processed, at, flags, up, conv, cycle, history>>

\* The runner ends without a verdict: the status stays Working.
EncodeUnfinished(t) ==
  /\ Encoding(t) /\ Fault("llm")
  /\ status' = [status EXCEPT ![conv[t]] = "working"]
  /\ GoTo(t, "abort")
  /\ UNCHANGED <<total, processed, at, flags, up, conv, cycle, history>>

\* ProcessingGuard: a panicking loop gives the slot back.
EncodePanics(t) ==
  /\ Encoding(t) /\ Fault("panic")
  /\ slot' = 0
  /\ Exit(t)
  /\ UNCHANGED <<store, processing, claim, up, cycle, history>>

Abort(t) ==
  /\ pc[t] = "abort"
  /\ slot' = 0
  /\ Exit(t)
  /\ UNCHANGED <<store, processing, claim, up, cycle, history, budget>>

\* Mutant: the last conversation processed instead of the maximum.
WatermarkLast(t) == conv[t]

\* The watermark is the maximum; an error of save_extension is ignored.
Watermark(t) == IF conv[t] > processed THEN conv[t] ELSE processed

Mark(t) ==
  /\ pc[t] = "mark"
  /\ \/ processed' = Watermark(t) /\ UNCHANGED budget
     \/ processed' = processed /\ Fault("save")
  /\ GoTo(t, "schedule")
  /\ UNCHANGED <<total, status, at, flags, up, conv, cycle, history>>

\* Mutant: the slot is kept across the handoff.
HandOffKeepsSlot(t) ==
  /\ pc[t] = "handOff"
  /\ Exit(t)
  /\ UNCHANGED <<store, flags, up, cycle, history, budget>>

\* A scheduled maintenance is on its way: leave the rest to its end.
HandOff(t) ==
  /\ pc[t] = "handOff"
  /\ slot' = 0
  /\ Exit(t)
  /\ UNCHANGED <<store, processing, claim, up, cycle, history, budget>>

\* Go on with the next conversation under the same slot.
LoopNext(t) ==
  /\ pc[t] = "next"
  /\ \/ \E i \in Ids :
          /\ Found(i, conv[t])
          /\ slot = conv[t]
          /\ slot' = i
          /\ conv' = [conv EXCEPT ![t] = i]
          /\ GoTo(t, "encode")
     \/ FoundNone(conv[t]) /\ GoTo(t, "release") /\ UNCHANGED <<slot, conv>>
  /\ UNCHANGED <<store, processing, claim, up, cycle, history>>

\* Mutant: no double check after the release of the slot.
ReleaseNoRecheck(t) ==
  /\ pc[t] = "release"
  /\ slot' = 0
  /\ Exit(t)
  /\ UNCHANGED <<store, processing, claim, up, cycle, history, budget>>

\* Nothing was found: release the slot and look again.
Release(t) ==
  /\ pc[t] = "release"
  /\ slot' = 0
  /\ GoTo(t, "recheck")
  /\ UNCHANGED <<store, processing, claim, up, conv, cycle, history, budget>>

\* The double check: a conversation may have arrived before the release.
LoopRecheck(t) ==
  /\ pc[t] = "recheck"
  /\ \/ /\ \E i \in Ids : Found(i, conv[t]) /\ conv' = [conv EXCEPT ![t] = i]
        /\ GoTo(t, "tryProcess")
     \/ FoundNone(conv[t]) /\ Exit(t)
  /\ UNCHANGED <<store, flags, up, cycle, history>>

-----------------------------------------------------------------------------
(* Hooks::try_start_maintenance and Space::maintenance                     *)

AtLeast(a, b) == IF a > b THEN a ELSE b

DueScope(id) ==
  IF id >= at["full"] + FullEvery THEN "full"
  ELSE IF id >= AtLeast(at["quick"], at["full"]) + QuickEvery THEN "quick"
  ELSE IF id >= AtLeast(at["daydream"], AtLeast(at["quick"], at["full"]))
                  + DaydreamEvery THEN "daydream"
  ELSE "none"

Schedule(t) ==
  /\ pc[t] = "schedule"
  /\ LET due == DueScope(conv[t]) IN
       \/ due = "none" /\ GoTo(t, "next") /\ UNCHANGED cycle
       \/ /\ due # "none"
          /\ cycle' = [cycle EXCEPT ![t] = [scope |-> due, formation |-> conv[t]]]
          /\ GoTo(t, "claim")
  /\ UNCHANGED <<store, flags, up, conv, history, budget>>

\* POST maintenance: the handlers refuse while anything is processing.
RequestMaintenance(t) ==
  /\ up /\ pc[t] = "idle" /\ manual < MaxManual
  /\ slot = 0 /\ ~processing
  /\ manual' = manual + 1
  /\ \E s \in Scopes : cycle' = [cycle EXCEPT ![t] = [scope |-> s, formation |-> 0]]
  /\ GoTo(t, "claim")
  /\ UNCHANGED <<store, flags, up, conv, history, faults>>

\* No maintenance was started: a scheduling loop goes on, a request returns.
NotStarted(t) ==
  /\ GoTo(t, IF conv[t] # 0 THEN "next" ELSE "idle")
  /\ cycle' = [cycle EXCEPT ![t] = NoCycle]

\* Mutant: the claim succeeds whatever the flag says.
ClaimAlways(t) ==
  /\ pc[t] = "claim"
  /\ processing' = TRUE
  /\ GoTo(t, "claimed")
  /\ UNCHANGED <<store, slot, claim, up, conv, cycle, history, budget>>

\* try_claim_processing takes the flag first and marks the claim second.
Claim(t) ==
  /\ pc[t] = "claim"
  /\ \/ ~processing /\ processing' = TRUE /\ GoTo(t, "claimed") /\ UNCHANGED cycle
     \/ processing /\ NotStarted(t) /\ UNCHANGED processing
  /\ UNCHANGED <<store, slot, claim, up, conv, history, budget>>

\* Mutant: the formation_id of the request is kept.
ClaimMarkKeepsInput(t) ==
  /\ pc[t] = "claimed"
  /\ claim' = TRUE
  /\ GoTo(t, "settle")
  /\ UNCHANGED <<store, slot, processing, up, conv, cycle, history, budget>>

\* ... and the space fixes formation_id to the watermark of this moment.
ClaimMark(t) ==
  /\ pc[t] = "claimed"
  /\ claim' = TRUE
  /\ cycle' = [cycle EXCEPT ![t].formation = processed]
  /\ GoTo(t, "settle")
  /\ UNCHANGED <<store, slot, processing, up, conv, history, budget>>

\* settle_memory_metabolism writes the graph; its errors are only logged.
Settle(t) ==
  /\ pc[t] = "settle"
  /\ GoTo(t, "dispatch")
  /\ UNCHANGED <<store, flags, up, conv, cycle, history, budget>>

\* The engine refuses the call before MaintenanceAgent::run.
DispatchFails(t) ==
  /\ pc[t] = "dispatch" /\ Fault("dispatch")
  /\ GoTo(t, "dropClaim")
  /\ UNCHANGED <<store, flags, up, conv, cycle, history>>

\* MaintenanceAgent::run inherits the claim ...
Inherit(t) ==
  /\ pc[t] = "dispatch"
  /\ claim' = FALSE
  /\ GoTo(t, IF claim THEN "run" ELSE "runCas")
  /\ UNCHANGED <<store, slot, processing, up, conv, cycle, history, budget>>

\* ... or, when there is none, tries to take the flag itself.
RunClaim(t) ==
  /\ pc[t] = "runCas"
  /\ \/ ~processing /\ processing' = TRUE /\ GoTo(t, "run") /\ UNCHANGED cycle
     \/ processing /\ NotStarted(t) /\ UNCHANGED processing
  /\ UNCHANGED <<store, slot, claim, up, conv, history, budget>>

\* The cycle's conversation is stored and its task spawned.
SpawnCycle(t) ==
  /\ pc[t] = "run"
  /\ \/ conv[t] = 0 /\ GoTo(t, "cycle") /\ UNCHANGED cycle
     \/ \E u \in Tasks :
          /\ conv[t] # 0 /\ pc[u] = "idle"
          /\ pc' = [pc EXCEPT ![t] = "handOff", ![u] = "cycle"]
          /\ cycle' = [cycle EXCEPT ![t] = NoCycle, ![u] = cycle[t]]
  /\ UNCHANGED <<store, flags, up, conv, history, budget>>

\* The cycle's conversation cannot be stored: the guard releases the flag.
AddFails(t) ==
  /\ pc[t] = "run" /\ Fault("add")
  /\ processing' = FALSE
  /\ GoTo(t, "dropClaim")
  /\ UNCHANGED <<store, slot, claim, up, conv, cycle, history>>

\* Drop of MaintenanceClaim on the error path of Space::maintenance.
DropClaim(t) ==
  /\ pc[t] = "dropClaim"
  /\ claim' = FALSE
  /\ processing' = (processing /\ ~claim)
  /\ NotStarted(t)
  /\ UNCHANGED <<store, slot, up, conv, history, budget>>

-----------------------------------------------------------------------------
(* The spawned maintenance cycle                                           *)

\* Only a completed cycle moves the watermark of its scope.
CycleCompletes(t) ==
  /\ pc[t] = "cycle"
  /\ at' = [at EXCEPT ![cycle[t].scope] = cycle[t].formation]
  /\ GoTo(t, "cycleEnd")
  /\ UNCHANGED <<total, status, processed, flags, up, conv, cycle, history, budget>>

CycleFails(t) ==
  /\ pc[t] = "cycle" /\ Fault("llm")
  /\ GoTo(t, "cycleEnd")
  /\ UNCHANGED <<store, flags, up, conv, cycle, history>>

\* The flag is released before formation is triggered.
CycleReleases(t) ==
  /\ pc[t] = "cycleEnd"
  /\ processing' = FALSE
  /\ cycle' = [cycle EXCEPT ![t] = NoCycle]
  /\ GoTo(t, "resume")
  /\ UNCHANGED <<store, slot, claim, up, conv, history, budget>>

\* ProcessingGuard: a panicking cycle gives the flag back, and nothing else.
CyclePanics(t) ==
  /\ pc[t] = "cycle" /\ Fault("panic")
  /\ processing' = FALSE
  /\ cycle' = [cycle EXCEPT ![t] = NoCycle]
  /\ GoTo(t, "idle")
  /\ UNCHANGED <<store, slot, claim, up, conv, history>>

-----------------------------------------------------------------------------
(* The life of the space                                                   *)

\* try_evict_idle_space: nothing processes and no request holds the space.
Evict ==
  /\ up /\ slot = 0 /\ ~processing
  /\ \A t \in Tasks : pc[t] = "idle"
  /\ up' = FALSE
  /\ UNCHANGED <<store, flags, pc, conv, cycle, history, budget>>

\* Mutant: loading a space does not resume its backlog.
LoadNoAutostart(t) ==
  /\ ~up /\ pc[t] = "idle"
  /\ up' = TRUE
  /\ UNCHANGED <<store, flags, pc, conv, cycle, history, budget>>

\* load_space: Space::connect spawns the autostart task.
Load(t) ==
  /\ ~up /\ pc[t] = "idle"
  /\ up' = TRUE
  /\ GoTo(t, "resume")
  /\ UNCHANGED <<store, flags, conv, cycle, history, budget>>

\* The process dies: flags and tasks are gone, the store is not.
Crash ==
  /\ up /\ Fault("crash")
  /\ up' = FALSE
  /\ slot' = 0 /\ processing' = FALSE /\ claim' = FALSE
  /\ pc' = [t \in Tasks |-> "idle"]
  /\ conv' = [t \in Tasks |-> 0]
  /\ cycle' = [t \in Tasks |-> NoCycle]
  /\ UNCHANGED <<store, history>>

-----------------------------------------------------------------------------
StartStep(t) ==
  \/ IngestCheckSlot(t) \/ IngestCheckMaintenance(t) \/ IngestPick(t)
  \/ Resume(t) \/ StartCheckSlot(t) \/ StartCheckMaintenance(t) \/ StartPick(t)
  \/ TryProcess(t)

LoopStep(t) ==
  \/ EncodeCompletes(t) \/ Abort(t) \/ Mark(t) \/ Schedule(t) \/ HandOff(t)
  \/ LoopNext(t) \/ Release(t) \/ LoopRecheck(t)

MaintenanceStep(t) ==
  \/ Claim(t) \/ ClaimMark(t) \/ Settle(t) \/ Inherit(t) \/ RunClaim(t)
  \/ SpawnCycle(t) \/ DropClaim(t) \/ CycleCompletes(t) \/ CycleReleases(t)

Request(t) == Ingest(t) \/ OperatorRestart(t) \/ RequestMaintenance(t)

Mishap(t) ==
  \/ EncodeFails(t) \/ EncodeUnfinished(t) \/ EncodePanics(t)
  \/ DispatchFails(t) \/ AddFails(t) \/ CycleFails(t) \/ CyclePanics(t)

TaskStep(t) == StartStep(t) \/ LoopStep(t) \/ MaintenanceStep(t)

Next ==
  \/ \E t \in Tasks : \/ Request(t) \/ TaskStep(t) \/ EncodeSnapshot(t)
                      \/ Mishap(t) \/ Load(t)
  \/ Evict
  \/ Crash

Spec == Init /\ [][Next]_vars

\* Tokio runs every task that can go on, model calls end (the runner bounds
\* their turns and time), the background task evicts an idle space, and
\* requests keep loading it.
Fairness ==
  /\ \A t \in Tasks : WF_vars(TaskStep(t))
  /\ WF_vars(Evict)
  /\ WF_vars(\E t \in Tasks : Load(t))

FairSpec == Spec /\ Fairness

-----------------------------------------------------------------------------
(* Properties                                                              *)

StoreOK ==
  /\ total \in Nat /\ processed \in Nat
  /\ status \in [Ids -> Status]
  /\ at \in [Scopes -> Nat]
  /\ formed \subseteq Nat /\ waived \subseteq Nat

MemoryOK ==
  /\ slot \in Nat /\ faults \in Nat /\ manual \in Nat
  /\ processing \in BOOLEAN /\ claim \in BOOLEAN /\ up \in BOOLEAN

TasksOK ==
  /\ pc \in [Tasks -> PCs]
  /\ conv \in [Tasks -> Nat]
  /\ cycle \in [Tasks -> [scope : Scopes, formation : Nat]]

TypeOK == StoreOK /\ MemoryOK /\ TasksOK

\* A task that runs the formation loop and has not released the slot.
OwnsSlot(t) == pc[t] \in LoopPCs /\ conv[t] # 0

\* Which tasks carry a conversation.
ConvMatchesPC ==
  \A t \in Tasks :
    /\ pc[t] \in {"idle", "cycle"} => conv[t] = 0
    /\ pc[t] \in {"ingest", "ingestIdle", "ingestPick", "start", "startIdle",
                 "startPick", "tryProcess", "encode", "reencode", "mark",
                 "schedule", "handOff", "abort", "next", "release", "recheck"}
         => conv[t] # 0

\* At most one formation loop runs, and the slot names its conversation:
\* no store(0) of one loop can free the slot under another.
OneLoopOwnsSlot ==
  /\ \A t \in Tasks : OwnsSlot(t) => slot = conv[t]
  /\ \A t, u \in Tasks : OwnsSlot(t) /\ OwnsSlot(u) => t = u

\* The watermark never passes a conversation that was not encoded.
WatermarkSound == \A i \in 1..processed : i \in formed \cup waived

\* Reprocessing an older conversation (a stale starter, an operator) must
\* not rewind the marker, formation.rs:233.
WatermarkNeverRewinds == [][processed <= processed']_vars

\* A task between taking the maintenance flag and releasing it.
HoldsFlag(t) == pc[t] \in MaintPCs

\* Settlement and cycle run under a flag no other maintenance holds.
MaintenanceExclusive ==
  /\ \A t \in Tasks : HoldsFlag(t) => processing
  /\ \A t, u \in Tasks : HoldsFlag(t) /\ HoldsFlag(u) => t = u

\* Scope watermarks never move back nor pass the formation watermark, so
\* the thresholds of try_start_maintenance count real conversations.
ScopeMarksGrow ==
  [][\A s \in Scopes : at[s] <= at'[s] /\ at'[s] <= processed']_vars

\* The scheduler implements the queue the users of a space rely on.
Queue == INSTANCE FormationQueue
ImplementsQueue == Queue!QSpec

\* CHANGELOG.md:56: "a formation cycle can no longer start mid-settlement".
NoFormationStartsMidSettlement ==
  [][\A t, u \in Tasks :
       pc[u] = "settle" => ~(slot = 0 /\ pc[t] # "encode" /\ pc'[t] = "encode")]_vars

AtRest == \A t \in Tasks : pc[t] = "idle"

\* A space where nothing failed comes to rest without a backlog: neither the
\* double check nor the resume after a maintenance loses the wakeup of a queued
\* conversation.  A hand-off alone can, to a cycle that has already ended and
\* found the slot taken.
NoStrandedBacklog ==
  [][~AtRest /\ AtRest' /\ faults' = 0
       => Candidates(processed)' = {} \/ \E t \in Tasks : pc[t] = "handOff"]_vars

\* Every accepted conversation is encoded in the end, whatever handoff was
\* lost: reloading the space resumes the backlog.
EveryConversationIsFormed ==
  \A i \in Ids : (i <= total) ~> (i \in formed)

\* No failure path leaks the slot or the maintenance flag.
FlagsAreReleased == []<>(slot = 0 /\ ~processing)
=============================================================================
