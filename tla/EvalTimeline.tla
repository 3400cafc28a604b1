----------------------------- MODULE EvalTimeline ----------------------------
(***************************************************************************)
(* eval.rs: a scenario is authored turn by turn, checked, filled up with   *)
(* noise and replayed: in full, then once more in the two phases of the    *)
(* shared-formation experiment.  The space under test works in the         *)
(* background; of its scheduler the model keeps which flag is up.          *)
(***************************************************************************)
EXTENDS Naturals, Sequences

CONSTANTS
  MaxTurns,       \* bound: authored turns
  MaxStalls,      \* bound: waits that time out
  NoiseLevels,    \* noise.between_turns
  Cadences,       \* maintenance_every_n_turns; 0 for None
  TranscriptTail  \* TRANSCRIPT_TAIL

ASSUME TimelineAssumption ==
  MaxStalls \in Nat /\ NoiseLevels \subseteq Nat /\ Cadences \subseteq Nat /\ TranscriptTail \in Nat \ {0}

VARIABLES
  plan,       \* the scenario and its profile
  phase,      \* TimelinePhase
  turns,      \* what is left of the effective timeline
  since,      \* normal_turns_since_maintenance
  step,       \* where the turn is
  ops,        \* history: what each phase asked of the space
  transcript, \* what the user simulator is shown
  background, \* the space under test
  stalls,     \* history: findings of waits that timed out
  flux,       \* history: a checkpoint has read a graph in motion
  outcome

timelineVars == <<plan, phase, turns, since, step, ops, transcript, background,
                  stalls, flux, outcome>>

User == {"Normal", "Simulated"}
Kinds == User \cup {"Maintenance", "Checkpoint"}
Phases == {"Full", "FormationOnly", "PolicyOnly"}

\* input: the user's words, the intent or the query, whichever the kind asks for.
Turns == {t \in [kind : Kinds, input : {"none", "blank", "text"}] :
            t.kind = "Maintenance" => t.input = "none"}
Noise == [kind |-> "Normal", input |-> "text", name |-> 0]

AtRest == [pc |-> "next", turn |-> Noise]
Quiescent == [formation |-> "idle", maintenance |-> "idle", queued |-> FALSE]

InMotion ==
  background.formation = "busy" \/ background.maintenance = "busy" \/ background.queued

TimelineInit ==
  /\ \E n \in NoiseLevels, every \in Cadences :
       plan = [timeline |-> <<>>, noise |-> n, every |-> every]
  /\ phase = "authoring" /\ turns = <<>> /\ since = 0 /\ step = AtRest
  /\ ops = [p \in Phases |-> <<>>]
  /\ transcript = <<>> /\ background = Quiescent
  /\ stalls = 0 /\ flux = FALSE /\ outcome = "none"

-----------------------------------------------------------------------------
(* The plan                                                                *)

Author(t) ==
  /\ phase = "authoring" /\ Len(plan.timeline) < MaxTurns
  /\ plan' = [plan EXCEPT !.timeline = Append(@, t)]
  /\ UNCHANGED <<phase, turns, since, step, ops, transcript, background, stalls, flux, outcome>>

\* validate_scenario_plan, where it concerns what a turn says.
TurnIsChecked(t) == t.kind = "Maintenance" \/ t.input = "text"

Valid == \A i \in 1..Len(plan.timeline) : TurnIsChecked(plan.timeline[i])

CheckpointAt(i) == plan.timeline[i].kind = "Checkpoint"

\* Mutant: noise is left out of account.
SharableBarNoise ==
  \A i, j \in 1..Len(plan.timeline) :
    i < j /\ CheckpointAt(i) => plan.timeline[j].kind \notin User

\* shared_formation_issues: every word of the user comes before the first checkpoint.
Sharable ==
  /\ \A i, j \in 1..Len(plan.timeline) :
       i < j /\ CheckpointAt(i) => plan.timeline[j].kind \notin User
  /\ plan.noise > 0 => \A i \in 1..Len(plan.timeline) : CheckpointAt(i) => i = Len(plan.timeline)

\* Noise between neighbours; each authored turn is known by its place.
Stride == plan.noise + 1

effective_timeline ==
  [k \in 1..((Len(plan.timeline) - 1) * Stride + 1) |->
     LET i == (k - 1) \div Stride + 1 IN
     IF (k - 1) % Stride = 0
       THEN [kind |-> plan.timeline[i].kind, input |-> plan.timeline[i].input, name |-> i]
       ELSE Noise]

\* A plan that is refused is not run; the tests and the optimizer also run
\* scenarios that were never checked.  The two phases are for plans that may share.
Start ==
  /\ \/ phase = "authoring" /\ plan.timeline # <<>> /\ phase' = "Full"
     \/ phase = "Full" /\ outcome = "done" /\ Valid /\ Sharable /\ phase' = "FormationOnly"
     \/ phase = "FormationOnly" /\ outcome = "done" /\ phase' = "PolicyOnly"
  /\ turns' = effective_timeline /\ since' = 0 /\ step' = AtRest
  /\ transcript' = <<>> /\ outcome' = "running"
  \* another space, except that a fork begins with the memory of the base
  /\ background' = Quiescent
  /\ UNCHANGED <<plan, ops, stalls, flux>>

Abort == outcome' = "aborted" /\ UNCHANGED <<turns, since, step, ops, transcript>>

Asked(op) == ops' = [ops EXCEPT ![phase] = Append(@, op)]

-----------------------------------------------------------------------------
(* A turn of the user                                                      *)

NextTurn ==
  /\ outcome = "running" /\ step.pc = "next"
  /\ IF turns = <<>>
       THEN outcome' = "done" /\ UNCHANGED <<turns, step>>
     ELSE LET t == Head(turns)
              skipped == phase = "FormationOnly" /\ t.kind \notin User
              pc == CASE skipped -> "next"
                      [] ~skipped /\ t.kind \in User ->
                           IF phase = "PolicyOnly" THEN "cadence" ELSE "remember"
                      [] OTHER -> t.kind
          IN  turns' = Tail(turns) /\ step' = [pc |-> pc, turn |-> t] /\ UNCHANGED outcome
  /\ UNCHANGED <<plan, phase, since, ops, transcript, background, stalls, flux>>

\* turn_messages, and the simulator, which takes any intent that is there.
Speakable(t) == t.input # "none"

\* push_transcript
Shown(t) ==
  IF t = Noise THEN transcript
  ELSE SubSeq(Append(transcript, t.name),
              IF Len(transcript) >= TranscriptTail THEN 2 ELSE 1, Len(transcript) + 1)

\* Under maintenance a conversation is queued, and formed when that has ended.
Ingested ==
  IF background.maintenance = "busy" \/ background.formation = "busy"
    THEN [background EXCEPT !.queued = TRUE]
    ELSE [background EXCEPT !.formation = "busy"]

Remember ==
  /\ outcome = "running" /\ step.pc = "remember"
  /\ IF ~Speakable(step.turn)
       THEN Abort /\ UNCHANGED background
     ELSE /\ Asked(<<"remember", step.turn.name>>)
          /\ background' = Ingested
          /\ transcript' = Shown(step.turn)
          /\ step' = [step EXCEPT !.pc = "formation"]
          /\ UNCHANGED <<turns, since, outcome>>
  /\ UNCHANGED <<plan, phase, stalls, flux>>

\* The space, the user simulator or the recall fails: so does the scenario.
DriverFails ==
  /\ outcome = "running" /\ step.pc \in {"remember", "Maintenance", "auto", "recall"}
  /\ Abort
  /\ UNCHANGED <<plan, phase, background, stalls, flux>>

\* What a wait gives up on becomes a finding of the turn.
Formed == background.formation = "idle" /\ ~background.queued
Consolidated == background.maintenance = "idle"

Wait(pc, over, goto) ==
  /\ outcome = "running" /\ step.pc = pc
  /\ \/ over /\ stalls' = stalls
     \/ ~over /\ stalls < MaxStalls /\ stalls' = stalls + 1
  /\ step' = [step EXCEPT !.pc = goto]
  /\ UNCHANGED <<plan, phase, turns, since, ops, transcript, background, flux, outcome>>

AwaitFormation == Wait("formation", Formed, IF phase = "FormationOnly" THEN "next" ELSE "cadence")

\* Turns that are skipped in a fork advance its cadence all the same.
CountsTurn == phase # "FormationOnly"

\* run_auto_maintenance
Cadence ==
  /\ outcome = "running" /\ step.pc = "cadence"
  /\ LET n == IF CountsTurn THEN since + 1 ELSE since IN
       IF plan.every > 0 /\ n >= plan.every
         THEN since' = since /\ step' = [step EXCEPT !.pc = "auto"]
         ELSE since' = n /\ step' = [step EXCEPT !.pc = "next"]
  /\ UNCHANGED <<plan, phase, turns, ops, transcript, background, stalls, flux, outcome>>

-----------------------------------------------------------------------------
(* Maintenance and checkpoints                                             *)

Restarted == 0

\* Maintenance that runs already is as good.
Maintain ==
  /\ outcome = "running" /\ step.pc \in {"auto", "Maintenance"}
  /\ Asked(<<step.pc, step.turn.name>>)
  /\ background' = [background EXCEPT !.maintenance = "busy"]
  /\ since' = IF step.pc = "auto" THEN 0 ELSE Restarted
  /\ step' = [step EXCEPT !.pc = "maintenance"]
  /\ UNCHANGED <<plan, phase, turns, transcript, stalls, flux, outcome>>

AwaitMaintenance == Wait("maintenance", Consolidated, "next")

\* Maintenance that a hook has started is waited for as well.
AwaitQuiet == Wait("Checkpoint", Consolidated, "probe")

\* run_memory_probes
Probe ==
  /\ outcome = "running" /\ step.pc = "probe"
  /\ IF step.turn.input # "text"       \* checkpoint_query
       THEN Abort /\ UNCHANGED flux
     ELSE /\ flux' = (flux \/ InMotion)
          /\ step' = [step EXCEPT !.pc = "recall"]
          /\ UNCHANGED <<turns, since, ops, transcript, outcome>>
  /\ UNCHANGED <<plan, phase, background, stalls>>

\* The answer is part of what the simulator sees next.
Recall ==
  /\ outcome = "running" /\ step.pc = "recall"
  /\ Asked(<<"recall", step.turn.name>>)
  /\ transcript' = Shown(step.turn)
  /\ step' = AtRest
  /\ UNCHANGED <<plan, phase, turns, since, background, stalls, flux, outcome>>

-----------------------------------------------------------------------------
(* The space under test: Scheduler has it in detail                        *)

\* The loop may hand over to a maintenance that is due, before its slot is free.
FormationEnds(handover) ==
  /\ outcome = "running" /\ background.formation = "busy"
  /\ background' =
       IF handover /\ Consolidated THEN [background EXCEPT !.formation = "idle", !.maintenance = "busy"]
       ELSE IF background.queued /\ Consolidated THEN [background EXCEPT !.queued = FALSE]
       ELSE [background EXCEPT !.formation = "idle"]
  /\ UNCHANGED <<plan, phase, turns, since, step, ops, transcript, stalls, flux, outcome>>

\* A conversation that failed is never reported as processed.
FormationFails ==
  /\ outcome = "running" /\ background.formation = "busy" /\ ~background.queued
  /\ background' = [background EXCEPT !.formation = "failed"]
  /\ UNCHANGED <<plan, phase, turns, since, step, ops, transcript, stalls, flux, outcome>>

MaintenanceEnds ==
  /\ outcome = "running" /\ background.maintenance = "busy"
  /\ background' = [formation |-> IF background.queued THEN "busy" ELSE background.formation,
                    maintenance |-> "idle",
                    queued |-> background.queued /\ background.formation = "busy"]
  /\ UNCHANGED <<plan, phase, turns, since, step, ops, transcript, stalls, flux, outcome>>

TimelineNext ==
  \/ \E t \in Turns : Author(t)
  \/ Start \/ NextTurn \/ Remember \/ DriverFails \/ AwaitFormation \/ Cadence
  \/ Maintain \/ AwaitMaintenance \/ AwaitQuiet \/ Probe \/ Recall
  \/ \E handover \in BOOLEAN : FormationEnds(handover)
  \/ FormationFails \/ MaintenanceEnds

TimelineSpec == TimelineInit /\ [][TimelineNext]_timelineVars

-----------------------------------------------------------------------------
(* Properties                                                              *)

\* What of a list is wanted, in its order.
Picked(list, wanted) ==
  LET picked[n \in 0..Len(list)] ==
        IF n = 0 THEN <<>>
        ELSE IF list[n] \in wanted THEN Append(picked[n - 1], list[n]) ELSE picked[n - 1]
  IN  picked[Len(list)]

Kept(p, what) == Picked(ops[p], what \X Nat)

\* run_policy_phase: the two phases of the experiment together ask of the memory
\* what the full replay does, the cadence of maintenance included.
PhasesMakeTheRun ==
  phase = "PolicyOnly" /\ outcome = "done" =>
    /\ ops["FormationOnly"] = Kept("Full", {"remember"})
    /\ ops["PolicyOnly"] = Kept("Full", {"auto", "Maintenance", "recall"})

\* eval.rs:1036: where formation is shared, no checkpoint sees memory of its own
\* future, also among the noise.
NoMemoryOfTheFuture ==
  phase = "PolicyOnly" /\ step.pc = "probe" =>
    \A i \in 1..Len(turns) : turns[i].kind \notin User

\* A plan that passes validation is not aborted for what it says.
ValidPlansAreRunnable ==
  Valid /\ outcome = "running" =>
    /\ step.pc = "remember" => Speakable(step.turn)
    /\ step.pc = "probe" => step.turn.input = "text"

\* A checkpoint reads a graph at rest, or a wait that gave up is on record: no
\* hook's maintenance and no queued conversation goes unnoticed.
FluxIsReported == flux => stalls > 0

\* With a cadence, memory is consolidated at the latest after that many turns of
\* the user: so many were there since, and before them it was.
CadenceIsKept ==
  plan.every > 0 /\ outcome = "running" /\ step.pc = "next" /\ phase = "Full" =>
    LET all == Kept("Full", {"auto", "Maintenance", "remember"})
        n   == Len(all)
    IN  /\ since < plan.every /\ since <= n
        /\ \A i \in 1..n : n - since < i => all[i][1] = "remember"
        /\ since < n => all[n - since][1] # "remember"

\* The simulated user is shown the end of the conversation, in order, without noise.
TranscriptIsTheTail ==
  phase = "Full" /\ outcome = "running" =>
    LET said == Picked(ops["Full"], {"remember", "recall"} \X (Nat \ {0}))
        n == Len(said)
        shown == IF n < TranscriptTail THEN n ELSE TranscriptTail
    IN  transcript = [i \in 1..shown |-> said[n - shown + i][2]]

\* A replayed timeline measures what it says: the same whether formation is
\* shared or not, on a memory at rest that knows no future.
TimelineIsFair ==
  /\ PhasesMakeTheRun /\ NoMemoryOfTheFuture /\ ValidPlansAreRunnable
  /\ FluxIsReported /\ CadenceIsKept /\ TranscriptIsTheTail
=============================================================================
