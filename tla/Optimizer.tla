------------------------------ MODULE Optimizer -----------------------------
(***************************************************************************)
(* The generation loop of eval/optimize.rs: a genome, three prompts or the *)
(* memory policy, is changed, installed for the whole process, measured by *)
(* the eval suite, and kept or put back.  An edit of a prompt is known by  *)
(* the generation that proposed it, so a prompt is the sequence of edits   *)
(* in its text; a policy is its tunable numbers.                           *)
(***************************************************************************)
EXTENDS Integers, Sequences, SequencesExt

CONSTANTS
  Totals,           \* scores of a suite
  Deviations,       \* their standard deviation; 0 for none
  Attributions,     \* findings of a suite, by what caused them
  ConfidenceZ, MinDelta, HoldoutEpsilon, Generations,   \* OptimizeConfig
  Fields, StepFloor, DefaultPolicy,   \* POLICY_PATCH_FIELDS, the least step, defaults
  PolicyValues,     \* bound: proposed values
  ValidValues,      \* MemoryPolicy::validate
  Configs           \* [genome, target, gated]: what the command asked for

Prompts == {"formation", "recall", "maintenance"}

ASSUME OptimizerAssumption ==
  /\ Totals \cup Deviations \cup PolicyValues \subseteq Nat
  /\ {ConfidenceZ, MinDelta, HoldoutEpsilon, Generations} \subseteq Nat
  /\ DefaultPolicy \in [Fields -> Nat] /\ StepFloor \in [Fields -> Nat]
  /\ \A f \in Fields : DefaultPolicy[f] \in ValidValues[f]
  /\ Configs \subseteq [genome : {"prompt", "policy"}, target : Prompts \cup {"auto"}, gated : BOOLEAN]

VARIABLES
  config,
  stage,            \* where run_optimize is
  generation,
  installed,        \* OVERRIDES and EVAL_POLICY_OVERRIDE
  accepted,         \* accepted_prompts and accepted_policy
  candidate,
  baseline,         \* the suite to beat
  bar,              \* holdout_baseline
  report,           \* totals and accepted generations
  winners,          \* history: accepted generations
  held              \* history: holdout totals, of the baseline and the accepted

optVars == <<config, stage, generation, installed, accepted, candidate,
             baseline, bar, report, winners, held>>

Compiled == [slot \in Prompts \cup {"policy"} |-> <<>>]   \* no override
Suites == [total : Totals, dev : Deviations, blame : Attributions]
NoSuite == [total |-> 0, dev |-> 0, blame |-> CHOOSE a \in Attributions : TRUE]
NoCandidate == [slot |-> "none", genome |-> <<>>, suite |-> NoSuite]

OptInit ==
  /\ config \in Configs
  /\ stage = "baseline" /\ generation = 1
  /\ installed = Compiled /\ accepted = Compiled
  /\ candidate = NoCandidate /\ baseline = NoSuite
  /\ bar = 0 /\ report = [first |-> 0, final |-> 0, wins |-> 0]
  /\ winners = {} /\ held = <<>>

MaxOf(a, b) == IF a > b THEN a ELSE b
Dist(a, b) == IF a > b THEN a - b ELSE b - a

-----------------------------------------------------------------------------
(* The operators of a generation                                           *)

\* Ties go to formation, then to recall.
pick_target(blame) ==
  LET recall == blame.grounding + blame.synthesis + blame.overconfidence IN
  CASE blame.formation >= recall /\ blame.formation >= blame.consolidation -> "formation"
    [] blame.formation < recall /\ recall >= blame.consolidation -> "recall"
    [] OTHER -> "maintenance"

\* delta > max(z * sqrt(var + var), min_delta)
decide(base, cand) ==
  LET delta == cand.total - base.total IN
  /\ delta > MinDelta /\ delta > 0
  /\ delta * delta > ConfidenceZ * ConfidenceZ * (base.dev * base.dev + cand.dev * cand.dev)

\* bounded_f64 and bounded_u32: half of the old value, or the floor.
WithinStep(field, old, new) == Dist(new, old) <= MaxOf(old \div 2, StepFloor[field])

\* apply_policy_patch over all patches, one per field; <<>> if any is refused.
Patched(policy, patches) ==
  LET For(f) == { i \in DOMAIN patches : patches[i].field = f } IN
  IF \A f \in Fields : \A i, j \in For(f) :
       /\ i = j
       /\ WithinStep(f, policy[f], patches[i].value) /\ patches[i].value \in ValidValues[f]
    THEN <<[f \in Fields |-> IF For(f) = {} THEN policy[f]
                             ELSE patches[CHOOSE i \in For(f) : TRUE].value]>>
  ELSE <<>>

Patch == [field : Fields, value : PolicyValues]
Proposals == {<<p>> : p \in Patch} \cup {<<p, q>> : p, q \in Patch}

CurrentPolicy == IF accepted["policy"] = <<>> THEN DefaultPolicy ELSE accepted["policy"][1]

-----------------------------------------------------------------------------
(* run_optimize                                                            *)

Baseline(suite) ==
  /\ stage = "baseline"
  /\ baseline' = suite
  /\ report' = [first |-> suite.total, final |-> suite.total, wins |-> 0]
  /\ stage' = IF config.gated THEN "holdout baseline" ELSE "propose"
  /\ UNCHANGED <<config, generation, installed, accepted, candidate, bar, winners, held>>

HoldoutBaseline(total) ==
  /\ stage = "holdout baseline"
  /\ bar' = total /\ held' = <<total>>
  /\ stage' = "propose"
  /\ UNCHANGED <<config, generation, installed, accepted, candidate, baseline, report, winners>>

\* A call that fails, no edits, or edits that do not apply.
ProposalFails ==
  /\ stage = "propose" /\ generation <= Generations
  /\ generation' = generation + 1
  /\ UNCHANGED <<config, stage, installed, accepted, candidate, baseline, bar, report, winners, held>>

Install(slot, genome) ==
  /\ candidate' = [slot |-> slot, genome |-> genome, suite |-> NoSuite]
  /\ installed' = [installed EXCEPT ![slot] = genome]
  /\ stage' = "evaluate"
  /\ UNCHANGED <<config, generation, accepted, baseline, bar, report, winners, held>>

\* The edits are applied to the prompt that is active.
ProposePrompt ==
  /\ stage = "propose" /\ generation <= Generations /\ config.genome = "prompt"
  /\ LET target == IF config.target = "auto" THEN pick_target(baseline.blame) ELSE config.target
     IN  Install(target, Append(installed[target], generation))

ProposePolicy(patches) ==
  /\ stage = "propose" /\ generation <= Generations /\ config.genome = "policy"
  /\ LET next == Patched(CurrentPolicy, patches)
     IN  next # <<>> /\ Install("policy", next)

Accept(suite) ==
  /\ accepted' = [accepted EXCEPT ![candidate.slot] = candidate.genome]
  /\ report' = [first |-> report.first, final |-> suite.total, wins |-> report.wins + 1]
  /\ winners' = winners \cup {generation}
  /\ baseline' = suite
  /\ UNCHANGED installed

\* What was accepted last is put back, or the override is cleared.
Reject ==
  /\ installed' = [installed EXCEPT ![candidate.slot] = accepted[candidate.slot]]
  /\ UNCHANGED <<accepted, report, winners, baseline>>

NextGeneration ==
  /\ generation' = generation + 1 /\ stage' = "propose" /\ candidate' = NoCandidate

Evaluate(suite) ==
  /\ stage = "evaluate"
  /\ IF ~decide(baseline, suite) THEN Reject /\ NextGeneration
     ELSE IF config.gated
       THEN /\ candidate' = [candidate EXCEPT !.suite = suite] /\ stage' = "holdout"
            /\ UNCHANGED <<generation, installed, accepted, report, winners, baseline>>
     ELSE Accept(suite) /\ NextGeneration
  /\ UNCHANGED <<config, bar, held>>

\* Mutant: the bar follows the holdout suite down.
Rebaselined(total) == total

Raised(total) == MaxOf(bar, total)

Holdout(total) ==
  /\ stage = "holdout"
  /\ IF total < bar - HoldoutEpsilon THEN Reject /\ UNCHANGED <<bar, held>>
     ELSE /\ bar' = Raised(total) /\ held' = Append(held, total)
          /\ Accept(candidate.suite)
  /\ NextGeneration
  /\ UNCHANGED config

\* EvalPolicyOverrideGuard is dropped on every way out of a policy run.
GuardDropped ==
  IF config.genome = "policy" THEN [installed EXCEPT !["policy"] = <<>>] ELSE installed

Finish ==
  /\ stage = "propose" /\ generation > Generations
  /\ stage' = "done" /\ installed' = GuardDropped
  /\ UNCHANGED <<config, generation, accepted, candidate, baseline, bar, report, winners, held>>

\* A suite that cannot be run ends the whole run.
FitnessFails ==
  /\ stage \in {"baseline", "holdout baseline", "evaluate", "holdout"}
  /\ stage' = "aborted" /\ installed' = GuardDropped
  /\ UNCHANGED <<config, generation, accepted, candidate, baseline, bar, report, winners, held>>

\* run_optimize_command closes its own space and clears every override.
CleanUp ==
  /\ stage \in {"done", "aborted"}
  /\ stage' = "over" /\ installed' = Compiled
  /\ UNCHANGED <<config, generation, accepted, candidate, baseline, bar, report, winners, held>>

OptNext ==
  \/ \E suite \in Suites : Baseline(suite) \/ Evaluate(suite)
  \/ \E total \in Totals : HoldoutBaseline(total) \/ Holdout(total)
  \/ ProposalFails \/ ProposePrompt
  \/ \E patches \in Proposals : ProposePolicy(patches)
  \/ Finish \/ FitnessFails \/ CleanUp

OptSpec == OptInit /\ [][OptNext]_optVars

-----------------------------------------------------------------------------
(* Properties                                                              *)

\* A prompt under test is made of accepted edits and the one of its own
\* generation; between generations, and in the report, of accepted ones only.
OnlyWinnersBreed ==
  \A slot \in Prompts :
    /\ Range(accepted[slot]) \subseteq winners
    /\ stage \in {"propose", "done"} => installed[slot] = accepted[slot]
    /\ Range(installed[slot]) \subseteq
         IF candidate.slot = slot THEN winners \cup {generation} ELSE winners

\* A generation moves every knob by one bounded step from the accepted policy,
\* however many patches it is made of, and the result is valid.
PolicyStepsAreBounded ==
  candidate.slot = "policy" =>
    \A f \in Fields : /\ WithinStep(f, CurrentPolicy[f], candidate.genome[1][f])
                      /\ candidate.genome[1][f] \in ValidValues[f]

\* Every accepted generation has earned its own improvement over the one before.
ProgressAddsUp == report.final - report.first >= report.wins * (MinDelta + 1)

\* However many generations are accepted, the holdout total of the last is
\* within epsilon of the best there has been: small losses do not add up.
HoldoutNeverRatchets ==
  \A i \in 1..Len(held) : Last(held) >= held[i] - HoldoutEpsilon

\* No override outlives the command, nor the policy override the run,
\* whether it ended or was broken off.
OverridesAreCleared ==
  /\ stage \in {"done", "aborted", "over"} => installed["policy"] = <<>>
  /\ stage = "over" => installed = Compiled

\* What the optimizer reports as an improvement is one, and it leaves nothing of
\* what it tried behind.
OptimizingIsSound ==
  /\ OnlyWinnersBreed /\ PolicyStepsAreBounded /\ ProgressAddsUp
  /\ HoldoutNeverRatchets /\ OverridesAreCleared
=============================================================================
