---------------------------- MODULE MCEvaluation ----------------------------
(* The evaluation of a memory, from a single probe to the optimizer.  The  *)
(* levels share no state, a higher one knows of a lower only its score, so *)
(* a behaviour follows one of them and the others stand still.             *)
EXTENDS EvalTimeline, EvalScore, EvalAggregate, EvalSuite, ShadowEval, Optimizer

VARIABLE focus

levels == <<timelineVars, scoreVars, aggregateVars, suiteVars, shadowVars, optVars>>

NoBlame == [formation |-> 0, grounding |-> 0, synthesis |-> 0, overconfidence |-> 0,
            consolidation |-> 0]
TheAttributions == {[NoBlame EXCEPT !.grounding = 1], [NoBlame EXCEPT !.consolidation = 1]}
TheFloors == [decay_floor |-> 1, unsorted_max_backlog |-> 1]
TheDefaults == [decay_floor |-> 0, unsorted_max_backlog |-> 4]
TheRanges == [decay_floor |-> 0..9, unsorted_max_backlog |-> 1..9]
TheConfigs == [genome : {"prompt"}, target : {"auto", "recall"}, gated : BOOLEAN]
              \cup [genome : {"policy"}, target : {"auto"}, gated : BOOLEAN]
TheWordings == {[terms |-> 0, present |-> 0], [terms |-> 2, present |-> 1]}
TheVerdicts == {[said |-> TRUE, utility |-> Whole, forgetting |-> Whole,
                 calibration |-> 0, findings |-> {}]}
TheQuality == <<2, 0, 3>>

Some(S) == CHOOSE x \in S : TRUE

EvaluationInit ==
  /\ TimelineInit /\ ScoreInit /\ AggregateInit /\ SuiteInit /\ ShadowInit /\ OptInit
  /\ focus \in {"timeline", "score", "aggregate", "suite", "shadow", "optimizer"}
  /\ focus # "timeline" => plan.noise = Some(NoiseLevels) /\ plan.every = Some(Cadences)
  /\ focus # "score" => ~sheet.llm /\ {sheet.required, sheet.forbidden} = {Some(Wordings)}
  /\ focus # "suite" => ~shared
  /\ focus # "shadow" => judge = Some(Judges)
  /\ focus # "optimizer" => config = Some(Configs)

EvaluationNext ==
  /\ UNCHANGED focus
  /\ \/ /\ focus = "timeline" /\ TimelineNext
        /\ UNCHANGED <<scoreVars, aggregateVars, suiteVars, shadowVars, optVars>>
     \/ /\ focus = "score" /\ ScoreNext
        /\ UNCHANGED <<timelineVars, aggregateVars, suiteVars, shadowVars, optVars>>
     \/ /\ focus = "aggregate" /\ AggregateNext
        /\ UNCHANGED <<timelineVars, scoreVars, suiteVars, shadowVars, optVars>>
     \/ /\ focus = "suite" /\ SuiteNext
        /\ UNCHANGED <<timelineVars, scoreVars, aggregateVars, shadowVars, optVars>>
     \/ /\ focus = "shadow" /\ ShadowNext
        /\ UNCHANGED <<timelineVars, scoreVars, aggregateVars, suiteVars, optVars>>
     \/ /\ focus = "optimizer" /\ OptNext
        /\ UNCHANGED <<timelineVars, scoreVars, aggregateVars, suiteVars, shadowVars>>

EvaluationSpec == EvaluationInit /\ [][EvaluationNext]_<<levels, focus>>

\* A checkpoint loses points exactly for what it reports, a probe that saw
\* nothing and a single unlucky roll count for nothing, and late failures cost.
ScoringIsFair ==
  /\ focus = "score" => FindingsExplainLoss /\ ErroredProbesAreNeutral
  /\ focus = "aggregate" => MedianIsTypical /\ OneRollDecidesNothing /\ LateFailuresCostMore
=============================================================================
