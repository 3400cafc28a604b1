--------------------------- MODULE EvaluationProofs -------------------------
(***************************************************************************)
(* A comparison of memories is fair and an optimizer keeps only what is    *)
(* better, for any rubrics, calls, profiles, scenarios and generations:    *)
(*   FairShadows      shadow evaluations;                                  *)
(*   SoundOptimizing  the generation loop of the optimizer;                *)
(*   AlikeSuites      suites, alone and with shared formation;             *)
(*   FairScoring      scores, findings and what checkpoints share;         *)
(*   FairTimelines    the replay of a scenario, and its two phases.        *)
(*                                                                         *)
(* The levels of MCEvaluation share no state: along a behaviour of         *)
(* EvaluationSpec each of them follows its own specification               *)
(* (LevelsFollow), from which its theorem is proved.                       *)
(***************************************************************************)
EXTENDS MCEvaluation, FiniteSetTheorems, SequenceTheorems, WellFoundedInduction, TLAPS

\* Every level follows its own specification.
LEMMA LevelsFollow ==
  EvaluationSpec =>
    ShadowSpec /\ OptSpec /\ SuiteSpec /\ ScoreSpec /\ AggregateSpec /\ TimelineSpec
<1>1. EvaluationInit => ShadowInit /\ OptInit /\ SuiteInit /\ ScoreInit /\ AggregateInit /\ TimelineInit
  BY DEF EvaluationInit
<1>2. [EvaluationNext]_<<levels, focus>> =>
        /\ [ShadowNext]_shadowVars /\ [OptNext]_optVars /\ [SuiteNext]_suiteVars
        /\ [ScoreNext]_scoreVars /\ [AggregateNext]_aggregateVars /\ [TimelineNext]_timelineVars
  BY DEF EvaluationNext, levels
<1>. QED
  BY <1>1, <1>2, PTL DEF EvaluationSpec, ShadowSpec, OptSpec, SuiteSpec, ScoreSpec,
     AggregateSpec, TimelineSpec

-----------------------------------------------------------------------------
(* Shadow evaluations                                                      *)

Evals == [at : {"idle", "fork", "replay", "over"}, queries : Nat, index : Nat]
ShadowScores == [baseline : Nat, candidate : Nat, ties : Nat, errors : Nat, replayed : Nat]

\* The half of the queries that begin with the baseline is the larger one.
Early(n) == (n + 1) \div 2
Late(n) == n \div 2

\* Who prefers a place gives the side that has it as many queries as it had it.
BiasOK ==
  \A c \in Evaluators :
    LET s == score[c]  n == eval[c].index
    IN  judge # "fair" =>
          /\ s.baseline + s.candidate + s.errors = n
          /\ s.baseline <= (IF judge = "a" THEN Early(n) ELSE Late(n))
          /\ s.candidate <= (IF judge = "a" THEN Late(n) ELSE Early(n))

\* Who has forks, or is about to, holds the lock.
ForksOK ==
  /\ \A c \in Evaluators : eval[c].at \in {"fork", "replay"} => guard = c
  /\ \A f \in forks : f \in {guard} \X Sides /\ guard \in Evaluators /\ eval[guard].at = "replay"

ShadowInv ==
  /\ eval \in [Evaluators -> Evals] /\ score \in [Evaluators -> ShadowScores]
  /\ judge \in {"a", "b", "fair"} /\ guard \in Evaluators \cup {0}
  /\ \A c \in Evaluators : eval[c].at = "idle" => eval[c].index = 0 /\ score[c] = NoScore
  /\ BiasOK /\ ForksOK

LEMMA Halves ==
  ASSUME NEW n \in Nat
  PROVE  /\ Early(n) \in Nat /\ Late(n) \in Nat /\ Early(n) + Late(n) = n
         /\ Late(n) <= Early(n) /\ Early(n) <= Late(n) + 1
         /\ n % 2 = 1 => Late(n + 1) = Late(n) + 1 /\ Early(n + 1) = Early(n)
         /\ n % 2 # 1 => Late(n + 1) = Late(n) /\ Early(n + 1) = Early(n) + 1
BY DEF Early, Late

\* A tally counts one thing, and the query as replayed.
LEMMA Counted ==
  ASSUME score \in [Evaluators -> ShadowScores], NEW c \in Evaluators,
         NEW w \in {"baseline", "candidate", "ties", "errors"}, Tally(c, w)
  PROVE  /\ score' \in [Evaluators -> ShadowScores]
         /\ \A x \in Evaluators : x # c => score'[x] = score[x]
         /\ score'[c].errors = score[c].errors + (IF w = "errors" THEN 1 ELSE 0)
         /\ score'[c].baseline = score[c].baseline + (IF w = "baseline" THEN 1 ELSE 0)
         /\ score'[c].candidate = score[c].candidate + (IF w = "candidate" THEN 1 ELSE 0)
<1>. DEFINE one == [score[c] EXCEPT ![w] = @ + 1]
            two == [one EXCEPT !.replayed = @ + 1]
<1>1. score[c] \in ShadowScores
  OBVIOUS
<1>2. /\ one \in ShadowScores
      /\ one.errors = score[c].errors + (IF w = "errors" THEN 1 ELSE 0)
      /\ one.baseline = score[c].baseline + (IF w = "baseline" THEN 1 ELSE 0)
      /\ one.candidate = score[c].candidate + (IF w = "candidate" THEN 1 ELSE 0)
  BY <1>1 DEF ShadowScores
<1>3. score' = [score EXCEPT ![c] = two]
  BY <1>1 DEF Tally, ShadowScores
<1>. HIDE DEF one
<1>4. /\ two \in ShadowScores /\ two.errors = one.errors
      /\ two.baseline = one.baseline /\ two.candidate = one.candidate
  BY <1>2 DEF ShadowScores
<1>. QED
  BY <1>2, <1>3, <1>4

\* One query is decided, fails, or could not be judged.
LEMMA ReplayQueryInv ==
  ASSUME ShadowInv, NEW c \in Evaluators, ReplayQuery(c)
  PROVE  ShadowInv'
<1>. DEFINE n == eval[c].index  s == score[c]
<1>. USE DEF ShadowInv
<1>1. eval[c] \in Evals /\ n \in Nat /\ s \in ShadowScores /\ eval[c].at = "replay"
  BY DEF ReplayQuery, Evals
<1>2. /\ eval' = [eval EXCEPT ![c].index = n + 1] /\ UNCHANGED <<guard, forks, judge>>
  BY DEF ReplayQuery
<1>3. eval' \in [Evaluators -> Evals] /\ eval'[c].index = n + 1
      /\ \A x \in Evaluators : eval'[x].at = eval[x].at /\ (x # c => eval'[x] = eval[x])
  BY <1>1, <1>2 DEF Evals
<1>4. /\ score' \in [Evaluators -> ShadowScores]
      /\ \A x \in Evaluators : x # c => score'[x] = score[x]
      /\ judge # "fair" =>
           \/ /\ score'[c].errors = s.errors + 1
              /\ score'[c].baseline = s.baseline /\ score'[c].candidate = s.candidate
           \/ /\ score'[c].errors = s.errors
              /\ score'[c].baseline = s.baseline
                   + (IF (judge = "a") = (FirstAnswer(n) = "baseline") THEN 1 ELSE 0)
              /\ score'[c].candidate = s.candidate
                   + (IF (judge = "a") = (FirstAnswer(n) = "baseline") THEN 0 ELSE 1)
  <2>1. CASE score' = [score EXCEPT ![c].errors = @ + 1]
    BY <1>1, <2>1 DEF ShadowScores
  <2>2. CASE Tally(c, "errors")
    BY <1>1, <2>2, Counted DEF ShadowScores
  <2>3. CASE \E winner \in Winners(n) : Tally(c, winner)
    <3>. PICK w \in Winners(n) : Tally(c, w)
      BY <2>3
    <3>1. w \in {"baseline", "candidate", "ties"}
      BY DEF Winners, Sides, FirstAnswer, Other
    <3>2. judge # "fair" => w = IF (judge = "a") = (FirstAnswer(n) = "baseline")
                                 THEN "baseline" ELSE "candidate"
      BY DEF Winners, FirstAnswer, Other
    <3>3. /\ score' \in [Evaluators -> ShadowScores]
          /\ \A x \in Evaluators : x # c => score'[x] = score[x]
          /\ score'[c].errors = s.errors
          /\ score'[c].baseline = s.baseline + (IF w = "baseline" THEN 1 ELSE 0)
          /\ score'[c].candidate = s.candidate + (IF w = "candidate" THEN 1 ELSE 0)
      BY <1>1, <3>1, Counted DEF ShadowScores
    <3>. QED
      BY <3>2, <3>3
  <2>. QED
    BY <2>1, <2>2, <2>3 DEF ReplayQuery
<1>5. ASSUME NEW x \in Evaluators, judge # "fair"
      PROVE  LET t == score'[x]  k == eval'[x].index
             IN  /\ t.baseline + t.candidate + t.errors = k
                 /\ t.baseline <= (IF judge = "a" THEN Early(k) ELSE Late(k))
                 /\ t.candidate <= (IF judge = "a" THEN Late(k) ELSE Early(k))
  <2>1. /\ score[x].baseline + score[x].candidate + score[x].errors = eval[x].index
        /\ score[x].baseline <= (IF judge = "a" THEN Early(eval[x].index) ELSE Late(eval[x].index))
        /\ score[x].candidate <= (IF judge = "a" THEN Late(eval[x].index) ELSE Early(eval[x].index))
    BY <1>5 DEF BiasOK
  <2>2. CASE x # c
    BY <1>3, <1>4, <2>1, <2>2
  <2>3. CASE x = c
    <3>1. /\ Early(n) \in Nat /\ Late(n) \in Nat
          /\ FirstAnswer(n) # "baseline" => Late(n + 1) = Late(n) + 1 /\ Early(n + 1) = Early(n)
          /\ FirstAnswer(n) = "baseline" => Late(n + 1) = Late(n) /\ Early(n + 1) = Early(n) + 1
      BY <1>1, Halves DEF FirstAnswer
    <3>2. /\ s.baseline \in Nat /\ s.candidate \in Nat /\ s.errors \in Nat
          /\ s.baseline + s.candidate + s.errors = n
          /\ s.baseline <= (IF judge = "a" THEN Early(n) ELSE Late(n))
          /\ s.candidate <= (IF judge = "a" THEN Late(n) ELSE Early(n))
          /\ score'[c].baseline \in Nat /\ score'[c].candidate \in Nat /\ score'[c].errors \in Nat
      BY <1>1, <1>4, <2>1, <2>3 DEF ShadowScores
    <3>3. eval'[x].index = n + 1 /\ score'[x] = score'[c]
      BY <1>3, <2>3
    <3>4. Late(n) <= Late(n + 1) /\ Early(n) <= Early(n + 1)
      BY <3>1
    <3>5. CASE score'[c].errors = s.errors + 1
               /\ score'[c].baseline = s.baseline /\ score'[c].candidate = s.candidate
      BY <1>1, <3>1, <3>2, <3>3, <3>4, <3>5
    <3>6. CASE /\ score'[c].errors = s.errors
               /\ score'[c].baseline = s.baseline
                    + (IF (judge = "a") = (FirstAnswer(n) = "baseline") THEN 1 ELSE 0)
               /\ score'[c].candidate = s.candidate
                    + (IF (judge = "a") = (FirstAnswer(n) = "baseline") THEN 0 ELSE 1)
      <4>1. CASE judge = "a" /\ FirstAnswer(n) = "baseline"
        BY <1>1, <3>1, <3>2, <3>3, <3>6, <4>1
      <4>2. CASE judge = "a" /\ FirstAnswer(n) # "baseline"
        BY <1>1, <3>1, <3>2, <3>3, <3>6, <4>2
      <4>3. CASE judge # "a" /\ FirstAnswer(n) = "baseline"
        BY <1>1, <3>1, <3>2, <3>3, <3>6, <4>3
      <4>4. CASE judge # "a" /\ FirstAnswer(n) # "baseline"
        BY <1>1, <3>1, <3>2, <3>3, <3>6, <4>4
      <4>. QED
        BY <4>1, <4>2, <4>3, <4>4
    <3>. QED
      BY <1>4, <1>5, <3>5, <3>6
  <2>. QED
    BY <2>2, <2>3
<1>6. BiasOK'
  BY <1>2, <1>5 DEF BiasOK
<1>7. ForksOK'
  BY <1>2, <1>3 DEF ForksOK
<1>. QED
  BY <1>1, <1>2, <1>3, <1>4, <1>6, <1>7

\* One step of one call.
LEMMA ShadowInductive == ShadowInv /\ [ShadowNext]_shadowVars => ShadowInv'
<1>. SUFFICES ASSUME ShadowInv, [ShadowNext]_shadowVars PROVE ShadowInv'
  OBVIOUS
<1>. USE ShadowAssumption DEF ShadowInv, Evals, ForksOK
<1>1. ASSUME NEW c \in Evaluators, NEW queries \in 1..MaxQueries, BeginShadow(c, queries)
      PROVE  ShadowInv'
  <2>1. \A x \in Evaluators : eval[x].at \notin {"fork", "replay"}
    BY <1>1 DEF BeginShadow, Guarded
  <2>2. /\ eval' \in [Evaluators -> Evals] /\ eval'[c].at = "fork" /\ eval'[c].index = eval[c].index
        /\ \A x \in Evaluators : x # c => eval'[x] = eval[x]
    BY <1>1 DEF BeginShadow
  <2>3. BiasOK'
    BY <1>1, <2>2 DEF BeginShadow, BiasOK
  <2>. QED
    BY <1>1, <2>1, <2>2, <2>3 DEF BeginShadow, Guarded
<1>2. ASSUME NEW c \in Evaluators, ForkBoth(c) PROVE ShadowInv'
  <2>1. /\ eval' \in [Evaluators -> Evals] /\ eval'[c].at \in {"replay", "over"}
        /\ \A x \in Evaluators : eval'[x].index = eval[x].index /\ (x # c => eval'[x] = eval[x])
    BY <1>2 DEF ForkBoth, Move
  <2>2. BiasOK'
    BY <1>2, <2>1 DEF ForkBoth, BiasOK
  <2>3. guard = c /\ forks = {}
    BY <1>2 DEF ForkBoth
  <2>4. UNCHANGED <<score, judge>> /\ guard' \in {guard, 0}
    BY <1>2 DEF ForkBoth
  <2>5. ForksOK'
    BY <1>2, <2>1, <2>3 DEF ForkBoth, Move
  <2>. QED
    BY <2>1, <2>2, <2>3, <2>4, <2>5
<1>3. ASSUME NEW c \in Evaluators, FinishShadow(c) PROVE ShadowInv'
  <2>1. /\ eval' \in [Evaluators -> Evals] /\ eval'[c].at = "over"
        /\ \A x \in Evaluators : eval'[x].index = eval[x].index /\ (x # c => eval'[x] = eval[x])
    BY <1>3 DEF FinishShadow, Move
  <2>2. BiasOK'
    BY <1>3, <2>1 DEF FinishShadow, BiasOK
  <2>3. guard = c /\ forks' = {}
    BY <1>3 DEF FinishShadow
  <2>. QED
    BY <1>3, <2>1, <2>2, <2>3 DEF FinishShadow
<1>4. CASE UNCHANGED shadowVars
  BY <1>4 DEF shadowVars, BiasOK
<1>. QED
  BY <1>1, <1>2, <1>3, <1>4, ReplayQueryInv DEF ShadowNext

LEMMA ShadowAlways == ShadowSpec => []ShadowInv
<1>1. ShadowInit => ShadowInv
  BY ShadowAssumption DEF ShadowInit, ShadowInv, BiasOK, ForksOK, Evals, ShadowScores, NoEval,
                          NoScore, Early, Late
<1>. QED
  BY <1>1, ShadowInductive, PTL DEF ShadowSpec

\* run_shadow_eval (space.rs): a judge who prefers a place favours neither side,
\* and no more than two copies of a space are in memory.
THEOREM FairShadows == EvaluationSpec => []ShadowIsFair
<1>1. ASSUME ShadowInv PROVE ShadowIsFair
  <2>1. PositionBiasCancels
    <3>. SUFFICES ASSUME judge # "fair", NEW c \in Evaluators
                  PROVE  /\ score[c].baseline <= score[c].candidate + 1 + score[c].errors
                         /\ score[c].candidate <= score[c].baseline + 1 + score[c].errors
      BY DEF PositionBiasCancels
    <3>1. eval[c].index \in Nat /\ score[c] \in ShadowScores
      BY <1>1 DEF ShadowInv, Evals
    <3>. QED
      BY <1>1, <3>1, Halves DEF ShadowInv, BiasOK, ShadowScores
  <2>2. Cardinality(forks) <= 2
    <3>. DEFINE pair == {<<guard, "baseline">>, <<guard, "candidate">>}
    <3>1. forks \subseteq pair
      BY <1>1 DEF ShadowInv, ForksOK, Sides
    <3>2. IsFiniteSet(pair) /\ Cardinality(pair) <= 2
      <4>1. IsFiniteSet({<<guard, "baseline">>}) /\ Cardinality({<<guard, "baseline">>}) = 1
        BY FS_Singleton
      <4>2. pair = {<<guard, "baseline">>} \cup {<<guard, "candidate">>}
        OBVIOUS
      <4>. QED
        BY <4>1, <4>2, FS_AddElement
    <3>. QED
      BY <3>1, <3>2, FS_Subset, FS_CardinalityType
  <2>. QED
    BY <1>1, <2>1, <2>2 DEF ShadowIsFair, TwoCopiesAtMost, ShadowInv, ForksOK
<1>. QED
  BY <1>1, LevelsFollow, ShadowAlways, PTL

-----------------------------------------------------------------------------
(* The optimizer                                                           *)

GenomeSlots == Prompts \cup {"policy"}
Policies == {p \in [Fields -> Nat] : \A f \in Fields : p[f] \in ValidValues[f]}
Genomes == Seq(Nat) \cup {<<p>> : p \in Policies}
Measured == Suites \cup {NoSuite}
Stages == {"baseline", "holdout baseline", "propose", "evaluate", "holdout", "done",
           "aborted", "over"}

OptTyped ==
  /\ config \in Configs /\ stage \in Stages /\ generation \in Nat
  /\ installed \in [GenomeSlots -> Genomes] /\ accepted \in [GenomeSlots -> Genomes]
  /\ \A slot \in Prompts : installed[slot] \in Seq(Nat) /\ accepted[slot] \in Seq(Nat)
  /\ accepted["policy"] = <<>> \/ \E p \in Policies : accepted["policy"] = <<p>>
  /\ candidate \in [slot : GenomeSlots \cup {"none"}, genome : Genomes, suite : Measured]
  /\ baseline \in Measured /\ report \in [first : Nat, final : Nat, wins : Nat]
  /\ bar \in Nat /\ winners \subseteq Nat /\ held \in Seq(Nat)

\* Between generations what was accepted is installed; within one, all but the
\* candidate is.
InstalledOK ==
  /\ stage \in {"baseline", "holdout baseline", "propose", "done"} => candidate = NoCandidate
  /\ stage \in {"baseline", "holdout baseline", "propose"} => installed = accepted
  /\ stage \in {"evaluate", "holdout"} =>
       /\ candidate.slot \in GenomeSlots
       /\ candidate.slot = "policy" => \E p \in Policies : candidate.genome = <<p>>
       /\ candidate.slot # "policy" => candidate.genome \in Seq(Nat)
       /\ config.genome = "prompt" => candidate.slot # "policy"
       /\ installed = [accepted EXCEPT ![candidate.slot] = candidate.genome]
  /\ config.genome = "prompt" => installed["policy"] = <<>> /\ accepted["policy"] = <<>>

\* What waits for the holdout is better than the suite to beat, which is the
\* last one reported; the bar is the highest total so far.
BarOK ==
  /\ report.final = baseline.total
  /\ stage = "holdout" => decide(baseline, candidate.suite)
  /\ \A i \in 1..Len(held) : held[i] <= bar
  /\ held # <<>> => held[Len(held)] >= bar - HoldoutEpsilon

OptInv == OptTyped /\ InstalledOK /\ BarOK /\ OptimizingIsSound

LEMMA SuiteNumbers ==
  /\ \A s \in Measured : s.total \in Nat /\ s.dev \in Nat
  /\ NoSuite \in Measured /\ Suites \subseteq Measured
BY OptimizerAssumption DEF Measured, Suites, NoSuite

LEMMA NobodyIsTyped ==
  NoCandidate \in [slot : GenomeSlots \cup {"none"}, genome : Genomes, suite : Measured]
<1>1. <<>> \in Genomes
  BY EmptySeq DEF Genomes
<1>. QED
  BY <1>1, SuiteNumbers DEF NoCandidate

\* An edit is appended to the edits of a prompt.
LEMMA OneMoreEdit ==
  ASSUME NEW s \in Seq(Nat), NEW n \in Nat
  PROVE  Append(s, n) \in Seq(Nat) /\ Range(Append(s, n)) \subseteq Range(s) \cup {n}
<1>1. Append(s, n) \in Seq(Nat) /\ Len(Append(s, n)) = Len(s) + 1 /\ Len(s) \in Nat
  BY AppendProperties, LenProperties
<1>2. ASSUME NEW i \in 1..(Len(s) + 1) PROVE Append(s, n)[i] \in Range(s) \cup {n}
  <2>1. CASE i \in 1..Len(s)
    <3>1. Append(s, n)[i] = s[i] /\ i \in DOMAIN s
      BY <2>1, AppendProperties, LenProperties
    <3>. QED
      BY <3>1 DEF Range
  <2>2. CASE i = Len(s) + 1
    BY <2>2, AppendProperties
  <2>. QED
    BY <1>1, <1>2, <2>1, <2>2
<1>3. DOMAIN Append(s, n) = 1..(Len(s) + 1)
  BY <1>1, LenProperties
<1>. QED
  BY <1>1, <1>2, <1>3 DEF Range

\* However many patches a proposal has, a policy that comes of it is valid and
\* one step away in every field.
LEMMA OneStepAway ==
  ASSUME NEW policy \in Policies, NEW patches \in Proposals, Patched(policy, patches) # <<>>
  PROVE  \E p \in Policies : /\ Patched(policy, patches) = <<p>>
                             /\ \A f \in Fields : WithinStep(f, policy[f], p[f])
<1>. DEFINE For(f) == { i \in DOMAIN patches : patches[i].field = f }
            p == [f \in Fields |-> IF For(f) = {} THEN policy[f]
                                   ELSE patches[CHOOSE i \in For(f) : TRUE].value]
<1>1. \A i \in DOMAIN patches : patches[i].value \in Nat
  BY OptimizerAssumption DEF Proposals, Patch
<1>2. /\ Patched(policy, patches) = <<p>>
      /\ \A f \in Fields : \A i \in For(f) :
           WithinStep(f, policy[f], patches[i].value) /\ patches[i].value \in ValidValues[f]
  BY Zenon DEF Patched
<1>3. ASSUME NEW f \in Fields
      PROVE  p[f] \in Nat /\ p[f] \in ValidValues[f] /\ WithinStep(f, policy[f], p[f])
  <2>1. CASE For(f) = {}
    <3>1. p[f] = policy[f] /\ policy[f] \in Nat /\ policy[f] \in ValidValues[f]
      BY <2>1 DEF Policies
    <3>2. StepFloor[f] \in Nat
      BY OptimizerAssumption
    <3>3. WithinStep(f, policy[f], policy[f])
      BY <3>1, <3>2 DEF WithinStep, Dist, MaxOf
    <3>. QED
      BY <3>1, <3>3
  <2>2. CASE For(f) # {}
    <3>1. PICK i \in For(f) : p[f] = patches[i].value
      BY <2>2
    <3>. QED
      BY <1>1, <1>2, <3>1
  <2>. QED
    BY <2>1, <2>2
<1>4. p \in Policies
  BY <1>3 DEF Policies
<1>. QED
  BY <1>2, <1>3, <1>4

LEMMA PolicyAtHand == ASSUME OptTyped PROVE CurrentPolicy \in Policies
BY OptimizerAssumption DEF OptTyped, CurrentPolicy, Policies

\* What is put up for evaluation is the work of its generation on what was accepted.
LEMMA InstallInv ==
  ASSUME OptInv, stage = "propose", NEW slot \in GenomeSlots, NEW genome \in Genomes,
         Install(slot, genome),
         slot = "policy" => /\ config.genome # "prompt"
                            /\ \E p \in Policies :
                                 /\ genome = <<p>>
                                 /\ \A f \in Fields : WithinStep(f, CurrentPolicy[f], p[f]),
         slot # "policy" => genome \in Seq(Nat) /\ Range(genome) \subseteq winners \cup {generation}
  PROVE  OptInv'
<1>. USE DEF OptInv
<1>1. /\ candidate' = [slot |-> slot, genome |-> genome, suite |-> NoSuite]
      /\ installed' = [installed EXCEPT ![slot] = genome] /\ stage' = "evaluate"
      /\ UNCHANGED <<config, generation, accepted, baseline, bar, report, winners, held>>
  BY DEF Install
<1>2. installed = accepted /\ candidate = NoCandidate
  BY DEF InstalledOK
<1>3. OptTyped'
  BY <1>1, SuiteNumbers DEF OptTyped, Stages, GenomeSlots, Prompts
<1>4. InstalledOK'
  BY <1>1, <1>2 DEF InstalledOK, OptTyped, GenomeSlots, Prompts
<1>5. BarOK'
  BY <1>1 DEF BarOK
<1>6. OnlyWinnersBreed'
  <2>1. ASSUME NEW s \in Prompts
        PROVE  /\ Range(accepted[s]) \subseteq winners
               /\ Range(installed'[s]) \subseteq IF slot = s THEN winners \cup {generation} ELSE winners
    <3>1. Range(accepted[s]) \subseteq winners /\ installed[s] = accepted[s]
      BY <1>2 DEF OptimizingIsSound, OnlyWinnersBreed
    <3>2. installed'[s] = IF slot = s THEN genome ELSE installed[s]
      BY <1>1 DEF OptTyped, GenomeSlots
    <3>. QED
      BY <3>1, <3>2 DEF Prompts
  <2>. QED
    BY <1>1, <2>1 DEF OnlyWinnersBreed
<1>7. PolicyStepsAreBounded'
  <2>. SUFFICES ASSUME slot = "policy", NEW f \in Fields
                PROVE  /\ WithinStep(f, CurrentPolicy[f], genome[1][f])
                       /\ genome[1][f] \in ValidValues[f]
    BY <1>1 DEF PolicyStepsAreBounded, CurrentPolicy
  <2>. QED
    BY DEF Policies
<1>8. ProgressAddsUp' /\ HoldoutNeverRatchets' /\ OverridesAreCleared'
  BY <1>1 DEF OptimizingIsSound, ProgressAddsUp, HoldoutNeverRatchets, OverridesAreCleared
<1>. QED
  BY <1>3, <1>4, <1>5, <1>6, <1>7, <1>8 DEF OptimizingIsSound

\* A generation that is over leaves behind what was accepted last.
LEMMA RejectInv ==
  ASSUME OptInv, stage \in {"evaluate", "holdout"}, Reject, NextGeneration,
         UNCHANGED <<config, bar, held>>
  PROVE  OptInv'
<1>. USE DEF OptInv
<1>1. /\ installed' = [installed EXCEPT ![candidate.slot] = accepted[candidate.slot]]
      /\ generation' = generation + 1 /\ stage' = "propose" /\ candidate' = NoCandidate
      /\ UNCHANGED <<config, accepted, baseline, bar, report, winners, held>>
  BY DEF Reject, NextGeneration
<1>2. installed' = accepted
  BY <1>1 DEF OptTyped, InstalledOK
<1>3. OptTyped'
  <2>1. candidate' \in [slot : GenomeSlots \cup {"none"}, genome : Genomes, suite : Measured]
    BY <1>1, NobodyIsTyped
  <2>2. generation \in Nat
    BY DEF OptTyped
  <2>3. generation' \in Nat /\ stage' \in Stages
    BY <1>1, <2>2 DEF Stages
  <2>. QED
    BY <1>1, <1>2, <2>1, <2>3 DEF OptTyped
<1>4. InstalledOK'
  BY <1>1, <1>2 DEF InstalledOK
<1>5. BarOK'
  BY <1>1 DEF BarOK
<1>6. OnlyWinnersBreed'
  BY <1>1, <1>2 DEF OptimizingIsSound, OnlyWinnersBreed, NoCandidate, Prompts
<1>7. PolicyStepsAreBounded'
  BY <1>1 DEF PolicyStepsAreBounded, NoCandidate
<1>8. ProgressAddsUp' /\ HoldoutNeverRatchets' /\ OverridesAreCleared'
  BY <1>1 DEF OptimizingIsSound, ProgressAddsUp, HoldoutNeverRatchets, OverridesAreCleared
<1>. QED
  BY <1>3, <1>4, <1>5, <1>6, <1>7, <1>8 DEF OptimizingIsSound

\* One more win is one more improvement.
LEMMA OneMoreWin ==
  ASSUME NEW first \in Nat, NEW final \in Nat, NEW total \in Nat, NEW wins \in Nat, NEW delta \in Nat,
         final - first >= wins * (delta + 1), total - final > delta
  PROVE  total - first >= (wins + 1) * (delta + 1)
<1>1. (wins + 1) * (delta + 1) = wins * (delta + 1) + (delta + 1)
  OBVIOUS
<1>2. wins * (delta + 1) \in Nat
  OBVIOUS
<1>. DEFINE product == wins * (delta + 1)
<1>3. product \in Nat /\ final - first >= product
  BY <1>2
<1>. HIDE DEF product
<1>4. total - first >= product + (delta + 1)
  BY <1>3
<1>. QED
  BY <1>1, <1>4 DEF product

\* A candidate that won is already installed, and is the suite to beat from then on.
LEMMA AcceptInv ==
  ASSUME OptInv, stage \in {"evaluate", "holdout"}, NEW suite \in Measured, Accept(suite),
         NextGeneration, decide(baseline, suite), UNCHANGED config,
         bar' \in Nat, held' \in Seq(Nat), \A i \in 1..Len(held') : held'[i] <= bar',
         held' # <<>> => held'[Len(held')] >= bar' - HoldoutEpsilon
  PROVE  OptInv'
<1>. USE DEF OptInv
<1>1. /\ accepted' = [accepted EXCEPT ![candidate.slot] = candidate.genome]
      /\ report' = [first |-> report.first, final |-> suite.total, wins |-> report.wins + 1]
      /\ winners' = winners \cup {generation} /\ baseline' = suite
      /\ generation' = generation + 1 /\ stage' = "propose" /\ candidate' = NoCandidate
      /\ UNCHANGED <<config, installed>>
  BY DEF Accept, NextGeneration
<1>2. accepted' = installed
  BY <1>1 DEF OptTyped, InstalledOK
<1>3. /\ suite.total \in Nat /\ baseline.total \in Nat /\ MinDelta \in Nat
      /\ suite.total - baseline.total > MinDelta
  BY SuiteNumbers, OptimizerAssumption DEF OptTyped, decide
<1>4. /\ report' \in [first : Nat, final : Nat, wins : Nat]
      /\ report'.first = report.first /\ report'.final = suite.total /\ report'.wins = report.wins + 1
  <2>1. report.first \in Nat /\ report.wins \in Nat
    BY DEF OptTyped
  <2>. QED
    BY <1>1, <1>3, <2>1
<1>5. OptTyped'
  <2>1. accepted'["policy"] = <<>> \/ \E p \in Policies : accepted'["policy"] = <<p>>
    BY <1>1 DEF OptTyped, InstalledOK, GenomeSlots
  <2>2. candidate' \in [slot : GenomeSlots \cup {"none"}, genome : Genomes, suite : Measured]
    BY <1>1, NobodyIsTyped
  <2>3. generation \in Nat /\ winners \subseteq Nat
    BY DEF OptTyped
  <2>4. generation' \in Nat /\ stage' \in Stages /\ winners' \subseteq Nat
    BY <1>1, <2>3 DEF Stages
  <2>. QED
    BY <1>1, <1>2, <1>4, <2>1, <2>2, <2>4 DEF OptTyped
<1>6. InstalledOK'
  BY <1>1, <1>2 DEF InstalledOK
<1>7. BarOK'
  BY <1>1, <1>4 DEF BarOK
<1>8. OnlyWinnersBreed'
  <2>1. ASSUME NEW slot \in Prompts PROVE Range(installed[slot]) \subseteq winners \cup {generation}
    BY DEF OptimizingIsSound, OnlyWinnersBreed
  <2>. QED
    BY <1>1, <1>2, <2>1 DEF OnlyWinnersBreed, NoCandidate, Prompts
<1>9. PolicyStepsAreBounded'
  BY <1>1 DEF PolicyStepsAreBounded, NoCandidate
<1>10. ProgressAddsUp'
  <2>1. report.first \in Nat /\ report.final \in Nat /\ report.wins \in Nat
        /\ report.final = baseline.total
    BY DEF OptTyped, BarOK
  <2>2. report.final - report.first >= report.wins * (MinDelta + 1)
    BY DEF OptimizingIsSound, ProgressAddsUp
  <2>3. suite.total - report.first >= (report.wins + 1) * (MinDelta + 1)
    BY <1>3, <2>1, <2>2, OneMoreWin
  <2>. QED
    BY <1>4, <2>3 DEF ProgressAddsUp
<1>11. HoldoutNeverRatchets'
  <2>. SUFFICES ASSUME NEW i \in 1..Len(held')
                PROVE  Last(held') >= held'[i] - HoldoutEpsilon
    BY DEF HoldoutNeverRatchets
  <2>1. held' # <<>> /\ Len(held') \in 1..Len(held') /\ held'[i] \in Nat
    BY ElementOfSeq, EmptySeq, LenProperties
  <2>2. held'[Len(held')] \in Nat
    BY <2>1, ElementOfSeq
  <2>. QED
    BY <2>1, <2>2, OptimizerAssumption DEF Last
<1>12. OverridesAreCleared'
  BY <1>1 DEF OverridesAreCleared
<1>. QED
  BY <1>5, <1>6, <1>7, <1>8, <1>9, <1>10, <1>11, <1>12 DEF OptimizingIsSound

\* A candidate that improves the suite waits for the holdout, if there is one.
LEMMA EvaluateInv ==
  ASSUME OptInv, NEW suite \in Suites, Evaluate(suite)
  PROVE  OptInv'
<1>. USE DEF OptInv
<1>1. stage = "evaluate" /\ UNCHANGED <<config, bar, held>> /\ suite \in Measured
  BY SuiteNumbers DEF Evaluate
<1>2. CASE ~decide(baseline, suite)
  BY <1>1, <1>2, RejectInv DEF Evaluate
<1>3. CASE decide(baseline, suite) /\ config.gated
  <2>1. /\ candidate' = [candidate EXCEPT !.suite = suite] /\ stage' = "holdout"
        /\ UNCHANGED <<generation, installed, accepted, report, winners, baseline>>
    BY <1>3 DEF Evaluate
  <2>2. /\ candidate' \in [slot : GenomeSlots \cup {"none"}, genome : Genomes, suite : Measured]
        /\ candidate'.slot = candidate.slot /\ candidate'.genome = candidate.genome
        /\ candidate'.suite = suite
    BY <1>1, <2>1 DEF OptTyped
  <2>3. OptTyped'
    BY <1>1, <2>1, <2>2 DEF OptTyped, Stages
  <2>4. InstalledOK'
    BY <1>1, <2>1, <2>2 DEF InstalledOK
  <2>5. BarOK'
    BY <1>1, <1>3, <2>1, <2>2 DEF BarOK
  <2>. QED
    BY <1>1, <2>1, <2>2, <2>3, <2>4, <2>5
    DEF OptimizingIsSound, OnlyWinnersBreed, PolicyStepsAreBounded, CurrentPolicy, ProgressAddsUp,
        HoldoutNeverRatchets, OverridesAreCleared
<1>4. CASE decide(baseline, suite) /\ ~config.gated
  <2>1. Accept(suite) /\ NextGeneration
    BY <1>4 DEF Evaluate
  <2>. QED
    BY <1>1, <1>4, <2>1, AcceptInv DEF OptTyped, BarOK
<1>. QED
  BY <1>2, <1>3, <1>4

\* The bar only rises, and what is accepted is within epsilon of it.
LEMMA HoldoutInv ==
  ASSUME OptInv, NEW total \in Totals, Holdout(total)
  PROVE  OptInv'
<1>. USE DEF OptInv
<1>1. /\ stage = "holdout" /\ NextGeneration /\ UNCHANGED config
      /\ total \in Nat /\ bar \in Nat /\ HoldoutEpsilon \in Nat
  BY OptimizerAssumption DEF Holdout, OptTyped
<1>2. CASE total < bar - HoldoutEpsilon
  BY <1>1, <1>2, RejectInv DEF Holdout
<1>3. CASE ~(total < bar - HoldoutEpsilon)
  <2>1. bar' = Raised(total) /\ held' = Append(held, total) /\ Accept(candidate.suite)
    BY <1>3 DEF Holdout
  <2>2. bar' \in Nat /\ bar <= bar' /\ total <= bar' /\ total >= bar' - HoldoutEpsilon
    BY <1>1, <1>3, <2>1 DEF Raised, MaxOf
  <2>3. /\ held \in Seq(Nat) /\ Len(held) \in Nat /\ held' \in Seq(Nat) /\ Len(held') = Len(held) + 1
        /\ held'[Len(held')] = total /\ \A i \in 1..Len(held) : held'[i] = held[i]
    BY <1>1, <2>1, AppendProperties, LenProperties DEF OptTyped
  <2>4. ASSUME NEW i \in 1..Len(held') PROVE held'[i] <= bar'
    <3>1. CASE i \in 1..Len(held)
      <4>1. held[i] <= bar /\ held[i] \in Nat
        BY <2>3, <3>1, ElementOfSeq DEF BarOK
      <4>. QED
        BY <1>1, <2>2, <2>3, <3>1, <4>1
    <3>2. CASE i = Len(held')
      BY <2>2, <2>3, <3>2
    <3>. QED
      BY <2>3, <3>1, <3>2
  <2>5. candidate.suite \in Measured /\ decide(baseline, candidate.suite)
    BY <1>1 DEF OptTyped, BarOK
  <2>. QED
    BY <1>1, <2>1, <2>2, <2>3, <2>4, <2>5, AcceptInv
<1>. QED
  BY <1>2, <1>3

\* The edits go to a prompt, and a policy patch to the policy.
LEMMA ProposeInv ==
  ASSUME OptInv, \/ ProposePrompt
                 \/ \E patches \in Proposals : ProposePolicy(patches)
  PROVE  OptInv'
<1>1. stage = "propose" /\ config \in Configs /\ installed = accepted /\ generation \in Nat
  BY DEF OptInv, OptTyped, InstalledOK, ProposePrompt, ProposePolicy
<1>2. CASE ProposePrompt
  <2>. DEFINE target == IF config.target = "auto" THEN pick_target(baseline.blame) ELSE config.target
  <2>1. target \in Prompts
    BY <1>1, OptimizerAssumption DEF Prompts, pick_target
  <2>2. /\ installed[target] \in Seq(Nat) /\ Range(installed[target]) \subseteq winners
        /\ Install(target, Append(installed[target], generation))
    BY <1>1, <1>2, <2>1 DEF ProposePrompt, OptInv, OptTyped, OptimizingIsSound, OnlyWinnersBreed
  <2>. DEFINE genome == Append(installed[target], generation)
  <2>3. /\ genome \in Seq(Nat) /\ Range(genome) \subseteq Range(installed[target]) \cup {generation}
    BY <1>1, <2>2, OneMoreEdit
  <2>4. target \in GenomeSlots /\ target # "policy" /\ genome \in Genomes
    BY <2>1, <2>3 DEF GenomeSlots, Prompts, Genomes
  <2>5. Range(genome) \subseteq winners \cup {generation} /\ Install(target, genome)
    BY <2>2, <2>3
  <2>. HIDE DEF target, genome
  <2>. QED
    BY <1>1, <2>3, <2>4, <2>5, InstallInv
<1>3. CASE \E patches \in Proposals : ProposePolicy(patches)
  <2>1. PICK patches \in Proposals : ProposePolicy(patches)
    BY <1>3
  <2>. DEFINE genome == Patched(CurrentPolicy, patches)
  <2>2. genome # <<>> /\ Install("policy", genome) /\ config.genome = "policy"
    BY <2>1 DEF ProposePolicy
  <2>3. \E p \in Policies : /\ genome = <<p>>
                            /\ \A f \in Fields : WithinStep(f, CurrentPolicy[f], p[f])
    BY <2>2, PolicyAtHand, OneStepAway DEF OptInv
  <2>4. genome \in Genomes /\ "policy" \in GenomeSlots
    BY <2>3 DEF Genomes, GenomeSlots
  <2>. HIDE DEF genome
  <2>. QED
    BY <1>1, <2>2, <2>3, <2>4, InstallInv
<1>. QED
  BY <1>2, <1>3

\* What a run starts from, and how it ends.
LEMMA OptInitInv == OptInit => OptInv
<1>. SUFFICES ASSUME OptInit PROVE OptInv
  OBVIOUS
<1>1. <<>> \in Seq(Nat) /\ <<>> \in Genomes /\ Len(<<>>) = 0
  BY EmptySeq DEF Genomes
<1>2. \A slot \in GenomeSlots : Compiled[slot] = <<>>
  BY DEF Compiled, GenomeSlots
<1>3. Range(<<>>) = {}
  BY DEF Range
<1>4. OptTyped
  BY <1>1, <1>2, NobodyIsTyped, SuiteNumbers
  DEF OptInit, OptTyped, Stages, Compiled, GenomeSlots, Prompts
<1>5. InstalledOK
  BY <1>2 DEF OptInit, InstalledOK, GenomeSlots
<1>6. BarOK
  BY <1>1 DEF OptInit, BarOK, NoSuite
<1>7. OnlyWinnersBreed
  BY <1>2, <1>3 DEF OptInit, OnlyWinnersBreed, GenomeSlots, NoCandidate
<1>8. PolicyStepsAreBounded /\ OverridesAreCleared
  BY DEF OptInit, PolicyStepsAreBounded, OverridesAreCleared, NoCandidate
<1>9. ProgressAddsUp
  BY OptimizerAssumption DEF OptInit, ProgressAddsUp
<1>10. HoldoutNeverRatchets
  BY <1>1 DEF OptInit, HoldoutNeverRatchets
<1>. QED
  BY <1>4, <1>5, <1>6, <1>7, <1>8, <1>9, <1>10 DEF OptInv, OptimizingIsSound

LEMMA OrdinaryNumbers ==
  \A m, n \in Nat : m <= m /\ m >= m - n /\ m - m >= 0 * (n + 1)
OBVIOUS

LEMMA BaselineInv ==
  ASSUME OptInv, \/ \E suite \in Suites : Baseline(suite)
                 \/ \E total \in Totals : HoldoutBaseline(total)
  PROVE  OptInv'
<1>. USE DEF OptInv
<1>1. CASE \E suite \in Suites : Baseline(suite)
  <2>1. PICK suite \in Suites : Baseline(suite)
    BY <1>1
  <2>2. /\ stage = "baseline" /\ stage' \in {"holdout baseline", "propose"} /\ baseline' = suite
        /\ report' = [first |-> suite.total, final |-> suite.total, wins |-> 0]
        /\ UNCHANGED <<config, generation, installed, accepted, candidate, bar, winners, held>>
        /\ suite \in Measured /\ suite.total \in Nat /\ MinDelta \in Nat
    BY <2>1, SuiteNumbers, OptimizerAssumption DEF Baseline
  <2>3. OptTyped'
    BY <2>2 DEF OptTyped, Stages
  <2>4. InstalledOK' /\ BarOK'
    BY <2>2 DEF InstalledOK, BarOK
  <2>5. OnlyWinnersBreed'
    BY <2>2 DEF OptimizingIsSound, OnlyWinnersBreed, InstalledOK
  <2>6. PolicyStepsAreBounded' /\ HoldoutNeverRatchets' /\ OverridesAreCleared'
    BY <2>2 DEF OptimizingIsSound, PolicyStepsAreBounded, CurrentPolicy, HoldoutNeverRatchets,
                OverridesAreCleared
  <2>7. ProgressAddsUp'
    <3>1. report'.final = suite.total /\ report'.first = suite.total /\ report'.wins = 0
      BY <2>2
    <3>. QED
      BY <2>2, <3>1, OrdinaryNumbers DEF ProgressAddsUp
  <2>. QED
    BY <2>3, <2>4, <2>5, <2>6, <2>7 DEF OptimizingIsSound
<1>2. CASE \E total \in Totals : HoldoutBaseline(total)
  <2>1. PICK total \in Totals : HoldoutBaseline(total)
    BY <1>2
  <2>2. /\ stage = "holdout baseline" /\ stage' = "propose" /\ bar' = total /\ held' = <<total>>
        /\ UNCHANGED <<config, generation, installed, accepted, candidate, baseline, report, winners>>
        /\ total \in Nat /\ HoldoutEpsilon \in Nat
    BY <2>1, OptimizerAssumption DEF HoldoutBaseline
  <2>3. held' \in Seq(Nat) /\ Len(held') = 1 /\ held'[1] = total
    <3>1. \A t \in Nat : <<t>> \in Seq(Nat) /\ Len(<<t>>) = 1 /\ <<t>>[1] = t
      OBVIOUS
    <3>. QED
      BY <2>2, <3>1
  <2>4. OptTyped'
    BY <2>2, <2>3 DEF OptTyped, Stages
  <2>5. InstalledOK' /\ BarOK'
    <3>1. InstalledOK'
      BY <2>2 DEF InstalledOK
    <3>2. \A i \in 1..Len(held') : i = 1
      BY <2>3
    <3>3. total <= bar' /\ total >= bar' - HoldoutEpsilon
      BY <2>2, OrdinaryNumbers
    <3>4. BarOK'
      BY <2>2, <2>3, <3>2, <3>3 DEF BarOK
    <3>. QED
      BY <3>1, <3>4
  <2>6. OnlyWinnersBreed'
    BY <2>2 DEF OptimizingIsSound, OnlyWinnersBreed, InstalledOK
  <2>7. PolicyStepsAreBounded' /\ ProgressAddsUp' /\ OverridesAreCleared'
    BY <2>2 DEF OptimizingIsSound, PolicyStepsAreBounded, CurrentPolicy, ProgressAddsUp,
                OverridesAreCleared
  <2>8. HoldoutNeverRatchets'
    <3>1. \A i \in 1..Len(held') : i = 1
      BY <2>3
    <3>2. Last(held') = total /\ total >= total - HoldoutEpsilon
      BY <2>2, <2>3, OrdinaryNumbers DEF Last
    <3>. QED
      BY <2>3, <3>1, <3>2 DEF HoldoutNeverRatchets
  <2>. QED
    BY <2>4, <2>5, <2>6, <2>7, <2>8 DEF OptimizingIsSound
<1>. QED
  BY <1>1, <1>2

\* The ways out: the overrides are gone, and a run that ends keeps what it accepted.
LEMMA EndingInv ==
  ASSUME OptInv, ProposalFails \/ Finish \/ FitnessFails \/ CleanUp
  PROVE  OptInv'
<1>. USE DEF OptInv
<1>1. /\ UNCHANGED <<config, accepted, candidate, baseline, bar, report, winners, held>>
      /\ generation' \in Nat /\ stage' \in {"propose", "done", "aborted", "over"}
      /\ stage' = "propose" => stage = "propose" /\ installed' = installed
      /\ stage' \in {"done", "aborted"} => installed' = GuardDropped /\ stage # "over"
      /\ stage' = "done" => stage = "propose" /\ generation' = generation
      /\ stage' = "aborted" => generation' = generation
      /\ stage' = "over" => installed' = Compiled /\ generation' = generation
  <2>1. generation \in Nat
    BY DEF OptTyped
  <2>2. CASE ProposalFails
    BY <2>1, <2>2 DEF ProposalFails
  <2>3. CASE Finish
    BY <2>1, <2>3 DEF Finish
  <2>4. CASE FitnessFails
    BY <2>1, <2>4 DEF FitnessFails
  <2>5. CASE CleanUp
    BY <2>1, <2>5 DEF CleanUp
  <2>. QED
    BY <2>2, <2>3, <2>4, <2>5
<1>2. /\ installed' \in [GenomeSlots -> Genomes]
      /\ \A slot \in Prompts : installed'[slot] \in Seq(Nat) /\ installed'[slot] \in {installed[slot], <<>>}
      /\ stage' \in {"done", "aborted"} =>
           installed'["policy"] = <<>> /\ \A slot \in Prompts : installed'[slot] = installed[slot]
  <2>1. <<>> \in Seq(Nat) /\ <<>> \in Genomes
    BY EmptySeq DEF Genomes
  <2>2. CASE installed' = installed /\ stage' = "propose"
    BY <2>2 DEF OptTyped
  <2>3. CASE installed' = GuardDropped /\ stage' \in {"done", "aborted"}
    <3>1. config.genome \in {"prompt", "policy"}
      BY OptimizerAssumption DEF OptTyped
    <3>2. config.genome = "prompt" => installed["policy"] = <<>>
      BY DEF InstalledOK
    <3>. QED
      BY <2>1, <2>3, <3>1, <3>2 DEF OptTyped, GuardDropped, GenomeSlots, Prompts
  <2>4. CASE installed' = Compiled /\ stage' = "over"
    BY <2>1, <2>4 DEF Compiled, GenomeSlots
  <2>. QED
    BY <1>1, <2>2, <2>3, <2>4
<1>3. OptTyped'
  BY <1>1, <1>2 DEF OptTyped, Stages
<1>4. InstalledOK'
  <2>1. config.genome = "prompt" => installed'["policy"] = <<>> /\ accepted'["policy"] = <<>>
    BY <1>1, <1>2 DEF InstalledOK, Compiled
  <2>. QED
    BY <1>1, <2>1 DEF InstalledOK
<1>5. BarOK'
  BY <1>1 DEF BarOK
<1>6. OnlyWinnersBreed'
  <2>1. ASSUME NEW slot \in Prompts
        PROVE  /\ Range(accepted[slot]) \subseteq winners
               /\ stage' \in {"propose", "done"} => installed'[slot] = accepted[slot]
               /\ Range(installed'[slot]) \subseteq
                    IF candidate.slot = slot THEN winners \cup {generation'} ELSE winners
    <3>1. /\ Range(accepted[slot]) \subseteq winners
          /\ stage = "propose" => installed[slot] = accepted[slot] /\ candidate = NoCandidate
          /\ Range(installed[slot]) \subseteq
                    IF candidate.slot = slot THEN winners \cup {generation} ELSE winners
      BY DEF OptimizingIsSound, OnlyWinnersBreed, InstalledOK
    <3>2. Range(<<>>) = {}
      BY DEF Range
    <3>3. stage' = "propose" \/ generation' = generation
      BY <1>1
    <3>4. NoCandidate.slot # slot
      BY DEF NoCandidate, Prompts
    <3>. QED
      BY <1>1, <1>2, <3>1, <3>2, <3>3, <3>4
  <2>. QED
    BY <1>1, <2>1 DEF OnlyWinnersBreed
<1>7. PolicyStepsAreBounded' /\ ProgressAddsUp' /\ HoldoutNeverRatchets'
  BY <1>1 DEF OptimizingIsSound, PolicyStepsAreBounded, CurrentPolicy, ProgressAddsUp,
              HoldoutNeverRatchets
<1>8. OverridesAreCleared'
  BY <1>1, <1>2 DEF OverridesAreCleared, Compiled
<1>. QED
  BY <1>3, <1>4, <1>5, <1>6, <1>7, <1>8 DEF OptimizingIsSound

LEMMA OptKept ==
  ASSUME OptInv, UNCHANGED optVars
  PROVE  OptInv'
BY DEF OptInv, optVars, OptTyped, InstalledOK, BarOK, OptimizingIsSound, OnlyWinnersBreed,
       PolicyStepsAreBounded, CurrentPolicy, ProgressAddsUp, HoldoutNeverRatchets,
       OverridesAreCleared

\* What the optimizer of eval/optimize.rs reports as an improvement is one, its
\* small losses on the holdout do not add up, a policy moves by bounded steps,
\* and nothing of what it tried outlives the command.
THEOREM SoundOptimizing == EvaluationSpec => []OptimizingIsSound
<1>1. OptInv /\ [OptNext]_optVars => OptInv'
  BY OptKept, EvaluateInv, HoldoutInv, ProposeInv, BaselineInv, EndingInv DEF OptNext
<1>2. OptInv => OptimizingIsSound
  BY DEF OptInv
<1>3. OptSpec => []OptInv
  BY OptInitInv, <1>1, PTL DEF OptSpec
<1>. QED
  BY <1>2, <1>3, LevelsFollow, PTL

-----------------------------------------------------------------------------
(* Sums and rankings                                                       *)

LEMMA Climb ==
  ASSUME NEW n \in Nat, NEW S, 0 \in S, \A k \in 0..n : k < n /\ k \in S => k + 1 \in S
  PROVE  \A k \in 0..n : k \in S
<1>. DEFINE bad == {k \in 0..n : k \notin S}
            less == OpToRel(<, Nat)
<1>1. SUFFICES ASSUME bad # {} PROVE FALSE
  OBVIOUS
<1>2. IsWellFoundedOn(less, Nat)
  BY NatLessThanWellFounded
<1>3. bad \in SUBSET Nat
  OBVIOUS
<1>4. PICK m \in bad : \A y \in bad : ~(<<y, m>> \in less)
  <2>. HIDE DEF less, bad
  <2>. QED
    BY <1>1, <1>2, <1>3, WFMin
<1>5. m \in 0..n /\ m # 0 /\ m - 1 \in 0..n /\ m - 1 < n /\ (m - 1) + 1 = m
  OBVIOUS
<1>6. <<m - 1, m>> \in less
  <2>1. <<m - 1, m>> \in Nat \X Nat /\ <<m - 1, m>>[1] = m - 1 /\ <<m - 1, m>>[2] = m
    BY <1>5
  <2>2. <<m - 1, m>>[1] < <<m - 1, m>>[2]
    BY <1>5, <2>1
  <2>. QED
    BY <2>1, <2>2, Zenon DEF OpToRel
<1>7. m - 1 \in S
  BY <1>4, <1>5, <1>6
<1>. QED
  BY <1>4, <1>5, <1>7

Adds(f, seq) ==
  /\ f \in [0..Len(seq) -> Nat] /\ f[0] = 0
  /\ \A k \in 1..Len(seq) : f[k] = f[k - 1] + seq[k]

LEMMA SumExists ==
  ASSUME NEW seq \in Seq(Nat)
  PROVE  \E f : Adds(f, seq)
<1>. DEFINE n == Len(seq)
            Upto(k) == \E f \in [0..k -> Nat] :
                         f[0] = 0 /\ \A j \in 1..k : f[j] = f[j - 1] + seq[j]
            S == {k \in 0..n : Upto(k)}
<1>1. n \in Nat /\ \A k \in 1..n : seq[k] \in Nat
  BY LenProperties, ElementOfSeq
<1>2. 0 \in S
  <2>. DEFINE g == [k \in 0..0 |-> 0]
  <2>1. g \in [0..0 -> Nat] /\ g[0] = 0 /\ 0 \in 0..n /\ 1..0 = {}
    BY <1>1
  <2>. HIDE DEF g
  <2>2. Upto(0)
    BY <2>1
  <2>. QED
    BY <2>1, <2>2
<1>3. ASSUME NEW k \in 0..n, k < n, k \in S PROVE k + 1 \in S
  <2>1. PICK f \in [0..k -> Nat] : f[0] = 0 /\ \A j \in 1..k : f[j] = f[j - 1] + seq[j]
    BY <1>3
  <2>. DEFINE g == [j \in 0..(k + 1) |-> IF j <= k THEN f[j] ELSE f[k] + seq[k + 1]]
  <2>2. k \in Nat /\ k + 1 \in 1..n /\ k \in 0..k /\ f[k] \in Nat /\ seq[k + 1] \in Nat
    BY <1>1, <1>3
  <2>3. g \in [0..(k + 1) -> Nat] /\ g[0] = 0
    BY <2>1, <2>2
  <2>4. ASSUME NEW j \in 1..(k + 1) PROVE g[j] = g[j - 1] + seq[j]
    <3>1. CASE j <= k
      <4>1. j \in 1..k /\ j - 1 <= k /\ j - 1 \in 0..(k + 1)
        BY <2>2, <3>1
      <4>. QED
        BY <2>1, <3>1, <4>1
    <3>2. CASE j = k + 1
      <4>1. g[j] = f[k] + seq[j] /\ j - 1 = k /\ g[k] = f[k]
        BY <2>2, <3>2
      <4>. QED
        BY <4>1
    <3>. QED
      BY <2>2, <3>1, <3>2
  <2>. HIDE DEF g
  <2>5. Upto(k + 1)
    BY <2>3, <2>4
  <2>6. k + 1 \in 0..n
    BY <1>1, <2>2
  <2>. HIDE DEF Upto
  <2>. QED
    BY <2>5, <2>6
<1>4. n \in S
  <2>. HIDE DEF S
  <2>1. n \in 0..n
    BY <1>1
  <2>. QED
    BY <1>1, <1>2, <1>3, <2>1, Climb
<1>. QED
  BY <1>4 DEF Adds

LEMMA SumIsAFold ==
  ASSUME NEW seq \in Seq(Nat)
  PROVE  \E f : Adds(f, seq) /\ SumOf(seq) = f[Len(seq)]
<1>. DEFINE n == Len(seq)
            Rec(f) == f = [k \in 0..n |-> IF k = 0 THEN 0 ELSE f[k - 1] + seq[k]]
            sum == CHOOSE f : Rec(f)
<1>1. n \in Nat /\ \A k \in 1..n : seq[k] \in Nat
  BY LenProperties, ElementOfSeq
<1>2. \E f : Rec(f)
  <2>1. PICK f : Adds(f, seq)
    BY SumExists
  <2>2. ASSUME NEW k \in 0..n PROVE f[k] = IF k = 0 THEN 0 ELSE f[k - 1] + seq[k]
    <3>1. k = 0 \/ k \in 1..n
      BY <1>1
    <3>. QED
      BY <2>1, <3>1 DEF Adds
  <2>3. f = [k \in 0..n |-> f[k]]
    BY <2>1 DEF Adds
  <2>. QED
    BY <2>2, <2>3
<1>3. Rec(sum)
  BY <1>2
<1>4. SumOf(seq) = sum[n]
  BY DEF SumOf
<1>. HIDE DEF sum
<1>5. sum[0] = 0 /\ \A k \in 1..n : sum[k] = sum[k - 1] + seq[k]
  BY <1>1, <1>3
<1>6. \A k \in 0..n : sum[k] \in Nat
  <2>. DEFINE S == {k \in 0..n : sum[k] \in Nat}
  <2>1. 0 \in S
    BY <1>1, <1>5
  <2>2. ASSUME NEW k \in 0..n, k < n, k \in S PROVE k + 1 \in S
    <3>1. k + 1 \in 1..n /\ (k + 1) - 1 = k /\ sum[k] \in Nat
      BY <1>1, <2>2
    <3>2. sum[k + 1] = sum[k] + seq[k + 1] /\ seq[k + 1] \in Nat
      BY <1>1, <1>5, <3>1
    <3>. QED
      BY <1>1, <3>1, <3>2
  <2>3. \A k \in 0..n : k \in S
    <3>. HIDE DEF S
    <3>. QED
      BY <1>1, <2>1, <2>2, Climb
  <2>. QED
    BY <2>3
<1>. QED
  BY <1>3, <1>4, <1>5, <1>6 DEF Adds

LEMMA SumIsNat == ASSUME NEW seq \in Seq(Nat) PROVE SumOf(seq) \in Nat
BY SumIsAFold, LenProperties DEF Adds

\* A sum of no smaller numbers is no smaller.
LEMMA SumsCompare ==
  ASSUME NEW a \in Seq(Nat), NEW b \in Seq(Nat), Len(a) = Len(b),
         \A i \in 1..Len(a) : a[i] <= b[i]
  PROVE  SumOf(a) <= SumOf(b)
<1>1. PICK f : Adds(f, a) /\ SumOf(a) = f[Len(a)]
  BY SumIsAFold
<1>2. PICK g : Adds(g, b) /\ SumOf(b) = g[Len(b)]
  BY SumIsAFold
<1>. DEFINE n == Len(a)
            S == {k \in 0..n : f[k] <= g[k]}
<1>3. n \in Nat /\ n = Len(b) /\ \A k \in 1..n : a[k] \in Nat /\ b[k] \in Nat
  BY LenProperties, ElementOfSeq
<1>4. \A k \in 0..n : f[k] \in Nat /\ g[k] \in Nat
  BY <1>1, <1>2, <1>3 DEF Adds
<1>5. 0 \in S
  BY <1>1, <1>2, <1>3 DEF Adds
<1>6. ASSUME NEW k \in 0..n, k < n, k \in S PROVE k + 1 \in S
  <2>1. k + 1 \in 1..n /\ (k + 1) - 1 = k /\ f[k] <= g[k] /\ f[k] \in Nat /\ g[k] \in Nat
    BY <1>3, <1>4, <1>6
  <2>2. f[k + 1] = f[k] + a[k + 1] /\ g[k + 1] = g[k] + b[k + 1] /\ a[k + 1] <= b[k + 1]
    BY <1>1, <1>2, <1>3, <2>1 DEF Adds
  <2>3. a[k + 1] \in Nat /\ b[k + 1] \in Nat
    BY <1>3, <2>1
  <2>4. f[k + 1] <= g[k + 1]
    BY <2>1, <2>2, <2>3
  <2>. QED
    BY <1>3, <2>1, <2>4
<1>7. n \in S
  <2>. HIDE DEF S
  <2>1. n \in 0..n
    BY <1>3
  <2>. QED
    BY <1>3, <1>5, <1>6, <2>1, Climb
<1>. QED
  BY <1>1, <1>2, <1>3, <1>7

\* A sum is no smaller than any of its numbers.
LEMMA SumCovers ==
  ASSUME NEW a \in Seq(Nat), NEW i \in 1..Len(a)
  PROVE  a[i] <= SumOf(a)
<1>1. PICK f : Adds(f, a) /\ SumOf(a) = f[Len(a)]
  BY SumIsAFold
<1>. DEFINE n == Len(a)
            S == {k \in 0..n : k < i \/ a[i] <= f[k]}
<1>2. n \in Nat /\ \A k \in 1..n : a[k] \in Nat
  BY LenProperties, ElementOfSeq
<1>3. \A k \in 0..n : f[k] \in Nat
  BY <1>1 DEF Adds
<1>4. 0 \in S
  BY <1>2
<1>5. ASSUME NEW k \in 0..n, k < n, k \in S PROVE k + 1 \in S
  <2>1. k + 1 \in 1..n /\ (k + 1) - 1 = k /\ f[k] \in Nat /\ a[k + 1] \in Nat /\ a[i] \in Nat
    BY <1>2, <1>3, <1>5
  <2>2. f[k + 1] = f[k] + a[k + 1]
    BY <1>1, <2>1 DEF Adds
  <2>3. k + 1 < i \/ a[i] <= f[k + 1]
    <3>1. CASE k + 1 < i
      BY <3>1
    <3>2. CASE k + 1 = i
      BY <2>1, <2>2, <3>2
    <3>3. CASE i <= k
      BY <1>2, <1>5, <2>1, <2>2, <3>3
    <3>. QED
      BY <1>2, <3>1, <3>2, <3>3
  <2>. QED
    BY <1>2, <2>1, <2>3
<1>6. n \in S
  <2>. HIDE DEF S
  <2>1. n \in 0..n
    BY <1>2
  <2>. QED
    BY <1>2, <1>4, <1>5, <2>1, Climb
<1>. QED
  BY <1>1, <1>2, <1>6

\* Of finitely or infinitely many, some one has the least number.
LEMMA SomeLeast ==
  ASSUME NEW S, S # {}, NEW f, \A x \in S : f[x] \in Nat
  PROVE  \E m \in S : \A x \in S : f[m] <= f[x]
<1>. DEFINE less == OpToRel(<, Nat)
            numbers == {f[x] : x \in S}
<1>1. IsWellFoundedOn(less, Nat)
  BY NatLessThanWellFounded
<1>2. numbers \in SUBSET Nat /\ numbers # {}
  OBVIOUS
<1>3. PICK l \in numbers : \A y \in numbers : ~(<<y, l>> \in less)
  <2>. HIDE DEF less, numbers
  <2>. QED
    BY <1>1, <1>2, WFMin
<1>4. ASSUME NEW y \in numbers PROVE l <= y
  <2>1. ASSUME y < l PROVE <<y, l>> \in less
    <3>1. <<y, l>> \in Nat \X Nat /\ <<y, l>>[1] = y /\ <<y, l>>[2] = l
      BY <1>2
    <3>2. <<y, l>>[1] < <<y, l>>[2]
      BY <2>1, <3>1
    <3>. QED
      BY <3>1, <3>2, Zenon DEF OpToRel
  <2>2. ~(y < l)
    BY <1>3, <2>1
  <2>3. y \in Nat /\ l \in Nat
    BY <1>2
  <2>. HIDE DEF numbers
  <2>. QED
    BY <2>2, <2>3
<1>5. PICK m \in S : l = f[m]
  OBVIOUS
<1>. QED
  BY <1>4, <1>5

-----------------------------------------------------------------------------
(* Suites                                                                  *)

CellStates == {"waiting", "running", "completed", "aborted"}
Bases == [at : {"none", "forming", "failed", "closed"}, written : Nat, stored : Nat]
SuiteReports == [scenario : Scenarios, aborted : BOOLEAN]

SuiteTyped ==
  /\ cell \in [Cells -> CellStates] /\ base \in [Scenarios -> Bases]
  /\ forked \in [Cells -> Nat] /\ reports \in [Profiles -> Seq(SuiteReports)]
  /\ \A p \in Profiles : Reported(p) <= ScenarioCount

\* What is reported is over for good.
ReportedIsOver == \A p \in Profiles : \A i \in 1..Reported(p) : Over(<<p, i>>)

\* A base that can be forked has its whole formation in store.
ClosedIsWhole == \A s \in Scenarios : base[s].at = "closed" => base[s].stored = FormationTurns

SuiteInv ==
  /\ SuiteTyped /\ ReportedIsOver /\ ClosedIsWhole
  /\ EachCellReportsItself /\ ForksSeeTheWholeFormation

LEMMA SuiteNats ==
  /\ ProfileCount \in Nat \ {0} /\ ScenarioCount \in Nat \ {0} /\ FormationTurns \in Nat
  /\ Budget \in Nat /\ \A i \in Scenarios : Quality[i] \in Nat
BY SuiteAssumption DEF Scenarios

\* One more report of a profile, that of the scenario whose turn it is.
LEMMA OneMoreReport ==
  ASSUME SuiteTyped, NEW p \in Profiles, NEW s \in Scenarios, Reported(p) = s - 1,
         NEW aborted \in BOOLEAN
  PROVE  LET next == Append(reports[p], [scenario |-> s, aborted |-> aborted]) IN
         /\ next \in Seq(SuiteReports) /\ Len(next) = s /\ Len(next) <= ScenarioCount
         /\ next[s] = [scenario |-> s, aborted |-> aborted]
         /\ \A i \in 1..Len(next) : i # s => i \in 1..Reported(p) /\ next[i] = reports[p][i]
<1>. DEFINE next == Append(reports[p], [scenario |-> s, aborted |-> aborted])
<1>1. reports[p] \in Seq(SuiteReports) /\ [scenario |-> s, aborted |-> aborted] \in SuiteReports
  BY DEF SuiteTyped, SuiteReports
<1>2. s \in Nat /\ s <= ScenarioCount /\ Len(reports[p]) = s - 1
  BY SuiteNats DEF Scenarios, Reported
<1>3. /\ next \in Seq(SuiteReports) /\ Len(next) = s
      /\ next[s] = [scenario |-> s, aborted |-> aborted]
      /\ \A i \in 1..Len(reports[p]) : next[i] = reports[p][i]
  BY <1>1, <1>2, AppendProperties
<1>. QED
  BY <1>2, <1>3 DEF Reported

LEMMA ReportedCell ==
  ASSUME SuiteTyped, NEW p \in Profiles, NEW i \in 1..Reported(p)
  PROVE  i \in Scenarios /\ <<p, i>> \in Cells
<1>1. Reported(p) <= ScenarioCount /\ Reported(p) \in Nat
  BY LenProperties DEF SuiteTyped, Reported
<1>. QED
  BY <1>1, SuiteNats DEF Cells, Scenarios

\* What a step has to keep: what became of a reported cell.
LEMMA CellsMove ==
  ASSUME SuiteInv, SuiteTyped',
         \A p \in Profiles : \A i \in 1..Reported(p) : cell'[<<p, i>>] = cell[<<p, i>>],
         \A p \in Profiles : \A i \in 1..Len(reports'[p]) :
           \/ i \in 1..Reported(p) /\ reports'[p][i] = reports[p][i]
           \/ /\ cell'[<<p, i>>] \in {"completed", "aborted"}
              /\ reports'[p][i] = [scenario |-> i, aborted |-> cell'[<<p, i>>] = "aborted"]
  PROVE  ReportedIsOver' /\ EachCellReportsItself'
<1>. SUFFICES ASSUME NEW p \in Profiles, NEW i \in 1..Len(reports'[p])
              PROVE  /\ cell'[<<p, i>>] \in {"completed", "aborted"}
                     /\ reports'[p][i] = [scenario |-> i, aborted |-> cell'[<<p, i>>] = "aborted"]
  BY DEF ReportedIsOver, EachCellReportsItself, Over, Reported
<1>1. <<p, i>> \in Cells
  <2>1. Len(reports'[p]) <= ScenarioCount /\ Len(reports'[p]) \in Nat
    BY LenProperties DEF SuiteTyped, Reported
  <2>. QED
    BY <2>1, SuiteNats DEF Cells, Scenarios
<1>2. CASE i \in 1..Reported(p) /\ reports'[p][i] = reports[p][i]
  BY <1>1, <1>2 DEF SuiteInv, ReportedIsOver, EachCellReportsItself, Over
<1>. QED
  BY <1>2

\* A cell that moves on, with nothing reported: what is over stays so, and what
\* forks a base finds it whole.
LEMMA OneCellMoves ==
  ASSUME SuiteInv, NEW c \in Cells, NEW at \in CellStates, ~Over(c),
         cell' = [cell EXCEPT ![c] = at], UNCHANGED <<shared, base, reports>>,
         \/ UNCHANGED forked
         \/ forked' = [forked EXCEPT ![c] = FormationTurns]
  PROVE  SuiteInv'
<1>1. SuiteTyped'
  BY SuiteNats DEF SuiteInv, SuiteTyped, Reported
<1>2. ASSUME NEW p \in Profiles, NEW i \in 1..Reported(p)
      PROVE  cell'[<<p, i>>] = cell[<<p, i>>]
  <2>1. <<p, i>> \in Cells /\ Over(<<p, i>>)
    BY ReportedCell DEF SuiteInv, ReportedIsOver
  <2>. QED
    BY <2>1 DEF SuiteInv, SuiteTyped
<1>3. ReportedIsOver' /\ EachCellReportsItself'
  <2>1. ASSUME NEW p \in Profiles, NEW i \in 1..Len(reports'[p])
        PROVE  i \in 1..Reported(p) /\ reports'[p][i] = reports[p][i]
    BY DEF Reported
  <2>. QED
    BY <1>1, <1>2, <2>1, CellsMove
<1>4. ClosedIsWhole' /\ ForksSeeTheWholeFormation'
  BY DEF SuiteInv, SuiteTyped, ClosedIsWhole, ForksSeeTheWholeFormation
<1>. QED
  BY <1>1, <1>3, <1>4 DEF SuiteInv

\* A base that moves on is whole if it is closed.
LEMMA OneBaseMoves ==
  ASSUME SuiteInv, UNCHANGED <<shared, cell, forked, reports>>,
         base' \in [Scenarios -> Bases], ClosedIsWhole'
  PROVE  SuiteInv'
BY DEF SuiteInv, SuiteTyped, ReportedIsOver, EachCellReportsItself, ForksSeeTheWholeFormation,
       Over, Reported

LEMMA CellAction ==
  ASSUME SuiteInv, NEW p \in Profiles, NEW s \in Scenarios,
         AcquireSpace(p, s) \/ RunScenario(p, s) \/ Fork(p, s) \/ RunPolicyPhase(p, s)
  PROVE  SuiteInv'
<1>1. <<p, s>> \in Cells
  BY DEF Cells
<1>2. /\ ~Over(<<p, s>>) /\ UNCHANGED <<shared, base, reports>>
      /\ \E at \in CellStates : cell' = [cell EXCEPT ![<<p, s>>] = at]
      /\ \/ UNCHANGED forked
         \/ forked' = [forked EXCEPT ![<<p, s>>] = base[s].stored] /\ base[s].at = "closed"
  <2>1. CASE AcquireSpace(p, s)
    BY <2>1 DEF AcquireSpace, Over, CellStates
  <2>2. CASE RunScenario(p, s)
    BY <2>2 DEF RunScenario, Over, CellStates
  <2>3. CASE Fork(p, s)
    BY <2>3 DEF Fork, Over, CellStates
  <2>4. CASE RunPolicyPhase(p, s)
    BY <2>4 DEF RunPolicyPhase, Over, CellStates
  <2>. QED
    BY <2>1, <2>2, <2>3, <2>4
<1>3. base[s].at = "closed" => base[s].stored = FormationTurns
  BY DEF SuiteInv, ClosedIsWhole
<1>. QED
  BY <1>1, <1>2, <1>3, OneCellMoves

LEMMA BaseAction ==
  ASSUME SuiteInv, NEW s \in Scenarios, OpenBase(s) \/ FormTurn(s) \/ CloseBase(s)
  PROVE  SuiteInv'
<1>1. base \in [Scenarios -> Bases] /\ base[s] \in Bases /\ FormationTurns \in Nat
  BY SuiteNats DEF SuiteInv, SuiteTyped
<1>. DEFINE at == base[s].at   written == base[s].written   stored == base[s].stored
<1>2. /\ UNCHANGED <<shared, cell, forked, reports>>
      /\ \E b \in Bases : /\ base' = [base EXCEPT ![s] = b]
                          /\ b.at = "closed" => b.stored = FormationTurns
  <2>1. base[s] = [at |-> at, written |-> written, stored |-> stored]
        /\ written \in Nat /\ stored \in Nat
    BY <1>1 DEF Bases
  <2>2. CASE OpenBase(s)
    <3>1. PICK next \in {"forming", "failed"} : base' = [base EXCEPT ![s].at = next]
      BY <2>2 DEF OpenBase
    <3>2. [base[s] EXCEPT !.at = next] = [at |-> next, written |-> written, stored |-> stored]
      BY <2>1
    <3>3. [at |-> next, written |-> written, stored |-> stored] \in Bases
      BY <2>1 DEF Bases
    <3>4. base' = [base EXCEPT ![s] = [at |-> next, written |-> written, stored |-> stored]]
      BY <3>1, <3>2
    <3>. QED
      BY <2>2, <3>3, <3>4 DEF OpenBase
  <2>3. CASE FormTurn(s)
    <3>1. PICK kept \in {stored, written + 1} :
            base' = [base EXCEPT ![s] = [at |-> "forming", written |-> written + 1, stored |-> kept]]
      BY <2>3 DEF FormTurn
    <3>. DEFINE b == [at |-> "forming", written |-> written + 1, stored |-> kept]
    <3>2. base' = [base EXCEPT ![s] = b]
      BY <3>1
    <3>3. b \in Bases /\ b.at = "forming"
      BY <2>1, <2>3, <3>1 DEF Bases, FormTurn
    <3>. QED
      BY <2>3, <3>2, <3>3 DEF FormTurn
  <2>4. CASE CloseBase(s)
    <3>1. PICK formed \in BOOLEAN, closed \in BOOLEAN :
            /\ formed => written = FormationTurns
            /\ base' = [base EXCEPT ![s] =
                          [at |-> IF Folded(formed, closed) THEN "closed" ELSE "failed",
                           written |-> written, stored |-> IF closed THEN written ELSE stored]]
      BY <2>4 DEF CloseBase
    <3>. DEFINE b == [at |-> IF Folded(formed, closed) THEN "closed" ELSE "failed",
                      written |-> written, stored |-> IF closed THEN written ELSE stored]
    <3>2. base' = [base EXCEPT ![s] = b]
      BY <3>1
    <3>3. b \in Bases /\ (b.at = "closed" => b.stored = FormationTurns)
      BY <2>1, <3>1 DEF Bases, Folded
    <3>. QED
      BY <2>4, <3>2, <3>3 DEF CloseBase
  <2>. QED
    BY <2>2, <2>3, <2>4
<1>3. base' \in [Scenarios -> Bases] /\ ClosedIsWhole'
  BY <1>1, <1>2 DEF SuiteInv, ClosedIsWhole
<1>. QED
  BY <1>2, <1>3, OneBaseMoves


\* Whose turn it is reports the scenario whose turn it is, as its cell ended.
LEMMA Reporting ==
  ASSUME SuiteInv, NEW who \in SUBSET Profiles, NEW s \in Scenarios,
         UNCHANGED <<shared, base, forked>>, \A p \in who : Reported(p) = s - 1,
         cell' \in [Cells -> CellStates],
         UNCHANGED cell \/ (who = Profiles /\ \A c \in Cells : c[2] # s => cell'[c] = cell[c]),
         \A p \in who : cell'[<<p, s>>] \in {"completed", "aborted"},
         reports' = [p \in Profiles |->
           IF p \in who
             THEN Append(reports[p], [scenario |-> s, aborted |-> cell'[<<p, s>>] = "aborted"])
           ELSE reports[p]]
  PROVE  SuiteInv'
<1>1. ASSUME NEW p \in who
      PROVE  /\ reports'[p] \in Seq(SuiteReports) /\ Len(reports'[p]) = s /\ Len(reports'[p]) <= ScenarioCount
             /\ reports'[p][s] = [scenario |-> s, aborted |-> cell'[<<p, s>>] = "aborted"]
             /\ \A i \in 1..Len(reports'[p]) :
                  i # s => i \in 1..Reported(p) /\ reports'[p][i] = reports[p][i]
  <2>1. PICK aborted \in BOOLEAN : aborted = (cell'[<<p, s>>] = "aborted")
    OBVIOUS
  <2>2. reports'[p] = Append(reports[p], [scenario |-> s, aborted |-> aborted])
    BY <2>1
  <2>. DEFINE next == Append(reports[p], [scenario |-> s, aborted |-> aborted])
              got == reports'[p]
  <2>3. Reported(p) = s - 1 /\ p \in Profiles /\ SuiteTyped
    BY DEF SuiteInv
  <2>4. /\ next \in Seq(SuiteReports) /\ Len(next) = s /\ Len(next) <= ScenarioCount
        /\ next[s] = [scenario |-> s, aborted |-> aborted]
        /\ \A i \in 1..Len(next) : i # s => i \in 1..Reported(p) /\ next[i] = reports[p][i]
    BY <2>3, OneMoreReport
  <2>5. got = next
    BY <2>2
  <2>. HIDE DEF next, got
  <2>6. next[s] = [scenario |-> s, aborted |-> cell'[<<p, s>>] = "aborted"]
    BY <2>1, <2>4
  <2>7. /\ got \in Seq(SuiteReports) /\ Len(got) = s /\ Len(got) <= ScenarioCount
        /\ got[s] = [scenario |-> s, aborted |-> cell'[<<p, s>>] = "aborted"]
        /\ \A i \in 1..Len(got) : i # s => i \in 1..Reported(p) /\ got[i] = reports[p][i]
    BY <2>4, <2>5, <2>6
  <2>. QED
    BY <2>7 DEF got
<1>2. \A p \in Profiles \ who : reports'[p] = reports[p]
  OBVIOUS
<1>3. SuiteTyped'
  <2>1. ASSUME NEW p \in Profiles
        PROVE  reports'[p] \in Seq(SuiteReports) /\ Len(reports'[p]) <= ScenarioCount
    <3>1. reports[p] \in Seq(SuiteReports) /\ Len(reports[p]) <= ScenarioCount
      BY DEF SuiteInv, SuiteTyped, Reported
    <3>. QED
      BY <1>1, <1>2, <3>1
  <2>2. reports' \in [Profiles -> Seq(SuiteReports)]
    BY <2>1
  <2>. QED
    BY <2>1, <2>2 DEF SuiteInv, SuiteTyped, Reported
<1>4. ASSUME NEW p \in Profiles, NEW i \in 1..Reported(p) PROVE cell'[<<p, i>>] = cell[<<p, i>>]
  <2>1. CASE UNCHANGED cell
    BY <2>1
  <2>2. CASE who = Profiles /\ \A c \in Cells : c[2] # s => cell'[c] = cell[c]
    <3>1. i # s
      BY <2>2, SuiteNats DEF Scenarios
    <3>2. <<p, i>> \in Cells /\ <<p, i>>[2] = i
      BY ReportedCell DEF SuiteInv
    <3>. QED
      BY <2>2, <3>1, <3>2
  <2>. QED
    BY <2>1, <2>2
<1>5. ASSUME NEW p \in Profiles, NEW i \in 1..Len(reports'[p])
      PROVE  \/ i \in 1..Reported(p) /\ reports'[p][i] = reports[p][i]
             \/ /\ cell'[<<p, i>>] \in {"completed", "aborted"}
                /\ reports'[p][i] = [scenario |-> i, aborted |-> cell'[<<p, i>>] = "aborted"]
  <2>1. CASE p \notin who
    BY <1>2, <2>1 DEF Reported
  <2>2. CASE p \in who /\ i = s
    BY <1>1, <2>2
  <2>3. CASE p \in who /\ i # s
    BY <1>1, <2>3
  <2>. QED
    BY <2>1, <2>2, <2>3
<1>6. ReportedIsOver' /\ EachCellReportsItself'
  BY <1>3, <1>4, <1>5, CellsMove
<1>7. ClosedIsWhole' /\ ForksSeeTheWholeFormation'
  BY DEF SuiteInv, ClosedIsWhole, ForksSeeTheWholeFormation
<1>. QED
  BY <1>3, <1>6, <1>7 DEF SuiteInv

LEMMA ReportAction ==
  ASSUME SuiteInv, \/ \E p \in Profiles : DeliverReport(p)
                   \/ \E s \in Scenarios : AbortScenario(s) \/ JoinForks(s)
  PROVE  SuiteInv'
<1>0. cell \in [Cells -> CellStates]
  BY DEF SuiteInv, SuiteTyped
<1>1. ASSUME NEW p \in Profiles, DeliverReport(p) PROVE SuiteInv'
  <2>1. PICK s \in Scenarios :
          /\ s = Reported(p) + 1 /\ Over(<<p, s>>)
          /\ reports' = [reports EXCEPT ![p] = Append(@, Report(p, s))]
    BY <1>1 DEF DeliverReport, Deliverable
  <2>2. Reported(p) \in Nat /\ reports \in [Profiles -> Seq(SuiteReports)]
    BY LenProperties DEF SuiteInv, SuiteTyped, Reported
  <2>3. Reported(p) = s - 1
    BY <2>1, <2>2
  <2>4. UNCHANGED <<shared, cell, base, forked>>
    BY <1>1 DEF DeliverReport
  <2>5. reports' = [q \in Profiles |->
           IF q \in {p}
             THEN Append(reports[q], [scenario |-> s, aborted |-> cell'[<<q, s>>] = "aborted"])
           ELSE reports[q]]
    BY <2>1, <2>2, <2>4 DEF Report
  <2>6. cell'[<<p, s>>] \in {"completed", "aborted"}
    BY <2>1, <2>4 DEF Over
  <2>. QED
    BY <1>0, <2>3, <2>4, <2>5, <2>6, Reporting
<1>2. ASSUME NEW s \in Scenarios, AbortScenario(s) PROVE SuiteInv'
  <2>1. /\ \A p \in Profiles : Reported(p) = s - 1
        /\ cell' = [c \in Cells |-> IF c[2] = s THEN "aborted" ELSE cell[c]]
        /\ reports' = [p \in Profiles |-> Append(reports[p], [scenario |-> s, aborted |-> TRUE])]
        /\ UNCHANGED <<shared, base, forked>>
    BY <1>2 DEF AbortScenario, Current
  <2>2. \A p \in Profiles : cell'[<<p, s>>] = "aborted"
    BY <2>1 DEF Cells
  <2>3. cell' \in [Cells -> CellStates] /\ \A c \in Cells : c[2] # s => cell'[c] = cell[c]
    BY <1>0, <2>1 DEF CellStates
  <2>4. reports' = [p \in Profiles |->
           IF p \in Profiles
             THEN Append(reports[p], [scenario |-> s, aborted |-> cell'[<<p, s>>] = "aborted"])
           ELSE reports[p]]
    BY <2>1, <2>2
  <2>. QED
    BY <2>1, <2>2, <2>3, <2>4, Reporting
<1>3. ASSUME NEW s \in Scenarios, JoinForks(s) PROVE SuiteInv'
  <2>1. /\ \A p \in Profiles : Reported(p) = s - 1 /\ Over(<<p, s>>)
        /\ reports' = [p \in Profiles |-> Append(reports[p], Joined(s)[p])]
        /\ UNCHANGED <<shared, cell, base, forked>>
    BY <1>3 DEF JoinForks, Current
  <2>2. reports' = [p \in Profiles |->
           IF p \in Profiles
             THEN Append(reports[p], [scenario |-> s, aborted |-> cell'[<<p, s>>] = "aborted"])
           ELSE reports[p]]
    BY <2>1 DEF Joined, Report
  <2>3. \A p \in Profiles : cell'[<<p, s>>] \in {"completed", "aborted"}
    BY <2>1 DEF Over
  <2>. QED
    BY <1>0, <2>1, <2>2, <2>3, Reporting
<1>. QED
  BY <1>1, <1>2, <1>3

LEMMA SuiteInitInv == SuiteInit => SuiteInv
<1>. SUFFICES ASSUME SuiteInit PROVE SuiteInv
  OBVIOUS
<1>1. <<>> \in Seq(SuiteReports) /\ Len(<<>>) = 0 /\ 1..0 = {}
  BY EmptySeq
<1>2. \A p \in Profiles : reports[p] = <<>> /\ Reported(p) = 0
  BY <1>1 DEF SuiteInit, Reported
<1>3. SuiteTyped
  BY <1>1, <1>2, SuiteNats DEF SuiteInit, SuiteTyped, CellStates, Bases, NoBase, Unforked
<1>4. ReportedIsOver /\ EachCellReportsItself
  BY <1>1, <1>2 DEF ReportedIsOver, EachCellReportsItself
<1>5. ClosedIsWhole /\ ForksSeeTheWholeFormation
  BY DEF SuiteInit, ClosedIsWhole, NoBase, ForksSeeTheWholeFormation
<1>. QED
  BY <1>3, <1>4, <1>5 DEF SuiteInv

LEMMA SuiteInductive == SuiteInv /\ [SuiteNext]_suiteVars => SuiteInv'
<1>. SUFFICES ASSUME SuiteInv, [SuiteNext]_suiteVars PROVE SuiteInv'
  OBVIOUS
<1>1. CASE UNCHANGED suiteVars
  BY <1>1 DEF suiteVars, SuiteInv, SuiteTyped, ReportedIsOver, ClosedIsWhole,
              EachCellReportsItself, ForksSeeTheWholeFormation, Over, Reported
<1>2. CASE SuiteNext
  BY <1>2, CellAction, BaseAction, ReportAction DEF SuiteNext
<1>. QED
  BY <1>1, <1>2

\* Fractions of one denominator compare as their numerators.
LEMMA SameDenominator ==
  ASSUME NEW a \in Nat, NEW b \in Nat, NEW n \in Nat \ {0}
  PROVE  a * n < b * n <=> a < b
<1>1. ASSUME NEW c \in Nat, NEW d \in Nat, c < d PROVE c * n < d * n
  <2>1. PICK e \in Nat \ {0} : d = c + e
    <3>1. d - c \in Nat \ {0} /\ d = c + (d - c)
      BY <1>1
    <3>. QED
      BY <3>1
  <2>2. d * n = c * n + e * n
    BY <2>1
  <2>3. e * n \in Nat \ {0} /\ c * n \in Nat
    BY <2>1
  <2>. DEFINE x == c * n   y == e * n
  <2>4. x \in Nat /\ y \in Nat \ {0} /\ d * n = x + y
    BY <2>2, <2>3
  <2>. HIDE DEF x, y
  <2>5. x < x + y
    BY <2>4
  <2>. QED
    BY <2>4, <2>5 DEF x
<1>2. CASE a < b
  BY <1>1, <1>2
<1>3. CASE a = b
  <2>1. a * n = b * n /\ a * n \in Nat
    BY <1>3
  <2>. QED
    BY <1>3, <2>1
<1>4. CASE b < a
  <2>1. b * n < a * n /\ a * n \in Nat /\ b * n \in Nat
    BY <1>1, <1>4
  <2>. QED
    BY <1>4, <2>1
<1>. QED
  BY <1>2, <1>3, <1>4

\* What a finished suite is scored by.
LEMMA ScoresAre ==
  ASSUME SuiteInv, AllDone, NEW p \in Profiles
  PROVE  /\ Reported(p) = ScenarioCount /\ Scores(p) \in Seq(Nat) /\ Len(Scores(p)) = ScenarioCount
         /\ \A i \in 1..ScenarioCount :
              Scores(p)[i] = IF cell[<<p, i>>] = "aborted" THEN 0 ELSE Quality[i]
         /\ SumOf(Scores(p)) \in Nat /\ StandInFindings(p) = Cardinality(Aborts(p))
         /\ IsFiniteSet(Aborts(p)) /\ StandInFindings(p) \in Nat
<1>1. Reported(p) = ScenarioCount /\ ScenarioCount \in Nat
  BY SuiteNats DEF AllDone, Finished
<1>2. ASSUME NEW i \in 1..ScenarioCount
      PROVE  reports[p][i].scenario = i /\ reports[p][i].aborted = (cell[<<p, i>>] = "aborted")
  <2>1. reports[p][i] = [scenario |-> i, aborted |-> cell[<<p, i>>] = "aborted"]
    BY <1>1 DEF SuiteInv, EachCellReportsItself
  <2>. QED
    BY <2>1
<1>3. Scores(p) = [i \in 1..ScenarioCount |-> IF cell[<<p, i>>] = "aborted" THEN 0 ELSE Quality[i]]
  BY <1>1, <1>2 DEF Scores
<1>4. \A i \in 1..ScenarioCount : Quality[i] \in Nat
  BY SuiteNats DEF Scenarios
<1>5. Scores(p) \in Seq(Nat) /\ Len(Scores(p)) = ScenarioCount
  BY <1>1, <1>3, <1>4
<1>6. { i \in 1..Reported(p) : reports[p][i].aborted } = Aborts(p)
  BY <1>1, <1>2 DEF Aborts, Scenarios
<1>7. IsFiniteSet(Aborts(p))
  <2>1. Aborts(p) \subseteq 1..ScenarioCount /\ IsFiniteSet(1..ScenarioCount)
    BY <1>1, FS_Interval DEF Aborts, Scenarios
  <2>. QED
    BY <2>1, FS_Subset
<1>8. StandInFindings(p) = Cardinality(Aborts(p))
  BY <1>6 DEF StandInFindings
<1>. QED
  BY <1>1, <1>3, <1>5, <1>7, <1>8, SumIsNat, FS_CardinalityType

\* How finished suites rank.
LEMMA RanksAre ==
  ASSUME SuiteInv, AllDone, NEW p \in Profiles, NEW q \in Profiles
  PROVE  RanksBefore(p, q) <=>
           \/ SumOf(Scores(q)) < SumOf(Scores(p))
           \/ /\ SumOf(Scores(q)) = SumOf(Scores(p))
              /\ \/ StandInFindings(p) < StandInFindings(q)
                 \/ StandInFindings(p) = StandInFindings(q) /\ p < q
<1>. DEFINE tp == SumOf(Scores(p))   tq == SumOf(Scores(q))
<1>1. tp \in Nat /\ tq \in Nat /\ Reported(p) = ScenarioCount /\ Reported(q) = ScenarioCount
      /\ ScenarioCount \in Nat \ {0}
  BY ScoresAre, SuiteNats
<1>2. /\ Below(MeanTotal(q), MeanTotal(p)) <=> tq * ScenarioCount < tp * ScenarioCount
      /\ Below(MeanTotal(p), MeanTotal(q)) <=> tp * ScenarioCount < tq * ScenarioCount
  BY <1>1 DEF Below, MeanTotal
<1>. HIDE DEF tp, tq
<1>3. /\ Below(MeanTotal(q), MeanTotal(p)) <=> tq < tp
      /\ Below(MeanTotal(p), MeanTotal(q)) <=> tp < tq
  BY <1>1, <1>2, SameDenominator
<1>4. RanksBefore(p, q) <=>
        \/ tq < tp
        \/ /\ tq = tp
           /\ \/ StandInFindings(p) < StandInFindings(q)
              \/ StandInFindings(p) = StandInFindings(q) /\ p < q
  BY <1>1, <1>3 DEF RanksBefore
<1>. QED
  BY <1>4 DEF tp, tq

\* Who aborts less among equals ranks before.
LEMMA FewerAbortsWin ==
  ASSUME SuiteInv, AllDone, NEW p \in Profiles, NEW q \in Profiles,
         Aborts(p) \subseteq Aborts(q), Aborts(p) # Aborts(q)
  PROVE  RanksBefore(p, q)
<1>1. ASSUME NEW i \in 1..ScenarioCount PROVE Scores(q)[i] <= Scores(p)[i]
  <2>1. cell[<<p, i>>] = "aborted" => cell[<<q, i>>] = "aborted"
    BY DEF Aborts, Scenarios
  <2>2. Quality[i] \in Nat
    BY SuiteNats DEF Scenarios
  <2>3. /\ Scores(p)[i] = IF cell[<<p, i>>] = "aborted" THEN 0 ELSE Quality[i]
        /\ Scores(q)[i] = IF cell[<<q, i>>] = "aborted" THEN 0 ELSE Quality[i]
    BY ScoresAre
  <2>. QED
    BY <2>1, <2>2, <2>3
<1>2. /\ Scores(p) \in Seq(Nat) /\ Scores(q) \in Seq(Nat)
      /\ Len(Scores(p)) = ScenarioCount /\ Len(Scores(q)) = ScenarioCount
      /\ SumOf(Scores(p)) \in Nat /\ SumOf(Scores(q)) \in Nat
  BY ScoresAre
<1>3. SumOf(Scores(q)) <= SumOf(Scores(p))
  BY <1>1, <1>2, SumsCompare
<1>4. StandInFindings(p) < StandInFindings(q)
  BY ScoresAre, FS_Subset, FS_CardinalityType
<1>. QED
  BY <1>2, <1>3, <1>4, RanksAre

\* Some profile ranks before all others.
LEMMA SomeBest ==
  ASSUME SuiteInv, AllDone
  PROVE  \E p \in Profiles : \A q \in Profiles \ {p} : RanksBefore(p, q)
<1>. DEFINE top == SumOf(Quality)
            lost == [p \in Profiles |-> top - SumOf(Scores(p))]
            found == [p \in Profiles |-> StandInFindings(p)]
            name == [p \in Profiles |-> p]
<1>1. Quality \in Seq(Nat) /\ Len(Quality) = ScenarioCount /\ top \in Nat
  <2>1. Quality \in [1..ScenarioCount -> Nat] /\ ScenarioCount \in Nat
    BY SuiteAssumption DEF Scenarios
  <2>2. Quality \in Seq(Nat) /\ Len(Quality) = ScenarioCount
    BY <2>1
  <2>. QED
    BY <2>2, SumIsNat
<1>2. ASSUME NEW p \in Profiles
      PROVE  SumOf(Scores(p)) \in Nat /\ SumOf(Scores(p)) <= top /\ StandInFindings(p) \in Nat /\ p \in Nat
  <2>1. /\ Scores(p) \in Seq(Nat) /\ Len(Scores(p)) = ScenarioCount
        /\ SumOf(Scores(p)) \in Nat /\ StandInFindings(p) \in Nat
    BY ScoresAre
  <2>2. ASSUME NEW i \in 1..ScenarioCount PROVE Scores(p)[i] <= Quality[i]
    <3>1. Quality[i] \in Nat
      BY SuiteNats DEF Scenarios
    <3>2. Scores(p)[i] = IF cell[<<p, i>>] = "aborted" THEN 0 ELSE Quality[i]
      BY ScoresAre
    <3>. QED
      BY <3>1, <3>2
  <2>3. SumOf(Scores(p)) <= SumOf(Quality)
    BY <1>1, <2>1, <2>2, SumsCompare
  <2>. QED
    BY <2>1, <2>3 DEF Profiles
<1>. HIDE DEF top
<1>3. \A p \in Profiles : lost[p] \in Nat /\ found[p] \in Nat /\ name[p] \in Nat
  BY <1>1, <1>2
<1>4. Profiles # {}
  BY SuiteNats DEF Profiles
<1>5. PICK a \in Profiles : \A p \in Profiles : lost[a] <= lost[p]
  <2>. HIDE DEF lost
  <2>. QED
    BY <1>3, <1>4, SomeLeast
<1>. DEFINE first == {p \in Profiles : lost[p] = lost[a]}
<1>6. PICK b \in first : \A p \in first : found[b] <= found[p]
  <2>1. first # {} /\ \A p \in first : found[p] \in Nat
    BY <1>3, <1>5
  <2>. HIDE DEF first, found
  <2>. QED
    BY <2>1, SomeLeast
<1>. DEFINE second == {p \in first : found[p] = found[b]}
<1>7. PICK c \in second : \A p \in second : name[c] <= name[p]
  <2>1. second # {} /\ \A p \in second : name[p] \in Nat
    BY <1>3, <1>6
  <2>. HIDE DEF second, name
  <2>. QED
    BY <2>1, SomeLeast
<1>8. c \in Profiles /\ lost[c] = lost[a] /\ found[c] = found[b]
  OBVIOUS
<1>9. ASSUME NEW q \in Profiles \ {c} PROVE RanksBefore(c, q)
  <2>1. /\ lost[c] <= lost[q] /\ (lost[c] = lost[q] => found[c] <= found[q])
        /\ (lost[c] = lost[q] /\ found[c] = found[q] => c <= q)
    BY <1>5, <1>6, <1>7, <1>8
  <2>2. /\ SumOf(Scores(c)) \in Nat /\ SumOf(Scores(q)) \in Nat
        /\ StandInFindings(c) \in Nat /\ StandInFindings(q) \in Nat /\ c \in Nat /\ q \in Nat /\ c # q
    BY <1>2, <1>8
  <2>3. /\ lost[c] = top - SumOf(Scores(c)) /\ lost[q] = top - SumOf(Scores(q))
        /\ found[c] = StandInFindings(c) /\ found[q] = StandInFindings(q)
    BY <1>8
  <2>. HIDE DEF lost, found, first, second, name
  <2>4. \/ SumOf(Scores(q)) < SumOf(Scores(c))
        \/ /\ SumOf(Scores(q)) = SumOf(Scores(c))
           /\ \/ StandInFindings(c) < StandInFindings(q)
              \/ StandInFindings(c) = StandInFindings(q) /\ c < q
    BY <1>1, <2>1, <2>2, <2>3
  <2>. QED
    BY <1>8, <2>4, RanksAre
<1>. QED
  BY <1>8, <1>9

LEMMA AbortsDoNotPay == ASSUME SuiteInv PROVE AbortsNeverPay
<1>. SUFFICES ASSUME AllDone
              PROVE  /\ \A p, q \in Profiles :
                          Aborts(p) \subseteq Aborts(q) /\ Aborts(p) # Aborts(q) => RanksBefore(p, q)
                     /\ Aborts(Best) # {} => \A p \in Profiles : Aborts(p) # {}
  BY DEF AbortsNeverPay
<1>1. Best \in Profiles /\ \A q \in Profiles \ {Best} : RanksBefore(Best, q)
  BY SomeBest DEF Best
<1>2. ASSUME Aborts(Best) # {}, NEW p \in Profiles, Aborts(p) = {} PROVE FALSE
  <2>1. p # Best /\ RanksBefore(Best, p)
    BY <1>1, <1>2
  <2>2. RanksBefore(p, Best)
    BY <1>1, <1>2, FewerAbortsWin
  <2>3. /\ SumOf(Scores(p)) \in Nat /\ SumOf(Scores(Best)) \in Nat /\ p \in Nat /\ Best \in Nat
        /\ StandInFindings(p) \in Nat /\ StandInFindings(Best) \in Nat
    BY <1>1, ScoresAre DEF Profiles
  <2>4. \/ SumOf(Scores(p)) < SumOf(Scores(Best))
        \/ /\ SumOf(Scores(p)) = SumOf(Scores(Best))
           /\ \/ StandInFindings(Best) < StandInFindings(p)
              \/ StandInFindings(Best) = StandInFindings(p) /\ Best < p
    BY <1>1, <2>1, RanksAre
  <2>5. \/ SumOf(Scores(Best)) < SumOf(Scores(p))
        \/ /\ SumOf(Scores(Best)) = SumOf(Scores(p))
           /\ \/ StandInFindings(p) < StandInFindings(Best)
              \/ StandInFindings(p) = StandInFindings(Best) /\ p < Best
    BY <1>1, <2>2, RanksAre
  <2>. QED
    BY <2>3, <2>4, <2>5
<1>. QED
  BY <1>2, FewerAbortsWin

LEMMA GateSees == ASSUME SuiteInv PROVE GateSeesAborts
<1>. SUFFICES ASSUME AllDone, WithinGate(0), NEW c \in Cells PROVE cell[c] = "completed"
  BY DEF GateSeesAborts
<1>1. PICK p \in Profiles, s \in Scenarios : c = <<p, s>>
  BY DEF Cells
<1>. DEFINE counts == [q \in Profiles |-> StandInFindings(q)]
<1>2. \A q \in Profiles : StandInFindings(q) \in Nat
  BY ScoresAre
<1>3. counts \in Seq(Nat) /\ Len(counts) = ProfileCount /\ p \in 1..Len(counts)
  BY <1>2, SuiteNats DEF Profiles
<1>4. SumOf(counts) <= 0 /\ SumOf(counts) \in Nat
  BY <1>3, SumIsNat DEF WithinGate
<1>5. counts[p] = StandInFindings(p)
  OBVIOUS
<1>. HIDE DEF counts
<1>6. StandInFindings(p) = 0
  <2>1. counts[p] <= SumOf(counts)
    BY <1>3, SumCovers
  <2>. QED
    BY <1>2, <1>4, <1>5, <2>1
<1>7. Aborts(p) = {}
  BY <1>6, ScoresAre, FS_EmptySet
<1>8. Over(c)
  <2>1. s \in 1..Reported(p)
    BY ScoresAre DEF Scenarios
  <2>. QED
    BY <1>1, <2>1 DEF SuiteInv, ReportedIsOver
<1>. QED
  BY <1>1, <1>7, <1>8 DEF Aborts, Over

\* eval/run.rs: every profile is compared on its own outcome of every scenario,
\* from the same memory, and nobody ranks higher for what aborted, for any
\* number of profiles and scenarios.
THEOREM AlikeSuites == EvaluationSpec => []SuitesCompareAlike
<1>1. SuiteInv => SuitesCompareAlike
  BY AbortsDoNotPay, GateSees DEF SuitesCompareAlike, SuiteInv
<1>2. SuiteSpec => []SuiteInv
  BY SuiteInitInv, SuiteInductive, PTL DEF SuiteSpec
<1>. QED
  BY <1>1, <1>2, LevelsFollow, PTL

-----------------------------------------------------------------------------
(* Samples and checkpoints                                                 *)

Rolls == [total : Nat, found : SUBSET Causes]

\* What a checkpoint that is finished shows of its rolls.
Typical(c) ==
  /\ 2 * Cardinality({ j \in 1..SampleCount : c.rolls[j].total > c.median }) <= SampleCount
  /\ 2 * Cardinality({ j \in 1..SampleCount : c.rolls[j].total < c.median }) <= SampleCount

Decided(c) ==
  SampleCount >= 3 /\ SampleCount % 2 = 1 =>
    \A cause \in Causes :
      LET found == { j \in 1..SampleCount : cause \in c.rolls[j].found }
      IN  /\ Cardinality(found) = 1 => cause \notin c.found
          /\ Cardinality(found) = SampleCount - 1 => cause \in c.found

Checkpoints == [mean : Nat, found : SUBSET Causes, median : Nat, rolls : Seq(Rolls)]

AggregateInv ==
  /\ samples \in Seq(Rolls) /\ checkpoints \in Seq(Checkpoints)
  /\ \A i \in 1..Len(checkpoints) : Typical(checkpoints[i]) /\ Decided(checkpoints[i])

\* Samples are ordered by their totals, and by age.
LEMMA SamplesAreOrdered ==
  ASSUME samples \in Seq(Rolls)
  PROVE  /\ Len(samples) \in Nat /\ \A i \in 1..Len(samples) : samples[i].total \in Nat
         /\ \A i, j \in 1..Len(samples) : i # j => Before(i, j) \/ Before(j, i)
         /\ \A i, j, k \in 1..Len(samples) : Before(i, j) /\ Before(j, k) => Before(i, k)
         /\ \A i \in 1..Len(samples) : ~Before(i, i)
<1>0. Len(samples) \in Nat /\ \A i \in 1..Len(samples) : samples[i] \in Rolls
  BY LenProperties, ElementOfSeq
<1>1. Len(samples) \in Nat /\ \A i \in 1..Len(samples) : samples[i].total \in Nat
  BY <1>0 DEF Rolls
<1>2. \A i \in 1..Len(samples) : i \in Nat
  BY <1>1
<1>. QED
  BY <1>1, <1>2 DEF Before

LEMMA OneLess ==
  ASSUME NEW S, NEW x \in S, IsFiniteSet(S)
  PROVE  IsFiniteSet(S \ {x}) /\ Cardinality(S \ {x}) = Cardinality(S) - 1
BY FS_RemoveElement

\* One sample has half of them before it.
LEMMA SomeMedian ==
  ASSUME samples \in Seq(Rolls), Len(samples) = SampleCount
  PROVE  /\ MedianSample \in 1..SampleCount
         /\ Cardinality({ j \in 1..SampleCount : Before(j, MedianSample) }) = SampleCount \div 2
<1>. DEFINE n == SampleCount
            before(i) == { j \in 1..n : Before(j, i) }
            rank == [i \in 1..n |-> Cardinality(before(i))]
<1>1. n \in Nat \ {0} /\ n = Len(samples)
  BY AggregateAssumption
<1>2. IsFiniteSet(1..n) /\ Cardinality(1..n) = n
  BY <1>1, FS_Interval
<1>3. ASSUME NEW i \in 1..n
      PROVE  IsFiniteSet(before(i)) /\ i \notin before(i) /\ Cardinality(before(i)) \in 0..(n - 1)
  <2>1. before(i) \in SUBSET (1..n) /\ i \notin before(i)
    BY <1>1, SamplesAreOrdered
  <2>2. IsFiniteSet((1..n) \ {i}) /\ Cardinality((1..n) \ {i}) = n - 1
    BY <1>1, <1>2, OneLess
  <2>3. before(i) \in SUBSET ((1..n) \ {i})
    BY <2>1
  <2>. HIDE DEF before
  <2>4. IsFiniteSet(before(i)) /\ Cardinality(before(i)) <= n - 1
    BY <2>2, <2>3, FS_Subset
  <2>5. Cardinality(before(i)) \in Nat
    BY <2>4, FS_CardinalityType
  <2>. QED
    BY <1>1, <2>1, <2>4, <2>5
<1>4. ASSUME NEW i \in 1..n, NEW k \in 1..n, Before(i, k) PROVE rank[i] < rank[k]
  <2>1. before(i) \in SUBSET before(k) /\ i \in before(k) /\ i \notin before(i)
    BY <1>1, <1>4, SamplesAreOrdered
  <2>2. IsFiniteSet(before(k)) /\ Cardinality(before(k)) \in Nat /\ Cardinality(before(i)) \in Nat
    <3>. HIDE DEF before
    <3>1. IsFiniteSet(before(k)) /\ Cardinality(before(k)) \in 0..(n - 1) /\ Cardinality(before(i)) \in 0..(n - 1)
      BY <1>3
    <3>. QED
      BY <1>1, <3>1
  <2>. HIDE DEF before
  <2>3. Cardinality(before(i)) <= Cardinality(before(k)) /\ Cardinality(before(i)) # Cardinality(before(k))
    BY <2>1, <2>2, FS_Subset
  <2>. QED
    BY <2>2, <2>3
<1>5. rank \in Injection(1..n, 0..(n - 1))
  <2>1. rank \in [1..n -> 0..(n - 1)]
    <3>1. \A i \in 1..n : Cardinality(before(i)) \in 0..(n - 1)
      BY <1>3
    <3>. HIDE DEF before
    <3>. QED
      BY <3>1
  <2>2. \A i \in 1..n : rank[i] \in Nat
    BY <1>1, <2>1
  <2>3. ASSUME NEW i \in 1..n, NEW k \in 1..n, rank[i] = rank[k] PROVE i = k
    <3>1. ~Before(i, k) /\ ~Before(k, i)
      <4>. HIDE DEF rank
      <4>. QED
        BY <1>4, <2>2, <2>3
    <3>. QED
      BY <1>1, <3>1, SamplesAreOrdered
  <2>. HIDE DEF rank
  <2>. QED
    BY <2>1, <2>3 DEF Injection, IsInjective
<1>6. IsFiniteSet(0..(n - 1)) /\ Cardinality(0..(n - 1)) = n
  BY <1>1, FS_Interval
<1>7. rank \in Surjection(1..n, 0..(n - 1))
  <2>. HIDE DEF rank
  <2>. QED
    BY <1>2, <1>5, <1>6, FS_Injection
<1>8. n \div 2 \in 0..(n - 1)
  BY <1>1
<1>9. \E i \in 1..n : rank[i] = n \div 2
  <2>. HIDE DEF rank
  <2>. QED
    BY <1>7, <1>8 DEF Surjection
<1>. QED
  BY <1>1, <1>9 DEF MedianSample

\* No more than half of the samples are better than the median, or worse.
LEMMA MedianHalves ==
  ASSUME samples \in Seq(Rolls), Len(samples) = SampleCount
  PROVE  LET median == samples[MedianSample].total IN
         /\ 2 * Cardinality({ j \in 1..SampleCount : samples[j].total > median }) <= SampleCount
         /\ 2 * Cardinality({ j \in 1..SampleCount : samples[j].total < median }) <= SampleCount
<1>. DEFINE n == SampleCount
            m == MedianSample
            before == { j \in 1..n : Before(j, m) }
            rest == ((1..n) \ before) \ {m}
            better == { j \in 1..n : samples[j].total > samples[m].total }
            worse == { j \in 1..n : samples[j].total < samples[m].total }
<1>1. n \in Nat \ {0} /\ m \in 1..n /\ Cardinality(before) = n \div 2 /\ m \notin before
  BY AggregateAssumption, SomeMedian, SamplesAreOrdered
<1>2. \A i \in 1..n : samples[i].total \in Nat /\ i \in Nat
  BY <1>1, SamplesAreOrdered
<1>3. IsFiniteSet(1..n) /\ Cardinality(1..n) = n
  BY <1>1, FS_Interval
<1>4. worse \in SUBSET before /\ better \in SUBSET rest /\ before \in SUBSET (1..n)
  BY <1>1, <1>2 DEF Before
<1>. HIDE DEF before, better, worse
<1>5. IsFiniteSet(before)
  BY <1>3, <1>4, FS_Subset
<1>6. IsFiniteSet((1..n) \ before) /\ Cardinality((1..n) \ before) = n - n \div 2
  <2>1. Cardinality((1..n) \ before) = Cardinality(1..n) - Cardinality((1..n) \cap before)
    BY <1>3, FS_Difference
  <2>2. (1..n) \cap before = before
    BY <1>4
  <2>3. IsFiniteSet((1..n) \ before)
    BY <1>3, FS_Subset
  <2>. QED
    BY <1>1, <1>3, <2>1, <2>2, <2>3
<1>7. IsFiniteSet(rest) /\ Cardinality(rest) = n - n \div 2 - 1
  <2>1. m \in (1..n) \ before
    BY <1>1
  <2>. QED
    BY <1>6, <2>1, OneLess
<1>. HIDE DEF rest
<1>8. /\ Cardinality(worse) <= n \div 2 /\ Cardinality(worse) \in Nat
      /\ Cardinality(better) <= n - n \div 2 - 1 /\ Cardinality(better) \in Nat
  BY <1>1, <1>4, <1>5, <1>7, FS_Subset, FS_CardinalityType
<1>9. 2 * Cardinality(worse) <= n /\ 2 * Cardinality(better) <= n
  BY <1>1, <1>8
<1>. QED
  BY <1>9 DEF worse, better

\* Of an odd number of samples, one alone is never the majority, and all but one are.
LEMMA MajorityDecides ==
  ASSUME samples \in Seq(Rolls), Len(samples) = SampleCount, SampleCount >= 3,
         SampleCount % 2 = 1, NEW cause \in Causes
  PROVE  LET found == { j \in 1..SampleCount : cause \in samples[j].found } IN
         /\ Cardinality(found) = 1 => cause \notin MajorityFindings
         /\ Cardinality(found) = SampleCount - 1 => cause \in MajorityFindings
<1>. DEFINE found == { j \in 1..SampleCount : cause \in samples[j].found }
<1>1. SampleCount \in Nat /\ SampleCount # 1 /\ (SampleCount + 1) \div 2 \in Nat
      /\ (SampleCount + 1) \div 2 > 1 /\ (SampleCount + 1) \div 2 <= SampleCount - 1
  BY AggregateAssumption
<1>2. cause \in MajorityFindings <=>
        Cardinality(found) >= (SampleCount + 1) \div 2 /\ Cardinality(found) > 0
  BY <1>1 DEF MajorityFindings, Occurrences, Threshold
<1>. HIDE DEF found
<1>. QED
  BY <1>1, <1>2 DEF found

LEMMA SumIsSumOf == \A seq : Summed(seq) = SumOf(seq)
BY DEF Summed, SumOf

\* What a swap moves: more at the later place.
Gains(i, j, x, y) == \E d, e \in Nat : d < e /\ i * x = i * y + d /\ j * x = j * y + e

LEMMA SwapNumbers ==
  ASSUME NEW i \in Nat, NEW j \in Nat, NEW x \in Nat, NEW y \in Nat, i < j, y < x
  PROVE  Gains(i, j, x, y)
<1>1. PICK d \in Nat \ {0} : x = y + d
  <2>1. x - y \in Nat \ {0} /\ x = y + (x - y)
    OBVIOUS
  <2>. QED
    BY <2>1
<1>2. PICK e \in Nat \ {0} : j = i + e
  <2>1. j - i \in Nat \ {0} /\ j = i + (j - i)
    OBVIOUS
  <2>. QED
    BY <2>1
<1>3. i * x = i * y + i * d /\ j * x = j * y + j * d /\ j * d = i * d + e * d
  BY <1>1, <1>2
<1>4. i * d \in Nat /\ j * d \in Nat /\ e * d \in Nat \ {0}
  BY <1>1, <1>2
<1>5. i * d < j * d
  BY <1>3, <1>4
<1>. QED
  BY <1>3, <1>4, <1>5 DEF Gains

LEMMA NumbersInOrder ==
  ASSUME NEW n \in Nat, NEW f \in [1..n -> Nat]
  PROVE  f \in Seq(Nat) /\ Len(f) = n
OBVIOUS

Balanced(f, g, x, y) == (f + x) - (g + y) = (f - g) + (x - y)

LEMMA BothGrow ==
  ASSUME NEW f \in Nat, NEW g \in Nat, NEW x \in Nat, NEW y \in Nat
  PROVE  Balanced(f, g, x, y)
BY DEF Balanced

LEMMA Gap ==
  ASSUME NEW x \in Nat, NEW y \in Nat, NEW d \in Nat
  PROVE  x = y + d => x - y = d /\ y - x = 0 - d
OBVIOUS

\* Of two lists of numbers, the first has d more at i and e less at j.
Moves(v, w, i, j, d, e) ==
  /\ v[i] = w[i] + d /\ w[j] = v[j] + e
  /\ \A k \in 1..Len(v) : k \notin {i, j} => v[k] = w[k]

LEMMA SumsApart ==
  ASSUME NEW v \in Seq(Nat), NEW w \in Seq(Nat), NEW n \in Nat, Len(v) = n, Len(w) = n,
         NEW i \in Nat, NEW j \in Nat, 0 < i, i < j, j <= n,
         NEW d \in Nat, NEW e \in Nat, d < e, Moves(v, w, i, j, d, e)
  PROVE  SumOf(v) < SumOf(w)
<1>1. PICK f : Adds(f, v) /\ SumOf(v) = f[n]
  BY SumIsAFold
<1>2. PICK g : Adds(g, w) /\ SumOf(w) = g[n]
  BY SumIsAFold
<1>. DEFINE Apart(k) == IF k < i THEN 0 ELSE IF k < j THEN d ELSE d - e
            Moved(k) == IF k = i THEN d ELSE IF k = j THEN 0 - e ELSE 0
            S == {k \in 0..n : f[k] - g[k] = Apart(k)}
<1>3. \A k \in 0..n : f[k] \in Nat /\ g[k] \in Nat
  BY <1>1, <1>2 DEF Adds
<1>4. f[0] = 0 /\ g[0] = 0
  BY <1>1, <1>2 DEF Adds
<1>5. 0 \in S
  BY <1>4
<1>6. \A k \in 1..n : v[k] \in Nat /\ w[k] \in Nat
  BY ElementOfSeq
<1>7. ASSUME NEW k \in 1..n PROVE v[k] - w[k] = Moved(k)
  <2>1. v[k] \in Nat /\ w[k] \in Nat
    BY <1>6
  <2>2. CASE k = i
    BY <2>1, <2>2, Gap DEF Moves
  <2>3. CASE k = j
    <3>1. v[k] - w[k] = 0 - e
      BY <2>1, <2>3, Gap DEF Moves
    <3>. QED
      BY <2>3, <3>1
  <2>4. CASE k \notin {i, j}
    <3>1. v[k] = w[k]
      BY <2>4 DEF Moves
    <3>. QED
      BY <2>1, <2>4, <3>1
  <2>. QED
    BY <2>2, <2>3, <2>4
<1>8. ASSUME NEW k \in 0..n, k < n, k \in S PROVE k + 1 \in S
  <2>1. k + 1 \in 1..n /\ k + 1 \in 0..n /\ (k + 1) - 1 = k /\ k \in Nat
    BY <1>8
  <2>2. f[k + 1] = f[k] + v[k + 1] /\ g[k + 1] = g[k] + w[k + 1]
    BY <1>1, <1>2, <2>1 DEF Adds
  <2>3. f[k] \in Nat /\ g[k] \in Nat /\ v[k + 1] \in Nat /\ w[k + 1] \in Nat
    BY <1>3, <1>6, <2>1
  <2>4. f[k] - g[k] = Apart(k)
    BY <1>8
  <2>5. v[k + 1] - w[k + 1] = Moved(k + 1)
    <3>. HIDE DEF Moved
    <3>. QED
      BY <1>7, <2>1
  <2>6. Apart(k + 1) = Apart(k) + Moved(k + 1)
    BY <2>1
  <2>7. Apart(k) \in Int /\ Moved(k + 1) \in Int
    BY <2>1
  <2>. HIDE DEF Apart, Moved
  <2>8. (f[k] + v[k + 1]) - (g[k] + w[k + 1]) = Apart(k) + Moved(k + 1)
    <3>1. (f[k] + v[k + 1]) - (g[k] + w[k + 1]) = (f[k] - g[k]) + (v[k + 1] - w[k + 1])
      <4>1. Balanced(f[k], g[k], v[k + 1], w[k + 1])
        BY <2>3, BothGrow
      <4>. QED
        BY <4>1, Zenon DEF Balanced
    <3>. QED
      BY <2>4, <2>5, <3>1, Zenon
  <2>. QED
    BY <2>1, <2>2, <2>6, <2>8
<1>9. n \in S
  <2>1. n \in 0..n /\ 0..n = 0..n
    OBVIOUS
  <2>. HIDE DEF S
  <2>. QED
    BY <1>5, <1>8, <2>1, Climb
<1>10. f[n] - g[n] = d - e /\ f[n] \in Nat /\ g[n] \in Nat
  BY <1>3, <1>9
<1>11. f[n] < g[n]
  BY <1>10
<1>. QED
  BY <1>1, <1>2, <1>11

\* Two of the numbers change places, the larger one to the later place.
Swapped(a, b, i, j) ==
  /\ a[j] < a[i] /\ b[i] = a[j] /\ b[j] = a[i]
  /\ \A k \in 1..Len(a) : k \notin {i, j} => b[k] = a[k]

\* Linear weights: the worse of two later costs more.
LEMMA LaterWeighsMore ==
  ASSUME NEW a \in Seq(Nat), NEW b \in Seq(Nat), NEW n \in Nat, Len(a) = n, Len(b) = n,
         NEW i \in Nat, NEW j \in Nat, 0 < i, i < j, j <= n, Swapped(a, b, i, j)
  PROVE  WeightedTotal(a) < WeightedTotal(b)
<1>. DEFINE v == [k \in 1..n |-> k * a[k]]
            w == [k \in 1..n |-> k * b[k]]
<1>1. \A k \in 1..n : a[k] \in Nat /\ b[k] \in Nat /\ k \in Nat
  <2>1. \A k \in 1..Len(a) : a[k] \in Nat
    BY ElementOfSeq
  <2>2. \A k \in 1..Len(b) : b[k] \in Nat
    BY ElementOfSeq
  <2>. QED
    BY <2>1, <2>2
<1>2. \A k \in 1..n : k * a[k] \in Nat /\ k * b[k] \in Nat
  <2>1. \A x, y \in Nat : x * y \in Nat
    OBVIOUS
  <2>. QED
    BY <1>1, <2>1
<1>3. v \in [1..n -> Nat] /\ w \in [1..n -> Nat]
  BY <1>2
<1>4. /\ v[i] = i * a[i] /\ w[i] = i * a[j] /\ v[j] = j * a[j] /\ w[j] = j * a[i]
      /\ \A k \in 1..n : k \notin {i, j} => v[k] = w[k]
  <2>1. i \in 1..n /\ j \in 1..n /\ Len(a) = n
    OBVIOUS
  <2>2. /\ v[i] = i * a[i] /\ w[i] = i * b[i] /\ v[j] = j * a[j] /\ w[j] = j * b[j]
        /\ \A k \in 1..n : v[k] = k * a[k] /\ w[k] = k * b[k]
    BY <2>1
  <2>3. b[i] = a[j] /\ b[j] = a[i] /\ \A k \in 1..n : k \notin {i, j} => b[k] = a[k]
    BY <2>1 DEF Swapped
  <2>. HIDE DEF v, w
  <2>. QED
    BY <2>2, <2>3
<1>5. WeightedTotal(a) = SumOf(v) /\ WeightedTotal(b) = SumOf(w)
  BY SumIsSumOf DEF WeightedTotal, WeightOf
<1>. HIDE DEF v, w
<1>6. v \in Seq(Nat) /\ w \in Seq(Nat) /\ Len(v) = n /\ Len(w) = n
  BY <1>3, NumbersInOrder
<1>7. a[i] \in Nat /\ a[j] \in Nat /\ a[j] < a[i]
  BY <1>1 DEF Swapped
<1>8. PICK d \in Nat, e \in Nat : d < e /\ i * a[i] = i * a[j] + d /\ j * a[i] = j * a[j] + e
  <2>1. Gains(i, j, a[i], a[j])
    BY <1>7, SwapNumbers
  <2>. QED
    BY <2>1 DEF Gains
<1>9. Moves(v, w, i, j, d, e)
  BY <1>4, <1>6, <1>8, Zenon DEF Moves
<1>. QED
  BY <1>5, <1>6, <1>8, <1>9, SumsApart

\* A checkpoint that is over is typical of its samples and decided by most.
LEMMA CheckpointIsDecided ==
  ASSUME AggregateInv, FinishCheckpoint
  PROVE  AggregateInv'
<1>. DEFINE totals == [i \in 1..SampleCount |-> samples[i].total]
            over == [mean |-> Summed(totals), found |-> MajorityFindings,
                     median |-> samples[MedianSample].total, rolls |-> samples]
<1>1. /\ samples \in Seq(Rolls) /\ checkpoints \in Seq(Checkpoints) /\ Len(samples) = SampleCount
      /\ checkpoints' = Append(checkpoints, over) /\ samples' = <<>>
  BY DEF AggregateInv, FinishCheckpoint
<1>2. SampleCount \in Nat \ {0}
  BY AggregateAssumption
<1>3. \A i \in 1..SampleCount : samples[i] \in Rolls
  BY <1>1, ElementOfSeq
<1>4. Summed(totals) \in Nat
  <2>1. \A i \in 1..SampleCount : samples[i].total \in Nat
    BY <1>3 DEF Rolls
  <2>2. totals \in [1..SampleCount -> Nat]
    BY <2>1
  <2>. HIDE DEF totals
  <2>. QED
    BY <1>2, <2>2, NumbersInOrder, SumIsNat, SumIsSumOf
<1>5. samples[MedianSample].total \in Nat
  BY <1>1, <1>3, SomeMedian DEF Rolls
<1>6. MajorityFindings \in SUBSET Causes
  <2>1. samples[1].found \in SUBSET Causes
    BY <1>2, <1>3 DEF Rolls
  <2>. QED
    BY <2>1 DEF MajorityFindings
<1>7. over \in Checkpoints
  <2>. HIDE DEF totals
  <2>. QED
    BY <1>1, <1>4, <1>5, <1>6 DEF Checkpoints
<1>8. Typical(over)
  BY <1>1, MedianHalves DEF Typical
<1>9. Decided(over)
  BY <1>1, MajorityDecides DEF Decided
<1>. HIDE DEF over
<1>10. /\ checkpoints' \in Seq(Checkpoints) /\ Len(checkpoints') = Len(checkpoints) + 1
       /\ Len(checkpoints) \in Nat
       /\ \A i \in 1..Len(checkpoints) : checkpoints'[i] = checkpoints[i]
       /\ checkpoints'[Len(checkpoints) + 1] = over
  BY <1>1, <1>7, AppendProperties, LenProperties
<1>11. \A i \in 1..Len(checkpoints') : Typical(checkpoints'[i]) /\ Decided(checkpoints'[i])
  <2>1. ASSUME NEW i \in 1..Len(checkpoints'), i \notin 1..Len(checkpoints)
        PROVE  checkpoints'[i] = over
    BY <1>10, <2>1
  <2>2. \A i \in 1..Len(checkpoints) : Typical(checkpoints[i]) /\ Decided(checkpoints[i])
    BY DEF AggregateInv
  <2>. QED
    BY <1>8, <1>9, <1>10, <2>1, <2>2
<1>12. <<>> \in Seq(Rolls)
  OBVIOUS
<1>. QED
  BY <1>1, <1>10, <1>11, <1>12 DEF AggregateInv, Typical, Decided

LEMMA AggregateInductive == AggregateInv /\ [AggregateNext]_aggregateVars => AggregateInv'
<1>. SUFFICES ASSUME AggregateInv, [AggregateNext]_aggregateVars PROVE AggregateInv'
  OBVIOUS
<1>1. ASSUME NEW total \in SampleTotals, NEW found \in SUBSET Causes, RollSample(total, found)
      PROVE  AggregateInv'
  <2>1. [total |-> total, found |-> found] \in Rolls
    BY AggregateAssumption DEF Rolls
  <2>2. samples' \in Seq(Rolls)
    BY <1>1, <2>1, AppendProperties DEF AggregateInv, RollSample
  <2>3. checkpoints' = checkpoints
    BY <1>1 DEF RollSample
  <2>. QED
    BY <2>2, <2>3 DEF AggregateInv, Typical, Decided
<1>2. CASE UNCHANGED aggregateVars
  BY <1>2 DEF AggregateInv, aggregateVars, Typical, Decided
<1>. QED
  BY <1>1, <1>2, CheckpointIsDecided DEF AggregateNext

LEMMA AggregateInitInv == AggregateInit => AggregateInv
BY DEF AggregateInit, AggregateInv

LEMMA LateFailuresCost == ASSUME AggregateInv PROVE LateFailuresCostMore
<1>. DEFINE n == Len(checkpoints)
            means == [i \in 1..n |-> checkpoints[i].mean]
<1>1. n \in Nat /\ \A i \in 1..n : checkpoints[i].mean \in Nat
  <2>1. n \in Nat /\ \A i \in 1..n : checkpoints[i] \in Checkpoints
    BY LenProperties, ElementOfSeq DEF AggregateInv
  <2>. QED
    BY <2>1 DEF Checkpoints
<1>2. means \in [1..n -> Nat]
  BY <1>1
<1>. HIDE DEF means
<1>3. means \in Seq(Nat) /\ Len(means) = n
  BY <1>1, <1>2, NumbersInOrder
<1>4. ASSUME NEW i \in 1..n, NEW j \in 1..n, i < j, means[i] > means[j]
      PROVE  WeightedTotal(means) < WeightedTotal([means EXCEPT ![i] = means[j], ![j] = means[i]])
  <2>. DEFINE worse == [means EXCEPT ![i] = means[j], ![j] = means[i]]
  <2>1. i \in Nat /\ j \in Nat /\ 0 < i /\ j <= n /\ i # j
    BY <1>1, <1>4
  <2>2. worse \in [1..n -> Nat]
    BY <1>2
  <2>3. /\ worse[i] = means[j] /\ worse[j] = means[i]
        /\ \A k \in 1..n : k \notin {i, j} => worse[k] = means[k]
    BY <1>2, <2>1
  <2>4. means[j] < means[i]
    BY <1>2, <1>4
  <2>. HIDE DEF worse
  <2>5. worse \in Seq(Nat) /\ Len(worse) = n
    BY <1>1, <2>2, NumbersInOrder
  <2>6. Swapped(means, worse, i, j)
    BY <1>3, <2>3, <2>4, Zenon DEF Swapped
  <2>7. WeightedTotal(means) < WeightedTotal(worse)
    BY <1>1, <1>3, <1>4, <2>1, <2>5, <2>6, LaterWeighsMore
  <2>. QED
    BY <2>7 DEF worse
<1>. QED
  BY <1>3, <1>4 DEF LateFailuresCostMore, means

\* What a finished checkpoint shows, shares and weighs.
LEMMA AggregatesAreFair ==
  ASSUME AggregateInv
  PROVE  MedianIsTypical /\ OneRollDecidesNothing /\ LateFailuresCostMore
<1>1. \A i \in 1..Len(checkpoints) : Typical(checkpoints[i]) /\ Decided(checkpoints[i])
  BY DEF AggregateInv
<1>2. MedianIsTypical
  BY <1>1 DEF MedianIsTypical, Typical
<1>3. OneRollDecidesNothing
  BY <1>1 DEF OneRollDecidesNothing, Decided
<1>. QED
  BY <1>2, <1>3, LateFailuresCost

-----------------------------------------------------------------------------
(* Scores and findings                                                     *)

Outcomes == {"unprobed", "errored", "satisfied", "unsatisfied"}
Probes == [e : Expectations, outcome : Outcomes]
Tallies == [present : Nat, presentOf : Nat, worded : Nat, wordedOf : Nat,
            forgotten : Nat, forgottenOf : Nat, errors : Nat, probes : Nat]

\* Of the terms of a weight as many are there, or all of them.
Covered(x, of) == x <= Whole * of
Full(x, of) == x = Whole * of

Accounted(t) ==
  /\ t.present <= t.presentOf /\ t.forgotten <= t.forgottenOf
  /\ Covered(t.worded, t.wordedOf) /\ t.errors <= t.probes

Flawless(t) ==
  /\ t.present = t.presentOf /\ t.forgotten = t.forgottenOf
  /\ Full(t.worded, t.wordedOf) /\ t.errors = 0

\* Alike but for what is counted of errors.
Alike(t, u) ==
  /\ t.present = u.present /\ t.presentOf = u.presentOf
  /\ t.worded = u.worded /\ t.wordedOf = u.wordedOf
  /\ t.forgotten = u.forgotten /\ t.forgottenOf = u.forgottenOf

\* The tallies of a rubric without its errored probes.
Rests(f, list) ==
  f = [n \in 0..Len(list) |->
         IF n = 0 THEN NoTally
         ELSE IF list[n].outcome = "errored" THEN f[n - 1]
         ELSE Tallied(f[n - 1], list[n].e, list[n].outcome)]

Blameless(i) == Found(seen[i].e, seen[i].outcome, FALSE, i) = {}

Recorded ==
  scored =>
    /\ result.total = Scored(tally, result.verdict, result.health, result.late, result.dear)
    /\ findings = Harness(result.verdict, result.late, result.dear)
         \cup (IF result.fell THEN {[kind |-> "JudgeError", about |-> 0]} ELSE {})
    /\ result.late \in Nat /\ result.dear \in Nat

ScoreInv ==
  /\ sheet.required \in Wordings /\ sheet.forbidden \in Wordings
  /\ seen \in Seq(Probes) /\ Len(seen) <= MaxExpectations
  /\ tally \in Tallies /\ Accounted(tally) /\ tally.probes <= Len(seen)
  /\ Flawless(tally) <=> \A i \in 1..Len(seen) : Blameless(i)
  /\ \E f : Rests(f, seen) /\ Alike(f[Len(seen)], tally)
  /\ Recorded

\* A quotient of what is short of a product.
LEMMA Quotients ==
  ASSUME NEW w \in Nat, NEW t \in Nat \ {0}, NEW a \in Nat, a <= w * t
  PROVE  a \div t \in 0..w /\ (a \div t = w <=> a = w * t) /\ (a \div t = 0 <=> a < t)
<1>. DEFINE q == a \div t
<1>1. q \in Nat /\ t * q <= a /\ a < t * q + t
  OBVIOUS
<1>. HIDE DEF q
<1>2. q <= w
  <2>1. SUFFICES ASSUME q > w PROVE FALSE
    BY <1>1
  <2>2. PICK k \in Nat : q = w + 1 + k
    <3>1. q - (w + 1) \in Nat /\ q = w + 1 + (q - (w + 1))
      BY <1>1, <2>1
    <3>. QED
      BY <3>1
  <2>3. t * q = w * t + t + t * k /\ t * k \in Nat /\ w * t \in Nat
    BY <2>2
  <2>. QED
    BY <1>1, <2>3
<1>3. q = w <=> a = w * t
  <2>1. CASE q = w
    BY <1>1, <2>1
  <2>2. CASE q < w
    <3>1. PICK k \in Nat : w = q + 1 + k
      <4>1. w - (q + 1) \in Nat /\ w = q + 1 + (w - (q + 1))
        BY <1>1, <2>2
      <4>. QED
        BY <4>1
    <3>2. w * t = t * q + t + t * k /\ t * k \in Nat /\ t * q \in Nat
      BY <1>1, <3>1
    <3>. QED
      BY <1>1, <2>2, <3>2
  <2>. QED
    BY <1>1, <1>2, <2>1, <2>2
<1>4. q = 0 <=> a < t
  <2>1. CASE q = 0
    BY <1>1, <2>1
  <2>2. CASE q > 0
    <3>1. PICK k \in Nat : q = 1 + k
      <4>1. q - 1 \in Nat /\ q = 1 + (q - 1)
        BY <1>1, <2>2
      <4>. QED
        BY <4>1
    <3>2. t * q = t + t * k /\ t * k \in Nat
      BY <3>1
    <3>. QED
      BY <1>1, <2>2, <3>2
  <2>. QED
    BY <1>1, <2>1, <2>2
<1>. QED
  BY <1>1, <1>2, <1>3, <1>4 DEF q

\* A share of a whole is whole for all of it, and nothing for nothing.
LEMMA Shares ==
  ASSUME NEW p \in Nat, NEW t \in Nat \ {0}, p <= t
  PROVE  /\ (Whole * p) \div t \in 0..Whole
         /\ (Whole * p) \div t = Whole <=> p = t
         /\ t <= Whole => ((Whole * p) \div t = 0 <=> p = 0)
<1>1. Whole \in Nat \ {0}
  BY ScoreAssumption
<1>2. PICK r \in Nat : t = p + r
  <2>1. t - p \in Nat /\ t = p + (t - p)
    OBVIOUS
  <2>. QED
    BY <2>1
<1>3. Whole * t = Whole * p + Whole * r /\ Whole * p \in Nat /\ Whole * r \in Nat
  BY <1>1, <1>2
<1>4. Whole * r = 0 <=> r = 0
  <2>1. CASE r = 0
    BY <1>1, <2>1
  <2>2. CASE r > 0
    <3>1. Whole * r >= Whole
      BY <1>1, <2>2
    <3>. QED
      BY <1>1, <2>2, <3>1
  <2>. QED
    BY <2>1, <2>2
<1>5. p > 0 => Whole * p >= Whole
  BY <1>1
<1>6. p = 0 => Whole * p = 0
  BY <1>1
<1>. DEFINE wp == Whole * p   wt == Whole * t   wr == Whole * r
<1>7. /\ wp \div t \in 0..Whole /\ (wp \div t = Whole <=> wp = wt)
      /\ (wp \div t = 0 <=> wp < t)
  BY <1>1, <1>3, Quotients
<1>8. /\ wt = wp + wr /\ wp \in Nat /\ wr \in Nat /\ (wr = 0 <=> r = 0)
      /\ (p > 0 => wp >= Whole) /\ (p = 0 => wp = 0)
  BY <1>3, <1>4, <1>5, <1>6
<1>9. wp \div t \in Nat
  BY <1>1, <1>7
<1>. HIDE DEF wp, wt, wr
<1>10. wp = wt <=> p = t
  BY <1>2, <1>8
<1>11. t <= Whole => (wp < t <=> p = 0)
  BY <1>1, <1>8
<1>12. /\ wp \div t \in 0..Whole /\ (wp \div t = Whole <=> p = t)
       /\ (t <= Whole => (wp \div t = 0 <=> p = 0))
  BY <1>7, <1>10, <1>11, Zenon
<1>. QED
  BY <1>12 DEF wp

LEMMA Fractions ==
  ASSUME NEW w \in Wordings
  PROVE  /\ Fraction(w) \in 0..Whole /\ w.terms \in Nat /\ w.present \in Nat
         /\ Fraction(w) = Whole <=> ~(w.present < w.terms)
         /\ w.terms > 0 => (Fraction(w) = 0 <=> ~(w.present > 0))
         /\ w.terms = 0 => w.present = 0
<1>1. /\ w.terms \in Nat /\ w.present \in Nat /\ w.present <= w.terms /\ w.terms <= Whole
      /\ Whole \in Nat \ {0}
  <2>1. w.terms \in 0..Whole /\ w.present \in 0..w.terms /\ Whole \in Nat \ {0}
    BY ScoreAssumption
  <2>. DEFINE terms == w.terms   present == w.present
  <2>2. terms \in 0..Whole /\ present \in 0..terms /\ Whole \in Nat \ {0}
    BY <2>1
  <2>. HIDE DEF terms, present
  <2>3. terms \in Nat /\ present \in Nat /\ present <= terms /\ terms <= Whole /\ Whole \in Nat \ {0}
    BY <2>2
  <2>. QED
    BY <2>3 DEF terms, present
<1>2. CASE w.terms = 0
  BY <1>1, <1>2 DEF Fraction
<1>3. CASE w.terms > 0
  <2>. DEFINE share == (Whole * w.present) \div w.terms
  <2>1. /\ share \in 0..Whole /\ (share = Whole <=> w.present = w.terms)
        /\ (share = 0 <=> w.present = 0)
    BY <1>1, <1>3, Shares
  <2>2. Fraction(w) = share
    BY <1>1, <1>3 DEF Fraction
  <2>. HIDE DEF share
  <2>. QED
    BY <1>1, <1>3, <2>1, <2>2
<1>. QED
  BY <1>1, <1>2, <1>3

\* A weight more keeps what is covered and full as it is, when it is full.
LEMMA Covers ==
  ASSUME NEW x \in Nat, NEW of \in Nat, NEW w \in Nat, NEW share \in 0..Whole, Covered(x, of)
  PROVE  /\ x + w * share \in Nat /\ Covered(x + w * share, of + w)
         /\ Full(x + w * share, of + w) <=> Full(x, of) /\ (w = 0 \/ share = Whole)
<1>1. Whole \in Nat \ {0}
  BY ScoreAssumption
<1>2. PICK rest \in Nat : Whole = share + rest
  <2>1. Whole - share \in Nat /\ Whole = share + (Whole - share)
    BY <1>1
  <2>. QED
    BY <2>1
<1>3. /\ Whole * (of + w) = Whole * of + (w * share + w * rest)
      /\ Whole * of \in Nat /\ w * share \in Nat /\ w * rest \in Nat
  BY <1>1, <1>2
<1>4. w * rest = 0 <=> w = 0 \/ rest = 0
  <2>1. CASE w = 0 \/ rest = 0
    BY <1>2, <2>1
  <2>2. CASE w > 0 /\ rest > 0
    <3>1. w * rest >= w
      BY <1>2, <2>2
    <3>. QED
      BY <1>2, <2>2, <3>1
  <2>. QED
    BY <1>2, <2>1, <2>2
<1>5. rest = 0 <=> share = Whole
  BY <1>1, <1>2
<1>. DEFINE more == w * share   less == w * rest   all == Whole * of
<1>6. /\ Whole * (of + w) = all + (more + less) /\ all \in Nat /\ more \in Nat /\ less \in Nat
      /\ (less = 0 <=> w = 0 \/ share = Whole) /\ x <= all
  BY <1>3, <1>4, <1>5 DEF Covered
<1>7. Full(x, of) <=> x = all
  BY DEF Full
<1>8. Covered(x + more, of + w) <=> x + more <= all + (more + less)
  <2>. HIDE DEF all, more, less
  <2>. QED
    BY <1>6 DEF Covered
<1>9. Full(x + more, of + w) <=> x + more = all + (more + less)
  <2>. HIDE DEF all, more, less
  <2>. QED
    BY <1>6 DEF Full
<1>. HIDE DEF all, more, less
<1>10. x + more \in Nat /\ x + more <= all + (more + less)
  BY <1>6
<1>11. x + more = all + (more + less) <=> x = all /\ less = 0
  BY <1>6
<1>12. /\ x + more \in Nat /\ Covered(x + more, of + w)
       /\ Full(x + more, of + w) <=> Full(x, of) /\ (w = 0 \/ share = Whole)
  BY <1>6, <1>7, <1>8, <1>9, <1>10, <1>11
<1>. QED
  BY <1>12 DEF more

\* What an expectation adds, field by field.
LEMMA TallyFields ==
  ASSUME NEW t, NEW e, NEW fate
  PROVE  LET If(holds, n) == IF holds THEN n ELSE 0
             present == fate # "errored" /\ e.mode = "ShouldExist"
             absent  == fate # "errored" /\ e.mode = "ShouldNotExist"
             kept    == fate \in {"satisfied", "unprobed"}
             u == Tallied(t, e, fate)
         IN  /\ u.present = t.present + If(present /\ kept, e.weight)
             /\ u.presentOf = t.presentOf + If(present, e.weight)
             /\ u.worded = t.worded + If(present, WordedWeight(e)) * Fraction(e.wording)
             /\ u.wordedOf = t.wordedOf + If(present, WordedWeight(e))
             /\ u.forgotten = t.forgotten + If(absent /\ kept, e.weight)
             /\ u.forgottenOf = t.forgottenOf + If(absent, e.weight)
             /\ u.errors = t.errors + If(fate = "errored", 1)
             /\ u.probes = t.probes + If(fate # "unprobed", 1)
             /\ u = [present |-> u.present, presentOf |-> u.presentOf, worded |-> u.worded,
                     wordedOf |-> u.wordedOf, forgotten |-> u.forgotten,
                     forgottenOf |-> u.forgottenOf, errors |-> u.errors, probes |-> u.probes]
BY DEF Tallied, Excluded

\* One more expectation: its tally stays flawless exactly when nothing is found.
LEMMA TallyStep ==
  ASSUME NEW t \in Tallies, Accounted(t), NEW e \in Expectations, NEW fate \in Outcomes, NEW i
  PROVE  LET u == Tallied(t, e, fate) IN
         /\ u \in Tallies /\ Accounted(u) /\ u.probes <= t.probes + 1
         /\ Flawless(u) <=> Flawless(t) /\ Found(e, fate, FALSE, i) = {}
<1>. DEFINE u == Tallied(t, e, fate)
            w == WordedWeight(e)
            share == Fraction(e.wording)
<1>1. /\ t.present \in Nat /\ t.presentOf \in Nat /\ t.worded \in Nat /\ t.wordedOf \in Nat
      /\ t.forgotten \in Nat /\ t.forgottenOf \in Nat /\ t.errors \in Nat /\ t.probes \in Nat
  BY DEF Tallies
<1>2. /\ e.mode \in {"ShouldExist", "ShouldNotExist"} /\ e.weight \in Nat \ {0}
      /\ e.wording \in Wordings
  BY ScoreAssumption DEF Expectations
<1>3. /\ share \in 0..Whole /\ (share = Whole <=> ~(e.wording.present < e.wording.terms))
      /\ e.wording.terms \in Nat /\ e.wording.present \in Nat
      /\ (e.wording.terms = 0 => e.wording.present = 0)
  BY <1>2, Fractions
<1>4. w \in Nat /\ (w = 0 <=> ~(e.mode = "ShouldExist" /\ e.wording.terms > 0))
  BY <1>2, <1>3 DEF WordedWeight
<1>5. 0 * share = 0 /\ Whole \in Nat
  BY <1>3, ScoreAssumption
<1>. HIDE DEF w, share
<1>6. CASE fate = "errored"
  <2>1. /\ u.present = t.present /\ u.presentOf = t.presentOf /\ u.wordedOf = t.wordedOf
        /\ u.forgotten = t.forgotten /\ u.forgottenOf = t.forgottenOf /\ u.worded = t.worded
        /\ u.errors = t.errors + 1 /\ u.probes = t.probes + 1
    BY <1>1, <1>5, <1>6, TallyFields DEF share
  <2>2. u = [present |-> u.present, presentOf |-> u.presentOf, worded |-> u.worded,
             wordedOf |-> u.wordedOf, forgotten |-> u.forgotten,
             forgottenOf |-> u.forgottenOf, errors |-> u.errors, probes |-> u.probes]
    BY TallyFields
  <2>3. Found(e, fate, FALSE, i) # {}
    BY <1>6 DEF Found, Excluded
  <2>. HIDE DEF u
  <2>4. u \in Tallies
    BY <1>1, <2>1, <2>2 DEF Tallies
  <2>5. Accounted(u) /\ u.probes <= t.probes + 1 /\ ~Flawless(u)
    BY <1>1, <2>1 DEF Accounted, Flawless
  <2>. QED
    BY <2>3, <2>4, <2>5 DEF u
<1>7. CASE fate # "errored" /\ e.mode = "ShouldNotExist"
  <2>. DEFINE got == IF fate = "unsatisfied" THEN 0 ELSE e.weight
  <2>1. /\ u.present = t.present /\ u.presentOf = t.presentOf /\ u.wordedOf = t.wordedOf
        /\ u.forgotten = t.forgotten + got /\ u.forgottenOf = t.forgottenOf + e.weight
        /\ u.worded = t.worded /\ u.errors = t.errors
        /\ (u.probes = t.probes \/ u.probes = t.probes + 1)
    BY <1>1, <1>2, <1>5, <1>7, TallyFields DEF share, Outcomes
  <2>2. u = [present |-> u.present, presentOf |-> u.presentOf, worded |-> u.worded,
             wordedOf |-> u.wordedOf, forgotten |-> u.forgotten,
             forgottenOf |-> u.forgottenOf, errors |-> u.errors, probes |-> u.probes]
    BY TallyFields
  <2>3. Found(e, fate, FALSE, i) = {} <=> fate # "unsatisfied"
    BY <1>7 DEF Found, Excluded
  <2>4. got \in Nat /\ got <= e.weight /\ (got = e.weight <=> fate # "unsatisfied")
    BY <1>2
  <2>. HIDE DEF u, got
  <2>5. u \in Tallies
    BY <1>1, <1>2, <2>1, <2>2, <2>4 DEF Tallies
  <2>6. Accounted(u) /\ u.probes <= t.probes + 1
    BY <1>1, <1>2, <2>1, <2>4 DEF Accounted
  <2>7. u.forgotten = u.forgottenOf <=> t.forgotten = t.forgottenOf /\ fate # "unsatisfied"
    BY <1>1, <1>2, <2>1, <2>4 DEF Accounted
  <2>8. Flawless(u) <=> Flawless(t) /\ fate # "unsatisfied"
    BY <2>1, <2>7 DEF Flawless
  <2>. QED
    BY <2>3, <2>5, <2>6, <2>8 DEF u
<1>8. CASE fate # "errored" /\ e.mode = "ShouldExist"
  <2>. DEFINE got == IF fate = "unsatisfied" THEN 0 ELSE e.weight
              x == t.worded + w * share
  <2>1. /\ u.present = t.present + got /\ u.presentOf = t.presentOf + e.weight
        /\ u.worded = x /\ u.wordedOf = t.wordedOf + w
        /\ u.forgotten = t.forgotten /\ u.forgottenOf = t.forgottenOf /\ u.errors = t.errors
        /\ (u.probes = t.probes \/ u.probes = t.probes + 1)
    BY <1>1, <1>2, <1>8, TallyFields DEF share, Outcomes, w
  <2>2. u = [present |-> u.present, presentOf |-> u.presentOf, worded |-> u.worded,
             wordedOf |-> u.wordedOf, forgotten |-> u.forgotten,
             forgottenOf |-> u.forgottenOf, errors |-> u.errors, probes |-> u.probes]
    BY TallyFields
  <2>3. Found(e, fate, FALSE, i) = {}
          <=> fate # "unsatisfied" /\ ~(e.wording.present < e.wording.terms)
    BY <1>8 DEF Found, Excluded
  <2>4. got \in Nat /\ got <= e.weight /\ (got = e.weight <=> fate # "unsatisfied")
    BY <1>2
  <2>5. /\ x \in Nat /\ Covered(x, t.wordedOf + w)
        /\ Full(x, t.wordedOf + w) <=> Full(t.worded, t.wordedOf) /\ (w = 0 \/ share = Whole)
    BY <1>1, <1>3, <1>4, Covers DEF Accounted
  <2>6. w = 0 \/ share = Whole <=> ~(e.wording.present < e.wording.terms)
    BY <1>3, <1>4, <1>8
  <2>. HIDE DEF u, got, x
  <2>7. u \in Tallies
    BY <1>1, <1>2, <1>4, <2>1, <2>2, <2>4, <2>5 DEF Tallies
  <2>8. /\ Covered(u.worded, u.wordedOf)
        /\ Full(u.worded, u.wordedOf) <=>
             Full(t.worded, t.wordedOf) /\ ~(e.wording.present < e.wording.terms)
    BY <2>1, <2>5, <2>6
  <2>9. Accounted(u) /\ u.probes <= t.probes + 1
    BY <1>1, <1>2, <2>1, <2>4, <2>8 DEF Accounted
  <2>10. u.present = u.presentOf <=> t.present = t.presentOf /\ fate # "unsatisfied"
    BY <1>1, <1>2, <2>1, <2>4 DEF Accounted
  <2>11. Flawless(u) <=> /\ Flawless(t) /\ fate # "unsatisfied"
                         /\ ~(e.wording.present < e.wording.terms)
    BY <2>1, <2>8, <2>10 DEF Flawless
  <2>. QED
    BY <2>3, <2>7, <2>9, <2>11 DEF u
<1>. QED
  BY <1>2, <1>6, <1>7, <1>8

\* Tallies that are alike stay alike, and an errored probe makes no difference.
LEMMA AlikeStep ==
  ASSUME NEW r, NEW t \in Tallies, Alike(r, t), NEW e \in Expectations, NEW fate \in Outcomes
  PROVE  /\ fate # "errored" => Alike(Tallied(r, e, fate), Tallied(t, e, fate))
         /\ fate = "errored" => Alike(r, Tallied(t, e, fate))
<1>1. /\ t.present \in Nat /\ t.presentOf \in Nat /\ t.worded \in Nat /\ t.wordedOf \in Nat
      /\ t.forgotten \in Nat /\ t.forgottenOf \in Nat
  BY DEF Tallies
<1>2. fate # "errored" => Alike(Tallied(r, e, fate), Tallied(t, e, fate))
  <2>. DEFINE words == (IF fate # "errored" /\ e.mode = "ShouldExist" THEN WordedWeight(e) ELSE 0)
                        * Fraction(e.wording)
  <2>. HIDE DEF words
  <2>1. \A x : Tallied(x, e, fate).worded = x.worded + words
    BY TallyFields DEF words
  <2>. QED
    BY <2>1, TallyFields DEF Alike
<1>3. Fraction(e.wording) \in Nat
  <2>1. e.wording \in Wordings /\ Whole \in Nat
    BY ScoreAssumption DEF Expectations
  <2>. QED
    BY <2>1, Fractions
<1>4. ASSUME fate = "errored" PROVE Alike(r, Tallied(t, e, fate))
  <2>. DEFINE share == Fraction(e.wording)
  <2>1. 0 * share = 0 /\ share \in Nat
    BY <1>3
  <2>. HIDE DEF share
  <2>2. LET u == Tallied(t, e, fate) IN
        /\ u.present = t.present /\ u.presentOf = t.presentOf /\ u.wordedOf = t.wordedOf
        /\ u.forgotten = t.forgotten /\ u.forgottenOf = t.forgottenOf /\ u.worded = t.worded
    BY <1>1, <1>4, <2>1, TallyFields DEF share
  <2>. QED
    BY <2>2 DEF Alike
<1>. QED
  BY <1>2, <1>4

LEMMA RestsGrow ==
  ASSUME NEW list \in Seq(Probes), NEW x \in Probes, NEW f, Rests(f, list),
         NEW t \in Tallies, Alike(f[Len(list)], t)
  PROVE  \E g : /\ Rests(g, Append(list, x))
                /\ Alike(g[Len(list) + 1], Tallied(t, x.e, x.outcome))
<1>. DEFINE n == Len(list)
            more == Append(list, x)
            last == IF x.outcome = "errored" THEN f[n] ELSE Tallied(f[n], x.e, x.outcome)
            g == [k \in 0..(n + 1) |-> IF k = n + 1 THEN last ELSE f[k]]
<1>1. n \in Nat
  BY LenProperties
<1>2. /\ Len(more) = n + 1 /\ more[n + 1] = x
      /\ \A k \in 1..n : more[k] = list[k]
  BY AppendProperties
<1>3. x.e \in Expectations /\ x.outcome \in Outcomes
  BY DEF Probes
<1>4. \A k \in 0..n : f[k] = IF k = 0 THEN NoTally
                             ELSE IF list[k].outcome = "errored" THEN f[k - 1]
                             ELSE Tallied(f[k - 1], list[k].e, list[k].outcome)
  BY DEF Rests
<1>. HIDE DEF more
<1>5. ASSUME NEW k \in 0..(n + 1)
      PROVE  g[k] = IF k = 0 THEN NoTally
                    ELSE IF more[k].outcome = "errored" THEN g[k - 1]
                    ELSE Tallied(g[k - 1], more[k].e, more[k].outcome)
  <2>. DEFINE h == g
  <2>1. /\ h[n + 1] = last /\ \A m \in 0..n : h[m] = f[m]
    BY <1>1
  <2>. HIDE DEF h
  <2>2. CASE k = n + 1
    <3>1. k # 0 /\ k - 1 = n /\ n \in 0..n
      BY <1>1, <2>2
    <3>2. more[k] = x /\ h[k - 1] = f[n] /\ h[k] = last
      BY <1>2, <2>1, <2>2, <3>1
    <3>3. h[k] = IF k = 0 THEN NoTally
                 ELSE IF more[k].outcome = "errored" THEN h[k - 1]
                 ELSE Tallied(h[k - 1], more[k].e, more[k].outcome)
      BY <3>1, <3>2
    <3>. QED
      BY <3>3 DEF h
  <2>3. CASE k = 0
    <3>1. h[k] = f[0] /\ f[0] = NoTally
      BY <1>1, <1>4, <2>1, <2>3
    <3>. QED
      BY <2>3, <3>1 DEF h
  <2>4. CASE k \in 1..n
    <3>1. k \in 0..n /\ k - 1 \in 0..n /\ k # 0
      BY <1>1, <2>4
    <3>2. more[k] = list[k] /\ h[k] = f[k] /\ h[k - 1] = f[k - 1]
      BY <1>2, <2>1, <2>4, <3>1
    <3>3. h[k] = IF k = 0 THEN NoTally
                 ELSE IF more[k].outcome = "errored" THEN h[k - 1]
                 ELSE Tallied(h[k - 1], more[k].e, more[k].outcome)
      BY <1>4, <3>1, <3>2
    <3>. QED
      BY <3>3 DEF h
  <2>. QED
    BY <1>1, <2>2, <2>3, <2>4
<1>6. g[n + 1] = last
  BY <1>1
<1>7. Rests(g, more)
  <2>1. g = [k \in 0..(n + 1) |-> g[k]]
    OBVIOUS
  <2>. HIDE DEF g
  <2>2. g = [k \in 0..(n + 1) |->
               IF k = 0 THEN NoTally
               ELSE IF more[k].outcome = "errored" THEN g[k - 1]
               ELSE Tallied(g[k - 1], more[k].e, more[k].outcome)]
    BY <1>5, <2>1
  <2>. QED
    BY <1>2, <2>2 DEF Rests
<1>8. Alike(last, Tallied(t, x.e, x.outcome))
  BY <1>3, AlikeStep
<1>. HIDE DEF g, last
<1>9. Rests(g, more) /\ Alike(g[n + 1], Tallied(t, x.e, x.outcome))
  BY <1>6, <1>7, <1>8
<1>. QED
  BY <1>9 DEF more

LEMMA RestsAgree ==
  ASSUME NEW list, Len(list) \in Nat, NEW f, NEW g, Rests(f, list), Rests(g, list)
  PROVE  f[Len(list)] = g[Len(list)]
<1>. DEFINE n == Len(list)
            S == {k \in 0..n : f[k] = g[k]}
<1>1. 0 \in S
  BY DEF Rests
<1>2. ASSUME NEW k \in 0..n, k < n, k \in S PROVE k + 1 \in S
  <2>1. k + 1 \in 0..n /\ k + 1 # 0 /\ (k + 1) - 1 = k /\ f[k] = g[k]
    BY <1>2
  <2>. DEFINE m == k + 1
  <2>2. /\ f[m] = IF list[m].outcome = "errored" THEN f[k]
                  ELSE Tallied(f[k], list[m].e, list[m].outcome)
        /\ g[m] = IF list[m].outcome = "errored" THEN g[k]
                  ELSE Tallied(g[k], list[m].e, list[m].outcome)
    BY <2>1 DEF Rests
  <2>3. f[m] = g[m]
    BY <2>1, <2>2
  <2>. QED
    BY <2>1, <2>3
<1>3. n \in 0..n
  OBVIOUS
<1>. HIDE DEF S
<1>4. n \in S
  BY <1>1, <1>2, <1>3, Climb
<1>. QED
  BY <1>4 DEF S

LEMMA ProbedIsOutcome ==
  ASSUME NEW e, NEW llm, NEW reply, NEW opinion
  PROVE  Probed(e, llm, reply, opinion) \in Outcomes
BY DEF Probed, Outcomes, Verdict

LEMMA ExpectScore ==
  ASSUME ScoreInv, NEW e \in Expectations, NEW reply, NEW opinion, Expect(e, reply, opinion)
  PROVE  ScoreInv'
<1>. DEFINE fate == Probed(e, sheet.llm, reply, opinion)
            x == [e |-> e, outcome |-> fate]
            n == Len(seen)
<1>1. /\ seen' = Append(seen, x) /\ tally' = Tallied(tally, e, fate)
      /\ result = Unscored /\ UNCHANGED <<sheet, findings, result>> /\ n < MaxExpectations
  BY DEF Expect
<1>2. fate \in Outcomes
  BY ProbedIsOutcome
<1>. HIDE DEF fate
<1>3. x \in Probes /\ x.e = e /\ x.outcome = fate
  BY <1>2 DEF Probes
<1>. HIDE DEF x
<1>4. /\ seen \in Seq(Probes) /\ n \in Nat /\ n <= MaxExpectations /\ MaxExpectations \in Nat
      /\ tally \in Tallies /\ Accounted(tally) /\ tally.probes <= n
  BY LenProperties, ScoreAssumption DEF ScoreInv
<1>5. /\ seen' \in Seq(Probes) /\ Len(seen') = n + 1 /\ seen'[n + 1] = x
      /\ \A i \in 1..n : seen'[i] = seen[i]
  BY <1>1, <1>3, <1>4, AppendProperties
<1>6. /\ tally' \in Tallies /\ Accounted(tally') /\ tally'.probes <= tally.probes + 1
      /\ Flawless(tally') <=> Flawless(tally) /\ Found(e, fate, FALSE, n + 1) = {}
  BY <1>1, <1>2, <1>4, TallyStep
<1>7. tally'.probes <= Len(seen') /\ Len(seen') <= MaxExpectations
  <2>1. tally'.probes \in Nat /\ tally.probes \in Nat
    BY <1>4, <1>6 DEF Tallies
  <2>. QED
    BY <1>1, <1>4, <1>5, <1>6, <2>1
<1>8. Flawless(tally') <=> \A i \in 1..Len(seen') : Blameless(i)'
  <2>1. \A i \in 1..n : Blameless(i)' <=> Blameless(i)
    BY <1>5 DEF Blameless
  <2>2. \A i : i = n + 1 => (Blameless(i)' <=> Found(e, fate, FALSE, n + 1) = {})
    BY <1>3, <1>5 DEF Blameless
  <2>3. Flawless(tally) <=> \A i \in 1..n : Blameless(i)
    BY DEF ScoreInv
  <2>4. 1..Len(seen') = (1..n) \cup {n + 1}
    BY <1>4, <1>5
  <2>. QED
    BY <1>6, <2>1, <2>2, <2>3, <2>4
<1>9. \E f : Rests(f, seen') /\ Alike(f[Len(seen')], tally')
  <2>1. PICK f : Rests(f, seen) /\ Alike(f[n], tally)
    BY DEF ScoreInv
  <2>2. \E g : Rests(g, Append(seen, x)) /\ Alike(g[n + 1], Tallied(tally, x.e, x.outcome))
    BY <1>3, <1>4, <2>1, RestsGrow
  <2>. QED
    BY <1>1, <1>3, <1>5, <2>2
<1>10. Recorded'
  BY <1>1 DEF Recorded, scored
<1>11. sheet'.required \in Wordings /\ sheet'.forbidden \in Wordings
  BY <1>1 DEF ScoreInv
<1>. QED
  BY <1>5, <1>6, <1>7, <1>8, <1>9, <1>10, <1>11 DEF ScoreInv, Accounted, Flawless, Rests, Alike, Covered, Full

LEMMA ScoreScored ==
  ASSUME ScoreInv, NEW verdict, NEW fell \in BOOLEAN, NEW health,
         NEW late \in Overruns, NEW dear \in Overruns, Score(verdict, fell, health, late, dear)
  PROVE  ScoreInv'
<1>1. /\ UNCHANGED <<sheet, seen, tally>>
      /\ findings' = Harness(verdict, late, dear)
           \cup (IF fell THEN {[kind |-> "JudgeError", about |-> 0]} ELSE {})
      /\ result' = [total |-> Scored(tally, verdict, health, late, dear),
                    verdict |-> verdict, fell |-> fell, health |-> health,
                    late |-> late, dear |-> dear]
  BY DEF Score
<1>2. Recorded'
  <2>1. /\ result'.total = Scored(tally, verdict, health, late, dear) /\ result'.verdict = verdict
        /\ result'.fell = fell /\ result'.health = health /\ result'.late = late
        /\ result'.dear = dear /\ late \in Nat /\ dear \in Nat
    BY <1>1, ScoreAssumption
  <2>2. /\ Scored(tally, verdict, health, late, dear)' = Scored(tally, verdict, health, late, dear)
        /\ Harness(verdict, late, dear)' = Harness(verdict, late, dear)
    BY <1>1 DEF Scored, Harness, LexicalUtility
  <2>. QED
    BY <1>1, <2>1, <2>2 DEF Recorded
<1>. QED
  BY <1>1, <1>2 DEF ScoreInv, Blameless, Accounted, Flawless, Rests, Alike, Covered, Full

LEMMA ShareIs ==
  ASSUME NEW p \in Nat, NEW of \in Nat, p <= of
  PROVE  Share(p, of) \in 0..Whole /\ (Share(p, of) = Whole <=> p = of)
<1>1. CASE of = 0
  BY <1>1, ScoreAssumption DEF Share
<1>2. CASE of > 0
  BY <1>2, Shares DEF Share
<1>. QED
  BY <1>1, <1>2

LEMMA QuotientIs ==
  ASSUME NEW a \in Nat, NEW t \in Nat \ {0}, Covered(a, t)
  PROVE  a \div t \in 0..Whole /\ (a \div t = Whole <=> Full(a, t))
<1>1. Whole \in Nat /\ a <= Whole * t
  BY ScoreAssumption DEF Covered
<1>2. a \div t \in 0..Whole /\ (a \div t = Whole <=> a = Whole * t)
  BY <1>1, Quotients
<1>. QED
  BY <1>2 DEF Full

\* A mean of parts is whole when all of them are.
LEMMA Means ==
  ASSUME NEW w \in Nat, NEW x \in 0..w, NEW y \in 0..w, NEW z \in 0..w
  PROVE  /\ (x + y) \div 2 \in 0..w /\ ((x + y) \div 2 = w <=> x = w /\ y = w)
         /\ (x + y + z) \div 3 \in 0..w /\ ((x + y + z) \div 3 = w <=> x = w /\ y = w /\ z = w)
<1>1. (x + y) \div 2 \in 0..w /\ ((x + y) \div 2 = w <=> x = w /\ y = w)
  OBVIOUS
<1>2. (x + y + z) \div 3 \in 0..w /\ ((x + y + z) \div 3 = w <=> x = w /\ y = w /\ z = w)
  OBVIOUS
<1>. QED
  BY <1>1, <1>2

Complete == ~(sheet.required.present < sheet.required.terms)

LEMMA UtilityIs ==
  ASSUME NEW t \in Tallies, Accounted(t), sheet.required \in Wordings
  PROVE  /\ LexicalUtility(t) \in 0..Whole
         /\ LexicalUtility(t) = Whole <=>
              t.present = t.presentOf /\ Complete /\ Full(t.worded, t.wordedOf)
<1>. DEFINE x == Share(t.present, t.presentOf)
            y == Fraction(sheet.required)
            z == t.worded \div t.wordedOf
            m == LexicalUtility(t)
<1>1. Whole \in Nat
  BY ScoreAssumption
<1>2. /\ t.present \in Nat /\ t.presentOf \in Nat /\ t.worded \in Nat /\ t.wordedOf \in Nat
      /\ t.present <= t.presentOf /\ Covered(t.worded, t.wordedOf)
  BY DEF Tallies, Accounted
<1>3. x \in 0..Whole /\ (x = Whole <=> t.present = t.presentOf)
  BY <1>2, ShareIs
<1>4. /\ y \in 0..Whole /\ (y = Whole <=> Complete) /\ sheet.required.terms \in Nat
      /\ (sheet.required.terms = 0 => Complete)
  BY Fractions DEF Complete
<1>5. t.wordedOf > 0 => z \in 0..Whole /\ (z = Whole <=> Full(t.worded, t.wordedOf))
  BY <1>2, QuotientIs
<1>6. t.wordedOf = 0 => Full(t.worded, t.wordedOf)
  <2>1. Whole * 0 = 0
    BY <1>1
  <2>. QED
    BY <1>2, <2>1 DEF Covered, Full
<1>7. /\ sheet.required.terms = 0 /\ t.wordedOf = 0 => m = (x + 0 + 0) \div 1
      /\ sheet.required.terms > 0 /\ t.wordedOf = 0 => m = (x + y + 0) \div 2
      /\ sheet.required.terms = 0 /\ t.wordedOf > 0 => m = (x + 0 + z) \div 2
      /\ sheet.required.terms > 0 /\ t.wordedOf > 0 => m = (x + y + z) \div 3
  <2>. HIDE DEF x, y, z
  <2>1. m = (x + (IF sheet.required.terms > 0 THEN y ELSE 0) + (IF t.wordedOf > 0 THEN z ELSE 0))
              \div (1 + (IF sheet.required.terms > 0 THEN 1 ELSE 0) + (IF t.wordedOf > 0 THEN 1 ELSE 0))
    BY DEF LexicalUtility, x, y, z
  <2>. HIDE DEF m
  <2>. QED
    BY <1>2, <1>4, <2>1
<1>. HIDE DEF x, y, z, m
<1>8. CASE sheet.required.terms = 0 /\ t.wordedOf = 0
  <2>1. m = x
    BY <1>1, <1>3, <1>7, <1>8
  <2>. QED
    BY <1>3, <1>4, <1>6, <1>8, <2>1 DEF m
<1>9. CASE sheet.required.terms > 0 /\ t.wordedOf = 0
  <2>1. m \in 0..Whole /\ (m = Whole <=> x = Whole /\ y = Whole)
    BY <1>1, <1>3, <1>4, <1>7, <1>9, Means
  <2>. QED
    BY <1>3, <1>4, <1>6, <1>9, <2>1 DEF m
<1>10. CASE sheet.required.terms = 0 /\ t.wordedOf > 0
  <2>1. m \in 0..Whole /\ (m = Whole <=> x = Whole /\ z = Whole)
    BY <1>1, <1>3, <1>5, <1>7, <1>10, Means
  <2>. QED
    BY <1>3, <1>4, <1>5, <1>10, <2>1 DEF m
<1>11. CASE sheet.required.terms > 0 /\ t.wordedOf > 0
  <2>1. m \in 0..Whole /\ (m = Whole <=> x = Whole /\ y = Whole /\ z = Whole)
    BY <1>1, <1>3, <1>4, <1>5, <1>7, <1>11, Means
  <2>. QED
    BY <1>3, <1>4, <1>5, <1>11, <2>1 DEF m
<1>. QED
  BY <1>2, <1>4, <1>8, <1>9, <1>10, <1>11

LEMMA HealthIs ==
  ASSUME NEW t \in Tallies, Accounted(t), t.probes <= Whole
  PROVE  ProbeHealth(t) \in 0..Whole /\ (ProbeHealth(t) = Whole <=> t.errors = 0)
<1>1. t.errors \in Nat /\ t.probes \in Nat /\ t.errors <= t.probes /\ Whole \in Nat
  BY ScoreAssumption DEF Tallies, Accounted
<1>2. CASE t.probes = 0
  BY <1>1, <1>2 DEF ProbeHealth
<1>3. CASE t.probes > 0
  <2>. DEFINE share == (Whole * t.errors) \div t.probes
  <2>1. share \in 0..Whole /\ (share = 0 <=> t.errors = 0)
    BY <1>1, <1>3, Shares
  <2>2. ProbeHealth(t) = Whole - share
    BY <1>1, <1>3 DEF ProbeHealth
  <2>. HIDE DEF share
  <2>. QED
    BY <1>1, <2>1, <2>2
<1>. QED
  BY <1>1, <1>2, <1>3

\* The parts of a total weigh a hundred together: it is less when one of them is.
Loses(w, m, e, c, f, g, late, dear) ==
  Clamped(45 * m + 20 * e + 15 * c + 10 * f + 10 * g, 5 * late + 5 * dear, 100 * w) < 100 * w
    <=> ~(m = w /\ e = w /\ c = w /\ f = w /\ g = w /\ late = 0 /\ dear = 0)

LEMMA TotalIs ==
  ASSUME NEW w \in Nat, w > 0, NEW m \in 0..w, NEW e \in 0..w, NEW c \in 0..w, NEW f \in 0..w,
         NEW g \in 0..w, NEW late \in Nat, NEW dear \in Nat
  PROVE  Loses(w, m, e, c, f, g, late, dear)
<1>. DEFINE x == 45 * m + 20 * e + 15 * c + 10 * f + 10 * g
            penalty == 5 * late + 5 * dear
            most == 100 * w
<1>1. x \in 0..most /\ (x = most <=> m = w /\ e = w /\ c = w /\ f = w /\ g = w)
  OBVIOUS
<1>2. penalty \in Nat /\ (penalty = 0 <=> late = 0 /\ dear = 0) /\ most \in Nat /\ most > 0
  OBVIOUS
<1>. HIDE DEF x, penalty, most
<1>3. Clamped(x, penalty, most) < most <=> ~(x = most /\ penalty = 0)
  BY <1>1, <1>2 DEF Clamped
<1>4. Clamped(x, penalty, most) < most
        <=> ~(m = w /\ e = w /\ c = w /\ f = w /\ g = w /\ late = 0 /\ dear = 0)
  BY <1>1, <1>2, <1>3
<1>. QED
  BY <1>4 DEF x, penalty, most, Loses

LEMMA FindingsExplain == ASSUME ScoreInv PROVE FindingsExplainLoss
<1>. DEFINE v == result.verdict   late == result.late   dear == result.dear
<1>1. SUFFICES ASSUME scored, ~v.said, ~result.fell, result.health = NoHealth
               PROVE  (result.total < 100 * Whole) = (findings # {})
  BY DEF FindingsExplainLoss
<1>2. /\ result.total = Scored(tally, v, NoHealth, late, dear)
      /\ findings = Harness(v, late, dear) /\ late \in Nat /\ dear \in Nat
  BY <1>1 DEF ScoreInv, Recorded
<1>3. /\ tally \in Tallies /\ Accounted(tally) /\ tally.probes <= Whole /\ Whole \in Nat /\ Whole > 0
      /\ sheet.required \in Wordings /\ sheet.forbidden \in Wordings
  <2>1. tally.probes \in Nat /\ Len(seen) \in Nat /\ MaxExpectations \in 0..Whole /\ Whole \in Nat \ {0}
    BY ScoreAssumption, LenProperties DEF ScoreInv, Tallies
  <2>. QED
    BY <2>1 DEF ScoreInv
<1>. DEFINE m == LexicalUtility(tally)
            f == Share(tally.forgotten, tally.forgottenOf)
            c == IF sheet.forbidden.terms = 0 THEN Whole ELSE Whole - Fraction(sheet.forbidden)
            g == ProbeHealth(tally)
            e == (m + f) \div 2
<1>4. m \in 0..Whole /\ (m = Whole <=> /\ tally.present = tally.presentOf /\ Complete
                                       /\ Full(tally.worded, tally.wordedOf))
  BY <1>3, UtilityIs
<1>5. f \in 0..Whole /\ (f = Whole <=> tally.forgotten = tally.forgottenOf)
  <2>1. /\ tally.forgotten \in Nat /\ tally.forgottenOf \in Nat
        /\ tally.forgotten <= tally.forgottenOf
    BY <1>3 DEF Tallies, Accounted
  <2>. QED
    BY <2>1, ShareIs
<1>6. c \in 0..Whole /\ (c = Whole <=> ~(sheet.forbidden.present > 0))
  <2>1. /\ Fraction(sheet.forbidden) \in 0..Whole
        /\ sheet.forbidden.terms \in Nat /\ sheet.forbidden.present \in Nat
        /\ (sheet.forbidden.terms > 0 =>
              (Fraction(sheet.forbidden) = 0 <=> ~(sheet.forbidden.present > 0)))
        /\ (sheet.forbidden.terms = 0 => sheet.forbidden.present = 0)
    BY <1>3, Fractions
  <2>. DEFINE share == Fraction(sheet.forbidden)
  <2>. HIDE DEF share
  <2>2. c = IF sheet.forbidden.terms = 0 THEN Whole ELSE Whole - share
    BY DEF share
  <2>. HIDE DEF c
  <2>. QED
    BY <1>3, <2>1, <2>2 DEF share
<1>7. g \in 0..Whole /\ (g = Whole <=> tally.errors = 0)
  BY <1>3, HealthIs
<1>8. Scored(tally, v, NoHealth, late, dear) =
        Clamped(45 * m + 20 * e + 15 * c + 10 * f + 10 * g, 5 * late + 5 * dear, 100 * Whole)
  BY <1>1 DEF Scored
<1>. HIDE DEF m, f, c, g
<1>9. e \in 0..Whole /\ (e = Whole <=> m = Whole /\ f = Whole)
  BY <1>3, <1>4, <1>5, Means
<1>. HIDE DEF e
<1>10. result.total < 100 * Whole
         <=> ~(m = Whole /\ e = Whole /\ c = Whole /\ f = Whole /\ g = Whole /\ late = 0 /\ dear = 0)
  <2>. HIDE DEF late, dear
  <2>1. Loses(Whole, m, e, c, f, g, late, dear)
    BY <1>2, <1>3, <1>4, <1>5, <1>6, <1>7, <1>9, TotalIs
  <2>. QED
    BY <1>2, <1>8, <2>1, Zenon DEF Loses
<1>11. result.total < 100 * Whole
         <=> ~(Flawless(tally) /\ Complete /\ ~(sheet.forbidden.present > 0) /\ late = 0 /\ dear = 0)
  BY <1>4, <1>5, <1>6, <1>7, <1>9, <1>10 DEF Flawless
<1>12. Harness(v, late, dear) = {}
         <=> /\ Complete /\ ~(sheet.forbidden.present > 0) /\ ~(late > 0) /\ ~(dear > 0)
             /\ \A i \in 1..Len(seen) : Blameless(i)
  <2>1. \A i : Found(seen[i].e, seen[i].outcome, v.said, i) = Found(seen[i].e, seen[i].outcome, FALSE, i)
    BY <1>1 DEF Found
  <2>2. ConfirmedStale(v)
    BY <1>1 DEF ConfirmedStale
  <2>. DEFINE Of(kind) == {[kind |-> kind, about |-> 0]}
              blamed == UNION {Found(seen[i].e, seen[i].outcome, v.said, i) : i \in 1..Len(seen)}
              stale == sheet.forbidden.present > 0
  <2>3. blamed = {} <=> \A i \in 1..Len(seen) : Blameless(i)
    BY <2>1 DEF Blameless
  <2>4. Harness(v, late, dear) =
          (IF Complete THEN {} ELSE Of("BadSynthesis"))
            \cup (IF stale THEN Of("Overconfidence") ELSE {})
            \cup (IF late > 0 THEN Of("LatencyCost") ELSE {})
            \cup (IF dear > 0 THEN Of("TokenCost") ELSE {})
            \cup blamed
    BY <1>1, <2>2 DEF Harness, Complete
  <2>. HIDE DEF v, late, dear, blamed
  <2>. QED
    BY <2>3, <2>4
<1>13. Flawless(tally) <=> \A i \in 1..Len(seen) : Blameless(i)
  BY DEF ScoreInv
<1>14. result.total < 100 * Whole <=> findings # {}
  BY <1>2, <1>11, <1>12, <1>13
<1>. QED
  BY <1>14

LEMMA ErroredNeutral == ASSUME ScoreInv PROVE ErroredProbesAreNeutral
<1>. DEFINE Rec(f) == f = [n \in 0..Len(seen) |->
                             IF n = 0 THEN NoTally
                             ELSE IF seen[n].outcome = "errored" THEN f[n - 1]
                             ELSE Tallied(f[n - 1], seen[n].e, seen[n].outcome)]
            sum == CHOOSE f : Rec(f)
            rest == sum[Len(seen)]
            same == [field \in DOMAIN tally |->
                       IF field \in {"errors", "probes"} THEN tally[field] ELSE rest[field]]
<1>1. SUFFICES ASSUME scored
               PROVE  /\ result.total =
                           Scored(same, result.verdict, result.health, result.late, result.dear)
                      /\ \A found \in findings, i \in 1..Len(seen) :
                           found.about = i /\ seen[i].outcome = "errored"
                             => found.kind = "GraphProbeError"
  BY DEF ErroredProbesAreNeutral
<1>2. same = tally
  <2>1. PICK f : Rests(f, seen) /\ Alike(f[Len(seen)], tally)
    BY DEF ScoreInv
  <2>2. Rec(f)
    BY <2>1 DEF Rests
  <2>3. Rec(sum)
    <3>. HIDE DEF Rec
    <3>. QED
      BY <2>2
  <2>. HIDE DEF sum
  <2>4. Rests(sum, seen)
    BY <2>3 DEF Rests
  <2>5. rest = f[Len(seen)]
    <3>1. Len(seen) \in Nat
      BY LenProperties DEF ScoreInv
    <3>. HIDE DEF Rec
    <3>. QED
      BY <2>1, <2>4, <3>1, RestsAgree
  <2>6. Alike(rest, tally)
    BY <2>1, <2>5
  <2>. HIDE DEF rest
  <2>7. /\ DOMAIN tally = {"present", "presentOf", "worded", "wordedOf", "forgotten",
                           "forgottenOf", "errors", "probes"}
        /\ tally = [field \in DOMAIN tally |-> tally[field]]
    BY DEF ScoreInv, Tallies
  <2>8. \A field \in DOMAIN tally :
          (IF field \in {"errors", "probes"} THEN tally[field] ELSE rest[field]) = tally[field]
    BY <2>6, <2>7 DEF Alike
  <2>. QED
    BY <2>7, <2>8
<1>. HIDE DEF same
<1>3. /\ result.total = Scored(tally, result.verdict, result.health, result.late, result.dear)
      /\ findings = Harness(result.verdict, result.late, result.dear)
           \cup (IF result.fell THEN {[kind |-> "JudgeError", about |-> 0]} ELSE {})
  BY <1>1 DEF ScoreInv, Recorded
<1>4. ASSUME NEW found \in findings, NEW i \in 1..Len(seen), found.about = i,
             seen[i].outcome = "errored"
      PROVE  found.kind = "GraphProbeError"
  <2>1. i # 0
    OBVIOUS
  <2>2. \/ found.about = 0
        \/ \E k \in 1..Len(seen) :
             found \in Found(seen[k].e, seen[k].outcome, result.verdict.said, k)
    BY <1>3, <1>4 DEF Harness
  <2>3. PICK k \in 1..Len(seen) :
          found \in Found(seen[k].e, seen[k].outcome, result.verdict.said, k)
    BY <1>4, <2>1, <2>2
  <2>4. found.about = k
    BY <2>3 DEF Found
  <2>5. k = i
    BY <1>4, <2>4
  <2>. QED
    BY <1>4, <2>3, <2>5 DEF Found, Excluded
<1>. QED
  BY <1>2, <1>3, <1>4

LEMMA ScoreInitInv == ScoreInit => ScoreInv
<1>. SUFFICES ASSUME ScoreInit PROVE ScoreInv
  OBVIOUS
<1>1. /\ sheet.required \in Wordings /\ sheet.forbidden \in Wordings /\ seen = <<>>
      /\ tally = NoTally /\ result = Unscored
  BY DEF ScoreInit
<1>2. NoTally \in Tallies
  BY DEF NoTally, Tallies
<1>3. Covered(0, 0) /\ Full(0, 0)
  <2>1. Whole * 0 = 0
    BY ScoreAssumption
  <2>. QED
    BY <2>1 DEF Covered, Full
<1>4. Accounted(NoTally) /\ Flawless(NoTally) /\ NoTally.probes = 0
  BY <1>3 DEF NoTally, Accounted, Flawless
<1>5. Len(seen) = 0 /\ seen \in Seq(Probes) /\ 0 <= MaxExpectations
  BY <1>1, ScoreAssumption
<1>6. \E f : Rests(f, seen) /\ Alike(f[Len(seen)], tally)
  <2>. DEFINE f == [n \in {0} |-> NoTally]
  <2>1. Rests(f, seen)
    <3>1. 0..Len(seen) = {0}
      BY <1>5
    <3>. QED
      BY <3>1 DEF Rests
  <2>2. Alike(f[0], tally)
    BY <1>1 DEF Alike
  <2>. HIDE DEF f
  <2>. QED
    BY <1>5, <2>1, <2>2
<1>7. Recorded
  BY <1>1 DEF Recorded, scored
<1>. QED
  BY <1>1, <1>2, <1>4, <1>5, <1>6, <1>7 DEF ScoreInv

LEMMA ScoreInductive == ScoreInv /\ [ScoreNext]_scoreVars => ScoreInv'
<1>. SUFFICES ASSUME ScoreInv, [ScoreNext]_scoreVars PROVE ScoreInv'
  OBVIOUS
<1>1. CASE UNCHANGED scoreVars
  <2>1. UNCHANGED <<sheet, seen, tally, findings, result>>
    BY <1>1 DEF scoreVars
  <2>2. ASSUME NEW verdict, NEW health, NEW late, NEW dear
        PROVE  /\ Scored(tally, verdict, health, late, dear)' = Scored(tally, verdict, health, late, dear)
               /\ Harness(verdict, late, dear)' = Harness(verdict, late, dear)
    BY <2>1 DEF Scored, Harness, LexicalUtility
  <2>3. Recorded'
    BY <2>1, <2>2 DEF ScoreInv, Recorded, scored
  <2>. QED
    BY <2>1, <2>3 DEF ScoreInv, Blameless, Accounted, Flawless, Rests, Alike, Covered, Full
<1>2. CASE ScoreNext
  BY <1>2, ExpectScore, ScoreScored DEF ScoreNext
<1>. QED
  BY <1>1, <1>2

\* eval.rs: a checkpoint loses points exactly for what it reports, a probe that
\* saw nothing and a single unlucky roll count for nothing, and late failures
\* cost more, for any rubric, weights, number of samples and of checkpoints.
THEOREM FairScoring == EvaluationSpec => []ScoringIsFair
<1>1. ScoreInv /\ AggregateInv => ScoringIsFair
  BY FindingsExplain, ErroredNeutral, AggregatesAreFair DEF ScoringIsFair
<1>2. ScoreSpec => []ScoreInv
  BY ScoreInitInv, ScoreInductive, PTL DEF ScoreSpec
<1>3. AggregateSpec => []AggregateInv
  BY AggregateInitInv, AggregateInductive, PTL DEF AggregateSpec
<1>. QED
  BY <1>1, <1>2, <1>3, LevelsFollow, PTL

-----------------------------------------------------------------------------
(* Timelines                                                               *)

Planned == [kind : Kinds, input : {"none", "blank", "text"}]
Named == [kind : Kinds, input : {"none", "blank", "text"}, name : Nat]
Asks == {"auto", "Maintenance", "recall"}
Ops == ({"remember"} \cup Asks) \X Nat
Steps == {"next", "remember", "formation", "cadence", "auto", "maintenance"} \cup
         {"Maintenance", "Checkpoint", "probe", "recall"}
Grounds == [formation : {"idle", "busy", "failed"}, maintenance : {"idle", "busy"}, queued : BOOLEAN]

TimelineTyped ==
  /\ plan \in [timeline : Seq(Planned), noise : Nat, every : Nat]
  /\ phase \in Phases \cup {"authoring"} /\ outcome \in {"none", "running", "done", "aborted"}
  /\ ops \in [Phases -> Seq(Ops)] /\ transcript \in Seq(Nat)
  /\ since \in Nat /\ stalls \in Nat /\ flux \in BOOLEAN /\ background \in Grounds
  /\ step \in [pc : Steps, turn : Named]

\* The turns of the effective timeline that the phase is through with, or at.
Taken == Len(effective_timeline) - Len(turns)

\* Where the replay is in the effective timeline.
PlaceOK ==
  IF phase = "authoring" THEN turns = <<>> /\ step.pc = "next" /\ outcome = "none"
  ELSE /\ plan.timeline # <<>> /\ turns \in Seq(Named) /\ Len(turns) <= Len(effective_timeline)
       /\ \A i \in 1..Len(turns) : turns[i] = effective_timeline[Taken + i]
       /\ step.pc # "next" => Taken > 0 /\ step.turn = effective_timeline[Taken]
       /\ outcome = "done" => turns = <<>> /\ step.pc = "next"

\* A step belongs to the kind of its turn, and to its phase.
KindOK ==
  /\ step.pc \in {"remember", "formation", "cadence", "auto"} => step.turn.kind \in User
  /\ step.pc = "maintenance" => step.turn.kind # "Checkpoint"
  /\ step.pc = "Maintenance" => step.turn.kind = "Maintenance"
  /\ step.pc \in {"Checkpoint", "probe", "recall"} => step.turn.kind = "Checkpoint"
  /\ phase = "FormationOnly" => step.pc \in {"next", "remember", "formation"}
  /\ phase = "PolicyOnly" => step.pc \notin {"remember", "formation"}
  /\ phase \in {"FormationOnly", "PolicyOnly"} => Sharable

\* What one more turn asks of the space.
After(sofar, t) ==
  LET due == plan.every > 0 /\ sofar.since + 1 >= plan.every
      ask(op) == Append(sofar.asks, <<op, t.name>>)
  IN  IF t.kind \in User
        THEN [since |-> IF due THEN 0 ELSE sofar.since + 1,
              words |-> Append(sofar.words, <<"remember", t.name>>),
              asks  |-> IF due THEN ask("auto") ELSE sofar.asks]
      ELSE IF t.kind = "Maintenance"
        THEN [since |-> 0, words |-> sofar.words, asks |-> ask("Maintenance")]
      ELSE [since |-> sofar.since, words |-> sofar.words, asks |-> ask("recall")]

Reference ==
  LET ref[n \in 0..Len(effective_timeline)] ==
        IF n = 0 THEN [since |-> 0, words |-> <<>>, asks |-> <<>>]
        ELSE After(ref[n - 1], effective_timeline[n])
  IN  ref

Ran == outcome \in {"running", "done"}

\* What the phase told the memory, and what else it asked of it.
Told == IF phase = "Full" THEN Kept("Full", {"remember"}) ELSE ops["FormationOnly"]
Bade == IF phase = "Full" THEN Kept("Full", Asks) ELSE ops["PolicyOnly"]

\* A phase has asked what the reference has, up to where it is.
WordsFollow ==
  phase \in {"Full", "FormationOnly"} /\ Ran =>
    Told = Reference[IF step.pc = "remember" THEN Taken - 1 ELSE Taken].words

AsksFollow ==
  phase \in {"Full", "PolicyOnly"} /\ Ran =>
    LET ref == Reference[IF step.pc \in {"next", "maintenance"} THEN Taken ELSE Taken - 1] IN
    /\ Bade = ref.asks
    /\ since = ref.since
    /\ step.pc = "auto" => plan.every > 0 /\ since + 1 >= plan.every

\* A phase that is over has asked all of it; one to come, nothing.
PhasesOK ==
  LET all == Reference[Len(effective_timeline)] IN
  /\ phase = "authoring" => ops["Full"] = <<>>
  /\ phase \in {"authoring", "Full"} => ops["FormationOnly"] = <<>>
  /\ phase # "PolicyOnly" => ops["PolicyOnly"] = <<>>
  /\ phase \in {"FormationOnly", "PolicyOnly"} =>
       Kept("Full", {"remember"}) = all.words /\ Kept("Full", Asks) = all.asks
  /\ phase = "PolicyOnly" => ops["FormationOnly"] = all.words

\* While no wait gave up, only a wait for the formation sees it under way.
FluxOK ==
  /\ stalls = 0 /\ step.pc # "formation" => background.formation = "idle" /\ ~background.queued
  /\ stalls = 0 /\ step.pc \in {"probe", "recall"} => background.maintenance = "idle"
  /\ flux => stalls > 0

\* The last u of a list are words, and before them memory was consolidated.
EndsIn(list, u) ==
  /\ u <= Len(list)
  /\ \A i \in 1..Len(list) : Len(list) - u < i => list[i][1] = "remember"
  /\ u < Len(list) => list[Len(list) - u][1] # "remember"

\* The words since memory was consolidated: the one at hand is counted late.
Dated == {"auto", "Maintenance", "remember"}
Unsettled == IF step.pc \in {"formation", "cadence", "auto"} THEN since + 1 ELSE since

CadenceOK ==
  phase = "Full" /\ outcome = "running" =>
    (plan.every > 0 => since < plan.every) /\ EndsIn(Kept("Full", Dated), Unsettled)

TimelineInv ==
  /\ TimelineTyped /\ PlaceOK /\ KindOK /\ WordsFollow /\ AsksFollow /\ PhasesOK
  /\ FluxOK /\ CadenceOK /\ TranscriptIsTheTail

LEMMA InOrder ==
  ASSUME NEW S, NEW n \in Nat, NEW f \in [1..n -> S]
  PROVE  f \in Seq(S) /\ Len(f) = n
OBVIOUS

LEMMA DivisionIsNat == ASSUME NEW a \in Nat, NEW s \in Nat \ {0} PROVE a \div s \in Nat
OBVIOUS

Divided(a, s) == a = s * (a \div s) + (a % s)

LEMMA Division == ASSUME NEW a \in Nat, NEW s \in Nat \ {0} PROVE Divided(a, s)
BY DEF Divided

\* Of two multiples of a number the larger one has the larger quotient.
LEMMA Multiples ==
  ASSUME NEW s \in Nat \ {0}, NEW a \in Nat, NEW b \in Nat, a < b, a % s = 0, b % s = 0
  PROVE  a \div s < b \div s
<1>. DEFINE p == a \div s   q == b \div s
<1>1. p \in Nat /\ q \in Nat /\ a = s * p + (a % s) /\ b = s * q + (b % s)
  <2>1. p \in Nat /\ q \in Nat
    BY DivisionIsNat
  <2>2. Divided(a, s) /\ Divided(b, s)
    BY Division
  <2>3. a = s * p + (a % s) /\ b = s * q + (b % s)
    BY <2>2, Zenon DEF Divided
  <2>. QED
    BY <2>1, <2>2, <2>3
<1>. HIDE DEF p, q
<1>2. SUFFICES ASSUME p >= q PROVE FALSE
  BY <1>1 DEF p, q
<1>3. PICK k \in Nat : p = q + k
  <2>1. p - q \in Nat /\ p = q + (p - q)
    BY <1>1, <1>2
  <2>. QED
    BY <2>1
<1>4. s * p = s * q + s * k /\ s * k \in Nat /\ s * q \in Nat
  BY <1>1, <1>3
<1>. QED
  BY <1>1, <1>4

\* Within a product: the quotient of what is below it.
Within(a, n, s) == a <= n * s
Inside(a, n, s) == a < n * s
Fits(a, n, s) == a \div s \in 0..n /\ (a % s = 0 /\ Inside(a, n, s) => a \div s < n)

LEMMA QuotientFits ==
  ASSUME NEW s \in Nat \ {0}, NEW n \in Nat, NEW a \in Nat, Within(a, n, s)
  PROVE  Fits(a, n, s)
<1>1. a \in Nat /\ a <= n * s
  BY DEF Within
<1>2. a \div s \in 0..n /\ (a \div s = n <=> a = n * s)
  BY <1>1, Quotients
<1>. DEFINE q == a \div s   m == n * s
<1>3. q \in 0..n /\ (q = n <=> a = m)
  BY <1>2
<1>. HIDE DEF q, m
<1>4. a < m => q < n
  <2>1. SUFFICES ASSUME a < m PROVE q < n
    OBVIOUS
  <2>2. a # m
    <3>1. m \in Nat
      BY DEF m
    <3>. QED
      BY <1>1, <2>1, <3>1
  <2>. QED
    BY <1>3, <2>2
<1>5. Inside(a, n, s) => a < m
  BY Zenon DEF Inside, m
<1>6. q \in 0..n /\ (a % s = 0 /\ Inside(a, n, s) => q < n)
  BY <1>3, <1>4, <1>5
<1>. QED
  BY <1>6, Zenon DEF q, Fits

\* The effective timeline is the plan, with noise between its turns.
LEMMA TimelineIs ==
  ASSUME plan \in [timeline : Seq(Planned), noise : Nat, every : Nat], plan.timeline # <<>>
  PROVE  /\ effective_timeline \in Seq(Named) /\ Len(effective_timeline) \in Nat \ {0}
         /\ \A k \in 1..Len(effective_timeline) :
              LET t == effective_timeline[k] IN
              /\ t.name = 0 => t = Noise
              /\ Valid => t.kind = "Maintenance" \/ t.input = "text"
         /\ Sharable => \A k, m \in 1..Len(effective_timeline) :
              k < m /\ effective_timeline[k].kind = "Checkpoint" => effective_timeline[m].kind \notin User
<1>. DEFINE list == plan.timeline
            len == Len(list)
            s == Stride
            last == (len - 1) * s
            place(k) == (k - 1) \div s + 1
            authored(k) == (k - 1) % s = 0
            turn(k) == IF authored(k)
                         THEN [kind |-> list[place(k)].kind, input |-> list[place(k)].input, name |-> place(k)]
                         ELSE Noise
<1>1. list \in Seq(Planned) /\ len \in Nat \ {0} /\ plan.noise \in Nat /\ s = plan.noise + 1 /\ s \in Nat \ {0}
  <2>1. list \in Seq(Planned) /\ plan.noise \in Nat
    OBVIOUS
  <2>. QED
    BY <2>1, EmptySeq, LenProperties DEF Stride
<1>2. last \in Nat /\ last + 1 \in Nat \ {0} /\ len - 1 \in Nat
  <2>1. len - 1 \in Nat
    BY <1>1
  <2>2. (len - 1) * s \in Nat
    BY <1>1, <2>1
  <2>. QED
    BY <2>1, <2>2
<1>3. effective_timeline = [k \in 1..(last + 1) |-> turn(k)]
  BY DEF effective_timeline
<1>4. ASSUME NEW k \in 1..(last + 1)
      PROVE  place(k) \in 1..len /\ (authored(k) /\ k < last + 1 => place(k) < len)
  <2>. DEFINE n == len - 1   a == k - 1
  <2>1. n \in Nat /\ a \in Nat /\ Within(a, n, s) /\ (k < last + 1 => Inside(a, n, s))
    BY <1>2 DEF Within, Inside
  <2>. HIDE DEF n, a
  <2>2. Fits(a, n, s)
    BY <1>1, <2>1, QuotientFits
  <2>. DEFINE q == a \div s
  <2>3. q \in 0..n /\ (authored(k) /\ k < last + 1 => q < n) /\ place(k) = q + 1
    BY <2>1, <2>2, Zenon DEF a, Fits
  <2>. HIDE DEF q, last
  <2>. QED
    BY <1>1, <2>3 DEF n
<1>5. \A k \in 1..(last + 1), m \in 1..(last + 1) :
        k < m /\ authored(k) /\ authored(m) => place(k) < place(m)
  <2>1. ASSUME NEW k \in 1..(last + 1), NEW m \in 1..(last + 1), k < m, authored(k), authored(m)
        PROVE  place(k) < place(m)
    <3>. DEFINE a == k - 1   b == m - 1
    <3>1. a \in Nat /\ b \in Nat /\ a < b /\ a % s = 0 /\ b % s = 0
      BY <1>2, <2>1
    <3>. HIDE DEF a, b
    <3>2. a \div s < b \div s
      BY <1>1, <3>1, Multiples
    <3>3. a \div s \in Nat /\ b \div s \in Nat
      BY <1>1, <3>1, DivisionIsNat
    <3>4. a \div s + 1 < b \div s + 1
      BY <3>2, <3>3
    <3>. QED
      BY <3>4 DEF a, b
  <2>. QED
    BY <2>1
<1>6. \A k \in 1..(last + 1) : list[place(k)] \in Planned /\ place(k) \in 1..len
  BY <1>1, <1>4, ElementOfSeq
<1>7. s = 1 => \A k \in 1..(last + 1) : authored(k)
  BY <1>2
<1>. HIDE DEF last, place, authored, list, len, s
<1>8. \A k \in 1..(last + 1) : turn(k) \in Named
  <2>1. Noise \in Named
    BY DEF Noise, Named, Kinds, User
  <2>2. \A k \in 1..(last + 1) : place(k) \in Nat
    BY <1>1, <1>6
  <2>. QED
    BY <1>6, <2>1, <2>2 DEF Named, Planned
<1>9. effective_timeline \in Seq(Named) /\ Len(effective_timeline) = last + 1
  <2>1. effective_timeline \in [1..(last + 1) -> Named]
    BY <1>3, <1>8
  <2>. QED
    BY <1>2, <2>1, InOrder
<1>10. \A k \in 1..(last + 1) : effective_timeline[k] = turn(k)
  BY <1>3
<1>11. ASSUME NEW k \in 1..(last + 1)
       PROVE  /\ turn(k).name = 0 => turn(k) = Noise
              /\ Valid => turn(k).kind = "Maintenance" \/ turn(k).input = "text"
  <2>1. place(k) # 0
    BY <1>1, <1>6
  <2>2. Valid => list[place(k)].kind = "Maintenance" \/ list[place(k)].input = "text"
    BY <1>6 DEF Valid, TurnIsChecked, list, len
  <2>. QED
    BY <2>1, <2>2 DEF Noise
<1>12. ASSUME Sharable, NEW k \in 1..(last + 1), NEW m \in 1..(last + 1), k < m,
              turn(k).kind = "Checkpoint"
       PROVE  turn(m).kind \notin User
  <2>1. authored(k) /\ list[place(k)].kind = "Checkpoint"
    BY <1>12 DEF Noise
  <2>2. place(k) \in 1..len /\ place(k) # len
    <3>1. k < last + 1
      BY <1>2, <1>12
    <3>. QED
      BY <1>1, <1>4, <2>1, <3>1
  <2>3. CheckpointAt(place(k)) /\ plan.noise = 0
    BY <1>1, <1>12, <2>1, <2>2 DEF Sharable, CheckpointAt, list, len
  <2>4. authored(m)
    BY <1>1, <1>7, <2>3
  <2>5. place(k) < place(m) /\ place(m) \in 1..len
    BY <1>5, <1>6, <1>12, <2>1, <2>4
  <2>6. list[place(m)].kind \notin User
    BY <1>12, <2>2, <2>3, <2>5 DEF Sharable, list, len
  <2>. QED
    BY <2>4, <2>6
<1>. HIDE DEF turn
<1>. QED
  BY <1>2, <1>9, <1>10, <1>11, <1>12

\* A function that is defined step by step exists.
Climbs(R, start, n, next) ==
  \E f \in [0..n -> R] : f[0] = start /\ \A j \in 1..n : f[j] = next[<<f[j - 1], j>>]

LEMMA StepByStep ==
  ASSUME NEW R, NEW start \in R, NEW n \in Nat, NEW next \in [R \X (1..n) -> R]
  PROVE  Climbs(R, start, n, next)
<1>. DEFINE Upto(k) == \E f \in [0..k -> R] :
                         f[0] = start /\ \A j \in 1..k : f[j] = next[<<f[j - 1], j>>]
            S == {k \in 0..n : Upto(k)}
<1>1. 0 \in S
  <2>. DEFINE g == [k \in 0..0 |-> start]
  <2>1. g \in [0..0 -> R] /\ g[0] = start /\ 0 \in 0..n /\ 1..0 = {}
    OBVIOUS
  <2>. HIDE DEF g
  <2>2. Upto(0)
    BY <2>1
  <2>. QED
    BY <2>1, <2>2
<1>2. ASSUME NEW k \in 0..n, k < n, k \in S PROVE k + 1 \in S
  <2>1. PICK f \in [0..k -> R] : f[0] = start /\ \A j \in 1..k : f[j] = next[<<f[j - 1], j>>]
    BY <1>2
  <2>. DEFINE g == [j \in 0..(k + 1) |-> IF j <= k THEN f[j] ELSE next[<<f[k], k + 1>>]]
  <2>2. k \in Nat /\ k + 1 \in 1..n /\ k \in 0..k /\ f[k] \in R /\ next[<<f[k], k + 1>>] \in R
    BY <1>2
  <2>3. g \in [0..(k + 1) -> R] /\ g[0] = start
    BY <2>1, <2>2
  <2>4. ASSUME NEW j \in 1..(k + 1) PROVE g[j] = next[<<g[j - 1], j>>]
    <3>1. CASE j <= k
      <4>1. j \in 1..k /\ j - 1 <= k /\ j - 1 \in 0..(k + 1) /\ j \in 0..(k + 1)
        BY <2>2, <3>1
      <4>2. g[j] = f[j] /\ g[j - 1] = f[j - 1]
        BY <3>1, <4>1
      <4>. QED
        BY <2>1, <4>1, <4>2
    <3>2. CASE j = k + 1
      <4>1. g[j] = next[<<f[k], j>>] /\ j - 1 = k /\ g[k] = f[k]
        BY <2>2, <3>2
      <4>. QED
        BY <4>1
    <3>. QED
      BY <2>2, <3>1, <3>2
  <2>. HIDE DEF g
  <2>5. Upto(k + 1)
    BY <2>3, <2>4
  <2>6. k + 1 \in 0..n
    BY <2>2
  <2>. HIDE DEF Upto
  <2>. QED
    BY <2>5, <2>6
<1>3. \A k \in 0..n : k \in S
  <2>. HIDE DEF S
  <2>. QED
    BY <1>1, <1>2, Climb
<1>4. n \in S
  BY <1>3
<1>. QED
  BY <1>4 DEF Climbs

\* The lists that are picked along the way.
Picks(f, list, wanted) ==
  /\ f[0] = <<>>
  /\ \A n \in 1..Len(list) :
       f[n] = IF list[n] \in wanted THEN Append(f[n - 1], list[n]) ELSE f[n - 1]

LEMMA PickedIs ==
  ASSUME NEW S, NEW list \in Seq(S), NEW wanted
  PROVE  \E f \in [0..Len(list) -> Seq(S)] : Picks(f, list, wanted) /\ Picked(list, wanted) = f[Len(list)]
<1>. DEFINE n == Len(list)
            Rec(p) == p = [k \in 0..n |-> IF k = 0 THEN <<>>
                             ELSE IF list[k] \in wanted THEN Append(p[k - 1], list[k]) ELSE p[k - 1]]
            picked == CHOOSE p : Rec(p)
<1>1. n \in Nat /\ \A k \in 1..n : list[k] \in S
  BY LenProperties, ElementOfSeq
<1>2. \E p : Rec(p)
  <2>. DEFINE one == [x \in Seq(S) \X (1..n) |->
                        IF list[x[2]] \in wanted THEN Append(x[1], list[x[2]]) ELSE x[1]]
  <2>1. one \in [Seq(S) \X (1..n) -> Seq(S)]
    <3>1. ASSUME NEW x \in Seq(S) \X (1..n)
          PROVE  (IF list[x[2]] \in wanted THEN Append(x[1], list[x[2]]) ELSE x[1]) \in Seq(S)
      <4>1. x[1] \in Seq(S) /\ x[2] \in 1..n /\ list[x[2]] \in S
        BY <1>1
      <4>. QED
        BY <4>1, AppendProperties
    <3>. QED
      BY <3>1
  <2>2. <<>> \in Seq(S)
    BY EmptySeq
  <2>3. \A l \in Seq(S), j \in 1..n :
          one[<<l, j>>] = IF list[j] \in wanted THEN Append(l, list[j]) ELSE l
    OBVIOUS
  <2>. DEFINE R == Seq(S)   none == <<>>
  <2>. HIDE DEF one, n, R, none
  <2>4. PICK f \in [0..n -> Seq(S)] : f[0] = <<>> /\ \A j \in 1..n : f[j] = one[<<f[j - 1], j>>]
    <3>1. n \in Nat /\ none \in R /\ one \in [R \X (1..n) -> R]
      BY <1>1, <2>1, <2>2 DEF R, none
    <3>2. Climbs(R, none, n, one)
      BY <3>1, StepByStep
    <3>. QED
      BY <3>2 DEF R, none, Climbs
  <2>5. ASSUME NEW k \in 0..n
        PROVE  f[k] = IF k = 0 THEN <<>>
                      ELSE IF list[k] \in wanted THEN Append(f[k - 1], list[k]) ELSE f[k - 1]
    <3>1. k = 0 \/ (k \in 1..n /\ k - 1 \in 0..n)
      BY <1>1
    <3>. QED
      BY <2>3, <2>4, <3>1
  <2>6. f = [k \in 0..n |-> f[k]]
    BY <2>4
  <2>7. Rec(f)
    BY <2>5, <2>6
  <2>. QED
    BY <2>7
<1>3. Rec(picked)
  BY <1>2
<1>4. Picked(list, wanted) = picked[n]
  BY DEF Picked
<1>. HIDE DEF picked
<1>5. picked[0] = <<>> /\ \A k \in 1..n : picked[k] =
        IF list[k] \in wanted THEN Append(picked[k - 1], list[k]) ELSE picked[k - 1]
  <2>. HIDE DEF n
  <2>1. \A k \in 1..n : k \in 0..n /\ k # 0
    BY <1>1
  <2>2. 0 \in 0..n
    BY <1>1
  <2>3. picked[0] = <<>>
    BY <1>3, <2>2
  <2>. QED
    BY <1>3, <2>1, <2>3
<1>6. \A k \in 0..n : picked[k] \in Seq(S)
  <2>. DEFINE T == {k \in 0..n : picked[k] \in Seq(S)}
  <2>. HIDE DEF n, Rec
  <2>1. 0 \in T
    <3>1. 0 \in 0..n /\ picked[0] \in Seq(S)
      BY <1>1, <1>5, EmptySeq
    <3>. QED
      BY <3>1
  <2>2. ASSUME NEW k \in 0..n, k < n, k \in T PROVE k + 1 \in T
    <3>1. k + 1 \in 1..n /\ (k + 1) - 1 = k /\ picked[k] \in Seq(S) /\ list[k + 1] \in S
      BY <1>1, <2>2
    <3>2. Append(picked[k], list[k + 1]) \in Seq(S)
      BY <3>1, AppendProperties
    <3>3. picked[k + 1] = IF list[k + 1] \in wanted THEN Append(picked[k], list[k + 1]) ELSE picked[k]
      BY <1>5, <3>1
    <3>4. picked[k + 1] \in Seq(S)
      BY <3>1, <3>2, <3>3
    <3>. QED
      BY <1>1, <3>1, <3>4
  <2>3. \A k \in 0..n : k \in T
    <3>. HIDE DEF T
    <3>. QED
      BY <1>1, <2>1, <2>2, Climb
  <2>. QED
    BY <2>3
<1>7. picked \in [0..n -> Seq(S)] /\ Picks(picked, list, wanted)
  BY <1>3, <1>5, <1>6 DEF Picks
<1>. QED
  BY <1>4, <1>7

LEMMA PickedTyped ==
  ASSUME NEW S, NEW list \in Seq(S), NEW wanted
  PROVE  Picked(list, wanted) \in Seq(S)
<1>1. PICK f \in [0..Len(list) -> Seq(S)] : Picks(f, list, wanted) /\ Picked(list, wanted) = f[Len(list)]
  BY PickedIs
<1>2. Len(list) \in 0..Len(list)
  BY LenProperties
<1>. QED
  BY <1>1, <1>2

\* One more element of the list is picked or not; what was picked stays.
PickGrows(list, e, wanted) ==
  Picked(Append(list, e), wanted) =
    IF e \in wanted THEN Append(Picked(list, wanted), e) ELSE Picked(list, wanted)

LEMMA PickedGrows ==
  ASSUME NEW S, NEW list \in Seq(S), NEW e \in S, NEW wanted
  PROVE  PickGrows(list, e, wanted)
<1>. DEFINE n == Len(list)   more == Append(list, e)
<1>1. n \in Nat /\ more \in Seq(S) /\ Len(more) = n + 1
      /\ (\A i \in 1..n : more[i] = list[i]) /\ more[n + 1] = e
  BY LenProperties, AppendProperties
<1>. HIDE DEF more
<1>2. PICK f \in [0..n -> Seq(S)] : Picks(f, list, wanted) /\ Picked(list, wanted) = f[n]
  BY PickedIs
<1>3. PICK g \in [0..Len(more) -> Seq(S)] : Picks(g, more, wanted) /\ Picked(more, wanted) = g[Len(more)]
  BY <1>1, PickedIs
<1>. HIDE DEF n
<1>4. \A k \in 0..n : g[k] = f[k]
  <2>. DEFINE T == {k \in 0..n : g[k] = f[k]}
  <2>1. 0 \in T
    BY <1>1, <1>2, <1>3 DEF Picks
  <2>2. ASSUME NEW k \in 0..n, k < n, k \in T PROVE k + 1 \in T
    <3>1. k + 1 \in 1..n /\ k + 1 \in 1..Len(more) /\ (k + 1) - 1 = k /\ k + 1 \in 0..n
      BY <1>1, <2>2
    <3>2. f[k + 1] = IF list[k + 1] \in wanted THEN Append(f[k], list[k + 1]) ELSE f[k]
      BY <1>2, <3>1 DEF Picks, n
    <3>3. g[k + 1] = IF more[k + 1] \in wanted THEN Append(g[k], more[k + 1]) ELSE g[k]
      BY <1>3, <3>1 DEF Picks
    <3>. QED
      BY <1>1, <2>2, <3>1, <3>2, <3>3
  <2>. HIDE DEF T
  <2>3. \A k \in 0..n : k \in T
    BY <1>1, <2>1, <2>2, Climb
  <2>. QED
    BY <2>3 DEF T
<1>5. g[n + 1] = IF e \in wanted THEN Append(g[n], e) ELSE g[n]
  <2>1. n + 1 \in 1..Len(more) /\ (n + 1) - 1 = n
    BY <1>1
  <2>. QED
    BY <1>1, <1>3, <2>1 DEF Picks
<1>6. g[n] = f[n] /\ f[n] \in Seq(S)
  BY <1>1, <1>2, <1>4
<1>. QED
  BY <1>1, <1>2, <1>3, <1>5, <1>6 DEF more, PickGrows

LEMMA NonePicked == ASSUME NEW wanted PROVE Picked(<<>>, wanted) = <<>>
<1>1. <<>> \in Seq({}) /\ Len(<<>>) = 0
  BY EmptySeq
<1>2. PICK f \in [0..Len(<<>>) -> Seq({})] : Picks(f, <<>>, wanted) /\ Picked(<<>>, wanted) = f[Len(<<>>)]
  BY <1>1, PickedIs
<1>. QED
  BY <1>1, <1>2 DEF Picks

-----------------------------------------------------------------------------
(* What a replay asks for                                                  *)

References == [since : Nat, words : Seq(Ops), asks : Seq(Ops)]
NoAsks == [since |-> 0, words |-> <<>>, asks |-> <<>>]

LEMMA AfterIs ==
  ASSUME NEW ref \in References, NEW t \in Named
  PROVE  After(ref, t) \in References
<1>. DEFINE due == plan.every > 0 /\ ref.since + 1 >= plan.every
            ask(op) == Append(ref.asks, <<op, t.name>>)
<1>1. ref.since \in Nat /\ ref.since + 1 \in Nat /\ ref.words \in Seq(Ops) /\ ref.asks \in Seq(Ops)
      /\ t.name \in Nat
  BY DEF References, Named
<1>2. \A op \in {"remember"} \cup Asks : <<op, t.name>> \in Ops
  BY <1>1 DEF Ops
<1>3. \A list \in Seq(Ops), e \in Ops : Append(list, e) \in Seq(Ops)
  BY AppendProperties
<1>4. Append(ref.words, <<"remember", t.name>>) \in Seq(Ops)
  BY <1>1, <1>2, <1>3
<1>5. ask("auto") \in Seq(Ops) /\ ask("Maintenance") \in Seq(Ops) /\ ask("recall") \in Seq(Ops)
  BY <1>1, <1>2, <1>3 DEF Asks
<1>. HIDE DEF due, ask
<1>6. After(ref, t) =
        IF t.kind \in User
          THEN [since |-> IF due THEN 0 ELSE ref.since + 1,
                words |-> Append(ref.words, <<"remember", t.name>>),
                asks  |-> IF due THEN ask("auto") ELSE ref.asks]
        ELSE IF t.kind = "Maintenance"
          THEN [since |-> 0, words |-> ref.words, asks |-> ask("Maintenance")]
        ELSE [since |-> ref.since, words |-> ref.words, asks |-> ask("recall")]
  BY DEF After, due, ask
<1>. QED
  BY <1>1, <1>4, <1>5, <1>6 DEF References

LEMMA ReferenceIs ==
  ASSUME effective_timeline \in Seq(Named)
  PROVE  /\ Reference[0] = NoAsks
         /\ \A k \in 0..Len(effective_timeline) : Reference[k] \in References
         /\ \A k \in 1..Len(effective_timeline) : Reference[k] = After(Reference[k - 1], effective_timeline[k])
<1>. DEFINE line == effective_timeline
            n == Len(line)
            Rec(r) == r = [k \in 0..n |-> IF k = 0 THEN NoAsks ELSE After(r[k - 1], line[k])]
            ref == CHOOSE r : Rec(r)
<1>1. n \in Nat /\ \A k \in 1..n : line[k] \in Named
  BY LenProperties, ElementOfSeq
<1>. HIDE DEF line, n
<1>2. PICK f \in [0..n -> References] : f[0] = NoAsks /\ \A j \in 1..n : f[j] = After(f[j - 1], line[j])
  <2>. DEFINE one == [x \in References \X (1..n) |-> After(x[1], line[x[2]])]
  <2>1. one \in [References \X (1..n) -> References]
    <3>1. ASSUME NEW x \in References \X (1..n) PROVE After(x[1], line[x[2]]) \in References
      BY <1>1, AfterIs
    <3>. QED
      BY <3>1
  <2>2. NoAsks \in References
    BY EmptySeq DEF NoAsks, References
  <2>3. \A r \in References, j \in 1..n : one[<<r, j>>] = After(r, line[j])
    OBVIOUS
  <2>. HIDE DEF one
  <2>4. Climbs(References, NoAsks, n, one)
    BY <1>1, <2>1, <2>2, StepByStep
  <2>5. PICK f \in [0..n -> References] : f[0] = NoAsks /\ \A j \in 1..n : f[j] = one[<<f[j - 1], j>>]
    BY <2>4 DEF Climbs
  <2>6. \A j \in 1..n : f[j - 1] \in References
    BY <1>1
  <2>. QED
    BY <2>3, <2>5, <2>6
<1>3. Rec(f)
  <2>1. ASSUME NEW k \in 0..n PROVE f[k] = IF k = 0 THEN NoAsks ELSE After(f[k - 1], line[k])
    <3>1. k = 0 \/ k \in 1..n
      BY <1>1
    <3>. QED
      BY <1>2, <3>1
  <2>2. f = [k \in 0..n |-> f[k]]
    BY <1>2
  <2>. QED
    BY <2>1, <2>2
<1>4. Rec(ref)
  BY <1>3
<1>5. Reference = ref
  BY DEF Reference, NoAsks, line, n
<1>. HIDE DEF ref
<1>6. ref[0] = NoAsks /\ \A k \in 1..n : ref[k] = After(ref[k - 1], line[k])
  <2>1. 0 \in 0..n /\ \A k \in 1..n : k \in 0..n /\ k # 0
    BY <1>1
  <2>. QED
    BY <1>4, <2>1
<1>7. \A k \in 0..n : ref[k] \in References
  <2>. DEFINE T == {k \in 0..n : ref[k] \in References}
  <2>1. 0 \in T
    BY <1>1, <1>2, <1>6
  <2>2. ASSUME NEW k \in 0..n, k < n, k \in T PROVE k + 1 \in T
    <3>1. k + 1 \in 1..n /\ (k + 1) - 1 = k /\ k + 1 \in 0..n /\ line[k + 1] \in Named
      BY <1>1, <2>2
    <3>2. ref[k + 1] = After(ref[k], line[k + 1])
      BY <1>6, <3>1
    <3>. QED
      BY <2>2, <3>1, <3>2, AfterIs
  <2>. HIDE DEF T
  <2>3. \A k \in 0..n : k \in T
    BY <1>1, <2>1, <2>2, Climb
  <2>. QED
    BY <2>3 DEF T
<1>. QED
  BY <1>5, <1>6, <1>7 DEF line, n

LEMMA SamePlan ==
  ASSUME plan' = plan
  PROVE  /\ effective_timeline' = effective_timeline /\ Reference' = Reference
         /\ Sharable' = Sharable /\ Valid' = Valid
<1>1. effective_timeline' = effective_timeline
  BY DEF effective_timeline, Stride
<1>2. Sharable' = Sharable /\ Valid' = Valid
  BY DEF Sharable, CheckpointAt, Valid, TurnIsChecked
<1>3. Reference' = Reference
  BY <1>1 DEF Reference, After
<1>. QED
  BY <1>1, <1>2, <1>3

-----------------------------------------------------------------------------
(* Where the replay is                                                     *)

Placed == TimelineTyped /\ PlaceOK /\ KindOK

LEMMA Here ==
  ASSUME Placed, phase # "authoring"
  PROVE  /\ effective_timeline \in Seq(Named) /\ Len(effective_timeline) \in Nat \ {0}
         /\ turns \in Seq(Named) /\ Len(turns) \in Nat /\ Len(turns) + Taken = Len(effective_timeline)
         /\ Taken \in 0..Len(effective_timeline)
         /\ step.pc # "next" => Taken \in 1..Len(effective_timeline) /\ step.turn = effective_timeline[Taken]
<1>1. effective_timeline \in Seq(Named) /\ Len(effective_timeline) \in Nat \ {0}
  BY TimelineIs DEF Placed, TimelineTyped, PlaceOK
<1>2. turns \in Seq(Named) /\ Len(turns) \in Nat /\ Len(turns) <= Len(effective_timeline)
  BY LenProperties DEF Placed, PlaceOK
<1>3. step.pc # "next" => Taken > 0 /\ step.turn = effective_timeline[Taken]
  BY DEF Placed, PlaceOK
<1>. QED
  BY <1>1, <1>2, <1>3 DEF Taken

\* The replay goes on with the turn it is at.
LEMMA PlaceStays ==
  ASSUME Placed, phase # "authoring", UNCHANGED <<plan, phase, turns>>, outcome' # "done",
         step'.pc # "next" => step.pc # "next" /\ step'.turn = step.turn
  PROVE  PlaceOK' /\ Taken' = Taken
<1>1. effective_timeline' = effective_timeline /\ Taken' = Taken
  BY SamePlan DEF Taken
<1>2. /\ plan.timeline # <<>> /\ turns \in Seq(Named) /\ Len(turns) <= Len(effective_timeline)
      /\ \A i \in 1..Len(turns) : turns[i] = effective_timeline[Taken + i]
      /\ step.pc # "next" => Taken > 0 /\ step.turn = effective_timeline[Taken]
  BY DEF Placed, PlaceOK
<1>. QED
  BY <1>1, <1>2 DEF PlaceOK

LEMMA AuthorPlaced == ASSUME Placed, NEW t \in Turns, Author(t) PROVE Placed'
<1>1. t \in Planned
  BY DEF Turns, Planned
<1>2. plan'.timeline = Append(plan.timeline, t) /\ plan' = [plan EXCEPT !.timeline = Append(@, t)]
  BY DEF Author, Placed, TimelineTyped
<1>3. Append(plan.timeline, t) \in Seq(Planned)
  BY <1>1, AppendProperties DEF Placed, TimelineTyped
<1>4. TimelineTyped'
  BY <1>2, <1>3 DEF Author, Placed, TimelineTyped
<1>5. PlaceOK' /\ KindOK'
  BY DEF Author, Placed, PlaceOK, KindOK
<1>. QED
  BY <1>4, <1>5 DEF Placed

LEMMA StartPlaced == ASSUME Placed, Start PROVE Placed' /\ Taken' = 0
<1>1. plan.timeline # <<>> /\ plan' = plan
  BY DEF Start, Placed, PlaceOK
<1>2. effective_timeline \in Seq(Named) /\ Len(effective_timeline) \in Nat \ {0}
  BY <1>1, TimelineIs DEF Placed, TimelineTyped
<1>3. effective_timeline' = effective_timeline /\ turns' = effective_timeline /\ Sharable' = Sharable
  BY <1>1, SamePlan DEF Start
<1>4. Taken' = 0
  BY <1>2, <1>3 DEF Taken
<1>5. Noise \in Named /\ <<>> \in Seq(Nat)
  BY EmptySeq DEF Noise, Named, Kinds, User
<1>6. phase' \in Phases /\ (phase' \in {"FormationOnly", "PolicyOnly"} => Sharable)
  BY DEF Start, Phases, Placed, KindOK
<1>7. TimelineTyped'
  BY <1>5, <1>6 DEF Start, Placed, TimelineTyped, AtRest, Quiescent, Grounds, Steps
<1>8. PlaceOK'
  <2>1. phase' # "authoring" /\ step'.pc = "next" /\ outcome' = "running"
    BY <1>6 DEF Start, AtRest, Phases
  <2>2. \A i \in 1..Len(turns') : turns'[i] = effective_timeline'[Taken' + i]
    BY <1>2, <1>3, <1>4
  <2>3. Len(turns') <= Len(effective_timeline')
    BY <1>2, <1>3
  <2>. QED
    BY <1>1, <1>2, <1>3, <2>1, <2>2, <2>3 DEF PlaceOK
<1>9. KindOK'
  BY <1>3, <1>6 DEF KindOK, Start, AtRest
<1>. QED
  BY <1>4, <1>7, <1>8, <1>9 DEF Placed

LEMMA NextTurnPlaced ==
  ASSUME Placed, NextTurn
  PROVE  /\ Placed' /\ phase # "authoring"
         /\ turns # <<>> => /\ Taken' = Taken + 1 /\ Taken' \in 1..Len(effective_timeline)
                            /\ step'.turn = effective_timeline[Taken'] /\ turns' = Tail(turns)
<1>1. phase # "authoring" /\ plan' = plan /\ phase' = phase
  BY DEF NextTurn, Placed, PlaceOK
<1>2. /\ effective_timeline \in Seq(Named) /\ Len(effective_timeline) \in Nat \ {0}
      /\ turns \in Seq(Named) /\ Len(turns) \in Nat /\ Len(turns) + Taken = Len(effective_timeline)
      /\ Taken \in 0..Len(effective_timeline)
  BY <1>1, Here
<1>3. effective_timeline' = effective_timeline /\ Sharable' = Sharable
  BY <1>1, SamePlan
<1>4. CASE turns = <<>>
  <2>1. outcome' = "done" /\ turns' = turns /\ step' = step /\ step.pc = "next" /\ Taken' = Taken
    BY <1>3, <1>4 DEF NextTurn, Taken
  <2>2. TimelineTyped'
    BY <2>1 DEF NextTurn, Placed, TimelineTyped
  <2>3. PlaceOK'
    BY <1>1, <1>3, <1>4, <2>1 DEF Placed, PlaceOK
  <2>4. KindOK'
    BY <1>1, <1>3, <2>1 DEF Placed, KindOK
  <2>. QED
    BY <1>1, <1>4, <2>2, <2>3, <2>4 DEF Placed
<1>5. CASE turns # <<>>
  <2>. DEFINE t == Head(turns)
              skipped == phase = "FormationOnly" /\ t.kind \notin User
              pc == CASE skipped -> "next"
                      [] ~skipped /\ t.kind \in User ->
                           IF phase = "PolicyOnly" THEN "cadence" ELSE "remember"
                      [] OTHER -> t.kind
  <2>1. turns' = Tail(turns) /\ step' = [pc |-> pc, turn |-> t] /\ outcome' = outcome
    BY <1>5 DEF NextTurn
  <2>2. /\ Tail(turns) \in Seq(Named) /\ Len(Tail(turns)) = Len(turns) - 1 /\ t = turns[1] /\ t \in Named
        /\ \A i \in 1..Len(Tail(turns)) : Tail(turns)[i] = turns[i + 1]
        /\ Len(turns) > 0
    BY <1>2, <1>5, HeadTailProperties, ElementOfSeq, EmptySeq
  <2>3. Taken' = Taken + 1 /\ Taken' \in 1..Len(effective_timeline)
    BY <1>2, <1>3, <2>1, <2>2 DEF Taken
  <2>4. \A i \in 1..Len(turns) : turns[i] = effective_timeline[Taken + i]
    BY <1>1 DEF Placed, PlaceOK
  <2>5. t = effective_timeline[Taken']
    BY <1>2, <2>2, <2>3, <2>4
  <2>6. \A i \in 1..Len(turns') : turns'[i] = effective_timeline[Taken' + i]
    <3>1. ASSUME NEW i \in 1..Len(turns') PROVE turns'[i] = effective_timeline[Taken' + i]
      <4>1. i \in 1..Len(Tail(turns)) /\ i \in Nat /\ Taken \in Nat
        BY <1>2, <2>1
      <4>2. i + 1 \in 1..Len(turns)
        BY <1>2, <2>2, <4>1
      <4>3. Taken + (i + 1) = Taken' + i
        BY <2>3, <4>1
      <4>. QED
        BY <2>1, <2>2, <2>4, <4>1, <4>2, <4>3
    <3>. QED
      BY <3>1
  <2>7. t.kind \in {"Normal", "Simulated", "Maintenance", "Checkpoint"}
    BY <2>2 DEF Named, Kinds, User
  <2>8. /\ pc = "next" => phase = "FormationOnly"
        /\ pc \in {"cadence", "remember"} <=> t.kind \in User
        /\ pc = "cadence" => phase = "PolicyOnly"
        /\ pc = "remember" => phase # "PolicyOnly"
        /\ pc \in {"next", "cadence", "remember", "Maintenance", "Checkpoint"}
        /\ pc \in {"Maintenance", "Checkpoint"} => pc = t.kind /\ phase # "FormationOnly"
    BY <2>7 DEF User
  <2>. HIDE DEF pc, t, skipped
  <2>9. step'.pc = pc /\ step'.turn = t
    BY <2>1
  <2>10. TimelineTyped'
    <3>1. step' \in [pc : Steps, turn : Named]
      BY <2>1, <2>2, <2>8 DEF Steps
    <3>. QED
      BY <2>1, <3>1 DEF NextTurn, Placed, TimelineTyped
  <2>11. PlaceOK'
    <3>1. plan.timeline # <<>> /\ outcome = "running"
      BY <1>1 DEF Placed, PlaceOK, NextTurn
    <3>2. Len(turns') <= Len(effective_timeline)
      BY <1>2, <2>1, <2>2
    <3>3. Taken' > 0
      BY <1>2, <2>3
    <3>. QED
      BY <1>1, <1>3, <2>1, <2>2, <2>5, <2>6, <2>9, <3>1, <3>2, <3>3 DEF PlaceOK
  <2>12. KindOK'
    <3>1. phase \in {"FormationOnly", "PolicyOnly"} => Sharable
      BY DEF Placed, KindOK
    <3>. QED
      BY <1>1, <1>3, <2>8, <2>9, <3>1 DEF KindOK
  <2>. QED
    BY <1>1, <2>1, <2>3, <2>5, <2>9, <2>10, <2>11, <2>12 DEF Placed
<1>. QED
  BY <1>4, <1>5

LEMMA MovedPlaced ==
  ASSUME Placed, phase # "authoring", UNCHANGED <<plan, phase, turns>>, outcome' # "done",
         step'.pc # "next" => step.pc # "next" /\ step'.turn = step.turn,
         TimelineTyped', 
         /\ step'.pc \in {"remember", "formation", "cadence", "auto"} => step'.turn.kind \in User
         /\ step'.pc = "maintenance" => step'.turn.kind # "Checkpoint"
         /\ step'.pc = "Maintenance" => step'.turn.kind = "Maintenance"
         /\ step'.pc \in {"Checkpoint", "probe", "recall"} => step'.turn.kind = "Checkpoint"
         /\ phase = "FormationOnly" => step'.pc \in {"next", "remember", "formation"}
         /\ phase = "PolicyOnly" => step'.pc \notin {"remember", "formation"}
  PROVE  Placed' /\ Taken' = Taken
<1>1. PlaceOK' /\ Taken' = Taken
  BY PlaceStays
<1>2. KindOK'
  BY SamePlan DEF KindOK, Placed
<1>. QED
  BY <1>1, <1>2 DEF Placed

\* A turn is known by its name.
LEMMA AskIsTyped ==
  ASSUME Placed, NEW op \in {"remember"} \cup Asks
  PROVE  step.turn \in Named /\ step.turn.name \in Nat /\ <<op, step.turn.name>> \in Ops
<1>1. step.turn \in Named
  BY DEF Placed, TimelineTyped
<1>. QED
  BY <1>1 DEF Named, Ops

LEMMA AskedTyped ==
  ASSUME Placed, NEW op \in {"remember"} \cup Asks, phase # "authoring", Asked(<<op, step.turn.name>>)
  PROVE  /\ ops' \in [Phases -> Seq(Ops)] /\ phase \in Phases
         /\ ops'[phase] = Append(ops[phase], <<op, step.turn.name>>)
         /\ \A p \in Phases \ {phase} : ops'[p] = ops[p]
<1>1. ops \in [Phases -> Seq(Ops)] /\ phase \in Phases
  BY DEF Placed, TimelineTyped
<1>2. <<op, step.turn.name>> \in Ops
  BY AskIsTyped
<1>3. Append(ops[phase], <<op, step.turn.name>>) \in Seq(Ops)
  BY <1>1, <1>2, AppendProperties
<1>. QED
  BY <1>1, <1>3 DEF Asked

LEMMA ShownTyped == ASSUME Placed PROVE Shown(step.turn) \in Seq(Nat)
<1>1. transcript \in Seq(Nat) /\ step.turn.name \in Nat
  BY AskIsTyped DEF Placed, TimelineTyped, Asks
<1>2. Append(transcript, step.turn.name) \in Seq(Nat) /\ Len(transcript) \in Nat
      /\ Len(Append(transcript, step.turn.name)) = Len(transcript) + 1
  BY <1>1, AppendProperties, LenProperties
<1>3. \A m \in {1, 2} : \A i \in m..(Len(transcript) + 1) : i \in 1..Len(Append(transcript, step.turn.name))
  BY <1>2
<1>4. \A m \in {1, 2} : SubSeq(Append(transcript, step.turn.name), m, Len(transcript) + 1) \in Seq(Nat)
  BY <1>2, <1>3, SubSeqProperties
<1>. QED
  BY <1>1, <1>4 DEF Shown

LEMMA RememberPlaced == ASSUME Placed, Remember PROVE Placed' /\ Taken' = Taken /\ phase # "authoring"
<1>1. phase # "authoring" /\ step \in [pc : Steps, turn : Named]
  BY DEF Remember, Placed, PlaceOK, TimelineTyped
<1>2. CASE ~Speakable(step.turn)
  <2>1. TimelineTyped'
    BY <1>2 DEF Remember, Abort, Placed, TimelineTyped
  <2>. QED
    BY <1>1, <1>2, <2>1, MovedPlaced DEF Remember, Abort, Placed, KindOK
<1>3. CASE Speakable(step.turn)
  <2>1. step' = [step EXCEPT !.pc = "formation"] /\ Asked(<<"remember", step.turn.name>>)
        /\ transcript' = Shown(step.turn) /\ background' = Ingested
        /\ UNCHANGED <<plan, phase, turns, since, stalls, flux, outcome>> /\ step.pc = "remember"
        /\ outcome = "running"
    BY <1>3 DEF Remember
  <2>2. step'.pc = "formation" /\ step'.turn = step.turn
    BY <1>1, <2>1
  <2>3. ops' \in [Phases -> Seq(Ops)]
    BY <1>1, <2>1, AskedTyped
  <2>4. background' \in Grounds
    BY <2>1 DEF Ingested, Grounds, Placed, TimelineTyped
  <2>5. step' \in [pc : Steps, turn : Named]
    BY <1>1, <2>1 DEF Steps
  <2>6. TimelineTyped'
    BY <2>1, <2>3, <2>4, <2>5, ShownTyped DEF Placed, TimelineTyped
  <2>. QED
    BY <1>1, <2>1, <2>2, <2>6, MovedPlaced DEF Placed, KindOK
<1>. QED
  BY <1>1, <1>2, <1>3

LEMMA FailPlaced == ASSUME Placed, DriverFails PROVE Placed' /\ Taken' = Taken /\ phase # "authoring"
<1>1. phase # "authoring"
  BY DEF DriverFails, Placed, PlaceOK
<1>2. TimelineTyped'
  BY DEF DriverFails, Abort, Placed, TimelineTyped
<1>. QED
  BY <1>1, <1>2, MovedPlaced DEF DriverFails, Abort, Placed, KindOK

LEMMA WaitPlaced ==
  ASSUME Placed, NEW pc \in Steps \ {"next"}, NEW over, NEW goto \in Steps, Wait(pc, over, goto),
         /\ goto \in {"remember", "formation", "cadence", "auto"} => step.turn.kind \in User
         /\ goto = "maintenance" => step.turn.kind # "Checkpoint"
         /\ goto = "Maintenance" => step.turn.kind = "Maintenance"
         /\ goto \in {"Checkpoint", "probe", "recall"} => step.turn.kind = "Checkpoint"
         /\ phase = "FormationOnly" => goto \in {"next", "remember", "formation"}
         /\ phase = "PolicyOnly" => goto \notin {"remember", "formation"}
  PROVE  /\ Placed' /\ Taken' = Taken /\ phase # "authoring"
         /\ step'.pc = goto /\ step'.turn = step.turn
<1>1. phase # "authoring" /\ step \in [pc : Steps, turn : Named] /\ step' = [step EXCEPT !.pc = goto]
  BY DEF Wait, Placed, PlaceOK, TimelineTyped
<1>2. step'.pc = goto /\ step'.turn = step.turn /\ step' \in [pc : Steps, turn : Named]
  BY <1>1
<1>3. stalls' \in Nat
  BY DEF Wait, Placed, TimelineTyped
<1>4. TimelineTyped'
  BY <1>2, <1>3 DEF Wait, Placed, TimelineTyped
<1>. QED
  BY <1>1, <1>2, <1>4, MovedPlaced DEF Wait

LEMMA AwaitFormationPlaced ==
  ASSUME Placed, AwaitFormation
  PROVE  /\ Placed' /\ Taken' = Taken /\ phase # "authoring" /\ step'.turn = step.turn
         /\ step'.pc = IF phase = "FormationOnly" THEN "next" ELSE "cadence"
<1>. DEFINE goto == IF phase = "FormationOnly" THEN "next" ELSE "cadence"
<1>1. step.pc = "formation" /\ step.turn.kind \in User /\ goto \in Steps /\ "formation" \in Steps \ {"next"}
  BY DEF AwaitFormation, Wait, Placed, KindOK, Steps
<1>2. Wait("formation", Formed, goto)
  BY DEF AwaitFormation
<1>. QED
  BY <1>1, <1>2, WaitPlaced

LEMMA AwaitMaintenancePlaced ==
  ASSUME Placed, AwaitMaintenance
  PROVE  Placed' /\ Taken' = Taken /\ phase # "authoring" /\ step'.turn = step.turn /\ step'.pc = "next"
<1>1. "next" \in Steps /\ "maintenance" \in Steps \ {"next"} /\ Wait("maintenance", Consolidated, "next")
  BY DEF AwaitMaintenance, Steps
<1>. QED
  BY <1>1, WaitPlaced

LEMMA AwaitQuietPlaced ==
  ASSUME Placed, AwaitQuiet
  PROVE  Placed' /\ Taken' = Taken /\ phase # "authoring" /\ step'.turn = step.turn /\ step'.pc = "probe"
<1>1. step.pc = "Checkpoint" /\ step.turn.kind = "Checkpoint" /\ phase # "FormationOnly"
      /\ "probe" \in Steps /\ "Checkpoint" \in Steps \ {"next"} /\ Wait("Checkpoint", Consolidated, "probe")
  BY DEF AwaitQuiet, Wait, Placed, KindOK, Steps
<1>. QED
  BY <1>1, WaitPlaced

LEMMA CadencePlaced == ASSUME Placed, Cadence PROVE Placed' /\ Taken' = Taken /\ phase # "authoring"
<1>1. phase # "authoring" /\ step \in [pc : Steps, turn : Named] /\ step.pc = "cadence"
      /\ step.turn.kind \in User /\ phase # "FormationOnly" /\ outcome = "running"
  BY DEF Cadence, Placed, PlaceOK, KindOK, TimelineTyped
<1>2. PICK goto \in {"auto", "next"} : step' = [step EXCEPT !.pc = goto]
  BY DEF Cadence
<1>3. step'.pc = goto /\ step'.turn = step.turn /\ step' \in [pc : Steps, turn : Named]
  BY <1>1, <1>2 DEF Steps
<1>4. since' \in Nat
  BY DEF Cadence, Placed, TimelineTyped
<1>5. TimelineTyped'
  BY <1>3, <1>4 DEF Cadence, Placed, TimelineTyped
<1>. QED
  BY <1>1, <1>3, <1>5, MovedPlaced DEF Cadence

LEMMA MaintainPlaced ==
  ASSUME Placed, Maintain
  PROVE  Placed' /\ Taken' = Taken /\ phase # "authoring" /\ step'.pc = "maintenance" /\ step'.turn = step.turn
<1>1. phase # "authoring" /\ step \in [pc : Steps, turn : Named] /\ step.pc \in {"auto", "Maintenance"}
      /\ phase # "FormationOnly" /\ outcome = "running" /\ step.turn.kind # "Checkpoint"
  BY DEF Maintain, Placed, PlaceOK, KindOK, TimelineTyped, User
<1>2. step'.pc = "maintenance" /\ step'.turn = step.turn /\ step' \in [pc : Steps, turn : Named]
  BY <1>1 DEF Maintain, Steps
<1>3. ops' \in [Phases -> Seq(Ops)]
  BY <1>1, AskedTyped DEF Maintain, Asks
<1>4. since' \in Nat /\ background' \in Grounds
  BY DEF Maintain, Restarted, Placed, TimelineTyped, Grounds
<1>5. TimelineTyped'
  BY <1>2, <1>3, <1>4 DEF Maintain, Placed, TimelineTyped
<1>. QED
  BY <1>1, <1>2, <1>5, MovedPlaced DEF Maintain

LEMMA ProbePlaced == ASSUME Placed, Probe PROVE Placed' /\ Taken' = Taken /\ phase # "authoring"
<1>1. phase # "authoring" /\ step \in [pc : Steps, turn : Named] /\ step.pc = "probe"
      /\ phase # "FormationOnly" /\ outcome = "running" /\ step.turn.kind = "Checkpoint"
  BY DEF Probe, Placed, PlaceOK, KindOK, TimelineTyped
<1>2. CASE step.turn.input # "text"
  <2>1. TimelineTyped'
    BY <1>2 DEF Probe, Abort, Placed, TimelineTyped
  <2>. QED
    BY <1>1, <1>2, <2>1, MovedPlaced DEF Probe, Abort, Placed, KindOK
<1>3. CASE step.turn.input = "text"
  <2>1. step'.pc = "recall" /\ step'.turn = step.turn /\ step' \in [pc : Steps, turn : Named]
        /\ flux' \in BOOLEAN
    BY <1>1, <1>3 DEF Probe, Steps, InMotion, Placed, TimelineTyped
  <2>2. TimelineTyped'
    BY <1>3, <2>1 DEF Probe, Placed, TimelineTyped
  <2>. QED
    BY <1>1, <1>3, <2>1, <2>2, MovedPlaced DEF Probe
<1>. QED
  BY <1>1, <1>2, <1>3

LEMMA RecallPlaced ==
  ASSUME Placed, Recall PROVE Placed' /\ Taken' = Taken /\ phase # "authoring" /\ step'.pc = "next"
<1>1. phase # "authoring" /\ outcome = "running" /\ step' = AtRest
  BY DEF Recall, Placed, PlaceOK
<1>2. step'.pc = "next" /\ step' \in [pc : Steps, turn : Named]
  BY <1>1 DEF AtRest, Noise, Steps, Named, Kinds, User
<1>3. ops' \in [Phases -> Seq(Ops)]
  BY <1>1, AskedTyped DEF Recall, Asks
<1>4. TimelineTyped'
  BY <1>2, <1>3, ShownTyped DEF Recall, Placed, TimelineTyped
<1>. QED
  BY <1>1, <1>2, <1>4, MovedPlaced DEF Recall

\* The space under test works; the replay does not move.
Works == (\E handover \in BOOLEAN : FormationEnds(handover)) \/ FormationFails \/ MaintenanceEnds

LEMMA WorksPlaced ==
  ASSUME Placed, Works
  PROVE  /\ Placed' /\ Taken' = Taken
         /\ UNCHANGED <<plan, phase, turns, since, step, ops, transcript, stalls, flux, outcome>>
<1>1. UNCHANGED <<plan, phase, turns, since, step, ops, transcript, stalls, flux, outcome>>
  BY DEF Works, FormationEnds, FormationFails, MaintenanceEnds
<1>2. background' \in Grounds
  <2>1. background \in [formation : {"idle", "busy", "failed"}, maintenance : {"idle", "busy"}, queued : BOOLEAN]
    BY DEF Placed, TimelineTyped, Grounds
  <2>2. ASSUME NEW handover, FormationEnds(handover) PROVE background' \in Grounds
    BY <2>1, <2>2 DEF FormationEnds, Grounds
  <2>3. CASE FormationFails
    BY <2>1, <2>3 DEF FormationFails, Grounds
  <2>4. CASE MaintenanceEnds
    <3>. DEFINE f == IF background.queued THEN "busy" ELSE background.formation
                q == background.queued /\ background.formation = "busy"
    <3>1. f \in {"idle", "busy", "failed"} /\ q \in BOOLEAN
      BY <2>1
    <3>2. background' = [formation |-> f, maintenance |-> "idle", queued |-> q]
      BY <2>4 DEF MaintenanceEnds
    <3>. HIDE DEF f, q
    <3>. QED
      BY <3>1, <3>2 DEF Grounds
  <2>. QED
    BY <2>2, <2>3, <2>4 DEF Works
<1>3. TimelineTyped'
  BY <1>1, <1>2 DEF Placed, TimelineTyped
<1>4. PlaceOK' /\ KindOK' /\ Taken' = Taken
  BY <1>1, SamePlan DEF Placed, PlaceOK, KindOK, Taken
<1>. QED
  BY <1>1, <1>3, <1>4 DEF Placed

LEMMA PlansAreRunnable == ASSUME Placed PROVE ValidPlansAreRunnable
<1>1. SUFFICES ASSUME Valid, outcome = "running"
               PROVE  /\ step.pc = "remember" => Speakable(step.turn)
                      /\ step.pc = "probe" => step.turn.input = "text"
  BY DEF ValidPlansAreRunnable
<1>2. SUFFICES ASSUME step.pc \in {"remember", "probe"} PROVE step.turn.input = "text"
  BY DEF Speakable
<1>3. phase # "authoring"
  BY <1>1 DEF Placed, PlaceOK
<1>4. Taken \in 1..Len(effective_timeline) /\ step.turn = effective_timeline[Taken]
  BY <1>2, <1>3, Here
<1>5. step.turn.kind # "Maintenance"
  BY <1>2 DEF Placed, KindOK, User
<1>6. effective_timeline[Taken].kind = "Maintenance" \/ effective_timeline[Taken].input = "text"
  BY <1>1, <1>3, <1>4, TimelineIs DEF Placed, TimelineTyped, PlaceOK
<1>. QED
  BY <1>4, <1>5, <1>6

LEMMA NoFuture == ASSUME Placed PROVE NoMemoryOfTheFuture
<1>1. SUFFICES ASSUME phase = "PolicyOnly", step.pc = "probe", NEW i \in 1..Len(turns)
               PROVE  turns[i].kind \notin User
  BY DEF NoMemoryOfTheFuture
<1>2. /\ Taken \in 1..Len(effective_timeline) /\ step.turn = effective_timeline[Taken]
      /\ Len(turns) \in Nat /\ Len(turns) + Taken = Len(effective_timeline)
      /\ Len(effective_timeline) \in Nat
  BY <1>1, Here
<1>3. turns[i] = effective_timeline[Taken + i] /\ effective_timeline[Taken].kind = "Checkpoint" /\ Sharable
  BY <1>1, <1>2 DEF Placed, PlaceOK, KindOK
<1>4. Taken + i \in 1..Len(effective_timeline) /\ Taken < Taken + i
  BY <1>2
<1>5. Sharable => \A k, m \in 1..Len(effective_timeline) :
        k < m /\ effective_timeline[k].kind = "Checkpoint" => effective_timeline[m].kind \notin User
  BY <1>1, TimelineIs DEF Placed, TimelineTyped, PlaceOK
<1>. QED
  BY <1>2, <1>3, <1>4, <1>5

-----------------------------------------------------------------------------
(* What a checkpoint reads                                                 *)

LEMMA FluxWaits ==
  ASSUME Placed, FluxOK, AwaitFormation \/ AwaitMaintenance \/ AwaitQuiet
  PROVE  FluxOK'
<1>1. stalls \in Nat
  BY DEF Placed, TimelineTyped
<1>2. CASE AwaitFormation
  <2>1. step'.pc \in {"next", "cadence"}
    BY <1>2, AwaitFormationPlaced
  <2>2. background' = background /\ flux' = flux
        /\ ((Formed /\ stalls' = stalls) \/ stalls' = stalls + 1)
    BY <1>2 DEF AwaitFormation, Wait
  <2>. QED
    BY <1>1, <2>1, <2>2 DEF FluxOK, Formed
<1>3. CASE AwaitMaintenance
  <2>1. step'.pc = "next" /\ step.pc = "maintenance" /\ background' = background /\ flux' = flux
        /\ (stalls' = stalls \/ stalls' = stalls + 1)
    BY <1>3, AwaitMaintenancePlaced DEF AwaitMaintenance, Wait
  <2>. QED
    BY <1>1, <2>1 DEF FluxOK
<1>4. CASE AwaitQuiet
  <2>1. step'.pc = "probe" /\ step.pc = "Checkpoint" /\ background' = background /\ flux' = flux
        /\ ((Consolidated /\ stalls' = stalls) \/ stalls' = stalls + 1)
    BY <1>4, AwaitQuietPlaced DEF AwaitQuiet, Wait
  <2>. QED
    BY <1>1, <2>1 DEF FluxOK, Consolidated
<1>. QED
  BY <1>2, <1>3, <1>4

LEMMA FluxWorks == ASSUME Placed, FluxOK, Works PROVE FluxOK'
<1>1. UNCHANGED <<step, stalls, flux>> /\ stalls \in Nat
  BY WorksPlaced DEF Placed, TimelineTyped
<1>2. background \in [formation : {"idle", "busy", "failed"}, maintenance : {"idle", "busy"}, queued : BOOLEAN]
  BY DEF Placed, TimelineTyped, Grounds
<1>3. SUFFICES ASSUME stalls = 0, step.pc # "formation"
               PROVE  /\ background'.formation = "idle" /\ ~background'.queued
                      /\ step.pc \in {"probe", "recall"} => background'.maintenance = "idle"
  <2>1. CASE stalls = 0 /\ step.pc # "formation"
    BY <1>1, <1>3, <2>1 DEF FluxOK
  <2>2. CASE stalls # 0 \/ step.pc = "formation"
    BY <1>1, <2>2 DEF FluxOK
  <2>. QED
    BY <2>1, <2>2
<1>4. background.formation = "idle" /\ ~background.queued
      /\ (step.pc \in {"probe", "recall"} => background.maintenance = "idle")
  BY <1>3 DEF FluxOK
<1>5. MaintenanceEnds
  BY <1>4 DEF Works, FormationEnds, FormationFails
<1>. QED
  BY <1>4, <1>5 DEF MaintenanceEnds

LEMMA FluxActs ==
  ASSUME Placed, FluxOK, Remember \/ Maintain \/ Probe \/ Recall \/ Cadence \/ DriverFails
  PROVE  FluxOK'
<1>1. stalls \in Nat /\ step \in [pc : Steps, turn : Named] /\ background \in Grounds
  BY DEF Placed, TimelineTyped
<1>2. CASE Remember
  <2>1. UNCHANGED <<stalls, flux>> /\ (step' = [step EXCEPT !.pc = "formation"] \/ UNCHANGED <<step, background>>)
    BY <1>2 DEF Remember, Abort
  <2>. QED
    BY <1>1, <2>1 DEF FluxOK
<1>3. CASE Maintain
  <2>1. step'.pc = "maintenance" /\ step.pc # "formation" /\ UNCHANGED <<stalls, flux>>
        /\ background' = [background EXCEPT !.maintenance = "busy"]
    BY <1>3, MaintainPlaced DEF Maintain
  <2>2. background'.formation = background.formation /\ background'.queued = background.queued
    BY <1>1, <2>1 DEF Grounds
  <2>. QED
    BY <2>1, <2>2 DEF FluxOK
<1>4. CASE Probe
  <2>1. step.pc = "probe" /\ UNCHANGED <<stalls, background>>
    BY <1>4 DEF Probe
  <2>2. step'.pc \in {"probe", "recall"} /\ (flux' => flux \/ InMotion)
    BY <1>1, <1>4, <2>1 DEF Probe, Abort
  <2>3. stalls > 0 \/ (stalls = 0 /\ ~InMotion /\ ~flux)
    BY <1>1, <2>1 DEF FluxOK, InMotion
  <2>. QED
    BY <2>1, <2>2, <2>3 DEF FluxOK
<1>5. CASE Recall
  <2>1. step'.pc = "next" /\ step.pc = "recall" /\ UNCHANGED <<stalls, background, flux>>
    BY <1>5, RecallPlaced DEF Recall
  <2>. QED
    BY <2>1 DEF FluxOK
<1>6. CASE Cadence
  <2>1. step'.pc \in {"auto", "next"} /\ step.pc = "cadence" /\ UNCHANGED <<stalls, background, flux>>
    BY <1>1, <1>6 DEF Cadence
  <2>. QED
    BY <2>1 DEF FluxOK
<1>7. CASE DriverFails
  BY <1>7 DEF DriverFails, Abort, FluxOK
<1>. QED
  BY <1>2, <1>3, <1>4, <1>5, <1>6, <1>7

LEMMA FluxTurns ==
  ASSUME Placed, FluxOK, (\E t \in Turns : Author(t)) \/ Start \/ NextTurn
  PROVE  FluxOK'
<1>1. CASE \E t \in Turns : Author(t)
  BY <1>1 DEF Author, FluxOK
<1>2. CASE Start
  BY <1>2 DEF Start, FluxOK, Quiescent, AtRest
<1>3. CASE NextTurn
  <2>1. step.pc = "next" /\ UNCHANGED <<stalls, background, flux>>
    BY <1>3 DEF NextTurn
  <2>2. step'.pc \notin {"formation", "probe", "recall"}
    <3>1. CASE turns = <<>>
      BY <1>3, <2>1, <3>1 DEF NextTurn
    <3>2. CASE turns # <<>>
      <4>1. Head(turns) \in Named
        <5>1. turns \in Seq(Named)
          BY <1>3, NextTurnPlaced, Here
        <5>. QED
          BY <3>2, <5>1, HeadTailProperties
      <4>2. Head(turns).kind \notin {"formation", "probe", "recall"}
        BY <4>1 DEF Named, Kinds, User
      <4>. QED
        BY <1>3, <3>2, <4>2 DEF NextTurn
    <3>. QED
      BY <3>1, <3>2
  <2>. QED
    BY <2>1, <2>2 DEF FluxOK
<1>. QED
  BY <1>1, <1>2, <1>3

-----------------------------------------------------------------------------
(* The phases ask what the timeline says                                   *)

Following == WordsFollow /\ AsksFollow /\ PhasesOK

LEMMA PhasesStay ==
  ASSUME PhasesOK, UNCHANGED <<plan, phase>>, phase \in Phases,
         \A p \in Phases \ {phase} : ops'[p] = ops[p]
  PROVE  PhasesOK'
<1>1. Reference' = Reference /\ effective_timeline' = effective_timeline
  BY SamePlan
<1>2. \A p \in Phases \ {phase} : \A what : Picked(ops'[p], what) = Picked(ops[p], what)
  OBVIOUS
<1>3. {"Full", "FormationOnly", "PolicyOnly"} = Phases /\ "authoring" \notin Phases
  BY DEF Phases
<1>4. CASE phase = "Full"
  BY <1>1, <1>3, <1>4 DEF PhasesOK
<1>5. CASE phase = "FormationOnly"
  BY <1>1, <1>2, <1>3, <1>5 DEF PhasesOK, Kept
<1>6. CASE phase = "PolicyOnly"
  BY <1>1, <1>2, <1>3, <1>6 DEF PhasesOK, Kept
<1>. QED
  BY <1>3, <1>4, <1>5, <1>6

LEMMA AbortFollows ==
  ASSUME Placed, Following, phase # "authoring", UNCHANGED <<plan, phase>>, Abort
  PROVE  Following'
<1>1. PhasesOK'
  BY PhasesStay DEF Following, Abort, Placed, TimelineTyped
<1>. QED
  BY <1>1 DEF Following, WordsFollow, AsksFollow, Ran, Abort

\* Nothing is asked, and the reference stays where it is.
LEMMA FollowStays ==
  ASSUME Placed, Following, phase # "authoring", UNCHANGED <<plan, phase, ops, since>>, Taken' = Taken,
         Ran' => Ran,
         step.pc = "remember" <=> step'.pc = "remember",
         phase = "FormationOnly" \/
           (step.pc \in {"next", "maintenance"} <=> step'.pc \in {"next", "maintenance"}),
         step'.pc = "auto" => step.pc = "auto" \/ (plan.every > 0 /\ since + 1 >= plan.every)
  PROVE  Following'
<1>1. PhasesOK'
  BY PhasesStay DEF Following, Placed, TimelineTyped
<1>2. Reference' = Reference /\ Told' = Told /\ Bade' = Bade
  BY SamePlan DEF Told, Bade, Kept
<1>3. WordsFollow'
  BY <1>2 DEF Following, WordsFollow
<1>4. AsksFollow'
  BY <1>2 DEF Following, AsksFollow
<1>. QED
  BY <1>1, <1>3, <1>4 DEF Following

\* The turn at hand is what the reference does next.
LEMMA TurnFollows ==
  ASSUME Placed, phase # "authoring", step.pc # "next"
  PROVE  /\ Reference[Taken] = After(Reference[Taken - 1], step.turn)
         /\ Reference[Taken - 1] \in References
<1>1. /\ effective_timeline \in Seq(Named) /\ Taken \in 1..Len(effective_timeline)
      /\ step.turn = effective_timeline[Taken] /\ Len(effective_timeline) \in Nat
  BY Here
<1>2. Taken - 1 \in 0..Len(effective_timeline)
  BY <1>1
<1>. QED
  BY <1>1, <1>2, ReferenceIs

LEMMA AskGrows ==
  ASSUME Placed, NEW op \in {"remember"} \cup Asks, phase # "authoring", Asked(<<op, step.turn.name>>),
         UNCHANGED phase
  PROVE  /\ phase = "Full" \/ (phase = "FormationOnly" /\ op = "remember") =>
              Told' = IF op = "remember" THEN Append(Told, <<op, step.turn.name>>) ELSE Told
         /\ phase = "Full" \/ (phase = "PolicyOnly" /\ op # "remember") =>
              Bade' = IF op # "remember" THEN Append(Bade, <<op, step.turn.name>>) ELSE Bade
<1>. DEFINE e == <<op, step.turn.name>>
<1>1. phase \in Phases /\ ops'[phase] = Append(ops[phase], e) /\ ops[phase] \in Seq(Ops) /\ e \in Ops
  BY AskedTyped, AskIsTyped DEF Placed, TimelineTyped
<1>2. step.turn.name \in Nat
  BY AskIsTyped
<1>3. e \in {"remember"} \X Nat <=> op = "remember"
  BY <1>2
<1>4. e \in Asks \X Nat <=> op # "remember"
  BY <1>2 DEF Asks
<1>. HIDE DEF e
<1>5. \A what : Picked(Append(ops[phase], e), what) =
                  IF e \in what THEN Append(Picked(ops[phase], what), e) ELSE Picked(ops[phase], what)
  <2>. DEFINE list == ops[phase]
  <2>1. list \in Seq(Ops) /\ e \in Ops
    BY <1>1
  <2>. HIDE DEF list
  <2>2. ASSUME NEW what
        PROVE  PickGrows(list, e, what)
    BY <2>1, PickedGrows
  <2>. QED
    BY <2>2 DEF list, PickGrows
<1>6. CASE phase = "Full"
  BY <1>1, <1>3, <1>4, <1>5, <1>6 DEF Told, Bade, Kept, e
<1>7. CASE phase # "Full"
  BY <1>1, <1>7 DEF Told, Bade, e
<1>. QED
  BY <1>6, <1>7

LEMMA AskFollowsPhases ==
  ASSUME Placed, Following, NEW op \in {"remember"} \cup Asks, phase # "authoring",
         Asked(<<op, step.turn.name>>), UNCHANGED <<plan, phase>>
  PROVE  PhasesOK'
BY AskedTyped, PhasesStay DEF Following

LEMMA RememberFollows == ASSUME Placed, Following, Remember PROVE Following'
<1>1. phase # "authoring" /\ Taken' = Taken
  BY RememberPlaced
<1>2. CASE ~Speakable(step.turn)
  BY <1>1, <1>2, AbortFollows DEF Remember
<1>3. CASE Speakable(step.turn)
  <2>1. /\ Asked(<<"remember", step.turn.name>>) /\ UNCHANGED <<plan, phase, since, outcome>>
        /\ step.pc = "remember" /\ step'.pc = "formation"
    BY <1>3 DEF Remember, Placed, TimelineTyped
  <2>2. step.turn.kind \in User /\ phase \in {"Full", "FormationOnly"}
    BY <1>1, <2>1 DEF Placed, KindOK, TimelineTyped, Phases
  <2>3. Reference' = Reference /\ Reference[Taken] = After(Reference[Taken - 1], step.turn)
    BY <1>1, <2>1, SamePlan, TurnFollows
  <2>4. PhasesOK'
    BY <1>1, <2>1, AskFollowsPhases
  <2>5. Told' = Append(Told, <<"remember", step.turn.name>>) /\ (phase = "Full" => Bade' = Bade)
    BY <1>1, <2>1, <2>2, AskGrows
  <2>6. WordsFollow'
    <3>1. Reference[Taken].words = Append(Reference[Taken - 1].words, <<"remember", step.turn.name>>)
      BY <2>2, <2>3 DEF After
    <3>. QED
      BY <1>1, <2>1, <2>2, <2>3, <2>5, <3>1 DEF Following, WordsFollow, Ran
  <2>7. AsksFollow'
    BY <1>1, <2>1, <2>2, <2>3, <2>5 DEF Following, AsksFollow, Ran
  <2>. QED
    BY <2>4, <2>6, <2>7 DEF Following
<1>. QED
  BY <1>2, <1>3

LEMMA CadenceFollows == ASSUME Placed, Following, Cadence PROVE Following'
<1>1. /\ phase # "authoring" /\ Taken' = Taken /\ UNCHANGED <<plan, phase, ops, outcome>>
      /\ step.pc = "cadence"
  BY CadencePlaced DEF Cadence
<1>2. step.turn.kind \in User /\ phase # "FormationOnly" /\ since \in Nat /\ plan.every \in Nat
  BY <1>1 DEF Placed, KindOK, TimelineTyped
<1>3. CASE plan.every > 0 /\ since + 1 >= plan.every
  <2>1. since' = since /\ step'.pc = "auto"
    BY <1>2, <1>3 DEF Cadence, CountsTurn, Placed, TimelineTyped
  <2>. QED
    BY <1>1, <1>3, <2>1, FollowStays DEF Ran
<1>4. CASE ~(plan.every > 0 /\ since + 1 >= plan.every)
  <2>1. since' = since + 1 /\ step'.pc = "next"
    BY <1>2, <1>4 DEF Cadence, CountsTurn, Placed, TimelineTyped
  <2>2. Reference' = Reference /\ Reference[Taken] = After(Reference[Taken - 1], step.turn)
        /\ Told' = Told /\ Bade' = Bade
    BY <1>1, SamePlan, TurnFollows DEF Told, Bade, Kept
  <2>3. PhasesOK'
    BY <1>1, PhasesStay DEF Following, Placed, TimelineTyped
  <2>4. WordsFollow'
    BY <1>1, <2>1, <2>2 DEF Following, WordsFollow, Ran
  <2>5. AsksFollow'
    <3>1. SUFFICES ASSUME Ran PROVE AsksFollow'
      BY <1>1 DEF AsksFollow, Ran
    <3>2. Bade = Reference[Taken - 1].asks /\ since = Reference[Taken - 1].since
      BY <1>1, <1>2, <3>1 DEF Following, AsksFollow, Placed, TimelineTyped, Phases
    <3>3. Reference[Taken].asks = Reference[Taken - 1].asks /\ Reference[Taken].since = since + 1
      BY <1>2, <1>4, <2>2, <3>2 DEF After
    <3>. QED
      BY <1>1, <2>1, <2>2, <3>2, <3>3 DEF AsksFollow
  <2>. QED
    BY <2>3, <2>4, <2>5 DEF Following
<1>. QED
  BY <1>3, <1>4

\* What is no word comes last in its turn.
LEMMA AskFollows ==
  ASSUME Placed, Following, NEW op \in Asks, phase \in {"Full", "PolicyOnly"},
         Asked(<<op, step.turn.name>>), UNCHANGED <<plan, phase, outcome>>, Taken' = Taken, outcome = "running",
         step.pc \notin {"next", "maintenance", "remember"}, step'.pc \in {"next", "maintenance"},
         LET ref == After(Reference[Taken - 1], step.turn) IN
           /\ ref.asks = Append(Reference[Taken - 1].asks, <<op, step.turn.name>>)
           /\ ref.since = since'
  PROVE  Following'
<1>1. op \in {"remember"} \cup Asks /\ op # "remember" /\ phase # "authoring"
  BY DEF Asks
<1>2. PhasesOK'
  BY <1>1, AskFollowsPhases
<1>3. (phase = "Full" => Told' = Told) /\ Bade' = Append(Bade, <<op, step.turn.name>>)
  BY <1>1, AskGrows
<1>4. Reference' = Reference /\ Reference[Taken] = After(Reference[Taken - 1], step.turn)
  BY <1>1, SamePlan, TurnFollows
<1>5. WordsFollow'
  BY <1>3, <1>4 DEF Following, WordsFollow, Ran
<1>6. Bade = Reference[Taken - 1].asks
  BY DEF Following, AsksFollow, Ran
<1>7. AsksFollow'
  BY <1>3, <1>4, <1>6 DEF AsksFollow
<1>. QED
  BY <1>2, <1>5, <1>7 DEF Following

LEMMA MaintainFollows == ASSUME Placed, Following, Maintain PROVE Following'
<1>1. /\ phase # "authoring" /\ Taken' = Taken /\ UNCHANGED <<plan, phase, outcome>> /\ outcome = "running"
      /\ step'.pc = "maintenance" /\ step.pc \in {"auto", "Maintenance"} /\ since' = 0
      /\ Asked(<<step.pc, step.turn.name>>)
  BY MaintainPlaced DEF Maintain, Restarted
<1>2. phase \in {"Full", "PolicyOnly"} /\ step.pc \in Asks
  BY <1>1 DEF Placed, KindOK, TimelineTyped, Phases, Asks
<1>3. since = Reference[Taken - 1].since /\ (step.pc = "auto" => plan.every > 0 /\ since + 1 >= plan.every)
  BY <1>1, <1>2 DEF Following, AsksFollow, Ran
<1>4. LET ref == After(Reference[Taken - 1], step.turn) IN
        /\ ref.asks = Append(Reference[Taken - 1].asks, <<step.pc, step.turn.name>>)
        /\ ref.since = 0
  <2>1. CASE step.pc = "auto"
    <3>1. step.turn.kind \in User
      BY <2>1 DEF Placed, KindOK
    <3>. QED
      BY <1>3, <2>1, <3>1 DEF After
  <2>2. CASE step.pc = "Maintenance"
    <3>1. step.turn.kind = "Maintenance" /\ step.turn.kind \notin User
      BY <2>2 DEF Placed, KindOK, User
    <3>. QED
      BY <2>2, <3>1 DEF After
  <2>. QED
    BY <1>1, <2>1, <2>2
<1>. QED
  BY <1>1, <1>2, <1>4, AskFollows

LEMMA RecallFollows == ASSUME Placed, Following, Recall PROVE Following'
<1>1. /\ phase # "authoring" /\ Taken' = Taken /\ UNCHANGED <<plan, phase, outcome, since>> /\ outcome = "running"
      /\ step'.pc = "next" /\ step.pc = "recall" /\ Asked(<<"recall", step.turn.name>>)
  BY RecallPlaced DEF Recall
<1>2. phase \in {"Full", "PolicyOnly"} /\ "recall" \in Asks
  BY <1>1 DEF Placed, KindOK, TimelineTyped, Phases, Asks
<1>3. since = Reference[Taken - 1].since
  BY <1>1, <1>2 DEF Following, AsksFollow, Ran
<1>4. step.turn.kind \notin User /\ step.turn.kind # "Maintenance"
  BY <1>1 DEF Placed, KindOK, User
<1>5. LET ref == After(Reference[Taken - 1], step.turn) IN
        /\ ref.asks = Append(Reference[Taken - 1].asks, <<"recall", step.turn.name>>)
        /\ ref.since = since'
  BY <1>1, <1>3, <1>4 DEF After
<1>. QED
  BY <1>1, <1>2, <1>5, AskFollows

LEMMA StartFollows == ASSUME Placed, Following, Start PROVE Following'
<1>1. /\ plan' = plan /\ ops' = ops /\ Taken' = 0 /\ step'.pc = "next" /\ since' = 0
      /\ Reference' = Reference /\ effective_timeline' = effective_timeline
  BY StartPlaced, SamePlan DEF Start, AtRest
<1>2. effective_timeline \in Seq(Named) /\ Reference[0] = NoAsks
  BY TimelineIs, ReferenceIs DEF Start, Placed, PlaceOK, TimelineTyped
<1>3. CASE phase = "authoring" /\ phase' = "Full"
  <2>1. ops["Full"] = <<>> /\ ops["FormationOnly"] = <<>> /\ ops["PolicyOnly"] = <<>>
    BY <1>3 DEF Following, PhasesOK
  <2>2. Told' = <<>> /\ Bade' = <<>>
    BY <1>1, <1>3, <2>1, NonePicked DEF Told, Bade, Kept
  <2>3. WordsFollow' /\ AsksFollow'
    BY <1>1, <1>2, <1>3, <2>2 DEF WordsFollow, AsksFollow, NoAsks
  <2>4. PhasesOK'
    BY <1>1, <1>3, <2>1 DEF PhasesOK
  <2>. QED
    BY <2>3, <2>4 DEF Following
<1>4. CASE phase = "Full" /\ outcome = "done" /\ phase' = "FormationOnly"
  <2>1. turns = <<>> /\ step.pc = "next" /\ Taken = Len(effective_timeline)
    <3>1. turns = <<>> /\ step.pc = "next"
      BY <1>4 DEF Placed, PlaceOK
    <3>2. Len(turns) = 0 /\ Len(turns) + Taken = Len(effective_timeline) /\ Taken \in 0..Len(effective_timeline)
      BY <1>4, <3>1, Here
    <3>3. Len(effective_timeline) \in Nat
      BY <1>4, Here
    <3>. QED
      BY <3>1, <3>2, <3>3
  <2>2. /\ Kept("Full", {"remember"}) = Reference[Len(effective_timeline)].words
        /\ Kept("Full", Asks) = Reference[Len(effective_timeline)].asks
    BY <1>4, <2>1 DEF Following, WordsFollow, AsksFollow, Ran, Told, Bade
  <2>3. ops["FormationOnly"] = <<>> /\ ops["PolicyOnly"] = <<>>
    BY <1>4 DEF Following, PhasesOK
  <2>4. PhasesOK'
    BY <1>1, <1>4, <2>2, <2>3 DEF PhasesOK, Kept
  <2>5. WordsFollow' /\ AsksFollow'
    BY <1>1, <1>2, <1>4, <2>3 DEF WordsFollow, AsksFollow, Told, NoAsks
  <2>. QED
    BY <2>4, <2>5 DEF Following
<1>5. CASE phase = "FormationOnly" /\ outcome = "done" /\ phase' = "PolicyOnly"
  <2>1. turns = <<>> /\ step.pc = "next" /\ Taken = Len(effective_timeline)
    <3>1. turns = <<>> /\ step.pc = "next"
      BY <1>5 DEF Placed, PlaceOK
    <3>2. Len(turns) = 0 /\ Len(turns) + Taken = Len(effective_timeline) /\ Taken \in 0..Len(effective_timeline)
      BY <1>5, <3>1, Here
    <3>3. Len(effective_timeline) \in Nat
      BY <1>5, Here
    <3>. QED
      BY <3>1, <3>2, <3>3
  <2>2. ops["FormationOnly"] = Reference[Len(effective_timeline)].words
    BY <1>5, <2>1 DEF Following, WordsFollow, Ran, Told
  <2>3. /\ Kept("Full", {"remember"}) = Reference[Len(effective_timeline)].words
        /\ Kept("Full", Asks) = Reference[Len(effective_timeline)].asks
        /\ ops["PolicyOnly"] = <<>>
    BY <1>5 DEF Following, PhasesOK
  <2>4. PhasesOK'
    BY <1>1, <1>5, <2>2, <2>3 DEF PhasesOK, Kept
  <2>5. WordsFollow' /\ AsksFollow'
    BY <1>1, <1>2, <1>5, <2>3 DEF WordsFollow, AsksFollow, Bade, NoAsks
  <2>. QED
    BY <2>4, <2>5 DEF Following
<1>. QED
  BY <1>3, <1>4, <1>5 DEF Start

LEMMA NextTurnFollows == ASSUME Placed, Following, NextTurn PROVE Following'
<1>1. /\ phase # "authoring" /\ UNCHANGED <<plan, phase, ops, since>> /\ outcome = "running" /\ step.pc = "next"
  BY NextTurnPlaced DEF NextTurn
<1>2. CASE turns = <<>>
  <2>1. step' = step /\ Taken' = Taken
    BY <1>1, <1>2, SamePlan DEF NextTurn, Taken
  <2>. QED
    BY <1>1, <2>1, FollowStays DEF Ran
<1>3. CASE turns # <<>>
  <2>. DEFINE t == step'.turn
  <2>1. /\ Placed' /\ Taken' = Taken + 1 /\ Taken' \in 1..Len(effective_timeline)
        /\ t = effective_timeline[Taken'] /\ outcome' = outcome
    BY <1>3, NextTurnPlaced DEF NextTurn
  <2>2. effective_timeline \in Seq(Named) /\ Taken \in 0..Len(effective_timeline)
        /\ Len(effective_timeline) \in Nat
    BY <1>1, Here
  <2>3. Taken' - 1 = Taken /\ Reference[Taken'] = After(Reference[Taken], t)
    BY <2>1, <2>2, ReferenceIs
  <2>4. Reference' = Reference /\ Told' = Told /\ Bade' = Bade
    BY <1>1, SamePlan DEF Told, Bade, Kept
  <2>5. PhasesOK'
    BY <1>1, PhasesStay DEF Following, Placed, TimelineTyped
  <2>6. /\ step'.pc \in {"next", "cadence", "remember", "Maintenance", "Checkpoint"}
        /\ step'.pc = "next" => phase = "FormationOnly"
        /\ step'.pc \notin {"cadence", "remember"} => t.kind \notin User
        /\ step'.pc = "cadence" => phase = "PolicyOnly"
    <3>1. Head(turns) \in Named
      <4>1. turns \in Seq(Named)
        BY <1>1, Here
      <4>. QED
        BY <1>3, <4>1, HeadTailProperties
    <3>2. Head(turns).kind \in {"Normal", "Simulated", "Maintenance", "Checkpoint"}
      BY <3>1 DEF Named, Kinds, User
    <3>3. step' = [pc |-> CASE phase = "FormationOnly" /\ Head(turns).kind \notin User -> "next"
                            [] ~(phase = "FormationOnly" /\ Head(turns).kind \notin User) /\ Head(turns).kind \in User ->
                                 IF phase = "PolicyOnly" THEN "cadence" ELSE "remember"
                            [] OTHER -> Head(turns).kind,
                   turn |-> Head(turns)]
      BY <1>3 DEF NextTurn
    <3>. QED
      BY <3>2, <3>3 DEF User
  <2>. HIDE DEF t
  <2>7. WordsFollow'
    <3>1. SUFFICES ASSUME phase \in {"Full", "FormationOnly"}
                   PROVE  Told = Reference[IF step'.pc = "remember" THEN Taken' - 1 ELSE Taken'].words
      BY <1>1, <2>4 DEF WordsFollow
    <3>2. Told = Reference[Taken].words
      BY <1>1, <3>1 DEF Following, WordsFollow, Ran
    <3>3. step'.pc # "remember" => Reference[Taken'].words = Reference[Taken].words
      BY <2>3, <2>6, <3>1 DEF After
    <3>. QED
      BY <2>3, <3>2, <3>3
  <2>8. AsksFollow'
    <3>1. CASE phase = "FormationOnly"
      BY <1>1, <3>1 DEF AsksFollow
    <3>2. CASE phase # "FormationOnly"
      BY <1>1, <2>1, <2>3, <2>4, <2>6, <3>2 DEF Following, AsksFollow, Ran
    <3>. QED
      BY <3>1, <3>2
  <2>. QED
    BY <2>5, <2>7, <2>8 DEF Following
<1>. QED
  BY <1>2, <1>3

LEMMA OthersFollow ==
  ASSUME Placed, Following,
         AwaitFormation \/ AwaitMaintenance \/ AwaitQuiet \/ Probe \/ DriverFails \/ Works
         \/ (\E t \in Turns : Author(t))
  PROVE  Following'
<1>1. CASE AwaitFormation
  <2>1. step.pc = "formation" /\ UNCHANGED <<plan, phase, ops, since, outcome>>
    BY <1>1 DEF AwaitFormation, Wait
  <2>2. Taken' = Taken /\ phase # "authoring" /\ step'.pc = IF phase = "FormationOnly" THEN "next" ELSE "cadence"
    BY <1>1, AwaitFormationPlaced
  <2>. QED
    BY <2>1, <2>2, FollowStays DEF Ran
<1>2. CASE AwaitMaintenance
  <2>1. step.pc = "maintenance" /\ UNCHANGED <<plan, phase, ops, since, outcome>>
    BY <1>2 DEF AwaitMaintenance, Wait
  <2>2. Taken' = Taken /\ phase # "authoring" /\ step'.pc = "next"
    BY <1>2, AwaitMaintenancePlaced
  <2>. QED
    BY <2>1, <2>2, FollowStays DEF Ran
<1>3. CASE AwaitQuiet
  <2>1. step.pc = "Checkpoint" /\ UNCHANGED <<plan, phase, ops, since, outcome>>
    BY <1>3 DEF AwaitQuiet, Wait
  <2>2. Taken' = Taken /\ phase # "authoring" /\ step'.pc = "probe"
    BY <1>3, AwaitQuietPlaced
  <2>. QED
    BY <2>1, <2>2, FollowStays DEF Ran
<1>4. CASE Probe
  <2>1. phase # "authoring" /\ Taken' = Taken /\ UNCHANGED <<plan, phase>> /\ step.pc = "probe"
    BY <1>4, ProbePlaced DEF Probe
  <2>2. CASE Abort
    BY <2>1, <2>2, AbortFollows
  <2>3. CASE ~Abort
    <3>1. UNCHANGED <<ops, since, outcome>> /\ step' = [step EXCEPT !.pc = "recall"]
      BY <1>4, <2>3 DEF Probe
    <3>2. step'.pc = "recall"
      BY <3>1 DEF Placed, TimelineTyped
    <3>. QED
      BY <2>1, <3>1, <3>2, FollowStays DEF Ran
  <2>. QED
    BY <2>2, <2>3
<1>5. CASE DriverFails
  BY <1>5, FailPlaced, AbortFollows DEF DriverFails
<1>6. CASE Works
  <2>1. Taken' = Taken /\ UNCHANGED <<plan, phase, ops, since, step, outcome>>
    BY <1>6, WorksPlaced
  <2>2. phase # "authoring"
    BY <1>6 DEF Works, FormationEnds, FormationFails, MaintenanceEnds, Placed, PlaceOK
  <2>. QED
    BY <2>1, <2>2, FollowStays DEF Ran
<1>7. CASE \E t \in Turns : Author(t)
  <2>1. phase = "authoring" /\ UNCHANGED <<phase, ops, outcome>>
    BY <1>7 DEF Author
  <2>. QED
    BY <2>1 DEF Following, WordsFollow, AsksFollow, PhasesOK
<1>. QED
  BY <1>1, <1>2, <1>3, <1>4, <1>5, <1>6, <1>7

LEMMA PhasesMake == ASSUME Placed, Following PROVE PhasesMakeTheRun
<1>1. SUFFICES ASSUME phase = "PolicyOnly", outcome = "done"
               PROVE  /\ ops["FormationOnly"] = Kept("Full", {"remember"})
                      /\ ops["PolicyOnly"] = Kept("Full", Asks)
  BY DEF PhasesMakeTheRun, Asks
<1>2. turns = <<>> /\ step.pc = "next"
  BY <1>1 DEF Placed, PlaceOK
<1>3. Len(turns) + Taken = Len(effective_timeline) /\ Taken \in 0..Len(effective_timeline)
      /\ Len(effective_timeline) \in Nat /\ Len(turns) = 0
  BY <1>1, <1>2, Here
<1>4. Taken = Len(effective_timeline)
  BY <1>3
<1>5. ops["PolicyOnly"] = Reference[Len(effective_timeline)].asks
  BY <1>1, <1>2, <1>4 DEF Following, AsksFollow, Ran, Bade
<1>. QED
  BY <1>1, <1>5 DEF Following, PhasesOK

-----------------------------------------------------------------------------
(* The cadence of maintenance                                              *)

LEMMA EndsWithWord ==
  ASSUME NEW list \in Seq(Ops), NEW e \in Ops, e[1] = "remember", NEW u \in Nat, EndsIn(list, u)
  PROVE  EndsIn(Append(list, e), u + 1)
<1>. DEFINE more == Append(list, e)   n == Len(list)
<1>1. n \in Nat /\ Len(more) = n + 1 /\ (\A i \in 1..n : more[i] = list[i]) /\ more[n + 1] = e
  BY LenProperties, AppendProperties
<1>. HIDE DEF more, n
<1>2. u <= n /\ (\A i \in 1..n : n - u < i => list[i][1] = "remember")
      /\ (u < n => list[n - u][1] # "remember")
  BY DEF EndsIn, n
<1>3. u + 1 <= n + 1 /\ (n + 1) - (u + 1) = n - u
  BY <1>1, <1>2
<1>4. ASSUME NEW i \in 1..(n + 1), n - u < i PROVE more[i][1] = "remember"
  <2>1. CASE i = n + 1
    BY <1>1, <2>1
  <2>2. CASE i # n + 1
    <3>1. i \in 1..n
      BY <1>1, <2>2
    <3>. QED
      BY <1>1, <1>2, <1>4, <3>1
  <2>. QED
    BY <2>1, <2>2
<1>5. u < n => n - u \in 1..n
  BY <1>1
<1>6. u + 1 < n + 1 => more[n - u][1] # "remember"
  BY <1>1, <1>2, <1>5
<1>. QED
  BY <1>1, <1>3, <1>4, <1>6 DEF EndsIn, more

LEMMA EndsWithMaintenance ==
  ASSUME NEW list \in Seq(Ops), NEW e \in Ops, e[1] # "remember"
  PROVE  EndsIn(Append(list, e), 0)
<1>. DEFINE more == Append(list, e)   n == Len(list)
<1>1. n \in Nat /\ Len(more) = n + 1 /\ more[n + 1] = e
  BY LenProperties, AppendProperties
<1>. HIDE DEF more
<1>. QED
  BY <1>1 DEF EndsIn, more

LEMMA DatedGrows ==
  ASSUME Placed, NEW op \in {"remember"} \cup Asks, phase = "Full", Asked(<<op, step.turn.name>>)
  PROVE  /\ Kept("Full", Dated) \in Seq(Ops) /\ <<op, step.turn.name>> \in Ops
         /\ Kept("Full", Dated)' = IF op \in Dated THEN Append(Kept("Full", Dated), <<op, step.turn.name>>)
                                   ELSE Kept("Full", Dated)
<1>. DEFINE e == <<op, step.turn.name>>   list == ops["Full"]
<1>1. ops'["Full"] = Append(list, e) /\ list \in Seq(Ops) /\ e \in Ops
  BY AskedTyped, AskIsTyped DEF Placed, TimelineTyped
<1>2. e \in Dated \X Nat <=> op \in Dated
  BY AskIsTyped
<1>. HIDE DEF e, list
<1>3. PickGrows(list, e, Dated \X Nat) /\ Picked(list, Dated \X Nat) \in Seq(Ops)
  BY <1>1, PickedGrows, PickedTyped
<1>4. Kept("Full", Dated) = Picked(list, Dated \X Nat)
      /\ Kept("Full", Dated)' = Picked(Append(list, e), Dated \X Nat)
  BY <1>1 DEF Kept, list
<1>. QED
  BY <1>1, <1>2, <1>3, <1>4 DEF PickGrows, e

LEMMA CadenceStays ==
  ASSUME CadenceOK, UNCHANGED <<plan, phase, ops, since>>, outcome' = "running" => outcome = "running",
         phase = "Full" /\ outcome' = "running" => Unsettled' = Unsettled
  PROVE  CadenceOK'
<1>1. Kept("Full", Dated)' = Kept("Full", Dated)
  BY DEF Kept
<1>. QED
  BY <1>1 DEF CadenceOK

LEMMA CadenceStarts == ASSUME Placed, PhasesOK, Start PROVE CadenceOK'
<1>1. SUFFICES ASSUME phase' = "Full" PROVE CadenceOK'
  BY DEF CadenceOK
<1>2. ops'["Full"] = <<>> /\ since' = 0 /\ step'.pc = "next" /\ plan' = plan
  BY <1>1 DEF Start, PhasesOK, AtRest
<1>3. Kept("Full", Dated)' = <<>> /\ Len(<<>>) = 0
  BY <1>2, NonePicked, EmptySeq DEF Kept
<1>4. EndsIn(<<>>, 0)
  BY <1>3 DEF EndsIn
<1>. QED
  BY <1>2, <1>3, <1>4 DEF CadenceOK, Unsettled

LEMMA CadenceTurns ==
  ASSUME Placed, CadenceOK, NextTurn \/ AwaitFormation \/ AwaitMaintenance \/ AwaitQuiet \/ Works \/ DriverFails
                            \/ Probe \/ (\E t \in Turns : Author(t))
  PROVE  CadenceOK'
<1>1. CASE NextTurn
  <2>1. UNCHANGED <<plan, phase, ops, since>> /\ step.pc = "next" /\ outcome = "running" /\ Placed'
    BY <1>1, NextTurnPlaced DEF NextTurn
  <2>2. CASE turns = <<>>
    BY <1>1, <2>1, <2>2, CadenceStays DEF NextTurn
  <2>3. CASE turns # <<>>
    <3>1. Head(turns) \in Named
      <4>1. turns \in Seq(Named)
        BY <1>1, NextTurnPlaced, Here
      <4>. QED
        BY <2>3, <4>1, HeadTailProperties
    <3>2. phase = "Full" => step'.pc \notin {"formation", "cadence", "auto"}
      BY <1>1, <2>3, <3>1 DEF NextTurn, Named, Kinds, User
    <3>. QED
      BY <2>1, <3>2, CadenceStays DEF Unsettled
  <2>. QED
    BY <2>2, <2>3
<1>2. CASE AwaitFormation
  <2>1. UNCHANGED <<plan, phase, ops, since, outcome>> /\ step.pc = "formation"
    BY <1>2 DEF AwaitFormation, Wait
  <2>2. phase = "Full" => step'.pc = "cadence"
    BY <1>2, AwaitFormationPlaced
  <2>. QED
    BY <2>1, <2>2, CadenceStays DEF Unsettled
<1>3. CASE AwaitMaintenance
  <2>1. UNCHANGED <<plan, phase, ops, since, outcome>> /\ step.pc = "maintenance" /\ step'.pc = "next"
    BY <1>3, AwaitMaintenancePlaced DEF AwaitMaintenance, Wait
  <2>. QED
    BY <2>1, CadenceStays DEF Unsettled
<1>4. CASE AwaitQuiet
  <2>1. UNCHANGED <<plan, phase, ops, since, outcome>> /\ step.pc = "Checkpoint" /\ step'.pc = "probe"
    BY <1>4, AwaitQuietPlaced DEF AwaitQuiet, Wait
  <2>. QED
    BY <2>1, CadenceStays DEF Unsettled
<1>5. CASE Works
  BY <1>5, WorksPlaced, CadenceStays DEF Unsettled
<1>6. CASE DriverFails
  BY <1>6 DEF DriverFails, Abort, CadenceOK
<1>7. CASE Probe
  <2>1. CASE Abort
    BY <2>1 DEF Abort, CadenceOK
  <2>2. CASE ~Abort
    <3>1. UNCHANGED <<plan, phase, ops, since, outcome>> /\ step.pc = "probe" /\ step' = [step EXCEPT !.pc = "recall"]
      BY <1>7, <2>2 DEF Probe
    <3>2. step'.pc = "recall"
      BY <3>1 DEF Placed, TimelineTyped
    <3>. QED
      BY <3>1, <3>2, CadenceStays DEF Unsettled
  <2>. QED
    BY <2>1, <2>2
<1>8. CASE \E t \in Turns : Author(t)
  BY <1>8 DEF Author, CadenceOK
<1>. QED
  BY <1>1, <1>2, <1>3, <1>4, <1>5, <1>6, <1>7, <1>8

LEMMA CadenceActs ==
  ASSUME Placed, CadenceOK, Remember \/ Cadence \/ Maintain \/ Recall
  PROVE  CadenceOK'
<1>1. SUFFICES ASSUME phase = "Full", outcome' = "running" PROVE CadenceOK'
  BY DEF CadenceOK, Remember, Cadence, Maintain, Recall
<1>2. /\ plan' = plan /\ phase' = phase /\ outcome = "running" /\ since \in Nat /\ plan.every \in Nat
      /\ step \in [pc : Steps, turn : Named]
  BY DEF Remember, Cadence, Maintain, Recall, Placed, TimelineTyped
<1>3. /\ plan.every > 0 => since < plan.every
      /\ EndsIn(Kept("Full", Dated), Unsettled)
  BY <1>1, <1>2 DEF CadenceOK
<1>4. SUFFICES /\ plan.every > 0 => since' < plan.every
               /\ EndsIn(Kept("Full", Dated)', Unsettled')
  BY <1>1, <1>2 DEF CadenceOK
<1>5. CASE Remember
  <2>1. Asked(<<"remember", step.turn.name>>) /\ since' = since /\ step.pc = "remember" /\ step'.pc = "formation"
    BY <1>1, <1>2, <1>5 DEF Remember, Abort
  <2>2. /\ Kept("Full", Dated) \in Seq(Ops) /\ <<"remember", step.turn.name>> \in Ops
        /\ Kept("Full", Dated)' = Append(Kept("Full", Dated), <<"remember", step.turn.name>>)
    BY <1>1, <2>1, DatedGrows DEF Dated
  <2>3. Unsettled = since /\ Unsettled' = since + 1
    BY <2>1 DEF Unsettled
  <2>. QED
    BY <1>2, <1>3, <2>1, <2>2, <2>3, EndsWithWord
<1>6. CASE Cadence
  <2>1. step.pc = "cadence" /\ ops' = ops
    BY <1>6 DEF Cadence
  <2>2. Kept("Full", Dated)' = Kept("Full", Dated)
    BY <2>1 DEF Kept
  <2>3. \/ since' = since /\ step'.pc = "auto"
        \/ since' = since + 1 /\ step'.pc = "next" /\ ~(plan.every > 0 /\ since + 1 >= plan.every)
    BY <1>1, <1>2, <1>6 DEF Cadence, CountsTurn, Steps
  <2>4. Unsettled' = Unsettled
    BY <2>1, <2>3 DEF Unsettled
  <2>. QED
    BY <1>2, <1>3, <2>2, <2>3, <2>4
<1>7. CASE Maintain
  <2>1. /\ step.pc \in {"auto", "Maintenance"} /\ Asked(<<step.pc, step.turn.name>>) /\ since' = 0
        /\ step'.pc = "maintenance"
    BY <1>2, <1>7 DEF Maintain, Restarted, Steps
  <2>2. /\ Kept("Full", Dated) \in Seq(Ops) /\ <<step.pc, step.turn.name>> \in Ops
        /\ Kept("Full", Dated)' = Append(Kept("Full", Dated), <<step.pc, step.turn.name>>)
    BY <1>1, <2>1, DatedGrows DEF Dated, Asks
  <2>3. Unsettled' = 0
    BY <2>1 DEF Unsettled
  <2>. QED
    BY <1>2, <2>1, <2>2, <2>3, EndsWithMaintenance
<1>8. CASE Recall
  <2>1. Asked(<<"recall", step.turn.name>>) /\ since' = since /\ step.pc = "recall" /\ step'.pc = "next"
    BY <1>8 DEF Recall, AtRest
  <2>2. Kept("Full", Dated)' = Kept("Full", Dated)
    BY <1>1, <2>1, DatedGrows DEF Dated, Asks
  <2>3. Unsettled' = Unsettled
    BY <2>1 DEF Unsettled
  <2>. QED
    BY <1>3, <2>1, <2>2, <2>3
<1>. QED
  BY <1>5, <1>6, <1>7, <1>8

LEMMA CadenceKept == ASSUME CadenceOK PROVE CadenceIsKept
<1>1. SUFFICES ASSUME plan.every > 0, outcome = "running", step.pc = "next", phase = "Full"
               PROVE  since < plan.every /\ EndsIn(Kept("Full", Dated), since)
  BY DEF CadenceIsKept, EndsIn, Dated
<1>. QED
  BY <1>1 DEF CadenceOK, Unsettled

-----------------------------------------------------------------------------
(* What the simulator is shown                                             *)

Aloud == {"remember", "recall"} \X (Nat \ {0})

\* The names of the last ones of a list.
Smaller(a, b) == IF a < b THEN a ELSE b
TailOf(said) ==
  LET shown == Smaller(Len(said), TranscriptTail)
  IN  [i \in 1..shown |-> said[Len(said) - shown + i][2]]

LEMMA TailIs ==
  ASSUME NEW said \in Seq(Ops)
  PROVE  LET shown == Smaller(Len(said), TranscriptTail) IN
         /\ shown \in 0..Len(said) /\ TailOf(said) \in Seq(Nat) /\ Len(TailOf(said)) = shown
         /\ \A i \in 1..shown : TailOf(said)[i] = said[Len(said) - shown + i][2]
<1>. DEFINE n == Len(said)   shown == Smaller(n, TranscriptTail)
<1>1. n \in Nat /\ \A i \in 1..n : said[i] \in Ops
  BY LenProperties, ElementOfSeq
<1>2. shown \in 0..n
  BY <1>1, TimelineAssumption DEF Smaller
<1>3. TailOf(said) = [i \in 1..shown |-> said[n - shown + i][2]]
  BY DEF TailOf
<1>. HIDE DEF n, shown
<1>4. \A i \in 1..shown : n - shown + i \in 1..n
  BY <1>1, <1>2
<1>5. \A i \in 1..shown : said[n - shown + i][2] \in Nat
  BY <1>1, <1>4 DEF Ops
<1>6. TailOf(said) \in [1..shown -> Nat] /\ shown \in Nat
  <2>. DEFINE name(i) == said[n - shown + i][2]
  <2>1. (\A i \in 1..shown : name(i) \in Nat) /\ TailOf(said) = [i \in 1..shown |-> name(i)]
    BY <1>3, <1>5
  <2>. HIDE DEF name
  <2>. QED
    BY <1>1, <1>2, <2>1
<1>7. TailOf(said) \in Seq(Nat) /\ Len(TailOf(said)) = shown
  BY <1>6, InOrder
<1>. QED
  BY <1>2, <1>3, <1>7 DEF n, shown

LEMMA TailGrows ==
  ASSUME NEW said \in Seq(Ops), NEW e \in Ops
  PROVE  LET tr == TailOf(said) IN
         SubSeq(Append(tr, e[2]), IF Len(tr) >= TranscriptTail THEN 2 ELSE 1, Len(tr) + 1)
           = TailOf(Append(said, e))
<1>. DEFINE n == Len(said)   more == Append(said, e)   tr == TailOf(said)
            k == Smaller(n, TranscriptTail)   now == Smaller(n + 1, TranscriptTail)
            long == Append(tr, e[2])   first == IF k >= TranscriptTail THEN 2 ELSE 1
            cut == SubSeq(long, first, k + 1)
<1>1. TranscriptTail \in Nat \ {0}
  BY TimelineAssumption
<1>2. n \in Nat /\ more \in Seq(Ops) /\ Len(more) = n + 1 /\ (\A i \in 1..n : more[i] = said[i]) /\ more[n + 1] = e
  BY LenProperties, AppendProperties
<1>3. k \in 0..n /\ tr \in Seq(Nat) /\ Len(tr) = k /\ \A i \in 1..k : tr[i] = said[n - k + i][2]
  BY TailIs
<1>. HIDE DEF more
<1>4. now \in 0..(n + 1) /\ TailOf(more) \in Seq(Nat) /\ Len(TailOf(more)) = now
      /\ \A i \in 1..now : TailOf(more)[i] = more[(n + 1) - now + i][2]
  <2>1. LET shown == Smaller(Len(more), TranscriptTail) IN
        /\ shown \in 0..Len(more) /\ TailOf(more) \in Seq(Nat) /\ Len(TailOf(more)) = shown
        /\ \A i \in 1..shown : TailOf(more)[i] = more[Len(more) - shown + i][2]
    BY <1>2, TailIs
  <2>2. Len(more) = n + 1
    BY <1>2
  <2>. HIDE DEF n
  <2>. QED
    BY <2>1, <2>2, Zenon
<1>. HIDE DEF n, tr
<1>5. e[2] \in Nat
  BY DEF Ops
<1>6. long \in Seq(Nat) /\ Len(long) = k + 1 /\ (\A i \in 1..k : long[i] = tr[i]) /\ long[k + 1] = e[2]
  BY <1>3, <1>5, AppendProperties
<1>7. \/ k = n /\ now = n + 1 /\ first = 1
      \/ k = TranscriptTail /\ now = k /\ first = 2
  <2>1. n \in Nat /\ k = (IF n < TranscriptTail THEN n ELSE TranscriptTail)
        /\ now = (IF n + 1 < TranscriptTail THEN n + 1 ELSE TranscriptTail)
    BY <1>2 DEF Smaller
  <2>. HIDE DEF k, now
  <2>. QED
    BY <1>1, <2>1
<1>. HIDE DEF long, first, k, now
<1>8. cut \in Seq(Nat) /\ Len(cut) = (k + 1) - first + 1 /\ \A i \in 1..((k + 1) - first + 1) : cut[i] = long[first + i - 1]
  <2>1. first \in Int /\ k + 1 \in Int /\ first <= k + 1
    BY <1>1, <1>2, <1>3, <1>7
  <2>2. \A i \in first..(k + 1) : long[i] \in Nat
    <3>1. \A i \in first..(k + 1) : i \in 1..Len(long)
      BY <1>2, <1>3, <1>6, <1>7
    <3>. QED
      BY <1>6, <3>1, ElementOfSeq
  <2>. QED
    BY <2>1, <2>2, SubSeqProperties
<1>. HIDE DEF cut
<1>9. Len(cut) = now
  BY <1>2, <1>3, <1>7, <1>8
<1>10. ASSUME NEW i \in 1..now PROVE cut[i] = TailOf(more)[i]
  <2>1. TailOf(more)[i] = more[(n + 1) - now + i][2]
    BY <1>4
  <2>5. cut[i] = long[first + i - 1]
    <3>1. i \in 1..((k + 1) - first + 1)
      BY <1>2, <1>3, <1>7
    <3>. QED
      BY <1>8, <3>1
  <2>. DEFINE j == first + i - 1   m == (n + 1) - now + i
  <2>2. /\ j \in 1..(k + 1) /\ m \in 1..(n + 1)
        /\ j = k + 1 <=> m = n + 1
        /\ j # k + 1 => j \in 1..k /\ m \in 1..n /\ m = n - k + j
    <3>1. n \in Nat /\ k \in Nat /\ k <= n /\ i \in Nat /\ 1 <= i /\ i <= now
      BY <1>2, <1>3, <1>4
    <3>2. CASE k = n /\ now = n + 1 /\ first = 1
      BY <3>1, <3>2
    <3>3. CASE k = TranscriptTail /\ now = k /\ first = 2
      BY <3>1, <3>3
    <3>. QED
      BY <1>7, <3>2, <3>3
  <2>. HIDE DEF j, m
  <2>3. long[j] = more[m][2]
    <3>1. CASE j = k + 1
      BY <1>2, <1>6, <2>2, <3>1
    <3>2. CASE j # k + 1
      <4>1. j \in 1..k /\ m \in 1..n /\ m = n - k + j
        BY <2>2, <3>2
      <4>2. long[j] = said[m][2]
        BY <1>3, <1>6, <4>1
      <4>. QED
        BY <1>2, <4>1, <4>2
    <3>. QED
      BY <3>1, <3>2
  <2>. QED
    BY <2>1, <2>3, <2>5 DEF j, m
<1>11. cut = TailOf(more)
  BY <1>4, <1>8, <1>9, <1>10, SeqEqual
<1>. QED
  BY <1>3, <1>11 DEF cut, long, first, k, more, tr

LEMMA TranscriptIs ==
  TranscriptIsTheTail <=>
    (phase = "Full" /\ outcome = "running" => transcript = TailOf(Picked(ops["Full"], Aloud)))
BY DEF TranscriptIsTheTail, TailOf, Smaller, Aloud

LEMMA AloudGrows ==
  ASSUME Placed, NEW op \in {"remember"} \cup Asks, phase = "Full", Asked(<<op, step.turn.name>>)
  PROVE  /\ Picked(ops["Full"], Aloud) \in Seq(Ops) /\ <<op, step.turn.name>> \in Ops
         /\ Picked(ops'["Full"], Aloud) =
              IF op \in {"remember", "recall"} /\ step.turn.name # 0
                THEN Append(Picked(ops["Full"], Aloud), <<op, step.turn.name>>)
                ELSE Picked(ops["Full"], Aloud)
<1>. DEFINE e == <<op, step.turn.name>>   list == ops["Full"]
<1>1. ops'["Full"] = Append(list, e) /\ list \in Seq(Ops) /\ e \in Ops
  BY AskedTyped, AskIsTyped DEF Placed, TimelineTyped
<1>2. e \in Aloud <=> op \in {"remember", "recall"} /\ step.turn.name # 0
  BY AskIsTyped DEF Aloud
<1>. HIDE DEF e, list
<1>3. PickGrows(list, e, Aloud) /\ Picked(list, Aloud) \in Seq(Ops)
  BY <1>1, PickedGrows, PickedTyped
<1>. QED
  BY <1>1, <1>2, <1>3 DEF PickGrows, e, list

LEMMA SaidAndShown ==
  ASSUME Placed, TranscriptIsTheTail, NEW op \in {"remember", "recall"}, phase = "Full", outcome = "running",
         step.pc # "next", Asked(<<op, step.turn.name>>), transcript' = Shown(step.turn)
  PROVE  transcript' = TailOf(Picked(ops'["Full"], Aloud))
<1>. DEFINE said == Picked(ops["Full"], Aloud)   e == <<op, step.turn.name>>
<1>1. transcript = TailOf(said)
  BY TranscriptIs
<1>2. op \in {"remember"} \cup Asks
  BY DEF Asks
<1>3. said \in Seq(Ops) /\ e \in Ops /\ e[2] = step.turn.name
      /\ Picked(ops'["Full"], Aloud) = IF step.turn.name # 0 THEN Append(said, e) ELSE said
  BY <1>2, AloudGrows
<1>4. step.turn.name = 0 <=> step.turn = Noise
  <2>1. Taken \in 1..Len(effective_timeline) /\ step.turn = effective_timeline[Taken]
    BY Here
  <2>2. effective_timeline[Taken].name = 0 => effective_timeline[Taken] = Noise
    BY <2>1, TimelineIs DEF Placed, TimelineTyped, PlaceOK
  <2>3. Noise.name = 0
    BY DEF Noise
  <2>. QED
    BY <2>1, <2>2, <2>3
<1>. HIDE DEF said, e
<1>5. SubSeq(Append(transcript, e[2]), IF Len(transcript) >= TranscriptTail THEN 2 ELSE 1, Len(transcript) + 1)
        = TailOf(Append(said, e))
  BY <1>1, <1>3, TailGrows
<1>6. CASE step.turn = Noise
  BY <1>1, <1>3, <1>4, <1>6 DEF Shown
<1>7. CASE step.turn # Noise
  BY <1>3, <1>4, <1>5, <1>7 DEF Shown
<1>. QED
  BY <1>6, <1>7

LEMMA TranscriptInductive ==
  ASSUME Placed, PhasesOK, TranscriptIsTheTail, [TimelineNext]_timelineVars
  PROVE  TranscriptIsTheTail'
<1>1. SUFFICES ASSUME phase' = "Full", outcome' = "running"
               PROVE  transcript' = TailOf(Picked(ops'["Full"], Aloud))
  BY TranscriptIs DEF TranscriptIsTheTail, TailOf, Smaller, Aloud
<1>2. phase = "Full" /\ outcome = "running" => transcript = TailOf(Picked(ops["Full"], Aloud))
  BY TranscriptIs
<1>3. CASE UNCHANGED <<phase, outcome, ops, transcript>>
  BY <1>1, <1>2, <1>3
<1>4. CASE Start
  <2>1. ops'["Full"] = <<>> /\ transcript' = <<>>
    BY <1>1, <1>4 DEF Start, PhasesOK
  <2>2. Picked(<<>>, Aloud) = <<>> /\ Len(<<>>) = 0 /\ <<>> \in Seq(Ops)
    BY NonePicked, EmptySeq
  <2>3. TailOf(<<>>) \in Seq(Nat) /\ Len(TailOf(<<>>)) = 0
    <3>1. Smaller(0, TranscriptTail) = 0
      BY TimelineAssumption DEF Smaller
    <3>. QED
      BY <2>2, <3>1, TailIs
  <2>4. TailOf(<<>>) = <<>>
    BY <2>3, EmptySeq
  <2>. QED
    BY <2>1, <2>2, <2>4
<1>5. CASE NextTurn
  <2>1. UNCHANGED <<phase, ops, transcript>> /\ outcome = "running"
    BY <1>5 DEF NextTurn
  <2>. QED
    BY <1>1, <1>2, <2>1
<1>6. CASE Remember
  <2>1. Asked(<<"remember", step.turn.name>>) /\ transcript' = Shown(step.turn)
        /\ phase = "Full" /\ outcome = "running" /\ step.pc # "next"
    BY <1>1, <1>6 DEF Remember, Abort
  <2>. QED
    BY <2>1, SaidAndShown
<1>7. CASE Maintain
  <2>1. /\ Asked(<<step.pc, step.turn.name>>) /\ UNCHANGED transcript /\ step.pc \in {"auto", "Maintenance"}
        /\ phase = "Full" /\ outcome = "running"
    BY <1>1, <1>7 DEF Maintain
  <2>2. Picked(ops'["Full"], Aloud) = Picked(ops["Full"], Aloud)
    BY <2>1, AloudGrows DEF Asks
  <2>. QED
    BY <1>2, <2>1, <2>2
<1>8. CASE Recall
  <2>1. Asked(<<"recall", step.turn.name>>) /\ transcript' = Shown(step.turn)
        /\ phase = "Full" /\ outcome = "running" /\ step.pc # "next"
    BY <1>1, <1>8 DEF Recall
  <2>. QED
    BY <2>1, SaidAndShown
<1>9. CASE Probe
  <2>1. UNCHANGED <<phase, outcome, ops, transcript>>
    BY <1>1, <1>9 DEF Probe, Abort
  <2>. QED
    BY <1>3, <2>1
<1>10. CASE DriverFails
  BY <1>1, <1>10 DEF DriverFails, Abort
<1>11. CASE AwaitFormation \/ AwaitMaintenance \/ AwaitQuiet \/ Cadence
  BY <1>3, <1>11 DEF AwaitFormation, AwaitMaintenance, AwaitQuiet, Wait, Cadence
<1>12. CASE Works
  BY <1>3, <1>12, WorksPlaced
<1>13. CASE \E t \in Turns : Author(t)
  BY <1>3, <1>13 DEF Author
<1>14. CASE UNCHANGED timelineVars
  BY <1>3, <1>14 DEF timelineVars
<1>. QED
  BY <1>4, <1>5, <1>6, <1>7, <1>8, <1>9, <1>10, <1>11, <1>12, <1>13, <1>14 DEF TimelineNext, Works

-----------------------------------------------------------------------------
(* The invariant                                                           *)

LEMMA TimelineInitInv == TimelineInit => TimelineInv
<1>1. SUFFICES ASSUME TimelineInit PROVE TimelineInv
  OBVIOUS
<1>2. Noise \in Named /\ <<>> \in Seq(Planned) /\ <<>> \in Seq(Nat) /\ <<>> \in Seq(Ops)
  BY EmptySeq DEF Noise, Named, Kinds, User
<1>3. PICK n \in NoiseLevels, every \in Cadences : plan = [timeline |-> <<>>, noise |-> n, every |-> every]
  BY <1>1 DEF TimelineInit
<1>4. n \in Nat /\ every \in Nat
  BY TimelineAssumption
<1>5. TimelineTyped
  BY <1>1, <1>2, <1>3, <1>4 DEF TimelineInit, TimelineTyped, AtRest, Steps, Quiescent, Grounds
<1>6. PlaceOK /\ KindOK
  BY <1>1 DEF TimelineInit, PlaceOK, KindOK, AtRest
<1>7. WordsFollow /\ AsksFollow /\ PhasesOK /\ CadenceOK /\ TranscriptIsTheTail
  BY <1>1 DEF TimelineInit, WordsFollow, AsksFollow, PhasesOK, CadenceOK, TranscriptIsTheTail, Phases
<1>8. FluxOK
  BY <1>1 DEF TimelineInit, FluxOK, Quiescent
<1>. QED
  BY <1>5, <1>6, <1>7, <1>8 DEF TimelineInv

LEMMA TimelineInductive == TimelineInv /\ [TimelineNext]_timelineVars => TimelineInv'
<1>1. SUFFICES ASSUME TimelineInv, [TimelineNext]_timelineVars PROVE TimelineInv'
  OBVIOUS
<1>2. Placed /\ Following /\ FluxOK /\ CadenceOK /\ PhasesOK /\ TranscriptIsTheTail
  BY <1>1 DEF TimelineInv, Placed, Following
<1>3. TranscriptIsTheTail'
  BY <1>1, <1>2, TranscriptInductive
<1>4. SUFFICES Placed' /\ Following' /\ FluxOK' /\ CadenceOK'
  BY <1>3 DEF TimelineInv, Placed, Following
<1>5. CASE \E t \in Turns : Author(t)
  BY <1>2, <1>5, AuthorPlaced, OthersFollow, FluxTurns, CadenceTurns
<1>6. CASE Start
  BY <1>2, <1>6, StartPlaced, StartFollows, FluxTurns, CadenceStarts
<1>7. CASE NextTurn
  BY <1>2, <1>7, NextTurnPlaced, NextTurnFollows, FluxTurns, CadenceTurns
<1>8. CASE Remember
  BY <1>2, <1>8, RememberPlaced, RememberFollows, FluxActs, CadenceActs
<1>9. CASE DriverFails
  BY <1>2, <1>9, FailPlaced, OthersFollow, FluxActs, CadenceTurns
<1>10. CASE AwaitFormation
  BY <1>2, <1>10, AwaitFormationPlaced, OthersFollow, FluxWaits, CadenceTurns
<1>11. CASE Cadence
  BY <1>2, <1>11, CadencePlaced, CadenceFollows, FluxActs, CadenceActs
<1>12. CASE Maintain
  BY <1>2, <1>12, MaintainPlaced, MaintainFollows, FluxActs, CadenceActs
<1>13. CASE AwaitMaintenance
  BY <1>2, <1>13, AwaitMaintenancePlaced, OthersFollow, FluxWaits, CadenceTurns
<1>14. CASE AwaitQuiet
  BY <1>2, <1>14, AwaitQuietPlaced, OthersFollow, FluxWaits, CadenceTurns
<1>15. CASE Probe
  BY <1>2, <1>15, ProbePlaced, OthersFollow, FluxActs, CadenceTurns
<1>16. CASE Recall
  BY <1>2, <1>16, RecallPlaced, RecallFollows, FluxActs, CadenceActs
<1>17. CASE Works
  BY <1>2, <1>17, WorksPlaced, OthersFollow, FluxWorks, CadenceTurns
<1>18. CASE UNCHANGED timelineVars
  <2>1. Placed'
    BY <1>2, <1>18, SamePlan DEF timelineVars, Placed, TimelineTyped, PlaceOK, KindOK, Taken
  <2>2. Following'
    BY <1>2, <1>18, SamePlan DEF timelineVars, Following, WordsFollow, AsksFollow, PhasesOK, Taken, Ran, Told,
                                 Bade, Kept
  <2>3. FluxOK' /\ CadenceOK'
    BY <1>2, <1>18 DEF timelineVars, FluxOK, CadenceOK, Unsettled, Kept
  <2>. QED
    BY <2>1, <2>2, <2>3
<1>. QED
  BY <1>1, <1>5, <1>6, <1>7, <1>8, <1>9, <1>10, <1>11, <1>12, <1>13, <1>14, <1>15, <1>16, <1>17, <1>18
     DEF TimelineNext, Works

\* TimelineIsFair (EvalTimeline): a replayed timeline measures what it says: the
\* same whether formation is shared or not, on a memory that knows no future, with
\* maintenance kept to its cadence and the simulator shown the end of the talk.
THEOREM FairTimelines == EvaluationSpec => []TimelineIsFair
<1>1. TimelineInv => TimelineIsFair
  <2>1. SUFFICES ASSUME TimelineInv PROVE TimelineIsFair
    OBVIOUS
  <2>2. Placed /\ Following
    BY <2>1 DEF TimelineInv, Placed, Following
  <2>3. PhasesMakeTheRun /\ NoMemoryOfTheFuture /\ ValidPlansAreRunnable
    BY <2>2, PhasesMake, NoFuture, PlansAreRunnable
  <2>4. FluxIsReported /\ CadenceIsKept /\ TranscriptIsTheTail
    BY <2>1, CadenceKept DEF TimelineInv, FluxOK, FluxIsReported
  <2>. QED
    BY <2>3, <2>4 DEF TimelineIsFair
<1>. QED
  BY <1>1, TimelineInitInv, TimelineInductive, LevelsFollow, PTL DEF TimelineSpec
=============================================================================
