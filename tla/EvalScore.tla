------------------------------ MODULE EvalScore ------------------------------
(***************************************************************************)
(* A checkpoint of a scenario is scored (eval.rs, eval/judge.rs): the      *)
(* expectations of its rubric are probed in the graph and looked for in    *)
(* the answer, one after the other; an optional judge adds a verdict.      *)
(* Scores are integers: Whole stands for 1.0, and a total is out of a      *)
(* hundred times that.                                                     *)
(***************************************************************************)
EXTENDS Naturals, Sequences

CONSTANTS
  Whole,            \* 1.0; divisible by every denominator that occurs
  Weights,          \* weights of expectations
  Wordings,         \* [terms, present]: terms asked for, and those in the answer
  MaxExpectations,  \* bound
  Verdicts,         \* what a judge may say, apart from nothing
  Healths,          \* GraphStats::health, where there are counters
  Overruns          \* over_budget_ratio of latency or tokens

ASSUME ScoreAssumption ==
  /\ Whole \in Nat \ {0} /\ MaxExpectations \in 0..Whole
  /\ Weights \subseteq Nat \ {0} /\ Overruns \subseteq Nat
  /\ \A w \in Wordings : w.terms \in 0..Whole /\ w.present \in 0..w.terms
  /\ \A verdict \in Verdicts : verdict.said

VARIABLES
  sheet,     \* the rubric's own terms, and the judge of the profile
  seen,      \* the expectations so far, with what became of their probes
  tally,     \* the sums of score_checkpoint
  findings,  \* the harness's findings, [kind, about]
  result

scoreVars == <<sheet, seen, tally, findings, result>>

NoVerdict == [said |-> FALSE]
Unscored == [total |-> 0]

\* No counters were read.
NoHealth == Whole + 1

\* A validated expectation: one that must be absent asks for no terms.
Expectations ==
  { e \in [mode : {"ShouldExist", "ShouldNotExist"}, weight : Weights, wording : Wordings,
           traced : BOOLEAN, probe : {"none", "raw", "assertion"}] :
      /\ e.mode = "ShouldNotExist" => e.wording.terms = 0
      /\ e.wording.terms = e.wording.present => ~e.traced }

NoTally == [present |-> 0, presentOf |-> 0, worded |-> 0, wordedOf |-> 0,
            forgotten |-> 0, forgottenOf |-> 0, errors |-> 0, probes |-> 0]

ScoreInit ==
  /\ sheet \in [required : Wordings, forbidden : Wordings, llm : BOOLEAN]
  /\ seen = <<>> /\ findings = {} /\ result = Unscored /\ tally = NoTally

-----------------------------------------------------------------------------
(* The probe of an expectation                                             *)

Wanted(e, there) == (e.mode = "ShouldExist") = there
Verdict(ok) == IF ok THEN "satisfied" ELSE "unsatisfied"

\* run_memory_probe.  The graph is reached or not; an assertion is judged on
\* what its search has found, by the hits alone where the judge fails, and
\* needs no judge where there is nothing.
Probed(e, llm, reply, opinion) ==
  CASE e.probe = "none" \/ (e.probe = "assertion" /\ ~llm) -> "unprobed"
    [] e.probe # "none" /\ (e.probe = "raw" \/ llm) /\ reply = "error" -> "errored"
    [] e.probe = "assertion" /\ llm /\ reply = "hits" /\ opinion # "fails" ->
         Verdict(Wanted(e, opinion = "holds"))
    [] OTHER -> Verdict(Wanted(e, reply = "hits"))

\* fraction_present
Fraction(w) == IF w.terms = 0 THEN Whole ELSE (Whole * w.present) \div w.terms

\* Mutant: an errored probe is taken for an unsatisfied one.
ErrorIsMiss(outcome) == FALSE

\* The state of the graph is unknown: the expectation is left out.
Excluded(outcome) == outcome = "errored"

\* Coverage of an expectation's own terms weighs like the expectation.
WordedWeight(e) == IF e.mode = "ShouldExist" /\ e.wording.terms > 0 THEN e.weight ELSE 0

Tallied(sum, e, outcome) ==
  LET If(holds, n) == IF holds THEN n ELSE 0
      counts  == ~Excluded(outcome)
      present == counts /\ e.mode = "ShouldExist"
      absent  == counts /\ e.mode = "ShouldNotExist"
      held    == outcome \in {"satisfied", "unprobed"}
      words   == If(present, WordedWeight(e))
  IN  [present     |-> sum.present + If(present /\ held, e.weight),
       presentOf   |-> sum.presentOf + If(present, e.weight),
       worded      |-> sum.worded + words * Fraction(e.wording),
       wordedOf    |-> sum.wordedOf + words,
       forgotten   |-> sum.forgotten + If(absent /\ held, e.weight),
       forgottenOf |-> sum.forgottenOf + If(absent, e.weight),
       errors      |-> sum.errors + If(outcome = "errored", 1),
       probes      |-> sum.probes + If(outcome # "unprobed", 1)]

\* Without a verdict the trace tells a bad search from a bad answer.
Found(e, outcome, judged, id) ==
  LET F(kind) == [kind |-> kind, about |-> id]
      missing == e.wording.present < e.wording.terms
  IN  IF Excluded(outcome) THEN {F("GraphProbeError")}
      ELSE IF e.mode = "ShouldNotExist"
        THEN IF outcome = "unsatisfied" THEN {F("BadConsolidation")} ELSE {}
      ELSE IF outcome = "unsatisfied" THEN {F("FormationMiss")}
      ELSE IF missing /\ ~judged
        THEN {F(IF e.traced THEN "BadSynthesis" ELSE "BadGrounding")} ELSE {}

\* The probes run concurrently and are taken in the order of the rubric.
Expect(e, reply, opinion) ==
  /\ result = Unscored /\ Len(seen) < MaxExpectations
  /\ LET outcome == Probed(e, sheet.llm, reply, opinion) IN
       /\ seen' = Append(seen, [e |-> e, outcome |-> outcome])
       /\ tally' = Tallied(tally, e, outcome)
  /\ UNCHANGED <<sheet, findings, result>>

-----------------------------------------------------------------------------
(* score_checkpoint                                                        *)

Share(part, of) == IF of = 0 THEN Whole ELSE (Whole * part) \div of

\* The mean over what the rubric defines: presence, required terms, and the
\* expectations' own.
LexicalUtility(sum) ==
  LET If(holds, n) == IF holds THEN n ELSE 0
      required == sheet.required.terms > 0
      worded   == sum.wordedOf > 0
  IN  (Share(sum.present, sum.presentOf) + If(required, Fraction(sheet.required))
         + (IF worded THEN sum.worded \div sum.wordedOf ELSE 0))
      \div (1 + If(required, 1) + If(worded, 1))

\* Without counters, the share of probes that ran.
ProbeHealth(sum) == IF sum.probes = 0 THEN Whole ELSE Whole - (Whole * sum.errors) \div sum.probes

Clamped(x, penalty, most) == IF x < penalty THEN 0 ELSE IF x - penalty > most THEN most ELSE x - penalty

Scored(sum, verdict, health, late, dear) ==
  LET present    == Share(sum.present, sum.presentOf)
      forgetting == Share(sum.forgotten, sum.forgottenOf)
      calm       == IF sheet.forbidden.terms = 0 THEN Whole ELSE Whole - Fraction(sheet.forbidden)
      m == IF verdict.said THEN (7 * verdict.utility + 3 * present) \div 10 ELSE LexicalUtility(sum)
      f == IF verdict.said THEN (verdict.forgetting + forgetting) \div 2 ELSE forgetting
      c == IF verdict.said THEN verdict.calibration ELSE calm
      g == IF health = NoHealth THEN ProbeHealth(sum) ELSE health
      e == (m + f) \div 2
  IN  Clamped(45 * m + 20 * e + 15 * c + 10 * f + 10 * g, 5 * late + 5 * dear, 100 * Whole)

\* With a verdict, a stale term counts only when the judge agrees.
ConfirmedStale(verdict) ==
  ~verdict.said \/ 2 * verdict.calibration < Whole
    \/ \E found \in verdict.findings : found.kind = "Overconfidence"

Harness(verdict, late, dear) ==
  LET Of(kind) == {[kind |-> kind, about |-> 0]}
  IN  (IF ~verdict.said /\ sheet.required.present < sheet.required.terms THEN Of("BadSynthesis") ELSE {})
        \cup (IF ConfirmedStale(verdict) /\ sheet.forbidden.present > 0 THEN Of("Overconfidence") ELSE {})
        \cup (IF late > 0 THEN Of("LatencyCost") ELSE {})
        \cup (IF dear > 0 THEN Of("TokenCost") ELSE {})
        \cup UNION {Found(seen[i].e, seen[i].outcome, verdict.said, i) : i \in 1..Len(seen)}

\* A judge that fails, or answers without a single score, leaves the sample to
\* the lexical score and a finding of its own.
Score(verdict, fell, health, late, dear) ==
  /\ result = Unscored
  /\ verdict.said \/ fell => sheet.llm
  /\ findings' = Harness(verdict, late, dear)
       \cup (IF fell THEN {[kind |-> "JudgeError", about |-> 0]} ELSE {})
  /\ result' = [total |-> Scored(tally, verdict, health, late, dear),
                verdict |-> verdict, fell |-> fell, health |-> health,
                late |-> late, dear |-> dear]
  /\ UNCHANGED <<sheet, seen, tally>>

ScoreNext ==
  \/ \E e \in Expectations, reply \in {"error", "nothing", "hits"},
        opinion \in {"holds", "not", "fails"} : Expect(e, reply, opinion)
  \/ \E late \in Overruns, dear \in Overruns, health \in Healths \cup {NoHealth} :
       \/ \E verdict \in Verdicts : Score(verdict, FALSE, health, late, dear)
       \/ \E fell \in BOOLEAN : Score(NoVerdict, fell, health, late, dear)

ScoreSpec == ScoreInit /\ [][ScoreNext]_scoreVars

-----------------------------------------------------------------------------
(* Properties                                                              *)

scored == result # Unscored

\* No silent loss: without a judge and without counters a checkpoint loses
\* points exactly when some finding says why.
FindingsExplainLoss ==
  scored /\ ~result.verdict.said /\ ~result.fell /\ result.health = NoHealth =>
    (result.total < 100 * Whole) = (findings # {})

\* A probe that could not see the graph is no verdict on memory: the score is
\* the one that the rubric would have had without it, graph health aside, and
\* it is blamed on no stage.
ErroredProbesAreNeutral ==
  scored =>
    LET sum[n \in 0..Len(seen)] ==
          IF n = 0 THEN NoTally
          ELSE IF seen[n].outcome = "errored" THEN sum[n - 1]
          ELSE Tallied(sum[n - 1], seen[n].e, seen[n].outcome)
        rest == sum[Len(seen)]
        same == [f \in DOMAIN tally |-> IF f \in {"errors", "probes"} THEN tally[f] ELSE rest[f]]
    IN  /\ result.total =
             Scored(same, result.verdict, result.health, result.late, result.dear)
        /\ \A found \in findings, i \in 1..Len(seen) :
             found.about = i /\ seen[i].outcome = "errored" => found.kind = "GraphProbeError"
=============================================================================
