------------------------------ MODULE EvalSuite ------------------------------
(***************************************************************************)
(* An evaluation run (eval/run.rs, main.rs): every profile meets every     *)
(* scenario.  Either each profile runs the suite by itself, a few          *)
(* scenarios at a time and each in a space of its own, or the formation of *)
(* a scenario runs once and the profiles fork what it has left.  Then the  *)
(* suites are averaged, ranked and gated.                                  *)
(***************************************************************************)
EXTENDS Naturals, Sequences, SequencesExt, FiniteSetsExt

CONSTANTS
  ProfileCount,   \* profiles, in the order of the command line
  ScenarioCount,  \* scenarios, likewise
  Budget,         \* EVAL_SCENARIO_CONCURRENCY
  Quality,        \* the total of a scenario that completes
  FormationTurns  \* turns that write to a base space

ASSUME SuiteAssumption ==
  /\ {ProfileCount, ScenarioCount, Budget} \subseteq Nat \ {0}
  /\ FormationTurns \in Nat /\ Quality \in [1..ScenarioCount -> Nat]

Profiles == 1..ProfileCount
Scenarios == 1..ScenarioCount

VARIABLES
  shared,   \* --shared-formation
  cell,     \* what became of each profile with each scenario
  base,     \* each scenario's base space: how far it is, and what is flushed
  forked,   \* what was in the store when a cell forked it
  reports   \* each profile's reports

suiteVars == <<shared, cell, base, forked, reports>>

Cells == Profiles \X Scenarios
NoBase == [at |-> "none", written |-> 0, stored |-> 0]
Unforked == FormationTurns + 1

SuiteInit ==
  /\ shared \in BOOLEAN
  /\ cell = [c \in Cells |-> "waiting"] /\ forked = [c \in Cells |-> Unforked]
  /\ base = [s \in Scenarios |-> NoBase]
  /\ reports = [p \in Profiles |-> <<>>]

Over(c) == cell[c] \in {"completed", "aborted"}
Reported(p) == Len(reports[p])
Report(p, s) == [scenario |-> s, aborted |-> cell[<<p, s>>] = "aborted"]

-----------------------------------------------------------------------------
(* run_eval_suite                                                          *)

Finished(p) == Reported(p) = ScenarioCount

\* A space that cannot be had aborts its scenario.
AcquireSpace(p, s) ==
  /\ ~shared /\ cell[<<p, s>>] = "waiting" /\ s <= Reported(p) + Budget
  /\ \A q \in 1..(p - 1) : Finished(q)
  /\ \A t \in 1..(s - 1) : cell[<<p, t>>] # "waiting"
  /\ \E at \in {"running", "aborted"} : cell' = [cell EXCEPT ![<<p, s>>] = at]
  /\ UNCHANGED <<shared, base, forked, reports>>

\* run_scenario, whatever the close returns.
RunScenario(p, s) ==
  /\ ~shared /\ cell[<<p, s>>] = "running"
  /\ \E at \in {"completed", "aborted"} : cell' = [cell EXCEPT ![<<p, s>>] = at]
  /\ UNCHANGED <<shared, base, forked, reports>>

\* Of a buffered stream, the oldest comes first.
Deliverable(p) == { s \in Scenarios : s = Reported(p) + 1 /\ Over(<<p, s>>) }

DeliverReport(p) ==
  /\ ~shared
  /\ \E s \in Deliverable(p) : reports' = [reports EXCEPT ![p] = Append(@, Report(p, s))]
  /\ UNCHANGED <<shared, cell, base, forked>>

-----------------------------------------------------------------------------
(* run_shared_formation_experiment                                         *)

\* One scenario after the other.
Current(s) == shared /\ \A p \in Profiles : Reported(p) = s - 1

OpenBase(s) ==
  /\ Current(s) /\ base[s].at = "none"
  /\ \E at \in {"forming", "failed"} : base' = [base EXCEPT ![s].at = at]
  /\ UNCHANGED <<shared, cell, forked, reports>>

FormTurn(s) ==
  /\ base[s].at = "forming" /\ base[s].written < FormationTurns
  /\ \E stored \in {base[s].stored, base[s].written + 1} :
       base' = [base EXCEPT ![s] = [at |-> "forming", written |-> @.written + 1, stored |-> stored]]
  /\ UNCHANGED <<shared, cell, forked, reports>>

\* Mutant: what the formation returned counts, however the close went.
OutputOnly(formed, closed) == formed

\* fail_on_close
Folded(formed, closed) == formed /\ closed

\* The space is closed whether its formation has failed or not.
CloseBase(s) ==
  /\ base[s].at = "forming"
  /\ \E formed, closed \in BOOLEAN :
       /\ formed => base[s].written = FormationTurns
       /\ base' = [base EXCEPT ![s] = [at |-> IF Folded(formed, closed) THEN "closed" ELSE "failed",
                                       written |-> @.written,
                                       stored |-> IF closed THEN @.written ELSE @.stored]]
  /\ UNCHANGED <<shared, cell, forked, reports>>

\* Nothing to fork: every profile gets a stand-in.
AbortScenario(s) ==
  /\ Current(s) /\ base[s].at = "failed"
  /\ cell' = [c \in Cells |-> IF c[2] = s THEN "aborted" ELSE cell[c]]
  /\ reports' = [p \in Profiles |-> Append(reports[p], [scenario |-> s, aborted |-> TRUE])]
  /\ UNCHANGED <<shared, base, forked>>

Fork(p, s) ==
  /\ Current(s) /\ base[s].at = "closed" /\ cell[<<p, s>>] = "waiting"
  /\ \/ /\ cell' = [cell EXCEPT ![<<p, s>>] = "running"]
        /\ forked' = [forked EXCEPT ![<<p, s>>] = base[s].stored]
     \/ cell' = [cell EXCEPT ![<<p, s>>] = "aborted"] /\ UNCHANGED forked
  /\ UNCHANGED <<shared, base, reports>>

\* run_policy_phase, and the close of the fork
RunPolicyPhase(p, s) ==
  /\ shared /\ cell[<<p, s>>] = "running"
  /\ \E ran, closed \in BOOLEAN :
       cell' = [cell EXCEPT ![<<p, s>>] = IF Folded(ran, closed) THEN "completed" ELSE "aborted"]
  /\ UNCHANGED <<shared, base, forked, reports>>

\* join_all
Joined(s) == [p \in Profiles |-> Report(p, s)]

JoinForks(s) ==
  /\ Current(s) /\ base[s].at = "closed"
  /\ \A p \in Profiles : Over(<<p, s>>)
  /\ reports' = [p \in Profiles |-> Append(reports[p], Joined(s)[p])]
  /\ UNCHANGED <<shared, cell, base, forked>>

SuiteNext ==
  \/ \E p \in Profiles : DeliverReport(p)
  \/ \E p \in Profiles, s \in Scenarios :
       AcquireSpace(p, s) \/ RunScenario(p, s) \/ Fork(p, s) \/ RunPolicyPhase(p, s)
  \/ \E s \in Scenarios :
       OpenBase(s) \/ FormTurn(s) \/ CloseBase(s) \/ AbortScenario(s) \/ JoinForks(s)

SuiteSpec == SuiteInit /\ [][SuiteNext]_suiteVars

-----------------------------------------------------------------------------
(* EvalSuiteReport, EvalExperimentReport and EvalGate                      *)

Scores(p) == [i \in 1..Reported(p) |-> IF reports[p][i].aborted THEN 0
                                       ELSE Quality[reports[p][i].scenario]]
SumOf(seq) ==
  LET sum[n \in 0..Len(seq)] == IF n = 0 THEN 0 ELSE sum[n - 1] + seq[n] IN sum[Len(seq)]

\* aggregate_report_scores, a fraction
MeanTotal(p) == [sum |-> SumOf(Scores(p)), of |-> Reported(p)]

\* A stand-in counts one judge error.
StandInFindings(p) == Cardinality({ i \in 1..Reported(p) : reports[p][i].aborted })

Below(a, b) == a.sum * b.of < b.sum * a.of

\* compare_suites: by total, then by findings, then by name.
RanksBefore(p, q) ==
  \/ Below(MeanTotal(q), MeanTotal(p))
  \/ /\ ~Below(MeanTotal(p), MeanTotal(q))
     /\ \/ StandInFindings(p) < StandInFindings(q)
        \/ StandInFindings(p) = StandInFindings(q) /\ p < q

Best == CHOOSE p \in Profiles : \A q \in Profiles \ {p} : RanksBefore(p, q)

\* A gate on the findings of all suites
WithinGate(most) == SumOf([p \in Profiles |-> StandInFindings(p)]) <= most

-----------------------------------------------------------------------------
(* Properties                                                              *)

AllDone == \A p \in Profiles : Finished(p)
Aborts(p) == { s \in Scenarios : cell[<<p, s>>] = "aborted" }

\* A suite's reports are those of its scenarios in their order, each aborted
\* exactly when that scenario itself failed under that profile.
EachCellReportsItself ==
  \A p \in Profiles : \A i \in 1..Reported(p) :
    reports[p][i] = [scenario |-> i, aborted |-> cell[<<p, i>>] = "aborted"]

\* Profiles are compared on the same memory: whatever forked a base has found
\* the whole formation in its store.
ForksSeeTheWholeFormation ==
  \A c \in Cells : forked[c] # Unforked => forked[c] = FormationTurns

\* An abort never pays: of two equal profiles the one that aborted less ranks
\* before the other, and a suite that aborts nothing is beaten by none.
AbortsNeverPay ==
  AllDone => /\ \A p, q \in Profiles :
                  Aborts(p) \subseteq Aborts(q) /\ Aborts(p) # Aborts(q) => RanksBefore(p, q)
             /\ Aborts(Best) # {} => \A p \in Profiles : Aborts(p) # {}

\* A gate that allows no findings passes no run with a scenario that aborted.
GateSeesAborts ==
  AllDone /\ WithinGate(0) => \A c \in Cells : cell[c] = "completed"

\* A suite compares like with like: every profile has its own outcome of every
\* scenario, from the same memory, and nobody gains by what aborted.
SuitesCompareAlike ==
  /\ EachCellReportsItself /\ ForksSeeTheWholeFormation
  /\ AbortsNeverPay /\ GateSeesAborts
=============================================================================
