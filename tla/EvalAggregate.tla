---------------------------- MODULE EvalAggregate ----------------------------
(***************************************************************************)
(* What a scenario reports (eval.rs): a checkpoint asks its question       *)
(* several times, shows one sample and the findings that most samples      *)
(* share, and takes the mean as its score; the scenario weighs its         *)
(* checkpoints by their place.                                             *)
(***************************************************************************)
EXTENDS Naturals, Sequences, FiniteSets

CONSTANTS
  SampleCount,     \* checkpoint_samples
  MaxCheckpoints,  \* bound
  SampleTotals,    \* totals of a sample
  Causes           \* findings, by kind and expectation

ASSUME AggregateAssumption == SampleCount \in Nat \ {0} /\ SampleTotals \subseteq Nat

VARIABLES
  samples,      \* of the checkpoint under way, [total, found]
  checkpoints   \* [mean, found, median], the mean as a sum of SampleCount totals

aggregateVars == <<samples, checkpoints>>

AggregateInit == samples = <<>> /\ checkpoints = <<>>

Summed(seq) ==
  LET sum[n \in 0..Len(seq)] == IF n = 0 THEN 0 ELSE sum[n - 1] + seq[n] IN sum[Len(seq)]

\* One roll of the recall; a sample may find the same cause twice, once counts.
RollSample(total, found) ==
  /\ Len(samples) < SampleCount /\ Len(checkpoints) < MaxCheckpoints
  /\ samples' = Append(samples, [total |-> total, found |-> found])
  /\ UNCHANGED checkpoints

Before(i, j) ==
  samples[i].total < samples[j].total \/ (samples[i].total = samples[j].total /\ i < j)

\* median_sample_index
MedianSample ==
  CHOOSE i \in 1..Len(samples) :
    Cardinality({ j \in 1..Len(samples) : Before(j, i) }) = Len(samples) \div 2

Occurrences(c) == Cardinality({ i \in 1..Len(samples) : c \in samples[i].found })

\* div_ceil: half the samples surface a finding.
Threshold == (Len(samples) + 1) \div 2

\* majority_findings
MajorityFindings ==
  IF Len(samples) = 1 THEN samples[1].found
  ELSE { c \in Causes : Occurrences(c) >= Threshold /\ Occurrences(c) > 0 }

FinishCheckpoint ==
  /\ Len(samples) = SampleCount
  /\ checkpoints' = Append(checkpoints,
       [mean  |-> Summed([i \in 1..SampleCount |-> samples[i].total]),
        found |-> MajorityFindings, median |-> samples[MedianSample].total,
        rolls |-> samples])
  /\ samples' = <<>>

AggregateNext ==
  \/ \E total \in SampleTotals, found \in SUBSET Causes : RollSample(total, found)
  \/ FinishCheckpoint

AggregateSpec == AggregateInit /\ [][AggregateNext]_aggregateVars

-----------------------------------------------------------------------------
(* aggregate_scores                                                        *)

\* Linear weights
WeightOf(i, n) == i

\* The weighted total, times the sum of the weights and SampleCount
WeightedTotal(means) ==
  Summed([i \in 1..Len(means) |-> WeightOf(i, Len(means)) * means[i]])

-----------------------------------------------------------------------------
(* Properties                                                              *)

\* The sample a checkpoint shows is typical: not more than half of the samples
\* are better, and not more than half are worse.
MedianIsTypical ==
  \A i \in 1..Len(checkpoints) :
    LET c == checkpoints[i]
        Better == { j \in 1..SampleCount : c.rolls[j].total > c.median }
        Worse  == { j \in 1..SampleCount : c.rolls[j].total < c.median }
    IN  2 * Cardinality(Better) <= SampleCount /\ 2 * Cardinality(Worse) <= SampleCount

\* With an odd number of samples, three or more, one unlucky roll neither
\* hides a finding nor invents one.
OneRollDecidesNothing ==
  SampleCount >= 3 /\ SampleCount % 2 = 1 =>
    \A i \in 1..Len(checkpoints) : \A c \in Causes :
      LET found == { j \in 1..SampleCount : c \in checkpoints[i].rolls[j].found }
      IN  /\ Cardinality(found) = 1 => c \notin checkpoints[i].found
          /\ Cardinality(found) = SampleCount - 1 => c \in checkpoints[i].found

\* A memory that fails late costs more than one that fails early: of two orders
\* of the same checkpoints the one with the worse later has the lower total.
LateFailuresCostMore ==
  LET means == [i \in 1..Len(checkpoints) |-> checkpoints[i].mean]
  IN  \A i, j \in 1..Len(means) :
        i < j /\ means[i] > means[j] =>
          WeightedTotal(means)
            < WeightedTotal([means EXCEPT ![i] = means[j], ![j] = means[i]])
=============================================================================
