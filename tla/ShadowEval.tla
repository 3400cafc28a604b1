----------------------------- MODULE ShadowEval -----------------------------
(***************************************************************************)
(* A shadow evaluation (run_shadow_eval, space.rs) forks a live space      *)
(* twice, replays recent queries on both forks, and has a judge compare    *)
(* the answers without knowing which side is which.                        *)
(***************************************************************************)
EXTENDS Naturals, FiniteSets

CONSTANTS
  Evaluators,   \* concurrent calls for one space
  MaxQueries,   \* the largest sample
  Judges        \* what judges prefer: "a", "b", or "fair"

ASSUME ShadowAssumption ==
  MaxQueries \in Nat /\ 0 \notin Evaluators /\ Judges \subseteq {"a", "b", "fair"}

VARIABLES
  eval,     \* each call: where it is, how many queries, and which one is next
  guard,    \* holder of shadow_lock
  forks,    \* forks in memory, [call, side]
  score,    \* the report of each call
  judge

shadowVars == <<eval, guard, forks, score, judge>>

Sides == {"baseline", "candidate"}
NoEval == [at |-> "idle", queries |-> 0, index |-> 0]
NoScore == [baseline |-> 0, candidate |-> 0, ties |-> 0, errors |-> 0, replayed |-> 0]

ShadowInit ==
  /\ eval = [c \in Evaluators |-> NoEval] /\ score = [c \in Evaluators |-> NoScore]
  /\ guard = 0 /\ forks = {} /\ judge \in Judges

Move(c, at) == eval' = [eval EXCEPT ![c].at = at]

\* try_lock: a second call is refused, not queued.
Guarded == guard = 0

\* Without a completed recall there is nothing to replay.
BeginShadow(c, queries) ==
  /\ eval[c].at = "idle" /\ Guarded
  /\ queries > 0
  /\ guard' = c
  /\ eval' = [eval EXCEPT ![c] = [at |-> "fork", queries |-> queries, index |-> 0]]
  /\ UNCHANGED <<forks, score, judge>>

\* Both forks, or none: when one fails the other goes with it.
ForkBoth(c) ==
  /\ eval[c].at = "fork"
  /\ \/ Move(c, "replay") /\ forks' = forks \cup ({c} \X Sides) /\ UNCHANGED guard
     \/ Move(c, "over") /\ guard' = 0 /\ UNCHANGED forks
  /\ UNCHANGED <<score, judge>>

\* Mutant: the baseline always answers first.
AlwaysFirst(index) == "baseline"

\* The order alternates with the query.
FirstAnswer(index) == IF index % 2 = 1 THEN "candidate" ELSE "baseline"

Other(side) == IF side = "baseline" THEN "candidate" ELSE "baseline"

\* A judge who prefers a place says so every time.
Winners(index) ==
  CASE judge = "a" -> {FirstAnswer(index)}
    [] judge = "b" -> {Other(FirstAnswer(index))}
    [] OTHER -> Sides \cup {"ties"}

Tally(c, what) == score' = [score EXCEPT ![c][what] = @ + 1, ![c].replayed = @ + 1]

\* A side that fails and a judge that fails are errors both; only the first
\* leaves the query not replayed.
ReplayQuery(c) ==
  /\ eval[c].at = "replay" /\ eval[c].index < eval[c].queries
  /\ \/ score' = [score EXCEPT ![c].errors = @ + 1]
     \/ Tally(c, "errors")
     \/ \E winner \in Winners(eval[c].index) : Tally(c, winner)
  /\ eval' = [eval EXCEPT ![c].index = @ + 1]
  /\ UNCHANGED <<guard, forks, judge>>

\* The forks are closed, and the report goes to the live space.
FinishShadow(c) ==
  /\ eval[c].at = "replay" /\ eval[c].index = eval[c].queries
  /\ forks' = forks \ ({c} \X Sides) /\ guard' = 0
  /\ Move(c, "over")
  /\ UNCHANGED <<score, judge>>

ShadowNext ==
  \E c \in Evaluators :
    \/ \E queries \in 1..MaxQueries : BeginShadow(c, queries)
    \/ ForkBoth(c) \/ ReplayQuery(c) \/ FinishShadow(c)

ShadowSpec == ShadowInit /\ [][ShadowNext]_shadowVars

\* A judge who prefers the first answer, or the second, decides nothing: the
\* sides are apart by one at most, and by one more for each query that failed.
PositionBiasCancels ==
  judge # "fair" =>
    \A c \in Evaluators :
      LET s == score[c]
      IN  s.baseline <= s.candidate + 1 + s.errors /\ s.candidate <= s.baseline + 1 + s.errors

\* However many calls there are, two copies of a space are in memory at most,
\* and none outlives its call.
TwoCopiesAtMost ==
  Cardinality(forks) <= 2 /\ \A f \in forks : eval[f[1]].at = "replay"

\* A shadow evaluation of a space is alone, and blind to who answered first.
ShadowIsFair == PositionBiasCancels /\ TwoCopiesAtMost
=============================================================================
