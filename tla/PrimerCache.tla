---------------------------- MODULE PrimerCache -----------------------------
(***************************************************************************)
(* The primer that recall puts before its model, agents/recall.rs: one     *)
(* cached description of the graph, looked up again by whichever recall    *)
(* finds it too old.  Recalls look it up side by side.                     *)
(***************************************************************************)
EXTENDS Naturals

CONSTANTS
  Recalls,          \* recalls under way
  PrimerTTL,        \* RECALL_PRIMER_CACHE_TTL_MS
  ContextTimeout,   \* RECALL_CONTEXT_TIMEOUT
  LastTick          \* bound: ticks of the clock

ASSUME PrimerAssumption == {PrimerTTL, ContextTimeout} \subseteq Nat

VARIABLES
  clock,     \* unix_ms
  primer,    \* the cached primer: when it was stored, and when it was true
  lookup     \* what every recall is doing about its primer

primerVars == <<clock, primer, lookup>>

NoPrimer == [at |-> 0, none |-> TRUE]
NoLookup == [pc |-> "none"]

PrimerInit ==
  /\ clock = 0 /\ primer = NoPrimer
  /\ lookup = [r \in Recalls |-> NoLookup]

ClockTicks ==
  /\ clock < LastTick
  /\ clock' = clock + 1
  /\ UNCHANGED <<primer, lookup>>

InTime(l) == clock - l.began <= ContextTimeout

\* describe_primer_cached: what is young enough is served at once.
StartPrimer(r) ==
  /\ lookup[r] = NoLookup
  /\ lookup' = [lookup EXCEPT ![r] =
       IF primer # NoPrimer /\ clock - primer.at <= PrimerTTL
         THEN [pc |-> "served", began |-> clock, asOf |-> primer.asOf]
         ELSE [pc |-> "lookup", began |-> clock]]
  /\ UNCHANGED <<clock, primer>>

\* The graph is read at some moment of the lookup.
ReadGraph(r) ==
  /\ lookup[r].pc = "lookup" /\ InTime(lookup[r])
  /\ lookup' = [lookup EXCEPT ![r] = [pc |-> "read", began |-> @.began, asOf |-> clock]]
  /\ UNCHANGED <<clock, primer>>

\* The cache is stamped when the lookup is over, however old the reading is.
StorePrimer(r) ==
  /\ lookup[r].pc = "read" /\ InTime(lookup[r])
  /\ primer' = [at |-> clock, asOf |-> lookup[r].asOf]
  /\ lookup' = [lookup EXCEPT ![r] = [pc |-> "served", began |-> clock, asOf |-> @.asOf]]
  /\ UNCHANGED clock

\* An error, the timeout, or the end of the recall: nothing is cached.
LeavePrimer(r) ==
  /\ lookup[r] # NoLookup
  /\ lookup' = [lookup EXCEPT ![r] = NoLookup]
  /\ UNCHANGED <<clock, primer>>

PrimerNext ==
  \/ ClockTicks
  \/ \E r \in Recalls : StartPrimer(r) \/ ReadGraph(r) \/ StorePrimer(r) \/ LeavePrimer(r)

PrimerSpec == PrimerInit /\ [][PrimerNext]_primerVars

-----------------------------------------------------------------------------
(* Properties                                                              *)

\* The primer that a recall is given shows the graph as it was at most a
\* lookup and a TTL ago, also when lookups that overlap store out of order.
PrimerIsRecent ==
  \A r \in Recalls :
    lookup[r].pc = "served" => lookup[r].began - lookup[r].asOf <= PrimerTTL + ContextTimeout
=============================================================================
