------------------------------- MODULE EventLog -------------------------------
(***************************************************************************)
(* The wiki's audit log is pruned to a cap (prune_events, wiki/mod.rs)     *)
(* while others write to it.  Its newest DigestExtracted event of each     *)
(* document is the ledger of the digest and has to survive.                *)
(***************************************************************************)
EXTENDS Naturals, FiniteSets, FiniteSetsExt

CONSTANTS
  Digested,    \* documents that are digested
  MaxKeep,     \* the cap
  BatchLimit,  \* MAX_SEARCH_LIMIT
  MaxEvents    \* bound

ASSUME EventLogAssumption == {MaxKeep, BatchLimit, MaxEvents} \subseteq Nat \ {0}

VARIABLES
  log,      \* the events, [id, doc]; a doc of 0 is not of the digest
  issued,   \* events ever written
  prune,    \* a prune under way
  late      \* ghost: events written during it

logVars == <<log, issued, prune, late>>

NoPrune == [at |-> "idle", heads |-> {}, cursor |-> 0, batch |-> {}, kept |-> 0, removed |-> 0]
LogInit == log = {} /\ issued = 0 /\ prune = NoPrune /\ late = 0

Ledger(d) == { e \in log : e.doc = d }
Newest(S) == CHOOSE e \in S : \A x \in S : x.id <= e.id

\* write_event.  While a prune runs, fewer events are written than it keeps.
WriteEvent(doc) ==
  /\ issued < MaxEvents
  /\ prune # NoPrune => late < MaxKeep
  /\ issued' = issued + 1
  /\ log' = log \cup {[id |-> issued', doc |-> doc]}
  /\ late' = IF prune = NoPrune THEN 0 ELSE late + 1
  /\ UNCHANGED prune

\* Mutant: the oldest event of a document is taken for its head.
OldestHeads == { (CHOOSE e \in Ledger(d) : \A x \in Ledger(d) : e.id <= x.id).id
                 : d \in {x \in Digested : Ledger(x) # {}} }

\* digest_ledger_heads
LedgerHeads == { Newest(Ledger(d)).id : d \in {x \in Digested : Ledger(x) # {}} }

StartPrune ==
  /\ prune = NoPrune
  /\ prune' = [NoPrune EXCEPT !.at = "count", !.heads = LedgerHeads]
  /\ late' = 0
  /\ UNCHANGED <<log, issued>>

Excess == IF Cardinality(log) <= MaxKeep + prune.kept THEN 0
          ELSE Cardinality(log) - MaxKeep - prune.kept

\* The oldest beyond the cursor; the prune is over when there is no excess.
TakeBatch ==
  /\ prune.at = "count"
  /\ LET beyond == { e \in log : e.id > prune.cursor }
         size   == Min({Excess, BatchLimit})
         batch  == { e \in beyond : Cardinality({ x \in beyond : x.id < e.id }) < size }
     IN  prune' = IF Excess = 0 \/ batch = {} THEN [prune EXCEPT !.at = "event"]
                  ELSE [prune EXCEPT !.at = "batch", !.batch = batch]
  /\ UNCHANGED <<log, issued, late>>

PruneRow ==
  /\ prune.at = "batch"
  /\ LET e == CHOOSE x \in prune.batch : \A y \in prune.batch : x.id <= y.id
         head == e.id \in prune.heads
         rest == prune.batch \ {e}
     IN  /\ log' = IF head THEN log ELSE log \ {e}
         /\ prune' = [prune EXCEPT !.cursor = e.id, !.batch = rest,
                        !.at = IF rest = {} THEN "count" ELSE "batch",
                        !.kept = @ + (IF head THEN 1 ELSE 0),
                        !.removed = @ + (IF head THEN 0 ELSE 1)]
  /\ UNCHANGED <<issued, late>>

\* The gap is explained by an event of its own.
FinishPrune ==
  /\ prune.at = "event" /\ (prune.removed > 0 => issued < MaxEvents)
  /\ prune' = NoPrune
  /\ IF prune.removed > 0
       THEN issued' = issued + 1 /\ log' = log \cup {[id |-> issued', doc |-> 0]}
       ELSE UNCHANGED <<log, issued>>
  /\ UNCHANGED late

LogNext ==
  \/ \E doc \in Digested \cup {0} : WriteEvent(doc)
  \/ StartPrune \/ TakeBatch \/ PruneRow \/ FinishPrune

LogSpec == LogInit /\ [][LogNext]_logVars

\* A document never loses the newest entry of its ledger, whatever is written
\* while the log is pruned.
LedgerSurvives ==
  [][\A d \in Digested : Ledger(d) # {} =>
       \E e \in log' : e.doc = d /\ e.id >= Newest(Ledger(d)).id]_logVars

\* A prune that comes to its end has met the cap: what it leaves, the ledger and
\* the late events aside, fits; and it has taken no more than it had to.
PruneMeetsTheCap ==
  prune.at = "event" =>
    /\ Cardinality(log) <= MaxKeep + Cardinality(prune.heads) + late
    /\ prune.removed > 0 => Cardinality(log) >= MaxKeep + prune.kept
=============================================================================
