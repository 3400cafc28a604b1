------------------------------ MODULE MissCache -----------------------------
(***************************************************************************)
(* The negative-knowledge cache: MissCache in ledger.rs under probe_memory *)
(* in space.rs.  Probes run next to writers of the graph, formation,       *)
(* maintenance, digest and forget, each of which clears the misses when it *)
(* is done.                                                                *)
(***************************************************************************)
EXTENDS Naturals, FiniteSets

CONSTANTS
  Readers,          \* probes under way
  Queries,          \* cache keys; case and spacing are folded away
  Uncachable,       \* keys longer than MISS_QUERY_MAX_CHARS
  MaxMisses,        \* MISS_CACHE_MAX_ROWS
  MissTTL,          \* RECALL_MISS_TTL_MS
  MaxTime,          \* bound: ticks of the clock
  MaxWrites         \* bound: writes to the graph

ASSUME MissAssumption ==
  IsFiniteSet(Queries) /\ {MaxMisses, MissTTL, MaxTime} \subseteq Nat

VARIABLES
  now,        \* unix_ms
  known,      \* what a search of the graph finds, and since when
  misses,     \* the rows of the miss cache, by key
  probe,      \* the probes
  updater,    \* the task that writes the graph and clears the misses
  settled,    \* history: what is known and a later clear has ended
  writes

missVars == <<now, known, misses, probe, updater, settled, writes>>

NoMiss == [at |-> 0, none |-> TRUE]
Unknown == MaxTime + 1
Away == [pc |-> "away"]
Quiet == [pc |-> "quiet"]

MissInit ==
  /\ now = 0
  /\ known = [q \in Queries |-> Unknown]
  /\ misses = [q \in Queries |-> NoMiss]
  /\ probe = [r \in Readers |-> Away]
  /\ updater = Quiet
  /\ settled = {} /\ writes = 0

cached == {q \in Queries : misses[q] # NoMiss}
Locked == updater.pc = "clearing"
Since(t, at) == IF t >= at THEN t - at ELSE 0
Expired(row, t) == Since(t, row.at) > MissTTL

TimePasses ==
  /\ now < MaxTime
  /\ now' = now + 1
  /\ UNCHANGED <<known, misses, probe, updater, settled, writes>>

ProbeGoes(r, state) == probe' = [probe EXCEPT ![r] = state]

-----------------------------------------------------------------------------
(* A probe                                                                 *)

StartProbe(r, q) ==
  /\ probe[r] = Away
  /\ ProbeGoes(r, [pc |-> "check", key |-> q, stamp |-> now])
  /\ UNCHANGED <<now, known, misses, updater, settled, writes>>

\* is_fresh_miss; cached tells what a metric would: the answer was the cache's.
CheckMiss(r) ==
  LET p == probe[r]
      row == misses[p.key]
  IN  /\ p.pc = "check"
      /\ ProbeGoes(r, IF row = NoMiss THEN [p EXCEPT !.pc = "search"]
                 ELSE IF Expired(row, p.stamp)
                   THEN [pc |-> "prune", key |-> p.key, stamp |-> p.stamp, there |-> TRUE]
                 ELSE [p EXCEPT !.pc = "cached"])
      /\ UNCHANGED <<now, known, misses, updater, settled, writes>>

\* A removed row takes the id with it that a waiting prune has read.
Forgotten(keys) ==
  [r \in Readers |-> IF probe[r].pc = "prune" /\ probe[r].key \in keys
                       THEN [probe[r] EXCEPT !.there = FALSE] ELSE probe[r]]

\* The expired row is removed under the lock, by its id: it may have been
\* refreshed in place since it was read.
PruneMiss(r) ==
  LET p == probe[r] IN
  /\ p.pc = "prune" /\ ~Locked
  /\ misses' = IF p.there THEN [misses EXCEPT ![p.key] = NoMiss] ELSE misses
  /\ probe' = [Forgotten({p.key}) EXCEPT ![r] = [pc |-> "search", key |-> p.key, stamp |-> p.stamp]]
  /\ UNCHANGED <<now, known, updater, settled, writes>>

\* SEARCH CONCEPT; an error ends the probe, a hit answers it.
Search(r) ==
  LET p == probe[r] IN
  /\ p.pc = "search"
  /\ \/ ProbeGoes(r, Away)
     \/ known[p.key] = Unknown
        /\ ProbeGoes(r, [pc |-> "record", key |-> p.key, stamp |-> p.stamp, raced |-> FALSE])
  /\ UNCHANGED <<now, known, misses, updater, settled, writes>>

\* purge_expired_locked with the probe's own time, only at the cap.
Purged(t) ==
  IF Cardinality(cached) < MaxMisses THEN misses
  ELSE [q \in Queries |-> IF misses[q] # NoMiss /\ Expired(misses[q], t) THEN NoMiss ELSE misses[q]]

Rows(m) == Cardinality({q \in Queries : m[q] # NoMiss})

\* Mutant: the row is dated when it is written, not when its probe began.
RecordedNow(p) ==
  LET row == [at |-> now, raced |-> p.raced, stuck |-> FALSE] IN
  IF p.key \in Uncachable THEN misses
  ELSE IF misses[p.key] # NoMiss THEN [misses EXCEPT ![p.key] = row]
  ELSE LET m == Purged(p.stamp) IN
       IF Rows(m) >= MaxMisses THEN m ELSE [m EXCEPT ![p.key] = row]

\* record_miss: a row that is there is refreshed; a new one needs room.
Recorded(p) ==
  LET row == [at |-> p.stamp, raced |-> p.raced, stuck |-> FALSE] IN
  IF p.key \in Uncachable THEN misses
  ELSE IF misses[p.key] # NoMiss THEN [misses EXCEPT ![p.key] = row]
  ELSE LET m == Purged(p.stamp) IN
       IF Rows(m) >= MaxMisses THEN m ELSE [m EXCEPT ![p.key] = row]

RecordMiss(r) ==
  /\ probe[r].pc = "record" /\ ~Locked
  /\ misses' = Recorded(probe[r])
  /\ probe' = [Forgotten({q \in cached : misses'[q] = NoMiss}) EXCEPT ![r] = Away]
  /\ UNCHANGED <<now, known, updater, settled, writes>>

AnswerFromCache(r) ==
  /\ probe[r].pc = "cached"
  /\ ProbeGoes(r, Away)
  /\ UNCHANGED <<now, known, misses, updater, settled, writes>>

-----------------------------------------------------------------------------
(* The writers of the graph                                                *)

Learn(q) ==
  /\ updater.pc \in {"quiet", "wrote"} /\ writes < MaxWrites /\ known[q] = Unknown
  /\ known' = [known EXCEPT ![q] = now] /\ writes' = writes + 1
  /\ updater' = [pc |-> "wrote"]
  /\ UNCHANGED <<now, misses, probe, settled>>

Unlearn(q) ==
  /\ updater.pc \in {"quiet", "wrote"} /\ writes < MaxWrites /\ known[q] # Unknown
  /\ known' = [known EXCEPT ![q] = Unknown] /\ writes' = writes + 1
  /\ updater' = [pc |-> "wrote"] /\ settled' = settled \ {q}
  /\ UNCHANGED <<now, misses, probe>>

\* A conversation that ends in failure, or a task that dies, clears nothing.
UpdaterFails ==
  /\ updater.pc = "wrote"
  /\ updater' = Quiet
  /\ UNCHANGED <<now, known, misses, probe, settled, writes>>

\* clear, under the lock: it scans by _id and steps over what it cannot remove.
BeginClear ==
  /\ updater.pc = "wrote"
  /\ updater' = [pc |-> "clearing", left |-> cached]
  /\ UNCHANGED <<now, known, misses, probe, settled, writes>>

ClearRow(q) ==
  /\ updater.pc = "clearing" /\ q \in updater.left
  /\ updater' = [updater EXCEPT !.left = @ \ {q}]
  /\ \/ misses' = [misses EXCEPT ![q] = NoMiss] /\ probe' = Forgotten({q})
     \/ misses' = [misses EXCEPT ![q].stuck = TRUE] /\ UNCHANGED probe
  /\ UNCHANGED <<now, known, settled, writes>>

EndClear ==
  /\ updater.pc = "clearing" /\ updater.left = {}
  /\ updater' = Quiet
  /\ settled' = {q \in Queries : known[q] # Unknown}
  /\ probe' = [r \in Readers |-> IF probe[r].pc = "record"
                                    THEN [probe[r] EXCEPT !.raced = TRUE] ELSE probe[r]]
  /\ UNCHANGED <<now, known, misses, writes>>

MissNext ==
  \/ TimePasses
  \/ \E r \in Readers :
       \/ \E q \in Queries : StartProbe(r, q)
       \/ CheckMiss(r) \/ PruneMiss(r) \/ Search(r) \/ RecordMiss(r) \/ AnswerFromCache(r)
  \/ \E q \in Queries : Learn(q) \/ Unlearn(q) \/ ClearRow(q)
  \/ UpdaterFails \/ BeginClear \/ EndClear

MissSpec == MissInit /\ [][MissNext]_missVars

-----------------------------------------------------------------------------
(* Properties                                                              *)

MissTypeOK ==
  /\ now \in 0..MaxTime /\ known \in [Queries -> 0..Unknown]
  /\ cached \cap Uncachable = {} /\ Cardinality(cached) <= MaxMisses
  /\ \A q \in cached : misses[q].at \in 0..now
  /\ updater.pc \in {"quiet", "wrote", "clearing"} /\ settled \subseteq Queries

\* "Nothing is known" is never answered from the cache for longer than the TTL
\* after the memory was written, whatever probes, clears and failures do.
HiddenAtMostTTL ==
  \A r \in Readers :
    probe[r].pc = "cached" /\ known[probe[r].key] # Unknown =>
      probe[r].stamp <= known[probe[r].key] + MissTTL

\* Once the updater has cleared, a miss for what is known is only there because
\* its probe had searched before the clear, or the row could not be removed.
OnlyRacersOutliveAClear ==
  \A q \in settled \cap cached : misses[q].raced \/ misses[q].stuck

\* CHANGELOG.md:62, 83: a miss whose search started before a concurrent clear
\* is dropped when it comes to be recorded.
ClearedMissesStayCleared == \A q \in settled \cap cached : misses[q].stuck
=============================================================================
