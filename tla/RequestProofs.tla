---------------------------- MODULE RequestProofs ----------------------------
(***************************************************************************)
(* What a request meets, for any number of requests, tokens, probes and    *)
(* recalls:                                                                *)
(*   RecentCaches      the caches of probe and recall;                     *)
(*   ExactAccounts     the accounts of tokens and permits;                 *)
(*   NoWiderAccess     what a credential opens;                            *)
(*   AlikeChannels     the agreement of the channels.                      *)
(* And those who go over many rows of the wiki while others write single   *)
(* ones, for any number of documents, versions, parts, rows and events:    *)
(*   SoundCitations    searches and reads beside commits;                  *)
(*   CompleteListings  paged listings beside changes;                      *)
(*   FaithfulBundles   imports and exports of bundles beside edits;        *)
(*   SafeBulk          a bundle that comes back, and the prune of the      *)
(*                     event log beside those who write to it.             *)
(*                                                                         *)
(* The parts of MCRequests share no state, so a behaviour of RequestsSpec  *)
(* is one of each part's own specification (PartsFollow), where the proofs *)
(* are done.  Those about the wiki have an invariant each (CiteInv,        *)
(* ListInv, LogInv, BundleInv): what a walker has in hand at each of its   *)
(* steps, related to the rows as they are by then.                         *)
(***************************************************************************)
EXTENDS ChunkerProofs    \* MCRequests, and lemmas about least and greatest numbers

\* Every part follows its own specification.
LEMMA PartsFollow ==
  RequestsSpec =>
    AccessSpec /\ MissSpec /\ PrimerSpec /\ CiteSpec /\ ListSpec /\ LogSpec /\ BundleSpec
<1>1. RequestsInit =>
        AccessInit /\ MissInit /\ PrimerInit /\ CiteInit /\ ListInit /\ LogInit /\ BundleInit
  BY DEF RequestsInit
<1>2. [RequestsNext]_<<accessVars, others, focus>> =>
        /\ [AccessNext]_accessVars /\ [MissNext]_missVars /\ [PrimerNext]_primerVars
        /\ [CiteNext]_citeVars /\ [ListNext]_listVars /\ [LogNext]_logVars /\ [BundleNext]_bundleVars
  BY DEF RequestsNext, others
<1>. QED
  BY <1>1, <1>2, PTL DEF RequestsSpec, AccessSpec, MissSpec, PrimerSpec, CiteSpec, ListSpec,
                         LogSpec, BundleSpec

-----------------------------------------------------------------------------
(* The primer of recall                                                    *)

Primers == {NoPrimer} \cup [at : Nat, asOf : Nat]
Lookups == {NoLookup} \cup [pc : {"lookup"}, began : Nat]
             \cup [pc : {"read", "served"}, began : Nat, asOf : Nat]

\* A reading was made within the lookup that stores it.
PrimerInv ==
  /\ clock \in Nat /\ primer \in Primers /\ lookup \in [Recalls -> Lookups]
  /\ primer # NoPrimer => primer.asOf <= primer.at /\ primer.at <= primer.asOf + ContextTimeout
  /\ \A r \in Recalls :
       /\ lookup[r].pc = "lookup" => lookup[r].began <= clock
       /\ lookup[r].pc = "read" => lookup[r].began <= lookup[r].asOf /\ lookup[r].asOf <= clock
  /\ PrimerIsRecent

\* One step of a recall, of the clock, or none.
LEMMA PrimerInductive == PrimerInv /\ [PrimerNext]_primerVars => PrimerInv'
<1>. SUFFICES ASSUME PrimerInv, [PrimerNext]_primerVars PROVE PrimerInv'
  OBVIOUS
<1>. USE PrimerAssumption DEF PrimerInv, PrimerIsRecent, Primers, Lookups, NoLookup, NoPrimer, InTime
<1>1. CASE ClockTicks
  BY <1>1 DEF ClockTicks
<1>2. ASSUME NEW r \in Recalls, StartPrimer(r) PROVE PrimerInv'
  BY <1>2 DEF StartPrimer
<1>3. ASSUME NEW r \in Recalls, ReadGraph(r) PROVE PrimerInv'
  BY <1>3 DEF ReadGraph
<1>4. ASSUME NEW r \in Recalls, StorePrimer(r) PROVE PrimerInv'
  BY <1>4 DEF StorePrimer
<1>5. ASSUME NEW r \in Recalls, LeavePrimer(r) PROVE PrimerInv'
  BY <1>5 DEF LeavePrimer
<1>6. CASE UNCHANGED primerVars
  BY <1>6 DEF primerVars
<1>. QED
  BY <1>1, <1>2, <1>3, <1>4, <1>5, <1>6 DEF PrimerNext

\* PrimerIsRecent, for the primer's own specification.
LEMMA PrimerAlways == PrimerSpec => []PrimerInv
<1>1. PrimerInit => PrimerInv
  BY DEF PrimerInit, PrimerInv, PrimerIsRecent, Primers, Lookups, NoLookup
<1>. QED
  BY <1>1, PrimerInductive, PTL DEF PrimerSpec

-----------------------------------------------------------------------------
(* The miss cache of probe                                                 *)

Misses == {NoMiss} \cup [at : Nat, raced : BOOLEAN, stuck : BOOLEAN]
Probes == {Away} \cup [pc : {"check", "search", "cached"}, key : Queries, stamp : Nat]
            \cup [pc : {"prune"}, key : Queries, stamp : Nat, there : BOOLEAN]
            \cup [pc : {"record"}, key : Queries, stamp : Nat, raced : BOOLEAN]
Updaters == [pc : {"quiet", "wrote"}] \cup [pc : {"clearing"}, left : SUBSET Queries]

MissTyped ==
  /\ now \in Nat /\ known \in [Queries -> Nat] /\ misses \in [Queries -> Misses]
  /\ probe \in [Readers -> Probes] /\ updater \in Updaters /\ settled \in SUBSET Queries

\* Nothing is dated later than the moment its key became known.
MissDated ==
  /\ \A q \in cached : misses[q].at <= known[q]
  /\ \A r \in Readers :
       /\ probe[r].pc # "away" => probe[r].stamp <= now
       /\ probe[r].pc = "record" => probe[r].stamp <= known[probe[r].key]

\* While a clear is under way no row comes; it leaves those it cannot remove.
ClearSweeps ==
  /\ updater.pc = "clearing" =>
       updater.left \subseteq cached /\ \A q \in cached : q \in updater.left \/ misses[q].stuck
  /\ \A q \in settled : known[q] # Unknown
  /\ \A r \in Readers : probe[r].pc = "record" /\ probe[r].key \in settled => probe[r].raced

MissInv ==
  MissTyped /\ MissTypeOK /\ MissDated /\ ClearSweeps /\ HiddenAtMostTTL /\ OnlyRacersOutliveAClear

\* The cache holds no more than a subset of its keys, so a step that only takes
\* rows out, or changes them in place, keeps the cap.
LEMMA FewerMisses ==
  ASSUME MissTypeOK, cached' \subseteq cached PROVE Cardinality(cached') <= MaxMisses
<1>1. IsFiniteSet(cached)
  BY MissAssumption, FS_Subset DEF cached
<1>. QED
  BY <1>1, FS_Subset, FS_CardinalityType, MissAssumption DEF MissTypeOK

\* What a row, a probe and the updater are made of.
LEMMA MissParts ==
  ASSUME MissTyped
  PROVE  /\ \A q \in cached : misses[q] \in [at : Nat, raced : BOOLEAN, stuck : BOOLEAN]
         /\ \A r \in Readers :
              /\ probe[r].pc \in {"check", "search", "cached"} =>
                   probe[r] \in [pc : {"check", "search", "cached"}, key : Queries, stamp : Nat]
              /\ probe[r].pc = "prune" =>
                   probe[r] \in [pc : {"prune"}, key : Queries, stamp : Nat, there : BOOLEAN]
              /\ probe[r].pc = "record" =>
                   probe[r] \in [pc : {"record"}, key : Queries, stamp : Nat, raced : BOOLEAN]
         /\ updater.pc = "clearing" => updater \in [pc : {"clearing"}, left : SUBSET Queries]
BY DEF MissTyped, cached, Misses, Probes, Away, Updaters

LEMMA QuietSteps ==
  ASSUME MissInv,
         \/ TimePasses \/ UpdaterFails \/ BeginClear \/ EndClear
         \/ \E q \in Queries : Learn(q) \/ Unlearn(q) \/ ClearRow(q)
  PROVE  MissInv'
<1>. USE MissAssumption DEF MissInv, MissTyped, Misses, Probes, Updaters, NoMiss, Away, Quiet, Unknown
<1>1. CASE TimePasses
  <2>1. MissTyped' /\ MissDated' /\ ClearSweeps'
    BY <1>1 DEF TimePasses, MissDated, ClearSweeps, cached, MissTypeOK
  <2>2. MissTypeOK' /\ HiddenAtMostTTL' /\ OnlyRacersOutliveAClear'
    BY <1>1 DEF TimePasses, MissTypeOK, HiddenAtMostTTL, OnlyRacersOutliveAClear, cached
  <2>. QED
    BY <2>1, <2>2
<1>2. CASE UpdaterFails
  <2>1. MissTyped' /\ MissDated' /\ ClearSweeps'
    BY <1>2 DEF UpdaterFails, MissDated, ClearSweeps, cached, MissTypeOK
  <2>2. MissTypeOK' /\ HiddenAtMostTTL' /\ OnlyRacersOutliveAClear'
    BY <1>2 DEF UpdaterFails, MissTypeOK, HiddenAtMostTTL, OnlyRacersOutliveAClear, cached
  <2>. QED
    BY <2>1, <2>2
<1>3. CASE BeginClear
  <2>1. MissTyped' /\ MissDated' /\ ClearSweeps'
    BY <1>3 DEF BeginClear, MissDated, ClearSweeps, cached, MissTypeOK
  <2>2. MissTypeOK' /\ HiddenAtMostTTL' /\ OnlyRacersOutliveAClear'
    BY <1>3 DEF BeginClear, MissTypeOK, HiddenAtMostTTL, OnlyRacersOutliveAClear, cached
  <2>. QED
    BY <2>1, <2>2
<1>4. CASE EndClear
  <2>1. MissTyped'
    <3>1. ASSUME NEW r \in Readers PROVE probe'[r] \in Probes
      <4>1. CASE probe[r].pc = "record"
        <5>1. probe[r] \in [pc : {"record"}, key : Queries, stamp : Nat, raced : BOOLEAN]
          BY <4>1, MissParts
        <5>2. probe'[r] = [probe[r] EXCEPT !.raced = TRUE]
          BY <1>4, <4>1 DEF EndClear
        <5>. QED
          BY <5>1, <5>2
      <4>2. CASE probe[r].pc # "record"
        BY <1>4, <4>2 DEF EndClear
      <4>. QED
        BY <4>1, <4>2
    <3>2. probe' \in [Readers -> Probes]
      BY <1>4, <3>1 DEF EndClear
    <3>. QED
      BY <1>4, <3>2 DEF EndClear
  <2>4. MissDated'
    BY <1>4, MissParts DEF EndClear, MissDated, cached
  <2>2. ClearSweeps' /\ OnlyRacersOutliveAClear'
    BY <1>4 DEF EndClear, ClearSweeps, OnlyRacersOutliveAClear, cached
  <2>3. MissTypeOK' /\ HiddenAtMostTTL'
    BY <1>4 DEF EndClear, MissTypeOK, HiddenAtMostTTL, cached
  <2>. QED
    BY <2>1, <2>2, <2>3, <2>4
<1>5. ASSUME NEW q \in Queries, Learn(q) PROVE MissInv'
  <2>1. MissTyped' /\ MissDated' /\ ClearSweeps'
    BY <1>5 DEF Learn, MissDated, ClearSweeps, cached, MissTypeOK
  <2>2. MissTypeOK' /\ OnlyRacersOutliveAClear'
    BY <1>5 DEF Learn, MissTypeOK, OnlyRacersOutliveAClear, cached
  <2>3. HiddenAtMostTTL'
    BY <1>5 DEF Learn, HiddenAtMostTTL, MissDated
  <2>. QED
    BY <2>1, <2>2, <2>3
<1>6. ASSUME NEW q \in Queries, Unlearn(q) PROVE MissInv'
  <2>1. MissTyped' /\ MissDated' /\ ClearSweeps'
    BY <1>6 DEF Unlearn, MissDated, ClearSweeps, cached, MissTypeOK
  <2>2. MissTypeOK' /\ HiddenAtMostTTL' /\ OnlyRacersOutliveAClear'
    BY <1>6 DEF Unlearn, MissTypeOK, HiddenAtMostTTL, OnlyRacersOutliveAClear, cached
  <2>. QED
    BY <2>1, <2>2
<1>7. ASSUME NEW q \in Queries, ClearRow(q) PROVE MissInv'
  <2>. USE <1>7 DEF ClearRow
  <2>1. /\ q \in cached /\ misses[q] \in [at : Nat, raced : BOOLEAN, stuck : BOOLEAN]
        /\ updater \in [pc : {"clearing"}, left : SUBSET Queries]
    BY MissParts DEF ClearSweeps
  <2>2. CASE misses' = [misses EXCEPT ![q] = NoMiss] /\ probe' = Forgotten({q})
    <3>8. ASSUME NEW r \in Readers PROVE Forgotten({q})[r] \in Probes
      <4>1. CASE probe[r].pc = "prune"
        <5>1. probe[r] \in [pc : {"prune"}, key : Queries, stamp : Nat, there : BOOLEAN]
          BY <4>1, MissParts
        <5>2. [probe[r] EXCEPT !.there = FALSE]
                \in [pc : {"prune"}, key : Queries, stamp : Nat, there : BOOLEAN]
          BY <5>1
        <5>. QED
          BY <5>1, <5>2 DEF Forgotten
      <4>2. CASE probe[r].pc # "prune"
        BY <4>2 DEF Forgotten
      <4>. QED
        BY <4>1, <4>2
    <3>1. MissTyped'
      BY <2>1, <2>2, <3>8 DEF Forgotten
    <3>2. cached' = cached \ {q} /\ \A x \in cached' : misses'[x] = misses[x]
      BY <2>2 DEF cached
    <3>3. \A r \in Readers : /\ probe'[r].pc = probe[r].pc
                             /\ probe[r].pc # "away" => /\ probe'[r].key = probe[r].key
                                                        /\ probe'[r].stamp = probe[r].stamp
                             /\ probe[r].pc = "record" => probe'[r] = probe[r]
      BY <2>2, MissParts DEF Forgotten
    <3>4. MissDated'
      <4>1. \A x \in cached' : x \in cached /\ misses'[x] = misses[x] /\ misses'[x].at <= known'[x]
        BY <3>2 DEF MissDated
      <4>2. \A r \in Readers : probe[r].pc = "record" => probe[r].stamp <= known[probe[r].key]
        BY DEF MissDated
      <4>3. \A r \in Readers : /\ probe'[r].pc # "away" => probe'[r].stamp <= now'
                               /\ probe'[r].pc = "record" => probe'[r].stamp <= known'[probe'[r].key]
        BY <3>3, <4>2 DEF MissDated
      <4>. QED
        BY <4>1, <4>3 DEF MissDated
    <3>5. ClearSweeps' /\ OnlyRacersOutliveAClear'
      BY <2>1, <3>2, <3>3 DEF ClearSweeps, OnlyRacersOutliveAClear
    <3>6. HiddenAtMostTTL'
      BY <3>3 DEF HiddenAtMostTTL
    <3>7. MissTypeOK'
      BY <2>1, <3>2, FewerMisses DEF MissTypeOK
    <3>. QED
      BY <3>1, <3>4, <3>5, <3>6, <3>7
  <2>3. CASE misses' = [misses EXCEPT ![q].stuck = TRUE] /\ UNCHANGED probe
    <3>1. MissTyped'
      BY <2>1, <2>3
    <3>2. cached' = cached
      BY <2>1, <2>3, MissParts DEF cached
    <3>3. \A x \in cached : /\ misses'[x].at = misses[x].at
                            /\ misses[x].stuck \/ x = q => misses'[x].stuck
                            /\ misses[x].raced => misses'[x].raced
      BY <2>1, <2>3, MissParts DEF cached
    <3>4. MissDated' /\ HiddenAtMostTTL'
      BY <2>3, <3>2, <3>3 DEF MissDated, HiddenAtMostTTL
    <3>5. ClearSweeps' /\ OnlyRacersOutliveAClear'
      BY <2>1, <2>3, <3>2, <3>3 DEF ClearSweeps, OnlyRacersOutliveAClear
    <3>6. \A x \in cached : misses'[x].at \in 0..now
      BY <3>3 DEF MissTypeOK
    <3>7. MissTypeOK'
      BY <2>1, <3>2, <3>6, FewerMisses DEF MissTypeOK
    <3>. QED
      BY <3>1, <3>4, <3>5, <3>7
  <2>. QED
    BY <2>2, <2>3
<1>. QED
  BY <1>1, <1>2, <1>3, <1>4, <1>5, <1>6, <1>7

\* What a probe may come to say: a search that found nothing came before any
\* write, and an answer from the cache is as old as its row may be.
Honest(state) ==
  /\ state \in Probes
  /\ state.pc # "away" => state.stamp <= now
  /\ state.pc = "record" => known[state.key] = Unknown
  /\ state.pc = "cached" => state.stamp <= known[state.key] + MissTTL

ProbeMoves(r, state) ==
  /\ probe' = [probe EXCEPT ![r] = state]
  /\ UNCHANGED <<now, known, misses, updater, settled>>

LEMMA HonestMoves ==
  ASSUME MissInv, NEW r \in Readers, NEW state, Honest(state), ProbeMoves(r, state)
  PROVE  MissInv'
<1>. USE MissAssumption DEF MissInv, MissTyped, Honest, ProbeMoves
<1>1. cached' = cached /\ MissTyped'
  BY DEF cached
<1>2. MissTypeOK' /\ OnlyRacersOutliveAClear'
  BY <1>1 DEF MissTypeOK, OnlyRacersOutliveAClear
<1>3. \A x \in Readers : probe'[x] = IF x = r THEN state ELSE probe[x]
  OBVIOUS
<1>4. MissDated'
  <2>1. state.pc = "record" => state.stamp <= known[state.key]
    BY DEF MissTypeOK, Unknown, Probes, Away
  <2>. QED
    BY <1>1, <1>3, <2>1 DEF MissDated
<1>5. ClearSweeps'
  BY <1>1, <1>3 DEF ClearSweeps
<1>6. HiddenAtMostTTL'
  BY <1>3 DEF HiddenAtMostTTL
<1>. QED
  BY <1>1, <1>2, <1>4, <1>5, <1>6

LEMMA ProbeSteps ==
  ASSUME MissInv, NEW r \in Readers,
         \/ \E q \in Queries : StartProbe(r, q)
         \/ CheckMiss(r) \/ Search(r) \/ AnswerFromCache(r)
  PROVE  MissInv'
<1>. USE MissAssumption
<1>0. MissTyped /\ MissDated
  BY DEF MissInv
<1>1. ASSUME NEW q \in Queries, StartProbe(r, q) PROVE MissInv'
  <2>. DEFINE state == [pc |-> "check", key |-> q, stamp |-> now]
  <2>1. Honest(state)
    BY <1>0 DEF Honest, Probes, MissTyped
  <2>2. ProbeMoves(r, state)
    BY <1>1 DEF ProbeMoves, StartProbe, ProbeGoes
  <2>. QED
    BY <2>1, <2>2, HonestMoves
<1>2. CASE AnswerFromCache(r)
  <2>1. Honest(Away)
    BY DEF Honest, Probes, Away
  <2>2. ProbeMoves(r, Away)
    BY <1>2 DEF ProbeMoves, AnswerFromCache, ProbeGoes
  <2>. QED
    BY <2>1, <2>2, HonestMoves
<1>3. CASE Search(r)
  <2>. DEFINE p == probe[r]
              state == [pc |-> "record", key |-> p.key, stamp |-> p.stamp, raced |-> FALSE]
  <2>1. p \in [pc : {"check", "search", "cached"}, key : Queries, stamp : Nat]
    BY <1>0, <1>3, MissParts DEF Search
  <2>2. Honest(Away)
    BY DEF Honest, Probes, Away
  <2>3. known[p.key] = Unknown => Honest(state)
    BY <1>0, <1>3, <2>1 DEF Honest, Probes, MissDated, Search
  <2>4. \/ ProbeMoves(r, Away)
        \/ known[p.key] = Unknown /\ ProbeMoves(r, state)
    BY <1>3 DEF ProbeMoves, Search, ProbeGoes
  <2>. QED
    BY <2>2, <2>3, <2>4, HonestMoves
<1>4. CASE CheckMiss(r)
  <2>. DEFINE p == probe[r]
              found == misses[p.key]
              expired == [pc |-> "prune", key |-> p.key, stamp |-> p.stamp, there |-> TRUE]
              search == [p EXCEPT !.pc = "search"]
              answer == [p EXCEPT !.pc = "cached"]
  <2>1. p \in [pc : {"check", "search", "cached"}, key : Queries, stamp : Nat] /\ p.stamp <= now
    BY <1>0, <1>4, MissParts DEF CheckMiss, MissDated
  <2>2. Honest(search) /\ Honest(expired)
    BY <2>1 DEF Honest, Probes
  <2>3. found # NoMiss /\ ~Expired(found, p.stamp) => Honest(answer)
    <3>1. SUFFICES ASSUME found # NoMiss, ~Expired(found, p.stamp) PROVE Honest(answer)
      OBVIOUS
    <3>2. p.key \in cached /\ found.at \in Nat /\ known[p.key] \in Nat
      BY <1>0, <2>1, <3>1, MissParts DEF cached, MissTyped
    <3>3. p.stamp <= known[p.key] + MissTTL
      BY <1>0, <2>1, <3>1, <3>2 DEF Expired, Since, MissDated
    <3>. QED
      BY <2>1, <3>3 DEF Honest, Probes
  <2>4. ProbeMoves(r, IF found = NoMiss THEN search ELSE IF Expired(found, p.stamp) THEN expired ELSE answer)
    BY <1>4 DEF ProbeMoves, CheckMiss, ProbeGoes
  <2>. HIDE DEF expired, search, answer, found, p
  <2>. QED
    BY <2>2, <2>3, <2>4, HonestMoves
<1>. QED
  BY <1>1, <1>2, <1>3, <1>4

\* A removed row takes the id from a waiting prune, and nothing else.
LEMMA ForgottenIsSmall ==
  ASSUME MissTyped, NEW gone
  PROVE  /\ Forgotten(gone) \in [Readers -> Probes]
         /\ \A x \in Readers :
              /\ Forgotten(gone)[x].pc = probe[x].pc
              /\ probe[x].pc # "away" => /\ Forgotten(gone)[x].key = probe[x].key
                                         /\ Forgotten(gone)[x].stamp = probe[x].stamp
              /\ probe[x].pc = "record" => Forgotten(gone)[x] = probe[x]
<1>1. ASSUME NEW x \in Readers
      PROVE  /\ Forgotten(gone)[x] \in Probes
             /\ Forgotten(gone)[x].pc = probe[x].pc
             /\ probe[x].pc # "away" => /\ Forgotten(gone)[x].key = probe[x].key
                                        /\ Forgotten(gone)[x].stamp = probe[x].stamp
             /\ probe[x].pc = "record" => Forgotten(gone)[x] = probe[x]
  <2>1. CASE probe[x].pc = "prune"
    <3>1. probe[x] \in [pc : {"prune"}, key : Queries, stamp : Nat, there : BOOLEAN]
      BY <2>1, MissParts
    <3>. QED
      BY <3>1 DEF Forgotten, Probes
  <2>2. CASE probe[x].pc # "prune"
    BY <2>2 DEF Forgotten, MissTyped
  <2>. QED
    BY <2>1, <2>2
<1>. QED
  BY <1>1 DEF Forgotten

\* A row that may be in the cache
HonestRow(q, e) ==
  /\ e \in [at : Nat, raced : BOOLEAN, stuck : BOOLEAN]
  /\ e.at <= now /\ e.at <= known[q]
  /\ q \in settled => e.raced \/ e.stuck
  /\ q \notin Uncachable

LEMMA CachedAreHonest ==
  ASSUME MissInv, NEW q \in cached PROVE HonestRow(q, misses[q])
BY MissParts DEF MissInv, HonestRow, MissDated, OnlyRacersOutliveAClear, MissTypeOK, cached

\* A step under the lock that no clear is holding, by the probe that takes it.
LEMMA LockedSteps ==
  ASSUME MissInv, ~Locked, NEW r \in Readers, NEW state, NEW gone,
         Honest(state), state.pc # "record",
         probe' = [Forgotten(gone) EXCEPT ![r] = state],
         UNCHANGED <<now, known, updater, settled>>,
         misses' = [q \in Queries |-> misses'[q]],
         \A q \in Queries : misses'[q] = NoMiss \/ HonestRow(q, misses'[q]),
         Cardinality(cached') <= MaxMisses
  PROVE  MissInv'
<1>. USE MissAssumption
<1>0. MissTyped /\ MissTypeOK /\ MissDated /\ ClearSweeps /\ HiddenAtMostTTL
  BY DEF MissInv
<1>1. MissTyped'
  BY <1>0, ForgottenIsSmall DEF MissTyped, Misses, HonestRow, Honest
<1>2. \A x \in Readers : x # r => /\ probe'[x].pc = probe[x].pc
                                  /\ probe[x].pc # "away" => /\ probe'[x].key = probe[x].key
                                                             /\ probe'[x].stamp = probe[x].stamp
                                  /\ probe[x].pc = "record" => probe'[x] = probe[x]
  BY <1>0, ForgottenIsSmall
<1>3. probe'[r] = state
  BY <1>0, ForgottenIsSmall
<1>4. \A q \in cached' : q \in Queries /\ HonestRow(q, misses'[q])
  BY DEF cached
<1>5. MissTypeOK'
  BY <1>0, <1>1, <1>4 DEF MissTypeOK, HonestRow, cached
<1>6. MissDated' /\ HiddenAtMostTTL'
  BY <1>0, <1>2, <1>3, <1>4 DEF MissDated, HonestRow, Honest, HiddenAtMostTTL
<1>7. ClearSweeps' /\ OnlyRacersOutliveAClear'
  BY <1>0, <1>2, <1>3, <1>4 DEF ClearSweeps, OnlyRacersOutliveAClear, HonestRow, Locked
<1>. QED
  BY <1>1, <1>5, <1>6, <1>7 DEF MissInv

LEMMA PruneMissInv == ASSUME MissInv, NEW r \in Readers, PruneMiss(r) PROVE MissInv'
<1>. DEFINE p == probe[r]
            state == [pc |-> "search", key |-> p.key, stamp |-> p.stamp]
<1>1. MissTyped /\ MissTypeOK /\ MissDated
  BY DEF MissInv
<1>2. p \in [pc : {"prune"}, key : Queries, stamp : Nat, there : BOOLEAN] /\ p.stamp <= now
  BY <1>1, MissParts DEF PruneMiss, MissDated
<1>3. Honest(state)
  BY <1>2 DEF Honest, Probes
<1>4. misses' = [q \in Queries |-> misses'[q]]
      /\ \A q \in Queries : misses'[q] = NoMiss \/ misses'[q] = misses[q]
  BY <1>1, <1>2 DEF PruneMiss, MissTyped
<1>5. \A q \in Queries : misses'[q] = NoMiss \/ HonestRow(q, misses'[q])
  BY <1>4, CachedAreHonest DEF cached
<1>6. Cardinality(cached') <= MaxMisses
  BY <1>1, <1>4, FewerMisses DEF cached
<1>7. /\ ~Locked /\ UNCHANGED <<now, known, updater, settled>>
      /\ probe' = [Forgotten({p.key}) EXCEPT ![r] = state]
  BY DEF PruneMiss
<1>. HIDE DEF state
<1>. QED
  BY <1>3, <1>4, <1>5, <1>6, <1>7, LockedSteps DEF state

\* What record_miss makes of the rows: those that stay are as they were, the
\* probe's own is dated when it began, and a new one found room.
LEMMA RecordedRows ==
  ASSUME MissInv, NEW r \in Readers, probe[r].pc = "record"
  PROVE  LET e == [at |-> probe[r].stamp, raced |-> probe[r].raced, stuck |-> FALSE]
             then == Recorded(probe[r])
         IN  /\ then = [q \in Queries |-> then[q]]
             /\ \A q \in Queries : \/ then[q] = NoMiss \/ then[q] = misses[q]
                                   \/ q = probe[r].key /\ q \notin Uncachable /\ then[q] = e
             /\ Rows(then) <= MaxMisses
<1>. DEFINE p == probe[r]
            e == [at |-> p.stamp, raced |-> p.raced, stuck |-> FALSE]
            there(m) == {q \in Queries : m[q] # NoMiss}
            purged == Purged(p.stamp)
<1>. USE MissAssumption
<1>1. MissTyped /\ MissTypeOK /\ p.key \in Queries
  BY MissParts DEF MissInv
<1>2. Rows(misses) <= MaxMisses
  BY <1>1 DEF MissTypeOK, Rows, cached
<1>3. CASE p.key \in Uncachable
  BY <1>1, <1>2, <1>3 DEF Recorded, MissTyped
<1>4. CASE p.key \notin Uncachable /\ misses[p.key] # NoMiss
  <2>1. Recorded(p) = [misses EXCEPT ![p.key] = e]
    BY <1>4 DEF Recorded
  <2>2. e # NoMiss
    BY DEF NoMiss
  <2>3. there(Recorded(p)) = there(misses)
    BY <1>1, <1>4, <2>1, <2>2 DEF MissTyped
  <2>. QED
    BY <1>1, <1>2, <1>4, <2>1, <2>3 DEF MissTyped, Rows
<1>5. CASE p.key \notin Uncachable /\ misses[p.key] = NoMiss
  <2>1. /\ purged = [q \in Queries |-> purged[q]]
        /\ \A q \in Queries : purged[q] \in {NoMiss, misses[q]}
    BY <1>1 DEF Purged, MissTyped
  <2>2. there(purged) \subseteq cached /\ IsFiniteSet(there(purged)) /\ p.key \notin there(purged)
    BY <1>5, <2>1, FS_Subset DEF cached
  <2>3. Cardinality(there(purged)) <= MaxMisses /\ Cardinality(there(purged)) \in Nat
    BY <1>2, <2>2, FS_Subset, FS_CardinalityType DEF Rows, cached
  <2>4. CASE Rows(purged) >= MaxMisses
    <3>1. Recorded(p) = purged
      BY <1>5, <2>4 DEF Recorded
    <3>. QED
      BY <2>1, <2>3, <3>1 DEF Rows
  <2>5. CASE ~(Rows(purged) >= MaxMisses)
    <3>1. Recorded(p) = [purged EXCEPT ![p.key] = e]
      BY <1>5, <2>5 DEF Recorded
    <3>2. e # NoMiss
      BY DEF NoMiss
    <3>. DEFINE more == [purged EXCEPT ![p.key] = e]
    <3>. HIDE DEF purged, e
    <3>3. more = [q \in Queries |-> IF q = p.key THEN e ELSE purged[q]]
      BY <2>1
    <3>4. there(more) = there(purged) \cup {p.key}
      BY <1>1, <3>2, <3>3
    <3>5. Rows(more) = Rows(purged) + 1
      BY <2>2, <3>4, FS_AddElement DEF Rows
    <3>6. Rows(more) <= MaxMisses
      BY <2>3, <2>5, <3>5 DEF Rows
    <3>. QED
      BY <1>5, <2>1, <3>1, <3>3, <3>6 DEF e
  <2>. QED
    BY <2>4, <2>5
<1>. QED
  BY <1>1, <1>3, <1>4, <1>5

LEMMA RecordMissInv == ASSUME MissInv, NEW r \in Readers, RecordMiss(r) PROVE MissInv'
<1>. DEFINE p == probe[r]
            e == [at |-> p.stamp, raced |-> p.raced, stuck |-> FALSE]
            gone == {q \in cached : misses'[q] = NoMiss}
<1>1. MissTyped /\ MissDated /\ ClearSweeps
  BY DEF MissInv
<1>2. /\ ~Locked /\ UNCHANGED <<now, known, updater, settled>>
      /\ probe' = [Forgotten(gone) EXCEPT ![r] = Away]
      /\ misses' = Recorded(p) /\ p.pc = "record"
  BY DEF RecordMiss
<1>3. /\ p \in [pc : {"record"}, key : Queries, stamp : Nat, raced : BOOLEAN]
      /\ p.stamp <= now /\ p.stamp <= known[p.key] /\ (p.key \in settled => p.raced)
  BY <1>1, <1>2, MissParts DEF MissDated, ClearSweeps
<1>4. p.key \notin Uncachable => HonestRow(p.key, e)
  BY <1>3 DEF HonestRow
<1>5. misses' = [q \in Queries |-> misses'[q]] /\ Cardinality(cached') <= MaxMisses
  BY <1>2, RecordedRows DEF Rows, cached
<1>6. \A q \in Queries : misses'[q] = NoMiss \/ HonestRow(q, misses'[q])
  BY <1>2, <1>4, RecordedRows, CachedAreHonest DEF cached
<1>7. Honest(Away) /\ Away.pc # "record"
  BY DEF Honest, Probes, Away
<1>. HIDE DEF gone
<1>. QED
  BY <1>2, <1>5, <1>6, <1>7, LockedSteps

\* MissSpec keeps MissInv.
LEMMA MissAlways == MissSpec => []MissInv
<1>1. MissInit => MissInv
  <2>. SUFFICES ASSUME MissInit PROVE MissInv
    OBVIOUS
  <2>1. cached = {} /\ Cardinality(cached) = 0
    BY FS_EmptySet DEF MissInit, cached
  <2>. QED
    BY <2>1, MissAssumption
    DEF MissInit, MissInv, MissTyped, MissTypeOK, MissDated, ClearSweeps, HiddenAtMostTTL,
        OnlyRacersOutliveAClear, Misses, Probes, Updaters, Away, Quiet, Unknown
<1>2. MissInv /\ [MissNext]_missVars => MissInv'
  <2>. SUFFICES ASSUME MissInv, [MissNext]_missVars PROVE MissInv'
    OBVIOUS
  <2>1. CASE MissNext
    BY <2>1, QuietSteps, ProbeSteps, PruneMissInv, RecordMissInv DEF MissNext
  <2>2. CASE UNCHANGED missVars
    BY <2>2 DEF missVars, MissInv, MissTyped, MissTypeOK, MissDated, ClearSweeps, HiddenAtMostTTL,
                OnlyRacersOutliveAClear, cached
  <2>. QED
    BY <2>1, <2>2
<1>. QED
  BY <1>1, <1>2, PTL DEF MissSpec

\* What recall and probe are given from a cache is no older than the cache's
\* time to live allows, and a miss outlives a clear only where it raced it or
\* could not be removed: for any number of probes, keys, writers and recalls.
THEOREM RecentCaches == RequestsSpec => []CachesAreRecent
<1>1. MissInv /\ PrimerInv => CachesAreRecent
  BY DEF MissInv, PrimerInv, CachesAreRecent
<1>. QED
  BY <1>1, PartsFollow, MissAlways, PrimerAlways, PTL

-----------------------------------------------------------------------------
(* Who gets in                                                             *)

Scopes == {"Read", "Write", "All"}
Shown == {"status", "graph", "wiki"}

\* What every handler and tool demands, as a record and as a bargain: what is
\* open to the public only reads, what reads and shows more than a viewer may
\* see has a guard, what changes credentials is not billed.
SoundRoute(route) ==
  /\ route.need \in Scopes
  /\ route.mode \in {"CwtOnly", "Admin", "Credentialed", "PublicRead", "PublicReadLenient"}
  /\ route.paid \in BOOLEAN
  /\ route.mode \in {"PublicRead", "PublicReadLenient"} => route.need = "Read"
  /\ route.need = "Read" => \/ route.shows \in Shown
                            \/ route.shows = "history" /\ route.guard \in {"recall", "conversation"}
                            \/ route.shows = "audit" /\ route.guard = "events"
  /\ route.act # "none" => ~route.paid
  /\ route.act = "mint" => route.mode = "CwtOnly"

LEMMA HttpIsSound == \A route \in HttpRoutes : SoundRoute(route)
<1>. USE DEF Route, SoundRoute, Scopes, Shown
<1>0. /\ SoundRoute(Looks) /\ SoundRoute(Reads) /\ SoundRoute(Writes)
      /\ SoundRoute(Whole) /\ SoundRoute(Manages) /\ SoundRoute(Admin)
  BY DEF Looks, Reads, Writes, Whole, Manages, Admin
<1>1. /\ SoundRoute(Showing(Looks, "graph")) /\ SoundRoute(Showing(Reads, "wiki"))
      /\ SoundRoute(Showing(Whole, "everything"))
  BY DEF Looks, Reads, Whole, Showing
<1>2. \A route \in {Paid(Writes), Paid(Manages), Paid([Writes EXCEPT !.guard = "idle"]),
                    Paid(Guarded(Reads, "recall", "history")),
                    Guarded(Reads, "events", "audit"),
                    Guarded(Reads, "conversation", "history")} : SoundRoute(route)
  <2>1. /\ SoundRoute(Paid(Writes)) /\ SoundRoute(Paid(Manages))
        /\ SoundRoute(Paid([Writes EXCEPT !.guard = "idle"]))
    BY DEF Writes, Manages, Paid
  <2>2. SoundRoute(Paid(Guarded(Reads, "recall", "history")))
    BY DEF Reads, Paid, Guarded
  <2>3. SoundRoute(Guarded(Reads, "events", "audit")) /\ SoundRoute(Guarded(Reads, "conversation", "history"))
    BY DEF Reads, Guarded
  <2>. HIDE DEF SoundRoute
  <2>. QED
    BY <2>1, <2>2, <2>3
<1>3. \A route \in {Acting(Manages, "mint"), Acting(Manages, "revoke"), Acting(Manages, "update"),
                    Acting(Admin, "create")} : SoundRoute(route)
  <2>1. SoundRoute(Acting(Manages, "mint"))
    BY DEF Manages, Acting
  <2>2. SoundRoute(Acting(Manages, "revoke")) /\ SoundRoute(Acting(Manages, "update"))
    BY DEF Manages, Acting
  <2>3. SoundRoute(Acting(Admin, "create"))
    BY DEF Admin, Acting
  <2>. HIDE DEF SoundRoute
  <2>. QED
    BY <2>1, <2>2, <2>3
<1>. HIDE DEF SoundRoute
<1>. QED
  BY <1>0, <1>1, <1>2, <1>3
  DEF HttpRoutes, get_info, get_formation_status, post_formation, post_recall,
      post_recall_structured, post_probe, post_memory_pin, post_memory_forget,
      get_memory_status, post_shadow_eval, post_wiki_commit, list_wiki_docs,
      get_wiki_doc, get_wiki_content, list_wiki_versions, wiki_set_archived,
      post_wiki_search, post_wiki_verify, list_wiki_events, post_wiki_import,
      get_wiki_export, post_wiki_digest, post_maintenance, execute_kip_readonly,
      get_or_init_user, get_conversation, get_conversation_delta,
      list_conversations, list_space_tokens, add_space_token, revoke_space_token,
      update_space, restart_formation, get_byok, update_byok, create_space,
      update_space_tier

LEMMA McpIsSound == \A route \in McpRoutes : SoundRoute(route) /\ route.act = "none"
<1>. USE DEF Route, SoundRoute, Scopes, Shown, load_authorized_space_with_token, load_lenient_space
<1>0. /\ SoundRoute(load_lenient_space) /\ load_lenient_space.act = "none"
      /\ SoundRoute(load_authorized_space_with_token("Write"))
      /\ load_authorized_space_with_token("Write").act = "none"
  OBVIOUS
<1>1. \A route \in {Showing(load_lenient_space, "graph"),
                    Showing(load_authorized_space_with_token("Read"), "wiki")} :
        SoundRoute(route) /\ route.act = "none"
  BY DEF Showing
<1>2. \A route \in {Paid(Guarded(load_authorized_space_with_token("Read"), "recall", "history")),
                    Paid([load_authorized_space_with_token("Write") EXCEPT !.guard = "idle"]),
                    Guarded(load_authorized_space_with_token("Read"), "conversation", "history")} :
        SoundRoute(route) /\ route.act = "none"
  BY DEF Paid, Guarded
<1>. HIDE DEF SoundRoute, load_authorized_space_with_token, load_lenient_space, Route
<1>. QED
  BY <1>0, <1>1, <1>2
  DEF McpRoutes, get_space_info_for, get_formation_status_for, remember_conversation_for,
      recall_memory_for, run_maintenance_for, execute_kip_readonly_for,
      get_or_init_user_for, list_conversations_for, get_conversation_for,
      wiki_commit_for, wiki_search_for, wiki_read_for, wiki_verify_for

\* What a request may come to be served as.
Admitted(route, who, recalled) ==
  /\ label_restricted(who) => route.need = "Read" /\ route.shows \in Shown
  /\ who.kind = "anonymous" =>
       route.need = "Read" /\ route.shows # "audit" /\ ~recalled /\ WikiView(who) = {}

\* The bargain of the routes and the guards of the handlers keep it.
LEMMA GuardsAdmit ==
  ASSUME NEW route, SoundRoute(route), NEW cwt \in BOOLEAN, NEW t, NEW at,
         NEW recalled \in BOOLEAN, NEW busy \in BOOLEAN,
         route.mode \in {"CwtOnly", "Admin"} => cwt,
         recalled => route.guard = "conversation",
         ~Forbidden(route, Caller(route, cwt, t, at), recalled, busy)
  PROVE  Admitted(route, Caller(route, cwt, t, at), recalled)
<1>. DEFINE who == Caller(route, cwt, t, at)
<1>1. CASE who = TokenCaller(t) /\ Verifies(t, route.need, at)
  BY <1>1 DEF TokenCaller, Verifies, SoundRoute, Admitted, Forbidden, label_restricted,
              conversation_read_forbidden, WikiView, Shown
<1>2. CASE who = Anonymous /\ route.mode \in {"PublicRead", "PublicReadLenient"}
  BY <1>2 DEF Anonymous, SoundRoute, Admitted, Forbidden, label_restricted,
              conversation_read_forbidden, WikiView, Shown, Everything
<1>3. CASE who \in {CwtCaller, Refused}
  BY <1>3 DEF CwtCaller, Refused, Admitted, label_restricted
<1>4. \/ who = TokenCaller(t) /\ Verifies(t, route.need, at)
      \/ who = Anonymous /\ route.mode \in {"PublicRead", "PublicReadLenient"}
      \/ who \in {CwtCaller, Refused}
  BY DEF Caller, SoundRoute
<1>. QED
  BY <1>1, <1>2, <1>3, <1>4

\* A token, and what a request is at each of its stages.
IsToken(x) ==
  /\ x = [name |-> x.name, scope |-> x.scope, labels |-> x.labels, exp |-> x.exp, usage |-> x.usage]
  /\ x.scope \in Scopes /\ x.usage \in Nat /\ x.labels \subseteq Everything

Callers == {Nobody, Refused, Anonymous, CwtCaller}
             \cup [kind : {"st"}, id : TokenIds, labels : SUBSET Everything]
Pendings ==
  [pc : {"load", "create", "serve"}, route : HttpRoutes \cup McpRoutes,
   channel : {"http", "mcp", "stdio"}, at : Nat, recalled : BOOLEAN, cwt : BOOLEAN,
   id : TokenIds \cup {"none"}, write : BOOLEAN, scope : Scopes, holds : BOOLEAN, who : Callers]

SoundPending(s, r) ==
  /\ r \in Pendings
  /\ r.channel # "http" => r.route \in McpRoutes
  /\ r.route.act = "mint" => s \in Managers
  /\ r.route.mode \in {"CwtOnly", "Admin"} => r.cwt
  /\ r.recalled => r.route.guard = "conversation"
  /\ r.holds <=> r.route.paid /\ (r.channel = "http" \/ r.pc = "serve")
  /\ r.pc = "create" /\ r.channel = "mcp" => keys /\ r.write
  /\ r.pc = "serve" => Admitted(r.route, r.who, r.recalled)

SoundSave(s, r) ==
  /\ r.pc = "save" /\ r = [pc |-> "save", scope |-> r.scope, holds |-> FALSE, row |-> r.row]
  /\ s \in Managers /\ IsToken(r.row) /\ r.row.usage = 0
  /\ r.row.labels # Everything => r.row.scope = "Read"
  /\ keys /\ r.row.scope = "All" => r.scope = "All"

SoundRemove(r) ==
  r.pc = "remove" /\ r = [pc |-> "remove", id |-> r.id, holds |-> FALSE] /\ r.id \in TokenIds

Sound(s, r) == r = Idle \/ SoundPending(s, r) \/ SoundSave(s, r) \/ SoundRemove(r)

Holds(r) == r # Idle /\ r.holds
Holders == {s \in Slots : Holds(request[s])}

\* Every permit that is missing is held by one request.
RequestsInv ==
  /\ request = [s \in Slots |-> request[s]] /\ \A s \in Slots : Sound(s, request[s])
  /\ permits \in Nat /\ IsFiniteSet(Holders) /\ permits + Cardinality(Holders) = LlmBudget

TokensInv ==
  /\ tokens = [t \in TokenIds |-> tokens[t]] /\ \A t \in live : IsToken(tokens[t])
  /\ uses \in [TokenIds -> Nat] /\ \A t \in TokenIds \ minted : uses[t] = 0
  /\ minted \in SUBSET TokenIds /\ IsFiniteSet(minted) /\ live \subseteq minted
  /\ Cardinality(live) <= TokenCap
  /\ TokensAreTellable /\ UsageIsExact

\* What a mint has checked under the lock is true until its row is saved.
LockInv ==
  /\ token_lock \in Managers \cup {"free"}
  /\ \A s \in Slots : request[s].pc = "save" =>
       /\ token_lock = s /\ Cardinality(live) < TokenCap
       /\ \A t \in live : tokens[t].name # request[s].row.name

SpaceInv ==
  /\ space.made \in {0, 1} /\ (~space.there => space.made = 0)
  /\ space.made = 1 => space.owner \in {"chosen", IF keys THEN "user" ELSE "self"}

AccessInv ==
  /\ time \in 0..LastMoment /\ roster \in Rosters
  /\ RequestsInv /\ TokensInv /\ LockInv /\ SpaceInv

\* The stages tell themselves apart.
LEMMA Stages ==
  ASSUME NEW s, NEW r, Sound(s, r)
  PROVE  /\ r = Idle <=> r.pc = "idle"
         /\ r.pc \in {"load", "create", "serve"} => SoundPending(s, r)
         /\ r.pc = "save" => SoundSave(s, r)
         /\ r.pc = "remove" => SoundRemove(r)
         /\ r # Idle => r.holds \in BOOLEAN
<1>1. CASE r = Idle
  BY <1>1 DEF Idle
<1>2. CASE SoundPending(s, r)
  BY <1>2 DEF SoundPending, Pendings, Idle
<1>3. CASE SoundSave(s, r)
  <2>1. r.pc = "save" /\ r = [pc |-> "save", scope |-> r.scope, holds |-> FALSE, row |-> r.row]
    BY <1>3 DEF SoundSave
  <2>2. r.holds = FALSE
    BY <2>1
  <2>3. r.pc = "save" /\ r # Idle
    BY <2>1 DEF Idle
  <2>. QED
    BY <1>3, <2>2, <2>3
<1>4. CASE SoundRemove(r)
  <2>1. r.pc = "remove" /\ r = [pc |-> "remove", id |-> r.id, holds |-> FALSE]
    BY <1>4 DEF SoundRemove
  <2>2. r.holds = FALSE
    BY <2>1
  <2>3. r.pc = "remove" /\ r # Idle
    BY <2>1 DEF Idle
  <2>. QED
    BY <1>4, <2>2, <2>3
<1>. QED
  BY <1>1, <1>2, <1>3, <1>4 DEF Sound

\* Where a request goes, its permit goes: taken, kept or returned.
PermitMoves(before, after) ==
  \/ (Holds(after) <=> Holds(before)) /\ permits' = permits
  \/ Holds(after) /\ ~Holds(before) /\ permits > 0 /\ permits' = permits - 1
  \/ ~Holds(after) /\ Holds(before) /\ permits' = permits + 1

\* A slot whose request is sound in this state holds a sound one in the next.
LEMMA SoundArrives ==
  ASSUME NEW x, NEW r, request'[x] = r, keys' = keys, Sound(x, r)
  PROVE  Sound(x, request[x])'
<1>1. CASE r = Idle
  BY <1>1 DEF Sound
<1>2. CASE SoundPending(x, r)
  <2>1. SoundPending(x, request[x])'
    BY <1>2 DEF SoundPending
  <2>. QED
    BY <2>1 DEF Sound
<1>3. CASE SoundSave(x, r)
  <2>1. SoundSave(x, request[x])'
    BY <1>3 DEF SoundSave
  <2>. QED
    BY <2>1 DEF Sound
<1>4. CASE SoundRemove(r)
  <2>1. SoundRemove(request[x])'
    BY <1>4 DEF SoundRemove
  <2>. QED
    BY <2>1 DEF Sound
<1>. QED
  BY <1>1, <1>2, <1>3, <1>4 DEF Sound

LEMMA SlotMoves ==
  ASSUME RequestsInv, NEW s \in Slots, NEW r, Sound(s, r), PermitMoves(request[s], r),
         request' = [request EXCEPT ![s] = r], keys' = keys
  PROVE  RequestsInv'
<1>. USE DEF RequestsInv
<1>0. request' = [x \in Slots |-> IF x = s THEN r ELSE request[x]]
  OBVIOUS
<1>1. ASSUME NEW x \in Slots PROVE Sound(x, request[x])'
  <2>1. CASE x = s
    <3>1. request'[x] = r /\ Sound(x, r)
      BY <1>0, <2>1
    <3>. QED
      BY <3>1, SoundArrives
  <2>2. CASE x # s
    <3>1. request'[x] = request[x]
      BY <1>0, <2>2
    <3>2. Sound(x, request[x])
      OBVIOUS
    <3>. QED
      BY <3>1, <3>2, SoundArrives
  <2>. QED
    BY <2>1, <2>2
<1>2. request' = [x \in Slots |-> request'[x]] /\ \A x \in Slots : Sound(x, request[x])'
  BY <1>0, <1>1
<1>3. Holders' = IF Holds(r) THEN Holders \cup {s} ELSE Holders \ {s}
  BY <1>0 DEF Holders, Holds
<1>4. /\ Holds(request[s]) <=> s \in Holders
      /\ Cardinality(Holders) \in Nat
  BY FS_CardinalityType DEF Holders
<1>5. CASE Holds(r) <=> Holds(request[s])
  <2>1. Holders' = Holders
    BY <1>3, <1>4, <1>5
  <2>. QED
    BY <1>2, <1>5, <2>1 DEF PermitMoves
<1>6. CASE Holds(r) /\ ~Holds(request[s])
  <2>1. IsFiniteSet(Holders') /\ Cardinality(Holders') = Cardinality(Holders) + 1
    BY <1>3, <1>4, <1>6, FS_AddElement
  <2>. QED
    BY <1>2, <1>4, <1>6, <2>1 DEF PermitMoves
<1>7. CASE ~Holds(r) /\ Holds(request[s])
  <2>1. IsFiniteSet(Holders') /\ Cardinality(Holders') = Cardinality(Holders) - 1
    BY <1>3, <1>4, <1>7, FS_RemoveElement
  <2>. QED
    BY <1>2, <1>4, <1>7, <2>1 DEF PermitMoves
<1>. QED
  BY <1>5, <1>6, <1>7

\* What a caller is resolved to.
LEMMA CallerIsOne ==
  ASSUME TokensInv, NEW route, NEW cwt \in BOOLEAN, NEW t, NEW at
  PROVE  /\ Caller(route, cwt, t, at) \in Callers
         /\ Caller(route, cwt, t, at).kind = "st" =>
              /\ ~cwt /\ t \in live /\ Verifies(t, route.need, at)
              /\ route.mode = "PublicReadLenient" => ~public
         /\ /\ ~cwt /\ route.mode \in {"Credentialed", "PublicRead", "PublicReadLenient"}
            /\ Verifies(t, route.need, at) /\ ~(route.mode = "PublicReadLenient" /\ public)
            => Caller(route, cwt, t, at).kind = "st"
<1>. DEFINE who == Caller(route, cwt, t, at)
<1>1. Refused \in Callers /\ Anonymous \in Callers /\ CwtCaller \in Callers
  BY DEF Callers
<1>2. Refused.kind # "st" /\ Anonymous.kind # "st" /\ CwtCaller.kind # "st" /\ TokenCaller(t).kind = "st"
  BY DEF Refused, Anonymous, CwtCaller, TokenCaller
<1>3. Verifies(t, route.need, at) => t \in live /\ TokenCaller(t) \in Callers
  <2>. SUFFICES ASSUME Verifies(t, route.need, at) PROVE t \in live /\ TokenCaller(t) \in Callers
    OBVIOUS
  <2>1. t \in live /\ t \in TokenIds
    BY DEF Verifies, live
  <2>2. tokens[t].labels \subseteq Everything
    BY <2>1 DEF TokensInv, IsToken
  <2>. QED
    BY <2>1, <2>2 DEF TokenCaller, Callers
<1>4. CASE cwt
  BY <1>1, <1>2, <1>4 DEF Caller
<1>5. CASE ~cwt /\ route.mode = "Credentialed"
  BY <1>1, <1>2, <1>3, <1>5 DEF Caller
<1>6. CASE ~cwt /\ route.mode = "PublicRead"
  BY <1>1, <1>2, <1>3, <1>6 DEF Caller
<1>7. CASE ~cwt /\ route.mode \notin {"Credentialed", "PublicRead"}
  BY <1>1, <1>2, <1>3, <1>7 DEF Caller
<1>. QED
  BY <1>4, <1>5, <1>6, <1>7

\* A step of one slot that mints, revokes and counts nothing.
LEMMA QuietSlot ==
  ASSUME AccessInv, NEW s \in Slots, NEW r, Sound(s, r), r.pc # "save",
         PermitMoves(request[s], r), request' = [request EXCEPT ![s] = r],
         UNCHANGED <<time, roster, keys, tokens, minted, uses, token_lock>>, SpaceInv'
  PROVE  AccessInv'
<1>1. RequestsInv'
  BY SlotMoves DEF AccessInv
<1>2. live' = live /\ TokensInv'
  BY DEF AccessInv, TokensInv, live, TokensAreTellable, UsageIsExact
<1>3. LockInv'
  BY <1>2 DEF AccessInv, LockInv, RequestsInv
<1>. QED
  BY <1>1, <1>2, <1>3 DEF AccessInv

\* Leaving.
LEMMA LeaveMoves ==
  ASSUME RequestsInv, NEW s \in Slots, request[s] # Idle, Leave(s)
  PROVE  /\ request' = [request EXCEPT ![s] = Idle]
         /\ Sound(s, Idle) /\ Idle.pc # "save" /\ PermitMoves(request[s], Idle)
<1>1. request[s].holds \in BOOLEAN
  BY Stages DEF RequestsInv
<1>. QED
  BY <1>1 DEF Leave, Returned, PermitMoves, Holds, Sound, Idle

LEMMA SlotLeaves ==
  ASSUME AccessInv, NEW s \in Slots, request[s] # Idle, Leave(s),
         UNCHANGED <<time, roster, keys, tokens, minted, uses, token_lock>>, SpaceInv'
  PROVE  AccessInv'
<1>1. RequestsInv
  BY DEF AccessInv
<1>. QED
  BY <1>1, LeaveMoves, QuietSlot

\* A request arrives.
LEMMA ArriveInv ==
  ASSUME AccessInv, NEW s \in Slots, NEW channel \in {"http", "mcp", "stdio"}, Arrive(s, channel),
         UNCHANGED roster
  PROVE  AccessInv'
<1>1. PICK route \in {e \in (IF channel = "http" THEN HttpRoutes ELSE McpRoutes) :
                        (e.act \in {"mint", "revoke", "update"}) = (s \in Managers)},
           c \in Credentials :
        /\ PassesFirst(route, c, time)
        /\ channel = "http" /\ route.paid => permits > 0
        /\ permits' = IF channel = "http" /\ route.paid THEN permits - 1 ELSE permits
        /\ \E recalled \in (IF route.guard = "conversation" THEN BOOLEAN ELSE {FALSE}) :
             request' = [request EXCEPT ![s] = Pending(route, c, channel, recalled)]
  BY Zenon DEF Arrive
<1>2. PICK recalled \in (IF route.guard = "conversation" THEN BOOLEAN ELSE {FALSE}) :
        request' = [request EXCEPT ![s] = Pending(route, c, channel, recalled)]
  BY <1>1
<1>. DEFINE r == Pending(route, c, channel, recalled)
<1>3. /\ request[s] = Idle
      /\ UNCHANGED <<time, keys, autoCreate, space, public, tokens, minted, token_lock, uses>>
  BY DEF Arrive
<1>4. /\ SoundRoute(route) /\ route.paid \in BOOLEAN /\ route \in HttpRoutes \cup McpRoutes
      /\ channel # "http" => route \in McpRoutes /\ route.act = "none"
  BY HttpIsSound, McpIsSound DEF SoundRoute
<1>5. /\ r.pc = IF route.act = "create" THEN "create" ELSE "load"
      /\ r.route = route /\ r.channel = channel /\ r.recalled = recalled
      /\ r.cwt = HoldsCwt(route, c, time) /\ r.holds = (channel = "http" /\ route.paid)
  BY DEF Pending
<1>6. r \in Pendings
  <2>1. route.act = "mint" /\ keys => c.scope \in Scopes
    <3>. SUFFICES ASSUME route.act = "mint", keys PROVE c.scope \in Scopes
      OBVIOUS
    <3>1. CheckAuth(c, route.need, time)
      BY <1>1, <1>4 DEF SoundRoute, PassesFirst
    <3>2. c.kind = "cwt"
      BY <3>1 DEF CheckAuth
    <3>3. c \in Cwts
      BY <3>2 DEF Credentials
    <3>. QED
      BY <3>3 DEF Cwts, Scopes
  <2>2. c.kind = "st" => c.id \in TokenIds
    BY DEF Credentials, Cwts
  <2>3. time \in Nat /\ HoldsCwt(route, c, time) \in BOOLEAN /\ CheckAuth(c, "Write", time) \in BOOLEAN
    BY AccessAssumption DEF AccessInv, HoldsCwt, CheckAuth
  <2>. QED
    BY <1>4, <2>1, <2>2, <2>3 DEF Pending, Pendings, Callers, Scopes
<1>7. Sound(s, r)
  <2>1. SoundPending(s, r)
    BY <1>1, <1>4, <1>5, <1>6 DEF SoundPending, HoldsCwt
  <2>. QED
    BY <2>1 DEF Sound
<1>8. PermitMoves(request[s], r)
  <2>1. permits \in Nat /\ r # Idle
    BY <1>5 DEF AccessInv, RequestsInv, Idle
  <2>. QED
    BY <1>1, <1>3, <1>4, <1>5, <2>1 DEF PermitMoves, Holds
<1>9. SpaceInv' /\ r.pc # "save"
  BY <1>3, <1>5 DEF AccessInv, SpaceInv
<1>. HIDE DEF r
<1>. QED
  BY <1>2, <1>3, <1>7, <1>8, <1>9, QuietSlot DEF r

\* A token that is counted keeps everything else.
LEMMA CountedToken ==
  ASSUME NEW x, IsToken(x)
  PROVE  LET counted == [x EXCEPT !.usage = @ + 1]
         IN  /\ counted.name = x.name /\ counted.scope = x.scope /\ counted.labels = x.labels
             /\ counted.usage = x.usage + 1 /\ IsToken(counted)
<1>1. PICK n, sc, l, e, u :
        x = [name |-> n, scope |-> sc, labels |-> l, exp |-> e, usage |-> u]
  BY DEF IsToken
<1>2. u \in Nat /\ sc \in Scopes /\ l \subseteq Everything
  BY <1>1 DEF IsToken
<1>3. [x EXCEPT !.usage = @ + 1] = [name |-> n, scope |-> sc, labels |-> l, exp |-> e, usage |-> u + 1]
  BY <1>1
<1>. QED
  BY <1>1, <1>2, <1>3 DEF IsToken

LEMMA CountingIsExact ==
  ASSUME TokensInv, NEW t \in live,
         uses' = [uses EXCEPT ![t] = @ + 1], tokens' = [tokens EXCEPT ![t].usage = @ + 1],
         minted' = minted
  PROVE  /\ TokensInv' /\ live' = live
         /\ \A x \in live : tokens'[x].name = tokens[x].name
<1>. USE DEF TokensInv
<1>1. t \in TokenIds /\ IsToken(tokens[t])
  BY DEF live
<1>. DEFINE counted == [tokens[t] EXCEPT !.usage = @ + 1]
<1>3. /\ counted.name = tokens[t].name /\ counted.scope = tokens[t].scope
      /\ counted.labels = tokens[t].labels /\ counted.usage = tokens[t].usage + 1
      /\ IsToken(counted)
  BY <1>1, CountedToken
<1>4. tokens' = [x \in TokenIds |-> IF x = t THEN counted ELSE tokens[x]]
  BY <1>1
<1>. HIDE DEF counted
<1>5. counted # NoToken
  BY <1>1, <1>3 DEF NoToken, IsToken, Scopes
<1>6. live' = live
  BY <1>4, <1>5 DEF live
<1>7. \A x \in live : /\ tokens'[x].name = tokens[x].name /\ tokens'[x].scope = tokens[x].scope
                      /\ tokens'[x].labels = tokens[x].labels /\ IsToken(tokens'[x])
  BY <1>3, <1>4 DEF live
<1>8. TokensAreTellable'
  <2>1. ASSUME NEW x \in live
        PROVE  /\ \A u \in live : tokens'[x].name = tokens'[u].name => x = u
               /\ tokens'[x].labels # Everything => tokens'[x].scope = "Read"
    <3>1. /\ \A u \in live : tokens[x].name = tokens[u].name => x = u
          /\ tokens[x].labels # Everything => tokens[x].scope = "Read"
      BY DEF TokensAreTellable
    <3>2. /\ tokens'[x].name = tokens[x].name /\ tokens'[x].scope = tokens[x].scope
          /\ tokens'[x].labels = tokens[x].labels
      BY <1>7
    <3>. QED
      BY <1>7, <3>1, <3>2
  <2>. QED
    BY <1>6, <2>1 DEF TokensAreTellable
<1>9. UsageIsExact'
  BY <1>1, <1>3, <1>4, <1>6 DEF UsageIsExact, live
<1>10. uses' \in [TokenIds -> Nat] /\ \A x \in TokenIds \ minted' : uses'[x] = 0
  BY <1>1
<1>11. tokens' = [x \in TokenIds |-> tokens'[x]] /\ \A x \in live' : IsToken(tokens'[x])
  BY <1>4, <1>6, <1>7
<1>. QED
  BY <1>6, <1>7, <1>8, <1>9, <1>10, <1>11 DEF IsToken

\* A request is resolved, counted, and served or sent away.
LEMMA AdmitInv ==
  ASSUME AccessInv, NEW s \in Slots, NEW busy \in BOOLEAN, Admit(s, busy), UNCHANGED roster
  PROVE  AccessInv'
<1>. DEFINE r == request[s]
            who == Caller(r.route, r.cwt, r.id, r.at)
            pays == r.channel # "http" /\ r.route.paid
            served == [r EXCEPT !.pc = "serve", !.holds = @ \/ pays, !.who = who]
            refused == who = Refused \/ Forbidden(r.route, who, r.recalled, busy) \/ (pays /\ permits = 0)
<1>1. /\ RequestsInv /\ TokensInv /\ LockInv /\ SpaceInv
      /\ r.pc = "load" /\ r # Idle /\ SoundPending(s, r) /\ r \in Pendings
  BY Stages DEF AccessInv, RequestsInv, Admit, Idle, SoundPending
<1>2. /\ SoundRoute(r.route) /\ r.route.paid \in BOOLEAN /\ r.cwt \in BOOLEAN /\ r.recalled \in BOOLEAN
      /\ r.holds \in BOOLEAN
      /\ r.holds <=> r.route.paid /\ r.channel = "http"
  BY <1>1, HttpIsSound, McpIsSound DEF SoundPending, Pendings, SoundRoute
<1>3. /\ uses' = IF who.kind = "st" THEN [uses EXCEPT ![r.id] = @ + 1] ELSE uses
      /\ tokens' = IF Counted(r.route, r.cwt, r.id, r.at)
                     THEN [tokens EXCEPT ![r.id].usage = @ + 1] ELSE tokens
      /\ UNCHANGED <<time, keys, autoCreate, space, public, minted, token_lock>>
  BY DEF Admit
<1>4. who.kind = "st" <=> Counted(r.route, r.cwt, r.id, r.at)
  BY <1>1, <1>2, CallerIsOne DEF Counted, SoundRoute, SoundPending
<1>5. TokensInv' /\ live' = live /\ \A x \in live : tokens'[x].name = tokens[x].name
  <2>1. CASE who.kind = "st"
    <3>1. r.id \in live
      BY <1>1, <1>2, <2>1, CallerIsOne
    <3>2. /\ uses' = [uses EXCEPT ![r.id] = @ + 1] /\ minted' = minted
          /\ tokens' = [tokens EXCEPT ![r.id].usage = @ + 1]
      BY <1>3, <1>4, <2>1
    <3>. QED
      BY <1>1, <3>1, <3>2, CountingIsExact
  <2>2. CASE who.kind # "st"
    BY <1>1, <1>3, <1>4, <2>2 DEF TokensInv, live, TokensAreTellable, UsageIsExact
  <2>. QED
    BY <2>1, <2>2
<1>6. PICK after : /\ request' = [request EXCEPT ![s] = after]
                   /\ after.pc # "save" /\ Sound(s, after) /\ PermitMoves(r, after)
  <2>1. CASE refused
    <3>1. Leave(s)
      BY <2>1 DEF Admit
    <3>. QED
      BY <1>1, <3>1, LeaveMoves
  <2>2. CASE ~refused
    <3>1. request' = [request EXCEPT ![s].pc = "serve", ![s].holds = @ \/ pays, ![s].who = who]
          /\ permits' = IF pays THEN permits - 1 ELSE permits
      BY <2>2 DEF Admit
    <3>2. who \in Callers /\ Admitted(r.route, who, r.recalled)
      BY <1>1, <1>2, <2>2, CallerIsOne, GuardsAdmit DEF SoundPending
    <3>3. request' = [request EXCEPT ![s] = served]
      BY <1>1, <3>1 DEF RequestsInv
    <3>4. /\ served \in Pendings /\ served.pc = "serve" /\ served.holds = (r.holds \/ pays)
          /\ served.who = who /\ served.route = r.route /\ served.channel = r.channel
          /\ served.cwt = r.cwt /\ served.recalled = r.recalled
      BY <1>1, <1>2, <3>2 DEF Pendings
    <3>5. SoundPending(s, served)
      BY <1>1, <1>2, <3>2, <3>4 DEF SoundPending
    <3>6. PermitMoves(r, served)
      <4>1. permits \in Nat /\ served # Idle
        BY <1>1, <3>4 DEF RequestsInv, Idle
      <4>. QED
        BY <1>1, <1>2, <2>2, <3>1, <3>4, <4>1 DEF PermitMoves, Holds
    <3>. QED
      BY <3>3, <3>4, <3>5, <3>6 DEF Sound
  <2>. QED
    BY <2>1, <2>2
<1>7. RequestsInv'
  BY <1>1, <1>3, <1>6, SlotMoves
<1>8. LockInv'
  BY <1>1, <1>3, <1>5, <1>6 DEF LockInv, RequestsInv
<1>9. SpaceInv'
  BY <1>1, <1>3 DEF SpaceInv
<1>. QED
  BY <1>3, <1>5, <1>7, <1>8, <1>9 DEF AccessInv

\* Loading, creating and serving, and the operations that touch no token.
LEMMA PlainSteps ==
  ASSUME AccessInv, NEW s \in Slots, UNCHANGED roster,
         \/ LoadFails(s) \/ Create(s) \/ CreateFails(s) \/ Serve(s) \/ MintRefused(s)
         \/ UpdatePublic(s) \/ \E name : FindByName(s, name)
  PROVE  AccessInv'
<1>. DEFINE r == request[s]
<1>1. RequestsInv /\ SpaceInv /\ Sound(s, r)
  BY DEF AccessInv, RequestsInv
<1>2. ASSUME Leave(s), r.pc \in {"load", "create", "serve"},
             UNCHANGED <<time, keys, tokens, minted, uses, token_lock>>, SpaceInv'
      PROVE  AccessInv'
  <2>1. r # Idle
    BY <1>2 DEF Idle
  <2>. QED
    BY <1>2, <2>1, SlotLeaves
<1>3. ASSUME NEW after, SoundPending(s, after), r.pc \in {"load", "create"}, after.pc \in {"load", "create"},
             after.holds = r.holds, permits' = permits,
             request' = [request EXCEPT ![s] = after],
             UNCHANGED <<time, keys, tokens, minted, uses, token_lock>>, SpaceInv'
      PROVE  AccessInv'
  <2>1. PermitMoves(r, after) /\ Sound(s, after) /\ after.pc # "save"
    BY <1>3 DEF PermitMoves, Holds, Idle, Sound
  <2>. QED
    BY <1>3, <2>1, QuietSlot
<1>4. CASE LoadFails(s)
  <2>1. /\ r.pc = "load" /\ UNCHANGED <<time, keys, tokens, minted, uses, token_lock>> /\ SpaceInv'
        /\ r \in Pendings /\ SoundPending(s, r)
    BY <1>1, <1>4, Stages DEF LoadFails, SpaceInv, SoundPending
  <2>2. CASE /\ r.channel # "http" /\ autoCreate /\ (r.channel = "mcp" => keys) /\ r.write
    <3>. DEFINE after == [r EXCEPT !.pc = "create"]
    <3>1. permits' = permits /\ request' = [request EXCEPT ![s] = after]
      BY <1>1, <1>4, <2>2 DEF LoadFails, Goto, RequestsInv
    <3>2. /\ after \in Pendings /\ after.pc = "create" /\ after.holds = r.holds
          /\ after.route = r.route /\ after.channel = r.channel /\ after.cwt = r.cwt
          /\ after.recalled = r.recalled /\ after.write = r.write
      BY <2>1 DEF Pendings
    <3>3. SoundPending(s, after)
      BY <2>1, <2>2, <3>2 DEF SoundPending
    <3>. HIDE DEF after
    <3>. QED
      BY <1>3, <2>1, <3>1, <3>2, <3>3
  <2>3. CASE ~(/\ r.channel # "http" /\ autoCreate /\ (r.channel = "mcp" => keys) /\ r.write)
    <3>1. Leave(s)
      BY <1>4, <2>3 DEF LoadFails
    <3>. QED
      BY <1>2, <2>1, <3>1
  <2>. QED
    BY <2>2, <2>3
<1>5. CASE Create(s)
  <2>1. /\ r.pc = "create" /\ UNCHANGED <<time, keys, tokens, minted, uses, token_lock>>
        /\ r \in Pendings /\ SoundPending(s, r)
    BY <1>1, <1>5, Stages DEF Create, SoundPending
  <2>2. SpaceInv'
    BY <1>1, <1>5 DEF Create, SpaceInv
  <2>3. CASE r.channel = "http"
    BY <1>2, <1>5, <2>1, <2>2, <2>3 DEF Create
  <2>4. CASE r.channel # "http"
    <3>. DEFINE after == [r EXCEPT !.pc = "load", !.write = FALSE]
    <3>1. permits' = permits /\ request' = [request EXCEPT ![s] = after]
      BY <1>1, <1>5, <2>4 DEF Create, RequestsInv
    <3>2. /\ after \in Pendings /\ after.pc = "load" /\ after.holds = r.holds
          /\ after.route = r.route /\ after.channel = r.channel /\ after.cwt = r.cwt
          /\ after.recalled = r.recalled
      BY <2>1 DEF Pendings
    <3>3. SoundPending(s, after)
      BY <2>1, <2>4, <3>2 DEF SoundPending
    <3>. HIDE DEF after
    <3>. QED
      BY <1>3, <2>1, <2>2, <3>1, <3>2, <3>3
  <2>. QED
    BY <2>3, <2>4
<1>6. CASE CreateFails(s)
  BY <1>1, <1>2, <1>6 DEF CreateFails, SpaceInv
<1>7. CASE Serve(s)
  BY <1>1, <1>2, <1>7 DEF Serve, SpaceInv
<1>8. CASE MintRefused(s)
  BY <1>1, <1>2, <1>8 DEF MintRefused, SpaceInv
<1>9. CASE UpdatePublic(s)
  BY <1>1, <1>2, <1>9 DEF UpdatePublic, SpaceInv
<1>10. ASSUME NEW name, FindByName(s, name) PROVE AccessInv'
  <2>1. PICK t \in live : request' = [request EXCEPT ![s] = [pc |-> "remove", id |-> t, holds |-> FALSE]]
    BY <1>10 DEF FindByName
  <2>. DEFINE after == [pc |-> "remove", id |-> t, holds |-> FALSE]
  <2>2. Sound(s, after) /\ after.pc # "save" /\ ~Holds(after)
    BY DEF Sound, SoundRemove, live, Holds
  <2>3. r.pc = "serve" /\ r.route.act = "revoke" /\ SoundPending(s, r) /\ r.route \in HttpRoutes \cup McpRoutes
    BY <1>1, <1>10, Stages DEF FindByName, SoundPending, Pendings
  <2>4. ~Holds(r)
    BY <2>3, HttpIsSound, McpIsSound DEF SoundPending, SoundRoute, Holds
  <2>5. /\ UNCHANGED <<time, keys, tokens, minted, uses, token_lock>> /\ permits' = permits /\ SpaceInv'
    BY <1>1, <1>10 DEF FindByName, SpaceInv
  <2>. HIDE DEF after
  <2>. QED
    BY <2>1, <2>2, <2>4, <2>5, QuietSlot DEF PermitMoves, after
<1>. QED
  BY <1>4, <1>5, <1>6, <1>7, <1>8, <1>9, <1>10

\* The lock is taken with the checks.
LEMMA BeginMintInv ==
  ASSUME AccessInv, NEW s \in Slots, NEW w \in roster.rows, BeginMint(s, w), UNCHANGED roster
  PROVE  AccessInv'
<1>. DEFINE r == request[s]
            after == [pc |-> "save", scope |-> r.scope, holds |-> FALSE, row |-> w]
<1>1. /\ RequestsInv /\ TokensInv /\ LockInv /\ SpaceInv /\ Sound(s, r)
      /\ r.pc = "serve" /\ r.route.act = "mint"
      /\ UNCHANGED <<time, keys, space, tokens, minted, permits, uses>>
      /\ token_lock' = s /\ request' = [request EXCEPT ![s] = after]
  BY DEF AccessInv, RequestsInv, BeginMint
<1>2. SoundPending(s, r) /\ r.route \in HttpRoutes \cup McpRoutes
  BY <1>1, Stages DEF SoundPending, Pendings
<1>3. s \in Managers /\ ~Holds(r)
  BY <1>1, <1>2, HttpIsSound, McpIsSound DEF SoundPending, SoundRoute, Holds
<1>4. IsToken(w) /\ w.usage = 0
  BY AccessAssumption DEF AccessInv, IsToken, Scopes, Everything
<1>5. /\ Cardinality(live) < TokenCap /\ \A t \in live : tokens[t].name # w.name
      /\ w.labels # Everything => w.scope = "Read"
      /\ w.scope = "All" => r.scope = "All"
  BY DEF BeginMint, MintScopeAllowed, Allows
<1>6. Sound(s, after) /\ after.pc = "save" /\ ~Holds(after) /\ after.row = w
  BY <1>3, <1>4, <1>5 DEF Sound, SoundSave, Holds
<1>. HIDE DEF after
<1>7. RequestsInv'
  BY <1>1, <1>3, <1>6, SlotMoves DEF PermitMoves
<1>8. live' = live /\ TokensInv'
  BY <1>1 DEF TokensInv, live, TokensAreTellable, UsageIsExact
<1>9. LockInv'
  <2>1. ASSUME NEW x \in Slots, request[x].pc = "save" PROVE FALSE
    <3>1. token_lock = x /\ x \in Managers
      BY <1>1, <2>1, Stages DEF LockInv, RequestsInv, SoundSave
    <3>. QED
      BY <3>1, AccessAssumption DEF BeginMint
  <2>2. \A x \in Slots : request'[x].pc = "save" => x = s /\ request'[x] = after
    BY <1>1, <2>1 DEF RequestsInv
  <2>. QED
    BY <1>1, <1>3, <1>5, <1>6, <1>8, <2>2 DEF LockInv
<1>10. SpaceInv'
  BY <1>1 DEF SpaceInv
<1>. QED
  BY <1>1, <1>7, <1>8, <1>9, <1>10 DEF AccessInv

\* The row is saved, or not, and the lock let go.
LEMMA SaveTokenInv ==
  ASSUME AccessInv, NEW s \in Slots, NEW t \in roster.ids, NEW stored \in BOOLEAN,
         SaveToken(s, t, stored), UNCHANGED roster
  PROVE  AccessInv'
<1>. DEFINE r == request[s]
            w == r.row
<1>1. /\ RequestsInv /\ TokensInv /\ LockInv /\ SpaceInv /\ Sound(s, r)
      /\ r.pc = "save" /\ t \notin minted /\ t \in TokenIds /\ minted' = minted \cup {t}
      /\ tokens' = (IF stored THEN [tokens EXCEPT ![t] = w] ELSE tokens)
      /\ token_lock' = "free" /\ Leave(s)
      /\ UNCHANGED <<time, keys, space, uses>>
  BY AccessAssumption DEF AccessInv, RequestsInv, SaveToken
<1>2. /\ SoundSave(s, r) /\ r # Idle /\ IsToken(w) /\ w.usage = 0
      /\ w.labels # Everything => w.scope = "Read"
  BY <1>1, Stages DEF SoundSave, Idle
<1>3. /\ token_lock = s /\ Cardinality(live) < TokenCap /\ \A u \in live : tokens[u].name # w.name
  BY <1>1 DEF LockInv
<1>4. /\ request' = [request EXCEPT ![s] = Idle] /\ Sound(s, Idle) /\ PermitMoves(r, Idle)
  BY <1>1, <1>2, LeaveMoves
<1>5. RequestsInv'
  BY <1>1, <1>4, SlotMoves
<1>6. LockInv'
  <2>1. \A x \in Slots : request'[x].pc # "save"
    BY <1>1, <1>3, <1>4 DEF LockInv, RequestsInv, Idle
  <2>. QED
    BY <1>1, <2>1 DEF LockInv
<1>7. TokensInv'
  <2>1. live \subseteq minted /\ IsFiniteSet(live) /\ Cardinality(live) \in Nat /\ t \notin live
    BY <1>1, FS_Subset, FS_CardinalityType DEF TokensInv
  <2>2. CASE stored
    <3>. HIDE DEF w
    <3>1. tokens' = [x \in TokenIds |-> IF x = t THEN w ELSE tokens[x]]
      BY <1>1, <2>2 DEF TokensInv
    <3>2. w # NoToken
      BY <1>2 DEF NoToken, IsToken, Scopes
    <3>3. live' = live \cup {t}
      BY <1>1, <3>1, <3>2 DEF live
    <3>4. Cardinality(live') <= TokenCap
      <4>1. Cardinality(live') = Cardinality(live) + 1
        BY <2>1, <3>3, FS_AddElement
      <4>. QED
        BY <1>3, <2>1, <4>1, AccessAssumption
    <3>5. \A x \in live : tokens'[x] = tokens[x] /\ x # t
      BY <2>1, <3>1 DEF live
    <3>6. tokens'[t] = w
      BY <1>1, <3>1
    <3>7. TokensAreTellable'
      <4>1. ASSUME NEW x \in live', NEW u \in live', tokens'[x].name = tokens'[u].name PROVE x = u
        <5>1. CASE x = t \/ u = t
          BY <1>3, <3>3, <3>5, <3>6, <4>1, <5>1
        <5>2. CASE x # t /\ u # t
          BY <1>1, <3>3, <3>5, <4>1, <5>2 DEF TokensAreTellable, TokensInv
        <5>. QED
          BY <5>1, <5>2
      <4>2. ASSUME NEW x \in live' PROVE tokens'[x].labels # Everything => tokens'[x].scope = "Read"
        <5>1. CASE x = t
          BY <1>2, <3>6, <5>1
        <5>2. CASE x # t
          BY <1>1, <3>3, <3>5, <4>2, <5>2 DEF TokensAreTellable, TokensInv
        <5>. QED
          BY <5>1, <5>2
      <4>. QED
        BY <4>1, <4>2 DEF TokensAreTellable
    <3>8. UsageIsExact'
      BY <1>1, <1>2, <3>3, <3>5, <3>6 DEF UsageIsExact, TokensInv
    <3>9. \A x \in live' : IsToken(tokens'[x])
      BY <1>1, <1>2, <3>3, <3>5, <3>6 DEF TokensInv
    <3>10. /\ minted' \in SUBSET TokenIds /\ IsFiniteSet(minted') /\ live' \subseteq minted'
           /\ uses' \in [TokenIds -> Nat] /\ \A x \in TokenIds \ minted' : uses'[x] = 0
      BY <1>1, <2>1, <3>3, FS_AddElement DEF TokensInv
    <3>. QED
      BY <3>1, <3>4, <3>7, <3>8, <3>9, <3>10 DEF TokensInv, IsToken
  <2>3. CASE ~stored
    <3>1. tokens' = tokens /\ live' = live
      BY <1>1, <2>3 DEF live
    <3>2. /\ minted' \in SUBSET TokenIds /\ IsFiniteSet(minted') /\ live' \subseteq minted'
          /\ uses' \in [TokenIds -> Nat] /\ \A x \in TokenIds \ minted' : uses'[x] = 0
      BY <1>1, <2>1, <3>1, FS_AddElement DEF TokensInv
    <3>3. TokensAreTellable' /\ UsageIsExact' /\ Cardinality(live') <= TokenCap
      <4>1. TokensAreTellable /\ UsageIsExact /\ Cardinality(live) <= TokenCap
        BY <1>1 DEF TokensInv
      <4>2. TokensAreTellable'
        BY <3>1, <4>1 DEF TokensAreTellable
      <4>3. UsageIsExact'
        BY <1>1, <3>1, <4>1 DEF UsageIsExact
      <4>. QED
        BY <3>1, <4>1, <4>2, <4>3
    <3>4. tokens' = [x \in TokenIds |-> tokens'[x]] /\ \A x \in live' : IsToken(tokens'[x])
      BY <1>1, <3>1 DEF TokensInv
    <3>. QED
      BY <3>2, <3>3, <3>4 DEF TokensInv, IsToken
  <2>. QED
    BY <2>2, <2>3
<1>8. SpaceInv'
  BY <1>1 DEF SpaceInv
<1>. QED
  BY <1>1, <1>5, <1>6, <1>7, <1>8 DEF AccessInv

\* A token is taken away.
LEMMA RevokeInv ==
  ASSUME AccessInv, NEW s \in Slots, UNCHANGED roster,
         RemoveFound(s) \/ \E t \in roster.ids : RevokeByValue(s, t)
  PROVE  AccessInv'
<1>1. PICK t \in TokenIds : tokens' = Removed(t)
  <2>1. CASE RemoveFound(s)
    <3>1. request[s].id \in TokenIds
      BY <2>1, Stages DEF RemoveFound, AccessInv, RequestsInv, SoundRemove
    <3>. QED
      BY <2>1, <3>1 DEF RemoveFound
  <2>2. ASSUME NEW t \in roster.ids, RevokeByValue(s, t) PROVE \E u \in TokenIds : tokens' = Removed(u)
    BY <2>2, AccessAssumption DEF RevokeByValue, AccessInv
  <2>. QED
    BY <2>1, <2>2
<1>2. /\ RequestsInv /\ TokensInv /\ LockInv /\ SpaceInv /\ request[s] # Idle /\ Leave(s)
      /\ UNCHANGED <<time, keys, space, minted, token_lock, uses>>
  BY DEF AccessInv, RemoveFound, RevokeByValue, Idle
<1>3. /\ request' = [request EXCEPT ![s] = Idle] /\ Sound(s, Idle) /\ PermitMoves(request[s], Idle)
  BY <1>2, LeaveMoves
<1>4. RequestsInv'
  BY <1>2, <1>3, SlotMoves
<1>5. tokens' = [x \in TokenIds |-> IF x = t THEN NoToken ELSE tokens[x]]
  BY <1>1, <1>2 DEF TokensInv, Removed
<1>6. live' = live \ {t} /\ \A x \in live' : tokens'[x] = tokens[x]
  BY <1>5 DEF live
<1>7. IsFiniteSet(live) /\ Cardinality(live') <= Cardinality(live)
      /\ Cardinality(live) \in Nat /\ Cardinality(live') \in Nat
  <2>1. IsFiniteSet(live)
    BY <1>2, FS_Subset DEF TokensInv
  <2>. QED
    BY <1>6, <2>1, FS_Subset, FS_CardinalityType
<1>8. TokensInv'
  <2>1. TokensAreTellable' /\ UsageIsExact'
    BY <1>2, <1>6 DEF TokensInv, TokensAreTellable, UsageIsExact
  <2>2. Cardinality(live') <= TokenCap
    BY <1>2, <1>7, AccessAssumption DEF TokensInv
  <2>3. tokens' = [x \in TokenIds |-> tokens'[x]] /\ \A x \in live' : IsToken(tokens'[x])
    BY <1>2, <1>5, <1>6 DEF TokensInv
  <2>. QED
    BY <1>2, <1>6, <2>1, <2>2, <2>3 DEF TokensInv, IsToken
<1>9. LockInv'
  <2>1. ASSUME NEW x \in Slots, request'[x].pc = "save" PROVE request'[x] = request[x]
    BY <1>2, <1>3, <2>1 DEF RequestsInv, Idle
  <2>2. ASSUME NEW x \in Slots, request'[x].pc = "save"
        PROVE  /\ token_lock' = x /\ Cardinality(live') < TokenCap
               /\ \A u \in live' : tokens'[u].name # request'[x].row.name
    BY <1>2, <1>6, <1>7, <2>1, <2>2, AccessAssumption DEF LockInv
  <2>. QED
    BY <1>2, <2>2 DEF LockInv
<1>10. SpaceInv'
  BY <1>2 DEF SpaceInv
<1>. QED
  BY <1>2, <1>4, <1>8, <1>9, <1>10 DEF AccessInv

\* AccessSpec keeps AccessInv.
LEMMA AccessAlways == AccessSpec => []AccessInv
<1>1. AccessInit => AccessInv
  <2>. SUFFICES ASSUME AccessInit PROVE AccessInv
    OBVIOUS
  <2>1. live = {} /\ Holders = {} /\ \A s \in Slots : request[s] = Idle
    BY DEF AccessInit, live, Holders, Holds
  <2>2. RequestsInv
    BY <2>1, FS_EmptySet, AccessAssumption DEF AccessInit, RequestsInv, Sound
  <2>3. TokensInv
    BY <2>1, FS_EmptySet, AccessAssumption DEF AccessInit, TokensInv, TokensAreTellable, UsageIsExact
  <2>4. LockInv /\ SpaceInv
    BY <2>1 DEF AccessInit, LockInv, SpaceInv, Idle
  <2>. QED
    BY <2>2, <2>3, <2>4, AccessAssumption DEF AccessInit, AccessInv
<1>2. AccessInv /\ [AccessNext]_accessVars => AccessInv'
  <2>. SUFFICES ASSUME AccessInv, [AccessNext]_accessVars PROVE AccessInv'
    OBVIOUS
  <2>1. ASSUME UNCHANGED <<keys, space, tokens, minted, token_lock, permits, request, uses>>
        PROVE  RequestsInv' /\ TokensInv' /\ LockInv' /\ SpaceInv'
    <3>. USE <2>1
    <3>1. RequestsInv'
      BY DEF AccessInv, RequestsInv, Holders, Sound, SoundPending, SoundSave
    <3>2. TokensInv'
      BY DEF AccessInv, TokensInv, live, TokensAreTellable, UsageIsExact
    <3>3. LockInv' /\ SpaceInv'
      BY DEF AccessInv, LockInv, SpaceInv, live
    <3>. QED
      BY <3>1, <3>2, <3>3
  <2>2. CASE Tick /\ UNCHANGED roster
    BY <2>1, <2>2, AccessAssumption DEF Tick, AccessInv
  <2>3. CASE UNCHANGED accessVars
    BY <2>1, <2>3 DEF accessVars, AccessInv
  <2>4. ASSUME AccessNext, NEW s \in roster.slots,
               \/ \E channel \in {"http", "mcp", "stdio"} : Arrive(s, channel)
               \/ \E busy \in BOOLEAN : Admit(s, busy)
               \/ LoadFails(s) \/ Create(s) \/ CreateFails(s) \/ Serve(s)
               \/ \E w \in roster.rows : BeginMint(s, w)
               \/ MintRefused(s)
               \/ \E t \in roster.ids, stored \in BOOLEAN : SaveToken(s, t, stored)
               \/ \E t \in roster.ids : RevokeByValue(s, t)
               \/ \E w \in roster.rows : FindByName(s, w.name)
               \/ RemoveFound(s) \/ UpdatePublic(s)
        PROVE  AccessInv'
    <3>1. s \in Slots /\ UNCHANGED roster
      BY <2>4, AccessAssumption DEF AccessInv, Slots, AccessNext
    <3>2. CASE \E channel \in {"http", "mcp", "stdio"} : Arrive(s, channel)
      BY <3>1, <3>2, ArriveInv
    <3>3. CASE \E busy \in BOOLEAN : Admit(s, busy)
      BY <3>1, <3>3, AdmitInv
    <3>4. CASE \E w \in roster.rows : BeginMint(s, w)
      BY <3>1, <3>4, BeginMintInv
    <3>5. CASE \E t \in roster.ids, stored \in BOOLEAN : SaveToken(s, t, stored)
      BY <3>1, <3>5, SaveTokenInv
    <3>6. CASE RemoveFound(s) \/ \E t \in roster.ids : RevokeByValue(s, t)
      BY <3>1, <3>6, RevokeInv
    <3>7. CASE \/ LoadFails(s) \/ Create(s) \/ CreateFails(s) \/ Serve(s) \/ MintRefused(s)
               \/ UpdatePublic(s) \/ \E w \in roster.rows : FindByName(s, w.name)
      <4>1. \/ LoadFails(s) \/ Create(s) \/ CreateFails(s) \/ Serve(s) \/ MintRefused(s)
            \/ UpdatePublic(s) \/ \E name : FindByName(s, name)
        BY <3>7
      <4>. QED
        BY <3>1, <4>1, PlainSteps
    <3>. QED
      BY <2>4, <3>2, <3>3, <3>4, <3>5, <3>6, <3>7
  <2>. QED
    BY <2>2, <2>3, <2>4 DEF AccessNext, AccessStep
<1>. QED
  BY <1>1, <1>2, PTL DEF AccessSpec

\* Whatever requests race, tokens stay below their cap and can be told apart,
\* their counters count exactly the requests that were resolved to them, and
\* every permit that is missing is held by a request.
THEOREM ExactAccounts == RequestsSpec => []AccountsAddUp
<1>1. AccessInv => AccountsAddUp
  <2>. SUFFICES ASSUME AccessInv PROVE AccountsAddUp
    OBVIOUS
  <2>1. RequestsInv /\ TokensInv /\ LockInv /\ Cardinality(Holders) \in Nat
    BY FS_CardinalityType DEF AccessInv, RequestsInv
  <2>2. AccessTypeOK
    BY <2>1, AccessAssumption DEF AccessInv, AccessTypeOK, RequestsInv, TokensInv, LockInv
  <2>3. PermitsAreAccountedFor
    <3>1. {s \in Slots : request[s] # Idle /\ request[s].holds} = Holders
      BY DEF Holders, Holds
    <3>2. ASSUME NEW s \in Served, request[s].route.paid PROVE s \in Holders
      <4>1. s \in Slots /\ request[s].pc = "serve" /\ SoundPending(s, request[s])
        BY <2>1, Stages DEF Served, RequestsInv
      <4>. QED
        BY <3>2, <4>1 DEF Holders, Holds, SoundPending, Idle
    <3>. QED
      BY <2>1, <3>1, <3>2 DEF PermitsAreAccountedFor, RequestsInv
  <2>. QED
    BY <2>1, <2>2, <2>3 DEF AccountsAddUp, TokensInv
<1>. QED
  BY <1>1, PartsFollow, AccessAlways, PTL

\* No sequence of publishing, minting and creating gives a caller more than his
\* credential opens, whichever route and channel he asks.
THEOREM NoWiderAccess == RequestsSpec => []AccessIsNotWidened
<1>1. AccessInv => AccessIsNotWidened
  <2>. SUFFICES ASSUME AccessInv PROVE AccessIsNotWidened
    OBVIOUS
  <2>1. \A s \in Slots : Sound(s, request[s])
    BY DEF AccessInv, RequestsInv
  <2>2. RestrictedCallersOnlyView
    BY <2>1, Stages DEF RestrictedCallersOnlyView, Served, SoundPending, Admitted, Shown
  <2>3. MintingDoesNotEscalate
    BY <2>1, Stages DEF MintingDoesNotEscalate, SoundSave, Slots
  <2>4. SpacesHaveTheirMaker
    BY <2>1, Stages DEF SpacesHaveTheirMaker, AccessInv, SpaceInv, SoundPending
  <2>. QED
    BY <2>2, <2>3, <2>4 DEF AccessIsNotWidened
<1>. QED
  BY <1>1, PartsFollow, AccessAlways, PTL

\* The tools and the handlers of one operation make the same demands.
LEMMA SameDemands ==
  \A pair \in SameOperation :
    pair[1].need = pair[2].need /\ pair[1].mode = pair[2].mode /\ pair[1].guard = pair[2].guard
BY DEF SameOperation, Route, Looks, Reads, Writes, Showing, Guarded, Paid,
       load_authorized_space_with_token, load_lenient_space,
       get_info, get_formation_status, post_formation, post_recall, post_maintenance,
       execute_kip_readonly, get_or_init_user, list_conversations, get_conversation,
       get_conversation_delta, post_wiki_commit, post_wiki_search, get_wiki_content, get_wiki_doc,
       post_wiki_verify,
       get_space_info_for, get_formation_status_for, remember_conversation_for,
       recall_memory_for, run_maintenance_for, execute_kip_readonly_for,
       get_or_init_user_for, list_conversations_for, get_conversation_for,
       wiki_commit_for, wiki_search_for, wiki_read_for, wiki_verify_for

\* In whatever state the space is, and for every credential and clock, an
\* operation admits the same caller over HTTP and over MCP and shows him the same.
THEOREM AlikeChannels == RequestsSpec => []ChannelsAdmitAlike
<1>. DEFINE Seen(route, c, recalled) ==
              IF ~PassesFirst(route, c, time) THEN Refused
              ELSE LET who == Caller(route, HoldsCwt(route, c, time), IdOf(c), time)
                   IN  IF who = Refused \/ Forbidden(route, who, recalled, FALSE) THEN Refused ELSE who
<1>1. ASSUME NEW a, NEW b, a.need = b.need, a.mode = b.mode, a.guard = b.guard,
             NEW c, NEW recalled
      PROVE  Seen(a, c, recalled) = Seen(b, c, recalled)
  <2>1. /\ PassesFirst(a, c, time) = PassesFirst(b, c, time)
        /\ HoldsCwt(a, c, time) = HoldsCwt(b, c, time)
    BY <1>1 DEF PassesFirst, HoldsCwt
  <2>2. \A cwt, t : Caller(a, cwt, t, time) = Caller(b, cwt, t, time)
    BY <1>1 DEF Caller
  <2>3. \A who : Forbidden(a, who, recalled, FALSE) = Forbidden(b, who, recalled, FALSE)
    BY <1>1 DEF Forbidden
  <2>. QED
    BY <2>1, <2>2, <2>3
<1>2. ChannelsAdmitAlike
  BY <1>1, SameDemands DEF ChannelsAdmitAlike, ChannelsAgree
<1>. QED
  BY <1>2, PTL

-----------------------------------------------------------------------------
(* Citations                                                               *)

ChunkRows == [doc : Documents, version : Nat, part : Parts]

\* The rows of a version that is being dropped go from the first on.
SuffixesStay ==
  \A r \in rows, q \in Parts :
    r.part <= q => [doc |-> r.doc, version |-> r.version, part |-> q] \in rows

\* The current version has all its rows, and so has the one about to flip.
CurrentHasRows ==
  /\ \A d \in Documents : AllRows(d, current[d]) \subseteq rows
  /\ commit.step = "flip" => AllRows(commit.doc, current[commit.doc] + 1) \subseteq rows

\* A search knows why it found a row; a read knows whether its version is over.
ReaderOK ==
  /\ reader.at = "expand" =>
       /\ reader.row \in ChunkRows /\ reader.expand \in 0..MaxExpand
       /\ reader.docs # {} => reader.row.doc \in reader.docs
       /\ reader.tags # {} => DocTags[reader.row.doc] \cap reader.tags # {}
  /\ reader.at = "layout" =>
       /\ reader \in [at : {"layout"}, doc : Documents, version : 1..MaxVersion,
                      section : {SectionOf[p] : p \in Parts}, is_current : BOOLEAN, overtaken : BOOLEAN]
       /\ reader.is_current /\ ~reader.overtaken => reader.version = current[reader.doc]

CiteInv ==
  /\ current \in [Documents -> Nat] /\ rows \subseteq ChunkRows /\ shown \subseteq rows
  /\ commit \in {NoCommit} \cup [doc : Documents, step : {"flip", "show", "drop"}]
  /\ SuffixesStay /\ CurrentHasRows /\ ReaderOK
  /\ CitationsAreSound

\* A hit that is widened over rows without a gap is a range without one.
LEMMA WidenedIsWhole ==
  ASSUME NEW d \in Documents, NEW v \in Nat, CiteInv,
         NEW mid \in ChunkRows, mid.doc = d, mid.version = v, NEW e \in 0..MaxExpand
  PROVE  Widened(mid, RowsOf(d, v), e)
           = Min(Widened(mid, RowsOf(d, v), e))..Max(Widened(mid, RowsOf(d, v), e))
<1>. DEFINE layout == RowsOf(d, v)
            text == Widened(mid, layout, e)
            pos(r) == Position(r, layout)
<1>1. PICK n \in Nat : Parts = 1..n
  BY CitationsAssumption, FS_CardinalityType
<1>2. ASSUME NEW a \in layout, NEW p \in Parts, a.part <= p
      PROVE  \E r \in layout : r.part = p
  <2>1. a \in rows /\ a.doc = d /\ a.version = v
    BY DEF RowsOf
  <2>2. [doc |-> d, version |-> v, part |-> p] \in rows
    BY <1>2, <2>1 DEF CiteInv, SuffixesStay
  <2>. QED
    BY <2>2 DEF RowsOf
<1>3. CASE mid \notin layout
  <2>1. text = {mid.part} /\ mid.part \in Nat
    BY <1>1, <1>3 DEF Widened, ChunkRows
  <2>2. Min(text) = mid.part /\ Max(text) = mid.part
    BY <2>1 DEF Min, Max
  <2>. QED
    BY <2>1, <2>2
<1>4. CASE mid \in layout
  <2>1. layout \subseteq ChunkRows /\ \A r \in layout : r.part \in 1..n
    BY <1>1 DEF RowsOf, CiteInv, ChunkRows
  <2>2. ASSUME NEW a \in layout, NEW b \in layout, a.part <= b.part
        PROVE  pos(a) \in Nat /\ pos(b) \in Nat /\ pos(a) <= pos(b)
    <3>. DEFINE Below(r) == {x \in layout : x.part < r.part}
    <3>1. \A x, y \in layout : x.part = y.part => x = y
      BY DEF RowsOf, CiteInv, ChunkRows
    <3>2. IsFiniteSet(layout)
      <4>1. [r \in layout |-> r.part] \in Injection(layout, 1..n)
        BY <2>1, <3>1 DEF Injection, IsInjective
      <4>. QED
        BY <4>1, FS_Injection, FS_Interval
    <3>3. Below(a) \subseteq Below(b) /\ Below(b) \subseteq layout
      BY <2>1, <2>2
    <3>4. IsFiniteSet(Below(b)) /\ IsFiniteSet(Below(a)) /\ Cardinality(Below(a)) <= Cardinality(Below(b))
      BY <3>2, <3>3, FS_Subset
    <3>. QED
      BY <3>4, FS_CardinalityType DEF Position
  <2>3. text = {r.part : r \in {x \in layout : pos(x) <= pos(mid) + e /\ pos(mid) <= pos(x) + e}}
    BY <1>4 DEF Widened
  <2>. HIDE DEF text, pos, layout
  <2>4. mid.part \in text /\ text \subseteq 1..n
    BY <1>4, <2>1, <2>2, <2>3
  <2>5. ASSUME NEW a \in text, NEW b \in text, NEW p \in a..b PROVE p \in text
    <3>1. PICK ra \in layout : ra.part = a /\ pos(mid) <= pos(ra) + e
      BY <2>3
    <3>2. PICK rb \in layout : rb.part = b /\ pos(rb) <= pos(mid) + e
      BY <2>3
    <3>3. p \in Parts /\ a <= p /\ p <= b
      BY <1>1, <2>4, <2>5
    <3>4. PICK r \in layout : r.part = p
      BY <1>2, <3>1, <3>3
    <3>5. pos(ra) <= pos(r) /\ pos(r) <= pos(rb)
      BY <2>2, <3>1, <3>2, <3>3, <3>4
    <3>6. /\ pos(ra) \in Nat /\ pos(r) \in Nat /\ pos(rb) \in Nat /\ pos(mid) \in Nat
      BY <1>4, <2>1, <2>2, <3>1, <3>2, <3>4
    <3>7. pos(r) <= pos(mid) + e /\ pos(mid) <= pos(r) + e
      BY <3>1, <3>2, <3>5, <3>6, CitationsAssumption
    <3>. QED
      BY <2>3, <3>4, <3>7
  <2>6. Min(text) \in text /\ Max(text) \in text /\ \A x \in text : Min(text) <= x /\ x <= Max(text)
    <3>1. text \in SUBSET Nat /\ text # {} /\ \A x \in text : x <= n
      BY <1>1, <2>4
    <3>2. Min(text) \in text /\ \A x \in text : Min(text) <= x
      BY <3>1, Least
    <3>3. Max(text) \in text /\ \A x \in text : x <= Max(text)
      BY <1>1, <3>1, Greatest
    <3>. QED
      BY <3>2, <3>3
  <2>7. text \subseteq Nat
    BY <2>4
  <2>8. text = Min(text)..Max(text)
    <3>. DEFINE lo == Min(text)
                hi == Max(text)
    <3>. HIDE DEF lo, hi
    <3>1. lo \in text /\ hi \in text /\ \A x \in text : lo <= x /\ x <= hi
      BY <2>6 DEF lo, hi
    <3>2. lo..hi \subseteq text
      BY <2>5, <3>1
    <3>3. text \subseteq lo..hi
      BY <2>7, <3>1
    <3>. QED
      BY <3>2, <3>3 DEF lo, hi
  <2>. QED
    BY <2>8 DEF text, layout
<1>. QED
  BY <1>3, <1>4

\* The hit in hand is widened over rows without a gap: it verifies.
LEMMA ExpandHitInv == CiteInv /\ ExpandHit => CiteInv'
<1>. SUFFICES ASSUME CiteInv, ExpandHit PROVE CiteInv'
  OBVIOUS
<1>. DEFINE mid == reader.row
            text == Widened(mid, RowsOf(mid.doc, mid.version), reader.expand)
            hit == [doc |-> mid.doc, version |-> mid.version, first |-> Min(text),
                    last |-> Max(text), text |-> text, docs |-> reader.docs, tags |-> reader.tags]
<1>1. /\ mid \in ChunkRows /\ mid.doc \in Documents /\ mid.version \in Nat
      /\ reader.expand \in 0..MaxExpand
      /\ reader.docs # {} => mid.doc \in reader.docs
      /\ reader.tags # {} => DocTags[mid.doc] \cap reader.tags # {}
  BY DEF ExpandHit, CiteInv, ReaderOK, ChunkRows
<1>2. text = Min(text)..Max(text)
  BY <1>1, WidenedIsWhole
<1>3. hits' = {hit} /\ reader' = NoReader /\ UNCHANGED <<current, rows, shown, commit, sections>>
  BY DEF ExpandHit
<1>. HIDE DEF text, mid
<1>4. ASSUME NEW c \in hits'
      PROVE  /\ c.text = c.first..c.last
             /\ c.docs # {} => c.doc \in c.docs
             /\ c.tags # {} => DocTags[c.doc] \cap c.tags # {}
  BY <1>1, <1>2, <1>3
<1>5. CitationsAreSound'
  <2>1. CitationsVerify'
    BY <1>4 DEF CitationsVerify, Verify
  <2>2. FiltersOnlyNarrow'
    BY <1>4 DEF FiltersOnlyNarrow
  <2>3. SectionsAreWhole'
    BY <1>3 DEF CiteInv, CitationsAreSound, SectionsAreWhole
  <2>. QED
    BY <2>1, <2>2, <2>3 DEF CitationsAreSound
<1>. QED
  BY <1>3, <1>5 DEF CiteInv, SuffixesStay, CurrentHasRows, ReaderOK, NoReader, AllRows

\* A section is taken from all rows of its version, or from the chunker.
LEMMA ReadSectionInv == CiteInv /\ ReadSection => CiteInv'
<1>. SUFFICES ASSUME CiteInv, ReadSection PROVE CiteInv'
  OBVIOUS
<1>. DEFINE d == reader.doc
            stored == RowsOf(d, reader.version)
            layout == IF FromRows(reader.is_current, stored) THEN {r.part : r \in stored} ELSE Parts
            found == {p \in layout : SectionOf[p] = reader.section}
<1>1. ~reader.overtaken => layout = Parts
  <2>. SUFFICES ASSUME ~reader.overtaken, reader.is_current PROVE {r.part : r \in stored} = Parts
    BY DEF FromRows
  <2>1. reader.version = current[d] /\ d \in Documents
    BY DEF ReadSection, CiteInv, ReaderOK
  <2>2. \A p \in Parts : [doc |-> d, version |-> reader.version, part |-> p] \in stored
    BY <2>1 DEF CiteInv, CurrentHasRows, AllRows, RowsOf
  <2>3. \A r \in stored : r.part \in Parts
    BY DEF RowsOf, CiteInv, ChunkRows
  <2>4. \A p \in Parts : \E r \in stored : r.part = p
    BY <2>2
  <2>. HIDE DEF stored
  <2>. QED
    BY <2>3, <2>4
<1>2. /\ sections' = IF found = {} THEN sections
                     ELSE {[section |-> reader.section, overtaken |-> reader.overtaken,
                            first |-> Min(found), last |-> Max(found)]}
      /\ reader' = NoReader /\ UNCHANGED <<current, rows, shown, commit, hits>>
  BY DEF ReadSection
<1>3. ~reader.overtaken => found = {p \in Parts : SectionOf[p] = reader.section}
  BY <1>1
<1>. HIDE DEF found
<1>4. SectionsAreWhole'
  <2>1. SectionsAreWhole
    BY DEF CiteInv, CitationsAreSound
  <2>. DEFINE new == [section |-> reader.section, overtaken |-> reader.overtaken,
                      first |-> Min(found), last |-> Max(found)]
              whole == {p \in Parts : SectionOf[p] = new.section}
  <2>2. \A c \in sections' : c \in sections \/ c = new
    BY <1>2
  <2>3. ~new.overtaken => new.first = Min(whole) /\ new.last = Max(whole)
    BY <1>3
  <2>. HIDE DEF new
  <2>. QED
    BY <2>1, <2>2, <2>3 DEF SectionsAreWhole
<1>. QED
  BY <1>2, <1>4 DEF CiteInv, CitationsAreSound, CitationsVerify, Verify, FiltersOnlyNarrow, SuffixesStay,
     CurrentHasRows, ReaderOK, NoReader, AllRows

\* Among rows there is one with the least ordinal.
LEMMA LowestRow ==
  ASSUME NEW S \in SUBSET ChunkRows, S # {}
  PROVE  Lowest(S) \in S /\ \A x \in S : Lowest(S).part <= x.part
<1>. DEFINE ords == {x.part : x \in S}
<1>1. Parts \subseteq Nat
  BY CitationsAssumption, FS_CardinalityType
<1>2. ords \subseteq Nat
  BY <1>1 DEF ChunkRows
<1>3. PICK x \in S : TRUE
  OBVIOUS
<1>4. x.part \in ords
  BY <1>3
<1>5. Min(ords) \in ords /\ \A o \in ords : Min(ords) <= o
  <2>. HIDE DEF ords
  <2>. QED
    BY <1>2, <1>4, Least
<1>6. PICK y \in S : y.part = Min(ords)
  BY <1>5
<1>7. \A z \in S : y.part <= z.part
  BY <1>5, <1>6
<1>. QED
  BY <1>7 DEF Lowest

\* The first of the old rows goes.
LEMMA DropRowInv == CiteInv /\ DropRow => CiteInv'
<1>. SUFFICES ASSUME CiteInv, DropRow PROVE CiteInv'
  OBVIOUS
<1>. DEFINE old == RowsOf(commit.doc, current[commit.doc] - 1)
<1>1. /\ commit.step = "drop" /\ commit.doc \in Documents
      /\ current[commit.doc] \in Nat
      /\ UNCHANGED <<current, reader, hits, sections>>
  BY DEF DropRow, CiteInv, NoCommit
<1>2. CASE old = {}
  <2>1. commit' = NoCommit /\ UNCHANGED <<rows, shown>>
    BY <1>2 DEF DropRow
  <2>. QED
    BY <1>1, <2>1 DEF CiteInv, CitationsAreSound, CitationsVerify, Verify, FiltersOnlyNarrow,
       SectionsAreWhole, SuffixesStay, CurrentHasRows, ReaderOK, NoCommit, AllRows
<1>3. CASE old # {}
  <2>1. Parts \subseteq Nat
    BY CitationsAssumption, FS_CardinalityType
  <2>2. PICK r : r = Lowest(old) /\ rows' = rows \ {r} /\ shown' = shown \ {r} /\ commit' = commit
    BY <1>3 DEF DropRow, Droppable
  <2>3. r \in old /\ \A x \in old : r.part <= x.part
    BY <1>3, <2>2, LowestRow DEF RowsOf, CiteInv
  <2>4. r \in rows /\ r.doc = commit.doc /\ r.version = current[commit.doc] - 1 /\ r.part \in Nat
    BY <2>1, <2>3 DEF RowsOf, CiteInv, ChunkRows
  <2>5. SuffixesStay'
    <3>. SUFFICES ASSUME NEW x \in rows, x # r, NEW q \in Parts, x.part <= q,
                         [doc |-> x.doc, version |-> x.version, part |-> q] = r
                  PROVE  FALSE
      BY <2>2 DEF CiteInv, SuffixesStay
    <3>1. x.doc = r.doc /\ x.version = r.version /\ q = r.part
      OBVIOUS
    <3>2. x \in old
      BY <2>4, <3>1 DEF RowsOf
    <3>3. x.part = r.part
      <4>1. x.part \in Nat /\ r.part <= x.part /\ x.part <= r.part
        BY <2>1, <2>3, <3>1, <3>2 DEF CiteInv, ChunkRows
      <4>. QED
        BY <2>4, <4>1
    <3>. QED
      BY <2>4, <3>1, <3>3 DEF CiteInv, ChunkRows
  <2>6. CurrentHasRows'
    <3>1. \A e \in Documents : r \notin AllRows(e, current[e])
      BY <1>1, <2>4 DEF AllRows
    <3>. QED
      BY <1>1, <2>2, <3>1 DEF CiteInv, CurrentHasRows, AllRows
  <2>. QED
    BY <1>1, <2>2, <2>5, <2>6 DEF CiteInv, CitationsAreSound, CitationsVerify, Verify,
       FiltersOnlyNarrow, SectionsAreWhole, ReaderOK
<1>. QED
  BY <1>2, <1>3

LEMMA CiteInductive == CiteInv /\ [CiteNext]_citeVars => CiteInv'
<1>. SUFFICES ASSUME CiteInv, [CiteNext]_citeVars PROVE CiteInv'
  OBVIOUS
<1>. DEFINE Handed == \/ UNCHANGED <<hits, sections>>
                      \/ hits' = {} /\ sections' = {}
<1>1. Parts \subseteq Nat
  BY CitationsAssumption, FS_CardinalityType
<1>2. ASSUME Handed PROVE CitationsAreSound'
  BY <1>2 DEF CiteInv, CitationsAreSound, CitationsVerify, Verify, FiltersOnlyNarrow, SectionsAreWhole
<1>3. ASSUME NEW d \in Documents, AddVersion(d) PROVE CiteInv'
  <2>1. /\ rows' = rows \cup AllRows(d, current[d] + 1) /\ commit' = [doc |-> d, step |-> "flip"]
        /\ UNCHANGED <<current, shown, reader, hits, sections>>
    BY <1>3 DEF AddVersion
  <2>2. AllRows(d, current[d] + 1) \subseteq ChunkRows
    BY DEF CiteInv, AllRows, ChunkRows
  <2>3. SuffixesStay'
    <3>1. ASSUME NEW x \in AllRows(d, current[d] + 1), NEW q \in Parts
          PROVE  [doc |-> x.doc, version |-> x.version, part |-> q] \in AllRows(d, current[d] + 1)
      BY DEF AllRows
    <3>. QED
      BY <2>1, <3>1 DEF CiteInv, SuffixesStay
  <2>4. CurrentHasRows'
    BY <2>1 DEF CiteInv, CurrentHasRows, AllRows
  <2>. QED
    <3>1. Handed /\ commit' \in [doc : Documents, step : {"flip"}]
      BY <2>1
    <3>2. CitationsAreSound' /\ ReaderOK'
      BY <1>2, <2>1, <3>1 DEF CiteInv, ReaderOK
    <3>. QED
      BY <2>1, <2>2, <2>3, <2>4, <3>1, <3>2 DEF CiteInv
<1>4. CASE FlipVersion
  <2>1. /\ commit \in [doc : Documents, step : {"flip"}]
        /\ current' = [current EXCEPT ![commit.doc] = @ + 1]
        /\ commit' \in [doc : Documents, step : {"show"}]
        /\ UNCHANGED <<rows, shown, hits, sections>>
    BY <1>4 DEF FlipVersion, CiteInv, NoCommit
  <2>2. ReaderOK'
    <3>1. CASE reader.at = "layout" /\ reader.doc = commit.doc
      BY <1>4, <3>1 DEF FlipVersion, CiteInv, ReaderOK
    <3>2. CASE ~(reader.at = "layout" /\ reader.doc = commit.doc)
      BY <1>4, <2>1, <3>2 DEF FlipVersion, CiteInv, ReaderOK
    <3>. QED
      BY <3>1, <3>2
  <2>3. CurrentHasRows'
    BY <2>1 DEF CiteInv, CurrentHasRows, AllRows
  <2>. QED
    <3>1. CitationsAreSound' /\ SuffixesStay'
      BY <1>2, <2>1 DEF CiteInv, SuffixesStay
    <3>2. current' \in [Documents -> Nat]
      BY <2>1 DEF CiteInv
    <3>. QED
      BY <2>1, <2>2, <2>3, <3>1, <3>2 DEF CiteInv
<1>5. CASE ShowRow
  <2>1. UNCHANGED <<current, rows, reader, hits, sections>> /\ commit \in [doc : Documents, step : {"show"}]
    BY <1>5 DEF ShowRow, CiteInv, NoCommit
  <2>2. shown' \subseteq rows /\ commit' \in [doc : Documents, step : {"show", "drop"}]
    <3>. DEFINE hidden == RowsOf(commit.doc, current[commit.doc]) \ shown
    <3>1. CASE hidden = {}
      BY <1>5, <2>1, <3>1 DEF ShowRow, CiteInv
    <3>2. CASE hidden # {}
      <4>1. hidden \subseteq ChunkRows /\ hidden \subseteq rows
        BY DEF RowsOf, CiteInv
      <4>3. Lowest(hidden) \in rows
        BY <3>2, <4>1, LowestRow
      <4>. QED
        BY <1>5, <2>1, <3>2, <4>3 DEF ShowRow, CiteInv
    <3>. QED
      BY <3>1, <3>2
  <2>. QED
    <3>1. CitationsAreSound' /\ SuffixesStay' /\ ReaderOK'
      BY <1>2, <2>1 DEF CiteInv, SuffixesStay, ReaderOK
    <3>2. CurrentHasRows'
      BY <2>1, <2>2 DEF CiteInv, CurrentHasRows, AllRows
    <3>. QED
      BY <2>1, <2>2, <3>1, <3>2 DEF CiteInv
<1>6. ASSUME NEW query \in Requests, NEW e \in 0..MaxExpand,
             StartSearch(query.docs, query.tags, e)
      PROVE  CiteInv'
  <2>1. PICK r \in shown :
          /\ r.doc \in Searched(Narrowed(query.docs, query.tags))
          /\ reader' = [at |-> "expand", row |-> r, expand |-> e,
                        docs |-> query.docs, tags |-> query.tags]
    BY <1>6 DEF StartSearch
  <2>2. ~Hopeless(query.docs, query.tags) /\ hits' = {} /\ sections' = {}
        /\ UNCHANGED <<current, rows, shown, commit>>
    BY <1>6 DEF StartSearch
  <2>3. r \in ChunkRows
    BY DEF CiteInv
  <2>4. /\ query.docs # {} => r.doc \in query.docs
        /\ query.tags # {} => DocTags[r.doc] \cap query.tags # {}
    BY <2>1, <2>2 DEF Searched, Narrowed, Hopeless, Tagged
  <2>5. ReaderOK'
    BY <2>1, <2>3, <2>4 DEF ReaderOK
  <2>. QED
    BY <1>2, <2>2, <2>5 DEF CiteInv, SuffixesStay, CurrentHasRows, AllRows
<1>7. ASSUME NEW d \in Documents, NEW v \in 1..MaxVersion, NEW p \in Parts,
             StartRead(d, v, SectionOf[p])
      PROVE  CiteInv'
  <2>1. /\ reader' = [at |-> "layout", doc |-> d, version |-> v, section |-> SectionOf[p],
                      is_current |-> v = current[d], overtaken |-> FALSE]
        /\ hits' = {} /\ sections' = {} /\ UNCHANGED <<current, rows, shown, commit>>
    BY <1>7 DEF StartRead
  <2>2. ReaderOK'
    BY <2>1 DEF ReaderOK
  <2>. QED
    BY <1>2, <2>1, <2>2 DEF CiteInv, SuffixesStay, CurrentHasRows, AllRows
<1>8. CASE UNCHANGED citeVars
  BY <1>8 DEF citeVars, CiteInv, CitationsAreSound, CitationsVerify, Verify, FiltersOnlyNarrow,
     SectionsAreWhole, SuffixesStay, CurrentHasRows, AllRows, ReaderOK
<1>. QED
  BY <1>3, <1>4, <1>5, <1>6, <1>7, <1>8, DropRowInv, ExpandHitInv, ReadSectionInv DEF CiteNext

LEMMA CiteAlways == CiteSpec => []CiteInv
<1>1. CiteInit => CiteInv
  <2>. SUFFICES ASSUME CiteInit PROVE CiteInv
    OBVIOUS
  <2>1. \A x \in rows, q \in Parts : [doc |-> x.doc, version |-> x.version, part |-> q] \in rows
    BY DEF CiteInit, AllRows
  <2>2. rows \subseteq ChunkRows /\ \A d \in Documents : AllRows(d, current[d]) \subseteq rows
    BY DEF CiteInit, AllRows, ChunkRows
  <2>. QED
    BY <2>1, <2>2 DEF CiteInit, CiteInv, SuffixesStay, CurrentHasRows, ReaderOK, NoCommit, NoReader,
       CitationsAreSound, CitationsVerify, FiltersOnlyNarrow, SectionsAreWhole
<1>. QED
  BY <1>1, CiteInductive, PTL DEF CiteSpec

\* However commits replace the rows that a search or a read looks at: what is
\* cited verifies for ever, filters only narrow, and a section is whole unless
\* its version was replaced while it was read.
THEOREM SoundCitations == RequestsSpec => []CitationsAreSound
<1>1. CiteInv => CitationsAreSound
  BY DEF CiteInv
<1>. QED
  BY <1>1, CiteAlways, PartsFollow, PTL

-----------------------------------------------------------------------------
(* Listings                                                                *)

\* The newest rows of a set: all of it, or a full page of the greatest.
LEMMA NewestFirst ==
  ASSUME NEW n \in Nat, NEW S \in SUBSET (1..n), NEW k \in Nat,
         NEW top, top = {r \in S : Cardinality({x \in S : x > r}) < k},
         NEW r \in S \ top
  PROVE  Cardinality(top) >= k /\ \A x \in top : r < x
<1>. DEFINE Over(x) == {y \in S : y > x}
<1>1. IsFiniteSet(S)
  <2>1. IsFiniteSet(1..n)
    BY FS_Interval
  <2>. QED
    BY <2>1, FS_Subset
<1>2. ASSUME NEW x \in S
      PROVE  /\ Over(x) \subseteq S /\ IsFiniteSet(Over(x)) /\ Cardinality(Over(x)) \in Nat
  BY <1>1, FS_Subset, FS_CardinalityType
<1>3. top \subseteq S /\ \A x \in S : x \in top <=> Cardinality(Over(x)) < k
  OBVIOUS
<1>4. S \subseteq Nat
  OBVIOUS
<1>5. ASSUME NEW x \in top PROVE r < x
  <2>. SUFFICES ASSUME x <= r PROVE FALSE
    BY <1>3, <1>4
  <2>0. x \in Nat /\ r \in Nat /\ \A y \in S : y \in Nat
    BY <1>3, <1>4
  <2>1. x \in S /\ Over(r) \subseteq Over(x)
    <3>1. \A y \in S : y > r => y > x
      BY <2>0
    <3>2. x \in S
      BY <1>3
    <3>. QED
      BY <3>1, <3>2
  <2>2. Cardinality(Over(r)) <= Cardinality(Over(x))
    BY <1>2, <2>1, FS_Subset
  <2>. HIDE DEF Over
  <2>. QED
    BY <1>2, <1>3, <2>1, <2>2
<1>6. PICK m \in S \ top : \A x \in S \ top : x <= m
  <2>. DEFINE rest == S \ top
  <2>1. rest \in SUBSET Nat /\ rest # {}
    BY <1>4
  <2>2. \A x \in rest : x <= n
    OBVIOUS
  <2>3. Max(rest) \in rest /\ \A x \in rest : x <= Max(rest)
    <3>. HIDE DEF rest
    <3>. QED
      BY <2>1, <2>2, Greatest
  <2>. QED
    BY <2>3
<1>7. Over(m) \subseteq top
  <2>. SUFFICES ASSUME NEW y \in S, y > m, y \notin top PROVE FALSE
    OBVIOUS
  <2>1. y <= m /\ y \in Nat /\ m \in Nat
    BY <1>4, <1>6
  <2>. QED
    BY <2>1
<1>8. IsFiniteSet(top) /\ Cardinality(top) \in Nat
  BY <1>1, <1>3, FS_Subset, FS_CardinalityType
<1>9. Cardinality(Over(m)) >= k /\ Cardinality(Over(m)) \in Nat
  <2>. HIDE DEF Over
  <2>. QED
    BY <1>2, <1>3, <1>6
<1>10. Cardinality(top) >= k
  <2>1. Cardinality(Over(m)) <= Cardinality(top)
    BY <1>7, <1>8, FS_Subset
  <2>. HIDE DEF Over
  <2>. QED
    BY <1>8, <1>9, <2>1
<1>. QED
  BY <1>5, <1>10

RowStates == {"absent", "open", "closed", "removed"}
Walks == [at : {"idle", "ids", "rows", "done", "failed"}, below : Nat, ids : SUBSET RowIds,
          shown : [RowIds -> Nat]]

\* Ids are given in order.
OldestFirst == \E n \in 0..MaxRows : \A r \in RowIds : row[r] # "absent" <=> r <= n

\* Nothing below the cursor has been shown, and all that is steady above it has.
WalkOK ==
  walk.at \in {"ids", "rows"} =>
    \A r \in RowIds : /\ walk.shown[r] # 0 => r >= walk.below
                      /\ r \in steady /\ r >= walk.below => walk.shown[r] # 0

\* A page has what is steady below the cursor, or is full and has it below it.
PageOK ==
  walk.at = "rows" =>
    /\ \A x \in walk.ids : x < walk.below
    /\ \A r \in steady : r < walk.below =>
         \/ r \in walk.ids
         \/ Cardinality(walk.ids) >= PageLimit /\ \A x \in walk.ids : r < x

ListInv ==
  /\ row \in [RowIds -> RowStates] /\ walk \in Walks /\ steady \subseteq Matching
  /\ OldestFirst /\ WalkOK /\ PageOK /\ ListingsAreComplete

LEMMA RowSets ==
  \A S \in SUBSET RowIds : S \in SUBSET Nat /\ IsFiniteSet(S) /\ Cardinality(S) \in Nat
<1>1. IsFiniteSet(RowIds) /\ RowIds \subseteq Nat
  BY FS_Interval, ListingAssumption DEF RowIds
<1>. QED
  BY <1>1, FS_Subset, FS_CardinalityType

\* The page is shown; the cursor goes to its oldest row.
LEMMA TakeRowsInv == ListInv /\ TakeRows => ListInv'
<1>. SUFFICES ASSUME ListInv, TakeRows PROVE ListInv'
  OBVIOUS
<1>. DEFINE seen == [r \in RowIds |-> walk.shown[r] + (IF r \in walk.ids THEN 1 ELSE 0)]
<1>1. /\ walk.at = "rows" /\ walk \in Walks /\ steady \subseteq RowIds
      /\ UNCHANGED <<row, steady>>
  BY DEF TakeRows, ListInv, Matching
<1>2. steady' \subseteq Matching' /\ OldestFirst'
  BY <1>1 DEF ListInv, Matching, OldestFirst
<1>3. \A r \in RowIds : /\ seen[r] \in Nat /\ seen[r] <= 1
                        /\ seen[r] # 0 <=> walk.shown[r] # 0 \/ r \in walk.ids
  <2>. SUFFICES ASSUME NEW r \in RowIds
                PROVE  /\ seen[r] \in Nat /\ seen[r] <= 1
                       /\ seen[r] # 0 <=> walk.shown[r] # 0 \/ r \in walk.ids
    OBVIOUS
  <2>1. walk.shown[r] \in Nat /\ walk.shown[r] <= 1 /\ walk.below \in Nat /\ r \in Nat
    <3>1. walk.shown[r] <= 1
      BY DEF ListInv, ListingsAreComplete, ShownOnce
    <3>2. walk.shown \in [RowIds -> Nat] /\ walk.below \in Nat
      BY <1>1 DEF Walks
    <3>3. walk.shown[r] \in Nat
      BY <3>2
    <3>4. r \in Nat
      BY DEF RowIds
    <3>. QED
      BY <3>1, <3>2, <3>3, <3>4
  <2>2. r \in walk.ids => r < walk.below
    BY <1>1 DEF ListInv, PageOK
  <2>3. walk.shown[r] # 0 => r >= walk.below
    BY <1>1 DEF ListInv, WalkOK
  <2>4. seen[r] = walk.shown[r] + (IF r \in walk.ids THEN 1 ELSE 0)
    OBVIOUS
  <2>. QED
    BY <2>1, <2>2, <2>3, <2>4
<1>4. CASE walk' = [NoWalk EXCEPT !.at = "failed"]
  BY <1>1, <1>2, <1>4 DEF ListInv, NoWalk, Walks, WalkOK, PageOK, ListingsAreComplete, ShownOnce,
     SteadyRowsAreShown
<1>5. CASE LastPage(walk.ids) /\ walk' = [NoWalk EXCEPT !.at = "done", !.shown = seen]
  <2>. HIDE DEF seen
  <2>1. /\ walk' \in Walks /\ walk'.at = "done" /\ walk'.shown = seen
    <3>1. seen \in [RowIds -> Nat]
      BY <1>3 DEF seen
    <3>. QED
      BY <1>5, <3>1 DEF NoWalk, Walks
  <2>2. ASSUME NEW r \in steady PROVE seen[r] # 0
    <3>1. ~(Cardinality(walk.ids) >= PageLimit)
      <4>1. Cardinality(walk.ids) \in Nat
        BY <1>1, RowSets DEF Walks
      <4>. QED
        BY <1>5, <4>1, ListingAssumption DEF LastPage
    <3>2. r >= walk.below \/ r \in walk.ids
      BY <1>1, <3>1 DEF ListInv, PageOK, Walks, RowIds
    <3>. QED
      BY <1>1, <1>3, <3>2 DEF ListInv, WalkOK
  <2>. QED
    BY <1>1, <1>2, <1>3, <2>1, <2>2 DEF ListInv, WalkOK, PageOK, ListingsAreComplete, ShownOnce,
       SteadyRowsAreShown
<1>6. CASE /\ ~LastPage(walk.ids)
           /\ walk' = [at |-> "ids", below |-> NextBelow(walk.ids), ids |-> {}, shown |-> seen]
  <2>. DEFINE low == NextBelow(walk.ids)
  <2>1. low \in walk.ids /\ \A x \in walk.ids : low <= x
    <3>1. Cardinality(walk.ids) # 0
      BY <1>6, ListingAssumption DEF LastPage
    <3>2. walk.ids # {} /\ walk.ids \in SUBSET Nat
      BY <1>1, <3>1, FS_EmptySet, RowSets DEF Walks
    <3>. QED
      BY <3>2, Least DEF NextBelow
  <2>. HIDE DEF seen, low
  <2>2. walk' = [at |-> "ids", below |-> low, ids |-> {}, shown |-> seen]
    BY <1>6 DEF low
  <2>3. low \in Nat /\ low < walk.below
    BY <1>1, <2>1 DEF ListInv, PageOK, Walks, RowIds
  <2>4. walk' \in Walks
    <3>1. seen \in [RowIds -> Nat]
      BY <1>3 DEF seen
    <3>. QED
      BY <2>2, <2>3, <3>1 DEF Walks
  <2>5. ASSUME NEW r \in RowIds
        PROVE  /\ seen[r] # 0 => r >= low
               /\ r \in steady /\ r >= low => seen[r] # 0
    <3>1. r \in Nat /\ walk.below \in Nat
      BY <1>1 DEF RowIds, Walks
    <3>2. ASSUME seen[r] # 0 PROVE r >= low
      BY <1>1, <1>3, <2>1, <2>3, <3>1, <3>2 DEF ListInv, WalkOK
    <3>3. ASSUME r \in steady, r >= low PROVE seen[r] # 0
      <4>1. CASE r >= walk.below
        BY <1>1, <1>3, <3>3, <4>1 DEF ListInv, WalkOK
      <4>2. CASE r < walk.below
        BY <1>1, <1>3, <2>1, <2>3, <3>1, <3>3, <4>2 DEF ListInv, PageOK
      <4>. QED
        BY <3>1, <4>1, <4>2
    <3>. QED
      BY <3>2, <3>3
  <2>. QED
    BY <1>1, <1>2, <1>3, <2>2, <2>4, <2>5 DEF ListInv, WalkOK, PageOK, ListingsAreComplete, ShownOnce,
       SteadyRowsAreShown
<1>. QED
  BY <1>4, <1>5, <1>6 DEF TakeRows

LEMMA ListInductive == ListInv /\ [ListNext]_listVars => ListInv'
<1>. SUFFICES ASSUME ListInv, [ListNext]_listVars PROVE ListInv'
  OBVIOUS
<1>. USE DEF ListingsAreComplete, ShownOnce, SteadyRowsAreShown
<1>1. CASE AddRow
  <2>1. PICK r \in RowIds : /\ row[r] = "absent" /\ \A x \in 1..(r - 1) : row[x] # "absent"
                            /\ row' = [row EXCEPT ![r] = "open"]
    BY <1>1 DEF AddRow
  <2>2. UNCHANGED <<walk, steady>>
    BY <1>1 DEF AddRow
  <2>3. row' \in [RowIds -> RowStates] /\ steady \subseteq Matching'
    BY <2>1 DEF ListInv, Matching, RowStates
  <2>4. OldestFirst'
    <3>1. PICK n \in 0..MaxRows : \A x \in RowIds : row[x] # "absent" <=> x <= n
      BY DEF ListInv, OldestFirst
    <3>2. r \in 1..MaxRows /\ n < r
      BY <2>1, <3>1 DEF RowIds
    <3>3. r = n + 1
      <4>1. n + 1 < r => n + 1 \in 1..(r - 1) /\ n + 1 \in RowIds
        <5>1. n \in Nat /\ r \in Nat /\ MaxRows \in Nat /\ r <= MaxRows
          BY <3>2, ListingAssumption
        <5>. QED
          BY <5>1 DEF RowIds
      <4>2. ~(n + 1 <= n)
        OBVIOUS
      <4>. QED
        BY <2>1, <3>1, <3>2, <4>1, <4>2
    <3>4. \A x \in RowIds : row'[x] # "absent" <=> x <= r
      BY <2>1, <3>1, <3>2, <3>3 DEF ListInv, RowIds
    <3>. QED
      BY <3>2, <3>4 DEF OldestFirst
  <2>. QED
    BY <2>2, <2>3, <2>4 DEF ListInv, WalkOK, PageOK
<1>2. ASSUME NEW r \in RowIds, ChangeRow(r) PROVE ListInv'
  <2>1. PICK to \in {"open", "closed", "removed"} :
          row[r] # "absent" /\ row' = [row EXCEPT ![r] = to]
    BY <1>2 DEF ChangeRow
  <2>2. steady' = steady \ {r} /\ walk' = walk
    BY <1>2 DEF ChangeRow
  <2>3. row' \in [RowIds -> RowStates] /\ steady' \subseteq Matching'
    BY <2>1, <2>2 DEF ListInv, Matching, RowStates
  <2>4. OldestFirst'
    BY <2>1 DEF ListInv, OldestFirst
  <2>. QED
    BY <2>2, <2>3, <2>4 DEF ListInv, WalkOK, PageOK
<1>3. CASE StartWalk
  <2>1. PICK n \in 0..MaxRows : \A x \in RowIds : row[x] # "absent" <=> x <= n
    BY DEF ListInv, OldestFirst
  <2>2. {r \in RowIds : row[r] # "absent"} = 1..n
    BY <2>1, ListingAssumption DEF RowIds
  <2>3. 1 + Cardinality({r \in RowIds : row[r] # "absent"}) = n + 1
    <3>. DEFINE old == {r \in RowIds : row[r] # "absent"}
    <3>1. n \in Int /\ 1 \in Int /\ n >= 1 - 1
      BY ListingAssumption
    <3>2. Cardinality(1..n) = n - 1 + 1
      <4>1. Cardinality(1..n) = IF 1 > n THEN 0 ELSE n - 1 + 1
        BY <3>1, FS_Interval
      <4>. QED
        BY <3>1, <4>1
    <3>3. old = 1..n
      BY <2>2
    <3>. HIDE DEF old
    <3>4. 1 + Cardinality(old) = n + 1
      BY <3>1, <3>2, <3>3
    <3>. QED
      BY <3>4 DEF old
  <2>4. /\ walk' = [NoWalk EXCEPT !.at = "ids", !.below = n + 1]
        /\ steady' = Matching /\ row' = row
    BY <1>3, <2>3 DEF StartWalk
  <2>5. /\ walk' \in Walks /\ walk'.at = "ids" /\ walk'.below = n + 1
        /\ \A r \in RowIds : walk'.shown[r] = 0
    <3>. DEFINE blank == [r \in RowIds |-> 0]
    <3>1. blank \in [RowIds -> Nat] /\ \A r \in RowIds : blank[r] = 0
      OBVIOUS
    <3>2. NoWalk = [at |-> "idle", below |-> 0, ids |-> {}, shown |-> blank]
      BY DEF NoWalk
    <3>. HIDE DEF blank
    <3>3. walk' = [at |-> "ids", below |-> n + 1, ids |-> {}, shown |-> blank]
      BY <2>4, <3>2
    <3>. QED
      BY <3>1, <3>3 DEF Walks
  <2>6. \A r \in Matching : r <= n
    BY <2>1 DEF Matching
  <2>7. WalkOK'
    BY <2>4, <2>5, <2>6 DEF WalkOK, RowIds
  <2>. QED
    BY <2>4, <2>5, <2>7 DEF ListInv, OldestFirst, PageOK, Matching
<1>4. CASE TakeIds
  <2>. DEFINE open == {r \in Matching : r < walk.below}
              top == {r \in open : Cardinality({x \in open : x > r}) < PageLimit}
  <2>1. /\ walk.at = "ids" /\ walk' = [walk EXCEPT !.at = "rows", !.ids = top]
        /\ UNCHANGED <<row, steady>>
    BY <1>4 DEF TakeIds
  <2>2. open \in SUBSET (1..MaxRows) /\ MaxRows \in Nat /\ PageLimit \in Nat
    BY ListingAssumption DEF Matching, RowIds
  <2>3. top \subseteq open
    OBVIOUS
  <2>4. \A r \in open \ top : Cardinality(top) >= PageLimit /\ \A x \in top : r < x
    BY <2>2, NewestFirst
  <2>5. \A r \in steady : r < walk.below => r \in open
    BY DEF ListInv
  <2>6. \A x \in top : x < walk.below /\ x \in RowIds
    BY DEF Matching
  <2>. HIDE DEF open, top
  <2>7. /\ walk' \in Walks /\ walk'.at = "rows" /\ walk'.ids = top /\ walk'.below = walk.below
        /\ walk'.shown = walk.shown
    BY <2>1, <2>6 DEF ListInv, Walks
  <2>. QED
    BY <2>1, <2>4, <2>5, <2>6, <2>7 DEF ListInv, OldestFirst, WalkOK, PageOK, Matching
<1>5. CASE UNCHANGED listVars
  BY <1>5 DEF listVars, ListInv, OldestFirst, WalkOK, PageOK, Matching
<1>. QED
  BY <1>1, <1>2, <1>3, <1>4, <1>5, TakeRowsInv DEF ListNext

LEMMA ListAlways == ListSpec => []ListInv
<1>1. ListInit => ListInv
  <2>. SUFFICES ASSUME ListInit PROVE ListInv
    OBVIOUS
  <2>1. row \in [RowIds -> RowStates] /\ walk \in Walks /\ walk.at = "idle" /\ steady = {}
        /\ \A r \in RowIds : walk.shown[r] = 0
    BY DEF ListInit, NoWalk, Walks, RowStates
  <2>2. OldestFirst
    <3>1. 0 \in 0..MaxRows /\ \A r \in RowIds : row[r] # "absent" <=> r <= 0
      BY ListingAssumption DEF ListInit, RowIds
    <3>. QED
      BY <3>1 DEF OldestFirst
  <2>. QED
    BY <2>1, <2>2 DEF ListInv, WalkOK, PageOK, ListingsAreComplete, ShownOnce, SteadyRowsAreShown
<1>. QED
  BY <1>1, ListInductive, PTL DEF ListSpec

\* Whatever rows come, go or change between two pages, a listing that ends has
\* shown every row that matched all the while, and none twice.
THEOREM CompleteListings == RequestsSpec => []ListingsAreComplete
<1>1. ListInv => ListingsAreComplete
  BY DEF ListInv
<1>. QED
  BY <1>1, ListAlways, PartsFollow, PTL

-----------------------------------------------------------------------------
(* The event log                                                           *)

Events == [id : Nat \ {0}, doc : Digested \cup {0}]
Opening == issued - late

LogTyped ==
  /\ log \subseteq Events /\ issued \in Nat /\ late \in 0..issued
  /\ prune \in [at : {"idle", "count", "batch", "event"}, heads : SUBSET Nat, cursor : Nat,
                batch : SUBSET Events, kept : Nat, removed : Nat]
  /\ prune.at = "idle" => prune = NoPrune
  /\ IsFiniteSet(log) /\ IsFiniteSet(prune.heads)
  /\ \A e \in log : e.id <= issued
  /\ \A x, y \in log : x.id = y.id => x = y

\* The newest of a ledger is protected, or younger than the prune.
HeadsStay ==
  prune.at \in {"count", "batch"} =>
    \A e \in log : e.doc \in Digested =>
      \E x \in log : /\ x.doc = e.doc /\ x.id >= e.id
                     /\ x.id \in prune.heads \/ x.id > Opening

\* What the prune has passed by is protected, and counted.
PassedBy == {e \in log : e.id <= prune.cursor}
GoneOver ==
  prune.at \in {"count", "batch"} =>
    /\ prune.cursor <= issued /\ late <= MaxKeep
    /\ Cardinality(PassedBy) = prune.kept /\ \A e \in PassedBy : e.id \in prune.heads
    /\ prune.removed > 0 => Cardinality(log) >= MaxKeep + prune.kept

\* A batch is the oldest beyond the cursor, all of the excess, and none of the late.
BatchOK ==
  prune.at = "batch" =>
    /\ prune.batch # {} /\ prune.batch \subseteq log
    /\ \A b \in prune.batch : prune.cursor < b.id /\ b.id <= Opening
    /\ \A x \in log, b \in prune.batch :
         prune.cursor < x.id /\ x.id <= b.id => x \in prune.batch
    /\ Cardinality(log) >= MaxKeep + prune.kept + Cardinality(prune.batch)

LogInv == LogTyped /\ HeadsStay /\ GoneOver /\ BatchOK /\ PruneMeetsTheCap

\* Among events that are told apart by their ids there is an oldest and a newest one.
LEMMA OldestEvent ==
  ASSUME NEW S \in SUBSET Events, S # {}
  PROVE  \E e \in S : \A x \in S : e.id <= x.id
<1>. DEFINE ids == {e.id : e \in S}
<1>1. ids \in SUBSET Nat /\ ids # {}
  BY DEF Events
<1>2. Min(ids) \in ids /\ \A i \in ids : Min(ids) <= i
  BY <1>1, Least
<1>. QED
  BY <1>2

LEMMA NewestEvent ==
  ASSUME NEW S \in SUBSET Events, S # {}, NEW n \in Nat, \A e \in S : e.id <= n
  PROVE  /\ Newest(S) \in S /\ \A x \in S : x.id <= Newest(S).id
<1>. DEFINE ids == {e.id : e \in S}
<1>1. ids \in SUBSET Nat /\ ids # {} /\ \A i \in ids : i <= n
  BY DEF Events
<1>2. Max(ids) \in ids /\ \A i \in ids : i <= Max(ids)
  <2>. HIDE DEF ids
  <2>. QED
    BY <1>1, Greatest
<1>3. \E e \in S : \A x \in S : x.id <= e.id
  BY <1>2
<1>. QED
  BY <1>3 DEF Newest

\* As many events as there are ids, at most.
LEMMA FewIds ==
  ASSUME NEW S \in SUBSET Events, NEW T, IsFiniteSet(T), \A e \in S : e.id \in T,
         \A x, y \in S : x.id = y.id => x = y
  PROVE  IsFiniteSet(S) /\ Cardinality(S) <= Cardinality(T)
<1>. DEFINE f == [e \in S |-> e.id]
<1>1. f \in [S -> T] /\ \A x, y \in S : f[x] = f[y] => x = y
  OBVIOUS
<1>2. f \in Injection(S, T)
  BY <1>1, Zenon DEF Injection, IsInjective
<1>. QED
  BY <1>2, FS_Injection

Oldest(S, k) == {e \in S : Cardinality({x \in S : x.id < e.id}) < k}
FromOn(S, e) == {x \in S : x.id >= e.id}

\* The k oldest of a set: no more than k, nothing older is left behind, and what
\* is younger than one of them is all but k - 1.
LEMMA OldestBatch ==
  ASSUME NEW S \in SUBSET Events, IsFiniteSet(S), \A x, y \in S : x.id = y.id => x = y,
         NEW n \in Nat, \A e \in S : e.id <= n, NEW k \in Nat
  PROVE  /\ Oldest(S, k) \subseteq S /\ Cardinality(Oldest(S, k)) <= k
         /\ S # {} /\ k # 0 => Oldest(S, k) # {}
         /\ \A e \in Oldest(S, k), x \in S : x.id <= e.id => x \in Oldest(S, k)
         /\ \A e \in Oldest(S, k) : Cardinality(S) < k + Cardinality(FromOn(S, e))
<1>. DEFINE some == Oldest(S, k)
<1>. DEFINE Older(e) == {x \in S : x.id < e.id}
<1>1. some \subseteq S /\ IsFiniteSet(some) /\ \A e \in S : e \in some <=> Cardinality(Older(e)) < k
  BY FS_Subset DEF Oldest
<1>. HIDE DEF some
<1>2. \A e \in S : IsFiniteSet(Older(e)) /\ Cardinality(Older(e)) \in Nat
  <2>1. \A e \in S : Older(e) \in SUBSET S
    OBVIOUS
  <2>. HIDE DEF Older
  <2>. QED
    BY <2>1, FS_Subset, FS_CardinalityType
<1>3. \A e \in S : e.id \in Nat
  BY DEF Events
<1>4. ASSUME NEW e \in some, NEW x \in S, x.id <= e.id PROVE x \in some
  <2>1. Older(x) \subseteq Older(e)
    <3>. SUFFICES ASSUME NEW y \in S, y.id < x.id PROVE y.id < e.id
      OBVIOUS
    <3>1. e \in S
      BY <1>1
    <3>2. e.id \in Nat /\ x.id \in Nat /\ y.id \in Nat
      BY <1>3, <3>1
    <3>. QED
      BY <1>4, <3>2
  <2>2. e \in S
    BY <1>1
  <2>. HIDE DEF Older
  <2>3. Cardinality(Older(x)) <= Cardinality(Older(e))
    BY <1>2, <2>1, <2>2, FS_Subset
  <2>. QED
    BY <1>1, <1>2, <2>2, <2>3
<1>5. S # {} /\ k # 0 => some # {}
  <2>. SUFFICES ASSUME S # {}, k # 0 PROVE some # {}
    OBVIOUS
  <2>1. PICK e \in S : \A x \in S : e.id <= x.id
    BY OldestEvent
  <2>2. Older(e) = {}
    BY <1>3, <2>1
  <2>3. Cardinality(Older(e)) = 0
    BY <2>2, FS_EmptySet
  <2>4. 0 < k
    OBVIOUS
  <2>. HIDE DEF Older
  <2>5. e \in some
    BY <1>1, <2>1, <2>3, <2>4
  <2>. QED
    BY <2>5
<1>6. Cardinality(some) <= k
  <2>1. CASE some = {}
    <3>1. Cardinality(some) = 0
      BY <2>1, FS_EmptySet
    <3>. QED
      BY <3>1
  <2>2. CASE some # {}
    <3>. DEFINE e == Newest(some)
                rest == some \ {e}
    <3>1. e \in some /\ \A x \in some : x.id <= e.id
      BY <1>1, <2>2, NewestEvent
    <3>. HIDE DEF e
    <3>2. rest \subseteq Older(e)
      <4>. SUFFICES ASSUME NEW x \in some, x # e PROVE x \in S /\ x.id < e.id
        OBVIOUS
      <4>1. x \in S /\ e \in S /\ x.id <= e.id /\ x.id # e.id
        BY <1>1, <3>1
      <4>2. x.id \in Nat /\ e.id \in Nat
        BY <1>3, <4>1
      <4>. QED
        BY <4>1, <4>2
    <3>3. e \in S /\ Cardinality(Older(e)) < k
      BY <1>1, <3>1
    <3>. HIDE DEF Older
    <3>4. Cardinality(rest) <= Cardinality(Older(e)) /\ Cardinality(rest) = Cardinality(some) - 1
      BY <1>1, <1>2, <3>1, <3>2, <3>3, FS_Subset, FS_RemoveElement
    <3>5. Cardinality(some) \in Nat /\ Cardinality(Older(e)) \in Nat
      BY <1>1, <1>2, <3>3, FS_CardinalityType
    <3>. HIDE DEF rest
    <3>. QED
      BY <3>3, <3>4, <3>5
  <2>. QED
    BY <2>1, <2>2
<1>7. ASSUME NEW e \in some
      PROVE  Cardinality(S) < k + Cardinality(FromOn(S, e))
  <2>. DEFINE young == FromOn(S, e)
  <2>1. e \in S /\ e.id \in Nat /\ Cardinality(Older(e)) < k /\ Cardinality(Older(e)) \in Nat
    BY <1>1, <1>2, <1>3
  <2>2. S = Older(e) \cup young /\ Older(e) \cap young = {}
    BY <1>3, <2>1 DEF FromOn
  <2>3. IsFiniteSet(young)
    BY FS_Subset DEF FromOn
  <2>4. IsFiniteSet(Older(e))
    BY <1>2, <2>1
  <2>. HIDE DEF Older, young
  <2>5. Cardinality(Older(e) \cup young) =
          Cardinality(Older(e)) + Cardinality(young) - Cardinality(Older(e) \cap young)
    BY <2>3, <2>4, FS_Union
  <2>6. Cardinality(Older(e) \cap young) = 0 /\ Cardinality(young) \in Nat
    BY <2>2, <2>3, FS_EmptySet, FS_CardinalityType
  <2>7. Cardinality(S) < k + Cardinality(young)
    BY <2>1, <2>2, <2>5, <2>6
  <2>. QED
    BY <2>7 DEF young
<1>. QED
  BY <1>1, <1>4, <1>5, <1>6, <1>7 DEF some

\* An event is written, while a prune waits or works.
LEMMA WriteEventInv ==
  ASSUME LogInv, NEW doc \in Digested \cup {0}, WriteEvent(doc) PROVE LogInv'
<1>. DEFINE new == [id |-> issued + 1, doc |-> doc]
<1>1. /\ issued' = issued + 1 /\ log' = log \cup {new} /\ prune' = prune
      /\ late' = IF prune = NoPrune THEN 0 ELSE late + 1
      /\ prune # NoPrune => late < MaxKeep
  BY DEF WriteEvent
<1>2. issued \in Nat /\ late \in 0..issued /\ \A e \in log : e.id \in Nat /\ e.id <= issued
  BY DEF LogInv, LogTyped, Events
<1>3. new \in Events /\ new.id = issued + 1 /\ new \notin log
  BY <1>2 DEF Events
<1>. HIDE DEF new
<1>4. /\ IsFiniteSet(log) /\ IsFiniteSet(log') /\ Cardinality(log) \in Nat
      /\ Cardinality(log') = Cardinality(log) + 1
  <2>1. IsFiniteSet(log)
    BY DEF LogInv, LogTyped
  <2>2. IsFiniteSet(log') /\ Cardinality(log') = Cardinality(log) + 1
    BY <1>1, <1>3, <2>1, FS_AddElement
  <2>. QED
    BY <2>1, <2>2, FS_CardinalityType
<1>5. LogTyped'
  <2>1. issued' \in Nat /\ late' \in 0..issued'
    BY <1>1, <1>2
  <2>2. log' \subseteq Events /\ \A e \in log' : e.id <= issued'
    BY <1>1, <1>2, <1>3 DEF LogInv, LogTyped
  <2>3. \A x, y \in log' : x.id = y.id => x = y
    <3>1. \A x \in log : x.id # new.id
      BY <1>2, <1>3
    <3>. QED
      BY <1>1, <3>1 DEF LogInv, LogTyped
  <2>. QED
    BY <1>1, <1>4, <2>1, <2>2, <2>3 DEF LogInv, LogTyped
<1>6. CASE prune.at = "idle"
  BY <1>1, <1>5, <1>6 DEF LogInv, HeadsStay, GoneOver, BatchOK, PruneMeetsTheCap
<1>7. CASE prune.at # "idle"
  <2>1. late' = late + 1 /\ Opening' = Opening /\ late < MaxKeep /\ prune # NoPrune
    <3>1. prune # NoPrune
      BY <1>7 DEF NoPrune
    <3>2. late' = late + 1 /\ late < MaxKeep
      BY <1>1, <3>1
    <3>. QED
      BY <1>1, <1>2, <3>1, <3>2 DEF Opening
  <2>2. issued - late \in Nat /\ issued - late < issued + 1
    BY <1>2
  <2>3. HeadsStay'
    <3>1. new.id > Opening /\ new.id >= new.id
      BY <1>2, <1>3, <2>2 DEF Opening
    <3>. QED
      BY <1>1, <2>1, <3>1 DEF LogInv, HeadsStay
  <2>4. prune.at \in {"count", "batch"} => PassedBy' = PassedBy
    BY <1>1, <1>2, <1>3 DEF LogInv, LogTyped, GoneOver, PassedBy
  <2>5. late \in Nat /\ MaxKeep \in Nat /\ prune.kept \in Nat /\ prune.cursor \in Nat
    BY <1>2, EventLogAssumption DEF LogInv, LogTyped
  <2>6. GoneOver'
    <3>. SUFFICES ASSUME prune.at \in {"count", "batch"} PROVE GoneOver'
      BY <1>1 DEF GoneOver
    <3>1. prune.cursor <= issued' /\ late' <= MaxKeep
      BY <1>1, <1>2, <2>1, <2>5 DEF LogInv, GoneOver
    <3>2. prune.removed > 0 => Cardinality(log') >= MaxKeep + prune.kept
      BY <1>4, <2>5 DEF LogInv, GoneOver
    <3>. QED
      BY <1>1, <2>4, <3>1, <3>2 DEF LogInv, GoneOver
  <2>7. BatchOK'
    <3>. SUFFICES ASSUME prune.at = "batch" PROVE BatchOK'
      BY <1>1 DEF BatchOK
    <3>1. prune.batch \subseteq log /\ prune.batch # {}
          /\ \A b \in prune.batch : prune.cursor < b.id /\ b.id <= Opening
      BY DEF LogInv, BatchOK
    <3>2. \A b \in prune.batch : ~(new.id <= b.id)
      BY <1>2, <1>3, <2>2, <3>1 DEF Opening
    <3>3. \A x \in log', b \in prune.batch :
            prune.cursor < x.id /\ x.id <= b.id => x \in prune.batch
      BY <1>1, <3>2 DEF LogInv, BatchOK
    <3>4. Cardinality(log') >= MaxKeep + prune.kept + Cardinality(prune.batch)
      <4>1. Cardinality(prune.batch) \in Nat
        BY <1>4, <3>1, FS_Subset, FS_CardinalityType
      <4>. QED
        BY <1>4, <2>5, <4>1 DEF LogInv, BatchOK
    <3>. QED
      BY <1>1, <2>1, <3>1, <3>3, <3>4 DEF BatchOK
  <2>8. PruneMeetsTheCap'
    <3>1. Cardinality(prune.heads) \in Nat
      BY FS_CardinalityType DEF LogInv, LogTyped
    <3>. QED
      BY <1>1, <1>4, <2>1, <2>5, <3>1 DEF LogInv, PruneMeetsTheCap
  <2>. QED
    BY <1>5, <2>3, <2>6, <2>7, <2>8 DEF LogInv
<1>. QED
  BY <1>6, <1>7

\* The heads of the ledgers are taken down.
LEMMA StartPruneInv == LogInv /\ StartPrune => LogInv'
<1>. SUFFICES ASSUME LogInv, StartPrune PROVE LogInv'
  OBVIOUS
<1>1. /\ prune' = [at |-> "count", heads |-> LedgerHeads, cursor |-> 0, batch |-> {}, kept |-> 0,
                   removed |-> 0]
      /\ late' = 0 /\ log' = log /\ issued' = issued
  BY DEF StartPrune, NoPrune
<1>2. ASSUME NEW d \in Digested, Ledger(d) # {}
      PROVE  /\ Newest(Ledger(d)) \in log /\ Newest(Ledger(d)).doc = d
             /\ \A x \in Ledger(d) : x.id <= Newest(Ledger(d)).id
  <2>1. Ledger(d) \in SUBSET Events /\ issued \in Nat /\ \A e \in Ledger(d) : e.id <= issued
    BY DEF LogInv, LogTyped, Ledger
  <2>2. Newest(Ledger(d)) \in Ledger(d) /\ \A x \in Ledger(d) : x.id <= Newest(Ledger(d)).id
    BY <1>2, <2>1, NewestEvent
  <2>. QED
    BY <2>2 DEF Ledger
<1>3. LedgerHeads \in SUBSET Nat /\ IsFiniteSet(LedgerHeads)
  <2>1. \A i \in LedgerHeads : i \in Nat /\ i <= issued
    BY <1>2 DEF LedgerHeads, LogInv, LogTyped, Events
  <2>2. issued \in Nat
    BY DEF LogInv, LogTyped
  <2>. QED
    BY <2>1, <2>2, FS_BoundedSetOfNaturals
<1>4. LogTyped'
  BY <1>1, <1>3 DEF LogInv, LogTyped
<1>5. HeadsStay'
  <2>. SUFFICES ASSUME NEW e \in log, e.doc \in Digested
                PROVE  \E x \in log : x.doc = e.doc /\ x.id >= e.id /\ x.id \in LedgerHeads
    BY <1>1 DEF HeadsStay
  <2>. DEFINE d == e.doc
              x == Newest(Ledger(d))
  <2>1. e \in Ledger(d) /\ Ledger(d) # {}
    BY DEF Ledger
  <2>2. x \in log /\ x.doc = d /\ e.id <= x.id
    BY <1>2, <2>1
  <2>3. x.id \in LedgerHeads
    BY <2>1 DEF LedgerHeads
  <2>4. x.id >= e.id
    BY <2>2 DEF LogInv, LogTyped, Events
  <2>. QED
    BY <2>2, <2>3, <2>4
<1>6. GoneOver'
  <2>1. PassedBy' = {}
    <3>. SUFFICES ASSUME NEW e \in log, e.id <= 0 PROVE FALSE
      BY <1>1 DEF PassedBy
    <3>. QED
      BY DEF LogInv, LogTyped, Events
  <2>2. Cardinality(PassedBy') = 0
    BY <2>1, FS_EmptySet
  <2>. QED
    BY <1>1, <1>4, <2>1, <2>2, EventLogAssumption DEF GoneOver, LogTyped
<1>. QED
  BY <1>1, <1>4, <1>5, <1>6 DEF LogInv, BatchOK, PruneMeetsTheCap

\* The oldest beyond the cursor: they cannot be late, since MaxKeep stay behind.
LEMMA TakeBatchInv == LogInv /\ TakeBatch => LogInv'
<1>. SUFFICES ASSUME LogInv, TakeBatch PROVE LogInv'
  OBVIOUS
<1>. DEFINE beyond == {e \in log : e.id > prune.cursor}
            size == Min({Excess, BatchLimit})
            some == Oldest(beyond, size)
<1>1. /\ prune.at = "count" /\ UNCHANGED <<log, issued, late>>
      /\ prune' = IF Excess = 0 \/ some = {} THEN [prune EXCEPT !.at = "event"]
                  ELSE [prune EXCEPT !.at = "batch", !.batch = some]
  BY DEF TakeBatch, Oldest
<1>2. /\ beyond \in SUBSET Events /\ IsFiniteSet(beyond) /\ \A x, y \in beyond : x.id = y.id => x = y
      /\ issued \in Nat /\ \A e \in beyond : e.id <= issued
  BY FS_Subset DEF LogInv, LogTyped
<1>3. /\ Cardinality(log) \in Nat /\ Cardinality(beyond) \in Nat /\ prune.kept \in Nat
      /\ MaxKeep \in Nat /\ BatchLimit \in Nat \ {0} /\ prune.cursor \in Nat
      /\ late \in 0..issued /\ late <= MaxKeep
  BY <1>1, <1>2, FS_CardinalityType, EventLogAssumption DEF LogInv, LogTyped, GoneOver
<1>4. Cardinality(beyond) = Cardinality(log) - prune.kept
  <2>1. log = PassedBy \cup beyond /\ PassedBy \cap beyond = {}
    BY DEF PassedBy, LogInv, LogTyped, Events
  <2>2. IsFiniteSet(PassedBy)
    BY FS_Subset DEF PassedBy, LogInv, LogTyped
  <2>. HIDE DEF beyond
  <2>3. Cardinality(PassedBy \cup beyond)
          = Cardinality(PassedBy) + Cardinality(beyond) - Cardinality(PassedBy \cap beyond)
    BY <1>2, <2>2, FS_Union
  <2>4. Cardinality(PassedBy \cap beyond) = 0 /\ Cardinality(PassedBy) = prune.kept
    BY <1>1, <2>1, FS_EmptySet DEF LogInv, GoneOver
  <2>. QED
    BY <1>3, <2>1, <2>3, <2>4
<1>5. Excess \in Nat /\ (Excess # 0 => Cardinality(beyond) = Excess + MaxKeep)
  BY <1>3, <1>4 DEF Excess
<1>6. size \in Nat /\ size <= Excess /\ (Excess # 0 => size # 0)
  <2>1. {Excess, BatchLimit} \in SUBSET Nat /\ {Excess, BatchLimit} # {}
    BY <1>3, <1>5
  <2>2. size \in {Excess, BatchLimit} /\ \A x \in {Excess, BatchLimit} : size <= x
    BY <2>1, Least
  <2>. QED
    BY <1>3, <2>1, <2>2
<1>. HIDE DEF size
<1>7. /\ some \subseteq beyond /\ Cardinality(some) <= size
      /\ beyond # {} /\ size # 0 => some # {}
      /\ \A e \in some, x \in beyond : x.id <= e.id => x \in some
      /\ \A e \in some : Cardinality(beyond) < size + Cardinality(FromOn(beyond, e))
  <2>. HIDE DEF beyond
  <2>. QED
    BY <1>2, <1>6, OldestBatch
<1>8. \A e \in beyond : e \in log /\ prune.cursor < e.id /\ e.id \in Nat
  BY <1>2, <1>3 DEF Events
<1>9. \A e \in log : prune.cursor < e.id => e \in beyond
  BY <1>3 DEF LogInv, LogTyped, Events
<1>. HIDE DEF beyond, some
<1>10. CASE Excess # 0
  <2>1. some # {}
    <3>1. beyond # {}
      <4>. SUFFICES ASSUME beyond = {} PROVE FALSE
        OBVIOUS
      <4>1. Cardinality(beyond) = 0
        BY FS_EmptySet
      <4>. QED
        BY <1>3, <1>5, <1>10, <4>1
    <3>. QED
      BY <1>6, <1>7, <1>10, <3>1
  <2>2. prune' = [prune EXCEPT !.at = "batch", !.batch = some]
    BY <1>1, <1>10, <2>1
  <2>3. some \subseteq log /\ some \in SUBSET Events
    BY <1>2, <1>7, <1>8
  <2>4. LogTyped'
    BY <1>1, <2>2, <2>3 DEF LogInv, LogTyped
  <2>5. HeadsStay' /\ GoneOver' /\ PruneMeetsTheCap'
    BY <1>1, <2>2 DEF LogInv, LogTyped, HeadsStay, GoneOver, PassedBy, Opening, PruneMeetsTheCap
  <2>6. ASSUME NEW e \in some PROVE e.id <= Opening
    <3>. DEFINE young == FromOn(beyond, e)
                recent == (issued - late + 1)..issued
    <3>. SUFFICES ASSUME e.id > Opening PROVE FALSE
      BY <1>2, <1>3, <1>7, <1>8 DEF Opening
    <3>1. e.id \in Nat /\ issued - late \in Nat
      BY <1>2, <1>3, <1>7, <1>8
    <3>2. \A x \in young : x.id \in recent
      BY <1>2, <1>3, <1>8, <3>1 DEF Opening, FromOn
    <3>3. IsFiniteSet(recent) /\ Cardinality(recent) = late
      <4>1. /\ IsFiniteSet(recent)
            /\ Cardinality(recent) = IF issued - late + 1 > issued THEN 0
                                     ELSE issued - (issued - late + 1) + 1
        <5>1. issued - late + 1 \in Int /\ issued \in Int
          BY <1>2, <1>3
        <5>. QED
          BY <5>1, FS_Interval
      <4>. QED
        BY <1>2, <1>3, <4>1
    <3>4. Cardinality(young) <= Cardinality(recent) /\ IsFiniteSet(young)
      <4>1. young \in SUBSET Events /\ \A x, y \in young : x.id = y.id => x = y
        BY <1>2 DEF FromOn
      <4>. HIDE DEF young, recent
      <4>. QED
        BY <3>2, <3>3, <4>1, FewIds
    <3>5. Cardinality(young) \in Nat
      BY <3>4, FS_CardinalityType
    <3>6. Cardinality(beyond) < size + Cardinality(young)
      BY <1>7
    <3>. HIDE DEF young, recent
    <3>. QED
      BY <1>2, <1>3, <1>5, <1>6, <1>10, <3>3, <3>4, <3>5, <3>6
  <2>7. BatchOK'
    <3>1. Cardinality(some) \in Nat
      BY <1>2, <1>7, FS_Subset, FS_CardinalityType
    <3>2. Cardinality(log) >= MaxKeep + prune.kept + Cardinality(some)
      BY <1>3, <1>4, <1>5, <1>6, <1>7, <1>10, <3>1
    <3>3. /\ prune'.batch = some /\ prune'.cursor = prune.cursor /\ prune'.kept = prune.kept
          /\ log' = log /\ Opening' = Opening
      BY <1>1, <2>2 DEF LogInv, LogTyped, Opening
    <3>. QED
      BY <1>7, <1>8, <1>9, <2>1, <2>3, <2>6, <3>2, <3>3 DEF BatchOK
  <2>. QED
    BY <2>4, <2>5, <2>7 DEF LogInv
<1>11. CASE Excess = 0
  <2>1. prune' = [prune EXCEPT !.at = "event"]
    BY <1>1, <1>11
  <2>2. LogTyped'
    BY <1>1, <2>1 DEF LogInv, LogTyped
  <2>3. Cardinality(log) <= MaxKeep + prune.kept
    BY <1>3, <1>11 DEF Excess
  <2>4. prune.kept <= Cardinality(prune.heads)
    <3>1. PassedBy \in SUBSET Events /\ \A x, y \in PassedBy : x.id = y.id => x = y
      BY DEF PassedBy, LogInv, LogTyped
    <3>2. IsFiniteSet(prune.heads) /\ \A e \in PassedBy : e.id \in prune.heads
      BY <1>1 DEF LogInv, LogTyped, GoneOver
    <3>3. Cardinality(PassedBy) <= Cardinality(prune.heads)
      BY <3>1, <3>2, FewIds
    <3>. QED
      BY <1>1, <3>3 DEF LogInv, GoneOver
  <2>5. Cardinality(prune.heads) \in Nat
    BY FS_CardinalityType DEF LogInv, LogTyped
  <2>6. PruneMeetsTheCap'
    <3>1. prune.removed > 0 => Cardinality(log) >= MaxKeep + prune.kept
      BY <1>1 DEF LogInv, GoneOver
    <3>2. Cardinality(log) <= MaxKeep + Cardinality(prune.heads) + late
      BY <1>3, <2>3, <2>4, <2>5
    <3>. QED
      BY <1>1, <2>1, <3>1, <3>2 DEF LogInv, LogTyped, PruneMeetsTheCap
  <2>7. prune'.at = "event"
    BY <2>1 DEF LogInv, LogTyped
  <2>. QED
    BY <2>2, <2>6, <2>7 DEF LogInv, HeadsStay, GoneOver, BatchOK
<1>. QED
  BY <1>10, <1>11

\* The oldest of the batch: protected and counted, or removed.
LEMMA PruneRowInv ==
  ASSUME LogInv, PruneRow
  PROVE  /\ LogInv'
         /\ \A e \in log \ log' : e.id \notin prune.heads /\ e.id <= Opening
<1>. DEFINE e == CHOOSE x \in prune.batch : \A y \in prune.batch : x.id <= y.id
            head == e.id \in prune.heads
            rest == prune.batch \ {e}
<1>1. /\ prune.at = "batch" /\ issued' = issued /\ late' = late
      /\ log' = IF head THEN log ELSE log \ {e}
      /\ prune' = [prune EXCEPT !.cursor = e.id, !.batch = rest,
                     !.at = IF rest = {} THEN "count" ELSE "batch",
                     !.kept = prune.kept + (IF head THEN 1 ELSE 0),
                     !.removed = prune.removed + (IF head THEN 0 ELSE 1)]
  BY DEF PruneRow
<1>2. /\ prune.batch # {} /\ prune.batch \subseteq log /\ prune.batch \in SUBSET Events
      /\ \A b \in prune.batch : prune.cursor < b.id /\ b.id <= Opening
  BY <1>1 DEF LogInv, LogTyped, BatchOK
<1>3. e \in prune.batch /\ \A y \in prune.batch : e.id <= y.id
  BY <1>2, OldestEvent
<1>. HIDE DEF e
<1>4. e \in log /\ e.id \in Nat /\ e.id <= Opening /\ prune.cursor < e.id /\ e.id <= issued
  BY <1>2, <1>3 DEF LogInv, LogTyped, Events
<1>5. /\ issued \in Nat /\ prune.cursor \in Nat /\ prune.kept \in Nat /\ prune.removed \in Nat
      /\ MaxKeep \in Nat /\ \A x \in log : x.id \in Nat
  BY EventLogAssumption DEF LogInv, LogTyped, Events
<1>6. /\ IsFiniteSet(log) /\ Cardinality(log) \in Nat
      /\ IsFiniteSet(log \ {e}) /\ Cardinality(log \ {e}) = Cardinality(log) - 1
  BY <1>4, FS_CardinalityType, FS_RemoveElement DEF LogInv, LogTyped
<1>7. IsFiniteSet(log') /\ Cardinality(log') = Cardinality(log) - (IF head THEN 0 ELSE 1)
  BY <1>1, <1>6
<1>8. /\ Cardinality(rest) \in Nat
      /\ Cardinality(rest) = Cardinality(prune.batch) - 1
      /\ Cardinality(prune.batch) \in Nat
  <2>1. IsFiniteSet(prune.batch)
    BY <1>2, <1>6, FS_Subset
  <2>2. IsFiniteSet(rest) /\ Cardinality(rest) = Cardinality(prune.batch) - 1
    BY <1>3, <2>1, FS_RemoveElement
  <2>. QED
    BY <2>1, <2>2, FS_CardinalityType
<1>. HIDE DEF rest
<1>9. /\ prune'.cursor = e.id /\ prune'.batch = rest /\ prune'.heads = prune.heads
      /\ prune'.at = (IF rest = {} THEN "count" ELSE "batch")
      /\ prune'.kept = prune.kept + (IF head THEN 1 ELSE 0)
      /\ prune'.removed = prune.removed + (IF head THEN 0 ELSE 1)
  BY <1>1 DEF LogInv, LogTyped
<1>10. rest \in SUBSET Events /\ rest \subseteq prune.batch /\ e \notin rest
  BY <1>2 DEF rest
<1>11. prune' \in [at : {"idle", "count", "batch", "event"}, heads : SUBSET Nat, cursor : Nat,
                   batch : SUBSET Events, kept : Nat, removed : Nat]
  <2>1. /\ prune.kept + (IF head THEN 1 ELSE 0) \in Nat
        /\ prune.removed + (IF head THEN 0 ELSE 1) \in Nat
    BY <1>5
  <2>. QED
    BY <1>1, <1>4, <1>10, <2>1 DEF LogInv, LogTyped
<1>12. LogTyped'
  <2>1. log' \subseteq log
    BY <1>1
  <2>2. prune'.at # "idle"
    BY <1>9
  <2>. QED
    BY <1>1, <1>7, <1>9, <1>11, <2>1, <2>2 DEF LogInv, LogTyped
<1>13. \A x \in log : x \in log' \/ (x = e /\ e.id \notin prune.heads)
  BY <1>1
<1>14. HeadsStay'
  <2>. SUFFICES ASSUME NEW x \in log', x.doc \in Digested
                PROVE  \E y \in log' : /\ y.doc = x.doc /\ y.id >= x.id
                                       /\ y.id \in prune.heads \/ y.id > Opening
    BY <1>1, <1>9 DEF HeadsStay, Opening
  <2>1. x \in log
    BY <1>1
  <2>2. PICK y \in log : /\ y.doc = x.doc /\ y.id >= x.id
                         /\ y.id \in prune.heads \/ y.id > Opening
    BY <1>1, <2>1 DEF LogInv, HeadsStay
  <2>3. Opening \in Nat
    BY DEF LogInv, LogTyped, Opening
  <2>4. y \in log'
    BY <1>4, <1>13, <2>2, <2>3
  <2>. QED
    BY <2>2, <2>4
<1>15. ASSUME NEW x \in log, x.id <= e.id, x # e PROVE x \in PassedBy
  <2>1. x.id # e.id
    BY <1>4, <1>15 DEF LogInv, LogTyped
  <2>2. x.id \notin {b.id : b \in prune.batch}
    BY <1>3, <1>4, <1>5, <1>15, <2>1
  <2>3. ~(prune.cursor < x.id)
    BY <1>1, <1>3, <1>15, <2>2 DEF LogInv, BatchOK
  <2>. QED
    BY <1>5, <2>3 DEF PassedBy
<1>16. e \notin PassedBy /\ \A x \in PassedBy : x \in log /\ x.id <= e.id
  BY <1>4, <1>5 DEF PassedBy
<1>17. PassedBy' = IF head THEN PassedBy \cup {e} ELSE PassedBy
  <2>1. PassedBy' = {x \in log' : x.id <= e.id}
    BY <1>9 DEF PassedBy
  <2>2. e.id <= e.id
    BY <1>4
  <2>. QED
    BY <1>1, <1>4, <1>15, <1>16, <2>1, <2>2
<1>18. IsFiniteSet(PassedBy) /\ Cardinality(PassedBy) = prune.kept
  BY <1>1, <1>6, FS_Subset DEF PassedBy, LogInv, GoneOver
<1>19. Cardinality(PassedBy') = prune'.kept
  <2>1. Cardinality(PassedBy \cup {e}) = prune.kept + 1
    BY <1>16, <1>18, FS_AddElement
  <2>. QED
    BY <1>5, <1>9, <1>17, <1>18, <2>1
<1>20. Cardinality(log') >= MaxKeep + prune'.kept + Cardinality(rest)
  <2>1. Cardinality(log) >= MaxKeep + prune.kept + Cardinality(prune.batch)
    BY <1>1 DEF LogInv, BatchOK
  <2>. QED
    BY <1>5, <1>6, <1>7, <1>8, <1>9, <2>1
<1>21. GoneOver'
  <2>1. \A x \in PassedBy' : x.id \in prune'.heads
    BY <1>1, <1>9, <1>17 DEF LogInv, GoneOver
  <2>2. Cardinality(log') >= MaxKeep + prune'.kept
    BY <1>5, <1>6, <1>7, <1>8, <1>9, <1>20
  <2>3. prune'.cursor <= issued' /\ late' <= MaxKeep
    BY <1>1, <1>4, <1>9 DEF LogInv, GoneOver
  <2>. QED
    BY <1>19, <2>1, <2>2, <2>3 DEF GoneOver
<1>22. BatchOK'
  <2>. SUFFICES ASSUME rest # {} PROVE BatchOK'
    BY <1>9 DEF BatchOK
  <2>1. rest \subseteq log'
    BY <1>1, <1>2, <1>10
  <2>2. ASSUME NEW b \in rest PROVE e.id < b.id /\ b.id <= Opening
    <3>1. b \in prune.batch /\ b # e /\ b \in log /\ b.id \in Nat
      BY <1>2, <1>5, <1>10
    <3>2. e.id <= b.id /\ e.id # b.id
      BY <1>3, <1>4, <3>1 DEF LogInv, LogTyped
    <3>. QED
      BY <1>2, <1>4, <3>1, <3>2
  <2>3. ASSUME NEW x \in log', NEW b \in rest, e.id < x.id, x.id <= b.id PROVE x \in rest
    <3>1. x \in log /\ x.id \in Nat /\ prune.cursor < x.id
      BY <1>1, <1>4, <1>5, <2>3
    <3>2. x \in prune.batch
      BY <1>1, <1>10, <2>3, <3>1 DEF LogInv, BatchOK
    <3>3. x # e
      BY <1>4, <2>3
    <3>. QED
      BY <3>2, <3>3 DEF rest
  <2>4. Opening' = Opening
    BY <1>1 DEF Opening
  <2>. QED
    BY <1>9, <1>20, <2>1, <2>2, <2>3, <2>4 DEF BatchOK
<1>23. PruneMeetsTheCap'
  BY <1>9 DEF PruneMeetsTheCap
<1>. QED
  BY <1>4, <1>12, <1>13, <1>14, <1>21, <1>22, <1>23 DEF LogInv

\* The gap is explained.
LEMMA FinishPruneInv == LogInv /\ FinishPrune => LogInv'
<1>. SUFFICES ASSUME LogInv, FinishPrune PROVE LogInv'
  OBVIOUS
<1>. DEFINE new == [id |-> issued + 1, doc |-> 0]
<1>1. prune' = NoPrune /\ late' = late
  BY DEF FinishPrune
<1>2. \/ log' = log /\ issued' = issued
      \/ log' = log \cup {new} /\ issued' = issued + 1
  BY DEF FinishPrune
<1>3. issued \in Nat /\ late \in 0..issued /\ IsFiniteSet(log) /\ \A e \in log : e.id \in Nat /\ e.id <= issued
  BY DEF LogInv, LogTyped, Events
<1>4. new \in Events /\ new.id = issued + 1
  BY <1>3 DEF Events
<1>. HIDE DEF new
<1>5. IsFiniteSet(log')
  BY <1>2, <1>3, FS_AddElement
<1>6. \A e \in log' : e \in Events /\ e.id <= issued'
  BY <1>2, <1>3, <1>4 DEF LogInv, LogTyped
<1>7. \A x, y \in log' : x.id = y.id => x = y
  <2>1. \A x \in log : x.id # new.id
    BY <1>3, <1>4
  <2>. QED
    BY <1>2, <2>1 DEF LogInv, LogTyped
<1>8. issued' \in Nat /\ late' \in 0..issued'
  BY <1>1, <1>2, <1>3
<1>9. LogTyped'
  BY <1>1, <1>5, <1>6, <1>7, <1>8, FS_EmptySet DEF LogTyped, NoPrune
<1>. QED
  BY <1>1, <1>9 DEF LogInv, HeadsStay, GoneOver, BatchOK, PruneMeetsTheCap, NoPrune

LEMMA LogInductive == LogInv /\ [LogNext]_logVars => LogInv'
<1>1. LogInv /\ UNCHANGED logVars => LogInv'
  BY DEF logVars, LogInv, LogTyped, HeadsStay, GoneOver, BatchOK, PruneMeetsTheCap, Opening, PassedBy
<1>. QED
  BY <1>1, WriteEventInv, StartPruneInv, TakeBatchInv, PruneRowInv, FinishPruneInv DEF LogNext

LEMMA LogAlways == LogSpec => []LogInv
<1>1. LogInit => LogInv
  BY FS_EmptySet DEF LogInit, LogInv, LogTyped, HeadsStay, GoneOver, BatchOK, PruneMeetsTheCap, NoPrune
<1>. QED
  BY <1>1, LogInductive, PTL DEF LogSpec

\* A step leaves every ledger its newest entry, or a newer one.
LEMMA LedgersSurvive ==
  ASSUME LogInv, [LogNext]_logVars, NEW d \in Digested, Ledger(d) # {}
  PROVE  \E e \in log' : e.doc = d /\ e.id >= Newest(Ledger(d)).id
<1>. DEFINE last == Newest(Ledger(d))
<1>1. last \in log /\ last.doc = d /\ last.id \in Nat /\ \A x \in Ledger(d) : x.id <= last.id
  <2>1. Ledger(d) \in SUBSET Events /\ issued \in Nat /\ \A e \in Ledger(d) : e.id <= issued
    BY DEF LogInv, LogTyped, Ledger
  <2>2. last \in Ledger(d) /\ \A x \in Ledger(d) : x.id <= last.id
    BY <2>1, NewestEvent
  <2>. QED
    BY <2>1, <2>2 DEF Ledger, Events
<1>. HIDE DEF last
<1>2. last.id >= last.id
  BY <1>1
<1>3. CASE PruneRow
  <2>1. PICK x \in log : x.doc = d /\ x.id >= last.id /\ (x.id \in prune.heads \/ x.id > Opening)
    BY <1>1, <1>3 DEF LogInv, HeadsStay, PruneRow
  <2>2. x.id \in Nat /\ Opening \in Nat
    BY DEF LogInv, LogTyped, Events, Opening
  <2>3. x \in log'
    BY <1>3, <2>1, <2>2, PruneRowInv
  <2>. QED
    BY <2>1, <2>3 DEF last
<1>4. CASE ~PruneRow
  <2>1. log \subseteq log'
    BY <1>4 DEF LogNext, WriteEvent, StartPrune, TakeBatch, FinishPrune, logVars
  <2>. QED
    BY <1>1, <1>2, <2>1 DEF last
<1>. QED
  BY <1>3, <1>4

LEMMA LogPromises == LogSpec => LedgerSurvives /\ []PruneMeetsTheCap
<1>1. LogInv /\ [LogNext]_logVars =>
        [\A d \in Digested : Ledger(d) # {} =>
           \E e \in log' : e.doc = d /\ e.id >= Newest(Ledger(d)).id]_logVars
  BY LedgersSurvive
<1>2. LogInv => PruneMeetsTheCap
  BY DEF LogInv
<1>. QED
  BY <1>1, <1>2, LogAlways, PTL DEF LogSpec, LedgerSurvives

-----------------------------------------------------------------------------
(* Bundles                                                                 *)

DocRecords == [slug : Slugs, title : Words, tags : TagSets, resource : Perhaps, block : Blocks,
               versions : Seq(Bodies) \ {<<>>}, active : BOOLEAN]
Sayings == [title : Words, tags : TagSets, resource : Perhaps]

BundleTyped ==
  /\ docs \in Seq(DocRecords) /\ Len(docs) <= MaxDocs
  /\ source \in Seq(Entries \cup {Unwritten}) /\ Len(source) = Len(docs)
  /\ bundle \in Seq(Entries)
  /\ importer \in [Importers -> [at : {"idle", "entry", "commit"}, entries : Seq(Entries),
                                 found : Nat]]
  /\ \A i \in Importers : importer[i].at # "idle" => importer[i].entries # <<>>
  /\ export \in [below : Nat, listed : SUBSET DocRecords] /\ IsFiniteSet(export.listed)

SlugsAreUnique == \A c, d \in 1..Len(docs) : docs[c].slug = docs[d].slug => c = d

\* Who has looked a slug up holds the lock, so what it found is still so.
LockIsHeld ==
  \A i \in Importers : importer[i].at = "commit" =>
    LET found == WithSlug(Entry(i).path.slug)
    IN  /\ locked = i
        /\ importer[i].found = IF found = {} THEN 0 ELSE Min(found)

\* What was last written from an entry says what the entry says.
WrittenAsSaid ==
  \A d \in 1..Len(docs) : source[d] # Unwritten =>
    Idempotent(docs[d], Said(source[d]), source[d].block, source[d].body)

DocsInv == SlugsAreUnique /\ WrittenAsSaid /\ OneDocumentPerConcept

\* No document goes, so what is left to be listed is there.
ListedIsThere == export.below <= Len(docs) + 1

BundleInv == BundleTyped /\ DocsInv /\ LockIsHeld /\ ListedIsThere

LEMMA SaidTyped == \A e \in Entries : Said(e) \in Sayings
<1>. SUFFICES ASSUME NEW e \in Entries PROVE Said(e) \in Sayings
  OBVIOUS
<1>. DEFINE title == TitleOf(e.block, e.body)
<1>1. e.block \in Blocks /\ e.body \in Bodies /\ e.path.slug \in Slugs
  BY DEF Entries
<1>2. title \in Perhaps /\ e.path.slug[1] \in Words
  BY <1>1 DEF TitleOf, Blocks, Bodies, Slugs
<1>3. title # Absent => title \in Words
  BY <1>2 DEF Perhaps
<1>4. Items(e.block.tags) \in TagSets /\ e.block.resource \in Perhaps
  BY <1>1 DEF Items, Blocks, TagSets
<1>. HIDE DEF title
<1>. QED
  BY <1>2, <1>3, <1>4 DEF Said, Sayings, title

LEMMA RenderedTyped == \A doc \in DocRecords : Rendered(doc) \in Entries
<1>. SUFFICES ASSUME NEW doc \in DocRecords PROVE Rendered(doc) \in Entries
  OBVIOUS
<1>1. /\ doc.slug \in Slugs /\ doc.block \in Blocks /\ doc.title \in Perhaps /\ doc.tags \in TagSets
      /\ doc.resource \in Perhaps
  BY DEF DocRecords, Perhaps
<1>2. BodyOf(doc) \in Bodies
  <2>1. doc.versions \in Seq(Bodies) /\ doc.versions # <<>>
    BY DEF DocRecords
  <2>. QED
    BY <2>1 DEF BodyOf
<1>3. Synthesized(doc) \in Blocks
  <2>. DEFINE kind == IF doc.block.kind = Absent THEN "Document" ELSE doc.block.kind
  <2>1. kind \in Perhaps
    BY <1>1, BundleAssumption DEF Blocks, Perhaps
  <2>2. Synthesized(doc) = [title |-> doc.title, tags |-> doc.tags, resource |-> doc.resource,
                            extra |-> FALSE, kind |-> kind, there |-> TRUE]
    BY DEF Synthesized
  <2>. HIDE DEF kind
  <2>. QED
    BY <1>1, <2>1, <2>2 DEF Blocks
<1>. QED
  BY <1>1, <1>2, <1>3 DEF Rendered, Entries

\* Read back, an entry says what the document says that it was rendered from.
LEMMA RenderedIsTrue ==
  \A doc \in DocRecords : Listable(doc.tags) =>
    Said(Rendered(doc)) = [title |-> doc.title, tags |-> doc.tags, resource |-> doc.resource]
<1>. SUFFICES ASSUME NEW doc \in DocRecords, Listable(doc.tags)
              PROVE  Said(Rendered(doc))
                       = [title |-> doc.title, tags |-> doc.tags, resource |-> doc.resource]
  OBVIOUS
<1>1. doc.title # Absent
  BY BundleAssumption DEF DocRecords
<1>2. CASE doc.block.there /\ ~Stale(doc)
  <2>1. Rendered(doc).block = doc.block /\ Rendered(doc).body = BodyOf(doc)
    BY <1>2 DEF Rendered
  <2>2. /\ TitleOf(doc.block, BodyOf(doc)) = doc.title /\ Items(doc.block.tags) = doc.tags
        /\ doc.block.resource = doc.resource
    BY <1>2 DEF Stale
  <2>. QED
    BY <1>1, <2>1, <2>2 DEF Said
<1>3. CASE ~(doc.block.there /\ ~Stale(doc))
  <2>1. Rendered(doc).block = Synthesized(doc)
    BY <1>3 DEF Rendered
  <2>2. /\ Synthesized(doc).title = doc.title /\ Synthesized(doc).tags = doc.tags
        /\ Synthesized(doc).resource = doc.resource
    BY DEF Synthesized
  <2>3. TitleOf(Rendered(doc).block, Rendered(doc).body) = doc.title
    BY <1>1, <2>1, <2>2 DEF TitleOf
  <2>. QED
    BY <1>1, <2>1, <2>2, <2>3 DEF Said, Listable
<1>. QED
  BY <1>2, <1>3

\* Among MaxDocs + 2 suffixes one is free.
LEMMA FreshIsFree ==
  ASSUME BundleTyped, Len(docs) < MaxDocs, NEW slug \in Slugs
  PROVE  /\ FreshSlug(slug) \in Slugs /\ WithSlug(FreshSlug(slug)) = {}
         /\ ~ReservedSlug(slug) /\ WithSlug(slug) = {} => FreshSlug(slug) = slug
<1>. DEFINE base == slug[1]
            from == slug[2]
            span == from..(from + MaxDocs + 1)
            free == {n \in span : ~ReservedSlug(<<base, n>>) /\ WithSlug(<<base, n>>) = {}}
<1>1. /\ base \in Words /\ from \in Nat \ {0} /\ slug = <<base, from>> /\ MaxDocs \in Nat
      /\ Len(docs) \in Nat
  BY BundleAssumption DEF Slugs, BundleTyped
<1>2. free \in SUBSET Nat
  BY <1>1
<1>3. free # {}
  <2>. SUFFICES ASSUME free = {} PROVE FALSE
    OBVIOUS
  <2>. DEFINE taken == {docs[d].slug[2] : d \in 1..Len(docs)}
  <2>1. span \subseteq taken \cup {1}
    <3>. SUFFICES ASSUME NEW n \in span, n # 1 PROVE n \in taken
      OBVIOUS
    <3>1. ~ReservedSlug(<<base, n>>)
      BY DEF ReservedSlug
    <3>2. WithSlug(<<base, n>>) # {}
      BY <3>1
    <3>3. PICK d \in 1..Len(docs) : docs[d].slug = <<base, n>>
      BY <3>2 DEF WithSlug
    <3>4. docs[d].slug[2] = n
      BY <3>3
    <3>. QED
      BY <3>4
  <2>2. IsFiniteSet(1..Len(docs)) /\ Cardinality(1..Len(docs)) = Len(docs)
    <3>1. 1 \in Int /\ Len(docs) \in Int
      BY <1>1
    <3>2. /\ IsFiniteSet(1..Len(docs))
          /\ Cardinality(1..Len(docs)) = IF 1 > Len(docs) THEN 0 ELSE Len(docs) - 1 + 1
      BY <3>1, FS_Interval
    <3>. QED
      BY <1>1, <3>2
  <2>3. IsFiniteSet(taken) /\ Cardinality(taken) <= Len(docs)
    <3>. DEFINE f == [d \in 1..Len(docs) |-> docs[d].slug[2]]
    <3>1. f \in Surjection(1..Len(docs), taken)
      <4>1. f \in [1..Len(docs) -> taken] /\ \A t \in taken : \E d \in 1..Len(docs) : f[d] = t
        OBVIOUS
      <4>. HIDE DEF f, taken
      <4>. QED
        BY <4>1 DEF Surjection
    <3>. HIDE DEF f, taken
    <3>. QED
      BY <2>2, <3>1, FS_Surjection
  <2>4. IsFiniteSet(taken \cup {1}) /\ Cardinality(taken \cup {1}) <= Len(docs) + 1
    <3>. HIDE DEF taken
    <3>1. /\ IsFiniteSet(taken \cup {1})
          /\ Cardinality(taken \cup {1}) \in {Cardinality(taken), Cardinality(taken) + 1}
      BY <2>3, FS_AddElement
    <3>2. Cardinality(taken) \in Nat
      BY <2>3, FS_CardinalityType
    <3>. QED
      BY <1>1, <2>3, <3>1, <3>2
  <2>5. Cardinality(span) = MaxDocs + 2
    <3>. DEFINE to == from + MaxDocs + 1
    <3>1. from \in Int /\ to \in Int /\ to - from + 1 = MaxDocs + 2 /\ ~(from > to)
      BY <1>1
    <3>. HIDE DEF from, to
    <3>2. Cardinality(from..to) = to - from + 1
      BY <3>1, FS_Interval
    <3>. QED
      BY <3>1, <3>2 DEF to
  <2>. HIDE DEF taken, span
  <2>6. Cardinality(span) <= Cardinality(taken \cup {1})
    BY <2>1, <2>4, FS_Subset
  <2>7. Cardinality(taken \cup {1}) \in Nat
    BY <2>4, FS_CardinalityType
  <2>. QED
    BY <1>1, <2>4, <2>5, <2>6, <2>7
<1>4. Min(free) \in free /\ \A n \in free : Min(free) <= n
  <2>. HIDE DEF free
  <2>. QED
    BY <1>2, <1>3, Least
<1>5. FreshSlug(slug) = <<base, Min(free)>>
  BY DEF FreshSlug
<1>6. /\ ~ReservedSlug(slug) /\ WithSlug(slug) = {} => from \in free
      /\ \A n \in free : n \in Nat \ {0} /\ from <= n /\ WithSlug(<<base, n>>) = {}
  BY <1>1
<1>. HIDE DEF free, base, from
<1>7. <<base, Min(free)>> \in Slugs /\ WithSlug(<<base, Min(free)>>) = {}
  BY <1>1, <1>4, <1>6 DEF Slugs
<1>8. ~ReservedSlug(slug) /\ WithSlug(slug) = {} => Min(free) = from
  <2>. SUFFICES ASSUME ~ReservedSlug(slug) /\ WithSlug(slug) = {} PROVE Min(free) = from
    OBVIOUS
  <2>1. Min(free) <= from /\ from <= Min(free) /\ Min(free) \in Nat
    BY <1>4, <1>6
  <2>. QED
    BY <1>1, <2>1
<1>. QED
  BY <1>1, <1>5, <1>7, <1>8

\* A commit that is made again changes nothing.
LEMMA CommittedAgain ==
  ASSUME NEW doc \in DocRecords, NEW said \in Sayings, NEW block \in Blocks, NEW body \in Bodies
  PROVE  /\ Committed(doc, said, block, body) \in DocRecords
         /\ Committed(doc, said, block, body).slug = doc.slug
         /\ Idempotent(Committed(doc, said, block, body), said, block, body)
<1>. DEFINE new == Committed(doc, said, block, body)
<1>1. doc.versions \in Seq(Bodies) /\ Append(doc.versions, body) \in Seq(Bodies) \ {<<>>}
  BY DEF DocRecords
<1>2. /\ new = [doc EXCEPT !.title = said.title, !.tags = said.tags,
                  !.resource = IF said.resource = Absent THEN doc.resource ELSE said.resource,
                  !.block = IF block.there THEN block ELSE doc.block,
                  !.versions = Append(doc.versions, body)]
  BY DEF Committed
<1>. HIDE DEF new
<1>3. /\ new.slug = doc.slug /\ new.title = said.title /\ new.tags = said.tags
      /\ new.resource = (IF said.resource = Absent THEN doc.resource ELSE said.resource)
      /\ new.block = (IF block.there THEN block ELSE doc.block)
      /\ new.versions = Append(doc.versions, body) /\ new.active = doc.active
  BY <1>2 DEF DocRecords
<1>4. new \in DocRecords
  <2>. DEFINE resource == IF said.resource = Absent THEN doc.resource ELSE said.resource
              kept == IF block.there THEN block ELSE doc.block
  <2>1. resource \in Perhaps /\ kept \in Blocks /\ said.title \in Words /\ said.tags \in TagSets
    BY DEF DocRecords, Sayings
  <2>. HIDE DEF resource, kept
  <2>2. new = [doc EXCEPT !.title = said.title, !.tags = said.tags, !.resource = resource,
                          !.block = kept, !.versions = Append(doc.versions, body)]
    BY <1>2 DEF resource, kept
  <2>. QED
    BY <1>1, <2>1, <2>2 DEF DocRecords
<1>5. BodyOf(new) = body
  BY <1>1, <1>3 DEF BodyOf
<1>. QED
  BY <1>3, <1>4, <1>5 DEF Idempotent, new

LEMMA CreatedAgain ==
  ASSUME BundleTyped, Len(docs) < MaxDocs, NEW slug \in Slugs,
         NEW said \in Sayings, NEW block \in Blocks, NEW body \in Bodies
  PROVE  /\ Created(slug, said, block, body) \in DocRecords
         /\ Created(slug, said, block, body).slug = FreshSlug(slug)
         /\ Idempotent(Created(slug, said, block, body), said, block, body)
<1>. DEFINE new == Created(slug, said, block, body)
<1>1. /\ new = [slug |-> FreshSlug(slug), title |-> said.title, tags |-> said.tags,
                resource |-> said.resource, block |-> block, versions |-> <<body>>, active |-> TRUE]
      /\ FreshSlug(slug) \in Slugs
  BY FreshIsFree DEF Created
<1>. HIDE DEF new
<1>2. <<body>> \in Seq(Bodies) \ {<<>>} /\ Len(<<body>>) = 1 /\ <<body>>[1] = body
  OBVIOUS
<1>3. new \in DocRecords /\ new.slug = FreshSlug(slug)
  BY <1>1, <1>2 DEF DocRecords, Sayings
<1>4. BodyOf(new) = body
  BY <1>1, <1>2 DEF BodyOf
<1>. QED
  BY <1>1, <1>3, <1>4 DEF Idempotent, new

\* A document more, with a slug that is free.
LEMMA OneMore ==
  ASSUME BundleTyped, DocsInv, Len(docs) < MaxDocs,
         NEW new \in DocRecords, WithSlug(new.slug) = {}, docs' = Append(docs, new),
         NEW e \in Entries \cup {Unwritten}, source' = Append(source, e),
         e # Unwritten =>
           /\ Idempotent(new, Said(e), e.block, e.body)
           /\ ~ReservedSlug(e.path.slug) => new.slug = e.path.slug
  PROVE  /\ docs' \in Seq(DocRecords) /\ Len(docs') <= MaxDocs /\ Len(docs') = Len(docs) + 1
         /\ source' \in Seq(Entries \cup {Unwritten}) /\ Len(source') = Len(docs')
         /\ DocsInv'
<1>. DEFINE n == Len(docs)
<1>1. /\ docs \in Seq(DocRecords) /\ source \in Seq(Entries \cup {Unwritten}) /\ Len(source) = n
      /\ n \in Nat /\ MaxDocs \in Nat /\ n < MaxDocs
  BY BundleAssumption DEF BundleTyped
<1>. HIDE DEF n
<1>2. /\ docs' \in Seq(DocRecords) /\ Len(docs') = n + 1
      /\ docs'[n + 1] = new /\ \A d \in 1..n : docs'[d] = docs[d]
  BY <1>1 DEF n
<1>3. /\ source' \in Seq(Entries \cup {Unwritten}) /\ Len(source') = n + 1
      /\ source'[n + 1] = e /\ \A d \in 1..n : source'[d] = source[d]
  BY <1>1
<1>4. \A d \in 1..Len(docs') : d \in 1..n \/ d = n + 1
  BY <1>1, <1>2
<1>5. SlugsAreUnique'
  <2>1. \A d \in 1..n : docs[d].slug # new.slug
    BY DEF WithSlug, n
  <2>. QED
    BY <1>2, <1>4, <2>1 DEF DocsInv, SlugsAreUnique, n
<1>6. WrittenAsSaid'
  BY <1>2, <1>3, <1>4 DEF DocsInv, WrittenAsSaid, n, Idempotent, BodyOf, Said, TitleOf
<1>7. OneDocumentPerConcept'
  BY <1>2, <1>3, <1>4 DEF DocsInv, OneDocumentPerConcept, n, ReservedSlug
<1>8. n + 1 <= MaxDocs
  BY <1>1
<1>. QED
  BY <1>2, <1>3, <1>5, <1>6, <1>7, <1>8 DEF DocsInv, n

\* A document changes, but for its slug.
LEMMA OneOther ==
  ASSUME BundleTyped, DocsInv, NEW d \in 1..Len(docs),
         NEW new \in DocRecords, new.slug = docs[d].slug, docs' = [docs EXCEPT ![d] = new],
         NEW e \in Entries \cup {Unwritten}, source' = [source EXCEPT ![d] = e],
         e # Unwritten =>
           /\ Idempotent(new, Said(e), e.block, e.body)
           /\ ~ReservedSlug(e.path.slug) => new.slug = e.path.slug
  PROVE  /\ docs' \in Seq(DocRecords) /\ Len(docs') = Len(docs)
         /\ source' \in Seq(Entries \cup {Unwritten}) /\ Len(source') = Len(docs')
         /\ DocsInv'
<1>1. /\ docs \in Seq(DocRecords) /\ source \in Seq(Entries \cup {Unwritten})
      /\ Len(source) = Len(docs)
  BY DEF BundleTyped
<1>2. /\ docs' \in Seq(DocRecords) /\ Len(docs') = Len(docs)
      /\ docs'[d] = new /\ \A c \in 1..Len(docs) : c # d => docs'[c] = docs[c]
  BY <1>1
<1>3. /\ source' \in Seq(Entries \cup {Unwritten}) /\ Len(source') = Len(docs)
      /\ source'[d] = e /\ \A c \in 1..Len(docs) : c # d => source'[c] = source[c]
  BY <1>1
<1>4. \A c \in 1..Len(docs) : docs'[c].slug = docs[c].slug
  BY <1>2
<1>5. SlugsAreUnique'
  BY <1>2, <1>4 DEF DocsInv, SlugsAreUnique
<1>6. WrittenAsSaid'
  BY <1>2, <1>3 DEF DocsInv, WrittenAsSaid, Idempotent, BodyOf, Said, TitleOf
<1>7. OneDocumentPerConcept'
  BY <1>2, <1>3, <1>4 DEF DocsInv, OneDocumentPerConcept, ReservedSlug
<1>. QED
  BY <1>2, <1>3, <1>5, <1>6, <1>7 DEF DocsInv

\* The callers of import_bundle, one of which may hold the lock.
LEMMA NextJob ==
  ASSUME BundleTyped, NEW i \in Importers, importer[i].at # "idle"
  PROVE  /\ Entry(i) \in Entries
         /\ NextEntry(i, importer[i])
              \in [at : {"idle", "entry"}, entries : Seq(Entries), found : Nat]
         /\ NextEntry(i, importer[i]).at # "idle" => NextEntry(i, importer[i]).entries # <<>>
<1>. DEFINE job == importer[i]
            rest == Tail(job.entries)
<1>1. /\ job \in [at : {"idle", "entry", "commit"}, entries : Seq(Entries), found : Nat]
      /\ job.entries \in Seq(Entries) /\ job.entries # <<>>
  BY DEF BundleTyped
<1>2. Entry(i) \in Entries
  BY <1>1 DEF Entry
<1>3. rest \in Seq(Entries) /\ (Len(job.entries) # 1 => rest # <<>>)
  <2>. DEFINE todo == job.entries
  <2>1. todo \in Seq(Entries) /\ todo # <<>>
    BY <1>1
  <2>. HIDE DEF todo
  <2>2. Tail(todo) \in Seq(Entries) /\ Len(Tail(todo)) = Len(todo) - 1 /\ Len(todo) \in Nat
    BY <2>1
  <2>3. Len(todo) # 1 => Tail(todo) # <<>>
    <3>1. Tail(todo) = <<>> <=> Len(Tail(todo)) = 0
      BY <2>2, EmptySeq
    <3>. QED
      BY <2>2, <3>1
  <2>. QED
    BY <2>2, <2>3 DEF todo
<1>4. CASE Len(job.entries) = 1
  <2>1. NextEntry(i, job) = [at |-> "idle", entries |-> <<>>, found |-> 0]
    BY <1>4 DEF NextEntry, NoImport
  <2>2. <<>> \in Seq(Entries)
    OBVIOUS
  <2>. QED
    BY <1>2, <2>1, <2>2
<1>5. CASE Len(job.entries) # 1
  <2>. HIDE DEF rest
  <2>1. NextEntry(i, job) = [job EXCEPT !.at = "entry", !.entries = rest]
    BY <1>5 DEF NextEntry, rest
  <2>. HIDE DEF job
  <2>. QED
    BY <1>1, <1>2, <1>3, <1>5, <2>1 DEF job
<1>. QED
  BY <1>4, <1>5

LEMMA ListedStays ==
  ASSUME BundleTyped, ListedIsThere, export' = export, Len(docs') \in {Len(docs), Len(docs) + 1}
  PROVE  ListedIsThere'
<1>1. export.below \in Nat /\ Len(docs) \in Nat
  BY DEF BundleTyped
<1>. QED
  BY <1>1 DEF ListedIsThere

LEMMA LockStays ==
  ASSUME LockIsHeld, docs' = docs, locked' = locked,
         \A i \in Importers : importer'[i].at = "commit" => importer'[i] = importer[i]
  PROVE  LockIsHeld'
<1>. SUFFICES ASSUME NEW i \in Importers, importer'[i].at = "commit"
              PROVE  LET found == WithSlug(Entry(i).path.slug)
                     IN  (/\ locked = i
                          /\ importer[i].found = IF found = {} THEN 0 ELSE Min(found))'
  BY DEF LockIsHeld
<1>1. importer'[i] = importer[i]
  OBVIOUS
<1>2. Entry(i)' = Entry(i) /\ WithSlug(Entry(i).path.slug)' = WithSlug(Entry(i).path.slug)
  BY <1>1 DEF Entry, WithSlug
<1>. QED
  BY <1>1, <1>2 DEF LockIsHeld

LEMMA LockIsFree ==
  ASSUME LockIsHeld, locked = 0 PROVE \A i \in Importers : importer[i].at # "commit"
BY BundleAssumption DEF LockIsHeld

\* The part of the types that commits leave alone.
OthersTyped ==
  /\ bundle \in Seq(Entries)
  /\ importer \in [Importers -> [at : {"idle", "entry", "commit"}, entries : Seq(Entries),
                                 found : Nat]]
  /\ \A i \in Importers : importer[i].at # "idle" => importer[i].entries # <<>>
  /\ export \in [below : Nat, listed : SUBSET DocRecords] /\ IsFiniteSet(export.listed)

LEMMA CreateDocInv ==
  ASSUME BundleInv, NEW title \in Titles, NEW text \in Texts, CreateDoc(title, text)
  PROVE  BundleInv'
<1>. DEFINE said == [title |-> title, tags |-> {}, resource |-> Absent]
            body == [text |-> text, heading |-> title]
            new == Created(<<title, 1>>, said, NoBlock, body)
<1>1. /\ locked = 0 /\ Len(docs) < MaxDocs /\ docs' = Append(docs, new)
      /\ source' = Append(source, Unwritten) /\ UNCHANGED <<importer, locked, export, bundle>>
  BY DEF CreateDoc
<1>2. title \in Words /\ text \in Words /\ Absent \in Perhaps /\ title \in Perhaps
  BY BundleAssumption DEF Perhaps
<1>3. /\ said \in Sayings /\ body \in Bodies /\ NoBlock \in Blocks /\ <<title, 1>> \in Slugs
  BY <1>2 DEF Sayings, Bodies, NoBlock, Blocks, Slugs, TagSets
<1>. HIDE DEF said, body
<1>4. new \in DocRecords /\ WithSlug(new.slug) = {}
  <2>1. new \in DocRecords /\ new.slug = FreshSlug(<<title, 1>>)
    BY <1>1, <1>3, CreatedAgain DEF BundleInv
  <2>2. WithSlug(FreshSlug(<<title, 1>>)) = {}
    BY <1>1, <1>3, FreshIsFree DEF BundleInv
  <2>. QED
    BY <2>1, <2>2
<1>. HIDE DEF new
<1>5. /\ docs' \in Seq(DocRecords) /\ Len(docs') <= MaxDocs /\ Len(docs') = Len(docs) + 1
      /\ source' \in Seq(Entries \cup {Unwritten}) /\ Len(source') = Len(docs')
      /\ DocsInv'
  BY <1>1, <1>4, OneMore DEF BundleInv
<1>6. LockIsHeld'
  <2>1. \A i \in Importers : importer'[i].at # "commit"
    BY <1>1, LockIsFree DEF BundleInv
  <2>. QED
    BY <2>1 DEF LockIsHeld
<1>7. OthersTyped'
  BY <1>1 DEF BundleInv, BundleTyped, OthersTyped
<1>8. ListedIsThere'
  BY <1>1, <1>5, ListedStays DEF BundleInv
<1>. QED
  BY <1>5, <1>6, <1>7, <1>8 DEF BundleInv, BundleTyped, OthersTyped

LEMMA EditInv ==
  ASSUME BundleInv, NEW d \in 1..Len(docs), NEW title \in Titles, NEW tags \in SUBSET Tags,
         NEW resource \in Resources \cup {Absent}, NEW text \in Texts,
         Edit(d, [title |-> title, tags |-> tags, resource |-> resource], text)
  PROVE  BundleInv'
<1>. DEFINE said == [title |-> title, tags |-> tags, resource |-> resource]
            body == [BodyOf(docs[d]) EXCEPT !.text = text]
            new == Committed(docs[d], said, NoBlock, body)
<1>1. /\ locked = 0 /\ docs' = [docs EXCEPT ![d] = new]
      /\ source' = [source EXCEPT ![d] = Unwritten] /\ UNCHANGED <<importer, locked, export, bundle>>
  BY DEF Edit
<1>2. docs[d] \in DocRecords
  BY DEF BundleInv, BundleTyped
<1>3. body \in Bodies
  <2>1. docs[d].versions \in Seq(Bodies) /\ docs[d].versions # <<>>
    BY <1>2 DEF DocRecords
  <2>2. BodyOf(docs[d]) \in Bodies
    BY <2>1 DEF BodyOf
  <2>3. text \in Words
    BY BundleAssumption
  <2>. QED
    BY <2>2, <2>3 DEF Bodies
<1>4. said \in Sayings /\ NoBlock \in Blocks
  <2>1. title \in Words /\ resource \in Perhaps /\ Absent \in Perhaps
    BY BundleAssumption DEF Perhaps
  <2>2. tags \in TagSets
    BY BundleAssumption DEF TagSets
  <2>. QED
    BY <2>1, <2>2 DEF Sayings, NoBlock, Blocks, TagSets
<1>. HIDE DEF said, body
<1>5. new \in DocRecords /\ new.slug = docs[d].slug
  BY <1>2, <1>3, <1>4, CommittedAgain
<1>. HIDE DEF new
<1>6. /\ docs' \in Seq(DocRecords) /\ Len(docs') = Len(docs)
      /\ source' \in Seq(Entries \cup {Unwritten}) /\ Len(source') = Len(docs')
      /\ DocsInv'
  BY <1>1, <1>5, OneOther DEF BundleInv
<1>7. LockIsHeld'
  <2>1. \A i \in Importers : importer'[i].at # "commit"
    BY <1>1, LockIsFree DEF BundleInv
  <2>. QED
    BY <2>1 DEF LockIsHeld
<1>8. OthersTyped'
  BY <1>1 DEF BundleInv, BundleTyped, OthersTyped
<1>9. ListedIsThere'
  BY <1>1, <1>6, ListedStays DEF BundleInv
<1>. QED
  BY <1>6, <1>7, <1>8, <1>9 DEF BundleInv, BundleTyped, OthersTyped

LEMMA ArchiveInv ==
  ASSUME BundleInv, NEW d \in 1..Len(docs), Archive(d) PROVE BundleInv'
<1>. DEFINE new == [docs[d] EXCEPT !.active = FALSE]
<1>1. /\ locked = 0 /\ docs' = [docs EXCEPT ![d] = new]
      /\ UNCHANGED <<source, importer, locked, export, bundle>>
  BY DEF Archive
<1>2. docs[d] \in DocRecords /\ source[d] \in Entries \cup {Unwritten}
  BY DEF BundleInv, BundleTyped
<1>3. /\ new \in DocRecords /\ new.slug = docs[d].slug /\ new.title = docs[d].title
      /\ new.tags = docs[d].tags /\ new.resource = docs[d].resource /\ new.block = docs[d].block
      /\ new.versions = docs[d].versions
  BY <1>2 DEF DocRecords
<1>. HIDE DEF new
<1>4. source' = [source EXCEPT ![d] = source[d]]
  BY <1>1 DEF BundleInv, BundleTyped
<1>5. source[d] # Unwritten =>
        /\ Idempotent(new, Said(source[d]), source[d].block, source[d].body)
        /\ ~ReservedSlug(source[d].path.slug) => new.slug = source[d].path.slug
  BY <1>3 DEF BundleInv, DocsInv, WrittenAsSaid, OneDocumentPerConcept, Idempotent, BodyOf
<1>6. /\ docs' \in Seq(DocRecords) /\ Len(docs') = Len(docs)
      /\ source' \in Seq(Entries \cup {Unwritten}) /\ Len(source') = Len(docs')
      /\ DocsInv'
  BY <1>1, <1>2, <1>3, <1>4, <1>5, OneOther DEF BundleInv
<1>7. LockIsHeld'
  <2>1. \A i \in Importers : importer'[i].at # "commit"
    BY <1>1, LockIsFree DEF BundleInv
  <2>. QED
    BY <2>1 DEF LockIsHeld
<1>8. OthersTyped'
  BY <1>1 DEF BundleInv, BundleTyped, OthersTyped
<1>9. ListedIsThere'
  BY <1>1, <1>6, ListedStays DEF BundleInv
<1>. QED
  BY <1>6, <1>7, <1>8, <1>9 DEF BundleInv, BundleTyped, OthersTyped

\* The calls of import_bundle before they look a slug up.
LEMMA ImportSteps ==
  ASSUME BundleInv, NEW i \in Importers,
         \/ \E entries \in Upstream \cup {bundle} : StartImport(i, entries)
         \/ SkipEntry(i)
  PROVE  BundleInv'
<1>1. PICK job \in [at : {"idle", "entry"}, entries : Seq(Entries), found : Nat] :
        /\ importer' = [importer EXCEPT ![i] = job]
        /\ job.at # "idle" => job.entries # <<>>
  <2>1. ASSUME NEW entries \in Upstream \cup {bundle}, StartImport(i, entries)
        PROVE  \E job \in [at : {"idle", "entry"}, entries : Seq(Entries), found : Nat] :
                 /\ importer' = [importer EXCEPT ![i] = job]
                 /\ job.at # "idle" => job.entries # <<>>
    <3>. DEFINE job == [at |-> "entry", entries |-> entries, found |-> 0]
    <3>1. importer' = [importer EXCEPT ![i] = job] /\ entries # <<>>
      BY <2>1 DEF StartImport
    <3>2. entries \in Seq(Entries)
      BY BundleAssumption DEF BundleInv, BundleTyped
    <3>3. job \in [at : {"idle", "entry"}, entries : Seq(Entries), found : Nat]
          /\ job.entries = entries
      BY <3>2
    <3>. HIDE DEF job
    <3>. QED
      BY <3>1, <3>3
  <2>2. CASE SkipEntry(i)
    <3>. DEFINE job == NextEntry(i, importer[i])
    <3>1. importer[i].at = "entry" /\ importer' = [importer EXCEPT ![i] = job]
      BY <2>2 DEF SkipEntry
    <3>2. /\ job \in [at : {"idle", "entry"}, entries : Seq(Entries), found : Nat]
          /\ job.at # "idle" => job.entries # <<>>
      BY <3>1, NextJob DEF BundleInv
    <3>. HIDE DEF job
    <3>. QED
      BY <3>1, <3>2
  <2>. QED
    BY <2>1, <2>2
<1>2. UNCHANGED <<docs, source, locked, export, bundle>>
  BY DEF StartImport, SkipEntry
<1>3. /\ importer' \in [Importers -> [at : {"idle", "entry", "commit"}, entries : Seq(Entries),
                                      found : Nat]]
      /\ importer'[i] = job /\ \A j \in Importers : j # i => importer'[j] = importer[j]
  BY <1>1 DEF BundleInv, BundleTyped
<1>4. BundleTyped'
  BY <1>1, <1>2, <1>3 DEF BundleInv, BundleTyped
<1>5. LockIsHeld'
  <2>1. \A j \in Importers : importer'[j].at = "commit" => importer'[j] = importer[j]
    BY <1>1, <1>3
  <2>. QED
    BY <1>2, <2>1, LockStays DEF BundleInv
<1>6. DocsInv'
  BY <1>2 DEF BundleInv, DocsInv, SlugsAreUnique, WrittenAsSaid, OneDocumentPerConcept, Idempotent,
     BodyOf, Said, TitleOf, ReservedSlug
<1>7. ListedIsThere'
  BY <1>2, ListedStays DEF BundleInv
<1>. QED
  BY <1>4, <1>5, <1>6, <1>7 DEF BundleInv

\* The slugs are unique, so a lookup finds the document or there is none.
LEMMA FoundIsThere ==
  ASSUME BundleTyped, NEW slug, WithSlug(slug) # {}
  PROVE  Min(WithSlug(slug)) \in 1..Len(docs) /\ docs[Min(WithSlug(slug))].slug = slug
<1>1. WithSlug(slug) \in SUBSET Nat
  BY DEF WithSlug
<1>2. Min(WithSlug(slug)) \in WithSlug(slug)
  BY <1>1, Least
<1>. QED
  BY <1>2 DEF WithSlug

LEMMA LookUpSlugInv ==
  ASSUME BundleInv, NEW i \in Importers, LookUpSlug(i) PROVE BundleInv'
<1>. DEFINE found == WithSlug(Entry(i).path.slug)
            n == IF found = {} THEN 0 ELSE Min(found)
<1>1. /\ importer[i].at = "entry" /\ locked = 0 /\ locked' = i
      /\ importer' = [importer EXCEPT ![i].at = "commit", ![i].found = n]
      /\ UNCHANGED <<docs, source, export, bundle>>
  BY DEF LookUpSlug, LockFree
<1>2. n \in Nat
  BY FoundIsThere DEF BundleInv
<1>. HIDE DEF n
<1>3. importer[i] \in [at : {"idle", "entry", "commit"}, entries : Seq(Entries), found : Nat]
      /\ importer[i].entries # <<>>
  BY <1>1 DEF BundleInv, BundleTyped
<1>4. /\ importer'[i] = [importer[i] EXCEPT !.at = "commit", !.found = n]
      /\ \A j \in Importers : j # i => importer'[j] = importer[j]
  BY <1>1 DEF BundleInv, BundleTyped
<1>5. /\ importer'[i].at = "commit" /\ importer'[i].found = n
      /\ importer'[i].entries = importer[i].entries
  BY <1>3, <1>4
<1>6. importer' \in [Importers -> [at : {"idle", "entry", "commit"}, entries : Seq(Entries),
                                   found : Nat]]
  BY <1>1, <1>2, <1>3 DEF BundleInv, BundleTyped
<1>7. BundleTyped'
  BY <1>1, <1>3, <1>4, <1>5, <1>6 DEF BundleInv, BundleTyped
<1>8. LockIsHeld'
  <2>1. \A j \in Importers : importer'[j].at = "commit" => j = i
    BY <1>1, <1>4, LockIsFree DEF BundleInv
  <2>2. Entry(i)' = Entry(i) /\ WithSlug(Entry(i).path.slug)' = found
    BY <1>1, <1>5 DEF Entry, WithSlug
  <2>. QED
    BY <1>1, <1>5, <2>1, <2>2 DEF LockIsHeld, n
<1>9. DocsInv'
  BY <1>1 DEF BundleInv, DocsInv, SlugsAreUnique, WrittenAsSaid, OneDocumentPerConcept, Idempotent,
     BodyOf, Said, TitleOf, ReservedSlug
<1>10. ListedIsThere'
  BY <1>1, ListedStays DEF BundleInv
<1>. QED
  BY <1>7, <1>8, <1>9, <1>10 DEF BundleInv

\* What the commit of an entry finds is still so.
LEMMA CommitEntryInv ==
  ASSUME BundleInv, NEW i \in Importers, CommitEntry(i) PROVE BundleInv'
<1>. DEFINE e == Entry(i)
            said == Said(e)
            d == importer[i].found
            job == NextEntry(i, importer[i])
<1>1. /\ importer[i].at = "commit" /\ importer' = [importer EXCEPT ![i] = job] /\ locked' = 0
      /\ UNCHANGED <<export, bundle>>
  BY DEF CommitEntry
<1>2. /\ e \in Entries /\ job \in [at : {"idle", "entry"}, entries : Seq(Entries), found : Nat]
      /\ job.at # "idle" => job.entries # <<>>
  BY <1>1, NextJob DEF BundleInv
<1>3. /\ d # 0 => d \in 1..Len(docs) /\ docs[d].slug = e.path.slug
      /\ d = 0 => WithSlug(e.path.slug) = {}
  <2>1. importer[i].found = IF WithSlug(e.path.slug) = {} THEN 0 ELSE Min(WithSlug(e.path.slug))
    BY <1>1 DEF BundleInv, LockIsHeld
  <2>2. CASE WithSlug(e.path.slug) = {}
    BY <2>1, <2>2
  <2>3. CASE WithSlug(e.path.slug) # {}
    <3>1. d \in 1..Len(docs) /\ docs[d].slug = e.path.slug
      BY <2>1, <2>3, FoundIsThere DEF BundleInv
    <3>2. d # 0
      BY <3>1
    <3>. QED
      BY <3>1, <3>2
  <2>. QED
    BY <2>2, <2>3
<1>4. said \in Sayings /\ e.block \in Blocks /\ e.body \in Bodies /\ e.path.slug \in Slugs
  BY <1>2, SaidTyped DEF Entries
<1>5. \/ /\ d = 0 /\ Len(docs) < MaxDocs
         /\ docs' = Append(docs, Created(e.path.slug, said, e.block, e.body))
         /\ source' = Append(source, e)
      \/ /\ d # 0 /\ docs[d].active
         /\ docs' = IF Idempotent(docs[d], said, e.block, e.body) THEN docs
                    ELSE [docs EXCEPT ![d] = Committed(docs[d], said, e.block, e.body)]
         /\ source' = [source EXCEPT ![d] = e]
      \/ UNCHANGED <<docs, source>>
  BY DEF CommitEntry
<1>. HIDE DEF e, said, d, job
<1>6. /\ importer' \in [Importers -> [at : {"idle", "entry", "commit"}, entries : Seq(Entries),
                                      found : Nat]]
      /\ importer'[i] = job /\ \A j \in Importers : j # i => importer'[j] = importer[j]
  BY <1>1, <1>2 DEF BundleInv, BundleTyped
<1>7. OthersTyped'
  BY <1>1, <1>2, <1>6 DEF BundleInv, BundleTyped, OthersTyped
<1>8. LockIsHeld'
  <2>1. \A j \in Importers : importer'[j].at # "commit"
    BY <1>1, <1>2, <1>6 DEF BundleInv, LockIsHeld
  <2>. QED
    BY <2>1 DEF LockIsHeld
<1>9. /\ docs' \in Seq(DocRecords) /\ Len(docs') <= MaxDocs
      /\ Len(docs') \in {Len(docs), Len(docs) + 1}
      /\ source' \in Seq(Entries \cup {Unwritten}) /\ Len(source') = Len(docs')
      /\ DocsInv'
  <2>1. CASE /\ d = 0 /\ Len(docs) < MaxDocs
             /\ docs' = Append(docs, Created(e.path.slug, said, e.block, e.body))
             /\ source' = Append(source, e)
    <3>. DEFINE new == Created(e.path.slug, said, e.block, e.body)
    <3>1. /\ new \in DocRecords /\ new.slug = FreshSlug(e.path.slug)
          /\ Idempotent(new, said, e.block, e.body)
      BY <1>4, <2>1, CreatedAgain DEF BundleInv
    <3>2. /\ WithSlug(FreshSlug(e.path.slug)) = {}
          /\ ~ReservedSlug(e.path.slug) => FreshSlug(e.path.slug) = e.path.slug
      BY <1>3, <1>4, <2>1, FreshIsFree DEF BundleInv
    <3>. HIDE DEF new
    <3>3. docs' = Append(docs, new) /\ WithSlug(new.slug) = {}
      BY <2>1, <3>1, <3>2 DEF new
    <3>4. /\ Idempotent(new, Said(e), e.block, e.body)
          /\ ~ReservedSlug(e.path.slug) => new.slug = e.path.slug
      BY <3>1, <3>2 DEF said
    <3>. QED
      BY <1>2, <2>1, <3>1, <3>3, <3>4, OneMore DEF BundleInv
  <2>2. CASE /\ d # 0
             /\ docs' = IF Idempotent(docs[d], said, e.block, e.body) THEN docs
                        ELSE [docs EXCEPT ![d] = Committed(docs[d], said, e.block, e.body)]
             /\ source' = [source EXCEPT ![d] = e]
    <3>1. d \in 1..Len(docs) /\ docs[d] \in DocRecords /\ docs[d].slug = e.path.slug
      BY <1>3, <2>2 DEF BundleInv, BundleTyped
    <3>2. PICK new \in DocRecords : /\ docs' = [docs EXCEPT ![d] = new]
                                    /\ new.slug = docs[d].slug
                                    /\ Idempotent(new, said, e.block, e.body)
      <4>1. CASE Idempotent(docs[d], said, e.block, e.body)
        <5>1. docs' = [docs EXCEPT ![d] = docs[d]]
          BY <2>2, <4>1 DEF BundleInv, BundleTyped
        <5>. QED
          BY <3>1, <4>1, <5>1
      <4>2. CASE ~Idempotent(docs[d], said, e.block, e.body)
        BY <1>4, <2>2, <3>1, <4>2, CommittedAgain
      <4>. QED
        BY <4>1, <4>2
    <3>3. /\ Idempotent(new, Said(e), e.block, e.body)
          /\ ~ReservedSlug(e.path.slug) => new.slug = e.path.slug
      BY <3>1, <3>2 DEF said
    <3>4. /\ docs' \in Seq(DocRecords) /\ Len(docs') = Len(docs)
          /\ source' \in Seq(Entries \cup {Unwritten}) /\ Len(source') = Len(docs')
          /\ DocsInv'
      BY <1>2, <2>2, <3>1, <3>2, <3>3, OneOther DEF BundleInv
    <3>. QED
      BY <3>4 DEF BundleInv, BundleTyped
  <2>3. CASE UNCHANGED <<docs, source>>
    BY <2>3 DEF BundleInv, BundleTyped, DocsInv, SlugsAreUnique, WrittenAsSaid,
       OneDocumentPerConcept, Idempotent, BodyOf, Said, TitleOf, ReservedSlug
  <2>. QED
    BY <1>5, <2>1, <2>2, <2>3
<1>10. ListedIsThere'
  BY <1>1, <1>9, ListedStays DEF BundleInv
<1>. QED
  BY <1>7, <1>8, <1>9, <1>10 DEF BundleInv, BundleTyped, OthersTyped

\* The entries of a finite set, in some order.
LEMMA InSomeOrder ==
  ASSUME NEW T, NEW S \in SUBSET T, IsFiniteSet(S) PROVE SetToSeq(S) \in Seq(T)
<1>. DEFINE n == Cardinality(S)
<1>1. n \in Nat /\ \E f \in Bijection(1..n, S) : TRUE
  BY FS_CardinalityType DEF ExistsBijection
<1>2. \E f \in [1..n -> S] : IsInjective(f)
  BY <1>1 DEF Bijection, Injection
<1>3. SetToSeq(S) \in [1..n -> S]
  BY <1>2 DEF SetToSeq
<1>. HIDE DEF n
<1>4. SetToSeq(S) \in [1..n -> T]
  BY <1>3
<1>. QED
  BY <1>1, <1>4, SeqDef

LEMMA ExportSteps ==
  ASSUME BundleInv, StartExport \/ ListPage \/ FinishExport PROVE BundleInv'
<1>1. UNCHANGED <<docs, importer, locked, source>>
  BY DEF StartExport, ListPage, FinishExport
<1>2. /\ export \in [below : Nat, listed : SUBSET DocRecords] /\ IsFiniteSet(export.listed)
      /\ bundle \in Seq(Entries) /\ docs \in Seq(DocRecords)
  BY DEF BundleInv, BundleTyped
<1>3. LockIsHeld'
  BY <1>1, LockStays DEF BundleInv
<1>4. DocsInv'
  BY <1>1 DEF BundleInv, DocsInv, SlugsAreUnique, WrittenAsSaid, OneDocumentPerConcept, Idempotent,
     BodyOf, Said, TitleOf, ReservedSlug
<1>5. /\ export' \in [below : Nat, listed : SUBSET DocRecords] /\ IsFiniteSet(export'.listed)
      /\ bundle' \in Seq(Entries) /\ export'.below <= Len(docs) + 1
  <2>1. CASE StartExport
    <3>1. export' = [below |-> Len(docs) + 1, listed |-> {}] /\ bundle' = bundle
      BY <2>1 DEF StartExport
    <3>. QED
      BY <1>2, <3>1, FS_EmptySet
  <2>2. CASE ListPage
    <3>. DEFINE open == {d \in 1..(export.below - 1) : docs[d].active}
                top == {d \in open : Cardinality({x \in open : x > d}) < PageSize}
                more == {docs[d] : d \in top}
                low == IF Cardinality(top) < PageSize THEN 1 ELSE Min(top)
                f == [d \in top |-> docs[d]]
    <3>1. /\ export' = [below |-> low, listed |-> export.listed \cup more]
          /\ bundle' = bundle /\ export.below > 1
      BY <2>2 DEF ListPage
    <3>2. export.below \in Nat /\ Len(docs) \in Nat /\ export.below <= Len(docs) + 1
      BY <1>2 DEF BundleInv, ListedIsThere
    <3>3. \A d \in top : d \in 1..Len(docs) /\ d < export.below
      BY <3>2
    <3>4. IsFiniteSet(top)
      <4>1. top \in SUBSET (1..Len(docs))
        BY <3>3
      <4>2. IsFiniteSet(1..Len(docs))
        BY <3>2, FS_Interval
      <4>. HIDE DEF top
      <4>. QED
        BY <4>1, <4>2, FS_Subset
    <3>5. more \in SUBSET DocRecords
      <4>. HIDE DEF top
      <4>. QED
        BY <1>2, <3>3
    <3>6. IsFiniteSet(more)
      <4>1. f \in [top -> more] /\ \A t \in more : \E d \in top : f[d] = t
        OBVIOUS
      <4>. HIDE DEF f, more, top
      <4>2. f \in Surjection(top, more)
        BY <4>1 DEF Surjection
      <4>. QED
        BY <3>4, <4>2, FS_Surjection
    <3>. HIDE DEF top, more
    <3>7. low \in Nat /\ low <= export.below
      <4>1. CASE Cardinality(top) < PageSize
        BY <3>1, <3>2, <4>1
      <4>2. CASE ~(Cardinality(top) < PageSize)
        <5>1. top # {} /\ top \in SUBSET Nat
          <6>1. top = {} => Cardinality(top) = 0
            BY FS_EmptySet
          <6>. QED
            BY <3>3, <4>2, <6>1, BundleAssumption
        <5>2. Min(top) \in top
          BY <5>1, Least
        <5>3. low = Min(top)
          BY <4>2
        <5>4. Min(top) \in Nat /\ Min(top) < export.below
          BY <3>3, <5>1, <5>2
        <5>. QED
          BY <3>2, <5>3, <5>4
      <4>. QED
        BY <4>1, <4>2
    <3>. HIDE DEF low
    <3>8. IsFiniteSet(export.listed \cup more)
      BY <1>2, <3>6, FS_Union
    <3>. QED
      BY <1>2, <3>1, <3>2, <3>5, <3>7, <3>8
  <2>3. CASE FinishExport
    <3>. DEFINE files == {Rendered(doc) : doc \in export.listed}
                f == [doc \in export.listed |-> Rendered(doc)]
    <3>1. export' = [below |-> 0, listed |-> {}] /\ bundle' = SetToSeq(files)
      BY <2>3 DEF FinishExport, NoExport
    <3>2. files \in SUBSET Entries
      BY <1>2, RenderedTyped
    <3>3. f \in Surjection(export.listed, files)
      <4>1. f \in [export.listed -> files] /\ \A t \in files : \E doc \in export.listed : f[doc] = t
        OBVIOUS
      <4>. HIDE DEF f, files
      <4>. QED
        BY <4>1 DEF Surjection
    <3>. HIDE DEF f, files
    <3>4. IsFiniteSet(files)
      BY <1>2, <3>3, FS_Surjection
    <3>. QED
      BY <3>1, <3>2, <3>4, InSomeOrder, FS_EmptySet
  <2>. QED
    BY <2>1, <2>2, <2>3
<1>. QED
  BY <1>1, <1>3, <1>4, <1>5 DEF BundleInv, BundleTyped, ListedIsThere

LEMMA BundleInductive == BundleInv /\ [BundleNext]_bundleVars => BundleInv'
<1>. SUFFICES ASSUME BundleInv, [BundleNext]_bundleVars PROVE BundleInv'
  OBVIOUS
<1>1. CASE UNCHANGED bundleVars
  <2>1. UNCHANGED <<docs, source, importer, locked, export, bundle>>
    BY <1>1 DEF bundleVars
  <2>2. LockIsHeld' /\ ListedIsThere'
    BY <2>1, LockStays, ListedStays DEF BundleInv
  <2>3. DocsInv'
    BY <2>1 DEF BundleInv, DocsInv, SlugsAreUnique, WrittenAsSaid, OneDocumentPerConcept, Idempotent,
       BodyOf, Said, TitleOf, ReservedSlug
  <2>. QED
    BY <2>1, <2>2, <2>3 DEF BundleInv, BundleTyped
<1>2. ASSUME NEW title \in Titles, NEW text \in Texts, CreateDoc(title, text) PROVE BundleInv'
  BY <1>2, CreateDocInv
<1>3. ASSUME NEW d \in 1..Len(docs), Archive(d) PROVE BundleInv'
  BY <1>3, ArchiveInv
<1>4. ASSUME NEW d \in 1..Len(docs), NEW title \in Titles, NEW tags \in SUBSET Tags,
             NEW resource \in Resources \cup {Absent}, NEW text \in Texts,
             Edit(d, [title |-> title, tags |-> tags, resource |-> resource], text)
      PROVE  BundleInv'
  BY <1>4, EditInv
<1>5. ASSUME NEW i \in Importers,
             \/ \E entries \in Upstream \cup {bundle} : StartImport(i, entries)
             \/ SkipEntry(i)
      PROVE  BundleInv'
  BY <1>5, ImportSteps
<1>6. ASSUME NEW i \in Importers, LookUpSlug(i) \/ CommitEntry(i) PROVE BundleInv'
  BY <1>6, LookUpSlugInv, CommitEntryInv
<1>7. CASE StartExport \/ ListPage \/ FinishExport
  BY <1>7, ExportSteps
<1>. QED
  BY <1>1, <1>2, <1>3, <1>4, <1>5, <1>6, <1>7 DEF BundleNext

LEMMA BundleAlways == BundleSpec => []BundleInv
<1>1. BundleInit => BundleInv
  <2>. SUFFICES ASSUME BundleInit PROVE BundleInv
    OBVIOUS
  <2>1. \A S : <<>> \in Seq(S) /\ Len(<<>>) = 0
    BY EmptySeq
  <2>2. /\ docs = <<>> /\ source = <<>> /\ bundle = <<>> /\ Len(docs) = 0 /\ Len(source) = 0
        /\ importer = [i \in Importers |-> NoImport] /\ export = [below |-> 0, listed |-> {}]
    BY <2>1 DEF BundleInit, NoExport
  <2>3. BundleTyped
    BY <2>1, <2>2, FS_EmptySet, BundleAssumption DEF BundleTyped, NoImport
  <2>4. LockIsHeld
    BY <2>2 DEF LockIsHeld, NoImport
  <2>5. DocsInv /\ ListedIsThere
    BY <2>2 DEF DocsInv, ListedIsThere, SlugsAreUnique, WrittenAsSaid, OneDocumentPerConcept
  <2>. QED
    BY <2>3, <2>4, <2>5 DEF BundleInv
<1>. QED
  BY <1>1, BundleInductive, PTL DEF BundleSpec

\* An entry that a document was last written from writes nothing.
LEMMA NothingWritten ==
  ASSUME BundleInv, [BundleNext]_bundleVars, NEW i \in Importers,
         importer[i].at = "commit", importer'[i] # importer[i],
         ~ReservedSlug(Entry(i).path.slug), \E d \in 1..Len(docs) : source[d] = Entry(i)
  PROVE  docs' = docs
<1>1. CommitEntry(i)
  <2>1. importer \in [Importers -> [at : {"idle", "entry", "commit"}, entries : Seq(Entries),
                                    found : Nat]]
    BY DEF BundleInv, BundleTyped
  <2>2. ASSUME NEW j \in Importers, NEW entries, StartImport(j, entries) PROVE FALSE
    BY <2>1, <2>2 DEF StartImport
  <2>3. ASSUME NEW j \in Importers, SkipEntry(j) \/ LookUpSlug(j) PROVE FALSE
    BY <2>1, <2>3 DEF SkipEntry, LookUpSlug
  <2>4. ASSUME NEW j \in Importers, CommitEntry(j) PROVE j = i
    BY <2>1, <2>4 DEF CommitEntry
  <2>5. importer' # importer
    OBVIOUS
  <2>6. \E j \in Importers :
          \/ \E entries \in Upstream \cup {bundle} : StartImport(j, entries)
          \/ SkipEntry(j) \/ LookUpSlug(j) \/ CommitEntry(j)
    BY <2>5 DEF BundleNext, CreateDoc, Archive, Edit, StartExport, ListPage, FinishExport, bundleVars
  <2>. QED
    BY <2>2, <2>3, <2>4, <2>6
<1>. DEFINE e == Entry(i)
<1>2. PICK d \in 1..Len(docs) : source[d] = e
  OBVIOUS
<1>3. e \in Entries /\ e # Unwritten
  <2>1. e \in Entries
    BY NextJob DEF BundleInv
  <2>2. DOMAIN e = {"path", "block", "body"} /\ DOMAIN Unwritten = {"slug"}
    BY <2>1 DEF Entries, Unwritten
  <2>3. "path" # "slug"
    OBVIOUS
  <2>. QED
    BY <2>1, <2>2, <2>3
<1>4. docs[d].slug = e.path.slug /\ Idempotent(docs[d], Said(e), e.block, e.body)
  BY <1>2, <1>3 DEF BundleInv, DocsInv, OneDocumentPerConcept, WrittenAsSaid
<1>5. importer[i].found = d
  <2>1. WithSlug(e.path.slug) # {}
    BY <1>4 DEF WithSlug
  <2>2. importer[i].found = Min(WithSlug(e.path.slug))
    BY <2>1 DEF BundleInv, LockIsHeld
  <2>3. Min(WithSlug(e.path.slug)) \in 1..Len(docs)
        /\ docs[Min(WithSlug(e.path.slug))].slug = e.path.slug
    BY <2>1, FoundIsThere DEF BundleInv
  <2>. QED
    BY <1>4, <2>2, <2>3 DEF BundleInv, DocsInv, SlugsAreUnique
<1>6. d # 0
  OBVIOUS
<1>. QED
  BY <1>1, <1>4, <1>5, <1>6 DEF CommitEntry

LEMMA BundlePromises == BundleSpec => []BundlesAreFaithful /\ ReimportWritesNothing
<1>1. BundleInv => BundlesAreFaithful
  BY RenderedIsTrue DEF BundleInv, BundleTyped, DocsInv, BundlesAreFaithful, ExportsTellTheTruth
<1>2. BundleInv /\ [BundleNext]_bundleVars =>
        [\A i \in Importers :
           importer[i].at = "commit" /\ importer'[i] # importer[i]
             /\ ~ReservedSlug(Entry(i).path.slug)
             /\ (\E d \in 1..Len(docs) : source[d] = Entry(i)) =>
           docs' = docs]_bundleVars
  BY NothingWritten
<1>. QED
  BY <1>1, <1>2, BundleAlways, PTL DEF BundleSpec, ReimportWritesNothing

\* Concurrent imports of a concept make one document of it, and what is exported
\* reverts nothing when it is read back, whatever users do meanwhile.
THEOREM FaithfulBundles == RequestsSpec => []BundlesAreFaithful
  BY BundlePromises, PartsFollow, PTL

\* A bundle that is imported again writes nothing; a prune meets its cap, takes
\* no more than it has to, and leaves every ledger its newest entry.
THEOREM SafeBulk == RequestsSpec => BulkOperationsAreSafe
  BY LogPromises, BundlePromises, PartsFollow, PTL DEF BulkOperationsAreSafe
=============================================================================
