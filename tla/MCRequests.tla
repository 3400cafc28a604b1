----------------------------- MODULE MCRequests -----------------------------
(* What a request meets: its authorization, the caches of recall and probe, *)
(* the chunks, bundles, citations and listings of the wiki and the pruned   *)
(* event log.  The parts share no state, so a behaviour follows one of them *)
(* and the others stand still.                                              *)
EXTENDS Access, MissCache, PrimerCache, MCChunker, MCBundle, Citations, Listing, EventLog

CONSTANTS m1, m2, v1, v2, t1, t2, t3

TokenRows(names, kinds, exps) ==
  {[name |-> n, scope |-> k[1], labels |-> k[2], exp |-> e, usage |-> 0] :
     n \in names, k \in kinds, e \in exps}

Start(k, a, t) == [keys |-> k, autoCreate |-> a, there |-> t]

\* A manager next to a visitor; two managers; two visitors of a space that may
\* have to be created first.
TheRosters ==
  { [slots |-> {m1, v1}, ids |-> {t1}, starts |-> {Start(TRUE, FALSE, TRUE)},
     rows |-> TokenRows({"n1"}, {<<"Read", Everything>>, <<"Read", Labels>>, <<"Write", Labels>>,
                            <<"Write", Everything>>, <<"All", Everything>>}, {1, LastMoment + 1})],
    [slots |-> {m1, m2}, ids |-> {t1, t2, t3}, starts |-> {Start(TRUE, FALSE, TRUE)},
     rows |-> TokenRows({"n1", "n2", "n3"}, {<<"Read", Everything>>}, {LastMoment + 1})],
    [slots |-> {v1, v2}, ids |-> {}, rows |-> {},
     starts |-> {Start(TRUE, TRUE, FALSE), Start(TRUE, TRUE, TRUE), Start(FALSE, TRUE, FALSE)}] }

VARIABLE focus

others == <<missVars, primerVars, chunkVars, bundleVars, citeVars, listVars, logVars>>

TheDocTags == <<{"x"}, {}>>
TheSections == <<"A", "A", "B">>
TheSearches ==
  { [docs |-> {}, tags |-> {}], [docs |-> {}, tags |-> {"unused"}],
    [docs |-> {1}, tags |-> {"x"}], [docs |-> {2}, tags |-> {"x"}] }

RequestsInit ==
  /\ AccessInit /\ MissInit /\ PrimerInit /\ ChunkInit /\ BundleInit /\ CiteInit
  /\ ListInit /\ LogInit
  /\ focus \in {"access", "misses", "primer", "chunks", "bundles", "citations", "lists", "log"}
  /\ focus # "access" => roster.ids = {} /\ keys /\ space.there

RequestsNext ==
  /\ UNCHANGED focus
  /\ \/ focus = "access" /\ AccessNext /\ UNCHANGED others
     \/ /\ focus = "misses" /\ MissNext
        /\ UNCHANGED <<accessVars, primerVars, chunkVars, bundleVars, citeVars, listVars, logVars>>
     \/ /\ focus = "primer" /\ PrimerNext
        /\ UNCHANGED <<accessVars, missVars, chunkVars, bundleVars, citeVars, listVars, logVars>>
     \/ /\ focus = "chunks" /\ WriteLine
        /\ UNCHANGED <<accessVars, missVars, primerVars, bundleVars, citeVars, listVars, logVars>>
     \/ /\ focus = "bundles" /\ BundleNext
        /\ UNCHANGED <<accessVars, missVars, primerVars, chunkVars, citeVars, listVars, logVars>>
     \/ /\ focus = "citations" /\ CiteNext
        /\ UNCHANGED <<accessVars, missVars, primerVars, chunkVars, bundleVars, listVars, logVars>>
     \/ /\ focus = "lists" /\ ListNext
        /\ UNCHANGED <<accessVars, missVars, primerVars, chunkVars, bundleVars, citeVars, logVars>>
     \/ /\ focus = "log" /\ LogNext
        /\ UNCHANGED <<accessVars, missVars, primerVars, chunkVars, bundleVars, citeVars, listVars>>

RequestsSpec == RequestsInit /\ [][RequestsNext]_<<accessVars, others, focus>>

\* HTTP, MCP and stdio admit the same callers to the same documents.
ChannelsAdmitAlike == focus = "access" => ChannelsAgree

\* What recall and probe are given from a cache is no older than the cache's
\* time to live allows, and a miss outlives a clear only where it raced it.
CachesAreRecent ==
  MissTypeOK /\ HiddenAtMostTTL /\ OnlyRacersOutliveAClear /\ PrimerIsRecent

\* The operations on many rows at once do no harm: a bundle that is imported
\* again writes nothing, a prune meets its cap and leaves every ledger its head.
BulkOperationsAreSafe == ReimportWritesNothing /\ LedgerSurvives /\ []PruneMeetsTheCap
=============================================================================
