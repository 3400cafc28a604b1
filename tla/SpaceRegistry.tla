--------------------------- MODULE SpaceRegistry ----------------------------
(***************************************************************************)
(* The loaded spaces of a server process: AppState in space.rs, the        *)
(* keeper that flushes and evicts them (start_background_tasks), and the   *)
(* two service tasks that end together (bin/main.rs).  An entry of the map *)
(* is a slot, and its one-time cell is the space that it opens; slots are  *)
(* reused when nothing refers to them any more.                            *)
(***************************************************************************)
EXTENDS Naturals, FiniteSets

CONSTANTS
  Ids,          \* space ids
  Requests,     \* requests under way
  Slots         \* map entries, enough of them for all that is referred to

VARIABLES
  stored,       \* what the object store holds of a space
  spaces,       \* AppState.spaces, a slot for an id
  entry,        \* the slots: cell, and what runs on the opened space
  request,      \* the requests
  keeper,       \* the background task
  server,       \* the HTTP server task
  cancelled,    \* the global cancel token
  process       \* run_service: it waits for the two tasks

registryVars == <<stored, spaces, entry, request, keeper, server, cancelled, process>>

NoSlot == [no |-> "slot"]

ASSUME SpaceRegistryAssumption ==
  /\ Ids # {} /\ IsFiniteSet(Requests)
  /\ NoSlot \notin Slots

Gone == [pc |-> "gone"]
\* cell: the OnceCell; task: a spawned task holds the space; work: a
\* processing flag of formation, maintenance or digest is up.
Fresh(id) == [id |-> id, cell |-> "empty", old |-> FALSE, task |-> "none", work |-> "none"]

Blank == Fresh(CHOOSE id \in Ids : TRUE)

RegistryInit ==
  /\ stored \in [Ids -> {"absent", "stored"}]
  /\ spaces = [id \in Ids |-> NoSlot]
  /\ entry = [s \in Slots |-> Blank]
  /\ request = [r \in Requests |-> Gone]
  /\ keeper = [pc |-> "unborn"]
  /\ server = "unborn" /\ cancelled = FALSE /\ process = "starting"

Mapped(s) == \E id \in Ids : spaces[id] = s
InPass == keeper.pc \in {"pass", "close"}
Snapshot == IF InPass THEN keeper.seen ELSE {}
HoldsEntry(r, s) == request[r].pc \in {"wait", "open", "loaded"} /\ request[r].slot = s
HoldsSpace(r, s) == request[r].pc \in {"loaded", "use"} /\ request[r].slot = s

\* Arc::strong_count of the entry and of its space.
EntryRefs(s) ==
  (IF Mapped(s) THEN 1 ELSE 0) + (IF s \in Snapshot THEN 1 ELSE 0)
    + Cardinality({r \in Requests : HoldsEntry(r, s)})
SpaceRefs(s) ==
  1 + (IF entry[s].task # "none" THEN 1 ELSE 0) + Cardinality({r \in Requests : HoldsSpace(r, s)})

Free(s) == EntryRefs(s) = 0 /\ SpaceRefs(s) = 1 /\ entry[s].work = "none"

\* Eviction keeps the write lock of the map while it closes a database.
Unlocked == keeper.pc # "close"
Alive == process # "exited"
Goto(r, state) == request' = [request EXCEPT ![r] = state]

-----------------------------------------------------------------------------
(* load_space_with                                                         *)

Arrive(r) ==
  /\ server = "serving" /\ request[r] = Gone
  /\ \E id \in Ids : Goto(r, [pc |-> "lookup", id |-> id])
  /\ UNCHANGED <<stored, spaces, entry, keeper, server, cancelled, process>>

\* The map is read under its read lock.
Lookup(r) ==
  LET id == request[r].id IN
  /\ request[r].pc = "lookup" /\ Unlocked
  /\ Goto(r, IF spaces[id] = NoSlot THEN [pc |-> "insert", id |-> id]
             ELSE [pc |-> "wait", id |-> id, slot |-> spaces[id]])
  /\ UNCHANGED <<stored, spaces, entry, keeper, server, cancelled, process>>

\* Mutant: what was inserted in between is replaced.
InsertAnyway(r) ==
  /\ request[r].pc = "insert" /\ Unlocked
  /\ \E s \in Slots :
       /\ Free(s)
       /\ spaces' = [spaces EXCEPT ![request[r].id] = s]
       /\ entry' = [entry EXCEPT ![s] = Fresh(request[r].id)]
       /\ Goto(r, [pc |-> "wait", id |-> request[r].id, slot |-> s])
  /\ UNCHANGED <<stored, keeper, server, cancelled, process>>

\* Under the write lock: somebody else may have inserted it in between.
InsertPlaceholder(r) ==
  LET id == request[r].id IN
  /\ request[r].pc = "insert" /\ Unlocked
  /\ IF spaces[id] # NoSlot
       THEN /\ Goto(r, [pc |-> "wait", id |-> id, slot |-> spaces[id]])
            /\ UNCHANGED <<spaces, entry>>
       ELSE \E s \in Slots :
              /\ Free(s)
              /\ spaces' = [spaces EXCEPT ![id] = s]
              /\ entry' = [entry EXCEPT ![s] = Fresh(id)]
              /\ Goto(r, [pc |-> "wait", id |-> id, slot |-> s])
  /\ UNCHANGED <<stored, keeper, server, cancelled, process>>

\* Mutant: those that wait for the cell wait for each other.
OpeningOrWaiting(s) == \E r \in Requests : request[r].pc \in {"wait", "open"} /\ request[r].slot = s

\* OnceCell::get_or_try_init: one initializer at a time, the others wait.
Opening(s) == \E r \in Requests : request[r].pc = "open" /\ request[r].slot = s

BeginOpen(r) ==
  LET s == request[r].slot IN
  /\ request[r].pc = "wait" /\ entry[s].cell = "empty" /\ ~Opening(s)
  /\ Goto(r, [request[r] EXCEPT !.pc = "open"])
  /\ UNCHANGED <<stored, spaces, entry, keeper, server, cancelled, process>>

TakeCell(r) ==
  /\ request[r].pc = "wait" /\ entry[request[r].slot].cell # "empty"
  /\ Goto(r, [request[r] EXCEPT !.pc = "loaded"])
  /\ UNCHANGED <<stored, spaces, entry, keeper, server, cancelled, process>>

\* Space::connect: it needs a database to be there, and starts the task that
\* sweeps, kicks the digest and resumes the formation backlog.
Connect(r) ==
  LET s == request[r].slot IN
  /\ request[r].pc = "open" /\ stored[request[r].id] # "absent"
  /\ entry' = [entry EXCEPT ![s].cell = "open", ![s].task = "boot"]
  /\ Goto(r, [request[r] EXCEPT !.pc = "loaded"])
  /\ UNCHANGED <<stored, spaces, keeper, server, cancelled, process>>

\* The open fails, or its request is dropped: the cell stays empty, and the
\* next one that waits tries again.
OpenFails(r) ==
  /\ request[r].pc = "open"
  /\ Goto(r, Gone)
  /\ UNCHANGED <<stored, spaces, entry, keeper, server, cancelled, process>>

\* touch, and the entry is let go.
Touch(r) ==
  LET s == request[r].slot IN
  /\ request[r].pc = "loaded"
  /\ entry' = [entry EXCEPT ![s].old = FALSE]
  /\ Goto(r, [pc |-> "use", id |-> request[r].id, slot |-> s])
  /\ UNCHANGED <<stored, spaces, keeper, server, cancelled, process>>

-----------------------------------------------------------------------------
(* What is done with a loaded space                                        *)

\* A request hands work to a background task before it lets the space go.
StartWork(s) ==
  /\ Alive /\ entry[s].work = "none" /\ entry[s].cell = "open"
  /\ entry[s].task # "none" \/ \E r \in Requests : request[r].pc = "use" /\ request[r].slot = s
  /\ entry' = [entry EXCEPT ![s].work = "flagged"]
  /\ UNCHANGED <<stored, spaces, request, keeper, server, cancelled, process>>

\* The flag goes down before the hook looks for the space again.
EndWork(s) ==
  /\ Alive /\ entry[s].work = "flagged"
  /\ entry' = [entry EXCEPT ![s].work = "tail"]
  /\ UNCHANGED <<stored, spaces, request, keeper, server, cancelled, process>>

\* Weak::upgrade: it succeeds while anything refers to the space.
SpaceAlive(s) == EntryRefs(s) + SpaceRefs(s) > 1
EndTail(s) ==
  /\ Alive /\ entry[s].work = "tail"
  /\ entry' = [entry EXCEPT ![s].work = "none",
                            ![s].task = IF SpaceAlive(s) /\ @ = "none" THEN "hook" ELSE @]
  /\ UNCHANGED <<stored, spaces, request, keeper, server, cancelled, process>>

EndTask(s) ==
  /\ Alive /\ entry[s].task # "none"
  /\ entry' = [entry EXCEPT ![s].task = "none"]
  /\ UNCHANGED <<stored, spaces, request, keeper, server, cancelled, process>>

Answer(r) ==
  /\ request[r].pc = "use"
  /\ Goto(r, Gone)
  /\ UNCHANGED <<stored, spaces, entry, keeper, server, cancelled, process>>

-----------------------------------------------------------------------------
(* admin_create_space                                                      *)

\* Only a space that is loaded is refused here; the rest is the database's.
BeginCreate(r) ==
  LET id == request[r].id
      s  == spaces[id]
  IN  /\ request[r].pc = "lookup" /\ Unlocked
      /\ IF (s # NoSlot /\ entry[s].cell # "empty") \/ stored[id] # "absent"
           THEN Goto(r, Gone) /\ UNCHANGED stored
           ELSE /\ stored' = [stored EXCEPT ![id] = "creating"]
                /\ Goto(r, [pc |-> "create", id |-> id])
      /\ UNCHANGED <<spaces, entry, keeper, server, cancelled, process>>

EndCreate(r) ==
  /\ request[r].pc = "create"
  /\ stored' = [stored EXCEPT ![request[r].id] = "stored"]
  /\ Goto(r, Gone)
  /\ UNCHANGED <<spaces, entry, keeper, server, cancelled, process>>

-----------------------------------------------------------------------------
(* start_background_tasks                                                  *)

\* More than the idle timeout passes since the last load.
GrowOld(s) ==
  /\ Alive /\ Mapped(s) /\ ~entry[s].old
  /\ entry' = [entry EXCEPT ![s].old = TRUE]
  /\ UNCHANGED <<stored, spaces, request, keeper, server, cancelled, process>>

mapped == {s \in Slots : Mapped(s)}

\* flush_and_evict_once: the snapshot keeps a reference to every entry; what
\* is old is judged by the time at which the pass began.
BeginPass ==
  /\ keeper.pc = "sleep" /\ ~cancelled
  /\ keeper' = [pc |-> "pass", seen |-> mapped, todo |-> mapped, victim |-> NoSlot,
                old |-> {s \in mapped : entry[s].old}]
  /\ UNCHANGED <<stored, spaces, entry, request, server, cancelled, process>>

\* Mutant: only the age counts, and the processing flags.
EvictableByAge(s) ==
  /\ Mapped(s) /\ s \in keeper.old /\ entry[s].old
  /\ entry[s].work # "flagged"

\* try_evict_idle_space, up to the close.
Evictable(s) ==
  /\ Mapped(s) /\ s \in keeper.old /\ entry[s].old
  /\ EntryRefs(s) <= 2
  /\ entry[s].cell # "empty" => entry[s].work # "flagged" /\ SpaceRefs(s) <= 1

Unmap(s) == spaces' = [id \in Ids |-> IF spaces[id] = s THEN NoSlot ELSE spaces[id]]

BeginEvict(s) ==
  /\ keeper.pc = "pass" /\ s \in keeper.todo /\ Evictable(s) /\ entry[s].cell # "empty"
  /\ keeper' = [keeper EXCEPT !.pc = "close", !.todo = @ \ {s}, !.victim = s]
  /\ entry' = [entry EXCEPT ![s].cell = "closing"]
  /\ UNCHANGED <<stored, spaces, request, server, cancelled, process>>

\* An error of the close is logged, and the entry goes all the same.
EndEvict ==
  /\ keeper.pc = "close"
  /\ entry' = [entry EXCEPT ![keeper.victim].cell = "closed"]
  /\ Unmap(keeper.victim)
  /\ keeper' = [keeper EXCEPT !.pc = "pass", !.victim = NoSlot]
  /\ UNCHANGED <<stored, request, server, cancelled, process>>

DropPlaceholder(s) ==
  /\ keeper.pc = "pass" /\ s \in keeper.todo /\ Evictable(s) /\ entry[s].cell = "empty"
  /\ Unmap(s)
  /\ keeper' = [keeper EXCEPT !.todo = @ \ {s}]
  /\ UNCHANGED <<stored, entry, request, server, cancelled, process>>

\* What stays is flushed, which changes nothing here.
KeepEntry(s) ==
  /\ keeper.pc = "pass" /\ s \in keeper.todo /\ ~Evictable(s)
  /\ keeper' = [keeper EXCEPT !.todo = @ \ {s}]
  /\ UNCHANGED <<stored, spaces, entry, request, server, cancelled, process>>

\* The references of the snapshot go; a slot that nothing refers to is blank.
EndPass ==
  /\ keeper.pc = "pass" /\ keeper.todo = {}
  /\ keeper' = [pc |-> "sleep"]
  /\ entry' = [s \in Slots |-> IF s \in keeper.seen /\ EntryRefs(s) = 1 /\ SpaceRefs(s) = 1
                                  /\ ~Mapped(s) /\ entry[s].work = "none" THEN Blank ELSE entry[s]]
  /\ UNCHANGED <<stored, spaces, request, server, cancelled, process>>

\* The token is looked at between passes only.
BeginShutdown ==
  /\ keeper.pc = "sleep" /\ cancelled
  /\ LET loaded == {s \in mapped : entry[s].cell # "empty"} IN
       /\ keeper' = [pc |-> "shutdown", closing |-> loaded, all |-> loaded]
       /\ entry' = [s \in Slots |-> IF s \in loaded THEN [entry[s] EXCEPT !.cell = "closing"]
                                                    ELSE entry[s]]
  /\ UNCHANGED <<stored, spaces, request, server, cancelled, process>>

CloseSpace(s) ==
  /\ keeper.pc = "shutdown" /\ s \in keeper.closing
  /\ entry' = [entry EXCEPT ![s].cell = "closed"]
  /\ keeper' = [keeper EXCEPT !.closing = @ \ {s}]
  /\ UNCHANGED <<stored, spaces, request, server, cancelled, process>>

\* Mutant: the closing tasks are not joined.
ShutdownAtOnce == TRUE
ShutdownDone == keeper.closing = {}
EndKeeper ==
  /\ keeper.pc = "shutdown" /\ ShutdownDone
  /\ keeper' = [pc |-> "ended", all |-> keeper.all]
  /\ UNCHANGED <<stored, spaces, entry, request, server, cancelled, process>>

-----------------------------------------------------------------------------
(* run_service                                                             *)

StartService ==
  /\ process = "starting"
  /\ process' = "waiting" /\ server' = "serving" /\ keeper' = [pc |-> "sleep"]
  /\ UNCHANGED <<stored, spaces, entry, request, cancelled>>

\* SIGTERM, Ctrl-C.
Signal ==
  /\ ~cancelled /\ server = "serving"
  /\ cancelled' = TRUE
  /\ UNCHANGED <<stored, spaces, entry, request, keeper, server, process>>

Drain ==
  /\ cancelled /\ server = "serving"
  /\ server' = "draining"
  /\ UNCHANGED <<stored, spaces, entry, request, keeper, cancelled, process>>

\* Graceful shutdown waits for the requests that are under way.
EndServer ==
  /\ server = "draining" /\ \A r \in Requests : request[r] = Gone
  /\ server' = "ended"
  /\ UNCHANGED <<stored, spaces, entry, request, keeper, cancelled, process>>

\* The accept loop errs, or either task panics.
ServerDies ==
  /\ server = "serving"
  /\ server' = "dead"
  /\ request' = [r \in Requests |-> Gone]
  /\ UNCHANGED <<stored, spaces, entry, keeper, cancelled, process>>

KeeperDies ==
  /\ keeper.pc \in {"sleep", "pass", "close"} /\ Alive
  /\ keeper' = [pc |-> "dead"]
  /\ UNCHANGED <<stored, spaces, entry, request, server, cancelled, process>>

\* join_service_tasks: the first of the two to end cancels the other.
OneEnded == server \in {"ended", "dead"} \/ keeper.pc \in {"ended", "dead"}
JoinFirst ==
  /\ process = "waiting" /\ OneEnded
  /\ process' = "joining" /\ cancelled' = TRUE
  /\ UNCHANGED <<stored, spaces, entry, request, keeper, server>>

Exit ==
  /\ process = "joining" /\ server \in {"ended", "dead"} /\ keeper.pc \in {"ended", "dead"}
  /\ process' = "exited"
  /\ UNCHANGED <<stored, spaces, entry, request, keeper, server, cancelled>>

-----------------------------------------------------------------------------
RequestStep(r) ==
  \/ Lookup(r) \/ InsertPlaceholder(r) \/ BeginOpen(r) \/ TakeCell(r)
  \/ Connect(r) \/ OpenFails(r) \/ Touch(r) \/ Answer(r) \/ EndCreate(r)
SlotStep(s) == EndWork(s) \/ EndTail(s) \/ EndTask(s)
KeeperStep ==
  \/ BeginPass \/ EndEvict \/ EndPass \/ BeginShutdown \/ EndKeeper
  \/ \E s \in Slots : BeginEvict(s) \/ DropPlaceholder(s) \/ KeepEntry(s) \/ CloseSpace(s)
ServiceStep == Drain \/ EndServer \/ JoinFirst \/ Exit

RegistryNext ==
  \/ \E r \in Requests : Arrive(r) \/ BeginCreate(r) \/ RequestStep(r)
  \/ \E s \in Slots : StartWork(s) \/ GrowOld(s) \/ SlotStep(s)
  \/ KeeperStep \/ StartService \/ ServiceStep \/ Signal \/ ServerDies \/ KeeperDies

\* The lock of the map and the queue of a cell are first come, first served,
\* and the runtime runs every task.
Queued(r) == Lookup(r) \/ InsertPlaceholder(r) \/ BeginOpen(r)
RegistryFairness ==
  /\ \A r \in Requests : WF_registryVars(RequestStep(r)) /\ SF_registryVars(Queued(r))
  /\ \A s \in Slots : WF_registryVars(SlotStep(s)) /\ WF_registryVars(GrowOld(s))
  /\ WF_registryVars(KeeperStep) /\ WF_registryVars(ServiceStep)

RegistrySpec == RegistryInit /\ [][RegistryNext]_registryVars /\ RegistryFairness

-----------------------------------------------------------------------------
(* Properties                                                              *)

RegistryTypeOK ==
  /\ stored \in [Ids -> {"absent", "creating", "stored"}]
  /\ \A id \in Ids : spaces[id] = NoSlot \/ (spaces[id] \in Slots /\ entry[spaces[id]].id = id)
  /\ \A s \in Slots : /\ entry[s].cell \in {"empty", "open", "closing", "closed"}
                      /\ entry[s].task \in {"none", "boot", "hook"}
                      /\ entry[s].work \in {"none", "flagged", "tail"}
                      /\ entry[s].cell = "closing" => Mapped(s)
  /\ server \in {"unborn", "serving", "draining", "ended", "dead"}

\* space.rs:623: whatever loads, failures and evictions overlap, no two loads
\* have the same storage open at a time.
OneOpenDatabase ==
  \A s, t \in Slots :
    s # t /\ entry[s].id = entry[t].id
      => ~(\A u \in {s, t} : Opening(u) \/ entry[u].cell \in {"open", "closing"})

\* Eviction closes no space that a request holds, that a task holds, or that
\* a processing flag speaks for.
EvictionSparesUsers ==
  keeper.pc = "close" =>
    LET s == keeper.victim IN
    /\ \A r \in Requests : ~HoldsEntry(r, s) /\ ~HoldsSpace(r, s)
    /\ entry[s].task \in {"none", "hook"} /\ entry[s].work # "flagged"

\* A process that ends in order has closed every space that was loaded when
\* its keeper began to shut down.
OrderlyExitCloses ==
  process = "exited" /\ keeper.pc = "ended" => \A s \in keeper.all : entry[s].cell = "closed"

\* bin/main.rs:922: neither service task outlives the other.
EndsTogether == OneEnded ~> process = "exited"

\* Placeholders of spaces that could not be opened, and idle spaces, leave
\* the map once nobody asks for them.
Deserted(id) ==
  /\ spaces[id] # NoSlot
  /\ \A r \in Requests : request[r].pc = "gone" \/ request[r].id # id
  /\ entry[spaces[id]].task = "none" /\ entry[spaces[id]].work = "none"
IdleEntriesGo == \A id \in Ids : []<>(~Deserted(id) \/ cancelled \/ keeper.pc = "dead")

\* A load ends, however many of those before it in the queue have failed.
LoadsEnd == \A r \in Requests : request[r].pc \in {"lookup", "insert", "wait", "open"}
                                  ~> request[r].pc \in {"use", "gone"}

\* A space leaves the map closed, in every pass of the keeper and at the end.
ClosesInOrder == RegistryTypeOK /\ OrderlyExitCloses
=============================================================================
