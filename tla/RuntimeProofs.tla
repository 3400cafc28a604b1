---------------------------- MODULE RuntimeProofs ---------------------------
(***************************************************************************)
(* What lives in the server process keeps its promises, for any number of  *)
(* spaces, requests and map entries, any limit of turns, any throttle of   *)
(* the snapshots and any number of conversations and restarts.             *)
(*   OneDatabase     two loads never have the same storage open;           *)
(*   SparesUsers     eviction closes no space that somebody uses;          *)
(*   ClosedAtTheEnd  an orderly end has closed what was loaded;            *)
(*   SoundRuns       what a conversation of an agent leaves behind is      *)
(*                   sound.                                                *)
(* Eviction decides by reference counts.  RegistryInv says what the counts *)
(* stand for: whoever holds an entry holds the one that the map has for    *)
(* its id (HoldersOK), an open database belongs to a mapped entry          *)
(* (CellsOK), and while eviction or shutdown closes a space, nobody can    *)
(* come to hold it (KeeperOK).                                             *)
(*                                                                         *)
(* RunsAreSound says of a loop under way only that its transcript is whole *)
(* between two iterations.  RunnerInv adds what the loop's locals stand    *)
(* for at every label:                                                     *)
(*   CountOK  the turns counted are the turns taken, also across           *)
(*            compactions, so that the guard bounds them;                  *)
(*   SaidOK   what the runner has said and is not yet recorded follows     *)
(*            exactly on what is recorded;                                 *)
(*   UsageOK  the usage is with the runner while it goes on, and with the  *)
(*            conversation when it has ended;                              *)
(*   StoreOK  the store has the conversation unless a snapshot is due;     *)
(*   ContextOK  the ring holds completed conversations, oldest first, and  *)
(*            the one at hand only once it has completed.                  *)
(***************************************************************************)
EXTENDS SpaceRegistry, RunnerLoop, FiniteSetTheorems, SequenceTheorems, WellFoundedInduction, TLAPS
-----------------------------------------------------------------------------
(* The registry                                                            *)

Holding == {"wait", "open", "loaded"}

Entry == [id : Ids, cell : {"empty", "open", "closing", "closed"}, old : BOOLEAN,
          task : {"none", "boot", "hook"}, work : {"none", "flagged", "tail"}]
Asking == [pc : {"lookup", "insert", "create"}, id : Ids]
Served == [pc : Holding \cup {"use"}, id : Ids, slot : Slots]

Passing == [pc : {"pass", "close"}, seen : SUBSET Slots, todo : SUBSET Slots,
            victim : Slots \cup {NoSlot}, old : SUBSET Slots]
Closing == [pc : {"shutdown"}, closing : SUBSET Slots, all : SUBSET Slots]
Stopped == [pc : {"ended"}, all : SUBSET Slots]
Resting == [pc : {"unborn", "sleep", "dead"}]

StatesOK ==
  /\ stored \in [Ids -> {"absent", "creating", "stored"}]
  /\ spaces \in [Ids -> Slots \cup {NoSlot}]
  /\ entry \in [Slots -> Entry]
  /\ request \in [Requests -> {Gone} \cup Asking \cup Served]
  /\ keeper \in Resting \cup Passing \cup Closing \cup Stopped
  /\ server \in {"unborn", "serving", "draining", "ended", "dead"}

\* An entry is mapped under its own id, and whoever holds an entry holds the
\* one in the map.
HoldersOK ==
  /\ \A id \in Ids : spaces[id] # NoSlot => entry[spaces[id]].id = id
  /\ \A r \in Requests : request[r].pc \in Holding => spaces[request[r].id] = request[r].slot

\* A database that is open has its entry in the map; one initializer at a time
\* works on an empty cell.
CellsOK ==
  /\ \A s \in Slots : entry[s].cell \in {"open", "closing"} => spaces[entry[s].id] = s
  /\ \A r \in Requests : request[r].pc = "open" => entry[request[r].slot].cell = "empty"
  /\ \A q, r \in Requests :
       request[q].pc = "open" /\ request[r].pc = "open" /\ request[q].slot = request[r].slot => q = r

\* Nobody holds what is being closed.
Deserving(s) ==
  /\ s \in Slots /\ Mapped(s) /\ entry[s].cell = "closing"
  /\ \A r \in Requests : ~HoldsEntry(r, s) /\ ~HoldsSpace(r, s)
  /\ entry[s].task \in {"none", "hook"} /\ entry[s].work # "flagged"

KeeperOK ==
  /\ keeper \in Passing => keeper.todo \subseteq keeper.seen
  /\ keeper.pc = "close" => Deserving(keeper.victim)
  /\ keeper.pc \in {"shutdown", "ended"} =>
       \A s \in keeper.all : Mapped(s) /\ entry[s].cell \in {"closing", "closed"}
  /\ keeper.pc = "shutdown" =>
       /\ keeper.closing \subseteq keeper.all
       /\ \A s \in keeper.all \ keeper.closing : entry[s].cell = "closed"
  /\ keeper.pc = "ended" => \A s \in keeper.all : entry[s].cell = "closed"

\* The inductive invariant.
RegistryInv == StatesOK /\ HoldersOK /\ CellsOK /\ KeeperOK

LEMMA InitRegistry == RegistryInit => RegistryInv
BY SpaceRegistryAssumption
DEF RegistryInit, RegistryInv, StatesOK, HoldersOK, CellsOK, KeeperOK, Blank, Fresh, Gone, Entry,
    Resting, Passing, Holding, Mapped

\* What the reference counts say.
LEMMA Counts ==
  ASSUME StatesOK, NEW s \in Slots
  PROVE  /\ EntryRefs(s) = 0 => ~Mapped(s) /\ \A r \in Requests : ~HoldsEntry(r, s)
         /\ EntryRefs(s) <= 2 /\ Mapped(s) /\ s \in Snapshot => \A r \in Requests : ~HoldsEntry(r, s)
         /\ SpaceRefs(s) <= 1 => entry[s].task = "none" /\ \A r \in Requests : ~HoldsSpace(r, s)
<1> DEFINE E == {r \in Requests : HoldsEntry(r, s)}
           S == {r \in Requests : HoldsSpace(r, s)}
<1>1. IsFiniteSet(E) /\ IsFiniteSet(S)
  BY SpaceRegistryAssumption, FS_Subset
<1>2. /\ Cardinality(E) \in Nat /\ (Cardinality(E) = 0 => E = {})
      /\ Cardinality(S) \in Nat /\ (Cardinality(S) = 0 => S = {})
  BY <1>1, FS_CardinalityType, FS_EmptySet
<1>3. EntryRefs(s) = (IF Mapped(s) THEN 1 ELSE 0) + (IF s \in Snapshot THEN 1 ELSE 0) + Cardinality(E)
  BY DEF EntryRefs
<1>4. SpaceRefs(s) = 1 + (IF entry[s].task # "none" THEN 1 ELSE 0) + Cardinality(S)
  BY DEF SpaceRefs
<1>5. EntryRefs(s) = 0 => ~Mapped(s) /\ E = {}
  <2> HIDE DEF E
  <2> QED  BY <1>2, <1>3
<1>6. EntryRefs(s) <= 2 /\ Mapped(s) /\ s \in Snapshot => E = {}
  <2> HIDE DEF E
  <2> QED  BY <1>2, <1>3
<1>7. SpaceRefs(s) <= 1 => entry[s].task = "none" /\ S = {}
  <2> HIDE DEF S
  <2> QED  BY <1>2, <1>4
<1> QED
  BY <1>5, <1>6, <1>7

-----------------------------------------------------------------------------
(* Loads                                                                   *)

\* A step of one request that touches neither the map nor a slot's cell.
LEMMA RequestMoves ==
  ASSUME RegistryInv, NEW r \in Requests, NEW to \in {Gone} \cup Asking \cup Served,
         request' = [request EXCEPT ![r] = to], UNCHANGED <<spaces, entry, keeper, server>>,
         stored' \in [Ids -> {"absent", "creating", "stored"}],
         to.pc \in Holding =>
           /\ spaces[to.id] = to.slot
           /\ request[r].pc \notin Holding => keeper.pc # "close",
         to.pc = "open" => entry[to.slot].cell = "empty" /\ ~Opening(to.slot),
         to.pc \in Holding \cup {"use"} /\ request[r].pc \in Holding \cup {"use"} =>
           to.slot = request[r].slot,
         to.pc = "use" => request[r].pc = "loaded"
  PROVE  RegistryInv'
<1> USE DEF RegistryInv
<1>1. StatesOK'
  BY DEF StatesOK
<1>2. HoldersOK' /\ CellsOK'
  BY DEF HoldersOK, CellsOK, StatesOK, Opening
<1>3. KeeperOK'
  <2>1. keeper.pc = "close" => Deserving(keeper.victim)'
    <3> SUFFICES ASSUME keeper.pc = "close" PROVE Deserving(keeper.victim)'
      OBVIOUS
    <3>1. Deserving(keeper.victim)
      BY DEF KeeperOK
    <3>2. ASSUME NEW q \in Requests, q # r
          PROVE  ~HoldsEntry(q, keeper.victim)' /\ ~HoldsSpace(q, keeper.victim)'
      BY <3>1, <3>2 DEF Deserving, HoldsEntry, HoldsSpace, StatesOK
    <3>3. ~HoldsEntry(r, keeper.victim)' /\ ~HoldsSpace(r, keeper.victim)'
      BY <3>1 DEF Deserving, HoldsEntry, HoldsSpace, StatesOK, Holding
    <3> QED
      BY <3>1, <3>2, <3>3 DEF Deserving, Mapped
  <2> QED
    BY <2>1 DEF KeeperOK, Mapped
<1> QED
  BY <1>1, <1>2, <1>3

LEMMA LoadsKeep ==
  ASSUME RegistryInv, NEW r \in Requests,
         \/ Arrive(r) \/ Lookup(r) \/ BeginOpen(r) \/ TakeCell(r) \/ OpenFails(r) \/ Answer(r)
         \/ BeginCreate(r) \/ EndCreate(r)
  PROVE  RegistryInv'
<1> USE DEF RegistryInv, StatesOK, Goto, Holding
<1>1. request[r] \in {Gone} \cup Asking \cup Served
  OBVIOUS
<1>2. CASE Arrive(r)
  <2>1. PICK id \in Ids : request' = [request EXCEPT ![r] = [pc |-> "lookup", id |-> id]]
    BY <1>2 DEF Arrive
  <2>2. [pc |-> "lookup", id |-> id] \in Asking
    BY DEF Asking
  <2> HIDE DEF RegistryInv
  <2> QED
    BY <1>2, <2>1, <2>2, RequestMoves DEF Arrive, RegistryInv
<1>3. CASE Lookup(r)
  <2>1. request[r] \in Asking /\ request[r].id \in Ids
    BY <1>1, <1>3 DEF Lookup, Asking, Served, Gone
  <2>2. CASE spaces[request[r].id] = NoSlot
    <3>1. [pc |-> "insert", id |-> request[r].id] \in Asking
      BY <2>1 DEF Asking
    <3> QED
      BY <1>3, <2>2, <3>1, RequestMoves DEF Lookup
  <2>3. CASE spaces[request[r].id] # NoSlot
    <3>1. [pc |-> "wait", id |-> request[r].id, slot |-> spaces[request[r].id]] \in Served
      BY <2>1, <2>3 DEF Served
    <3> QED
      BY <1>3, <2>3, <3>1, RequestMoves DEF Lookup, Unlocked
  <2> QED
    BY <2>2, <2>3
<1>4. CASE BeginOpen(r)
  <2>1. request[r] \in Served
    BY <1>1, <1>4 DEF BeginOpen, Asking, Served, Gone
  <2> DEFINE to == [request[r] EXCEPT !.pc = "open"]
  <2>2. to \in Served /\ to.pc = "open" /\ to.id = request[r].id /\ to.slot = request[r].slot
    BY <2>1 DEF Served
  <2>3. spaces[to.id] = to.slot /\ entry[to.slot].cell = "empty" /\ ~Opening(to.slot)
    BY <1>4, <2>2 DEF BeginOpen, HoldersOK
  <2> HIDE DEF to
  <2>4. request' = [request EXCEPT ![r] = to] /\ UNCHANGED <<stored, spaces, entry, keeper, server>>
    BY <1>4 DEF BeginOpen, to
  <2> QED
    <3>1. request[r].pc = "wait"
      BY <1>4 DEF BeginOpen
    <3> QED
      BY <2>2, <2>3, <2>4, <3>1, RequestMoves
<1>5. CASE TakeCell(r)
  <2>1. request[r] \in Served
    BY <1>1, <1>5 DEF TakeCell, Asking, Served, Gone
  <2> DEFINE to == [request[r] EXCEPT !.pc = "loaded"]
  <2>2. to \in Served /\ to.pc = "loaded" /\ to.id = request[r].id /\ to.slot = request[r].slot
    BY <2>1 DEF Served
  <2>3. spaces[to.id] = to.slot
    BY <1>5, <2>2 DEF TakeCell, HoldersOK
  <2> HIDE DEF to
  <2>4. request' = [request EXCEPT ![r] = to] /\ UNCHANGED <<stored, spaces, entry, keeper, server>>
    BY <1>5 DEF TakeCell, to
  <2> QED
    <3>1. request[r].pc = "wait"
      BY <1>5 DEF TakeCell
    <3> QED
      BY <2>2, <2>3, <2>4, <3>1, RequestMoves
<1>6. CASE OpenFails(r) \/ Answer(r) \/ EndCreate(r)
  <2>1. stored' \in [Ids -> {"absent", "creating", "stored"}]
    BY <1>6 DEF OpenFails, Answer, EndCreate
  <2>2. Gone.pc = "gone"
    BY DEF Gone
  <2> QED
    BY <1>6, <2>1, <2>2, RequestMoves DEF OpenFails, Answer, EndCreate
<1>7. CASE BeginCreate(r)
  <2>1. request[r] \in Asking /\ request[r].id \in Ids
    BY <1>1, <1>7 DEF BeginCreate, Asking, Served, Gone
  <2>2. stored' \in [Ids -> {"absent", "creating", "stored"}]
    BY <1>7 DEF BeginCreate
  <2>3. [pc |-> "create", id |-> request[r].id] \in Asking /\ Gone.pc = "gone"
    BY <2>1 DEF Asking, Gone
  <2> QED
    BY <1>7, <2>2, <2>3, RequestMoves DEF BeginCreate
<1> QED
  BY <1>2, <1>3, <1>4, <1>5, <1>6, <1>7

\* A placeholder takes a slot that nothing refers to.
LEMMA InsertKeeps ==
  ASSUME RegistryInv, NEW r \in Requests, InsertPlaceholder(r)
  PROVE  RegistryInv'
<1> USE DEF RegistryInv, Goto
<1>1. request[r] \in Asking /\ request[r].id \in Ids
  BY DEF InsertPlaceholder, StatesOK, Asking, Served, Gone, Holding
<1> DEFINE id == request[r].id
<1>2. CASE spaces[id] # NoSlot
  <2>1. [pc |-> "wait", id |-> id, slot |-> spaces[id]] \in Served
    BY <1>1, <1>2 DEF Served, Holding, StatesOK
  <2>2. /\ request' = [request EXCEPT ![r] = [pc |-> "wait", id |-> id, slot |-> spaces[id]]]
        /\ UNCHANGED <<stored, spaces, entry, keeper, server>>
    BY <1>2 DEF InsertPlaceholder
  <2>3. keeper.pc # "close" /\ request[r].pc = "insert"
    BY DEF InsertPlaceholder, Unlocked
  <2> QED
    BY <1>2, <2>1, <2>2, <2>3, RequestMoves DEF StatesOK, Holding
<1>3. CASE spaces[id] = NoSlot
  <2>1. PICK s \in Slots :
          /\ Free(s)
          /\ spaces' = [spaces EXCEPT ![id] = s]
          /\ entry' = [entry EXCEPT ![s] = Fresh(id)]
          /\ request' = [request EXCEPT ![r] = [pc |-> "wait", id |-> id, slot |-> s]]
    BY <1>3 DEF InsertPlaceholder
  <2>2. UNCHANGED <<stored, keeper, server>> /\ keeper.pc # "close"
    BY DEF InsertPlaceholder, Unlocked
  <2>3. ~Mapped(s) /\ \A q \in Requests : ~HoldsEntry(q, s)
    BY <2>1, Counts DEF Free
  <2>4. /\ Fresh(id) \in Entry /\ Fresh(id).id = id /\ Fresh(id).cell = "empty"
        /\ [pc |-> "wait", id |-> id, slot |-> s] \in Served
    BY <1>1 DEF Fresh, Entry, Served, Holding
  <2>5. StatesOK'
    BY <2>1, <2>2, <2>4 DEF StatesOK
  <2>6. HoldersOK'
    <3>1. ASSUME NEW i \in Ids, spaces'[i] # NoSlot PROVE entry'[spaces'[i]].id = i
      BY <1>1, <2>1, <2>3, <2>4, <3>1 DEF HoldersOK, StatesOK, Mapped
    <3>2. ASSUME NEW q \in Requests, request'[q].pc \in Holding
          PROVE  spaces'[request'[q].id] = request'[q].slot
      <4>1. CASE q = r
        BY <1>1, <2>1, <4>1 DEF StatesOK
      <4>2. CASE q # r
        <5>1. request'[q] = request[q] /\ request[q] \in Served
          BY <2>1, <3>2, <4>2 DEF StatesOK, Holding, Asking, Gone
        <5>2. spaces[request[q].id] = request[q].slot /\ request[q].slot \in Slots
          BY <3>2, <5>1 DEF HoldersOK, Served
        <5>3. request[q].id # id
          BY <1>3, <5>2, SpaceRegistryAssumption
        <5> QED
          BY <1>1, <2>1, <5>1, <5>2, <5>3 DEF StatesOK, Served
      <4> QED
        BY <4>1, <4>2
    <3> QED
      BY <3>1, <3>2 DEF HoldersOK
  <2>7. CellsOK'
    <3>1. ASSUME NEW c \in Slots, entry'[c].cell \in {"open", "closing"} PROVE spaces'[entry'[c].id] = c
      <4>1. c # s /\ entry'[c] = entry[c]
        BY <2>1, <2>4, <3>1 DEF StatesOK
      <4>2. spaces[entry[c].id] = c
        BY <3>1, <4>1 DEF CellsOK
      <4>3. entry[c].id # id
        BY <1>3, <4>2, SpaceRegistryAssumption
      <4> QED
        BY <1>1, <2>1, <4>1, <4>2, <4>3 DEF StatesOK, Entry
    <3>2. ASSUME NEW q \in Requests, request'[q].pc = "open" PROVE q # r /\ request'[q] = request[q]
      BY <2>1, <3>2 DEF StatesOK
    <3>3. ASSUME NEW q \in Requests, request'[q].pc = "open" PROVE entry'[request'[q].slot].cell = "empty"
      BY <2>1, <2>3, <3>2, <3>3 DEF CellsOK, StatesOK, HoldsEntry
    <3> QED
      BY <3>1, <3>2, <3>3 DEF CellsOK
  <2>8. KeeperOK'
    <3>1. ASSUME NEW c \in Slots, Mapped(c) PROVE Mapped(c)' /\ entry'[c] = entry[c]
      BY <1>1, <1>3, <2>1, <2>3, <3>1, SpaceRegistryAssumption DEF Mapped, StatesOK
    <3>2. keeper.pc \in {"shutdown", "ended"} => keeper.all \subseteq Slots
      BY DEF StatesOK, Resting, Passing, Closing, Stopped
    <3> QED
      BY <2>2, <3>1, <3>2 DEF KeeperOK
  <2> QED
    BY <2>5, <2>6, <2>7, <2>8
<1> QED
  BY <1>2, <1>3

\* A step that changes what is noted at one slot and leaves the map alone.
LEMMA SlotMoves ==
  ASSUME RegistryInv, NEW s \in Slots, NEW e \in Entry,
         entry' = [entry EXCEPT ![s] = e], e.id = entry[s].id, e.cell = entry[s].cell,
         UNCHANGED <<stored, spaces, request, keeper, server>>,
         keeper.pc = "close" /\ keeper.victim = s => e.task \in {"none", "hook"} /\ e.work # "flagged"
  PROVE  RegistryInv'
<1> USE DEF RegistryInv
<1>1. StatesOK'
  BY DEF StatesOK
<1>2. \A c \in Slots : entry'[c].id = entry[c].id /\ entry'[c].cell = entry[c].cell
  BY DEF StatesOK
<1>3. HoldersOK'
  BY <1>2 DEF HoldersOK, StatesOK
<1>4. CellsOK'
  BY <1>2 DEF CellsOK, StatesOK, Served, Asking, Gone
<1>5. KeeperOK'
  <2>1. keeper.pc = "close" => Deserving(keeper.victim)'
    BY <1>2 DEF KeeperOK, Deserving, Mapped, HoldsEntry, HoldsSpace, StatesOK
  <2>2. keeper.pc \in {"shutdown", "ended"} => keeper.all \subseteq Slots
    BY DEF StatesOK, Resting, Passing, Closing, Stopped
  <2> QED
    BY <1>2, <2>1, <2>2 DEF KeeperOK, Mapped
<1> QED
  BY <1>1, <1>3, <1>4, <1>5

LEMMA WorkKeeps ==
  ASSUME RegistryInv, NEW s \in Slots,
         StartWork(s) \/ EndWork(s) \/ EndTail(s) \/ EndTask(s) \/ GrowOld(s)
  PROVE  RegistryInv'
<1> DEFINE e == entry'[s]
<1>1. /\ entry[s] \in Entry /\ entry' = [entry EXCEPT ![s] = e] /\ e \in Entry
      /\ e.id = entry[s].id /\ e.cell = entry[s].cell
      /\ UNCHANGED <<stored, spaces, request, keeper, server>>
  <2> USE DEF RegistryInv, StatesOK, Entry
  <2>1. entry[s] \in Entry /\ entry \in [Slots -> Entry]
    OBVIOUS
  <2>2. CASE StartWork(s)
    BY <2>1, <2>2 DEF StartWork
  <2>3. CASE EndWork(s)
    BY <2>1, <2>3 DEF EndWork
  <2>4. CASE EndTail(s)
    BY <2>1, <2>4 DEF EndTail
  <2>5. CASE EndTask(s)
    BY <2>1, <2>5 DEF EndTask
  <2>6. CASE GrowOld(s)
    BY <2>1, <2>6 DEF GrowOld
  <2> QED
    BY <2>2, <2>3, <2>4, <2>5, <2>6
<1>2. ASSUME keeper.pc = "close", keeper.victim = s PROVE e.task \in {"none", "hook"} /\ e.work # "flagged"
  <2>1. Deserving(s)
    BY <1>2 DEF RegistryInv, KeeperOK
  <2> QED
    BY <1>1, <2>1 DEF Deserving, StartWork, EndWork, EndTail, EndTask, GrowOld, RegistryInv, StatesOK, Entry
<1> HIDE DEF e
<1> QED
  BY <1>1, <1>2, SlotMoves

\* What a request does with the slot that it holds.
LEMMA OpenKeeps ==
  ASSUME RegistryInv, NEW r \in Requests, Connect(r) \/ Touch(r)
  PROVE  RegistryInv'
<1> USE DEF RegistryInv, Goto
<1> DEFINE s == request[r].slot
<1>1. /\ request[r] \in Served /\ s \in Slots /\ request[r].pc \in {"open", "loaded"}
      /\ UNCHANGED <<stored, spaces, keeper, server>>
      /\ entry[s] \in Entry /\ spaces[request[r].id] = s /\ request[r].id \in Ids
      /\ entry[s].id = request[r].id
  <2>1. /\ request[r] \in Served /\ request[r].pc \in {"open", "loaded"}
        /\ UNCHANGED <<stored, spaces, keeper, server>>
    BY DEF Connect, Touch, StatesOK, Asking, Served, Gone
  <2>2. s \in Slots /\ spaces[request[r].id] = s /\ request[r].id \in Ids
    BY <2>1 DEF HoldersOK, Served, Holding
  <2> QED
    BY <2>1, <2>2, SpaceRegistryAssumption DEF HoldersOK, StatesOK
<1>2. HoldsEntry(r, s)
  BY <1>1 DEF HoldsEntry
<1>3. /\ entry'[s] \in Entry /\ entry' = [entry EXCEPT ![s] = entry'[s]]
      /\ entry'[s].id = entry[s].id
      /\ entry'[s].cell = entry[s].cell \/ (entry[s].cell = "empty" /\ entry'[s].cell = "open")
  <2>1. entry \in [Slots -> Entry]
    BY DEF StatesOK
  <2>2. CASE Connect(r)
    BY <1>1, <2>1, <2>2 DEF Connect, Entry, CellsOK
  <2>3. CASE Touch(r)
    BY <1>1, <2>1, <2>3 DEF Touch, Entry
  <2> QED
    BY <2>2, <2>3
<1>4. /\ request'[r] \in Served /\ request' = [request EXCEPT ![r] = request'[r]]
      /\ request'[r].pc \in {"loaded", "use"} /\ request'[r].id = request[r].id
      /\ request'[r].slot = s
  <2>1. request \in [Requests -> {Gone} \cup Asking \cup Served]
    BY DEF StatesOK
  <2>2. CASE Connect(r)
    BY <1>1, <2>1, <2>2 DEF Connect, Served, Holding
  <2>3. CASE Touch(r)
    BY <1>1, <2>1, <2>3 DEF Touch, Served, Holding
  <2> QED
    BY <2>2, <2>3
<1> HIDE DEF s
<1>5. StatesOK'
  BY <1>1, <1>3, <1>4 DEF StatesOK
<1>6. \A c \in Slots : entry'[c].id = entry[c].id /\ (c # s => entry'[c] = entry[c])
  BY <1>1, <1>3 DEF StatesOK
<1>7. \A q \in Requests : q # r => request'[q] = request[q]
  BY <1>4 DEF StatesOK
<1>8. HoldersOK'
  BY <1>1, <1>4, <1>6, <1>7 DEF HoldersOK, StatesOK
<1>9. CellsOK'
  <2>1. ASSUME NEW c \in Slots, entry'[c].cell \in {"open", "closing"} PROVE spaces'[entry'[c].id] = c
    BY <1>1, <1>3, <1>6, <2>1 DEF CellsOK
  <2>2. ASSUME NEW q \in Requests, request'[q].pc = "open" PROVE q # r /\ request'[q] = request[q]
    BY <1>4, <1>7, <2>2
  <2>3. ASSUME NEW q \in Requests, request'[q].pc = "open" PROVE entry'[request'[q].slot].cell = "empty"
    <3>1. CASE request[q].slot # s
      <4>1. request[q].slot \in Slots
        BY <2>2, <2>3 DEF StatesOK, Asking, Served, Gone
      <4> QED
        BY <1>6, <2>2, <2>3, <3>1, <4>1 DEF CellsOK
    <3>2. CASE request[q].slot = s
      <4>1. request[r].pc # "open"
        BY <2>2, <2>3, <3>2 DEF CellsOK, s
      <4>2. Touch(r)
        BY <4>1 DEF Connect
      <4>3. entry'[s].cell = entry[s].cell
        BY <1>1, <4>2 DEF Touch, s, StatesOK, Entry
      <4> QED
        BY <2>2, <2>3, <3>2, <4>3 DEF CellsOK
    <3> QED
      BY <3>1, <3>2
  <2> QED
    BY <2>1, <2>2, <2>3 DEF CellsOK
<1>10. KeeperOK'
  <2>1. ASSUME keeper.pc = "close" PROVE Deserving(keeper.victim)'
    <3>1. Deserving(keeper.victim) /\ keeper.victim # s /\ keeper.victim \in Slots
      BY <1>2, <2>1 DEF KeeperOK, Deserving
    <3>2. \A q \in Requests : ~HoldsEntry(q, keeper.victim)' /\ ~HoldsSpace(q, keeper.victim)'
      BY <1>1, <1>4, <1>7, <3>1 DEF Deserving, HoldsEntry, HoldsSpace
    <3> QED
      BY <1>1, <1>6, <3>1, <3>2 DEF Deserving, Mapped
  <2>2. keeper.pc \in {"shutdown", "ended"} => keeper.all \subseteq Slots
    BY DEF StatesOK, Resting, Passing, Closing, Stopped
  <2>3. keeper.pc \in {"shutdown", "ended"} => \A c \in keeper.all : entry'[c].cell = entry[c].cell
    BY <1>3, <1>6, <2>2 DEF KeeperOK
  <2> QED
    BY <1>1, <2>1, <2>3 DEF KeeperOK, Mapped
<1> QED
  BY <1>5, <1>8, <1>9, <1>10

-----------------------------------------------------------------------------
(* The keeper and the service                                              *)

\* A step of the keeper that closes nothing.
LEMMA KeeperMoves ==
  ASSUME RegistryInv, UNCHANGED <<stored, spaces, entry, request, server>>,
         keeper' \in Resting \cup Passing, keeper'.pc # "close",
         keeper' \in Passing => keeper'.todo \subseteq keeper'.seen
  PROVE  RegistryInv'
BY DEF RegistryInv, StatesOK, HoldersOK, CellsOK, KeeperOK, Resting, Passing

\* Services start, stop and die; requests go with their server.
LEMMA ServiceKeeps ==
  ASSUME RegistryInv,
         Signal \/ Drain \/ EndServer \/ JoinFirst \/ Exit \/ StartService \/ ServerDies \/ KeeperDies
  PROVE  RegistryInv'
<1>1. CASE Signal \/ Drain \/ EndServer \/ JoinFirst \/ Exit
  <2>1. UNCHANGED <<stored, spaces, entry, request, keeper>>
    BY <1>1 DEF Signal, Drain, EndServer, JoinFirst, Exit
  <2>2. StatesOK'
    BY <1>1, <2>1 DEF Signal, Drain, EndServer, JoinFirst, Exit, RegistryInv, StatesOK
  <2> QED
    BY <2>1, <2>2 DEF RegistryInv, HoldersOK, CellsOK, KeeperOK, Deserving, Mapped, HoldsEntry, HoldsSpace
<1>2. CASE StartService
  BY <1>2 DEF StartService, RegistryInv, StatesOK, HoldersOK, CellsOK, KeeperOK, Resting, Passing
<1>3. CASE KeeperDies
  <2>1. keeper' \in Resting /\ keeper' \notin Passing /\ keeper'.pc # "close"
    BY <1>3 DEF KeeperDies, Resting, Passing
  <2> QED
    BY <1>3, <2>1, KeeperMoves DEF KeeperDies
<1>4. CASE ServerDies
  <2>1. /\ UNCHANGED <<stored, spaces, entry, keeper>> /\ server' = "dead"
        /\ request' = [r \in Requests |-> Gone] /\ Gone.pc = "gone"
    BY <1>4 DEF ServerDies, Gone
  <2>2. \A r \in Requests : request'[r].pc = "gone"
    BY <2>1
  <2>3. StatesOK' /\ HoldersOK' /\ CellsOK'
    BY <2>1, <2>2 DEF RegistryInv, StatesOK, HoldersOK, CellsOK, Holding
  <2>4. KeeperOK'
    BY <2>1, <2>2 DEF RegistryInv, KeeperOK, Deserving, Mapped, HoldsEntry, HoldsSpace
  <2> QED
    BY <2>3, <2>4 DEF RegistryInv
<1> QED
  BY <1>1, <1>2, <1>3, <1>4

-----------------------------------------------------------------------------
(* The keeper                                                              *)

\* The keeper takes its snapshot, and lets entries be.
LEMMA PassKeeps ==
  ASSUME RegistryInv, BeginPass \/ \E s \in Slots : KeepEntry(s)
  PROVE  RegistryInv'
<1>1. CASE BeginPass
  <2>1. mapped \subseteq Slots
    BY DEF mapped
  <2>2. keeper' \in Passing /\ keeper'.pc = "pass" /\ keeper'.todo = keeper'.seen
    BY <1>1, <2>1 DEF BeginPass, Passing
  <2> QED
    BY <1>1, <2>2, KeeperMoves DEF BeginPass
<1>2. ASSUME NEW s \in Slots, KeepEntry(s) PROVE RegistryInv'
  <2>1. keeper \in Passing
    BY <1>2 DEF KeepEntry, RegistryInv, StatesOK, Resting, Closing, Stopped
  <2>2. /\ keeper' \in Passing /\ keeper'.pc = "pass" /\ keeper'.todo = keeper.todo \ {s}
        /\ keeper'.seen = keeper.seen
    BY <1>2, <2>1 DEF KeepEntry, Passing
  <2>3. keeper'.todo \subseteq keeper'.seen
    BY <2>1, <2>2 DEF RegistryInv, KeeperOK
  <2> QED
    BY <1>2, <2>2, <2>3, KeeperMoves DEF KeepEntry
<1> QED
  BY <1>1, <1>2

\* An entry that leaves the map has no holder and no open database.
LEMMA Unmapping ==
  ASSUME RegistryInv, NEW s \in Slots, Unmap(s), \A r \in Requests : ~HoldsEntry(r, s),
         entry' \in [Slots -> Entry], entry'[s].cell \in {"empty", "closed"},
         entry[s].cell = "empty" => entry'[s].cell = "empty", entry'[s].id = entry[s].id,
         \A c \in Slots \ {s} : entry'[c] = entry[c],
         UNCHANGED <<stored, request, server>>,
         keeper' \in Passing, keeper'.pc = "pass", keeper'.todo \subseteq keeper'.seen
  PROVE  RegistryInv'
<1> USE DEF RegistryInv
<1>1. \A id \in Ids : spaces'[id] = IF spaces[id] = s THEN NoSlot ELSE spaces[id]
  BY DEF Unmap
<1>2. StatesOK'
  BY DEF StatesOK, Unmap
<1>3. \A r \in Requests : request[r].pc \in Holding =>
        request[r] \in Served /\ request[r].slot # s /\ request[r].id \in Ids /\ request[r].slot \in Slots
  BY DEF HoldsEntry, Holding, StatesOK, Served, Asking, Gone
<1>4. HoldersOK'
  BY <1>1, <1>3, SpaceRegistryAssumption DEF HoldersOK, StatesOK
<1>5. CellsOK'
  <2>1. ASSUME NEW c \in Slots, entry'[c].cell \in {"open", "closing"} PROVE spaces'[entry'[c].id] = c
    <3>1. c # s /\ entry'[c] = entry[c] /\ entry[c].id \in Ids
      BY <2>1 DEF StatesOK, Entry
    <3> QED
      BY <1>1, <2>1, <3>1 DEF CellsOK
  <2>2. ASSUME NEW q \in Requests, request'[q].pc = "open" PROVE entry'[request'[q].slot].cell = "empty"
    BY <1>3, <2>2 DEF CellsOK, Holding
  <2> QED
    BY <2>1, <2>2 DEF CellsOK
<1>6. KeeperOK'
  BY DEF KeeperOK, Passing
<1> QED
  BY <1>2, <1>4, <1>5, <1>6

\* Eviction: the counts are read under the lock of the map, which is kept
\* until the entry is gone.
LEMMA EvictionKeeps ==
  ASSUME RegistryInv, NEW s \in Slots, BeginEvict(s) \/ DropPlaceholder(s)
  PROVE  RegistryInv'
<1>1. keeper \in Passing /\ keeper.pc = "pass" /\ s \in keeper.todo /\ Evictable(s)
  BY DEF BeginEvict, DropPlaceholder, RegistryInv, StatesOK, Resting, Closing, Stopped
<1>2. \A r \in Requests : ~HoldsEntry(r, s)
  <2>1. s \in Snapshot
    BY <1>1 DEF Snapshot, InPass, RegistryInv, KeeperOK
  <2> QED
    BY <1>1, <2>1, Counts DEF Evictable, RegistryInv
<1>3. CASE DropPlaceholder(s)
  <2>1. /\ keeper' \in Passing /\ keeper'.pc = "pass" /\ keeper'.todo = keeper.todo \ {s}
        /\ keeper'.seen = keeper.seen
    BY <1>1, <1>3 DEF DropPlaceholder, Passing
  <2>2. keeper'.todo \subseteq keeper'.seen
    BY <1>1, <2>1 DEF RegistryInv, KeeperOK
  <2>3. entry' = entry /\ entry[s].cell = "empty" /\ entry \in [Slots -> Entry]
    BY <1>3 DEF DropPlaceholder, RegistryInv, StatesOK
  <2> QED
    BY <1>2, <1>3, <2>1, <2>2, <2>3, Unmapping DEF DropPlaceholder
<1>4. CASE BeginEvict(s)
  <2> USE DEF RegistryInv
  <2>1. /\ keeper' \in Passing /\ keeper'.pc = "close" /\ keeper'.todo = keeper.todo \ {s}
        /\ keeper'.seen = keeper.seen /\ keeper'.victim = s
    BY <1>1, <1>4 DEF BeginEvict, Passing
  <2>2. /\ entry[s].cell # "empty" /\ Mapped(s) /\ entry[s] \in Entry
        /\ entry' = [entry EXCEPT ![s].cell = "closing"]
        /\ UNCHANGED <<stored, spaces, request, server>>
    BY <1>1, <1>4 DEF BeginEvict, Evictable, StatesOK
  <2>3. entry[s].task = "none" /\ entry[s].work # "flagged" /\ \A r \in Requests : ~HoldsSpace(r, s)
    BY <1>1, <2>2, Counts DEF Evictable
  <2>4. /\ entry' \in [Slots -> Entry] /\ entry'[s].cell = "closing" /\ entry'[s].id = entry[s].id
        /\ entry'[s].task = "none" /\ entry'[s].work # "flagged"
        /\ \A c \in Slots \ {s} : entry'[c] = entry[c]
    BY <2>2, <2>3 DEF StatesOK, Entry
  <2>5. StatesOK'
    BY <2>1, <2>2, <2>4 DEF StatesOK
  <2>6. HoldersOK'
    BY <2>2, <2>4, SpaceRegistryAssumption DEF HoldersOK, StatesOK
  <2>7. CellsOK'
    <3>1. ASSUME NEW q \in Requests, request[q].pc = "open" PROVE request[q].slot \in Slots \ {s}
      BY <1>2, <3>1 DEF HoldsEntry, StatesOK, Served, Asking, Gone
    <3>2. spaces[entry[s].id] = s
      BY <2>2, SpaceRegistryAssumption DEF HoldersOK, Mapped
    <3> QED
      BY <2>2, <2>4, <3>1, <3>2 DEF CellsOK
  <2>8. KeeperOK'
    <3>1. Deserving(s)'
      BY <1>2, <2>2, <2>3, <2>4 DEF Deserving, Mapped, HoldsEntry, HoldsSpace
    <3>2. keeper'.todo \subseteq keeper'.seen
      BY <1>1, <2>1 DEF KeeperOK
    <3> QED
      BY <2>1, <3>1, <3>2 DEF KeeperOK
  <2> QED
    BY <2>5, <2>6, <2>7, <2>8
<1> QED
  BY <1>3, <1>4

LEMMA EndEvictKeeps ==
  ASSUME RegistryInv, EndEvict
  PROVE  RegistryInv'
<1> DEFINE s == keeper.victim
<1>1. keeper \in Passing /\ keeper.pc = "close"
  BY DEF EndEvict, RegistryInv, StatesOK, Resting, Closing, Stopped
<1>2. s \in Slots /\ \A r \in Requests : ~HoldsEntry(r, s)
  BY <1>1 DEF RegistryInv, KeeperOK, Deserving
<1>3. entry' = [entry EXCEPT ![s].cell = "closed"] /\ entry \in [Slots -> Entry]
  BY DEF EndEvict, RegistryInv, StatesOK
<1>4. /\ entry' \in [Slots -> Entry] /\ entry'[s].cell = "closed" /\ entry'[s].id = entry[s].id
      /\ \A c \in Slots \ {s} : entry'[c] = entry[c]
  BY <1>2, <1>3 DEF Entry
<1>5. /\ keeper' \in Passing /\ keeper'.pc = "pass" /\ keeper'.todo = keeper.todo
      /\ keeper'.seen = keeper.seen
  BY <1>1 DEF EndEvict, Passing
<1>6. keeper'.todo \subseteq keeper'.seen /\ entry[s].cell = "closing"
  BY <1>1, <1>5 DEF RegistryInv, KeeperOK, Deserving
<1>7. Unmap(s) /\ UNCHANGED <<stored, request, server>>
  BY DEF EndEvict
<1> HIDE DEF s
<1> QED
  BY <1>2, <1>4, <1>5, <1>6, <1>7, Unmapping

\* What nothing refers to any more is blank again.
LEMMA EndPassKeeps ==
  ASSUME RegistryInv, EndPass
  PROVE  RegistryInv'
<1> USE DEF RegistryInv
<1>1. /\ UNCHANGED <<stored, spaces, request, server>>
      /\ keeper' \in Resting /\ keeper' \notin Passing /\ keeper'.pc = "sleep"
  BY DEF EndPass, Resting, Passing
<1>2. Blank \in Entry /\ Blank.cell = "empty"
  BY SpaceRegistryAssumption DEF Blank, Fresh, Entry
<1>3. \A s \in Slots : entry'[s] = entry[s] \/ (entry'[s] = Blank /\ ~Mapped(s))
  BY DEF EndPass
<1>4. \A s \in Slots : Mapped(s) => entry'[s] = entry[s]
  BY <1>3
<1>5. StatesOK'
  BY <1>1, <1>2, <1>3 DEF StatesOK, EndPass
<1>6. HoldersOK'
  BY <1>1, <1>4 DEF HoldersOK, StatesOK, Mapped
<1>7. CellsOK'
  <2>1. ASSUME NEW q \in Requests, request[q].pc = "open"
        PROVE  request[q].slot \in Slots /\ Mapped(request[q].slot)
    BY <2>1 DEF HoldersOK, Holding, Mapped, StatesOK, Served, Asking, Gone
  <2>2. \A s \in Slots : entry'[s].cell \in {"open", "closing"} => entry'[s] = entry[s]
    BY <1>2, <1>3
  <2> QED
    BY <1>1, <1>4, <2>1, <2>2 DEF CellsOK
<1>8. KeeperOK'
  BY <1>1 DEF KeeperOK, Resting
<1> QED
  BY <1>5, <1>6, <1>7, <1>8

\* Shutdown closes what is loaded, and leaves it in the map.
LEMMA ShutdownKeeps ==
  ASSUME RegistryInv, BeginShutdown \/ (\E s \in Slots : CloseSpace(s)) \/ EndKeeper
  PROVE  RegistryInv'
<1> USE DEF RegistryInv
<1>1. CASE BeginShutdown
  <2> DEFINE loaded == {s \in mapped : entry[s].cell # "empty"}
  <2>1. /\ keeper' = [pc |-> "shutdown", closing |-> loaded, all |-> loaded]
        /\ entry' = [s \in Slots |-> IF s \in loaded THEN [entry[s] EXCEPT !.cell = "closing"]
                                                     ELSE entry[s]]
        /\ UNCHANGED <<stored, spaces, request, server>>
    BY <1>1 DEF BeginShutdown
  <2>2. \A s \in Slots :
          /\ entry'[s] \in Entry /\ entry'[s].id = entry[s].id
          /\ s \in loaded => entry'[s].cell = "closing" /\ Mapped(s) /\ entry[s].cell # "empty"
          /\ s \notin loaded => entry'[s] = entry[s]
    BY <2>1 DEF StatesOK, Entry, mapped
  <2>3. loaded \subseteq Slots
    BY DEF mapped
  <2> HIDE DEF loaded
  <2>4. keeper' \in Closing /\ keeper' \notin Passing
    BY <2>1, <2>3 DEF Closing, Passing
  <2>5. StatesOK'
    BY <2>1, <2>2, <2>4 DEF StatesOK
  <2>6. HoldersOK'
    BY <2>1, <2>2, SpaceRegistryAssumption DEF HoldersOK, StatesOK
  <2>7. CellsOK'
    <3>1. \A s \in loaded : spaces[entry[s].id] = s
      BY <2>2, <2>3, SpaceRegistryAssumption DEF HoldersOK, Mapped
    <3>2. ASSUME NEW q \in Requests, request[q].pc = "open"
          PROVE  request[q].slot \in Slots /\ request[q].slot \notin loaded
      <4>1. request[q].slot \in Slots /\ entry[request[q].slot].cell = "empty"
        BY <3>2 DEF CellsOK, StatesOK, Served, Asking, Gone
      <4> QED
        BY <2>2, <4>1
    <3> QED
      BY <2>1, <2>2, <3>1, <3>2 DEF CellsOK
  <2>8. KeeperOK'
    BY <2>1, <2>2, <2>3, <2>4 DEF KeeperOK, Mapped
  <2> QED
    BY <2>5, <2>6, <2>7, <2>8
<1>2. ASSUME NEW s \in Slots, CloseSpace(s) PROVE RegistryInv'
  <2>1. keeper \in Closing /\ keeper.pc = "shutdown" /\ s \in keeper.closing
    BY <1>2 DEF CloseSpace, StatesOK, Resting, Passing, Stopped
  <2>2. /\ keeper' \in Closing /\ keeper' \notin Passing /\ keeper'.pc = "shutdown"
        /\ keeper'.all = keeper.all /\ keeper'.closing = keeper.closing \ {s}
        /\ UNCHANGED <<stored, spaces, request, server>>
    BY <1>2, <2>1 DEF CloseSpace, Closing, Passing
  <2>3. /\ entry' \in [Slots -> Entry] /\ entry'[s].cell = "closed" /\ entry'[s].id = entry[s].id
        /\ \A c \in Slots \ {s} : entry'[c] = entry[c]
    <3>1. entry' = [entry EXCEPT ![s].cell = "closed"]
      BY <1>2 DEF CloseSpace
    <3> QED
      BY <3>1 DEF StatesOK, Entry
  <2>4. StatesOK'
    BY <2>2, <2>3 DEF StatesOK
  <2>5. HoldersOK'
    BY <2>2, <2>3, SpaceRegistryAssumption DEF HoldersOK, StatesOK
  <2>6. CellsOK'
    <3>1. \A q \in Requests : request[q].pc = "open" => request[q].slot \in Slots
      BY DEF StatesOK, Served, Asking, Gone
    <3>2. s \in Slots /\ entry[s].cell # "empty"
      BY <2>1 DEF KeeperOK, Closing
    <3>3. \A q \in Requests : request[q].pc = "open" => request[q].slot # s
      BY <3>2 DEF CellsOK
    <3>4. \A c \in Slots : entry'[c].cell \in {"open", "closing"} => spaces'[entry'[c].id] = c
      BY <2>2, <2>3 DEF CellsOK
    <3>5. \A q \in Requests : request'[q].pc = "open" => entry'[request'[q].slot].cell = "empty"
      BY <2>2, <2>3, <3>1, <3>3 DEF CellsOK
    <3> QED
      BY <2>2, <3>4, <3>5 DEF CellsOK
  <2>7. KeeperOK'
    BY <2>1, <2>2, <2>3 DEF KeeperOK, Mapped, StatesOK, Closing
  <2> QED
    BY <2>4, <2>5, <2>6, <2>7
<1>3. CASE EndKeeper
  <2>1. /\ keeper' = [pc |-> "ended", all |-> keeper.all] /\ keeper.pc = "shutdown" /\ keeper.closing = {}
        /\ UNCHANGED <<stored, spaces, entry, request, server>>
    BY <1>3 DEF EndKeeper, ShutdownDone
  <2>2. keeper' \in Stopped /\ keeper' \notin Passing
    BY <2>1 DEF StatesOK, Resting, Passing, Closing, Stopped
  <2> QED
    BY <2>1, <2>2 DEF StatesOK, HoldersOK, CellsOK, KeeperOK, Mapped
<1> QED
  BY <1>1, <1>2, <1>3

-----------------------------------------------------------------------------
(* The results                                                             *)

LEMMA NextRegistry == RegistryInv /\ [RegistryNext]_registryVars => RegistryInv'
<1> SUFFICES ASSUME RegistryInv, [RegistryNext]_registryVars PROVE RegistryInv'
  OBVIOUS
<1>1. CASE UNCHANGED registryVars
  BY <1>1
  DEF registryVars, RegistryInv, StatesOK, HoldersOK, CellsOK, KeeperOK, Deserving, Mapped,
      HoldsEntry, HoldsSpace
<1>2. ASSUME NEW r \in Requests, Arrive(r) \/ BeginCreate(r) \/ RequestStep(r) PROVE RegistryInv'
  BY <1>2, LoadsKeep, InsertKeeps, OpenKeeps DEF RequestStep
<1>3. ASSUME NEW s \in Slots, StartWork(s) \/ GrowOld(s) \/ SlotStep(s) PROVE RegistryInv'
  BY <1>3, WorkKeeps DEF SlotStep
<1>4. CASE KeeperStep
  BY <1>4, PassKeeps, EvictionKeeps, EndEvictKeeps, EndPassKeeps, ShutdownKeeps DEF KeeperStep
<1>5. CASE StartService \/ ServiceStep \/ Signal \/ ServerDies \/ KeeperDies
  BY <1>5, ServiceKeeps DEF ServiceStep
<1> QED
  BY <1>1, <1>2, <1>3, <1>4, <1>5 DEF RegistryNext

\* Two entries of one space are never open together: of two loads that race,
\* or race an eviction, the second finds the entry of the first.
THEOREM OneDatabase == RegistrySpec => []OneOpenDatabase
<1>1. RegistryInv => OneOpenDatabase
  <2> SUFFICES ASSUME RegistryInv PROVE OneOpenDatabase
    OBVIOUS
  <2>1. ASSUME NEW s \in Slots, Opening(s) \/ entry[s].cell \in {"open", "closing"}
        PROVE  spaces[entry[s].id] = s
    BY <2>1, SpaceRegistryAssumption
    DEF Opening, RegistryInv, HoldersOK, CellsOK, Holding, StatesOK, Asking, Served, Gone
  <2> QED
    BY <2>1 DEF OneOpenDatabase
<1> QED
  BY <1>1, InitRegistry, NextRegistry, PTL DEF RegistrySpec

\* The reference counts and flags that eviction reads under the lock of the
\* map rule out every user, and none comes before the entry is gone.
THEOREM SparesUsers == RegistrySpec => []EvictionSparesUsers
<1>1. RegistryInv => EvictionSparesUsers
  BY DEF RegistryInv, KeeperOK, Deserving, EvictionSparesUsers
<1> QED
  BY <1>1, InitRegistry, NextRegistry, PTL DEF RegistrySpec

\* A keeper that ends in order has closed every space that was loaded when it
\* began to, whatever the last requests did meanwhile.
THEOREM ClosedAtTheEnd == RegistrySpec => []ClosesInOrder
<1>1. RegistryInv => ClosesInOrder
  <2> SUFFICES ASSUME RegistryInv PROVE ClosesInOrder
    OBVIOUS
  <2>1. \A s \in Slots : entry[s].cell = "closing" => Mapped(s)
    BY SpaceRegistryAssumption DEF RegistryInv, StatesOK, CellsOK, Mapped, Entry
  <2>2. RegistryTypeOK
    BY <2>1 DEF RegistryTypeOK, RegistryInv, StatesOK, HoldersOK, Entry
  <2>3. OrderlyExitCloses
    BY DEF OrderlyExitCloses, RegistryInv, KeeperOK
  <2> QED
    BY <2>2, <2>3 DEF ClosesInOrder
<1> QED
  BY <1>1, InitRegistry, NextRegistry, PTL DEF RegistrySpec

-----------------------------------------------------------------------------
(* The runner                                                              *)

Statuses == {"none", "Working", "Completed", "Failed"}
Conversations == [id : Nat, status : Statuses, msgs : Seq(Nat), usage : Nat]
Runners == [phase : {"running", "idle", "done"}, turns : Nat, said : Seq(Nat), total : Nat]
Loops == [pc : {"rest", "budget", "compact", "next", "exit"}, replace : BOOLEAN,
          known : Nat, total : Nat, accounted : Nat, unpersisted : Nat,
          failure : {"none", "limit", "clock", "runner"},
          review : {"none", "pending", "asked"}]

Typed ==
  /\ host \in {"formation", "maintenance", "recall"}
  /\ runner \in Runners /\ conv \in Conversations /\ loop \in Loops
  /\ ring \in Seq(Nat) /\ kept \in Seq(Conversations)
  /\ spent \in Nat /\ late \in BOOLEAN

UnderWay == loop.pc # "rest"

NumberedOK ==
  /\ \A i \in 1..Len(kept) : kept[i].id = i
  /\ conv # NoConv => Len(kept) > 0 /\ conv.id = Len(kept)
  /\ UnderWay => conv # NoConv /\ conv.status # "none"

CountOK ==
  /\ spent <= MaxModelTurns + 1
  /\ UnderWay => loop.total = spent /\ loop.accounted = runner.turns
  /\ loop.pc = "compact" => spent + 1 <= MaxModelTurns
  /\ loop.pc = "next" => spent <= MaxModelTurns

SaidOK ==
  /\ \A i \in 1..Len(conv.msgs) : conv.msgs[i] = i - 1
  /\ UnderWay =>
       /\ Len(runner.said) <= spent + 1
       /\ \A i \in 1..Len(runner.said) : runner.said[i] + Len(runner.said) = spent + i
       /\ loop.replace => loop.known = 0 /\ spent = 0 /\ Len(conv.msgs) = 1 /\ Len(runner.said) = 1
       /\ ~loop.replace => /\ loop.known <= Len(runner.said)
                           /\ Len(conv.msgs) + Len(runner.said) = spent + 1 + loop.known
       /\ loop.pc \in {"budget", "compact"} => Len(conv.msgs) = spent + 1

\* A runner that ended is asked for nothing more; maintenance alone comes
\* back to find that out.
PhaseOK ==
  /\ loop.pc \in {"budget", "compact", "next"} =>
       /\ \/ runner.phase = "running"
          \/ runner.phase = "done" /\ host = "maintenance"
       /\ loop.failure = "none"
       /\ conv.status = IF runner.phase = "done" THEN "Completed" ELSE "Working"
  /\ loop.pc = "exit" /\ loop.failure # "none" =>
       /\ \/ runner.phase = "running" /\ conv.status = "Working"
          \/ Overtaken /\ host = "maintenance" /\ conv.status = "Completed"
  /\ Overtaken => host = "maintenance"

UsageOK ==
  UnderWay /\ loop.review # "asked" =>
    /\ runner.phase = "running" => runner.total = spent
    /\ conv.status # "Working" => conv.usage = spent

StoreOK ==
  UnderWay =>
    /\ loop.unpersisted = 0 => kept[conv.id] = conv
    /\ conv.status # "Working" => loop.unpersisted = 0

ContextOK ==
  /\ Len(ring) <= HistoryLen
  /\ \A i, j \in 1..Len(ring) : i < j => ring[i] < ring[j]
  /\ \A i \in 1..Len(ring) :
       /\ ring[i] \in 1..Len(kept)
       /\ \/ kept[ring[i]].status = "Completed"
          \/ kept[ring[i]].status = "Failed" /\ host = "maintenance"
       /\ UnderWay /\ conv.status # "Completed" => ring[i] # conv.id
  /\ conv.status = "Completed" => ring # <<>> /\ ring[Len(ring)] = conv.id

\* The inductive invariant.
RunnerInv ==
  /\ Typed /\ NumberedOK /\ CountOK /\ SaidOK /\ PhaseOK /\ UsageOK /\ StoreOK
  /\ ContextOK /\ ExitIsStored

-----------------------------------------------------------------------------
(* Steps that decide where the loop goes, and leave what it has recorded.  *)

USE RunnerAssumption

\* The initial state.
LEMMA InitRunner == RunnerInit => RunnerInv
<1>. SUFFICES ASSUME RunnerInit PROVE RunnerInv
  OBVIOUS
<1>1. Typed
  BY EmptySeq DEF RunnerInit, Typed, Runners, NoRunner, Conversations, Statuses, NoConv, Loops, AtRest
<1>2. NumberedOK /\ CountOK /\ PhaseOK /\ UsageOK /\ StoreOK /\ ExitIsStored
  BY DEF RunnerInit, NumberedOK, CountOK, PhaseOK, UsageOK, StoreOK, ExitIsStored,
         NoRunner, NoConv, AtRest, UnderWay, Overtaken
<1>3. SaidOK /\ ContextOK
  BY DEF RunnerInit, SaidOK, ContextOK, NoConv, NoRunner, AtRest, UnderWay, HistoryLen
<1>. QED
  BY <1>1, <1>2, <1>3 DEF RunnerInv

\* The clock.
LEMMA TimePassesInv == RunnerInv /\ TimePasses => RunnerInv'
<1>. SUFFICES ASSUME RunnerInv, TimePasses PROVE RunnerInv'
  OBVIOUS
<1>1. Typed'
  BY DEF RunnerInv, TimePasses, Typed
<1>2. NumberedOK' /\ CountOK' /\ PhaseOK' /\ UsageOK' /\ StoreOK' /\ ExitIsStored'
  BY DEF RunnerInv, TimePasses, NumberedOK, CountOK, PhaseOK, UsageOK, StoreOK,
         ExitIsStored, UnderWay, Overtaken
<1>3. SaidOK' /\ ContextOK'
  BY DEF RunnerInv, TimePasses, SaidOK, ContextOK, UnderWay, HistoryLen
<1>. QED
  BY <1>1, <1>2, <1>3 DEF RunnerInv

\* What a step keeps that touches neither the conversation nor what the
\* runner has said, and leaves the loop at a label of its own.
Deciding ==
  /\ UNCHANGED <<host, runner, conv, ring, kept, spent, late, restarts>>
  /\ UnderWay /\ loop' \in Loops /\ loop'.pc \notin {"rest", "budget"}
  /\ loop'.replace = loop.replace /\ loop'.known = loop.known
  /\ loop'.total = loop.total /\ loop'.accounted = loop.accounted
  /\ loop'.unpersisted = loop.unpersisted /\ loop'.review = loop.review

LEMMA DecidingKeeps ==
  ASSUME RunnerInv, Deciding
  PROVE  /\ Typed' /\ NumberedOK' /\ UsageOK' /\ StoreOK' /\ ContextOK' /\ ExitIsStored'
         /\ loop.pc = "budget" \/ loop'.pc # "compact" => SaidOK'
<1>. USE DEF RunnerInv, Deciding
<1>1. Typed'
  BY DEF Typed, Loops
<1>2. NumberedOK' /\ UsageOK' /\ StoreOK' /\ ContextOK' /\ ExitIsStored'
  BY DEF NumberedOK, UsageOK, StoreOK, ContextOK, ExitIsStored, UnderWay, HistoryLen
<1>3. loop.pc = "budget" \/ loop'.pc # "compact" => SaidOK'
  BY DEF SaidOK, UnderWay
<1>. QED
  BY <1>1, <1>2, <1>3

\* The guards: an iteration that goes on has a turn to spare.
LEMMA CheckBudgetInv == RunnerInv /\ CheckBudget => RunnerInv'
<1>. SUFFICES ASSUME RunnerInv, CheckBudget PROVE RunnerInv'
  OBVIOUS
<1>1. Deciding
  <2>1. CASE loop.total >= MaxModelTurns
    BY <2>1 DEF CheckBudget, Deciding, Leave, UnderWay, RunnerInv, Typed, Loops
  <2>2. CASE ~(loop.total >= MaxModelTurns) /\ late
    BY <2>2 DEF CheckBudget, Deciding, Leave, UnderWay, RunnerInv, Typed, Loops
  <2>3. CASE ~(loop.total >= MaxModelTurns) /\ ~late
    BY <2>3 DEF CheckBudget, Deciding, UnderWay, RunnerInv, Typed, Loops
  <2>. QED
    BY <2>1, <2>2, <2>3
<1>2. CountOK'
  <2>1. loop.total \in Nat /\ loop.total = spent
    BY DEF CheckBudget, RunnerInv, Typed, Loops, CountOK, UnderWay
  <2>2. loop'.pc = "compact" => ~(loop.total >= MaxModelTurns)
    BY DEF CheckBudget, Leave, RunnerInv, Typed, Loops
  <2>3. loop'.pc = "compact" => spent + 1 <= MaxModelTurns
    BY <2>1, <2>2
  <2>. QED
    BY <1>1, <2>3 DEF CheckBudget, Leave, Deciding, RunnerInv, Typed, Loops, CountOK
<1>3. PhaseOK'
  BY DEF CheckBudget, Leave, RunnerInv, Typed, Loops, Runners, PhaseOK, Overtaken
<1>. QED
  BY <1>1, <1>2, <1>3, DecidingKeeps DEF RunnerInv, CheckBudget

\* Nothing to compact.
LEMMA SkipCompactionInv == RunnerInv /\ SkipCompaction => RunnerInv'
<1>. SUFFICES ASSUME RunnerInv, SkipCompaction PROVE RunnerInv'
  OBVIOUS
<1>1. Deciding
  BY DEF SkipCompaction, Deciding, UnderWay, RunnerInv, Typed, Loops
<1>2. CountOK'
  BY DEF SkipCompaction, RunnerInv, Typed, Loops, CountOK, UnderWay
<1>3. PhaseOK'
  BY DEF SkipCompaction, RunnerInv, Typed, Loops, Runners, PhaseOK, Overtaken
<1>. QED
  BY <1>1, <1>2, <1>3, DecidingKeeps DEF RunnerInv, SkipCompaction, Typed, Loops

\* The exits without a turn; a failed handoff ends with the usage it had.
LEMMA LeavingInv ==
  RunnerInv /\ (CompactFails \/ Cancel \/ NoMoreTurns \/ TurnErrs) => RunnerInv'
<1>. SUFFICES ASSUME RunnerInv, CompactFails \/ Cancel \/ NoMoreTurns \/ TurnErrs
              PROVE  RunnerInv'
  OBVIOUS
<1>1. runner' = runner
  BY DEF RunnerInv, Typed, Runners, CompactFails, RestoredUsage, Cancel, NoMoreTurns, TurnErrs
<1>2. Deciding /\ loop'.pc = "exit"
  BY <1>1 DEF CompactFails, Cancel, NoMoreTurns, TurnErrs, MayCall, Leave, Deciding, UnderWay,
              RunnerInv, Typed, Loops
<1>3. CountOK'
  BY <1>1, <1>2 DEF Deciding, RunnerInv, Typed, Loops, CountOK, UnderWay
<1>4. PhaseOK'
  BY <1>1 DEF CompactFails, Cancel, NoMoreTurns, TurnErrs, MayCall, Leave,
              RunnerInv, Typed, Loops, Runners, PhaseOK, Overtaken
<1>. QED
  BY <1>2, <1>3, <1>4, DecidingKeeps DEF RunnerInv

-----------------------------------------------------------------------------
(* Compaction, and the two ends of a conversation.                         *)

\* A handoff counts as a turn, and the summary is the one thing said since.
LEMMA CompactInv == RunnerInv /\ Compact => RunnerInv'
<1>. SUFFICES ASSUME RunnerInv, Compact PROVE RunnerInv'
  OBVIOUS
<1>1. /\ runner'.phase = "running" /\ runner'.turns = 0 /\ runner'.total = runner.total + 1
      /\ runner'.said = <<spent + 1>> /\ spent' = spent + 1
  BY DEF Compact
<1>2. /\ loop'.pc = "next" /\ loop'.total = loop.total + 1 /\ loop'.accounted = 0
      /\ loop'.known = 0 /\ loop'.replace = FALSE /\ loop'.unpersisted = loop.unpersisted
      /\ loop'.failure = loop.failure /\ loop'.review = loop.review
      /\ loop.pc = "compact" /\ runner.phase # "done"
  BY DEF Compact, Compacted, RunnerInv, Typed, Loops
<1>3. Typed'
  <2>1. <<spent + 1>> \in Seq(Nat)
    BY DEF RunnerInv, Typed
  <2>2. runner' \in Runners
    BY <2>1 DEF Compact, RunnerInv, Typed, Runners
  <2>3. loop' \in Loops
    <3>1. loop \in Loops /\ loop.total + 1 \in Nat
      BY DEF RunnerInv, Typed, Loops
    <3>2. loop' = [loop EXCEPT !.pc = "next", !.total = loop.total + 1, !.accounted = 0,
                              !.known = 0, !.replace = FALSE]
      BY DEF Compact, Compacted
    <3>. QED
      BY <3>1, <3>2 DEF Loops
  <2>. QED
    BY <2>2, <2>3 DEF Compact, RunnerInv, Typed
<1>4. NumberedOK' /\ StoreOK' /\ ContextOK' /\ ExitIsStored'
  BY <1>2 DEF Compact, RunnerInv, NumberedOK, StoreOK, ContextOK, ExitIsStored, UnderWay, HistoryLen
<1>5. CountOK'
  BY <1>1, <1>2 DEF RunnerInv, Typed, Loops, CountOK, UnderWay
<1>6. SaidOK'
  <2>1. Len(conv.msgs) = spent + 1 /\ conv' = conv
    BY <1>2 DEF Compact, RunnerInv, SaidOK, UnderWay
  <2>2. Len(runner'.said) = 1 /\ runner'.said[1] = spent + 1
    BY <1>1
  <2>. QED
    BY <1>1, <1>2, <2>1, <2>2 DEF RunnerInv, Typed, SaidOK
<1>7. PhaseOK'
  BY <1>1, <1>2 DEF Compact, RunnerInv, PhaseOK, Overtaken
<1>8. UsageOK'
  <2>1. runner.phase = "running" /\ conv.status = "Working" /\ conv' = conv
    BY <1>2 DEF Compact, RunnerInv, PhaseOK
  <2>. QED
    BY <1>1, <1>2, <2>1 DEF RunnerInv, UsageOK, UnderWay
<1>. QED
  BY <1>3, <1>4, <1>5, <1>6, <1>7, <1>8 DEF RunnerInv

\* A new conversation: of those before it the status stays.
LEMMA BeginInv == RunnerInv /\ Begin => RunnerInv'
<1>. SUFFICES ASSUME RunnerInv, Begin PROVE RunnerInv'
  OBVIOUS
<1>. DEFINE old == [i \in 1..Len(kept) |-> Bare(kept[i])]
            id == Len(kept) + 1
<1>0. Len(kept) \in Nat /\ kept \in [1..Len(kept) -> Conversations]
  BY LenProperties DEF RunnerInv, Typed
<1>1. /\ conv'.id = id /\ conv'.status = "Working" /\ conv'.msgs = <<0>> /\ conv'.usage = 0
      /\ conv' \in Conversations
  BY <1>0 DEF Begin, Conversations, Statuses
<1>2. /\ runner'.phase = "running" /\ runner'.turns = 0 /\ runner'.said = <<0>>
      /\ runner'.total = 0 /\ runner' \in Runners /\ spent' = 0 /\ late' = FALSE
  BY DEF Begin, Runners
<1>3. PICK review \in {"none", "pending"} : loop' = [AtRest EXCEPT !.pc = "budget", !.review = review]
  BY DEF Begin
<1>4. /\ loop'.pc = "budget" /\ loop'.replace = TRUE /\ loop'.known = 0 /\ loop'.total = 0
      /\ loop'.accounted = 0 /\ loop'.unpersisted = 0 /\ loop'.failure = "none"
      /\ loop'.review # "asked" /\ loop' \in Loops
  BY <1>3 DEF AtRest, Loops
<1>5. /\ old \in Seq(Conversations) /\ Len(old) = Len(kept)
      /\ \A i \in 1..Len(kept) : old[i].id = kept[i].id /\ old[i].status = kept[i].status
  <2>1. \A i \in 1..Len(kept) : /\ Bare(kept[i]) \in Conversations
                               /\ Bare(kept[i]).id = kept[i].id
                               /\ Bare(kept[i]).status = kept[i].status
    BY <1>0, EmptySeq DEF Bare, Conversations
  <2>2. old \in [1..Len(kept) -> Conversations]
    BY <2>1
  <2>. QED
    BY <1>0, <2>1, <2>2, LenProperties, SeqDef
<1>6. /\ kept' \in Seq(Conversations) /\ Len(kept') = id /\ kept'[id] = conv'
      /\ \A i \in 1..Len(kept) : kept'[i].id = kept[i].id /\ kept'[i].status = kept[i].status
  BY <1>0, <1>1, <1>5, AppendProperties DEF Begin
<1>7. Typed'
  <2>1. host' = host /\ ring' = ring
    BY DEF Begin
  <2>. QED
    BY <1>1, <1>2, <1>4, <1>6, <2>1 DEF RunnerInv, Typed
<1>8. NumberedOK'
  <2>1. conv'.id # NoConv.id
    BY <1>0, <1>1 DEF NoConv
  <2>2. \A i \in 1..id : kept'[i].id = i
    BY <1>0, <1>1, <1>6 DEF RunnerInv, NumberedOK
  <2>. QED
    BY <1>0, <1>1, <1>4, <1>6, <2>1, <2>2 DEF NumberedOK, UnderWay
<1>9. CountOK' /\ UsageOK' /\ StoreOK' /\ PhaseOK' /\ ExitIsStored'
  BY <1>1, <1>2, <1>4, <1>6 DEF CountOK, UsageOK, StoreOK, PhaseOK, ExitIsStored, UnderWay, Overtaken
<1>10. SaidOK'
  BY <1>1, <1>2, <1>4 DEF SaidOK
<1>11. ContextOK'
  <2>1. ring' = ring /\ host' = host /\ HistoryLen' = HistoryLen
    BY DEF Begin, HistoryLen
  <2>2. \A i \in 1..Len(ring) : ring[i] \in 1..Len(kept)
    BY DEF RunnerInv, ContextOK
  <2>. QED
    BY <1>0, <1>1, <1>6, <2>1, <2>2 DEF RunnerInv, ContextOK
<1>. QED
  BY <1>7, <1>8, <1>9, <1>10, <1>11 DEF RunnerInv

\* A snapshot replaces the conversation's own entry.
LEMMA Persisting ==
  ASSUME RunnerInv, UnderWay, conv' \in Conversations, conv'.id = conv.id, Persist
  PROVE  /\ kept' \in Seq(Conversations) /\ Len(kept') = Len(kept)
         /\ conv.id \in 1..Len(kept) /\ kept'[conv.id] = conv'
         /\ \A i \in 1..Len(kept) : i # conv.id => kept'[i] = kept[i]
<1>1. kept \in Seq(Conversations) /\ Len(kept) \in Nat /\ conv.id \in 1..Len(kept)
  BY LenProperties DEF RunnerInv, Typed, NumberedOK
<1>. QED
  BY <1>1, ExceptSeq DEF Persist

\* The exit.
LEMMA LeaveLoopInv == RunnerInv /\ LeaveLoop => RunnerInv'
<1>. SUFFICES ASSUME RunnerInv, LeaveLoop PROVE RunnerInv'
  OBVIOUS
<1>1. /\ loop.pc = "exit" /\ loop'.pc = "rest" /\ loop' \in Loops /\ loop'.failure = loop.failure
      /\ loop'.review = loop.review /\ loop'.unpersisted = loop.unpersisted
      /\ UNCHANGED <<host, runner, ring, spent, late>>
  BY DEF LeaveLoop, RunnerInv, Typed, Loops
<1>2. UnderWay /\ ~UnderWay' /\ conv # NoConv /\ conv.id = Len(kept) /\ Len(kept) \in Nat \ {0}
  BY <1>1, LenProperties DEF UnderWay, RunnerInv, NumberedOK, Typed
<1>3. /\ conv' \in Conversations /\ conv'.id = conv.id /\ conv'.msgs = conv.msgs
      /\ loop.failure = "none" => conv' = conv
      /\ loop.failure # "none" => conv'.status = "Failed" /\ conv'.usage = runner.total
  BY DEF LeaveLoop, RunnerInv, Typed, Conversations, Statuses, Runners
<1>4. /\ kept' \in Seq(Conversations) /\ Len(kept') = Len(kept) /\ kept'[conv.id] = conv'
      /\ \A i \in 1..Len(kept) : i # conv.id => kept'[i] = kept[i]
  <2>1. CASE loop.failure # "none" \/ (loop.unpersisted > 0 /\ conv.status = "Working")
    BY <1>2, <1>3, <2>1, Persisting DEF LeaveLoop
  <2>2. CASE ~(loop.failure # "none" \/ (loop.unpersisted > 0 /\ conv.status = "Working"))
    <3>1. loop.unpersisted = 0
      BY <1>2, <2>2 DEF RunnerInv, StoreOK, Typed, Loops
    <3>. QED
      BY <1>2, <1>3, <2>2, <3>1 DEF LeaveLoop, RunnerInv, StoreOK, Typed
  <2>. QED
    BY <2>1, <2>2
<1>5. Typed' /\ NumberedOK'
  <2>1. Typed'
    BY <1>1, <1>3, <1>4 DEF RunnerInv, Typed
  <2>2. NumberedOK'
    BY <1>2, <1>3, <1>4 DEF RunnerInv, NumberedOK, UnderWay
  <2>. QED
    BY <2>1, <2>2
<1>6. CountOK' /\ SaidOK' /\ UsageOK' /\ StoreOK'
  BY <1>1, <1>2, <1>3 DEF RunnerInv, CountOK, SaidOK, UsageOK, StoreOK
<1>7. PhaseOK'
  BY <1>1 DEF RunnerInv, PhaseOK, Overtaken
<1>8. ContextOK'
  <2>1. loop.failure # "none" /\ conv.status = "Completed" => host = "maintenance"
    BY <1>1 DEF RunnerInv, PhaseOK
  <2>2. \A i \in 1..Len(ring) :
          /\ ring[i] \in 1..Len(kept)
          /\ \/ kept'[ring[i]].status = "Completed"
             \/ kept'[ring[i]].status = "Failed" /\ host = "maintenance"
    BY <1>2, <1>3, <1>4, <2>1 DEF RunnerInv, ContextOK
  <2>3. HistoryLen' = HistoryLen
    BY <1>1 DEF HistoryLen
  <2>4. conv'.status = "Completed" => conv' = conv
    BY <1>3
  <2>. QED
    BY <1>1, <1>2, <1>3, <1>4, <2>2, <2>3, <2>4 DEF RunnerInv, ContextOK
<1>9. ExitIsStored'
  <2>1. kept'[conv'.id] = conv'
    BY <1>3, <1>4
  <2>2. \/ loop.review = "asked" \/ Overtaken' \/ conv'.status = "Working" \/ conv'.usage = spent
    <3>1. CASE loop.failure = "none"
      BY <1>2, <1>3, <3>1 DEF RunnerInv, UsageOK
    <3>2. CASE loop.failure # "none"
      BY <1>1, <1>2, <1>3, <3>2 DEF RunnerInv, PhaseOK, UsageOK, Overtaken
    <3>. QED
      BY <3>1, <3>2
  <2>. QED
    BY <1>1, <2>1, <2>2 DEF ExitIsStored
<1>. QED
  BY <1>5, <1>6, <1>7, <1>8, <1>9 DEF RunnerInv

-----------------------------------------------------------------------------
(* A turn.                                                                 *)

\* What follows the first k elements of a sequence.
LEMMA Rest ==
  ASSUME NEW s \in Seq(Nat), NEW k \in Nat, k <= Len(s)
  PROVE  /\ SubSeq(s, k + 1, Len(s)) \in Seq(Nat)
         /\ Len(SubSeq(s, k + 1, Len(s))) = Len(s) - k
         /\ \A i \in 1..(Len(s) - k) : SubSeq(s, k + 1, Len(s))[i] = s[k + i]
<1>1. Len(s) \in Nat /\ \A i \in 1..Len(s) : s[i] \in Nat
  BY LenProperties, ElementOfSeq
<1>2. k + 1 \in Int /\ Len(s) \in Int /\ \A i \in (k + 1)..Len(s) : s[i] \in Nat
  BY <1>1
<1>. DEFINE r == SubSeq(s, k + 1, Len(s))
<1>3. /\ r \in Seq(Nat)
      /\ Len(r) = IF k + 1 <= Len(s) THEN Len(s) - (k + 1) + 1 ELSE 0
      /\ \A i \in 1..(Len(s) - (k + 1) + 1) : r[i] = s[k + 1 + i - 1]
  BY <1>2, SubSeqProperties
<1>. HIDE DEF r
<1>4. Len(r) = Len(s) - k /\ \A i \in 1..(Len(s) - k) : r[i] = s[k + i]
  BY <1>1, <1>3
<1>. QED
  BY <1>3, <1>4 DEF r

\* One more thing said: the runner's history stays consecutive.
LEMMA Saying ==
  ASSUME NEW s \in Seq(Nat), NEW n \in Nat,
         \A i \in 1..Len(s) : s[i] + Len(s) = n + i
  PROVE  LET t == Append(s, n + 1)
         IN  /\ t \in Seq(Nat) /\ Len(t) = Len(s) + 1
             /\ \A i \in 1..Len(t) : t[i] + Len(t) = n + 1 + i
<1>. DEFINE t == Append(s, n + 1)
<1>1. Len(s) \in Nat /\ \A i \in 1..Len(s) : s[i] \in Nat
  BY LenProperties, ElementOfSeq
<1>2. /\ t \in Seq(Nat) /\ Len(t) = Len(s) + 1 /\ t[Len(s) + 1] = n + 1
      /\ \A i \in 1..Len(s) : t[i] = s[i]
  BY AppendProperties, n + 1 \in Nat
<1>. HIDE DEF t
<1>3. ASSUME NEW i \in 1..Len(t) PROVE t[i] + Len(t) = n + 1 + i
  <2>1. CASE i \in 1..Len(s)
    <3>1. t[i] = s[i] /\ s[i] \in Nat /\ s[i] + Len(s) = n + i
      BY <1>1, <1>2, <2>1
    <3>2. Len(t) = Len(s) + 1 /\ Len(s) \in Nat /\ i \in Nat
      BY <1>1, <1>2, <2>1
    <3>3. t[i] + Len(t) = s[i] + (Len(s) + 1)
      BY <3>1, <3>2
    <3>4. s[i] + (Len(s) + 1) = (s[i] + Len(s)) + 1
      BY <3>1, <3>2
    <3>. QED
      BY <3>1, <3>2, <3>3, <3>4
  <2>2. CASE i = Len(s) + 1
    BY <1>1, <1>2, <2>2
  <2>. QED
    BY <1>1, <1>2, <2>1, <2>2
<1>. QED
  BY <1>2, <1>3 DEF t

\* Two consecutive pieces make a whole transcript.
LEMMA Joining ==
  ASSUME NEW old \in Seq(Nat), NEW new \in Seq(Nat),
         \A i \in 1..Len(old) : old[i] = i - 1,
         \A i \in 1..Len(new) : new[i] = Len(old) + i - 1
  PROVE  /\ old \o new \in Seq(Nat) /\ Len(old \o new) = Len(old) + Len(new)
         /\ \A i \in 1..Len(old \o new) : (old \o new)[i] = i - 1
<1>. DEFINE m == old \o new
<1>1. Len(old) \in Nat /\ Len(new) \in Nat
  BY LenProperties
<1>2. /\ m \in Seq(Nat) /\ Len(m) = Len(old) + Len(new)
      /\ \A i \in 1..Len(old) + Len(new) :
           m[i] = IF i <= Len(old) THEN old[i] ELSE new[i - Len(old)]
  BY ConcatProperties
<1>. HIDE DEF m
<1>3. ASSUME NEW i \in 1..Len(m) PROVE m[i] = i - 1
  <2>1. CASE i <= Len(old)
    BY <1>1, <1>2, <2>1
  <2>2. CASE ~(i <= Len(old))
    <3>1. i - Len(old) \in 1..Len(new) /\ m[i] = new[i - Len(old)]
      BY <1>1, <1>2, <2>2
    <3>. QED
      BY <1>1, <3>1
  <2>. QED
    BY <2>1, <2>2
<1>. QED
  BY <1>2, <1>3 DEF m

\* What is appended to the transcript: the part of the runner's history that
\* is not recorded yet.
LEMMA Appending ==
  ASSUME RunnerInv, loop.pc = "next"
  PROVE  LET msgs == AppendHistory(conv.msgs, Append(runner.said, spent + 1), loop.known, loop.replace)
         IN  /\ msgs \in Seq(Nat) /\ Len(msgs) = spent + 2
             /\ \A i \in 1..Len(msgs) : msgs[i] = i - 1
<1>. DEFINE said == Append(runner.said, spent + 1)
            new == SubSeq(said, loop.known + 1, Len(said))
            old == IF loop.replace THEN <<>> ELSE conv.msgs
            m == old \o new
<1>1. /\ runner.said \in Seq(Nat) /\ Len(runner.said) \in Nat /\ conv.msgs \in Seq(Nat)
      /\ Len(conv.msgs) \in Nat /\ loop.known \in Nat /\ spent \in Nat /\ loop.replace \in BOOLEAN
  BY LenProperties DEF RunnerInv, Typed, Runners, Conversations, Loops
<1>2. /\ \A i \in 1..Len(runner.said) : runner.said[i] + Len(runner.said) = spent + i
      /\ \A i \in 1..Len(conv.msgs) : conv.msgs[i] = i - 1
      /\ loop.known <= Len(runner.said)
      /\ (IF loop.replace THEN 0 ELSE Len(conv.msgs)) + Len(runner.said) = spent + 1 + loop.known
  <2>1. SaidOK /\ UnderWay
    BY DEF RunnerInv, UnderWay
  <2>2. /\ loop.known <= Len(runner.said)
        /\ (IF loop.replace THEN 0 ELSE Len(conv.msgs)) + Len(runner.said) = spent + 1 + loop.known
    <3>1. CASE loop.replace
      <4>1. loop.known = 0 /\ spent = 0 /\ Len(runner.said) = 1
        BY <2>1, <3>1 DEF SaidOK
      <4>. QED
        BY <3>1, <4>1
    <3>2. CASE ~loop.replace
      BY <1>1, <2>1, <3>2 DEF SaidOK
    <3>. QED
      BY <1>1, <3>1, <3>2
  <2>3. /\ \A i \in 1..Len(runner.said) : runner.said[i] + Len(runner.said) = spent + i
        /\ \A i \in 1..Len(conv.msgs) : conv.msgs[i] = i - 1
    BY <2>1 DEF SaidOK
  <2>. QED
    BY <2>2, <2>3
<1>3. /\ said \in Seq(Nat) /\ Len(said) = Len(runner.said) + 1
      /\ \A i \in 1..Len(said) : said[i] + Len(said) = spent + 1 + i
  BY <1>1, <1>2, Saying
<1>4. /\ old \in Seq(Nat) /\ Len(old) = (IF loop.replace THEN 0 ELSE Len(conv.msgs))
      /\ \A i \in 1..Len(old) : old[i] = i - 1
  BY <1>1, <1>2, EmptySeq
<1>5. AppendHistory(conv.msgs, said, loop.known, loop.replace) = m
  <2>1. Len(said) >= loop.known
    BY <1>1, <1>2, <1>3
  <2>. QED
    BY <2>1 DEF AppendHistory
<1>. HIDE DEF said
<1>6. /\ new \in Seq(Nat) /\ Len(new) = Len(said) - loop.known
      /\ \A i \in 1..(Len(said) - loop.known) : new[i] = said[loop.known + i]
  <2>1. loop.known <= Len(said)
    BY <1>1, <1>2, <1>3
  <2>. QED
    BY <1>1, <1>3, <2>1, Rest
<1>. HIDE DEF new, old, m
<1>7. Len(old) + Len(said) = spent + 2 + loop.known /\ Len(old) \in Nat
  <2>1. /\ Len(old) \in Nat /\ Len(runner.said) \in Nat /\ spent \in Nat /\ loop.known \in Nat
        /\ Len(old) = IF loop.replace THEN 0 ELSE Len(conv.msgs)
    BY <1>1, <1>4
  <2>2. Len(old) + Len(runner.said) = spent + 1 + loop.known
    BY <1>2, <2>1
  <2>3. Len(said) = Len(runner.said) + 1
    BY <1>3
  <2>4. Len(old) \in Nat /\ Len(runner.said) \in Nat /\ spent \in Nat /\ loop.known \in Nat
    BY <2>1
  <2>5. Len(old) + Len(said) = (Len(old) + Len(runner.said)) + 1
    BY <2>3, <2>4
  <2>6. (spent + 1 + loop.known) + 1 = spent + 2 + loop.known
    BY <2>4
  <2>. QED
    BY <2>2, <2>4, <2>5, <2>6
<1>8. ASSUME NEW i \in 1..Len(new) PROVE new[i] = Len(old) + i - 1
  <2>1. loop.known + i \in 1..Len(said) /\ new[i] = said[loop.known + i]
    <3>1. i \in 1..(Len(said) - loop.known) /\ Len(said) \in Nat /\ loop.known \in Nat
      BY <1>1, <1>3, <1>6
    <3>2. new[i] = said[loop.known + i]
      BY <1>6, <3>1
    <3>3. \A n, k \in Nat : \A j \in 1..(n - k) : k + j \in 1..n
      OBVIOUS
    <3>. QED
      BY <3>1, <3>2, <3>3
  <2>2. said[loop.known + i] + Len(said) = spent + 1 + (loop.known + i) /\ new[i] \in Nat
    BY <1>3, <1>6, <2>1, ElementOfSeq
  <2>3. /\ new[i] + Len(said) = spent + 1 + (loop.known + i) /\ i \in Nat /\ Len(said) \in Nat
        /\ new[i] \in Nat /\ loop.known \in Nat /\ spent \in Nat
    BY <1>1, <1>3, <2>1, <2>2
  <2>4. (spent + 2 + loop.known) + i - 1 = spent + 1 + (loop.known + i)
    <3>1. \A s, k, j \in Nat : (s + 2 + k) + j - 1 = s + 1 + (k + j)
      OBVIOUS
    <3>. QED
      BY <2>3, <3>1
  <2>5. new[i] + Len(said) = (Len(old) + Len(said)) + i - 1
    BY <1>7, <2>3, <2>4
  <2>. QED
    BY <1>7, <2>3, <2>5
<1>9. /\ m \in Seq(Nat) /\ Len(m) = Len(old) + Len(new)
      /\ \A i \in 1..Len(m) : m[i] = i - 1
  BY <1>4, <1>6, <1>8, Joining DEF m
<1>10. Len(m) = spent + 2
  <2>1. Len(m) = Len(old) + (Len(said) - loop.known)
    BY <1>6, <1>9
  <2>2. Len(old) \in Nat /\ Len(said) \in Nat /\ loop.known \in Nat /\ spent \in Nat
    BY <1>1, <1>3, <1>7
  <2>3. Len(old) + Len(said) = spent + 2 + loop.known
    BY <1>7
  <2>. QED
    BY <2>1, <2>2, <2>3
<1>. QED
  BY <1>5, <1>9, <1>10 DEF said, m

\* What the ring becomes: the newest of what it held, and the conversation
\* that completed.
LEMMA Pushing ==
  ASSUME RunnerInv, UnderWay, conv.status # "Completed",
         NEW c \in Conversations, c.id = conv.id, c.status = "Completed"
  PROVE  LET r == Pushed(ring, c)
         IN  /\ r \in Seq(Nat) /\ r # <<>> /\ Len(r) <= HistoryLen /\ r[Len(r)] = c.id
             /\ \A i, j \in 1..Len(r) : i < j => r[i] < r[j]
             /\ \A i \in 1..Len(r) : r[i] = c.id \/ \E j \in 1..Len(ring) : r[i] = ring[j]
<1>. DEFINE all == Append(ring, c.id)
            skip == IF Len(all) > HistoryLen THEN Len(all) - HistoryLen ELSE 0
            r == SubSeq(all, 1 + skip, Len(all))
<1>. HIDE DEF all, skip, r
<1>1. /\ ring \in Seq(Nat) /\ Len(ring) \in Nat /\ Len(ring) <= HistoryLen
      /\ HistoryLen \in {1, 2} /\ c.id \in Nat
  BY LenProperties DEF RunnerInv, Typed, ContextOK, HistoryLen, Conversations
<1>2. /\ all \in Seq(Nat) /\ Len(all) = Len(ring) + 1 /\ all[Len(ring) + 1] = c.id
      /\ \A i \in 1..Len(ring) : all[i] = ring[i]
  BY <1>1, AppendProperties DEF all
<1>3. \A i \in 1..Len(ring) : ring[i] \in Nat /\ ring[i] < c.id
  <2>1. conv.id = Len(kept) /\ Len(kept) \in Nat
    BY LenProperties DEF RunnerInv, NumberedOK, Typed
  <2>2. \A i \in 1..Len(ring) : ring[i] \in 1..Len(kept) /\ ring[i] # conv.id
    BY DEF RunnerInv, ContextOK
  <2>3. \A k \in 1..Len(kept) : k # conv.id => k < conv.id
    BY <2>1
  <2>. QED
    BY <2>2, <2>3
<1>4. \A i, j \in 1..Len(all) : i < j => all[i] < all[j]
  <2>1. \A i, j \in 1..Len(ring) : i < j => ring[i] < ring[j]
    BY DEF RunnerInv, ContextOK
  <2>2. \A i \in 1..Len(all) : i \in 1..Len(ring) \/ i = Len(ring) + 1
    BY <1>1, <1>2
  <2>3. \A i \in 1..Len(ring) : ~(Len(ring) + 1 < i)
    BY <1>1
  <2>. HIDE DEF RunnerInv
  <2>. QED
    BY <1>1, <1>2, <1>3, <2>1, <2>2, <2>3
<1>5. skip \in 0..Len(ring) /\ Len(all) - skip <= HistoryLen
  BY <1>1, <1>2 DEF skip
<1>6. /\ r \in Seq(Nat) /\ Len(r) = Len(all) - skip
      /\ \A i \in 1..Len(r) : r[i] = all[skip + i]
  <2>1. \A i \in (1 + skip)..Len(all) : all[i] \in Nat
    BY <1>1, <1>2, <1>5, ElementOfSeq
  <2>2. 1 + skip \in Int /\ Len(all) \in Int
    BY <1>1, <1>2, <1>5
  <2>3. /\ r \in Seq(Nat)
        /\ Len(r) = IF 1 + skip <= Len(all) THEN Len(all) - (1 + skip) + 1 ELSE 0
        /\ \A i \in 1..(Len(all) - (1 + skip) + 1) : r[i] = all[1 + skip + i - 1]
    BY <2>1, <2>2, SubSeqProperties DEF r
  <2>. QED
    BY <1>1, <1>2, <1>5, <2>3
<1>7. Pushed(ring, c) = r
  BY DEF Pushed, r, skip, all
<1>8. Len(r) \in Nat \ {0} /\ Len(r) <= HistoryLen /\ r[Len(r)] = c.id /\ r # <<>>
  <2>1. Len(r) \in 1..HistoryLen /\ skip + Len(r) = Len(all)
    BY <1>1, <1>2, <1>5, <1>6
  <2>2. r[Len(r)] = all[Len(all)]
    BY <1>6, <2>1
  <2>. QED
    BY <1>2, <2>1, <2>2, EmptySeq
<1>9. \A i, j \in 1..Len(r) : i < j => r[i] < r[j]
  BY <1>1, <1>2, <1>4, <1>5, <1>6
<1>10. ASSUME NEW i \in 1..Len(r) PROVE r[i] = c.id \/ \E j \in 1..Len(ring) : r[i] = ring[j]
  <2>1. skip + i \in 1..(Len(ring) + 1) /\ r[i] = all[skip + i]
    BY <1>1, <1>2, <1>5, <1>6
  <2>2. CASE skip + i = Len(ring) + 1
    BY <1>2, <2>1, <2>2
  <2>3. CASE skip + i \in 1..Len(ring)
    BY <1>2, <2>1, <2>3
  <2>. QED
    BY <1>1, <2>1, <2>2, <2>3
<1>. QED
  BY <1>6, <1>7, <1>8, <1>9, <1>10

\* The runner goes on, ends (by idling where it is unbound), or is refused.
Ended(phase, refused) ==
  /\ phase \in {"running", "idle", "done"} /\ refused \in BOOLEAN
  /\ phase = "running" => ~refused
  /\ phase = "idle" => ~refused /\ host = "formation"
  /\ phase = "done" => refused \/ host # "formation"

\* What a turn makes of the conversation, the loop and the runner.
Outcome ==
  \/ conv'.status = "Working" /\ loop'.pc = "budget" /\ runner'.phase = "running"
  \/ conv'.status = "Completed" /\ loop'.pc = "budget" /\ runner'.phase = "done" /\ host = "maintenance"
  \/ conv'.status = "Completed" /\ loop'.pc = "exit" /\ runner'.phase # "running"
  \/ conv'.status = "Failed" /\ loop'.pc = "exit" /\ runner'.phase = "done"

LEMMA TurnOutcome ==
  ASSUME RunnerInv, NEW phase, NEW refused, Ended(phase, refused), TakeTurn(phase, refused)
  PROVE  /\ Outcome /\ runner.phase = "running" /\ conv.status = "Working"
         /\ loop.pc = "next" /\ loop.failure = "none" /\ spent' = spent + 1
         /\ UNCHANGED <<host, late>>
         /\ runner' \in Runners /\ runner'.turns = runner.turns + 1
         /\ runner'.said = Append(runner.said, spent + 1)
         /\ loop' \in Loops /\ loop'.failure = "none" /\ loop'.replace = FALSE
         /\ loop'.known = Len(runner.said) + 1 /\ loop'.total = loop.total + 1
         /\ loop'.accounted = runner.turns + 1
         /\ conv'.id = conv.id /\ conv' \in Conversations
         /\ conv'.msgs = AppendHistory(conv.msgs, Append(runner.said, spent + 1), loop.known, loop.replace)
         /\ ring' = Pushed(ring, conv')
         /\ \/ loop'.unpersisted = 0 /\ Persist
            \/ ~Finished(conv'.status) /\ loop'.unpersisted > 0 /\ kept' = kept
         /\ conv'.usage = runner.total + 1
         /\ loop.review = "asked" => loop'.review = "asked"
         /\ runner'.phase = "running" =>
              loop'.review = "asked" \/ runner'.total = runner.total + 1
<1>. DEFINE said == Append(runner.said, spent + 1)
            status == IF refused THEN "Failed" ELSE IF TurnIsDone(phase) THEN "Completed" ELSE "Working"
            asked == loop.review = "pending" /\ phase = "idle" /\ ~refused
            unsaved == loop.unpersisted + 1
            counted == IF runner.turns + 1 > loop.accounted THEN runner.turns + 1 - loop.accounted ELSE 0
            msgs == AppendHistory(conv.msgs, said, loop.known, loop.replace)
<1>1. /\ loop.pc = "next" /\ runner.phase # "done" /\ spent' = spent + 1
      /\ UNCHANGED <<host, late>>
      /\ runner' = [phase |-> IF asked THEN "running" ELSE phase,
                    turns |-> runner.turns + 1, said |-> said,
                    total |-> IF phase = "running" THEN runner.total + 1 ELSE 0]
      /\ conv' = [conv EXCEPT !.msgs = msgs, !.status = status, !.usage = runner.total + 1]
      /\ ring' = Pushed(ring, conv')
      /\ loop' = [loop EXCEPT !.pc = AfterTurn(status, phase), !.replace = FALSE,
                              !.known = Len(said), !.total = loop.total + counted,
                              !.accounted = runner.turns + 1,
                              !.review = IF asked THEN "asked" ELSE loop.review,
                              !.unpersisted = IF Due(status, unsaved) THEN 0 ELSE unsaved]
      /\ IF Due(status, unsaved) THEN Persist ELSE UNCHANGED kept
  BY DEF TakeTurn, MayCall
<1>2. runner.phase = "running" /\ conv.status = "Working" /\ loop.failure = "none"
  BY <1>1 DEF RunnerInv, PhaseOK
<1>3. /\ runner.said \in Seq(Nat) /\ runner.turns \in Nat /\ runner.total \in Nat /\ spent \in Nat
      /\ loop \in Loops /\ loop.unpersisted \in Nat /\ loop.total \in Nat
      /\ conv \in Conversations /\ loop.accounted = runner.turns
      /\ loop.review \in {"none", "pending", "asked"} /\ host \in {"formation", "maintenance", "recall"}
  BY <1>1 DEF RunnerInv, Typed, Runners, Loops, CountOK, UnderWay
<1>4. said \in Seq(Nat) /\ Len(said) = Len(runner.said) + 1 /\ Len(said) \in Nat
  BY <1>3, AppendProperties, LenProperties, spent + 1 \in Nat
<1>5. msgs \in Seq(Nat)
  BY <1>1, Appending
<1>. HIDE DEF said, msgs
<1>6. counted = 1
  BY <1>3
<1>7. status \in {"Working", "Completed", "Failed"} /\ AfterTurn(status, phase) \in {"budget", "exit"}
  BY <1>3 DEF AfterTurn, TurnIsDone
<1>8. unsaved \in Nat /\ unsaved > 0
  BY <1>3
<1>. HIDE DEF counted, status, asked, unsaved
<1>9. /\ runner'.phase = (IF asked THEN "running" ELSE phase) /\ runner'.turns = runner.turns + 1
      /\ runner'.said = said /\ runner'.total = (IF phase = "running" THEN runner.total + 1 ELSE 0)
      /\ runner' \in Runners
  <2>1. (IF asked THEN "running" ELSE phase) \in {"running", "idle", "done"}
    BY DEF Ended
  <2>2. runner.turns + 1 \in Nat /\ (IF phase = "running" THEN runner.total + 1 ELSE 0) \in Nat
    BY <1>3
  <2>. QED
    BY <1>1, <1>4, <2>1, <2>2 DEF Runners
<1>10. /\ conv'.msgs = msgs /\ conv'.status = status /\ conv'.usage = runner.total + 1
       /\ conv'.id = conv.id /\ conv' \in Conversations
  <2>1. status \in Statuses /\ runner.total + 1 \in Nat
    BY <1>3, <1>7 DEF Statuses
  <2>2. conv' = [conv EXCEPT !.msgs = msgs, !.status = status, !.usage = runner.total + 1]
    BY <1>1
  <2>. QED
    BY <1>3, <1>5, <2>1, <2>2 DEF Conversations
<1>11. /\ loop'.pc = AfterTurn(status, phase) /\ loop'.replace = FALSE /\ loop'.known = Len(said)
       /\ loop'.total = loop.total + 1 /\ loop'.accounted = runner.turns + 1
       /\ loop'.review = (IF asked THEN "asked" ELSE loop.review)
       /\ loop'.unpersisted = (IF Due(status, unsaved) THEN 0 ELSE unsaved)
       /\ loop'.failure = "none"
  BY <1>1, <1>2, <1>3, <1>6 DEF Loops
<1>12. loop' \in Loops
  <2>1. loop.total + counted \in Nat /\ runner.turns + 1 \in Nat
    BY <1>3, <1>6
  <2>2. (IF asked THEN "asked" ELSE loop.review) \in {"none", "pending", "asked"}
    BY <1>3
  <2>3. (IF Due(status, unsaved) THEN 0 ELSE unsaved) \in Nat
    BY <1>8
  <2>. QED
    BY <1>1, <1>3, <1>4, <1>7, <2>1, <2>2, <2>3 DEF Loops
<1>13. Outcome
  <2>1. CASE refused
    <3>1. phase = "done" /\ ~asked
      BY <2>1 DEF Ended, asked
    <3>2. status = "Failed"
      BY <2>1 DEF status
    <3>3. AfterTurn(status, phase) = "exit"
      BY <3>2 DEF AfterTurn
    <3>. QED
      BY <1>9, <1>10, <1>11, <3>1, <3>2, <3>3 DEF Outcome
  <2>2. CASE phase = "running"
    BY <1>3, <1>9, <1>10, <1>11, <2>2 DEF Outcome, Ended, AfterTurn, TurnIsDone, status, asked
  <2>3. CASE phase = "idle" /\ loop.review = "pending"
    BY <1>3, <1>9, <1>10, <1>11, <2>3 DEF Outcome, Ended, AfterTurn, TurnIsDone, status, asked
  <2>4. CASE phase = "idle" /\ loop.review # "pending"
    BY <1>3, <1>9, <1>10, <1>11, <2>4 DEF Outcome, Ended, AfterTurn, TurnIsDone, status, asked
  <2>5. CASE phase = "done" /\ ~refused
    BY <1>3, <1>9, <1>10, <1>11, <2>5 DEF Outcome, Ended, AfterTurn, TurnIsDone, status, asked
  <2>. QED
    BY <2>1, <2>2, <2>3, <2>4, <2>5 DEF Ended
<1>14. \/ loop'.unpersisted = 0 /\ Persist
       \/ ~Finished(conv'.status) /\ loop'.unpersisted > 0 /\ kept' = kept
  BY <1>1, <1>8, <1>10, <1>11 DEF Due
<1>15. /\ loop.review = "asked" => loop'.review = "asked"
       /\ runner'.phase = "running" =>
            loop'.review = "asked" \/ runner'.total = runner.total + 1
  BY <1>9, <1>11 DEF asked
<1>. QED
  BY <1>1, <1>2, <1>4, <1>9, <1>10, <1>11, <1>12, <1>13, <1>14, <1>15 DEF said, msgs

\* A turn is counted, recorded and, when it is the last, stored.
LEMMA TakeTurnInv ==
  ASSUME RunnerInv, NEW phase, NEW refused, Ended(phase, refused), TakeTurn(phase, refused)
  PROVE  RunnerInv'
<1>. DEFINE said == Append(runner.said, spent + 1)
<1>1. /\ Outcome /\ runner.phase = "running" /\ conv.status = "Working"
      /\ loop.pc = "next" /\ loop.failure = "none" /\ spent' = spent + 1
      /\ UNCHANGED <<host, late>>
  BY TurnOutcome
<1>2. /\ runner' \in Runners /\ runner'.turns = runner.turns + 1 /\ runner'.said = said
      /\ loop' \in Loops /\ loop'.failure = "none" /\ loop'.replace = FALSE
      /\ loop'.known = Len(runner.said) + 1 /\ loop'.total = loop.total + 1
      /\ loop'.accounted = runner.turns + 1
  BY TurnOutcome
<1>3. /\ conv'.id = conv.id /\ conv' \in Conversations
      /\ conv'.msgs = AppendHistory(conv.msgs, said, loop.known, loop.replace)
      /\ conv'.usage = runner.total + 1
      /\ ring' = Pushed(ring, conv')
  BY TurnOutcome
<1>4. \/ loop'.unpersisted = 0 /\ Persist
      \/ ~Finished(conv'.status) /\ loop'.unpersisted > 0 /\ kept' = kept
  BY TurnOutcome
<1>5. /\ loop.review = "asked" => loop'.review = "asked"
      /\ runner'.phase = "running" => loop'.review = "asked" \/ runner'.total = runner.total + 1
  BY TurnOutcome
<1>6. /\ UnderWay /\ UnderWay' /\ loop'.pc \in {"budget", "exit"}
      /\ conv'.status \in {"Working", "Completed", "Failed"}
  BY <1>1 DEF UnderWay, Outcome
<1>7. /\ conv.id = Len(kept) /\ Len(kept) \in Nat \ {0} /\ kept \in Seq(Conversations)
      /\ conv'.id # 0
  BY <1>3, <1>6, LenProperties DEF RunnerInv, NumberedOK, Typed
<1>8. /\ kept' \in Seq(Conversations) /\ Len(kept') = Len(kept)
      /\ \A i \in 1..Len(kept) : i # conv.id => kept'[i] = kept[i]
      /\ kept'[conv.id].id = conv.id
      /\ loop'.unpersisted = 0 => kept'[conv.id] = conv'
      /\ conv'.status # "Working" => loop'.unpersisted = 0
  <2>1. CASE loop'.unpersisted = 0 /\ Persist
    BY <1>3, <1>6, <2>1, Persisting
  <2>2. CASE ~Finished(conv'.status) /\ loop'.unpersisted > 0 /\ kept' = kept
    <3>1. loop'.unpersisted # 0
      BY <1>2, <2>2 DEF Loops
    <3>. QED
      BY <1>6, <1>7, <2>2, <3>1 DEF Finished, RunnerInv, NumberedOK
  <2>. QED
    BY <1>4, <2>1, <2>2
<1>9. /\ conv'.msgs \in Seq(Nat) /\ Len(conv'.msgs) = spent + 2
      /\ \A i \in 1..Len(conv'.msgs) : conv'.msgs[i] = i - 1
  BY <1>1, <1>3, Appending
<1>10. /\ spent \in Nat /\ runner.said \in Seq(Nat) /\ Len(runner.said) \in Nat
       /\ runner.total \in Nat /\ runner.turns \in Nat
  BY LenProperties DEF RunnerInv, Typed, Runners
<1>11. /\ said \in Seq(Nat) /\ Len(said) = Len(runner.said) + 1
       /\ \A i \in 1..Len(said) : said[i] + Len(said) = spent + 1 + i
  <2>1. \A i \in 1..Len(runner.said) : runner.said[i] + Len(runner.said) = spent + i
    BY <1>6 DEF RunnerInv, SaidOK
  <2>. QED
    BY <1>10, <2>1, Saying
<1>. HIDE DEF said
<1>12. ring' \in Seq(Nat) /\ ContextOK'
  <2>1. HistoryLen' = HistoryLen
    BY <1>1 DEF HistoryLen
  <2>2. /\ Len(ring) <= HistoryLen /\ \A i, j \in 1..Len(ring) : i < j => ring[i] < ring[j]
        /\ \A i \in 1..Len(ring) :
             /\ ring[i] \in 1..Len(kept) /\ ring[i] # conv.id
             /\ \/ kept[ring[i]].status = "Completed"
                \/ kept[ring[i]].status = "Failed" /\ host = "maintenance"
    <3>1. ContextOK /\ conv.status # "Completed" /\ UnderWay
      BY <1>1, <1>6 DEF RunnerInv
    <3>2. Len(ring) <= HistoryLen /\ \A i, j \in 1..Len(ring) : i < j => ring[i] < ring[j]
      BY <3>1 DEF ContextOK
    <3>3. ASSUME NEW i \in 1..Len(ring)
          PROVE  /\ ring[i] \in 1..Len(kept) /\ ring[i] # conv.id
                 /\ \/ kept[ring[i]].status = "Completed"
                    \/ kept[ring[i]].status = "Failed" /\ host = "maintenance"
      BY <3>1 DEF ContextOK
    <3>. QED
      BY <3>2, <3>3
  <2>3. \A i \in 1..Len(ring) :
          \/ kept'[ring[i]].status = "Completed"
          \/ kept'[ring[i]].status = "Failed" /\ host = "maintenance"
    BY <1>8, <2>2
  <2>4. CASE conv'.status = "Completed"
    <3>1. /\ ring' \in Seq(Nat) /\ ring' # <<>> /\ Len(ring') <= HistoryLen
          /\ ring'[Len(ring')] = conv.id
          /\ \A i, j \in 1..Len(ring') : i < j => ring'[i] < ring'[j]
          /\ \A i \in 1..Len(ring') : ring'[i] = conv.id \/ \E j \in 1..Len(ring) : ring'[i] = ring[j]
      BY <1>1, <1>3, <1>6, <2>4, Pushing
    <3>2. kept'[conv.id].status = "Completed"
      BY <1>8, <2>4
    <3>3. \A i \in 1..Len(ring') :
            /\ ring'[i] \in 1..Len(kept')
            /\ \/ kept'[ring'[i]].status = "Completed"
               \/ kept'[ring'[i]].status = "Failed" /\ host' = "maintenance"
      <4>. SUFFICES ASSUME NEW i \in 1..Len(ring')
                    PROVE  /\ ring'[i] \in 1..Len(kept')
                           /\ \/ kept'[ring'[i]].status = "Completed"
                              \/ kept'[ring'[i]].status = "Failed" /\ host' = "maintenance"
        OBVIOUS
      <4>1. CASE ring'[i] = conv.id
        BY <1>7, <1>8, <3>2, <4>1
      <4>2. CASE \E j \in 1..Len(ring) : ring'[i] = ring[j]
        BY <1>1, <1>8, <2>2, <2>3, <4>2
      <4>. QED
        BY <3>1, <4>1, <4>2
    <3>. QED
      BY <1>3, <2>1, <2>4, <3>1, <3>3 DEF ContextOK
  <2>5. CASE conv'.status # "Completed"
    <3>1. ring' = ring
      BY <1>3, <2>5 DEF Pushed
    <3>. QED
      BY <1>1, <1>3, <1>8, <2>1, <2>2, <2>3, <2>5, <3>1 DEF ContextOK, RunnerInv, Typed
  <2>. QED
    BY <2>4, <2>5
<1>13. Typed'
  BY <1>1, <1>2, <1>3, <1>8, <1>10, <1>12 DEF RunnerInv, Typed
<1>14. NumberedOK'
  <2>1. \A i \in 1..Len(kept') : kept'[i].id = i
    BY <1>7, <1>8 DEF RunnerInv, NumberedOK
  <2>. QED
    BY <1>3, <1>6, <1>7, <1>8, <2>1 DEF NumberedOK, NoConv
<1>15. CountOK'
  <2>1. spent <= MaxModelTurns /\ loop.total = spent
    BY <1>1, <1>6 DEF RunnerInv, CountOK
  <2>. QED
    BY <1>1, <1>2, <1>6, <1>10, <2>1 DEF CountOK
<1>16. SaidOK'
  <2>1. Len(runner'.said) = Len(runner.said) + 1 /\ runner'.said = said
    BY <1>2, <1>11
  <2>2. Len(runner.said) <= spent + 1
    BY <1>6 DEF RunnerInv, SaidOK
  <2>3. \A i \in 1..Len(runner'.said) : runner'.said[i] + Len(runner'.said) = spent' + i
    BY <1>1, <1>11, <2>1
  <2>. QED
    BY <1>1, <1>2, <1>6, <1>9, <1>10, <2>1, <2>2, <2>3 DEF SaidOK
<1>17. PhaseOK'
  BY <1>1, <1>2 DEF PhaseOK, Outcome, Overtaken
<1>18. UsageOK'
  <2>1. loop.review # "asked" => runner.total = spent
    BY <1>1, <1>6 DEF RunnerInv, UsageOK
  <2>. QED
    BY <1>1, <1>3, <1>5, <1>10, <2>1 DEF UsageOK
<1>19. StoreOK' /\ ExitIsStored'
  BY <1>3, <1>6, <1>8 DEF StoreOK, ExitIsStored
<1>. QED
  BY <1>12, <1>13, <1>14, <1>15, <1>16, <1>17, <1>18, <1>19 DEF RunnerInv

LEMMA TurnInv == RunnerInv /\ Turn => RunnerInv'
<1>. SUFFICES ASSUME RunnerInv, Turn PROVE RunnerInv'
  OBVIOUS
<1>1. host \in {"formation", "maintenance", "recall"}
  BY DEF RunnerInv, Typed
<1>2. CASE TakeTurn("running", FALSE)
  <2>1. Ended("running", FALSE)
    BY DEF Ended
  <2>. QED
    BY <1>2, <2>1, TakeTurnInv
<1>3. CASE host = "formation" /\ TakeTurn("idle", FALSE)
  <2>1. Ended("idle", FALSE)
    BY <1>3 DEF Ended
  <2>. QED
    BY <1>3, <2>1, TakeTurnInv
<1>4. CASE host # "formation" /\ TakeTurn("done", FALSE)
  <2>1. Ended("done", FALSE)
    BY <1>4 DEF Ended
  <2>. QED
    BY <1>4, <2>1, TakeTurnInv
<1>5. CASE TakeTurn("done", TRUE)
  <2>1. Ended("done", TRUE)
    BY DEF Ended
  <2>. QED
    BY <1>5, <2>1, TakeTurnInv
<1>6. CASE TakeTurn(IF host = "formation" THEN "idle" ELSE "done", FALSE)
  <2>1. CASE host = "formation"
    <3>1. (IF host = "formation" THEN "idle" ELSE "done") = "idle"
      BY <2>1
    <3>2. TakeTurn("idle", FALSE)
      BY <1>6, <3>1
    <3>. QED
      BY <1>3, <2>1, <3>2
  <2>2. CASE host # "formation"
    <3>1. (IF host = "formation" THEN "idle" ELSE "done") = "done"
      BY <2>2
    <3>2. TakeTurn("done", FALSE)
      BY <1>6, <3>1
    <3>. QED
      BY <1>4, <2>2, <3>2
  <2>. QED
    BY <2>1, <2>2
<1>. QED
  BY <1>2, <1>5, <1>6 DEF Turn

-----------------------------------------------------------------------------
(* A restart, and the theorem.                                             *)

\* A set of ids that is not empty has a newest.
LEMMA NewestId ==
  ASSUME NEW n \in Nat, NEW ids, ids \subseteq 1..n, ids # {}
  PROVE  Newest(ids) \in ids /\ \A j \in ids : j <= Newest(ids)
<1>. DEFINE bounds == {m \in Nat : \A j \in ids : j <= m}
            less == OpToRel(<, Nat)
<1>1. n \in bounds /\ bounds \subseteq Nat
  OBVIOUS
<1>. HIDE DEF less
<1>2. IsWellFoundedOn(less, Nat)
  BY NatLessThanWellFounded DEF less
<1>3. ASSUME NEW k \in Nat, NEW l \in Nat, k < l
      PROVE  <<k, l>> \in less
  <2>1. <<k, l>> \in Nat \X Nat /\ <<k, l>>[1] = k /\ <<k, l>>[2] = l
    OBVIOUS
  <2>2. <<k, l>>[1] < <<k, l>>[2]
    BY <1>3, <2>1
  <2>. QED
    BY <2>1, <2>2, Zenon DEF less, OpToRel
<1>4. PICK m \in bounds : \A k \in bounds : ~(<<k, m>> \in less)
  <2>. HIDE DEF bounds
  <2>. QED
    BY <1>1, <1>2, WFMin
<1>5. ASSUME NEW k \in bounds PROVE m <= k
  <2>1. k \in Nat /\ m \in Nat
    OBVIOUS
  <2>2. ~(k < m)
    <3>. HIDE DEF bounds
    <3>. QED
      BY <1>3, <1>4, <2>1
  <2>. QED
    BY <2>1, <2>2
<1>6. m \in ids
  <2>. SUFFICES ASSUME m \notin ids PROVE FALSE
    OBVIOUS
  <2>1. \A j \in ids : j \in Nat /\ j <= m /\ j # m
    BY <1>4
  <2>2. PICK j \in ids : j \in Nat /\ j <= m /\ j # m
    BY <2>1
  <2>3. m \in Nat /\ m - 1 \in bounds
    BY <1>4, <2>1, <2>2
  <2>. QED
    BY <1>5, <2>3
<1>. QED
  BY <1>4, <1>6 DEF Newest

\* What a restart takes from the store is fit for the ring.
LEMMA RecalledIsLatest ==
  ASSUME RunnerInv
  PROVE  /\ Recalled \in Seq(Nat) /\ Len(Recalled) <= HistoryLen
         /\ \A i, j \in 1..Len(Recalled) : i < j => Recalled[i] < Recalled[j]
         /\ \A i \in 1..Len(Recalled) :
              Recalled[i] \in 1..Len(kept) /\ kept[Recalled[i]].status = "Completed"
<1>. DEFINE window == CASE host = "maintenance" -> 2 [] host = "recall" -> 3 [] OTHER -> 32
            done == {i \in 1..Len(kept) : i + window > Len(kept) /\ kept[i].status = "Completed"}
            earlier == {i \in done \ {Newest(done)} : HistoryLen > 1}
<1>1. Len(kept) \in Nat /\ HistoryLen \in {1, 2}
  BY LenProperties DEF RunnerInv, Typed, HistoryLen
<1>2. done \subseteq 1..Len(kept) /\ \A i \in done : kept[i].status = "Completed"
  OBVIOUS
<1>3. Recalled = IF done = {} THEN <<>>
                 ELSE IF earlier = {} THEN <<Newest(done)>> ELSE <<Newest(earlier), Newest(done)>>
  BY DEF Recalled
<1>4. earlier \subseteq done \ {Newest(done)} /\ (HistoryLen = 1 => earlier = {})
  OBVIOUS
<1>. HIDE DEF done, earlier
<1>5. CASE done = {}
  <2>1. Recalled = <<>>
    BY <1>3, <1>5
  <2>. QED
    BY <1>1, <2>1
<1>6. CASE done # {} /\ earlier = {}
  <2>1. Newest(done) \in done
    BY <1>1, <1>2, <1>6, NewestId
  <2>2. Recalled = <<Newest(done)>>
    BY <1>3, <1>6
  <2>3. Newest(done) \in 1..Len(kept) /\ kept[Newest(done)].status = "Completed"
    BY <1>2, <2>1
  <2>. QED
    BY <1>1, <2>2, <2>3
<1>7. CASE done # {} /\ earlier # {}
  <2>1. Newest(done) \in done /\ \A j \in done : j <= Newest(done)
    BY <1>1, <1>2, <1>7, NewestId
  <2>2. Newest(earlier) \in earlier
    BY <1>1, <1>2, <1>4, <1>7, NewestId
  <2>3. /\ Newest(earlier) \in done /\ Newest(earlier) # Newest(done)
        /\ Newest(earlier) \in 1..Len(kept) /\ Newest(done) \in 1..Len(kept)
    BY <1>2, <1>4, <2>1, <2>2
  <2>4. Newest(earlier) < Newest(done)
    BY <1>1, <2>1, <2>3
  <2>5. HistoryLen = 2
    BY <1>1, <1>4, <1>7
  <2>6. kept[Newest(earlier)].status = "Completed" /\ kept[Newest(done)].status = "Completed"
    BY <1>2, <2>1, <2>3
  <2>. DEFINE a == Newest(earlier)
              b == Newest(done)
  <2>7. Recalled = <<a, b>>
    BY <1>3, <1>7
  <2>. HIDE DEF a, b
  <2>8. a \in Nat /\ b \in Nat
    BY <1>1, <2>3 DEF a, b
  <2>. QED
    BY <2>3, <2>4, <2>5, <2>6, <2>7, <2>8 DEF a, b
<1>. QED
  BY <1>5, <1>6, <1>7

LEMMA RestartInv == RunnerInv /\ Restart => RunnerInv'
<1>. SUFFICES ASSUME RunnerInv, Restart PROVE RunnerInv'
  OBVIOUS
<1>1. /\ runner' = NoRunner /\ conv' = NoConv /\ loop' = AtRest /\ ring' = Recalled
      /\ spent' = 0 /\ late' = FALSE /\ host' = host /\ kept' = kept
  BY DEF Restart
<1>2. /\ Recalled \in Seq(Nat) /\ Len(Recalled) <= HistoryLen
      /\ \A i, j \in 1..Len(Recalled) : i < j => Recalled[i] < Recalled[j]
      /\ \A i \in 1..Len(Recalled) :
           Recalled[i] \in 1..Len(kept) /\ kept[Recalled[i]].status = "Completed"
  BY RecalledIsLatest
<1>3. Typed'
  BY <1>1, <1>2, EmptySeq DEF RunnerInv, Typed, Runners, NoRunner, Conversations, Statuses,
                              NoConv, Loops, AtRest
<1>4. NumberedOK' /\ CountOK' /\ SaidOK' /\ PhaseOK' /\ UsageOK' /\ StoreOK' /\ ExitIsStored'
  BY <1>1 DEF RunnerInv, NumberedOK, CountOK, SaidOK, PhaseOK, UsageOK, StoreOK, ExitIsStored,
              NoRunner, NoConv, AtRest, UnderWay, Overtaken
<1>5. ContextOK'
  <2>1. HistoryLen' = HistoryLen /\ conv'.status = "none" /\ ~UnderWay'
    BY <1>1 DEF HistoryLen, NoConv, AtRest, UnderWay
  <2>. QED
    BY <1>1, <1>2, <2>1 DEF ContextOK
<1>. QED
  BY <1>3, <1>4, <1>5 DEF RunnerInv

\* Whatever the engine does, however often the process dies: the budget of an
\* agent run holds across compactions, and its transcript, its final status
\* with its usage, and its place in the context are as they happened.
THEOREM SoundRuns == RunnerSpec => []RunsAreSound
<1>1. RunnerInit => RunnerInv
  BY InitRunner
<1>2. RunnerInv /\ [RunnerNext]_runnerVars => RunnerInv'
  <2>. SUFFICES ASSUME RunnerInv, [RunnerNext]_runnerVars PROVE RunnerInv'
    OBVIOUS
  <2>1. CASE UNCHANGED runnerVars
    <3>1. Typed' /\ NumberedOK' /\ CountOK' /\ PhaseOK' /\ UsageOK' /\ StoreOK' /\ ExitIsStored'
      BY <2>1 DEF runnerVars, RunnerInv, Typed, NumberedOK, CountOK, PhaseOK, UsageOK,
                  StoreOK, ExitIsStored, UnderWay, Overtaken
    <3>2. SaidOK' /\ ContextOK'
      BY <2>1 DEF runnerVars, RunnerInv, SaidOK, ContextOK, UnderWay, HistoryLen
    <3>. QED
      BY <3>1, <3>2 DEF RunnerInv
  <2>2. CASE Begin
    BY <2>2, BeginInv
  <2>3. CASE TimePasses
    BY <2>3, TimePassesInv
  <2>4. CASE CheckBudget
    BY <2>4, CheckBudgetInv
  <2>5. CASE SkipCompaction
    BY <2>5, SkipCompactionInv
  <2>6. CASE Compact
    BY <2>6, CompactInv
  <2>7. CASE CompactFails \/ Cancel \/ NoMoreTurns \/ TurnErrs
    BY <2>7, LeavingInv
  <2>8. CASE Turn
    BY <2>8, TurnInv
  <2>9. CASE LeaveLoop
    BY <2>9, LeaveLoopInv
  <2>10. CASE Restart
    BY <2>10, RestartInv
  <2>. QED
    BY <2>1, <2>2, <2>3, <2>4, <2>5, <2>6, <2>7, <2>8, <2>9, <2>10 DEF RunnerNext, RunnerStep
<1>3. RunnerInv => RunsAreSound
  <2>. SUFFICES ASSUME RunnerInv PROVE RunsAreSound
    OBVIOUS
  <2>1. RunnerTypeOK
    BY DEF RunnerInv, Typed, Runners, Conversations, Statuses, Loops, NumberedOK, RunnerTypeOK
  <2>2. TurnsAreBounded
    BY DEF RunnerInv, CountOK, TurnsAreBounded
  <2>3. TranscriptIsWhole
    <3>1. conv.msgs \in Seq(Nat) /\ \A i \in 1..Len(conv.msgs) : conv.msgs[i] = i - 1
      BY DEF RunnerInv, Typed, Conversations, SaidOK
    <3>2. conv.msgs = [i \in 1..Len(conv.msgs) |-> conv.msgs[i]]
      BY <3>1, LenProperties
    <3>3. loop.pc = "budget" => Len(conv.msgs) = spent + 1
      BY DEF RunnerInv, SaidOK, UnderWay
    <3>. QED
      BY <3>1, <3>2, <3>3 DEF TranscriptIsWhole
  <2>4. ExitIsStored /\ RingIsLatest
    BY DEF RunnerInv, ContextOK, RingIsLatest
  <2>. QED
    BY <2>1, <2>2, <2>3, <2>4 DEF RunsAreSound
<1>. QED
  BY <1>1, <1>2, <1>3, PTL DEF RunnerSpec
=============================================================================
