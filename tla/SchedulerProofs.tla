--------------------------- MODULE SchedulerProofs --------------------------
(***************************************************************************)
(* Proofs about Scheduler, for any number of tasks and conversations, any  *)
(* thresholds and any budget of faults.  Of who is at work:                *)
(*   TypeCorrect       the state always has its type;                      *)
(*   OneFormationLoop  at most one formation loop owns the slot.  The      *)
(*                     strengthening LoopInv adds which tasks carry a      *)
(*                     conversation: a loop that owns the slot never holds *)
(*                     the id 0 that means "idle";                         *)
(*   OneMaintenance    at most one maintenance holds the flag, provided a  *)
(*                     cycle's conversation can always be stored.          *)
(*                     MaintInv follows the flag through the error path    *)
(*                     that drops the claim.  With the fault "add" it is   *)
(*                     false: the run SchedulerClaimLost.                  *)
(* Of what becomes of the conversations:                                   *)
(*   Implementation    if conversations can be read, it implements the     *)
(*                     queue of FormationQueue;                            *)
(*   SoundWatermark    under the same condition the watermark passes only  *)
(*                     what was encoded or waived.  With the fault "read"  *)
(*                     both are false: the instance SchedulerReadError;    *)
(*   ForwardOnly       whatever fails, the watermark never goes back;      *)
(*   MarksForward      if a cycle's conversation can be stored, scope      *)
(*                     marks only grow and stay behind the watermark;      *)
(*   NoWakeupLost      where nothing failed, a space at rest has an empty  *)
(*                     queue, unless a hand-off was its last step.         *)
(* Implementation and SoundWatermark share the invariant QueueInv.         *)
(* FormationQueue says that a conversation is encoded behind all others;   *)
(* QueueInv says from where on a task knows it: from the choice of its     *)
(* conversation, made in a scan that may be long past when the slot is     *)
(* taken.  WakeInv says who will still look: whoever owns the slot or the  *)
(* flag, and for a conversation past the watermark the task that is about  *)
(* to mark it.                                                             *)
(* Each NextXxx lemma has one step per action of Next.                     *)
(***************************************************************************)
EXTENDS Scheduler, TLAPS

\* The labels are program counters; PCs itself stays folded below.
LEMMA Labels ==
  /\ "encode" \in PCs /\ "reencode" \in PCs /\ "mark" \in PCs
  /\ "schedule" \in PCs /\ "claim" \in PCs /\ "claimed" \in PCs
  /\ "settle" \in PCs /\ "dispatch" \in PCs /\ "runCas" \in PCs
  /\ "run" \in PCs /\ "dropClaim" \in PCs /\ "handOff" \in PCs
  /\ "abort" \in PCs /\ "release" \in PCs /\ "next" \in PCs /\ "cycle" \in PCs
  /\ "cycleEnd" \in PCs /\ "idle" \in PCs /\ "ingest" \in PCs
  /\ "ingestIdle" \in PCs /\ "ingestPick" \in PCs /\ "resume" \in PCs
  /\ "start" \in PCs /\ "startIdle" \in PCs /\ "startPick" \in PCs
  /\ "tryProcess" \in PCs /\ "recheck" \in PCs
BY DEF PCs, LoopPCs, MaintPCs

\* The initial state has its type.
LEMMA InitType == Init => TypeOK
<1> SUFFICES ASSUME Init PROVE TypeOK
  OBVIOUS
<1>1. StoreOK
  BY DEF Init, StoreOK, Status
<1>2. MemoryOK
  BY DEF Init, MemoryOK
<1>3. TasksOK
  BY Labels DEF Init, TasksOK, NoCycle, Scopes
<1> QED
  BY <1>1, <1>2, <1>3 DEF TypeOK

\* Every action preserves the type of the store, of the memory and of the
\* tasks.
LEMMA NextType == TypeOK /\ [Next]_vars => TypeOK'
<1> SUFFICES ASSUME TypeOK, [Next]_vars PROVE TypeOK'
  OBVIOUS
<1> USE SchedulerAssumption
<1>1. ASSUME NEW t \in Tasks, Ingest(t) PROVE TypeOK'
  BY <1>1, Labels DEF Ingest, store, flags, history, budget, Fault,
     TypeOK, StoreOK, TasksOK, Ids, Status, MemoryOK, GoTo, Exit
<1>2. ASSUME NEW t \in Tasks, OperatorRestart(t) PROVE TypeOK'
  BY <1>2, Labels DEF OperatorRestart, store, flags, history, budget, Fault,
     TypeOK, StoreOK, TasksOK, Ids, Status, MemoryOK, GoTo, Exit
<1>3. ASSUME NEW t \in Tasks, RequestMaintenance(t) PROVE TypeOK'
  BY <1>3, Labels DEF RequestMaintenance, store, flags, history, budget, Fault,
     TypeOK, StoreOK, TasksOK, MemoryOK, GoTo, Exit, NotStarted, NoCycle, Scopes
<1>4. ASSUME NEW t \in Tasks, IngestCheckSlot(t) PROVE TypeOK'
  BY <1>4, Labels DEF IngestCheckSlot, store, flags, history, budget, Fault,
     TypeOK, StoreOK, TasksOK, MemoryOK, GoTo, Exit
<1>5. ASSUME NEW t \in Tasks, IngestCheckMaintenance(t) PROVE TypeOK'
  BY <1>5, Labels DEF IngestCheckMaintenance, store, flags, history, budget, Fault,
     TypeOK, StoreOK, TasksOK, MemoryOK, GoTo, Exit
<1>6. ASSUME NEW t \in Tasks, IngestPick(t) PROVE TypeOK'
  <2> USE <1>6 DEF IngestPick, store, flags, history, budget, Fault
  <2>1. StoreOK'
    BY DEF TypeOK, StoreOK, TasksOK
  <2>2. MemoryOK'
    BY DEF TypeOK, MemoryOK, TasksOK, Found, FoundNone, Ids
  <2>3. TasksOK'
    <3>1. pc' \in [Tasks -> PCs]
      BY Labels DEF TypeOK, TasksOK, GoTo, Exit
    <3>2. conv' \in [Tasks -> Nat]
      BY DEF TypeOK, TasksOK, Exit, Ids
    <3> QED
      BY <3>1, <3>2 DEF TypeOK, TasksOK
  <2> QED
    BY <2>1, <2>2, <2>3 DEF TypeOK
<1>7. ASSUME NEW t \in Tasks, Resume(t) PROVE TypeOK'
  BY <1>7, Labels DEF Resume, store, flags, history, budget, Fault,
     TypeOK, StoreOK, TasksOK, MemoryOK, GoTo, Exit
<1>8. ASSUME NEW t \in Tasks, StartCheckSlot(t) PROVE TypeOK'
  BY <1>8, Labels DEF StartCheckSlot, store, flags, history, budget, Fault,
     TypeOK, StoreOK, TasksOK, MemoryOK, GoTo, Exit
<1>9. ASSUME NEW t \in Tasks, StartCheckMaintenance(t) PROVE TypeOK'
  BY <1>9, Labels DEF StartCheckMaintenance, store, flags, history, budget, Fault,
     TypeOK, StoreOK, TasksOK, MemoryOK, GoTo, Exit
<1>10. ASSUME NEW t \in Tasks, StartPick(t) PROVE TypeOK'
  <2> USE <1>10 DEF StartPick, store, flags, history, budget, Fault
  <2>1. StoreOK'
    BY DEF TypeOK, StoreOK, TasksOK
  <2>2. MemoryOK'
    BY DEF TypeOK, MemoryOK, TasksOK, Found, FoundNone, Ids
  <2>3. TasksOK'
    <3>1. pc' \in [Tasks -> PCs]
      BY Labels DEF TypeOK, TasksOK, GoTo, Exit
    <3>2. conv' \in [Tasks -> Nat]
      BY DEF TypeOK, TasksOK, Exit, Ids
    <3>3. cycle' \in [Tasks -> [scope : Scopes, formation : Nat]]
      BY DEF TypeOK, TasksOK
    <3> QED
      BY <3>1, <3>2, <3>3 DEF TasksOK
  <2> QED
    BY <2>1, <2>2, <2>3 DEF TypeOK
<1>11. ASSUME NEW t \in Tasks, TryProcess(t) PROVE TypeOK'
  BY <1>11, Labels DEF TryProcess, store, flags, history, budget, Fault,
     TypeOK, StoreOK, TasksOK, MemoryOK, GoTo, Exit
<1>12. ASSUME NEW t \in Tasks, EncodeCompletes(t) PROVE TypeOK'
  BY <1>12, Labels DEF EncodeCompletes, store, flags, history, budget, Fault,
     TypeOK, StoreOK, TasksOK, Ids, Status, MemoryOK, GoTo, Exit
<1>13. ASSUME NEW t \in Tasks, Abort(t) PROVE TypeOK'
  BY <1>13, Labels DEF Abort, store, flags, history, budget, Fault,
     TypeOK, StoreOK, TasksOK, MemoryOK, GoTo, Exit
<1>14. ASSUME NEW t \in Tasks, Mark(t) PROVE TypeOK'
  BY <1>14, Labels DEF Mark, store, flags, history, budget, Fault,
     TypeOK, StoreOK, TasksOK, Watermark, MemoryOK, GoTo, Exit
<1>15. ASSUME NEW t \in Tasks, Schedule(t) PROVE TypeOK'
  BY <1>15, Labels DEF Schedule, store, flags, history, budget, Fault,
     TypeOK, StoreOK, TasksOK, MemoryOK, GoTo, Exit, DueScope, Scopes
<1>16. ASSUME NEW t \in Tasks, HandOff(t) PROVE TypeOK'
  BY <1>16, Labels DEF HandOff, store, flags, history, budget, Fault,
     TypeOK, StoreOK, TasksOK, MemoryOK, GoTo, Exit
<1>17. ASSUME NEW t \in Tasks, LoopNext(t) PROVE TypeOK'
  <2> USE <1>17 DEF LoopNext, store, flags, history, budget, Fault
  <2>1. StoreOK'
    BY DEF TypeOK, StoreOK, TasksOK
  <2>2. MemoryOK'
    BY DEF TypeOK, MemoryOK, TasksOK, Found, FoundNone, Ids
  <2>3. TasksOK'
    <3>1. pc' \in [Tasks -> PCs]
      BY Labels DEF TypeOK, TasksOK, GoTo, Exit
    <3>2. conv' \in [Tasks -> Nat]
      BY DEF TypeOK, TasksOK, Exit, Ids
    <3>3. cycle' \in [Tasks -> [scope : Scopes, formation : Nat]]
      BY DEF TypeOK, TasksOK
    <3> QED
      BY <3>1, <3>2, <3>3 DEF TasksOK
  <2> QED
    BY <2>1, <2>2, <2>3 DEF TypeOK
<1>18. ASSUME NEW t \in Tasks, LoopRecheck(t) PROVE TypeOK'
  <2> USE <1>18 DEF LoopRecheck, store, flags, history, budget, Fault
  <2>1. StoreOK'
    BY DEF TypeOK, StoreOK, TasksOK
  <2>2. MemoryOK'
    BY DEF TypeOK, MemoryOK, TasksOK, Found, FoundNone, Ids
  <2>3. TasksOK'
    <3>1. pc' \in [Tasks -> PCs]
      BY Labels DEF TypeOK, TasksOK, GoTo, Exit
    <3>2. conv' \in [Tasks -> Nat]
      BY DEF TypeOK, TasksOK, Exit, Ids
    <3>3. cycle' \in [Tasks -> [scope : Scopes, formation : Nat]]
      BY DEF TypeOK, TasksOK
    <3> QED
      BY <3>1, <3>2, <3>3 DEF TasksOK
  <2> QED
    BY <2>1, <2>2, <2>3 DEF TypeOK
<1>19. ASSUME NEW t \in Tasks, Claim(t) PROVE TypeOK'
  <2> USE <1>19 DEF Claim, store, flags, history, budget, Fault
  <2>1. StoreOK'
    BY DEF TypeOK, StoreOK, TasksOK
  <2>2. MemoryOK'
    BY DEF TypeOK, MemoryOK, TasksOK
  <2>3. TasksOK'
    <3>1. pc' \in [Tasks -> PCs]
      BY Labels DEF TypeOK, TasksOK, GoTo, Exit, NotStarted
    <3>2. conv' \in [Tasks -> Nat]
      BY DEF TypeOK, TasksOK, Exit, Ids
    <3>3. cycle' \in [Tasks -> [scope : Scopes, formation : Nat]]
      BY DEF TypeOK, TasksOK, NotStarted, NoCycle, Scopes
    <3> QED
      BY <3>1, <3>2, <3>3 DEF TasksOK
  <2> QED
    BY <2>1, <2>2, <2>3 DEF TypeOK
<1>20. ASSUME NEW t \in Tasks, ClaimMark(t) PROVE TypeOK'
  BY <1>20, Labels DEF ClaimMark, store, flags, history, budget, Fault,
     TypeOK, StoreOK, TasksOK, MemoryOK, GoTo, Exit
<1>21. ASSUME NEW t \in Tasks, Settle(t) PROVE TypeOK'
  BY <1>21, Labels DEF Settle, store, flags, history, budget, Fault,
     TypeOK, StoreOK, TasksOK, MemoryOK, GoTo, Exit
<1>22. ASSUME NEW t \in Tasks, Inherit(t) PROVE TypeOK'
  BY <1>22, Labels DEF Inherit, store, flags, history, budget, Fault,
     TypeOK, StoreOK, TasksOK, MemoryOK, GoTo, Exit
<1>23. ASSUME NEW t \in Tasks, RunClaim(t) PROVE TypeOK'
  <2> USE <1>23 DEF RunClaim, store, flags, history, budget, Fault
  <2>1. StoreOK'
    BY DEF TypeOK, StoreOK, TasksOK
  <2>2. MemoryOK'
    <3>1. slot' \in Nat /\ faults' \in Nat /\ manual' \in Nat
      BY DEF TypeOK, MemoryOK
    <3>2. processing' \in BOOLEAN
      BY ZenonT(20) DEF TypeOK, MemoryOK
    <3>3. claim' \in BOOLEAN /\ up' \in BOOLEAN
      BY DEF TypeOK, MemoryOK
    <3> QED
      BY <3>1, <3>2, <3>3 DEF MemoryOK
  <2>3. TasksOK'
    <3>1. \/ GoTo(t, "run") /\ UNCHANGED cycle
          \/ NotStarted(t)
      OBVIOUS
    <3>2. pc' \in [Tasks -> PCs]
      BY <3>1, Labels DEF TypeOK, TasksOK, GoTo, NotStarted
    <3>3. cycle' \in [Tasks -> [scope : Scopes, formation : Nat]]
      BY <3>1 DEF TypeOK, TasksOK, NotStarted, NoCycle, Scopes
    <3> QED
      BY <3>2, <3>3 DEF TypeOK, TasksOK
  <2> QED
    BY <2>1, <2>2, <2>3 DEF TypeOK
<1>24. ASSUME NEW t \in Tasks, SpawnCycle(t) PROVE TypeOK'
  <2> USE <1>24 DEF SpawnCycle, store, flags, history, budget, Fault
  <2>1. StoreOK'
    BY DEF TypeOK, StoreOK, TasksOK
  <2>2. MemoryOK'
    BY DEF TypeOK, MemoryOK, TasksOK
  <2>3. TasksOK'
    <3>1. pc' \in [Tasks -> PCs]
      BY Labels DEF TypeOK, TasksOK, GoTo, Exit
    <3>2. conv' \in [Tasks -> Nat]
      BY DEF TypeOK, TasksOK, Exit, Ids
    <3>3. cycle' \in [Tasks -> [scope : Scopes, formation : Nat]]
      BY DEF TypeOK, TasksOK, NoCycle, Scopes
    <3> QED
      BY <3>1, <3>2, <3>3 DEF TasksOK
  <2> QED
    BY <2>1, <2>2, <2>3 DEF TypeOK
<1>25. ASSUME NEW t \in Tasks, DropClaim(t) PROVE TypeOK'
  BY <1>25, Labels DEF DropClaim, store, flags, history, budget, Fault,
     TypeOK, StoreOK, TasksOK, MemoryOK, GoTo, Exit, NotStarted, NoCycle, Scopes
<1>26. ASSUME NEW t \in Tasks, CycleCompletes(t) PROVE TypeOK'
  BY <1>26, Labels DEF CycleCompletes, store, flags, history, budget, Fault,
     TypeOK, StoreOK, TasksOK, Scopes, MemoryOK, GoTo, Exit
<1>27. ASSUME NEW t \in Tasks, CycleReleases(t) PROVE TypeOK'
  BY <1>27, Labels DEF CycleReleases, store, flags, history, budget, Fault,
     TypeOK, StoreOK, TasksOK, MemoryOK, GoTo, Exit, NotStarted, NoCycle, Scopes
<1>28. ASSUME NEW t \in Tasks, EncodeFails(t) PROVE TypeOK'
  <2> USE <1>28 DEF EncodeFails, store, flags, history, budget, Fault
  <2>1. StoreOK'
    BY DEF TypeOK, StoreOK, TasksOK, Ids, Status
  <2>2. MemoryOK'
    BY DEF TypeOK, MemoryOK, TasksOK
  <2>3. TasksOK'
    BY Labels DEF TypeOK, StoreOK, TasksOK, GoTo, Exit
  <2> QED
    BY <2>1, <2>2, <2>3 DEF TypeOK
<1>29. ASSUME NEW t \in Tasks, EncodeUnfinished(t) PROVE TypeOK'
  <2> USE <1>29 DEF EncodeUnfinished, store, flags, history, budget, Fault
  <2>1. StoreOK'
    BY DEF TypeOK, StoreOK, TasksOK, Ids, Status
  <2>2. MemoryOK'
    BY DEF TypeOK, MemoryOK, TasksOK
  <2>3. TasksOK'
    BY Labels DEF TypeOK, StoreOK, TasksOK, GoTo, Exit
  <2> QED
    BY <2>1, <2>2, <2>3 DEF TypeOK
<1>30. ASSUME NEW t \in Tasks, EncodePanics(t) PROVE TypeOK'
  BY <1>30, Labels DEF EncodePanics, store, flags, history, budget, Fault,
     TypeOK, StoreOK, TasksOK, MemoryOK, GoTo, Exit
<1>31. ASSUME NEW t \in Tasks, DispatchFails(t) PROVE TypeOK'
  BY <1>31, Labels DEF DispatchFails, store, flags, history, budget, Fault,
     TypeOK, StoreOK, TasksOK, MemoryOK, GoTo, Exit
<1>32. ASSUME NEW t \in Tasks, AddFails(t) PROVE TypeOK'
  <2> USE <1>32 DEF AddFails, store, flags, history, budget, Fault
  <2>1. StoreOK'
    BY DEF TypeOK, StoreOK, TasksOK
  <2>2. MemoryOK'
    <3>1. slot' \in Nat /\ faults' \in Nat /\ manual' \in Nat
      BY DEF TypeOK, MemoryOK
    <3>2. processing' \in BOOLEAN /\ claim' \in BOOLEAN /\ up' \in BOOLEAN
      BY DEF TypeOK, MemoryOK
    <3> QED
      BY <3>1, <3>2 DEF MemoryOK
  <2>3. TasksOK'
    BY Labels DEF TypeOK, StoreOK, TasksOK, GoTo, Exit
  <2> QED
    BY <2>1, <2>2, <2>3 DEF TypeOK
<1>33. ASSUME NEW t \in Tasks, CycleFails(t) PROVE TypeOK'
  BY <1>33, Labels DEF CycleFails, store, flags, history, budget, Fault,
     TypeOK, StoreOK, TasksOK, MemoryOK, GoTo, Exit
<1>34. ASSUME NEW t \in Tasks, CyclePanics(t) PROVE TypeOK'
  <2> USE <1>34 DEF CyclePanics, store, flags, history, budget, Fault
  <2>1. StoreOK'
    BY DEF TypeOK, StoreOK, TasksOK
  <2>2. MemoryOK'
    <3>1. slot' \in Nat /\ faults' \in Nat /\ manual' \in Nat
      BY DEF TypeOK, MemoryOK
    <3>2. processing' \in BOOLEAN /\ claim' \in BOOLEAN /\ up' \in BOOLEAN
      BY DEF TypeOK, MemoryOK
    <3> QED
      BY <3>1, <3>2 DEF MemoryOK
  <2>3. TasksOK'
    BY Labels DEF TypeOK, StoreOK, TasksOK, GoTo, Exit, NotStarted, NoCycle, Scopes
  <2> QED
    BY <2>1, <2>2, <2>3 DEF TypeOK
<1>35. ASSUME NEW t \in Tasks, EncodeSnapshot(t) PROVE TypeOK'
  BY <1>35, Labels DEF EncodeSnapshot, store, flags, history, budget, Fault,
     TypeOK, StoreOK, TasksOK, Ids, Status, MemoryOK, GoTo, Exit
<1>36. ASSUME NEW t \in Tasks, Load(t) PROVE TypeOK'
  BY <1>36, Labels DEF Load, store, flags, history, budget, Fault,
     TypeOK, StoreOK, TasksOK, MemoryOK, GoTo, Exit
<1>37. ASSUME Evict PROVE TypeOK'
  BY <1>37, Labels DEF Evict, store, flags, history, budget, Fault,
     TypeOK, StoreOK, TasksOK, MemoryOK, GoTo, Exit
<1>38. ASSUME Crash PROVE TypeOK'
  <2> USE <1>38 DEF Crash, store, flags, history, budget, Fault
  <2>1. StoreOK'
    BY DEF TypeOK, StoreOK, TasksOK
  <2>2. MemoryOK'
    <3>1. slot' \in Nat /\ faults' \in Nat /\ manual' \in Nat
      BY DEF TypeOK, MemoryOK
    <3>2. processing' \in BOOLEAN /\ claim' \in BOOLEAN /\ up' \in BOOLEAN
      BY DEF TypeOK, MemoryOK
    <3> QED
      BY <3>1, <3>2 DEF MemoryOK
  <2>3. TasksOK'
    BY Labels DEF TypeOK, StoreOK, TasksOK, GoTo, Exit, NotStarted, NoCycle, Scopes
  <2> QED
    BY <2>1, <2>2, <2>3 DEF TypeOK
<1>40. ASSUME NEW t \in Tasks, Release(t) PROVE TypeOK'
  BY <1>40, Labels DEF Release, store, flags, history, budget,
     TypeOK, StoreOK, TasksOK, MemoryOK, GoTo
<1>39. CASE UNCHANGED vars
  BY <1>39 DEF vars, store, flags, history, budget, TypeOK, StoreOK, MemoryOK, TasksOK
<1> QED
  BY <1>1, <1>2, <1>3, <1>4, <1>5, <1>6, <1>7, <1>8, <1>9, <1>10, <1>11, <1>12, <1>13, <1>14, <1>15, <1>16, <1>17, <1>18, <1>19, <1>20, <1>21, <1>22, <1>23, <1>24, <1>25, <1>26, <1>27, <1>28, <1>29, <1>30, <1>31, <1>32, <1>33, <1>34, <1>35, <1>36, <1>37, <1>38, <1>39, <1>40
  DEF Next, Request, StartStep, LoopStep, MaintenanceStep, TaskStep, Mishap

\* The store, the flags and the tasks of a space always have their type.
THEOREM TypeCorrect == Spec => []TypeOK
BY InitType, NextType, PTL DEF Spec

-----------------------------------------------------------------------------
(* One formation loop at a time                                            *)

\* The inductive invariant: the slot has one owner, and which tasks carry a
\* conversation.
LoopInv == ConvMatchesPC /\ OneLoopOwnsSlot

\* A task that does not own the slot after its step disturbs no owner.
LEMMA StaysOut ==
  ASSUME OneLoopOwnsSlot, NEW t \in Tasks,
         slot' = slot, OwnsSlot(t)' => FALSE,
         \A u \in Tasks \ {t} : pc'[u] = pc[u] /\ conv'[u] = conv[u]
  PROVE  OneLoopOwnsSlot'
BY DEF OneLoopOwnsSlot, OwnsSlot

\* Only TryProcess gives the slot away, and only when it is free.
LEMMA NextLoop == TypeOK /\ LoopInv /\ [Next]_vars => LoopInv'
<1> SUFFICES ASSUME TypeOK, LoopInv, [Next]_vars PROVE LoopInv'
  OBVIOUS
<1> USE DEF TypeOK, TasksOK, MemoryOK, StoreOK
<1>1. ASSUME NEW t \in Tasks, Ingest(t) PROVE LoopInv'
  BY <1>1 DEF Ingest, flags, GoTo, LoopInv, ConvMatchesPC,
     OneLoopOwnsSlot, OwnsSlot, LoopPCs
<1>2. ASSUME NEW t \in Tasks, OperatorRestart(t) PROVE LoopInv'
  BY <1>2 DEF OperatorRestart, flags, GoTo, LoopInv, ConvMatchesPC,
     OneLoopOwnsSlot, OwnsSlot, LoopPCs
<1>3. ASSUME NEW t \in Tasks, RequestMaintenance(t) PROVE LoopInv'
  BY <1>3 DEF RequestMaintenance, flags, GoTo, LoopInv, ConvMatchesPC,
     OneLoopOwnsSlot, OwnsSlot, LoopPCs
<1>4. ASSUME NEW t \in Tasks, IngestCheckSlot(t) PROVE LoopInv'
  <2>1. /\ slot' = slot /\ \A u \in Tasks \ {t} : pc'[u] = pc[u] /\ conv'[u] = conv[u]
        /\ \/ pc'[t] = "ingestIdle" /\ pc[t] = "ingest" /\ conv'[t] = conv[t]
           \/ pc'[t] = "idle" /\ conv'[t] = 0
    BY <1>4 DEF IngestCheckSlot, flags, GoTo, Exit
  <2>2. ConvMatchesPC'
    BY <2>1 DEF LoopInv, ConvMatchesPC
  <2>3. OneLoopOwnsSlot'
    BY <2>1, StaysOut DEF LoopInv, OwnsSlot, LoopPCs
  <2> QED
    BY <2>2, <2>3 DEF LoopInv
<1>5. ASSUME NEW t \in Tasks, IngestCheckMaintenance(t) PROVE LoopInv'
  <2> USE <1>5 DEF IngestCheckMaintenance, flags, GoTo, Exit
  <2>1. ConvMatchesPC'
    BY DEF LoopInv, ConvMatchesPC
  <2>2. /\ slot' = slot
        /\ pc'[t] \in {"idle", "ingestPick"}
        /\ \A u \in Tasks \ {t} : pc'[u] = pc[u] /\ conv'[u] = conv[u]
    OBVIOUS
  <2>3. OneLoopOwnsSlot'
    BY <2>2, StaysOut DEF LoopInv, OwnsSlot, LoopPCs
  <2> QED
    BY <2>1, <2>3 DEF LoopInv
<1>6. ASSUME NEW t \in Tasks, IngestPick(t) PROVE LoopInv'
  <2>1. slot' = slot /\ conv[t] # 0
    BY <1>6 DEF IngestPick, flags, LoopInv, ConvMatchesPC
  <2>2. \/ GoTo(t, "tryProcess") /\ \E i \in Ids : conv' = [conv EXCEPT ![t] = i]
        \/ GoTo(t, "tryProcess") /\ conv' = conv
        \/ Exit(t)
    BY <1>6 DEF IngestPick
  <2>3. \A u \in Tasks \ {t} : pc'[u] = pc[u] /\ conv'[u] = conv[u]
    BY <2>2 DEF GoTo, Exit
  <2>4. \/ pc'[t] = "idle" /\ conv'[t] = 0
        \/ pc'[t] = "tryProcess" /\ conv'[t] # 0
    <3>1. \A i \in Ids : i # 0
      BY SchedulerAssumption DEF Ids
    <3>2. CASE Exit(t)
      BY <3>2 DEF GoTo, Exit
    <3>3. CASE GoTo(t, "tryProcess") /\ conv' = conv
      BY <2>1, <3>3 DEF GoTo
    <3>4. CASE GoTo(t, "tryProcess") /\ \E i \in Ids : conv' = [conv EXCEPT ![t] = i]
      BY <3>1, <3>4 DEF GoTo
    <3> QED
      BY <2>2, <3>2, <3>3, <3>4
  <2>5. ConvMatchesPC'
    BY <2>3, <2>4 DEF LoopInv, ConvMatchesPC
  <2>6. OneLoopOwnsSlot'
    BY <2>1, <2>3, <2>4, StaysOut DEF LoopInv, OwnsSlot, LoopPCs
  <2> QED
    BY <2>5, <2>6 DEF LoopInv
<1>7. ASSUME NEW t \in Tasks, Resume(t) PROVE LoopInv'
  BY <1>7 DEF Resume, flags, GoTo, LoopInv, ConvMatchesPC,
     OneLoopOwnsSlot, OwnsSlot, LoopPCs
<1>8. ASSUME NEW t \in Tasks, StartCheckSlot(t) PROVE LoopInv'
  <2> USE <1>8 DEF StartCheckSlot, flags, GoTo, Exit
  <2>1. ConvMatchesPC'
    BY DEF LoopInv, ConvMatchesPC
  <2>2. OneLoopOwnsSlot'
    BY DEF LoopInv, ConvMatchesPC, OneLoopOwnsSlot, OwnsSlot, LoopPCs
  <2> QED
    BY <2>1, <2>2 DEF LoopInv
<1>9. ASSUME NEW t \in Tasks, StartCheckMaintenance(t) PROVE LoopInv'
  <2> USE <1>9 DEF StartCheckMaintenance, flags, GoTo, Exit
  <2>1. ConvMatchesPC'
    BY DEF LoopInv, ConvMatchesPC
  <2>2. /\ slot' = slot
        /\ pc'[t] \in {"idle", "startPick"}
        /\ \A u \in Tasks \ {t} : pc'[u] = pc[u] /\ conv'[u] = conv[u]
    OBVIOUS
  <2>3. OneLoopOwnsSlot'
    BY <2>2, StaysOut DEF LoopInv, OwnsSlot, LoopPCs
  <2> QED
    BY <2>1, <2>3 DEF LoopInv
<1>10. ASSUME NEW t \in Tasks, StartPick(t) PROVE LoopInv'
  <2>1. slot' = slot /\ conv[t] # 0
    BY <1>10 DEF StartPick, flags, LoopInv, ConvMatchesPC
  <2>2. \/ GoTo(t, "tryProcess") /\ \E i \in Ids : conv' = [conv EXCEPT ![t] = i]
        \/ Exit(t)
    BY <1>10 DEF StartPick
  <2>3. \A u \in Tasks \ {t} : pc'[u] = pc[u] /\ conv'[u] = conv[u]
    BY <2>2 DEF GoTo, Exit
  <2>4. \/ pc'[t] = "idle" /\ conv'[t] = 0
        \/ pc'[t] = "tryProcess" /\ conv'[t] # 0
    <3>1. \A i \in Ids : i # 0
      BY SchedulerAssumption DEF Ids
    <3>2. CASE Exit(t)
      BY <3>2 DEF GoTo, Exit
    <3>3. CASE GoTo(t, "tryProcess") /\ conv' = conv
      BY <2>1, <3>3 DEF GoTo
    <3>4. CASE GoTo(t, "tryProcess") /\ \E i \in Ids : conv' = [conv EXCEPT ![t] = i]
      BY <3>1, <3>4 DEF GoTo
    <3> QED
      BY <2>2, <3>2, <3>3, <3>4
  <2>5. ConvMatchesPC'
    BY <2>3, <2>4 DEF LoopInv, ConvMatchesPC
  <2>6. OneLoopOwnsSlot'
    BY <2>1, <2>3, <2>4, StaysOut DEF LoopInv, OwnsSlot, LoopPCs
  <2> QED
    BY <2>5, <2>6 DEF LoopInv
<1>11. ASSUME NEW t \in Tasks, TryProcess(t) PROVE LoopInv'
  <2> USE <1>11 DEF TryProcess, flags, GoTo, Exit
  <2>1. ConvMatchesPC'
    BY DEF LoopInv, ConvMatchesPC
  <2>2. OneLoopOwnsSlot'
    BY DEF LoopInv, ConvMatchesPC, OneLoopOwnsSlot, OwnsSlot, LoopPCs
  <2> QED
    BY <2>1, <2>2 DEF LoopInv
<1>12. ASSUME NEW t \in Tasks, EncodeCompletes(t) PROVE LoopInv'
  BY <1>12 DEF EncodeCompletes, flags, GoTo, Encoding, LoopInv, ConvMatchesPC,
     OneLoopOwnsSlot, OwnsSlot, LoopPCs
<1>13. ASSUME NEW t \in Tasks, Abort(t) PROVE LoopInv'
  BY <1>13 DEF Abort, flags, GoTo, Exit, LoopInv, ConvMatchesPC,
     OneLoopOwnsSlot, OwnsSlot, LoopPCs
<1>14. ASSUME NEW t \in Tasks, Mark(t) PROVE LoopInv'
  BY <1>14 DEF Mark, flags, GoTo, LoopInv, ConvMatchesPC,
     OneLoopOwnsSlot, OwnsSlot, LoopPCs
<1>15. ASSUME NEW t \in Tasks, Schedule(t) PROVE LoopInv'
  BY <1>15 DEF Schedule, flags, GoTo, LoopInv, ConvMatchesPC,
     OneLoopOwnsSlot, OwnsSlot, LoopPCs
<1>16. ASSUME NEW t \in Tasks, HandOff(t) PROVE LoopInv'
  BY <1>16 DEF HandOff, flags, GoTo, Exit, LoopInv, ConvMatchesPC,
     OneLoopOwnsSlot, OwnsSlot, LoopPCs
<1>17. ASSUME NEW t \in Tasks, LoopNext(t) PROVE LoopInv'
  <2> USE <1>17 DEF LoopNext, GoTo
  <2>1. ConvMatchesPC'
    BY DEF LoopInv, ConvMatchesPC, Ids
  <2>2. OwnsSlot(t)
    BY DEF LoopInv, ConvMatchesPC, OwnsSlot, LoopPCs
  <2>3. \A u \in Tasks \ {t} : pc'[u] = pc[u] /\ conv'[u] = conv[u]
    OBVIOUS
  <2>4. \A u \in Tasks \ {t} : ~OwnsSlot(u) /\ ~OwnsSlot(u)'
    BY <2>2, <2>3 DEF LoopInv, OneLoopOwnsSlot, OwnsSlot
  <2>5. slot' = conv'[t]
    <3>1. slot = conv[t]
      BY <2>2 DEF LoopInv, OneLoopOwnsSlot
    <3>2. \/ slot' = slot /\ conv' = conv
          \/ \E i \in Ids : slot' = i /\ conv' = [conv EXCEPT ![t] = i]
      OBVIOUS
    <3> QED
      BY <3>1, <3>2
  <2>6. OneLoopOwnsSlot'
    BY <2>4, <2>5 DEF OneLoopOwnsSlot
  <2> QED
    BY <2>1, <2>6 DEF LoopInv
<1>18. ASSUME NEW t \in Tasks, LoopRecheck(t) PROVE LoopInv'
  <2>1. slot' = slot /\ conv[t] # 0
    BY <1>18 DEF LoopRecheck, flags, LoopInv, ConvMatchesPC
  <2>2. \/ GoTo(t, "tryProcess") /\ \E i \in Ids : conv' = [conv EXCEPT ![t] = i]
        \/ Exit(t)
    BY <1>18 DEF LoopRecheck
  <2>3. \A u \in Tasks \ {t} : pc'[u] = pc[u] /\ conv'[u] = conv[u]
    BY <2>2 DEF GoTo, Exit
  <2>4. \/ pc'[t] = "idle" /\ conv'[t] = 0
        \/ pc'[t] = "tryProcess" /\ conv'[t] # 0
    <3>1. \A i \in Ids : i # 0
      BY SchedulerAssumption DEF Ids
    <3>2. CASE Exit(t)
      BY <3>2 DEF GoTo, Exit
    <3>3. CASE GoTo(t, "tryProcess") /\ conv' = conv
      BY <2>1, <3>3 DEF GoTo
    <3>4. CASE GoTo(t, "tryProcess") /\ \E i \in Ids : conv' = [conv EXCEPT ![t] = i]
      BY <3>1, <3>4 DEF GoTo
    <3> QED
      BY <2>2, <3>2, <3>3, <3>4
  <2>5. ConvMatchesPC'
    BY <2>3, <2>4 DEF LoopInv, ConvMatchesPC
  <2>6. OneLoopOwnsSlot'
    BY <2>1, <2>3, <2>4, StaysOut DEF LoopInv, OwnsSlot, LoopPCs
  <2> QED
    BY <2>5, <2>6 DEF LoopInv
<1>19. ASSUME NEW t \in Tasks, Claim(t) PROVE LoopInv'
  <2>1. /\ pc[t] = "claim" /\ slot' = slot /\ conv' = conv
        /\ GoTo(t, "claimed") \/ NotStarted(t)
    BY <1>19 DEF Claim
  <2>2. /\ \A u \in Tasks \ {t} : pc'[u] = pc[u] /\ conv'[u] = conv[u]
        /\ \/ pc'[t] = "claimed" \/ (pc'[t] = "next" /\ conv[t] # 0) \/ (pc'[t] = "idle" /\ conv[t] = 0)
    BY <2>1 DEF GoTo, NotStarted
  <2>3. ConvMatchesPC'
    BY <2>1, <2>2 DEF LoopInv, ConvMatchesPC
  <2>4. \A u \in Tasks : OwnsSlot(u)' => OwnsSlot(u)
    BY <2>1, <2>2 DEF OwnsSlot, LoopPCs
  <2>5. OneLoopOwnsSlot'
    BY <2>1, <2>4 DEF LoopInv, OneLoopOwnsSlot
  <2> QED
    BY <2>3, <2>5 DEF LoopInv
<1>20. ASSUME NEW t \in Tasks, ClaimMark(t) PROVE LoopInv'
  BY <1>20 DEF ClaimMark, flags, GoTo, LoopInv, ConvMatchesPC,
     OneLoopOwnsSlot, OwnsSlot, LoopPCs
<1>21. ASSUME NEW t \in Tasks, Settle(t) PROVE LoopInv'
  BY <1>21 DEF Settle, flags, GoTo, LoopInv, ConvMatchesPC,
     OneLoopOwnsSlot, OwnsSlot, LoopPCs
<1>22. ASSUME NEW t \in Tasks, Inherit(t) PROVE LoopInv'
  BY <1>22 DEF Inherit, flags, GoTo, LoopInv, ConvMatchesPC,
     OneLoopOwnsSlot, OwnsSlot, LoopPCs
<1>23. ASSUME NEW t \in Tasks, RunClaim(t) PROVE LoopInv'
  BY <1>23 DEF RunClaim, flags, GoTo, NotStarted, LoopInv, ConvMatchesPC,
     OneLoopOwnsSlot, OwnsSlot, LoopPCs
<1>24. ASSUME NEW t \in Tasks, SpawnCycle(t) PROVE LoopInv'
  <2> USE <1>24 DEF SpawnCycle, flags, GoTo
  <2>1. ConvMatchesPC'
    BY DEF LoopInv, ConvMatchesPC
  <2>2. slot' = slot /\ conv' = conv
    OBVIOUS
  <2>3. \A u \in Tasks : OwnsSlot(u)' => OwnsSlot(u)
    BY DEF OwnsSlot, LoopPCs
  <2>4. OneLoopOwnsSlot'
    BY <2>2, <2>3 DEF LoopInv, OneLoopOwnsSlot
  <2> QED
    BY <2>1, <2>4 DEF LoopInv
<1>25. ASSUME NEW t \in Tasks, DropClaim(t) PROVE LoopInv'
  BY <1>25 DEF DropClaim, flags, GoTo, NotStarted, LoopInv, ConvMatchesPC,
     OneLoopOwnsSlot, OwnsSlot, LoopPCs
<1>26. ASSUME NEW t \in Tasks, CycleCompletes(t) PROVE LoopInv'
  BY <1>26 DEF CycleCompletes, flags, GoTo, LoopInv, ConvMatchesPC,
     OneLoopOwnsSlot, OwnsSlot, LoopPCs
<1>27. ASSUME NEW t \in Tasks, CycleReleases(t) PROVE LoopInv'
  BY <1>27 DEF CycleReleases, flags, GoTo, LoopInv, ConvMatchesPC,
     OneLoopOwnsSlot, OwnsSlot, LoopPCs
<1>28. ASSUME NEW t \in Tasks, EncodeFails(t) PROVE LoopInv'
  BY <1>28 DEF EncodeFails, flags, GoTo, Encoding, LoopInv, ConvMatchesPC,
     OneLoopOwnsSlot, OwnsSlot, LoopPCs
<1>29. ASSUME NEW t \in Tasks, EncodeUnfinished(t) PROVE LoopInv'
  BY <1>29 DEF EncodeUnfinished, flags, GoTo, Encoding, LoopInv, ConvMatchesPC,
     OneLoopOwnsSlot, OwnsSlot, LoopPCs
<1>30. ASSUME NEW t \in Tasks, EncodePanics(t) PROVE LoopInv'
  BY <1>30 DEF EncodePanics, flags, GoTo, Exit, Encoding, LoopInv, ConvMatchesPC,
     OneLoopOwnsSlot, OwnsSlot, LoopPCs
<1>31. ASSUME NEW t \in Tasks, DispatchFails(t) PROVE LoopInv'
  BY <1>31 DEF DispatchFails, flags, GoTo, LoopInv, ConvMatchesPC,
     OneLoopOwnsSlot, OwnsSlot, LoopPCs
<1>32. ASSUME NEW t \in Tasks, AddFails(t) PROVE LoopInv'
  BY <1>32 DEF AddFails, flags, GoTo, LoopInv, ConvMatchesPC,
     OneLoopOwnsSlot, OwnsSlot, LoopPCs
<1>33. ASSUME NEW t \in Tasks, CycleFails(t) PROVE LoopInv'
  BY <1>33 DEF CycleFails, flags, GoTo, LoopInv, ConvMatchesPC,
     OneLoopOwnsSlot, OwnsSlot, LoopPCs
<1>34. ASSUME NEW t \in Tasks, CyclePanics(t) PROVE LoopInv'
  BY <1>34 DEF CyclePanics, flags, GoTo, LoopInv, ConvMatchesPC,
     OneLoopOwnsSlot, OwnsSlot, LoopPCs
<1>35. ASSUME NEW t \in Tasks, EncodeSnapshot(t) PROVE LoopInv'
  BY <1>35 DEF EncodeSnapshot, flags, GoTo, Encoding, LoopInv, ConvMatchesPC,
     OneLoopOwnsSlot, OwnsSlot, LoopPCs
<1>36. ASSUME NEW t \in Tasks, Load(t) PROVE LoopInv'
  BY <1>36 DEF Load, flags, GoTo, LoopInv, ConvMatchesPC,
     OneLoopOwnsSlot, OwnsSlot, LoopPCs
<1>37. ASSUME Evict PROVE LoopInv'
  BY <1>37 DEF Evict, flags, GoTo, LoopInv, ConvMatchesPC,
     OneLoopOwnsSlot, OwnsSlot, LoopPCs
<1>38. ASSUME Crash PROVE LoopInv'
  BY <1>38 DEF Crash, flags, GoTo, LoopInv, ConvMatchesPC,
     OneLoopOwnsSlot, OwnsSlot, LoopPCs
<1>40. ASSUME NEW t \in Tasks, Release(t) PROVE LoopInv'
  BY <1>40 DEF Release, flags, GoTo, LoopInv, ConvMatchesPC,
     OneLoopOwnsSlot, OwnsSlot, LoopPCs
<1>39. CASE UNCHANGED vars
  BY <1>39 DEF vars, flags, LoopInv, ConvMatchesPC, OneLoopOwnsSlot, OwnsSlot
<1> QED
  BY <1>1, <1>2, <1>3, <1>4, <1>5, <1>6, <1>7, <1>8, <1>9, <1>10, <1>11, <1>12, <1>13, <1>14, <1>15, <1>16, <1>17, <1>18, <1>19, <1>20, <1>21, <1>22, <1>23, <1>24, <1>25, <1>26, <1>27, <1>28, <1>29, <1>30, <1>31, <1>32, <1>33, <1>34, <1>35, <1>36, <1>37, <1>38, <1>39, <1>40
  DEF Next, Request, StartStep, LoopStep, MaintenanceStep, TaskStep, Mishap

\* At most one formation loop owns the slot, and the slot names its
\* conversation: no loop ever frees the slot of another.
THEOREM OneFormationLoop == Spec => []OneLoopOwnsSlot
<1>1. Init => LoopInv
  BY DEF Init, LoopInv, ConvMatchesPC, OneLoopOwnsSlot, OwnsSlot, LoopPCs
<1>2. LoopInv => OneLoopOwnsSlot
  BY DEF LoopInv
<1> QED
  BY <1>1, <1>2, TypeCorrect, NextLoop, PTL DEF Spec

-----------------------------------------------------------------------------
(* One maintenance at a time, when the cycle's conversation can be stored  *)

\* From the claim of the flag to its release, error path included.
Keeps(t) == HoldsFlag(t) \/ pc[t] = "dropClaim"
Marked(t) == pc[t] \in {"settle", "dispatch", "dropClaim"}

\* The flag is held from the claim on, the claim is marked until it is
\* inherited or dropped, so MaintenanceAgent::run always finds it.
MaintInv ==
  /\ \A t \in Tasks : Keeps(t) => processing
  /\ \A t, u \in Tasks : Keeps(t) /\ Keeps(u) => t = u
  /\ \A t \in Tasks : Marked(t) => claim
  /\ \A t \in Tasks : pc[t] # "runCas"

\* A step of a task that keeps the flag, or stays without it, and leaves it
\* and the claim alone.
LEMMA FlagUntouched ==
  ASSUME MaintInv, NEW t \in Tasks,
         processing' = processing, claim' = claim,
         \A u \in Tasks \ {t} : pc'[u] = pc[u],
         Keeps(t)' => Keeps(t), Marked(t)' => Marked(t), pc'[t] # "runCas"
  PROVE  MaintInv'
BY DEF MaintInv, Keeps, Marked, HoldsFlag

\* The flag passes from the claim to the cycle, or back on the error path.
LEMMA NextMaint ==
  ASSUME TypeOK, LoopInv, MaintInv, [Next]_vars, \A t \in Tasks : ~AddFails(t)
  PROVE  MaintInv'
<1> USE DEF TypeOK, TasksOK, MemoryOK
<1>1. ASSUME NEW t \in Tasks, Ingest(t) PROVE MaintInv'
  BY <1>1, FlagUntouched DEF Ingest, flags, GoTo, Keeps, Marked, HoldsFlag,
     MaintPCs
<1>2. ASSUME NEW t \in Tasks, OperatorRestart(t) PROVE MaintInv'
  BY <1>2, FlagUntouched DEF OperatorRestart, flags, GoTo, Keeps, Marked, HoldsFlag,
     MaintPCs
<1>3. ASSUME NEW t \in Tasks, RequestMaintenance(t) PROVE MaintInv'
  BY <1>3, FlagUntouched DEF RequestMaintenance, flags, GoTo, Keeps, Marked, HoldsFlag,
     MaintPCs
<1>4. ASSUME NEW t \in Tasks, IngestCheckSlot(t) PROVE MaintInv'
  BY <1>4, FlagUntouched DEF IngestCheckSlot, flags, GoTo, Exit, Keeps, Marked, HoldsFlag,
     MaintPCs
<1>5. ASSUME NEW t \in Tasks, IngestCheckMaintenance(t) PROVE MaintInv'
  BY <1>5, FlagUntouched DEF IngestCheckMaintenance, flags, GoTo, Exit, Keeps, Marked, HoldsFlag,
     MaintPCs
<1>6. ASSUME NEW t \in Tasks, IngestPick(t) PROVE MaintInv'
  BY <1>6, FlagUntouched DEF IngestPick, flags, GoTo, Exit, Keeps, Marked, HoldsFlag,
     MaintPCs
<1>7. ASSUME NEW t \in Tasks, Resume(t) PROVE MaintInv'
  BY <1>7, FlagUntouched DEF Resume, flags, GoTo, Keeps, Marked, HoldsFlag,
     MaintPCs
<1>8. ASSUME NEW t \in Tasks, StartCheckSlot(t) PROVE MaintInv'
  BY <1>8, FlagUntouched DEF StartCheckSlot, flags, GoTo, Exit, Keeps, Marked, HoldsFlag,
     MaintPCs
<1>9. ASSUME NEW t \in Tasks, StartCheckMaintenance(t) PROVE MaintInv'
  BY <1>9, FlagUntouched DEF StartCheckMaintenance, flags, GoTo, Exit, Keeps, Marked, HoldsFlag,
     MaintPCs
<1>10. ASSUME NEW t \in Tasks, StartPick(t) PROVE MaintInv'
  BY <1>10, FlagUntouched DEF StartPick, flags, GoTo, Exit, Keeps, Marked, HoldsFlag,
     MaintPCs
<1>11. ASSUME NEW t \in Tasks, TryProcess(t) PROVE MaintInv'
  BY <1>11, FlagUntouched DEF TryProcess, flags, GoTo, Exit, Keeps, Marked, HoldsFlag,
     MaintPCs
<1>12. ASSUME NEW t \in Tasks, EncodeCompletes(t) PROVE MaintInv'
  BY <1>12, FlagUntouched DEF EncodeCompletes, flags, GoTo, Encoding, Keeps, Marked, HoldsFlag,
     MaintPCs
<1>13. ASSUME NEW t \in Tasks, Abort(t) PROVE MaintInv'
  BY <1>13, FlagUntouched DEF Abort, flags, GoTo, Exit, Keeps, Marked, HoldsFlag,
     MaintPCs
<1>14. ASSUME NEW t \in Tasks, Mark(t) PROVE MaintInv'
  BY <1>14, FlagUntouched DEF Mark, flags, GoTo, Keeps, Marked, HoldsFlag,
     MaintPCs
<1>15. ASSUME NEW t \in Tasks, Schedule(t) PROVE MaintInv'
  BY <1>15, FlagUntouched DEF Schedule, flags, GoTo, Keeps, Marked, HoldsFlag,
     MaintPCs
<1>16. ASSUME NEW t \in Tasks, HandOff(t) PROVE MaintInv'
  BY <1>16, FlagUntouched DEF HandOff, flags, GoTo, Exit, Keeps, Marked, HoldsFlag,
     MaintPCs
<1>17. ASSUME NEW t \in Tasks, LoopNext(t) PROVE MaintInv'
  BY <1>17, FlagUntouched DEF LoopNext, flags, GoTo, Exit, Keeps, Marked, HoldsFlag,
     MaintPCs
<1>18. ASSUME NEW t \in Tasks, LoopRecheck(t) PROVE MaintInv'
  BY <1>18, FlagUntouched DEF LoopRecheck, flags, GoTo, Exit, Keeps, Marked, HoldsFlag,
     MaintPCs
<1>19. ASSUME NEW t \in Tasks, Claim(t) PROVE MaintInv'
  BY <1>19 DEF Claim, flags, GoTo, NotStarted, MaintInv, Keeps, Marked, HoldsFlag, MaintPCs
<1>20. ASSUME NEW t \in Tasks, ClaimMark(t) PROVE MaintInv'
  BY <1>20 DEF ClaimMark, flags, GoTo, MaintInv, Keeps, Marked, HoldsFlag, MaintPCs
<1>21. ASSUME NEW t \in Tasks, Settle(t) PROVE MaintInv'
  BY <1>21, FlagUntouched DEF Settle, flags, GoTo, Keeps, Marked, HoldsFlag,
     MaintPCs
<1>22. ASSUME NEW t \in Tasks, Inherit(t) PROVE MaintInv'
  BY <1>22 DEF Inherit, flags, GoTo, MaintInv, Keeps, Marked, HoldsFlag, MaintPCs
<1>23. ASSUME NEW t \in Tasks, RunClaim(t) PROVE MaintInv'
  BY <1>23 DEF RunClaim, flags, GoTo, NotStarted, MaintInv, Keeps, Marked, HoldsFlag, MaintPCs
<1>24. ASSUME NEW t \in Tasks, SpawnCycle(t) PROVE MaintInv'
  BY <1>24 DEF SpawnCycle, flags, GoTo, MaintInv, Keeps, Marked, HoldsFlag, MaintPCs
<1>25. ASSUME NEW t \in Tasks, DropClaim(t) PROVE MaintInv'
  BY <1>25 DEF DropClaim, flags, GoTo, NotStarted, MaintInv, Keeps, Marked, HoldsFlag, MaintPCs
<1>26. ASSUME NEW t \in Tasks, CycleCompletes(t) PROVE MaintInv'
  BY <1>26, FlagUntouched DEF CycleCompletes, flags, GoTo, Keeps, Marked, HoldsFlag,
     MaintPCs
<1>27. ASSUME NEW t \in Tasks, CycleReleases(t) PROVE MaintInv'
  BY <1>27 DEF CycleReleases, flags, GoTo, MaintInv, Keeps, Marked, HoldsFlag, MaintPCs
<1>28. ASSUME NEW t \in Tasks, EncodeFails(t) PROVE MaintInv'
  BY <1>28, FlagUntouched DEF EncodeFails, flags, GoTo, Encoding, Keeps, Marked, HoldsFlag,
     MaintPCs
<1>29. ASSUME NEW t \in Tasks, EncodeUnfinished(t) PROVE MaintInv'
  BY <1>29, FlagUntouched DEF EncodeUnfinished, flags, GoTo, Encoding, Keeps, Marked, HoldsFlag,
     MaintPCs
<1>30. ASSUME NEW t \in Tasks, EncodePanics(t) PROVE MaintInv'
  BY <1>30, FlagUntouched DEF EncodePanics, flags, GoTo, Exit, Encoding, Keeps, Marked, HoldsFlag,
     MaintPCs
<1>31. ASSUME NEW t \in Tasks, DispatchFails(t) PROVE MaintInv'
  BY <1>31 DEF DispatchFails, flags, GoTo, MaintInv, Keeps, Marked, HoldsFlag, MaintPCs
<1>32. ASSUME NEW t \in Tasks, AddFails(t) PROVE MaintInv'
  BY <1>32
<1>33. ASSUME NEW t \in Tasks, CycleFails(t) PROVE MaintInv'
  BY <1>33, FlagUntouched DEF CycleFails, flags, GoTo, Keeps, Marked, HoldsFlag,
     MaintPCs
<1>34. ASSUME NEW t \in Tasks, CyclePanics(t) PROVE MaintInv'
  BY <1>34 DEF CyclePanics, flags, GoTo, MaintInv, Keeps, Marked, HoldsFlag, MaintPCs
<1>35. ASSUME NEW t \in Tasks, EncodeSnapshot(t) PROVE MaintInv'
  BY <1>35, FlagUntouched DEF EncodeSnapshot, flags, GoTo, Encoding, Keeps, Marked, HoldsFlag,
     MaintPCs
<1>36. ASSUME NEW t \in Tasks, Load(t) PROVE MaintInv'
  BY <1>36, FlagUntouched DEF Load, flags, GoTo, Keeps, Marked, HoldsFlag,
     MaintPCs
<1>37. ASSUME Evict PROVE MaintInv'
  BY <1>37 DEF Evict, flags, GoTo, MaintInv, Keeps, Marked, HoldsFlag, MaintPCs
<1>38. ASSUME Crash PROVE MaintInv'
  BY <1>38 DEF Crash, flags, GoTo, MaintInv, Keeps, Marked, HoldsFlag, MaintPCs
<1>40. ASSUME NEW t \in Tasks, Release(t) PROVE MaintInv'
  BY <1>40, FlagUntouched DEF Release, flags, GoTo, Keeps, Marked, HoldsFlag,
     MaintPCs
<1>39. CASE UNCHANGED vars
  BY <1>39 DEF vars, flags, MaintInv, Keeps, Marked, HoldsFlag
<1> QED
  BY <1>1, <1>2, <1>3, <1>4, <1>5, <1>6, <1>7, <1>8, <1>9, <1>10, <1>11, <1>12, <1>13, <1>14, <1>15, <1>16, <1>17, <1>18, <1>19, <1>20, <1>21, <1>22, <1>23, <1>24, <1>25, <1>26, <1>27, <1>28, <1>29, <1>30, <1>31, <1>32, <1>33, <1>34, <1>35, <1>36, <1>37, <1>38, <1>39, <1>40
  DEF Next, Request, StartStep, LoopStep, MaintenanceStep, TaskStep, Mishap

\* As long as a cycle's conversation can always be stored, settlement and
\* cycle run under a flag that no other maintenance holds.
THEOREM OneMaintenance == "add" \notin Faults => (Spec => []MaintenanceExclusive)
<1> SUFFICES ASSUME "add" \notin Faults PROVE Spec => []MaintenanceExclusive
  OBVIOUS
<1>1. Init => LoopInv /\ MaintInv
  BY DEF Init, LoopInv, ConvMatchesPC, OneLoopOwnsSlot, OwnsSlot, LoopPCs,
     MaintInv, Keeps, Marked, HoldsFlag, MaintPCs
<1>2. MaintInv => MaintenanceExclusive
  BY DEF MaintInv, MaintenanceExclusive, Keeps
<1>3. TypeOK /\ LoopInv /\ MaintInv /\ [Next]_vars => MaintInv'
  BY NextMaint DEF AddFails, Fault
<1> QED
  BY <1>1, <1>2, <1>3, TypeCorrect, NextLoop, PTL DEF Spec

-----------------------------------------------------------------------------
(* What becomes of the conversations                                       *)


Done == formed \cup waived
\* Everything before conversation i is encoded or waived.
Behind(i) == \A j \in Nat : 0 < j /\ j < i => j \in Done

\* From the choice of the conversation on; from its encoding on.
Chosen  == LoopPCs \cup {"tryProcess", "recheck"}
Starts  == {"start", "startIdle", "startPick"}
Encoded == (LoopPCs \ {"encode", "reencode", "abort"}) \cup {"recheck"}

TaskQ(t) ==
  /\ pc[t] \in Chosen \cup {"ingest", "ingestIdle", "ingestPick"} => conv[t] <= total
  /\ pc[t] \in Chosen \cup Starts => Behind(conv[t])
  /\ pc[t] \in Encoded /\ conv[t] # 0 => conv[t] \in Done

StoreQ ==
  /\ total <= MaxConversations
  /\ processed <= total
  /\ Behind(processed + 1)
  /\ \A i \in Ids : status[i] = "completed" => i \in formed

QueueInv == StoreQ /\ \A t \in Tasks : TaskQ(t)

\* A conversation that a scan finds has nothing but encoded ones between it
\* and the start of the scan.
LEMMA Scanned ==
  ASSUME TypeOK, QueueInv, "read" \notin Faults,
         NEW after \in Nat, NEW i \in Ids, Found(i, after), Behind(after + 1)
  PROVE  i <= total /\ Behind(i)
<1> USE SchedulerAssumption
<1>1. IsFirst(i, Candidates(after))
  BY DEF Found, Fault
<1>2. i <= total
  BY <1>1 DEF IsFirst, Candidates
<1>3. ASSUME NEW j \in Nat, 0 < j, j < i PROVE j \in Done
  <2>1. CASE j < after + 1
    BY <1>3, <2>1 DEF Behind
  <2>2. CASE after < j
    <3>1. j \in Ids /\ j <= total
      BY <1>2, <1>3 DEF Ids, TypeOK, StoreOK
    <3>2. j \notin Candidates(after)
      BY <1>1, <1>3, <3>1 DEF IsFirst, Ids
    <3>3. status[j] = "completed"
      BY <2>2, <3>1, <3>2 DEF Candidates
    <3> QED
      BY <3>1, <3>3 DEF QueueInv, StoreQ, Done
  <2> QED
    BY <1>3, <2>1, <2>2
<1> QED
  BY <1>2, <1>3 DEF Behind

\* Behind an encoded conversation comes the next.
LEMMA OneMore ==
  ASSUME NEW i \in Nat, Behind(i), i # 0 => i \in Done
  PROVE  Behind(i + 1)
<1> SUFFICES ASSUME NEW j \in Nat, 0 < j, j < i + 1 PROVE j \in Done
  BY DEF Behind
<1>1. CASE j < i
  BY <1>1 DEF Behind
<1>2. CASE j = i
  BY <1>2
<1> QED
  BY <1>1, <1>2

\* What is known of a task stays known while it rests and the others accept,
\* encode or waive.
LEMMA Rests ==
  ASSUME TypeOK, NEW u \in Tasks, TaskQ(u), total' \in Nat, total <= total', Done \subseteq Done',
         pc'[u] = pc[u], conv'[u] = conv[u]
  PROVE  TaskQ(u)'
BY DEF TaskQ, Behind, TypeOK, TasksOK, StoreOK

\* A step that leaves the store and the history alone.
LEMMA QueueUntouched ==
  ASSUME TypeOK, QueueInv, NEW t \in Tasks,
         UNCHANGED <<total, processed, status, formed, waived>>,
         \A u \in Tasks \ {t} : pc'[u] = pc[u] /\ conv'[u] = conv[u],
         TaskQ(t)'
  PROVE  QueueInv'
<1>1. StoreQ'
  BY DEF QueueInv, StoreQ, Behind, Done
<1>2. \A u \in Tasks \ {t} : TaskQ(u)'
  BY Rests DEF QueueInv, TypeOK, StoreOK, Done
<1> QED
  BY <1>1, <1>2 DEF QueueInv

-----------------------------------------------------------------------------
(* The queue                                                               *)

\* Every step keeps the invariant: a scan chooses the first conversation that
\* is not completed, so what is before it is encoded, whatever happens until
\* the slot is taken.
LEMMA NextQueue ==
  ASSUME "read" \notin Faults
  PROVE  TypeOK /\ LoopInv /\ QueueInv /\ [Next]_vars => QueueInv'
<1> SUFFICES ASSUME TypeOK, TypeOK', LoopInv, QueueInv, [Next]_vars PROVE QueueInv'
  BY NextType
<1> USE SchedulerAssumption DEF TypeOK, TasksOK, MemoryOK, StoreOK
<1>1. ASSUME NEW t \in Tasks, Ingest(t) PROVE QueueInv'
  <2> USE <1>1 DEF Ingest, GoTo
  <2>1. StoreQ'
    BY DEF QueueInv, StoreQ, Ids, Behind, Done, history
  <2>2. \A u \in Tasks \ {t} : TaskQ(u)'
    BY Rests DEF QueueInv, Done, history
  <2>3. TaskQ(t)'
    BY DEF TaskQ, Chosen, Starts, Encoded, LoopPCs
  <2> QED
    BY <2>1, <2>2, <2>3 DEF QueueInv
<1>2. ASSUME NEW t \in Tasks, OperatorRestart(t) PROVE QueueInv'
  <2> USE <1>2 DEF OperatorRestart, GoTo
  <2>1. PICK from \in 1..total : /\ conv' = [conv EXCEPT ![t] = from]
                               /\ waived' = waived \cup 1..(from - 1)
    OBVIOUS
  <2>2. Done \subseteq Done' /\ total' = total /\ processed' = processed /\ status' = status
    BY <2>1 DEF Done, store
  <2>3. StoreQ'
    BY <2>2 DEF QueueInv, StoreQ, Behind
  <2>4. \A u \in Tasks \ {t} : TaskQ(u)'
    BY <2>1, <2>2, Rests DEF QueueInv
  <2>5. TaskQ(t)'
    <3>1. Behind(from)'
      BY <2>1 DEF Behind, Done
    <3> QED
      BY <2>1, <3>1 DEF TaskQ, Chosen, Starts, Encoded, LoopPCs
  <2> QED
    BY <2>3, <2>4, <2>5 DEF QueueInv
<1>3. ASSUME NEW t \in Tasks, RequestMaintenance(t) PROVE QueueInv'
  <2>1. TaskQ(t)'
    BY <1>3 DEF RequestMaintenance, LoopInv, ConvMatchesPC, store, history, GoTo, Exit, QueueInv, TaskQ,
       Chosen, Starts, Encoded, LoopPCs, Behind, Done
  <2> QED
    BY <1>3, <2>1, QueueUntouched DEF RequestMaintenance, LoopInv, ConvMatchesPC, store, history, GoTo, Exit
<1>4. ASSUME NEW t \in Tasks, IngestCheckSlot(t) PROVE QueueInv'
  <2>1. TaskQ(t)'
    BY <1>4 DEF IngestCheckSlot, store, history, GoTo, Exit, QueueInv, TaskQ,
       Chosen, Starts, Encoded, LoopPCs, Behind, Done
  <2> QED
    BY <1>4, <2>1, QueueUntouched DEF IngestCheckSlot, store, history, GoTo, Exit
<1>5. ASSUME NEW t \in Tasks, IngestCheckMaintenance(t) PROVE QueueInv'
  <2>1. TaskQ(t)'
    BY <1>5 DEF IngestCheckMaintenance, store, history, GoTo, Exit, QueueInv, TaskQ,
       Chosen, Starts, Encoded, LoopPCs, Behind, Done
  <2> QED
    BY <1>5, <2>1, QueueUntouched DEF IngestCheckMaintenance, store, history, GoTo, Exit
<1>6. ASSUME NEW t \in Tasks, IngestPick(t) PROVE QueueInv'
  <2> USE <1>6 DEF IngestPick
  <2>1. /\ UNCHANGED <<total, processed, status, formed, waived>>
        /\ \A u \in Tasks \ {t} : pc'[u] = pc[u] /\ conv'[u] = conv[u]
    BY DEF store, history, GoTo, Exit
  <2>2. TaskQ(t)'
    <3>1. CASE Exit(t)
      BY <3>1 DEF Exit, GoTo, TaskQ, Chosen, Starts, Encoded, LoopPCs
    <3>2. CASE processed + 1 >= conv[t] /\ GoTo(t, "tryProcess") /\ UNCHANGED conv
      BY <2>1, <3>2 DEF GoTo, TaskQ, Chosen, Starts, Encoded, LoopPCs, QueueInv, StoreQ, Behind, Done
    <3>3. CASE /\ GoTo(t, "tryProcess")
               /\ \E i \in Ids : Found(i, processed) /\ conv' = [conv EXCEPT ![t] = i]
      <4>1. PICK i \in Ids : Found(i, processed) /\ conv' = [conv EXCEPT ![t] = i]
        BY <3>3
      <4>2. i <= total /\ Behind(i)
        BY <4>1, Scanned DEF QueueInv, StoreQ
      <4>3. conv'[t] = i /\ pc'[t] = "tryProcess"
        BY <3>3, <4>1 DEF GoTo
      <4>4. i <= total' /\ Behind(i)'
        BY <2>1, <4>2 DEF Behind, Done
      <4> QED
        BY <4>3, <4>4 DEF TaskQ, Chosen, Starts, Encoded, LoopPCs
    <3> QED
      BY <3>1, <3>2, <3>3
  <2> QED
    BY <2>1, <2>2, QueueUntouched
<1>7. ASSUME NEW t \in Tasks, Resume(t) PROVE QueueInv'
  <2> USE <1>7 DEF Resume, GoTo
  <2>1. TaskQ(t)'
    BY DEF QueueInv, StoreQ, TaskQ, Chosen, Starts, Encoded, LoopPCs, Behind, Done, store, history
  <2> QED
    BY <2>1, QueueUntouched DEF store, history
<1>8. ASSUME NEW t \in Tasks, StartCheckSlot(t) PROVE QueueInv'
  <2>1. TaskQ(t)'
    BY <1>8 DEF StartCheckSlot, store, history, GoTo, Exit, QueueInv, TaskQ,
       Chosen, Starts, Encoded, LoopPCs, Behind, Done
  <2> QED
    BY <1>8, <2>1, QueueUntouched DEF StartCheckSlot, store, history, GoTo, Exit
<1>9. ASSUME NEW t \in Tasks, StartCheckMaintenance(t) PROVE QueueInv'
  <2>1. TaskQ(t)'
    BY <1>9 DEF StartCheckMaintenance, store, history, GoTo, Exit, QueueInv, TaskQ,
       Chosen, Starts, Encoded, LoopPCs, Behind, Done
  <2> QED
    BY <1>9, <2>1, QueueUntouched DEF StartCheckMaintenance, store, history, GoTo, Exit
<1>10. ASSUME NEW t \in Tasks, StartPick(t) PROVE QueueInv'
  <2> USE <1>10 DEF StartPick
  <2>0. conv[t] # 0
    BY DEF LoopInv, ConvMatchesPC
  <2>1. /\ UNCHANGED <<total, processed, status, formed, waived>>
        /\ \A u \in Tasks \ {t} : pc'[u] = pc[u] /\ conv'[u] = conv[u]
    BY DEF store, history, GoTo, Exit
  <2>2. conv[t] - 1 \in Nat /\ Behind(conv[t] - 1 + 1)
    <3>1. Behind(conv[t])
      BY DEF QueueInv, TaskQ, Chosen, Starts, LoopPCs
    <3>2. conv[t] \in Nat
      BY <2>0 DEF QueueInv, TaskQ, Encoded, LoopPCs
    <3> QED
      BY <2>0, <3>1, <3>2 DEF Behind
  <2>3. TaskQ(t)'
    <3>1. CASE Exit(t)
      BY <2>0, <2>1, <3>1 DEF Exit, GoTo, TaskQ, Chosen, Starts, Encoded, LoopPCs, QueueInv, Behind, Done
    <3>2. CASE /\ GoTo(t, "tryProcess")
               /\ \E i \in Ids : Found(i, conv[t] - 1) /\ conv' = [conv EXCEPT ![t] = i]
      <4>1. PICK i \in Ids : Found(i, conv[t] - 1) /\ conv' = [conv EXCEPT ![t] = i]
        BY <3>2
      <4>2. i <= total /\ Behind(i)
        BY <2>0, <2>2, <4>1, Scanned
      <4>3. conv'[t] = i /\ pc'[t] = "tryProcess"
        BY <3>2, <4>1 DEF GoTo
      <4>4. i <= total' /\ Behind(i)'
        BY <2>1, <4>2 DEF Behind, Done
      <4> QED
        BY <4>3, <4>4 DEF TaskQ, Chosen, Starts, Encoded, LoopPCs
    <3> QED
      BY <3>1, <3>2
  <2> QED
    BY <2>1, <2>3, QueueUntouched
<1>11. ASSUME NEW t \in Tasks, TryProcess(t) PROVE QueueInv'
  <2>1. TaskQ(t)'
    BY <1>11 DEF TryProcess, store, history, GoTo, Exit, QueueInv, TaskQ,
       Chosen, Starts, Encoded, LoopPCs, Behind, Done
  <2> QED
    BY <1>11, <2>1, QueueUntouched DEF TryProcess, store, history, GoTo, Exit
<1>12. ASSUME NEW t \in Tasks, EncodeCompletes(t) PROVE QueueInv'
  <2> USE <1>12 DEF EncodeCompletes, GoTo
  <2>1. Done \subseteq Done' /\ conv[t] \in Done' /\ total' = total /\ processed' = processed
    BY DEF Done
  <2>2. StoreQ'
    BY <2>1 DEF QueueInv, StoreQ, Behind
  <2>3. \A u \in Tasks \ {t} : TaskQ(u)'
    BY <2>1, Rests DEF QueueInv
  <2>4. TaskQ(t)'
    BY <2>1 DEF QueueInv, TaskQ, Chosen, Starts, Encoded, Encoding, LoopPCs, Behind
  <2> QED
    BY <2>2, <2>3, <2>4 DEF QueueInv
<1>13. ASSUME NEW t \in Tasks, Abort(t) PROVE QueueInv'
  <2>1. TaskQ(t)'
    BY <1>13 DEF Abort, store, history, GoTo, Exit, QueueInv, TaskQ,
       Chosen, Starts, Encoded, LoopPCs, Behind, Done
  <2> QED
    BY <1>13, <2>1, QueueUntouched DEF Abort, store, history, GoTo, Exit
<1>14. ASSUME NEW t \in Tasks, Mark(t) PROVE QueueInv'
  <2> USE <1>14 DEF Mark, GoTo
  <2>1. Done' = Done /\ total' = total /\ status' = status
    BY DEF Done, history
  <2>2. processed' = processed \/ (processed' = conv[t] /\ conv[t] # 0)
    BY DEF Watermark, LoopInv, ConvMatchesPC
  <2>3. /\ conv[t] <= total /\ Behind(conv[t])
        /\ conv[t] # 0 => conv[t] \in Done
    BY DEF QueueInv, TaskQ, Chosen, Encoded, LoopPCs
  <2>4. StoreQ'
    <3>1. CASE processed' = processed
      BY <2>1, <3>1 DEF QueueInv, StoreQ, Behind, history
    <3>2. CASE processed' = conv[t] /\ conv[t] # 0
      <4>1. Behind(conv[t] + 1)
        BY <2>3, <3>2, OneMore
      <4> QED
        BY <2>1, <2>3, <3>2, <4>1 DEF QueueInv, StoreQ, Behind, history
    <3> QED
      BY <2>2, <3>1, <3>2
  <2>5. \A u \in Tasks \ {t} : TaskQ(u)'
    BY <2>1, Rests DEF QueueInv
  <2>6. TaskQ(t)'
    BY <2>1 DEF QueueInv, TaskQ, Chosen, Starts, Encoded, LoopPCs, Behind
  <2> QED
    BY <2>4, <2>5, <2>6 DEF QueueInv
<1>15. ASSUME NEW t \in Tasks, Schedule(t) PROVE QueueInv'
  <2>1. TaskQ(t)'
    BY <1>15 DEF Schedule, store, history, GoTo, Exit, QueueInv, TaskQ,
       Chosen, Starts, Encoded, LoopPCs, Behind, Done
  <2> QED
    BY <1>15, <2>1, QueueUntouched DEF Schedule, store, history, GoTo, Exit
<1>16. ASSUME NEW t \in Tasks, HandOff(t) PROVE QueueInv'
  <2>1. TaskQ(t)'
    BY <1>16 DEF HandOff, store, history, GoTo, Exit, QueueInv, TaskQ,
       Chosen, Starts, Encoded, LoopPCs, Behind, Done
  <2> QED
    BY <1>16, <2>1, QueueUntouched DEF HandOff, store, history, GoTo, Exit
<1>17. ASSUME NEW t \in Tasks, LoopNext(t) PROVE QueueInv'
  <2> USE <1>17 DEF LoopNext
  <2>0. conv[t] # 0
    BY DEF LoopInv, ConvMatchesPC
  <2>1. /\ UNCHANGED <<total, processed, status, formed, waived>>
        /\ \A u \in Tasks \ {t} : pc'[u] = pc[u] /\ conv'[u] = conv[u]
    BY DEF store, history, GoTo, Exit
  <2>2. conv[t] \in Nat /\ Behind(conv[t] + 1)
    <3>1. Behind(conv[t])
      BY DEF QueueInv, TaskQ, Chosen, Starts, LoopPCs
    <3>2. conv[t] \in Done
      BY <2>0 DEF QueueInv, TaskQ, Encoded, LoopPCs
    <3> QED
      BY <2>0, <3>1, <3>2, OneMore
  <2>3. TaskQ(t)'
    <3>1. CASE GoTo(t, "release") /\ UNCHANGED conv
      BY <2>0, <2>1, <3>1 DEF GoTo, TaskQ, Chosen, Starts, Encoded, LoopPCs, QueueInv, Behind, Done
    <3>2. CASE /\ GoTo(t, "encode")
               /\ \E i \in Ids : Found(i, conv[t]) /\ conv' = [conv EXCEPT ![t] = i]
      <4>1. PICK i \in Ids : Found(i, conv[t]) /\ conv' = [conv EXCEPT ![t] = i]
        BY <3>2
      <4>2. i <= total /\ Behind(i)
        BY <2>0, <2>2, <4>1, Scanned
      <4>3. conv'[t] = i /\ pc'[t] = "encode"
        BY <3>2, <4>1 DEF GoTo
      <4>4. i <= total' /\ Behind(i)'
        BY <2>1, <4>2 DEF Behind, Done
      <4> QED
        BY <4>3, <4>4 DEF TaskQ, Chosen, Starts, Encoded, LoopPCs
    <3> QED
      BY <3>1, <3>2
  <2> QED
    BY <2>1, <2>3, QueueUntouched
<1>18. ASSUME NEW t \in Tasks, LoopRecheck(t) PROVE QueueInv'
  <2> USE <1>18 DEF LoopRecheck
  <2>0. conv[t] # 0
    BY DEF LoopInv, ConvMatchesPC
  <2>1. /\ UNCHANGED <<total, processed, status, formed, waived>>
        /\ \A u \in Tasks \ {t} : pc'[u] = pc[u] /\ conv'[u] = conv[u]
    BY DEF store, history, GoTo, Exit
  <2>2. conv[t] \in Nat /\ Behind(conv[t] + 1)
    <3>1. Behind(conv[t])
      BY DEF QueueInv, TaskQ, Chosen, Starts, LoopPCs
    <3>2. conv[t] \in Done
      BY <2>0 DEF QueueInv, TaskQ, Encoded, LoopPCs
    <3> QED
      BY <2>0, <3>1, <3>2, OneMore
  <2>3. TaskQ(t)'
    <3>1. CASE Exit(t)
      BY <2>0, <2>1, <3>1 DEF Exit, GoTo, TaskQ, Chosen, Starts, Encoded, LoopPCs, QueueInv, Behind, Done
    <3>2. CASE /\ GoTo(t, "tryProcess")
               /\ \E i \in Ids : Found(i, conv[t]) /\ conv' = [conv EXCEPT ![t] = i]
      <4>1. PICK i \in Ids : Found(i, conv[t]) /\ conv' = [conv EXCEPT ![t] = i]
        BY <3>2
      <4>2. i <= total /\ Behind(i)
        BY <2>0, <2>2, <4>1, Scanned
      <4>3. conv'[t] = i /\ pc'[t] = "tryProcess"
        BY <3>2, <4>1 DEF GoTo
      <4>4. i <= total' /\ Behind(i)'
        BY <2>1, <4>2 DEF Behind, Done
      <4> QED
        BY <4>3, <4>4 DEF TaskQ, Chosen, Starts, Encoded, LoopPCs
    <3> QED
      BY <3>1, <3>2
  <2> QED
    BY <2>1, <2>3, QueueUntouched
<1>19. ASSUME NEW t \in Tasks, Claim(t) PROVE QueueInv'
  <2>1. TaskQ(t)'
    BY <1>19 DEF Claim, NotStarted, store, history, GoTo, Exit, QueueInv, TaskQ,
       Chosen, Starts, Encoded, LoopPCs, Behind, Done
  <2> QED
    BY <1>19, <2>1, QueueUntouched DEF Claim, NotStarted, store, history, GoTo, Exit
<1>20. ASSUME NEW t \in Tasks, ClaimMark(t) PROVE QueueInv'
  <2>1. TaskQ(t)'
    BY <1>20 DEF ClaimMark, store, history, GoTo, Exit, QueueInv, TaskQ,
       Chosen, Starts, Encoded, LoopPCs, Behind, Done
  <2> QED
    BY <1>20, <2>1, QueueUntouched DEF ClaimMark, store, history, GoTo, Exit
<1>21. ASSUME NEW t \in Tasks, Settle(t) PROVE QueueInv'
  <2>1. TaskQ(t)'
    BY <1>21 DEF Settle, store, history, GoTo, Exit, QueueInv, TaskQ,
       Chosen, Starts, Encoded, LoopPCs, Behind, Done
  <2> QED
    BY <1>21, <2>1, QueueUntouched DEF Settle, store, history, GoTo, Exit
<1>22. ASSUME NEW t \in Tasks, Inherit(t) PROVE QueueInv'
  <2>1. TaskQ(t)'
    BY <1>22 DEF Inherit, store, history, GoTo, Exit, QueueInv, TaskQ,
       Chosen, Starts, Encoded, LoopPCs, Behind, Done
  <2> QED
    BY <1>22, <2>1, QueueUntouched DEF Inherit, store, history, GoTo, Exit
<1>23. ASSUME NEW t \in Tasks, RunClaim(t) PROVE QueueInv'
  <2>1. TaskQ(t)'
    BY <1>23 DEF RunClaim, NotStarted, store, history, GoTo, Exit, QueueInv, TaskQ,
       Chosen, Starts, Encoded, LoopPCs, Behind, Done
  <2> QED
    BY <1>23, <2>1, QueueUntouched DEF RunClaim, NotStarted, store, history, GoTo, Exit
<1>24. ASSUME NEW t \in Tasks, SpawnCycle(t) PROVE QueueInv'
  <2> USE <1>24 DEF SpawnCycle, GoTo
  <2>1. conv' = conv /\ UNCHANGED <<total, processed, status, formed, waived>>
    BY DEF store, history
  <2>2. \A u \in Tasks :
          \/ pc'[u] = pc[u]
          \/ pc'[u] = "cycle"
          \/ u = t /\ pc'[u] = "handOff"
    OBVIOUS
  <2>3. StoreQ'
    BY <2>1 DEF QueueInv, StoreQ, Behind, Done
  <2>4. \A u \in Tasks : TaskQ(u)'
    BY <2>1, <2>2 DEF QueueInv, TaskQ, Chosen, Starts, Encoded, LoopPCs, Behind, Done
  <2> QED
    BY <2>3, <2>4 DEF QueueInv
<1>25. ASSUME NEW t \in Tasks, DropClaim(t) PROVE QueueInv'
  <2>1. TaskQ(t)'
    BY <1>25 DEF DropClaim, NotStarted, store, history, GoTo, Exit, QueueInv, TaskQ,
       Chosen, Starts, Encoded, LoopPCs, Behind, Done
  <2> QED
    BY <1>25, <2>1, QueueUntouched DEF DropClaim, NotStarted, store, history, GoTo, Exit
<1>26. ASSUME NEW t \in Tasks, CycleCompletes(t) PROVE QueueInv'
  <2>1. TaskQ(t)'
    BY <1>26 DEF CycleCompletes, store, history, GoTo, Exit, QueueInv, TaskQ,
       Chosen, Starts, Encoded, LoopPCs, Behind, Done
  <2> QED
    BY <1>26, <2>1, QueueUntouched DEF CycleCompletes, store, history, GoTo, Exit
<1>27. ASSUME NEW t \in Tasks, CycleReleases(t) PROVE QueueInv'
  <2>1. TaskQ(t)'
    BY <1>27 DEF CycleReleases, store, history, GoTo, Exit, QueueInv, TaskQ,
       Chosen, Starts, Encoded, LoopPCs, Behind, Done
  <2> QED
    BY <1>27, <2>1, QueueUntouched DEF CycleReleases, store, history, GoTo, Exit
<1>28. ASSUME NEW t \in Tasks, EncodeFails(t) PROVE QueueInv'
  <2> USE <1>28 DEF EncodeFails, GoTo, Encoding
  <2>1. UNCHANGED <<total, processed, formed, waived>> /\ conv' = conv
    BY DEF history
  <2>2. \A i \in Ids : status'[i] = "completed" => status[i] = "completed"
    OBVIOUS
  <2>3. StoreQ'
    BY <2>1, <2>2 DEF QueueInv, StoreQ, Behind, Done
  <2>4. \A u \in Tasks : TaskQ(u)'
    BY <2>1 DEF QueueInv, TaskQ, Chosen, Starts, Encoded, LoopPCs, Behind, Done
  <2> QED
    BY <2>3, <2>4 DEF QueueInv
<1>29. ASSUME NEW t \in Tasks, EncodeUnfinished(t) PROVE QueueInv'
  <2> USE <1>29 DEF EncodeUnfinished, GoTo, Encoding
  <2>1. UNCHANGED <<total, processed, formed, waived>> /\ conv' = conv
    BY DEF history
  <2>2. \A i \in Ids : status'[i] = "completed" => status[i] = "completed"
    OBVIOUS
  <2>3. StoreQ'
    BY <2>1, <2>2 DEF QueueInv, StoreQ, Behind, Done
  <2>4. \A u \in Tasks : TaskQ(u)'
    BY <2>1 DEF QueueInv, TaskQ, Chosen, Starts, Encoded, LoopPCs, Behind, Done
  <2> QED
    BY <2>3, <2>4 DEF QueueInv
<1>30. ASSUME NEW t \in Tasks, EncodePanics(t) PROVE QueueInv'
  <2>1. TaskQ(t)'
    BY <1>30 DEF EncodePanics, Encoding, Fault, store, history, GoTo, Exit, QueueInv, TaskQ,
       Chosen, Starts, Encoded, LoopPCs, Behind, Done
  <2> QED
    BY <1>30, <2>1, QueueUntouched DEF EncodePanics, Encoding, Fault, store, history, GoTo, Exit
<1>31. ASSUME NEW t \in Tasks, DispatchFails(t) PROVE QueueInv'
  <2>1. TaskQ(t)'
    BY <1>31 DEF DispatchFails, store, history, GoTo, Exit, QueueInv, TaskQ,
       Chosen, Starts, Encoded, LoopPCs, Behind, Done
  <2> QED
    BY <1>31, <2>1, QueueUntouched DEF DispatchFails, store, history, GoTo, Exit
<1>32. ASSUME NEW t \in Tasks, AddFails(t) PROVE QueueInv'
  <2>1. TaskQ(t)'
    BY <1>32 DEF AddFails, store, history, GoTo, Exit, QueueInv, TaskQ,
       Chosen, Starts, Encoded, LoopPCs, Behind, Done
  <2> QED
    BY <1>32, <2>1, QueueUntouched DEF AddFails, store, history, GoTo, Exit
<1>33. ASSUME NEW t \in Tasks, CycleFails(t) PROVE QueueInv'
  <2>1. TaskQ(t)'
    BY <1>33 DEF CycleFails, store, history, GoTo, Exit, QueueInv, TaskQ,
       Chosen, Starts, Encoded, LoopPCs, Behind, Done
  <2> QED
    BY <1>33, <2>1, QueueUntouched DEF CycleFails, store, history, GoTo, Exit
<1>34. ASSUME NEW t \in Tasks, CyclePanics(t) PROVE QueueInv'
  <2>1. TaskQ(t)'
    BY <1>34 DEF CyclePanics, store, history, GoTo, Exit, QueueInv, TaskQ,
       Chosen, Starts, Encoded, LoopPCs, Behind, Done
  <2> QED
    BY <1>34, <2>1, QueueUntouched DEF CyclePanics, store, history, GoTo, Exit
<1>35. ASSUME NEW t \in Tasks, EncodeSnapshot(t) PROVE QueueInv'
  <2> USE <1>35 DEF EncodeSnapshot, GoTo, Encoding
  <2>1. UNCHANGED <<total, processed, formed, waived>> /\ conv' = conv
    BY DEF history
  <2>2. \A i \in Ids : status'[i] = "completed" => status[i] = "completed"
    OBVIOUS
  <2>3. StoreQ'
    BY <2>1, <2>2 DEF QueueInv, StoreQ, Behind, Done
  <2>4. \A u \in Tasks : TaskQ(u)'
    BY <2>1 DEF QueueInv, TaskQ, Chosen, Starts, Encoded, LoopPCs, Behind, Done
  <2> QED
    BY <2>3, <2>4 DEF QueueInv
<1>36. ASSUME NEW t \in Tasks, Load(t) PROVE QueueInv'
  <2>1. TaskQ(t)'
    BY <1>36 DEF Load, store, history, GoTo, Exit, QueueInv, TaskQ,
       Chosen, Starts, Encoded, LoopPCs, Behind, Done
  <2> QED
    BY <1>36, <2>1, QueueUntouched DEF Load, store, history, GoTo, Exit
<1>37. ASSUME NEW t \in Tasks, Release(t) PROVE QueueInv'
  <2>1. TaskQ(t)'
    BY <1>37 DEF Release, store, history, GoTo, Exit, QueueInv, TaskQ,
       Chosen, Starts, Encoded, LoopPCs, Behind, Done
  <2> QED
    BY <1>37, <2>1, QueueUntouched DEF Release, store, history, GoTo, Exit
<1>38. ASSUME Evict PROVE QueueInv'
  BY <1>38 DEF Evict, store, history, QueueInv, StoreQ, TaskQ, Behind, Done
<1>39. ASSUME Crash PROVE QueueInv'
  <2> USE <1>39 DEF Crash, store, history
  <2>1. StoreQ'
    BY DEF QueueInv, StoreQ, Behind, Done
  <2>2. \A u \in Tasks : TaskQ(u)'
    BY DEF TaskQ, Chosen, Starts, Encoded, LoopPCs
  <2> QED
    BY <2>1, <2>2 DEF QueueInv
<1>40. CASE UNCHANGED vars
  BY <1>40 DEF vars, store, history, QueueInv, StoreQ, TaskQ, Behind, Done
<1> QED
  BY <1>1, <1>2, <1>3, <1>4, <1>5, <1>6, <1>7, <1>8, <1>9, <1>10, <1>11, <1>12, <1>13, <1>14, <1>15, <1>16, <1>17, <1>18, <1>19, <1>20, <1>21, <1>22, <1>23, <1>24, <1>25, <1>26, <1>27, <1>28, <1>29, <1>30, <1>31, <1>32, <1>33, <1>34, <1>35, <1>36, <1>37, <1>38, <1>39, <1>40
  DEF Next, Request, StartStep, LoopStep, MaintenanceStep, TaskStep, Mishap

LEMMA InitQueue == Init => QueueInv
BY SchedulerAssumption DEF Init, QueueInv, StoreQ, TaskQ, Chosen, Starts, Encoded, LoopPCs, Behind

\* Without failed reads the watermark passes only conversations that were
\* encoded, or that an operator has waived.
THEOREM SoundWatermark == "read" \notin Faults => (Spec => []WatermarkSound)
<1> SUFFICES ASSUME "read" \notin Faults PROVE Spec => []WatermarkSound
  OBVIOUS
<1>1. Init => LoopInv
  BY DEF Init, LoopInv, ConvMatchesPC, OneLoopOwnsSlot, OwnsSlot, LoopPCs
<1>2. TypeOK /\ LoopInv /\ QueueInv /\ [Next]_vars => QueueInv'
  BY NextQueue
<1>3. TypeOK /\ QueueInv => WatermarkSound
  BY DEF TypeOK, StoreOK, QueueInv, StoreQ, Behind, Done, WatermarkSound
<1> QED
  BY <1>1, <1>2, <1>3, InitQueue, TypeCorrect, NextLoop, PTL DEF Spec

-----------------------------------------------------------------------------
(* The refinement                                                          *)

\* Ingest accepts, a restart waives, the end of an encoding forms unless the
\* conversation was encoded before, a mark advances or was late; every other
\* step is none of the queue's.
LEMMA StepImplements ==
  ASSUME "read" \notin Faults
  PROVE  TypeOK /\ LoopInv /\ QueueInv /\ [Next]_vars => [Queue!QNext]_(Queue!qvars)
<1> SUFFICES ASSUME TypeOK, LoopInv, QueueInv, [Next]_vars
             PROVE  [Queue!QNext]_(Queue!qvars)
  OBVIOUS
<1> USE SchedulerAssumption DEF TypeOK, TasksOK, MemoryOK, StoreOK
<1>1. ASSUME NEW t \in Tasks, Ingest(t) PROVE Queue!Accept
  BY <1>1 DEF Ingest, history, Queue!Accept
<1>2. ASSUME NEW t \in Tasks, OperatorRestart(t) PROVE \E i \in 1..total : Queue!Waive(i)
  BY <1>2 DEF OperatorRestart, store, Queue!Waive
<1>3. ASSUME NEW t \in Tasks, EncodeCompletes(t)
      PROVE  (\E i \in 1..total : Queue!Form(i)) \/ UNCHANGED Queue!qvars
  <2> USE <1>3 DEF EncodeCompletes, Encoding
  <2>1. conv[t] \in 1..total
    BY DEF QueueInv, TaskQ, Chosen, LoopPCs, LoopInv, ConvMatchesPC
  <2>2. \A j \in 1..(conv[t] - 1) : j \in formed \cup waived
    BY <2>1 DEF QueueInv, TaskQ, Chosen, LoopPCs, Behind, Done
  <2>3. CASE conv[t] \in formed
    BY <2>3 DEF Queue!qvars
  <2>4. CASE conv[t] \notin formed
    BY <2>1, <2>2, <2>4 DEF Queue!Form
  <2> QED
    BY <2>3, <2>4
<1>4. ASSUME NEW t \in Tasks, Mark(t) PROVE Queue!Advance \/ UNCHANGED Queue!qvars
  <2> USE <1>4 DEF Mark
  <2>1. conv[t] \in 1..total /\ Behind(conv[t] + 1)
    <3>1. conv[t] \in 1..total /\ Behind(conv[t]) /\ conv[t] \in Done
      BY DEF QueueInv, TaskQ, Chosen, Encoded, LoopPCs, LoopInv, ConvMatchesPC
    <3> QED
      BY <3>1, OneMore
  <2>2. CASE conv[t] > processed /\ processed' = conv[t]
    <3>1. processed' \in (processed + 1)..total
      BY <2>1, <2>2
    <3>2. \A j \in 1..processed' : j \in formed \cup waived
      BY <2>1, <2>2 DEF Behind, Done
    <3> QED
      BY <3>1, <3>2 DEF Queue!Advance, history
  <2>3. CASE processed' = processed
    BY <2>3 DEF Queue!qvars, history
  <2> QED
    BY <2>2, <2>3 DEF Watermark
<1>5. ASSUME NEW t \in Tasks,
             \/ RequestMaintenance(t) \/ IngestCheckSlot(t) \/ IngestCheckMaintenance(t)
             \/ IngestPick(t) \/ Resume(t) \/ StartCheckSlot(t) \/ StartCheckMaintenance(t)
             \/ StartPick(t) \/ TryProcess(t) \/ Abort(t) \/ Schedule(t) \/ HandOff(t)
      PROVE  UNCHANGED Queue!qvars
  BY <1>5 DEF RequestMaintenance, IngestCheckSlot, IngestCheckMaintenance, IngestPick,
     Resume, StartCheckSlot, StartCheckMaintenance, StartPick, TryProcess, Abort,
     Schedule, HandOff, store, history, Queue!qvars
<1>6. ASSUME NEW t \in Tasks,
             \/ LoopNext(t) \/ Release(t) \/ LoopRecheck(t) \/ MaintenanceStep(t)
             \/ EncodeSnapshot(t) \/ Mishap(t) \/ Load(t)
      PROVE  UNCHANGED Queue!qvars
  BY <1>6 DEF LoopNext, Release, LoopRecheck, MaintenanceStep, Claim, ClaimMark, Settle,
     Inherit, RunClaim, SpawnCycle, DropClaim, CycleCompletes, CycleReleases,
     EncodeSnapshot, Mishap, EncodeFails, EncodeUnfinished, EncodePanics, DispatchFails,
     AddFails, CycleFails, CyclePanics, Load, store, history, Queue!qvars
<1>7. ASSUME Evict \/ Crash PROVE UNCHANGED Queue!qvars
  BY <1>7 DEF Evict, Crash, store, history, Queue!qvars
<1>8. ASSUME UNCHANGED vars PROVE UNCHANGED Queue!qvars
  BY <1>8 DEF vars, store, history, Queue!qvars
<1> QED
  BY <1>1, <1>2, <1>3, <1>4, <1>5, <1>6, <1>7, <1>8
  DEF Next, Request, TaskStep, StartStep, LoopStep, Queue!QNext

\* Without failed reads the scheduler implements the queue that users rely on,
\* whatever crashes, failures, handoffs and restarts happen.
THEOREM Implementation == "read" \notin Faults => (Spec => ImplementsQueue)
<1> SUFFICES ASSUME "read" \notin Faults PROVE Spec => ImplementsQueue
  OBVIOUS
<1>1. Init => LoopInv /\ Queue!QInit
  BY DEF Init, LoopInv, ConvMatchesPC, OneLoopOwnsSlot, OwnsSlot, LoopPCs, Queue!QInit
<1>2. TypeOK /\ LoopInv /\ QueueInv /\ [Next]_vars => QueueInv'
  BY NextQueue
<1>3. TypeOK /\ LoopInv /\ QueueInv /\ [Next]_vars => [Queue!QNext]_(Queue!qvars)
  BY StepImplements
<1> QED
  BY <1>1, <1>2, <1>3, InitQueue, TypeCorrect, NextLoop, PTL
  DEF Spec, ImplementsQueue, Queue!QSpec

-----------------------------------------------------------------------------
(* The watermark and the scope marks                                       *)

\* Only Mark writes the watermark, and it takes the maximum.
LEMMA Forward ==
  ASSUME TypeOK, [Next]_vars
  PROVE  processed <= processed'
<1> USE DEF TypeOK, StoreOK, TasksOK
<1>1. ASSUME NEW t \in Tasks, Mark(t) PROVE processed <= processed'
  BY <1>1 DEF Mark, Watermark
<1>2. ASSUME NEW t \in Tasks,
             \/ Request(t) \/ StartStep(t) \/ EncodeCompletes(t) \/ Abort(t) \/ Schedule(t)
             \/ HandOff(t) \/ LoopNext(t) \/ Release(t) \/ LoopRecheck(t)
      PROVE  processed' = processed
  BY <1>2 DEF Request, Ingest, OperatorRestart, RequestMaintenance, StartStep,
     IngestCheckSlot, IngestCheckMaintenance, IngestPick, Resume, StartCheckSlot,
     StartCheckMaintenance, StartPick, TryProcess, EncodeCompletes, Abort, Schedule,
     HandOff, LoopNext, Release, LoopRecheck, store
<1>3. ASSUME NEW t \in Tasks, MaintenanceStep(t) \/ EncodeSnapshot(t) \/ Mishap(t) \/ Load(t)
      PROVE  processed' = processed
  BY <1>3 DEF MaintenanceStep, Claim, ClaimMark, Settle, Inherit, RunClaim, SpawnCycle,
     DropClaim, CycleCompletes, CycleReleases, EncodeSnapshot, Mishap, EncodeFails,
     EncodeUnfinished, EncodePanics, DispatchFails, AddFails, CycleFails, CyclePanics,
     Load, store
<1>4. ASSUME Evict \/ Crash \/ UNCHANGED vars PROVE processed' = processed
  BY <1>4 DEF Evict, Crash, vars, store
<1> QED
  BY <1>1, <1>2, <1>3, <1>4 DEF Next, TaskStep, LoopStep

\* Whatever fails, and whoever restarts formation where, the watermark never
\* goes back.
THEOREM ForwardOnly == Spec => WatermarkNeverRewinds
<1>1. TypeOK /\ [Next]_vars => [processed <= processed']_vars
  BY Forward
<1> QED
  BY <1>1, TypeCorrect, PTL DEF Spec, WatermarkNeverRewinds

\* From the moment its formation is fixed until it is recorded, a maintenance
\* is behind the watermark and ahead of every mark.
Dated(t) == pc[t] \in {"settle", "dispatch", "runCas", "run", "cycle"}
TaskM(t) ==
  Dated(t) => /\ cycle[t].formation <= processed
              /\ \A s \in Scopes : at[s] <= cycle[t].formation
MarksInv == (\A s \in Scopes : at[s] <= processed) /\ \A t \in Tasks : TaskM(t)

\* A step that records no mark.
LEMMA MarksUntouched ==
  ASSUME TypeOK, TypeOK', MarksInv, [Next]_vars, NEW t \in Tasks, at' = at,
         \A u \in Tasks \ {t} : pc'[u] = pc[u] /\ cycle'[u] = cycle[u],
         TaskM(t)'
  PROVE  MarksInv'
<1> USE DEF TypeOK, StoreOK, TasksOK
<1>1. processed <= processed'
  BY Forward
<1>2. \A s \in Scopes : at'[s] <= processed'
  BY <1>1 DEF MarksInv
<1>3. ASSUME NEW u \in Tasks \ {t} PROVE TaskM(u)'
  <2>1. TaskM(u)
    BY DEF MarksInv
  <2> QED
    BY <1>1, <2>1 DEF TaskM, Dated
<1> QED
  BY <1>2, <1>3 DEF MarksInv

\* Only the one that holds the flag has a date, so recording it puts no mark
\* ahead of another's.
LEMMA NextMarks ==
  TypeOK /\ LoopInv /\ MaintInv /\ MarksInv /\ [Next]_vars
    => MarksInv' /\ \A s \in Scopes : at[s] <= at'[s] /\ at'[s] <= processed'
<1> SUFFICES ASSUME TypeOK, TypeOK', LoopInv, MaintInv, MarksInv, [Next]_vars
             PROVE  MarksInv' /\ \A s \in Scopes : at[s] <= at'[s]
  BY NextType DEF MarksInv
<1> USE DEF TypeOK, TasksOK, StoreOK
<1>1. ASSUME NEW t \in Tasks, Request(t)
      PROVE  MarksInv' /\ at' = at
  <2>1. TaskM(t)'
    BY <1>1 DEF Request, Ingest, OperatorRestart, RequestMaintenance, GoTo, store, TaskM, Dated
  <2> QED
    BY <1>1, <2>1, MarksUntouched DEF Request, Ingest, OperatorRestart, RequestMaintenance, GoTo, store
<1>2. ASSUME NEW t \in Tasks, IngestCheckSlot(t) \/ IngestCheckMaintenance(t) \/ IngestPick(t) \/ Resume(t)
      PROVE  MarksInv' /\ at' = at
  <2>1. TaskM(t)'
    BY <1>2 DEF IngestCheckSlot, IngestCheckMaintenance, IngestPick, Resume, Exit, GoTo, store, TaskM, Dated
  <2> QED
    BY <1>2, <2>1, MarksUntouched DEF IngestCheckSlot, IngestCheckMaintenance, IngestPick, Resume, Exit, GoTo, store
<1>3. ASSUME NEW t \in Tasks, StartCheckSlot(t) \/ StartCheckMaintenance(t) \/ StartPick(t) \/ TryProcess(t)
      PROVE  MarksInv' /\ at' = at
  <2>1. TaskM(t)'
    BY <1>3 DEF StartCheckSlot, StartCheckMaintenance, StartPick, TryProcess, Exit, GoTo, store, TaskM, Dated
  <2> QED
    BY <1>3, <2>1, MarksUntouched DEF StartCheckSlot, StartCheckMaintenance, StartPick, TryProcess, Exit, GoTo, store
<1>4. ASSUME NEW t \in Tasks, EncodeCompletes(t) \/ Abort(t) \/ Mark(t) \/ Schedule(t) \/ HandOff(t)
      PROVE  MarksInv' /\ at' = at
  <2>1. TaskM(t)'
    BY <1>4 DEF EncodeCompletes, Encoding, Abort, Mark, Schedule, HandOff, Exit, GoTo, store, TaskM, Dated
  <2> QED
    BY <1>4, <2>1, MarksUntouched DEF EncodeCompletes, Encoding, Abort, Mark, Schedule, HandOff, Exit, GoTo, store
<1>5. ASSUME NEW t \in Tasks, LoopNext(t) \/ Release(t) \/ LoopRecheck(t)
      PROVE  MarksInv' /\ at' = at
  <2>1. TaskM(t)'
    BY <1>5 DEF LoopNext, Release, LoopRecheck, Exit, GoTo, store, TaskM, Dated
  <2> QED
    BY <1>5, <2>1, MarksUntouched DEF LoopNext, Release, LoopRecheck, Exit, GoTo, store
<1>6. ASSUME NEW t \in Tasks, Claim(t) \/ Settle(t) \/ Inherit(t) \/ RunClaim(t)
      PROVE  MarksInv' /\ at' = at
  <2>1. TaskM(t)'
    BY <1>6 DEF Claim, Settle, Inherit, RunClaim, NotStarted, MarksInv, GoTo, store, TaskM, Dated
  <2> QED
    BY <1>6, <2>1, MarksUntouched DEF Claim, Settle, Inherit, RunClaim, NotStarted, GoTo, store
<1>7. ASSUME NEW t \in Tasks, DropClaim(t) \/ CycleReleases(t) \/ Load(t)
      PROVE  MarksInv' /\ at' = at
  <2>1. TaskM(t)'
    BY <1>7 DEF DropClaim, CycleReleases, NotStarted, Load, GoTo, store, TaskM, Dated
  <2> QED
    BY <1>7, <2>1, MarksUntouched DEF DropClaim, CycleReleases, NotStarted, Load, GoTo, store
<1>8. ASSUME NEW t \in Tasks, EncodeFails(t) \/ EncodeUnfinished(t) \/ EncodePanics(t) \/ EncodeSnapshot(t)
      PROVE  MarksInv' /\ at' = at
  <2>1. TaskM(t)'
    BY <1>8 DEF EncodeFails, EncodeUnfinished, EncodePanics, EncodeSnapshot, Encoding, Exit, MarksInv, GoTo, store, TaskM, Dated
  <2> QED
    BY <1>8, <2>1, MarksUntouched DEF EncodeFails, EncodeUnfinished, EncodePanics, EncodeSnapshot, Encoding, Exit, GoTo, store
<1>9. ASSUME NEW t \in Tasks, DispatchFails(t) \/ AddFails(t) \/ CycleFails(t) \/ CyclePanics(t)
      PROVE  MarksInv' /\ at' = at
  <2>1. TaskM(t)'
    BY <1>9 DEF DispatchFails, AddFails, CycleFails, CyclePanics, GoTo, store, TaskM, Dated
  <2> QED
    BY <1>9, <2>1, MarksUntouched DEF DispatchFails, AddFails, CycleFails, CyclePanics, GoTo, store
<1>10. ASSUME NEW t \in Tasks, ClaimMark(t)
      PROVE  MarksInv' /\ at' = at
  <2>1. TaskM(t)'
    BY <1>10 DEF ClaimMark, MarksInv, GoTo, store, TaskM, Dated
  <2> QED
    BY <1>10, <2>1, MarksUntouched DEF ClaimMark, GoTo, store
<1>11. ASSUME NEW t \in Tasks, SpawnCycle(t) PROVE MarksInv' /\ at' = at
  <2> USE <1>11 DEF SpawnCycle, GoTo, store
  <2>1. CASE conv[t] = 0
    <3>1. TaskM(t)'
      BY <2>1 DEF MarksInv, TaskM, Dated
    <3> QED
      BY <2>1, <3>1, MarksUntouched
  <2>2. CASE conv[t] # 0
    <3>1. PICK u \in Tasks : /\ pc[u] = "idle"
                             /\ pc' = [pc EXCEPT ![t] = "handOff", ![u] = "cycle"]
                             /\ cycle' = [cycle EXCEPT ![t] = NoCycle, ![u] = cycle[t]]
      BY <2>2
    <3>2. TaskM(t) /\ Dated(t) /\ u # t
      BY <3>1 DEF MarksInv, Dated
    <3>3. TaskM(t)' /\ TaskM(u)'
      BY <3>1, <3>2 DEF TaskM, Dated
    <3>4. \A v \in Tasks \ {t, u} : TaskM(v)'
      BY <3>1 DEF MarksInv, TaskM, Dated
    <3> QED
      BY <3>3, <3>4 DEF MarksInv
  <2> QED
    BY <2>1, <2>2
<1>12. ASSUME NEW t \in Tasks, CycleCompletes(t) PROVE MarksInv' /\ \A s \in Scopes : at[s] <= at'[s]
  <2> USE <1>12 DEF CycleCompletes, GoTo
  <2>1. TaskM(t) /\ Dated(t) /\ processed' = processed
    BY DEF MarksInv, Dated
  <2>2. \A s \in Scopes : at[s] <= at'[s] /\ at'[s] <= processed'
    BY <2>1 DEF TaskM, MarksInv
  <2>3. \A u \in Tasks : ~Dated(u)'
    BY DEF Dated, MaintInv, Keeps, HoldsFlag, MaintPCs
  <2> QED
    BY <2>2, <2>3 DEF MarksInv, TaskM
<1>13. CASE Evict
  BY <1>13 DEF Evict, store, MarksInv, TaskM, Dated
<1>14. CASE Crash
  BY <1>14 DEF Crash, store, MarksInv, TaskM, Dated
<1>15. CASE UNCHANGED vars
  BY <1>15 DEF vars, store, MarksInv, TaskM, Dated
<1> QED
  BY <1>1, <1>2, <1>3, <1>4, <1>5, <1>6, <1>7, <1>8, <1>9, <1>10, <1>11, <1>12, <1>13, <1>14, <1>15
  DEF Next, TaskStep, StartStep, LoopStep, MaintenanceStep, Mishap

\* If a cycle's conversation can always be stored, scope marks only grow and
\* stay behind the watermark.
THEOREM MarksForward == "add" \notin Faults => (Spec => ScopeMarksGrow)
<1> SUFFICES ASSUME "add" \notin Faults PROVE Spec => ScopeMarksGrow
  OBVIOUS
<1>1. Init => LoopInv /\ MaintInv /\ MarksInv
  BY DEF Init, LoopInv, ConvMatchesPC, OneLoopOwnsSlot, OwnsSlot, LoopPCs,
     MaintInv, Keeps, Marked, HoldsFlag, MaintPCs, MarksInv, TaskM, Dated
<1>2. TypeOK /\ LoopInv /\ MaintInv /\ [Next]_vars => MaintInv'
  BY NextMaint DEF AddFails, Fault
<1>3. TypeOK /\ LoopInv /\ MaintInv /\ MarksInv /\ [Next]_vars
        => [\A s \in Scopes : at[s] <= at'[s] /\ at'[s] <= processed']_vars
  BY NextMarks
<1>4. TypeOK /\ LoopInv /\ MaintInv /\ MarksInv /\ [Next]_vars => MarksInv'
  BY NextMarks
<1> QED
  BY <1>1, <1>2, <1>3, <1>4, TypeCorrect, NextLoop, PTL DEF Spec, ScopeMarksGrow

-----------------------------------------------------------------------------
(* No wakeup is lost                                                       *)

\* Where a loop can be once it has moved the watermark.
Past == (LoopPCs \ {"encode", "reencode", "mark"}) \cup {"recheck"}

TaskW(t) ==
  /\ pc[t] \notin {"abort", "dropClaim"}
  /\ pc[t] \in Starts => conv[t] <= processed + 1 \/ conv[t] <= total
  /\ pc[t] \in Past /\ conv[t] # 0 => conv[t] <= processed

\* Where nothing has failed, a slot or a flag that turns a task away has an
\* owner, who will look at the queue later than that task; what is encoded lies
\* behind the watermark, or its loop is about to move it.
WakeInv ==
  /\ total <= MaxConversations
  /\ slot # 0 => \E t \in Tasks : OwnsSlot(t)
  /\ processing => \E t \in Tasks : HoldsFlag(t)
  /\ \A t \in Tasks : TaskW(t)
  /\ \A i \in Ids : status[i] = "completed" /\ processed < i =>
       \E t \in Tasks : pc[t] = "mark" /\ conv[t] = i

\* A failure is remembered, so where there is none yet no step was one.
LEMMA Remembered ==
  ASSUME TypeOK, [Next]_vars
  PROVE  faults <= faults' /\ (faults' = 0 => \A kind \in FaultKinds : ~Fault(kind))
<1> USE DEF TypeOK, MemoryOK
<1>3. ASSUME NEW t \in Tasks, Request(t) \/ StartStep(t) PROVE faults <= faults'
  BY <1>3 DEF Fault, budget, Request, Ingest, OperatorRestart, RequestMaintenance, StartStep,
     IngestCheckSlot, IngestCheckMaintenance, IngestPick, Resume, StartCheckSlot,
     StartCheckMaintenance, StartPick, TryProcess, Found, FoundNone
<1>4. ASSUME NEW t \in Tasks, LoopStep(t) \/ EncodeSnapshot(t) PROVE faults <= faults'
  BY <1>4 DEF Fault, budget, LoopStep, EncodeCompletes, Abort, Mark, Schedule, HandOff, LoopNext,
     Release, LoopRecheck, EncodeSnapshot, Found, FoundNone
<1>5. ASSUME NEW t \in Tasks, MaintenanceStep(t) \/ Mishap(t) \/ Load(t) PROVE faults <= faults'
  BY <1>5 DEF Fault, budget, MaintenanceStep, Claim, ClaimMark, Settle, Inherit, RunClaim,
     SpawnCycle, DropClaim, CycleCompletes, CycleReleases, Mishap, EncodeFails,
     EncodeUnfinished, EncodePanics, DispatchFails, AddFails, CycleFails, CyclePanics, Load
<1>6. ASSUME Evict \/ Crash \/ UNCHANGED vars PROVE faults <= faults'
  BY <1>6 DEF Fault, budget, Evict, Crash, vars
<1>7. faults <= faults'
  BY <1>3, <1>4, <1>5, <1>6 DEF Next, TaskStep
<1>8. faults' = 0 => \A kind \in FaultKinds : ~Fault(kind)
  BY DEF Fault
<1> QED
  BY <1>7, <1>8

\* A step of one task keeps the invariant if it leaves the slot and the flag
\* with an owner and encodes nothing but what it is about to mark.
LEMMA WakeStep ==
  ASSUME TypeOK, TypeOK', WakeInv, NEW t \in Tasks,
         \A u \in Tasks \ {t} : pc'[u] = pc[u] /\ conv'[u] = conv[u],
         total <= total', total' <= MaxConversations, processed <= processed',
         TaskW(t)',
         slot' # 0 => OwnsSlot(t)' \/ (slot # 0 /\ ~OwnsSlot(t)),
         processing' => HoldsFlag(t)' \/ (processing /\ ~HoldsFlag(t)),
         \A i \in Ids : status'[i] = "completed" /\ processed' < i =>
           \/ pc'[t] = "mark" /\ conv'[t] = i
           \/ status[i] = "completed" /\ ~(pc[t] = "mark" /\ conv[t] = i)
  PROVE  WakeInv'
<1> USE DEF TypeOK, StoreOK, MemoryOK, TasksOK
<1>1. slot' # 0 => \E u \in Tasks : OwnsSlot(u)'
  BY DEF WakeInv, OwnsSlot
<1>2. processing' => \E u \in Tasks : HoldsFlag(u)'
  BY DEF WakeInv, HoldsFlag
<1>3. ASSUME NEW u \in Tasks PROVE TaskW(u)'
  <2>1. CASE u = t
    BY <2>1
  <2>2. CASE u # t
    <3>1. pc'[u] = pc[u] /\ conv'[u] = conv[u] /\ TaskW(u) /\ conv[u] \in Nat
      BY <2>2 DEF WakeInv
    <3> QED
      BY <3>1 DEF TaskW
  <2> QED
    BY <2>1, <2>2
<1>4. ASSUME NEW i \in Ids, status'[i] = "completed", processed' < i
      PROVE  \E u \in Tasks : pc'[u] = "mark" /\ conv'[u] = i
  <2>1. CASE pc'[t] = "mark" /\ conv'[t] = i
    BY <2>1
  <2>2. CASE status[i] = "completed" /\ ~(pc[t] = "mark" /\ conv[t] = i)
    <3>1. i \in Nat /\ processed < i
      BY <1>4, SchedulerAssumption DEF Ids
    <3>2. PICK u \in Tasks : pc[u] = "mark" /\ conv[u] = i
      BY <2>2, <3>1 DEF WakeInv
    <3> QED
      BY <2>2, <3>2
  <2> QED
    BY <1>4, <2>1, <2>2
<1> QED
  BY <1>1, <1>2, <1>3, <1>4 DEF WakeInv

\* Every step but a failure keeps the invariant: a task gives slot or flag back
\* only to go on looking, or to one that will.
LEMMA NextWake ==
  ASSUME TypeOK, TypeOK', LoopInv, LoopInv', MaintInv, WakeInv, [Next]_vars, faults' = 0
  PROVE  WakeInv'
<1> USE SchedulerAssumption DEF TypeOK, StoreOK, MemoryOK, TasksOK
<1>1. \A kind \in FaultKinds : ~Fault(kind)
  BY Remembered
<1>2. ASSUME NEW t \in Tasks, Ingest(t) PROVE WakeInv'
  <2>1. TaskW(t)'
    BY <1>2 DEF Ingest, GoTo, TaskW, Starts, Past, LoopPCs
  <2>2. \A i \in Ids : status'[i] = "completed" => status[i] = "completed" /\ pc[t] # "mark"
    BY <1>2 DEF Ingest
  <2>3. /\ total' = total + 1 /\ total' <= MaxConversations
        /\ UNCHANGED <<processed, slot, processing>> /\ pc[t] = "idle"
        /\ \A u \in Tasks \ {t} : pc'[u] = pc[u] /\ conv'[u] = conv[u]
    BY <1>2 DEF Ingest, GoTo, flags
  <2>4. ~OwnsSlot(t) /\ ~HoldsFlag(t)
    BY <2>3 DEF OwnsSlot, LoopPCs, HoldsFlag, MaintPCs
  <2>5. total <= total' /\ total' <= MaxConversations /\ processed <= processed'
    BY <2>3
  <2>6. \A i \in Ids : status'[i] = "completed" /\ processed' < i =>
          status[i] = "completed" /\ ~(pc[t] = "mark" /\ conv[t] = i)
    BY <2>2
  <2> QED
    BY <2>1, <2>3, <2>4, <2>5, <2>6, WakeStep
<1>3. ASSUME NEW t \in Tasks,
             \/ OperatorRestart(t) \/ IngestCheckSlot(t) \/ IngestCheckMaintenance(t)
             \/ IngestPick(t) \/ Resume(t) \/ StartCheckSlot(t) \/ StartCheckMaintenance(t)
             \/ StartPick(t) \/ LoopRecheck(t) \/ Load(t)
      PROVE  WakeInv'
  <2>1. /\ UNCHANGED <<total, status, processed, slot, processing>>
        /\ \A u \in Tasks \ {t} : pc'[u] = pc[u] /\ conv'[u] = conv[u]
    BY <1>3 DEF OperatorRestart, IngestCheckSlot, IngestCheckMaintenance, IngestPick, Resume,
       StartCheckSlot, StartCheckMaintenance, StartPick, LoopRecheck, Load, GoTo, Exit, store, flags
  <2>2. pc[t] \notin LoopPCs \cup MaintPCs
    BY <1>3 DEF OperatorRestart, IngestCheckSlot, IngestCheckMaintenance, IngestPick, Resume,
       StartCheckSlot, StartCheckMaintenance, StartPick, LoopRecheck, Load, LoopPCs, MaintPCs
  <2>3. TaskW(t)'
    BY <1>3, <2>1 DEF OperatorRestart, IngestCheckSlot, IngestCheckMaintenance, IngestPick, Resume,
       StartCheckSlot, StartCheckMaintenance, StartPick, LoopRecheck, Load, GoTo, Exit,
       WakeInv, TaskW, Starts, Past, LoopPCs
  <2>4. ~OwnsSlot(t) /\ ~HoldsFlag(t) /\ pc[t] # "mark"
    BY <2>2 DEF OwnsSlot, LoopPCs, HoldsFlag
  <2>5. total' <= MaxConversations
    BY <2>1 DEF WakeInv
  <2> QED
    BY <2>1, <2>3, <2>4, <2>5, WakeStep
<1>4. ASSUME NEW t \in Tasks, TryProcess(t) PROVE WakeInv'
  <2>1. TaskW(t)' /\ conv[t] # 0
    BY <1>4 DEF TryProcess, GoTo, Exit, store, TaskW, Starts, Past, LoopPCs, LoopInv, ConvMatchesPC
  <2> QED
    BY <1>4, <2>1, WakeStep
    DEF TryProcess, GoTo, Exit, store, WakeInv, OwnsSlot, LoopPCs, HoldsFlag, MaintPCs
<1>5. ASSUME NEW t \in Tasks, EncodeSnapshot(t) \/ EncodeCompletes(t) PROVE WakeInv'
  <2>1. /\ UNCHANGED <<total, processed, slot, processing, conv>>
        /\ pc[t] \in {"encode", "reencode"} /\ pc'[t] \in {"encode", "reencode", "mark"}
        /\ \A u \in Tasks \ {t} : pc'[u] = pc[u]
    BY <1>5 DEF EncodeSnapshot, EncodeCompletes, GoTo, Encoding, flags
  <2>2. TaskW(t)'
    BY <2>1 DEF TaskW, Starts, Past
  <2>3. \A i \in Ids : status'[i] = "completed" =>
          status[i] = "completed" \/ (pc'[t] = "mark" /\ conv'[t] = i)
    BY <1>5, <2>1 DEF EncodeSnapshot, EncodeCompletes, GoTo
  <2>4. OwnsSlot(t) => OwnsSlot(t)'
    BY <2>1 DEF OwnsSlot, LoopPCs
  <2>5. ~HoldsFlag(t) /\ total' <= MaxConversations
    BY <2>1 DEF HoldsFlag, MaintPCs, WakeInv
  <2> QED
    BY <2>1, <2>2, <2>3, <2>4, <2>5, WakeStep
<1>6. ASSUME NEW t \in Tasks, Mark(t) PROVE WakeInv'
  <2>1. processed' = Watermark(t) /\ pc[t] = "mark" /\ pc'[t] = "schedule"
    BY <1>1, <1>6 DEF Mark, GoTo, FaultKinds
  <2>2. processed <= processed' /\ conv[t] <= processed'
    BY <2>1 DEF Watermark
  <2>3. /\ UNCHANGED <<total, status, slot, processing, conv>>
        /\ \A u \in Tasks \ {t} : pc'[u] = pc[u]
    BY <1>6 DEF Mark, GoTo, flags
  <2>4. TaskW(t)'
    BY <2>1, <2>2, <2>3 DEF TaskW, Starts
  <2>5. \A i \in Ids : status'[i] = "completed" /\ processed' < i =>
          status[i] = "completed" /\ conv[t] # i
    BY <2>2, <2>3 DEF Ids
  <2> QED
    BY <2>1, <2>2, <2>3, <2>4, <2>5, WakeStep DEF WakeInv, OwnsSlot, LoopPCs, HoldsFlag, MaintPCs
<1>7. ASSUME NEW t \in Tasks, Release(t) \/ HandOff(t) PROVE WakeInv'
  <2>1. TaskW(t)'
    BY <1>7 DEF Release, HandOff, GoTo, Exit, store, WakeInv, TaskW, Starts, Past, LoopPCs
  <2> QED
    BY <1>7, <2>1, WakeStep DEF Release, HandOff, GoTo, Exit, store, WakeInv, HoldsFlag, MaintPCs
<1>8. ASSUME NEW t \in Tasks, LoopNext(t) PROVE WakeInv'
  <2>1. /\ UNCHANGED <<total, status, processed, processing>> /\ pc[t] = "next"
        /\ \A u \in Tasks \ {t} : pc'[u] = pc[u] /\ conv'[u] = conv[u]
        /\ \/ pc'[t] = "encode"
           \/ pc'[t] = "release" /\ conv' = conv
    BY <1>8 DEF LoopNext, GoTo, store
  <2>2. conv'[t] # 0
    BY <2>1 DEF LoopInv, ConvMatchesPC
  <2>3. TaskW(t)'
    BY <2>1 DEF WakeInv, TaskW, Starts, Past, LoopPCs
  <2>4. OwnsSlot(t)' /\ ~HoldsFlag(t) /\ total' <= MaxConversations
    BY <2>1, <2>2 DEF OwnsSlot, LoopPCs, HoldsFlag, MaintPCs, WakeInv
  <2> QED
    BY <2>1, <2>3, <2>4, WakeStep
<1>9. ASSUME NEW t \in Tasks,
             \/ Schedule(t) \/ RequestMaintenance(t) \/ Claim(t) \/ ClaimMark(t) \/ Settle(t)
             \/ Inherit(t) \/ CycleCompletes(t) \/ CycleReleases(t)
      PROVE  WakeInv'
  <2>1. /\ UNCHANGED <<total, status, processed, slot, conv>>
        /\ \A u \in Tasks \ {t} : pc'[u] = pc[u]
    BY <1>9 DEF Schedule, RequestMaintenance, Claim, ClaimMark, Settle, Inherit, CycleCompletes,
       CycleReleases, NotStarted, GoTo, store, flags
  <2>2. /\ pc[t] # "mark"
        /\ OwnsSlot(t) => OwnsSlot(t)'
        /\ processing' => HoldsFlag(t)' \/ (processing /\ ~HoldsFlag(t))
    BY <1>9 DEF Schedule, RequestMaintenance, Claim, ClaimMark, Settle, Inherit, CycleCompletes,
       CycleReleases, NotStarted, GoTo, flags, OwnsSlot, LoopPCs, HoldsFlag, MaintPCs, MaintInv,
       Marked, LoopInv, ConvMatchesPC
  <2>3. TaskW(t)'
    BY <1>9, <2>1 DEF Schedule, RequestMaintenance, Claim, ClaimMark, Settle, Inherit,
       CycleCompletes, CycleReleases, NotStarted, GoTo, WakeInv, TaskW, Starts, Past, LoopPCs,
       LoopInv, ConvMatchesPC
  <2>4. total' <= MaxConversations
    BY <2>1 DEF WakeInv
  <2> QED
    BY <2>1, <2>2, <2>3, <2>4, WakeStep
<1>10. ASSUME NEW t \in Tasks, RunClaim(t) \/ DropClaim(t) PROVE WakeInv'
  BY <1>10 DEF RunClaim, DropClaim, MaintInv, WakeInv, TaskW
<1>11. ASSUME NEW t \in Tasks, SpawnCycle(t) PROVE WakeInv'
  <2>1. UNCHANGED <<total, status, processed, slot, processing, conv>> /\ pc[t] = "run"
    BY <1>11 DEF SpawnCycle, GoTo, store, flags
  <2>2. \/ conv[t] = 0 /\ pc' = [pc EXCEPT ![t] = "cycle"]
        \/ \E u \in Tasks : /\ conv[t] # 0 /\ pc[u] = "idle"
                            /\ pc' = [pc EXCEPT ![t] = "handOff", ![u] = "cycle"]
    BY <1>11 DEF SpawnCycle, GoTo
  <2>3. /\ \A u \in Tasks : OwnsSlot(u) => OwnsSlot(u)'
        /\ \E u \in Tasks : HoldsFlag(u)'
        /\ \A u \in Tasks : pc[u] = "mark" => pc'[u] = "mark"
    BY <2>1, <2>2 DEF OwnsSlot, LoopPCs, HoldsFlag, MaintPCs
  <2>4. \A u \in Tasks : TaskW(u)'
    BY <2>1, <2>2 DEF WakeInv, TaskW, Starts, Past, LoopPCs
  <2> QED
    BY <2>1, <2>3, <2>4 DEF WakeInv
<1>12. ASSUME NEW t \in Tasks, Abort(t) \/ Mishap(t) PROVE WakeInv'
  BY <1>1, <1>12 DEF Abort, Mishap, EncodeFails, EncodeUnfinished, EncodePanics, DispatchFails,
     AddFails, CycleFails, CyclePanics, FaultKinds, WakeInv, TaskW
<1>13. CASE Evict \/ UNCHANGED vars
  BY <1>13 DEF Evict, vars, store, flags, WakeInv, TaskW, OwnsSlot, HoldsFlag
<1>14. CASE Crash
  BY <1>1, <1>14 DEF Crash, FaultKinds
<1> QED
  BY <1>2, <1>3, <1>4, <1>5, <1>6, <1>7, <1>8, <1>9, <1>10, <1>11, <1>12, <1>13, <1>14
  DEF Next, Request, TaskStep, StartStep, LoopStep, MaintenanceStep

\* The step that brings a space to rest leaves no backlog, unless it is a
\* hand-off.
LEMMA Rested ==
  ASSUME TypeOK, LoopInv, MaintInv, WakeInv, [Next]_vars, faults' = 0, ~AtRest, AtRest'
  PROVE  Candidates(processed)' = {} \/ \E t \in Tasks : pc[t] = "handOff"
<1> USE SchedulerAssumption DEF TypeOK, StoreOK, MemoryOK, TasksOK
<1>1. \A kind \in FaultKinds : ~Fault(kind)
  BY Remembered
<1>2. \A u \in Tasks : pc'[u] = "idle"
  BY DEF AtRest
\* A task that is turned away leaves the owner of the slot or the flag at work.
<1>3. ASSUME NEW t \in Tasks, \A u \in Tasks \ {t} : pc'[u] = pc[u]
      PROVE  /\ slot # 0 => OwnsSlot(t)
             /\ processing => HoldsFlag(t)
  BY <1>2, <1>3 DEF WakeInv, OwnsSlot, LoopPCs, HoldsFlag, MaintPCs
<1>4. ASSUME NEW t \in Tasks,
             \/ IngestCheckSlot(t) \/ IngestCheckMaintenance(t) \/ StartCheckSlot(t)
             \/ StartCheckMaintenance(t) \/ TryProcess(t) \/ Claim(t)
      PROVE  FALSE
  <2>1. \A u \in Tasks \ {t} : pc'[u] = pc[u]
    BY <1>4 DEF IngestCheckSlot, IngestCheckMaintenance, StartCheckSlot, StartCheckMaintenance,
       TryProcess, Claim, NotStarted, GoTo, Exit
  <2>2. CASE IngestCheckSlot(t) \/ StartCheckSlot(t) \/ TryProcess(t)
    <3>1. pc[t] \in {"ingest", "start", "tryProcess"} /\ slot # 0
      BY <1>2, <2>2 DEF IngestCheckSlot, StartCheckSlot, TryProcess, GoTo
    <3> QED
      BY <1>3, <2>1, <3>1 DEF OwnsSlot, LoopPCs
  <2>3. CASE IngestCheckMaintenance(t) \/ StartCheckMaintenance(t) \/ Claim(t)
    <3>1. pc[t] \in {"ingestIdle", "startIdle", "claim"} /\ processing
      BY <1>2, <2>3 DEF IngestCheckMaintenance, StartCheckMaintenance, Claim, GoTo
    <3> QED
      BY <1>3, <2>1, <3>1 DEF HoldsFlag, MaintPCs
  <2> QED
    BY <1>4, <2>2, <2>3
<1>5. ASSUME NEW t \in Tasks, IngestPick(t) PROVE Candidates(processed)' = {}
  <2>1. UNCHANGED <<total, status, processed>> /\ FoundNone(processed)
    BY <1>2, <1>5 DEF IngestPick, GoTo, store
  <2> QED
    BY <1>1, <2>1 DEF FoundNone, FaultKinds, Candidates
<1>6. ASSUME NEW t \in Tasks, StartPick(t) PROVE Candidates(processed)' = {}
  <2>1. /\ UNCHANGED <<total, status, processed>> /\ FoundNone(conv[t] - 1) /\ pc[t] = "startPick"
        /\ \A u \in Tasks \ {t} : pc'[u] = pc[u]
    BY <1>2, <1>6 DEF StartPick, GoTo, Exit, store
  <2>2. Candidates(conv[t] - 1) = {}
    BY <1>1, <2>1 DEF FoundNone, FaultKinds
  <2>3. conv[t] \in Nat \ {0} /\ (conv[t] <= processed + 1 \/ conv[t] <= total)
    BY <2>1 DEF LoopInv, ConvMatchesPC, WakeInv, TaskW, Starts
  <2>4. CASE conv[t] <= processed + 1
    BY <2>1, <2>2, <2>3, <2>4 DEF Candidates, Ids
  <2>5. CASE processed + 1 < conv[t]
    <3>1. total \in Ids /\ processed < total /\ total \notin Candidates(conv[t] - 1)
      BY <2>2, <2>3, <2>5 DEF Ids, WakeInv
    <3>2. status[total] = "completed"
      BY <2>3, <2>5, <3>1 DEF Candidates
    <3>3. PICK u \in Tasks : pc[u] = "mark"
      BY <3>1, <3>2 DEF WakeInv
    <3> QED
      BY <1>2, <2>1, <3>3
  <2> QED
    BY <2>3, <2>4, <2>5
<1>7. ASSUME NEW t \in Tasks, LoopRecheck(t) PROVE Candidates(processed)' = {}
  <2>1. /\ UNCHANGED <<total, status, processed>> /\ FoundNone(conv[t]) /\ pc[t] = "recheck"
    BY <1>2, <1>7 DEF LoopRecheck, GoTo, store
  <2>2. Candidates(conv[t]) = {}
    BY <1>1, <2>1 DEF FoundNone, FaultKinds
  <2>3. conv[t] <= processed
    BY <2>1 DEF LoopInv, ConvMatchesPC, WakeInv, TaskW, Past
  <2> QED
    BY <2>1, <2>2, <2>3 DEF Candidates, Ids
<1>8. ASSUME NEW t \in Tasks, Abort(t) \/ RunClaim(t) \/ DropClaim(t) \/ Mishap(t) PROVE FALSE
  BY <1>1, <1>8 DEF Abort, RunClaim, DropClaim, Mishap, EncodeFails, EncodeUnfinished, EncodePanics,
     DispatchFails, AddFails, CycleFails, CyclePanics, FaultKinds, WakeInv, TaskW, MaintInv
<1>9. ASSUME NEW t \in Tasks, HandOff(t) PROVE \E u \in Tasks : pc[u] = "handOff"
  BY <1>9 DEF HandOff
<1>10. ASSUME NEW t \in Tasks,
              \/ Request(t) \/ Resume(t) \/ Load(t) \/ EncodeCompletes(t) \/ Mark(t) \/ Schedule(t)
              \/ LoopNext(t) \/ Release(t) \/ ClaimMark(t) \/ Settle(t) \/ Inherit(t)
              \/ CycleCompletes(t) \/ CycleReleases(t)
       PROVE  FALSE
  BY <1>2, <1>10 DEF Request, Ingest, OperatorRestart, RequestMaintenance, Resume, Load,
     EncodeCompletes, Mark, Schedule, LoopNext, Release, ClaimMark, Settle, Inherit,
     CycleCompletes, CycleReleases, GoTo
<1>11. ASSUME NEW t \in Tasks, SpawnCycle(t) PROVE FALSE
  BY <1>2, <1>11 DEF SpawnCycle, GoTo
<1>12. ASSUME NEW t \in Tasks, EncodeSnapshot(t) PROVE FALSE
  BY <1>2, <1>12 DEF EncodeSnapshot, Encoding
<1>13. CASE Evict \/ Crash \/ UNCHANGED vars
  BY <1>1, <1>13 DEF Evict, Crash, vars, AtRest, FaultKinds
<1> QED
  BY <1>4, <1>5, <1>6, <1>7, <1>8, <1>9, <1>10, <1>11, <1>12, <1>13
  DEF Next, TaskStep, StartStep, LoopStep, MaintenanceStep

\* Where nothing failed, a space comes to rest with an empty queue, or by a
\* hand-off, whatever requests, restarts and maintenances crossed each other.
THEOREM NoWakeupLost == Spec => NoStrandedBacklog
<1> DEFINE Unfailed == faults = 0 => MaintInv /\ WakeInv
<1>1. Init => LoopInv /\ Unfailed
  BY SchedulerAssumption
  DEF Init, LoopInv, ConvMatchesPC, OneLoopOwnsSlot, OwnsSlot, LoopPCs, MaintInv, Keeps, Marked,
      HoldsFlag, MaintPCs, WakeInv, TaskW, Starts, Past
<1>2. TypeOK /\ TypeOK' /\ LoopInv /\ LoopInv' /\ Unfailed /\ [Next]_vars => Unfailed'
  <2> SUFFICES ASSUME TypeOK, TypeOK', LoopInv, LoopInv', Unfailed, [Next]_vars, faults' = 0
               PROVE  MaintInv' /\ WakeInv'
    OBVIOUS
  <2>1. faults = 0 /\ \A t \in Tasks : ~AddFails(t)
    BY Remembered DEF TypeOK, MemoryOK, AddFails, FaultKinds
  <2>2. MaintInv' /\ WakeInv'
    BY <2>1, NextMaint, NextWake
  <2> QED
    BY <2>2
<1>3. TypeOK /\ LoopInv /\ Unfailed /\ [Next]_vars
        => [~AtRest /\ AtRest' /\ faults' = 0
              => Candidates(processed)' = {} \/ \E t \in Tasks : pc[t] = "handOff"]_vars
  <2> SUFFICES ASSUME TypeOK, LoopInv, Unfailed, [Next]_vars, faults' = 0, ~AtRest, AtRest'
               PROVE  Candidates(processed)' = {} \/ \E t \in Tasks : pc[t] = "handOff"
    OBVIOUS
  <2>1. faults = 0
    BY Remembered DEF TypeOK, MemoryOK
  <2> QED
    BY <2>1, Rested
<1> QED
  BY <1>1, <1>2, <1>3, TypeCorrect, NextLoop, PTL DEF Spec, NoStrandedBacklog
=============================================================================
