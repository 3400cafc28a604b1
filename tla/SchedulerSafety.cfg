SPECIFICATION Spec
CONSTANTS
  Tasks = {t1, t2, t3}
  MaxConversations = 2
  FullEvery = 3
  QuickEvery = 2
  DaydreamEvery = 1
  Faults = {"llm", "panic", "crash", "dispatch", "save"}
  MaxFaults = 1
  MaxManual = 1
  Operator = TRUE
SYMMETRY TaskSymmetry
INVARIANTS
  OneLoopOwnsSlot
  WatermarkSound
  MaintenanceExclusive
PROPERTIES
  ScopeMarksGrow
  ImplementsQueue
