SPECIFICATION Spec
CONSTANTS
  Tasks = {t1, t2}
  MaxConversations = 2
  FullEvery = 9
  QuickEvery = 9
  DaydreamEvery = 9
  Faults = {"add"}
  MaxFaults = 1
  MaxManual = 2
  Operator = FALSE
INVARIANT MaintenanceExclusive
