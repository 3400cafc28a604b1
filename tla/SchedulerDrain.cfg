SPECIFICATION Spec
CONSTANTS
  Tasks = {t1, t2, t3}
  MaxConversations = 3
  FullEvery = 9
  QuickEvery = 9
  DaydreamEvery = 2
  Faults = {"add", "read", "dispatch"}
  MaxFaults = 1
  MaxManual = 1
  Operator = TRUE
SYMMETRY TaskSymmetry
PROPERTIES
  NoStrandedBacklog
  WatermarkNeverRewinds
