SPECIFICATION Spec
CONSTANTS
  Tasks = {t1, t2}
  MaxConversations = 2
  FullEvery = 9
  QuickEvery = 9
  DaydreamEvery = 9
  Faults = {"read"}
  MaxFaults = 1
  MaxManual = 0
  Operator = FALSE
INVARIANT WatermarkSound
