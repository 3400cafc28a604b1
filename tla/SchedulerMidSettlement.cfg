SPECIFICATION Spec
CONSTANTS
  Tasks = {t1, t2}
  MaxConversations = 2
  FullEvery = 9
  QuickEvery = 9
  DaydreamEvery = 9
  Faults = {}
  MaxFaults = 0
  MaxManual = 1
  Operator = FALSE
PROPERTY NoFormationStartsMidSettlement
