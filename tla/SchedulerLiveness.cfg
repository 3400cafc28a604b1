SPECIFICATION FairSpec
CONSTANTS
  Tasks = {t1, t2}
  MaxConversations = 2
  FullEvery = 3
  QuickEvery = 2
  DaydreamEvery = 1
  Faults = {"llm", "panic", "dispatch", "crash", "add"}
  MaxFaults = 1
  MaxManual = 2
  Operator = FALSE
PROPERTIES
  EveryConversationIsFormed
  FlagsAreReleased
