SPECIFICATION FairSpec
CONSTANTS
  Docs = {d1}
  Bodies = {b1, b2}
  MaxVersions = 3
  Withheld = {b2}
  PerRun = 1
  MaxStrikes = 2
  Faults = {"commit", "restore", "extract", "write", "mark", "save", "die", "restart"}
  MaxFaults = 2
INVARIANTS
  DigestedOrQueued
  FactsAreAccountedFor
  FuseIsEarned
PROPERTY EveryVersionIsDigested
