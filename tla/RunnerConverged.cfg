SPECIFICATION RunnerSpec
CONSTANTS
  MaxModelTurns = 3
  PersistEvery = 2
  MaxRuns = 1
  MaxRestarts = 0
PROPERTY CompletedStays
CHECK_DEADLOCK FALSE
