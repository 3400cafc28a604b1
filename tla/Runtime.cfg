SPECIFICATION RuntimeSpec
CONSTANTS
  Ids = {i1}
  r1 = r1
  Requests = {r1, r2}
  Slots = {s1, s2}
  MaxModelTurns = 3
  PersistEvery = 2
  MaxRuns = 3
  MaxRestarts = 1
INVARIANTS OneOpenDatabase EvictionSparesUsers ClosesInOrder RunsAreSound
PROPERTY EverythingEnds
CHECK_DEADLOCK FALSE
