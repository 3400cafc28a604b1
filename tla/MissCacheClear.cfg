SPECIFICATION MissSpec
CONSTANTS
  Readers = {"r1", "r2"}
  Queries = {"q"}
  Uncachable = {}
  MaxMisses = 1
  MissTTL = 1
  MaxTime = 3
  MaxWrites = 1
INVARIANT ClearedMissesStayCleared
CHECK_DEADLOCK FALSE
