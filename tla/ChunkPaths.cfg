SPECIFICATION ChunkSpec
CONSTANTS
  Lines <- TheLines
  MaxLines = 4
  TargetMin = 4
  TargetMax = 6
  HardMax = 7
  AtomicMax = 11
  MaxChunks = 4
INVARIANT PathsAreHonest
CHECK_DEADLOCK FALSE
