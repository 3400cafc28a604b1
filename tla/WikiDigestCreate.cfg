SPECIFICATION Spec
CONSTANTS
  Docs = {d1}
  Bodies = {b1, b2}
  MaxVersions = 2
  Withheld = {}
  PerRun = 1
  MaxStrikes = 2
  Faults = {}
  MaxFaults = 0
PROPERTY CursorAwaitsFlip
