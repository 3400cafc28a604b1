SPECIFICATION Spec
CONSTANTS
  Docs = {d1}
  Bodies = {b1, b2}
  Parts = {p1}
  MaxVersions = 3
  MaxFailures = 1
INVARIANT HistoryWasCurrent
