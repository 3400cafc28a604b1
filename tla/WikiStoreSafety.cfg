SPECIFICATION FairSpec
CONSTANTS
  Docs = {d1, d2}
  Bodies = {b1, b2}
  Parts = {p1, p2}
  MaxVersions = 3
  MaxFailures = 1
PROPERTIES
  CommitsKeepServing
  ImplementsHistory
  SweepEndsExact
  RepairedInTheEnd
