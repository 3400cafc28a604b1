SPECIFICATION Spec
CONSTANTS
  Links = {l1, l2}
  Concepts = {c1}
  Subject <- HubSubject
  Broken = {l1}
  BatchLimit = 1
  MaxBatches = 2
  Requests <- OneOrHub
  MaxRetrievals = 2
  MaxFailures = 0
INVARIANT ForgottenLeavesNoRow
