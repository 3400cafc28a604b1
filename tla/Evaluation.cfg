SPECIFICATION EvaluationSpec
CONSTANTS
  MaxTurns = 3
  MaxStalls = 1
  NoiseLevels = {0, 1}
  Cadences = {0, 1, 2}
  TranscriptTail = 2
  Whole = 720
  Weights = {1}
  Wordings <- TheWordings
  MaxExpectations = 2
  Verdicts <- TheVerdicts
  Healths = {360}
  Overruns = {0, 360}
  SampleCount = 3
  MaxCheckpoints = 2
  SampleTotals = {0, 1, 2}
  Causes = {"c"}
  ProfileCount = 2
  ScenarioCount = 3
  Budget = 2
  Quality <- TheQuality
  FormationTurns = 2
  Evaluators = {1, 2}
  MaxQueries = 3
  Judges = {"a", "b", "fair"}
  Totals = {0, 1, 2, 3}
  Deviations = {0, 1}
  Attributions <- TheAttributions
  ConfidenceZ = 1
  MinDelta = 0
  HoldoutEpsilon = 1
  Generations = 3
  Fields = {"decay_floor", "unsorted_max_backlog"}
  StepFloor <- TheFloors
  DefaultPolicy <- TheDefaults
  PolicyValues = {0, 1, 2, 6, 7}
  ValidValues <- TheRanges
  Configs <- TheConfigs
INVARIANTS TimelineIsFair ScoringIsFair SuitesCompareAlike ShadowIsFair OptimizingIsSound
CHECK_DEADLOCK FALSE
