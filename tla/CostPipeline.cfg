SPECIFICATION Spec
CONSTANTS
  Baselines <- MCBaselines
  Hybrids <- MCHybrids
  Kinds = {"c", "python"}
  RunCounts <- MCRunCounts
  NUM_RUNS = 3
  Counters = {"l2_miss"}
  MaxTrainings = 2
  MaxEvaluations = 1
INVARIANTS
  PipelineInv
  WeightsAreWholeProfiles
  RowsAreOwnRuns
  PredictionsAreTrained
CHECK_DEADLOCK FALSE
