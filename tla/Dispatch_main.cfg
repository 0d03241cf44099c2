SPECIFICATION Spec
CONSTANTS
  big = big
  small = small
  a1 = a1
  a2 = a2
  Process = {d1, d2}
  Profile <- MCProfile
  ProviderList <- MCProviderList
  Past <- MCPast
  TotalQuota <- MCTotalQuota
  Tasks <- MCTasks
  Prediction <- MCPrediction
  Answer <- MCAnswer
  RecentWindow = 1
  DecayDays = 1
  MinBucketSamples = 2
  MaxTasks = 2
  MaxAppends = 5
  MaxCrashes = 1
  MaxDay = 2
SYMMETRY Symmetric
INVARIANTS
  LossIsReported
  ReadersSeeAppendOrder
  QuotaCommitmentBounded
  ShortcutNeedsAHit
  OutcomesFollowTheirPredictions
  PlansCoverTheTask
  LearnedFromMeasurements
  ForecastsPrecedeScores
CHECK_DEADLOCK FALSE
