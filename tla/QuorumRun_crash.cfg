SPECIFICATION Spec
CONSTANTS
  Provider = {"openai"}
  Gemini = {}
  Output = {"fifty"}
  Unparsable = {}
  Conflicts = {}
  Failures <- FewFailures
  NumBatches = 1
  MaxRuns = 2
  MayCrash = TRUE
  MirrorResults = {"inserted", "failed"}
INVARIANTS
  ExitZeroLeavesEvidence
  LedgerTellsRunsInOrder
  MirrorIsACopy
PROPERTIES
  ImplementsVerdict
CHECK_DEADLOCK FALSE
