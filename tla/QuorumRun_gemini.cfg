SPECIFICATION Spec
CONSTANTS
  Provider = {"openai", "gemini"}
  Gemini = {"gemini"}
  Output = {"fifty"}
  Unparsable = {}
  Conflicts = {}
  Failures <- ConnectionFailure
  NumBatches = 1
  MaxRuns = 1
  MayCrash = FALSE
  MirrorResults = {"inserted"}
INVARIANTS
  ConnectionFailuresReroute
CHECK_DEADLOCK FALSE
