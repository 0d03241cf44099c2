SPECIFICATION FairSpec
CONSTANTS
  Provider = {"openai", "groq", "gemini"}
  Gemini = {"gemini"}
  Output = {"fifty", "eighty", "prose"}
  Unparsable = {"prose"}
  Conflicts <- ConflictingOutputs
  Failures <- SomeFailures
  NumBatches = 2
  MaxRuns = 1
  MayCrash = FALSE
  MirrorResults = {"failed"}
INVARIANTS
  TypeOK
  ExitZeroIsTrustworthy
  AttemptsFollowChain
  GivesUpOnlyWhenExhausted
PROPERTIES
  RerouteOnlyOnEnvironmental
  RunsEnd
  ImplementsAppendOnlyLog
CHECK_DEADLOCK FALSE
