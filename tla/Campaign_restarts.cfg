SPECIFICATION FairSpec
CONSTANTS
  Provider = {"groq", "openai"}
  Gemini = {}
  Output = {"fifty", "prose"}
  Unparsable = {"prose"}
  Failures <- CampaignFailures
  ProviderOrder <- TwoProviders
  CellsPerProvider = 2
  MaxCrashes = 2
INVARIANTS
  OneResultPerCell
  CrashCostsTwoCalls
PROPERTIES
  CampaignCompletes
