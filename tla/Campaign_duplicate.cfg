SPECIFICATION Spec
CONSTANTS
  Provider = {"groq"}
  Gemini = {}
  Output = {"fifty"}
  Unparsable = {}
  Failures <- NoFailures
  ProviderOrder <- OneProvider
  CellsPerProvider = 1
  MaxCrashes = 1
INVARIANTS
  OneMeasurementPerCell
