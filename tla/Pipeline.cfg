SPECIFICATION Spec
CONSTANTS
  Policies = {"RR", "STATIC"}
  NObjects = 4
  MaxIndex = 2
  Longest = 5
  Placeholder = 3
  Lengths <- SomeLengths
  Layers = 2
  Steps = 2
  PromptTokens = 1
  Deadline = 2
INVARIANTS SampleWhole PromptFresh
PROPERTIES GenerationStops PipelineFlows
