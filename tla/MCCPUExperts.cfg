SPECIFICATION Spec
CONSTANTS
  NLayers = 2
  NumExperts = 3
  TopK = 2
  GroupMin = 2
  GroupMax = 3
  LinearWidth = 5
  MaxPrompt = 4
  MaxPasses = 3
  Routings <- SomeRoutings
  Configs <- AllConfigs
INVARIANTS HandOff UsesLiveMemory Contributions
PROPERTY PassCompletes
CHECK_DEADLOCK FALSE
