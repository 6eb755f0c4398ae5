\* A dense and a sparse layer, every choice of operators, four forwards.
CONSTANTS
  NLayers = 2
  FirstSparse = 1
  MaxPasses = 4
SPECIFICATION Spec
INVARIANTS
  SameConfiguration
  AsLoaded
  FailureForetold
  GraphCurrent
\* A behaviour ends after MaxPasses forwards, or with the process.
CHECK_DEADLOCK FALSE
