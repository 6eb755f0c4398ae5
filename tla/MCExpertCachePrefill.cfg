\* Prefill alone.
CONSTANTS
  L = 3
  n = 3
  LoadSize = 1
  PrefetchSize = 0
  TopK = 2
  Kinds = {"prefill"}
  MaxPasses = 1
SPECIFICATION Spec
INVARIANTS
  WeightsIntact
CHECK_DEADLOCK FALSE
