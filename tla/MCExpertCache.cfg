\* Three layers of three experts, two slots each; one prefetch per layer.
CONSTANTS
  L = 3
  n = 3
  LoadSize = 2
  PrefetchSize = 1
  TopK = 2
  Kinds = {"prefill", "decode"}
  MaxPasses = 2
SPECIFICATION FairSpec
INVARIANTS
  TypeOK
  SlotPartition
  IndexTruthful
  CurrentWeights
PROPERTIES
  ForwardReturns
CHECK_DEADLOCK FALSE
