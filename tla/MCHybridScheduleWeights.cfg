\* The routing weights that go to the CPU with its experts.
CONSTANTS
  LayerExperts = {0, 1, 2, 3}
  MaxTopK = 4
SPECIFICATION HssSpec
INVARIANT WeightsMatch
CHECK_DEADLOCK FALSE
