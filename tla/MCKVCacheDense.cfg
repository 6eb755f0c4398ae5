\* The shipped settings in small: preselection, one dense layer of two, and a
\* prompt of which one block is evicted.
CONSTANTS
  BlockLen = 3
  BlockNum = 7
  LayerNum = 2
  InitBlocks = 1
  Pick = 1
  LocalBlocks = 1
  PreCount = 3
  ChunkSize = 5
  CallSize = 10
  Configs <- Shipped
SPECIFICATION Spec
INVARIANTS
  DenseImportsAll
\* As in MCKVCache.cfg.
CHECK_DEADLOCK FALSE
