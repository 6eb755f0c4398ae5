\* Blocks of 3, 7 blocks, two layers; chunks of 5 and calls of 10 tokens end in
\* the middle of blocks; 3 blocks are preselected and 3 selected of those.
CONSTANTS
  BlockLen = 3
  BlockNum = 7
  LayerNum = 2
  InitBlocks = 1
  Pick = 1
  LocalBlocks = 1
  PreCount = 3
  ChunkSize = 5
  CallSize = 10
  Configs <- AllConfigs
SPECIFICATION Spec
INVARIANTS
  WholeContext
  NothingLost
  EachTokenOnce
  ReuseGap
\* Generation stops when the cache is full, or Python raised an exception.
CHECK_DEADLOCK FALSE
