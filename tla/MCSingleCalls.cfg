CONSTANTS
  \* HybridSchedule: up to six experts, every set of hits.
  LayerExperts = {0, 1, 2, 3, 4, 5}
  MaxTopK = 6
  \* KVAttention: two threads, two heads of up to eight tokens.
  AttnThreads = {t1, t2}
  AttnHeads = {h1, h2}
  AttnBlocks = 2
  AttnBlockLen = 4
  ByteLen = 2
  NoThread = nobody
  NoHead = nohead
  \* KVAnchors: four blocks of two tokens, one kv head or two.
  AnchorBlockLen = 2
  AnchorBlocks = 4
  InitBlockNum = 1
  LocalBlockNum = 1
  QHeadNum = 2
  Settings <- MCSettings
  \* MoERouting: two of four experts in two groups, three tokens.
  RoutedExperts = 4
  NGroup = 2
  TopKGroup = 1
  TopK = 2
  Scores = {1, 3}
  Biases <- MCBiases
  MaxTokens = 3
  SimpleTokens = 2
  EpSize = 2
  EpTokens = 2
  \* GGUFTensors: up to three iterations, ends of the header of any kind.
  BlocksPerIter = 2
  MaxBlocks = 5
  MaxExperts = 2
  TensorsBefore <- MCTensorsBefore
  HeaderEnds = {4, 32, 100}
  Alignments = {8, 32}
  \* ModelLoading: every pair of rules.
  MaxRules = 2
  Devices = {"cuda:1"}
  \* CausalAttention: up to three prompts of up to three chunks, pages of
  \* two slots, all four splits of the decoding kernel.
  AttnConfigs <- MCAttnConfigs
  CacheLens = 9
  CachePage = 2
  ChunkPrefillSize = 3
  ChunckSize = 2
  SlidingWindow = 2
  MaxNewTokens = 4
  MaxPrompt = 4
  MaxPrompts = 3
SPECIFICATION SingleSpec
INVARIANTS
  EachOnce
  NeverSlowerThanOne
  EachTokenWeighed
  RankedByOwnKeys
  RoutedByGroup
  GivenToItsExperts
  LoadedAsWritten
  LoadedAsRuled
  SeesItsPast
\* Each call ends.
CHECK_DEADLOCK FALSE
