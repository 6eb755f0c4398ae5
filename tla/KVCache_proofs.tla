--------------------------- MODULE KVCache_proofs ---------------------------
(***************************************************************************)
(* The KV cache of the long-context mode, and the attention over it.       *)
(*                                                                         *)
(* KVCache: what the prefill wrote and what generation added stays at its  *)
(* place in every layer (StoreInv), because the table of a generated token *)
(* maps its position to a block no other entry up to it has (GoodTable);   *)
(* a selection consists of different blocks, all full but the last         *)
(* (KeptBlocks), so that attention never visits a slot twice nor one       *)
(* beyond the newest token.                                                *)
(*                                                                         *)
(* KVAttention: at the end of the job the output of each head accounts for *)
(* each token once.  The invariant says where the slots of each task are:  *)
(* each task is at one place, and each sum is the bag of the slots of the  *)
(* tasks at its place.                                                     *)
(***************************************************************************)
EXTENDS KVCache, KVAttention, NumberLemmas, SequenceTheorems, TLAPS

(* The running call: q_len of its tokens are in layer .. , and what is     *)
(* left of it; a call before the last piece of the prompt has CallSize.    *)
CallInv ==
  /\ conf \in Configs
  /\ {len, callEnd, q_len, layer, played} \subseteq Nat
  /\ len <= callEnd /\ callEnd <= MaxSeqLen
  /\ q_len = MinOf(ChunkSize, callEnd - len)
  /\ played <= layer /\ layer <= LayerNum
  /\ q_len # 1 => played = layer /\ ~failed
  /\ q_len = 0 => layer = 0
  /\ failed => layer < LayerNum
  /\ \/ remaining_length = callEnd - len
     \/ remaining_length = 0 /\ callEnd - len <= ChunkSize
  /\ callEnd < conf.prompt =>
       callEnd = len \/ \E k \in Nat : CallSize = k * ChunkSize + (callEnd - len)

(* The tokens of whole chunks *)
Chunked == len + IF q_len > 1 THEN q_len ELSE 0

(* What the prefill leaves to the generation.  It is there only after a    *)
(* last chunk of several tokens: then pieces of CallSize all end with one. *)
PrefillInv ==
  /\ prefill_block_num \in Nat \cup {-1}
  /\ prefill_block_num # -1 => callEnd >= conf.prompt \/ CallSize % ChunkSize # 1
  /\ prefill_block_num <= MaxOf(0, BlocksFor(Chunked) - LocalBlocks)
  /\ evict_tokens = MaxOf(prefill_block_num - PreCount, 0) * BlockLen

EvictsNow == conf.preselect /\ PreCount < prefill_block_num
SparseIssued == q_len = 1 /\ layer > conf.dense /\ conf.preselect

TableInv ==
  /\ DOMAIN block_table = 1 .. BlockNum
  /\ (\A k \in Layers : ~Evicting(k)) => block_table = Ascending
  /\ SparseIssued => prefill_block_num # -1
  /\ SparseIssued /\ EvictsNow =>
       \A i \in PreCount + 1 .. PreCount + LocalBlocks + 1 :
         block_table[i] = prefill_block_num + i - 1 - PreCount

(* The prompt is not over. *)
Growing ==
  \/ q_len > 1
  \/ q_len = 0 /\ len < conf.prompt
  \/ q_len = 1 /\ callEnd < conf.prompt

KnownTo(l) == IF l < played THEN len + q_len ELSE len
InPlace(l) ==
  \A p \in 0 .. KnownTo(l) - 1 : store[l][p \div BlockLen][p % BlockLen] = Token(l, p)

Cells == {None} \cup {Token(l, p) : l \in Layers, p \in 0 .. MaxSeqLen - 1}

StoreInv ==
  /\ store \in [Layers -> [Blocks -> [Slots -> Cells]]]
  /\ \A l \in Layers : Growing \/ (~Overtaken(l) /\ InRoom(l, len + 1)) => InPlace(l)

-----------------------------------------------------------------------------
(* Constants and arithmetic *)

LEMMA Constants ==
  /\ BlockLen \in Nat \ {0} /\ BlockNum \in Nat \ {0} /\ LayerNum \in Nat \ {0}
  /\ Pick \in Nat \ {0} /\ PreCount \in Nat \ {0} /\ InitBlocks \in Nat /\ LocalBlocks \in Nat
  /\ ChunkSize \in Nat /\ ChunkSize >= 2 /\ CallSize \in Nat /\ CallSize >= 2
  /\ PreCount + LocalBlocks + 1 <= BlockNum
  /\ MaxSeqLen = BlockNum * BlockLen /\ MaxSeqLen \in Nat
BY KVCacheAssumption DEF MaxSeqLen

LEMMA ConfigOk ==
  ASSUME conf \in Configs
  PROVE  /\ conf.preselect \in BOOLEAN /\ conf.separate \in BOOLEAN
         /\ conf.layerStep \in Nat \ {0} /\ conf.tokenStep \in Nat \ {0}
         /\ conf.dense \in 0 .. LayerNum /\ conf.dense \in Nat
         /\ conf.prompt \in Nat /\ conf.prompt >= 1 /\ conf.prompt <= MaxSeqLen
<1>1. /\ {conf.preselect, conf.separate} \subseteq BOOLEAN
      /\ {conf.layerStep, conf.tokenStep} \subseteq Nat \ {0}
      /\ conf.dense \in 0 .. LayerNum
      /\ conf.prompt \in 1 .. BlockNum * BlockLen
  BY KVCacheAssumption
<1> QED BY <1>1, Constants

(* A position is a block and a slot. *)
LEMMA Place ==
  ASSUME NEW p \in Nat
  PROVE  /\ p \div BlockLen \in Nat /\ p % BlockLen \in Slots
         /\ p = (p \div BlockLen) * BlockLen + (p % BlockLen)
         /\ p < MaxSeqLen => p \div BlockLen \in Blocks
<1>1. BlockLen \in Nat \ {0} /\ BlockNum \in Nat /\ MaxSeqLen = BlockNum * BlockLen
  BY Constants
<1>2. /\ p \div BlockLen \in Nat /\ p % BlockLen \in 0 .. BlockLen - 1
      /\ p = (p \div BlockLen) * BlockLen + (p % BlockLen)
  BY <1>1, DivMod
<1>3. ASSUME p < MaxSeqLen PROVE p \div BlockLen \in 0 .. BlockNum - 1
  <2>1. 0 \in 0 .. BlockLen - 1
    BY <1>1
  <2>2. PICK q, r : q = p \div BlockLen /\ r = p % BlockLen
    OBVIOUS
  <2>3. q * BlockLen + r < BlockNum * BlockLen + 0
    BY <1>1, <1>2, <1>3, <2>2
  <2>4. q < BlockNum
    BY <1>1, <1>2, <2>1, <2>2, <2>3, DivOrder
  <2> QED BY <1>1, <1>2, <2>2, <2>4
<1> QED BY <1>2, <1>3 DEF Slots, Blocks

LEMMA SamePlace ==
  ASSUME NEW b \in Nat, NEW s \in Slots
  PROVE  (b * BlockLen + s) \div BlockLen = b /\ (b * BlockLen + s) % BlockLen = s
<1>1. BlockLen \in Nat \ {0} /\ s \in 0 .. BlockLen - 1
  BY Constants DEF Slots
<1> QED BY <1>1, DivUnique

LEMMA BlocksOrder ==
  ASSUME NEW p \in Nat, NEW r \in Nat, p <= r
  PROVE  p \div BlockLen <= r \div BlockLen
<1>1. BlockLen \in Nat \ {0}
  BY Constants
<1>2. PICK a, b, c, d : a = p \div BlockLen /\ b = p % BlockLen /\ c = r \div BlockLen /\ d = r % BlockLen
  OBVIOUS
<1>3. /\ a \in Nat /\ b \in 0 .. BlockLen - 1 /\ p = a * BlockLen + b
      /\ c \in Nat /\ d \in 0 .. BlockLen - 1 /\ r = c * BlockLen + d
  BY <1>1, <1>2, DivMod
<1>4. ~(c * BlockLen + d < a * BlockLen + b)
  BY <1>3
<1>5. ~(c < a)
  BY <1>1, <1>3, <1>4, DivOrder
<1> QED BY <1>2, <1>3, <1>5

LEMMA BlocksForOk ==
  ASSUME NEW p \in Nat
  PROVE  /\ BlocksFor(p) \in Nat /\ BlocksFor(p) <= p \div BlockLen + 1
         /\ \A r \in Nat : p <= r => BlocksFor(p) <= BlocksFor(r)
<1>1. BlockLen \in Nat \ {0}
  BY Constants
<1>2. \A r \in Nat : r + BlockLen - 1 \in Nat
  BY <1>1
<1>3. BlocksFor(p) \in Nat
  BY <1>1, <1>2, DivMod DEF BlocksFor
<1>4. \A r \in Nat : p <= r => BlocksFor(p) <= BlocksFor(r)
  <2> SUFFICES ASSUME NEW r \in Nat, p <= r PROVE BlocksFor(p) <= BlocksFor(r)
    OBVIOUS
  <2>1. p + BlockLen - 1 \in Nat /\ r + BlockLen - 1 \in Nat /\ p + BlockLen - 1 <= r + BlockLen - 1
    BY <1>1
  <2> QED BY <2>1, BlocksOrder DEF BlocksFor
<1>5. BlocksFor(p) <= p \div BlockLen + 1
  <2>1. PICK a, b : a = p \div BlockLen /\ b = p % BlockLen
    OBVIOUS
  <2>2. a \in Nat /\ b \in 0 .. BlockLen - 1 /\ p = a * BlockLen + b
    BY <1>1, <2>1, DivMod
  <2>3. p + BlockLen - 1 <= (a + 1) * BlockLen + (BlockLen - 1)
    BY <1>1, <2>2
  <2>4. BlockLen - 1 \in Slots /\ a + 1 \in Nat
    BY <1>1, <2>2 DEF Slots
  <2>5. PICK c : c = (a + 1) * BlockLen + (BlockLen - 1)
    OBVIOUS
  <2>6. c \in Nat /\ c \div BlockLen = a + 1
    <3>1. PICK b1 : b1 = a + 1
      OBVIOUS
    <3>2. b1 \in Nat /\ b1 * BlockLen \in Nat
      BY <1>1, <2>4, <3>1
    <3>3. PICK m : m = b1 * BlockLen
      OBVIOUS
    <3>4. c = m + (BlockLen - 1) /\ m \in Nat
      BY <2>5, <3>1, <3>2, <3>3
    <3>5. c \in Nat
      BY <1>1, <3>4
    <3>6. c \div BlockLen = b1
      BY <2>4, <2>5, <3>1, <3>2, SamePlace
    <3> QED BY <3>1, <3>5, <3>6
  <2>7. (p + BlockLen - 1) \div BlockLen <= c \div BlockLen
    BY <1>2, <2>3, <2>5, <2>6, BlocksOrder
  <2> QED BY <2>1, <2>6, <2>7 DEF BlocksFor
<1> QED BY <1>3, <1>4, <1>5

-----------------------------------------------------------------------------
(* The calls and their chunks *)

LEMMA InitCall == ASSUME Init PROVE CallInv
<1>1. conf.prompt \in Nat /\ ChunkSize \in Nat /\ LayerNum \in Nat \ {0} /\ MaxSeqLen \in Nat
  BY Constants, ConfigOk DEF Init
<1>2. MinOf(ChunkSize, callEnd - len) = 0
  BY <1>1 DEF Init, MinOf
<1>3. /\ len = 0 /\ callEnd = 0 /\ q_len = 0 /\ layer = 0 /\ played = 0 /\ remaining_length = 0
      /\ failed = FALSE /\ conf \in Configs
  BY DEF Init
<1> QED BY <1>1, <1>2, <1>3 DEF CallInv

LEMMA CallTypes ==
  ASSUME CallInv
  PROVE  /\ len \in Nat /\ callEnd \in Nat /\ q_len \in Nat /\ layer \in Nat /\ played \in Nat
         /\ remaining_length \in Nat
         /\ conf \in Configs /\ conf.prompt \in Nat /\ ChunkSize \in Nat /\ ChunkSize >= 2
         /\ CallSize \in Nat /\ CallSize >= 2 /\ LayerNum \in Nat \ {0} /\ MaxSeqLen \in Nat
         /\ conf.prompt <= MaxSeqLen
         /\ q_len = (IF ChunkSize <= callEnd - len THEN ChunkSize ELSE callEnd - len)
         /\ len + q_len <= callEnd /\ callEnd <= MaxSeqLen
         /\ (q_len = 0 <=> callEnd = len)
         /\ (q_len = 1 <=> callEnd = len + 1)
         /\ q_len = 0 => layer = 0 /\ played = 0 /\ remaining_length = 0
<1>1. /\ len \in Nat /\ callEnd \in Nat /\ q_len \in Nat /\ layer \in Nat /\ played \in Nat
      /\ len <= callEnd /\ callEnd <= MaxSeqLen /\ conf \in Configs
      /\ q_len = MinOf(ChunkSize, callEnd - len)
      /\ q_len = 0 => layer = 0
      /\ played <= layer
      /\ \/ remaining_length = callEnd - len
         \/ remaining_length = 0 /\ callEnd - len <= ChunkSize
  BY DEF CallInv
<1>2. /\ conf.prompt \in Nat /\ ChunkSize \in Nat /\ ChunkSize >= 2 /\ conf.prompt <= MaxSeqLen
      /\ CallSize \in Nat /\ CallSize >= 2 /\ LayerNum \in Nat \ {0} /\ MaxSeqLen \in Nat
  BY <1>1, Constants, ConfigOk
<1>3. q_len = IF ChunkSize <= callEnd - len THEN ChunkSize ELSE callEnd - len
  BY <1>1 DEF MinOf
<1> QED BY <1>1, <1>2, <1>3

LEMMA CallCall ==
  ASSUME CallInv, PrefillCall \/ DecodeCall
  PROVE  CallInv'
<1>1. q_len = 0 /\ ~failed /\ callEnd = len /\ layer = 0 /\ played = 0 /\ remaining_length = 0
  <2>1. q_len = 0 /\ ~failed
    BY DEF PrefillCall, DecodeCall, Idle
  <2> QED BY <2>1, CallTypes
<1>2. PICK t \in Nat :
        /\ t >= 1 /\ len + t <= MaxSeqLen
        /\ len + t < conf.prompt => t = CallSize
        /\ Call(t)
  <2>1. ASSUME PrefillCall
        PROVE  LET t == MinOf(CallSize, conf.prompt - len)
               IN /\ t \in Nat /\ t >= 1 /\ len + t <= MaxSeqLen
                  /\ len + t < conf.prompt => t = CallSize
                  /\ Call(t)
    BY <2>1, CallTypes DEF PrefillCall, MinOf
  <2>2. ASSUME DecodeCall
        PROVE  /\ 1 \in Nat /\ 1 >= 1 /\ len + 1 <= MaxSeqLen
               /\ len + 1 < conf.prompt => 1 = CallSize
               /\ Call(1)
    BY <2>2, CallTypes DEF DecodeCall
  <2> QED BY <2>1, <2>2
<1>3. /\ callEnd' = len + t /\ len' = len /\ layer' = 0 /\ played' = 0 /\ failed' = failed
      /\ q_len' = MinOf(ChunkSize, t) /\ conf' = conf
      /\ remaining_length' = IF t > ChunkSize THEN t ELSE 0
  BY <1>1, <1>2 DEF Call
<1>4. callEnd' - len' = t
  BY <1>2, <1>3, CallTypes
<1>5. q_len' \in Nat /\ q_len' # 0
  BY <1>2, <1>3, CallTypes DEF MinOf
<1>6. t = CallSize => \E k \in Nat : CallSize = k * ChunkSize + t
  <2>1. CallSize = 0 * ChunkSize + CallSize
    BY CallTypes
  <2> QED BY <2>1
<1>7. callEnd' < conf'.prompt => \E k \in Nat : CallSize = k * ChunkSize + (callEnd' - len')
  BY <1>2, <1>3, <1>4, <1>6
<1>8. q_len' = MinOf(ChunkSize, callEnd' - len')
  BY <1>3, <1>4
<1>9. \/ remaining_length' = callEnd' - len'
      \/ remaining_length' = 0 /\ callEnd' - len' <= ChunkSize
  BY <1>2, <1>3, <1>4, CallTypes
<1>10. /\ conf' \in Configs /\ len' \in Nat /\ callEnd' \in Nat /\ len' <= callEnd' /\ callEnd' <= MaxSeqLen
       /\ layer' \in Nat /\ played' \in Nat /\ played' <= layer' /\ layer' <= LayerNum
       /\ played' = layer' /\ ~failed' /\ layer' = 0
  BY <1>1, <1>2, <1>3, CallTypes
<1> QED BY <1>5, <1>7, <1>8, <1>9, <1>10 DEF CallInv

LEMMA EndChunkCall ==
  ASSUME CallInv, EndChunk
  PROVE  CallInv'
<1>1. /\ q_len > 0 /\ layer = LayerNum /\ len' = len + q_len
      /\ q_len' = MinOf(ChunkSize, callEnd - len')
      /\ remaining_length' = IF remaining_length > 0 THEN remaining_length - q_len ELSE 0
      /\ layer' = 0 /\ played' = 0 /\ conf' = conf /\ callEnd' = callEnd /\ failed' = failed
  BY DEF EndChunk
<1>2. len' \in Nat /\ len' <= callEnd /\ callEnd - len' = callEnd - len - q_len
  BY <1>1, CallTypes
<1>3. q_len' \in Nat
  BY <1>1, <1>2, CallTypes DEF MinOf
<1>4. ~failed
  BY <1>1, CallTypes DEF CallInv
<1>5. \/ remaining_length' = callEnd' - len'
      \/ remaining_length' = 0 /\ callEnd' - len' <= ChunkSize
  <2>1. \/ remaining_length = callEnd - len
        \/ remaining_length = 0 /\ callEnd - len <= ChunkSize
    BY DEF CallInv
  <2> QED BY <1>1, <1>2, <2>1, CallTypes
<1>6. ASSUME callEnd' < conf'.prompt
      PROVE callEnd' = len' \/ \E k \in Nat : CallSize = k * ChunkSize + (callEnd' - len')
  <2>1. PICK k \in Nat : CallSize = k * ChunkSize + (callEnd - len)
    BY <1>1, <1>6, CallTypes DEF CallInv
  <2>2. CASE callEnd - len <= ChunkSize
    BY <1>1, <1>2, <2>2, CallTypes
  <2>3. CASE callEnd - len > ChunkSize
    <3>1. q_len = ChunkSize
      BY <2>3, CallTypes
    <3>2. (k + 1) * ChunkSize = k * ChunkSize + ChunkSize
      BY CallTypes
    <3>3. PICK m : m = k * ChunkSize
      OBVIOUS
    <3>4. m \in Nat
      BY <3>3, CallTypes
    <3>5. CallSize = m + ChunkSize + (callEnd' - len')
      BY <1>1, <1>2, <2>1, <3>1, <3>3, <3>4, CallTypes
    <3>6. k + 1 \in Nat /\ CallSize = (k + 1) * ChunkSize + (callEnd' - len')
      BY <3>2, <3>3, <3>5
    <3> QED BY <3>6
  <2> QED BY <2>2, <2>3, CallTypes
<1> QED BY <1>1, <1>2, <1>3, <1>4, <1>5, <1>6, CallTypes DEF CallInv

LEMMA LayersCall ==
  ASSUME CallInv, PrefillLayer \/ IssueLayer \/ IssueRaises \/ PlayLayer
  PROVE  CallInv'
<1>1. /\ conf' = conf /\ len' = len /\ callEnd' = callEnd /\ q_len' = q_len
      /\ remaining_length' = remaining_length
  BY DEF PrefillLayer, IssueLayer, IssueRaises, PlayLayer
<1>2. q_len # 0 /\ (q_len # 1 => PrefillLayer)
  BY CallTypes DEF PrefillLayer, IssueLayer, IssueRaises, PlayLayer
<1>3. /\ layer' \in Nat /\ played' \in Nat /\ played' <= layer' /\ layer' <= LayerNum
      /\ q_len # 1 => played' = layer' /\ ~failed'
      /\ failed' => layer' < LayerNum
  <2>1. /\ played <= layer /\ layer <= LayerNum /\ (failed => layer < LayerNum)
        /\ q_len # 1 => played = layer /\ ~failed
    BY DEF CallInv
  <2>2. CASE PrefillLayer
    BY <2>1, <2>2, CallTypes DEF PrefillLayer
  <2>3. CASE IssueLayer
    BY <2>1, <2>3, CallTypes DEF IssueLayer
  <2>4. CASE IssueRaises
    BY <2>1, <2>4, CallTypes DEF IssueRaises
  <2>5. CASE PlayLayer
    <3>1. played' = played + 1 /\ layer' = layer /\ failed' = failed /\ played < layer /\ q_len = 1
      BY <2>5 DEF PlayLayer
    <3> QED BY <2>1, <3>1, CallTypes
  <2> QED BY <2>2, <2>3, <2>4, <2>5
<1> QED BY <1>1, <1>2, <1>3 DEF CallInv

-----------------------------------------------------------------------------
(* What the prefill leaves to the generation *)

LEMMA InitPrefill == ASSUME Init PROVE PrefillInv
<1>1. prefill_block_num = -1 /\ evict_tokens = 0 /\ Chunked = 0
  BY DEF Init, Chunked
<1>2. MaxOf(prefill_block_num - PreCount, 0) = 0 /\ 0 * BlockLen = 0
  BY <1>1, Constants DEF MaxOf
<1>3. prefill_block_num <= MaxOf(0, BlocksFor(Chunked) - LocalBlocks)
  BY <1>1, Constants, BlocksForOk DEF MaxOf
<1> QED BY <1>1, <1>2, <1>3 DEF PrefillInv

(* As the tokens of whole chunks only become more, the bound grows. *)
LEMMA MoreBlocks ==
  ASSUME NEW p \in Nat, NEW r \in Nat, p <= r
  PROVE  /\ MaxOf(0, BlocksFor(p) - LocalBlocks) \in Nat
         /\ MaxOf(0, BlocksFor(p) - LocalBlocks) <= MaxOf(0, BlocksFor(r) - LocalBlocks)
<1>1. BlocksFor(p) \in Nat /\ BlocksFor(r) \in Nat /\ BlocksFor(p) <= BlocksFor(r) /\ LocalBlocks \in Nat
  BY BlocksForOk, Constants
<1> QED BY <1>1 DEF MaxOf

LEMMA KeptPrefill ==
  ASSUME CallInv, PrefillInv, PrefillCall \/ DecodeCall \/ EndChunk \/ IssueLayer \/ IssueRaises \/ PlayLayer
  PROVE  PrefillInv'
<1>1. prefill_block_num' = prefill_block_num /\ evict_tokens' = evict_tokens /\ conf' = conf
  BY DEF PrefillCall, DecodeCall, Call, EndChunk, IssueLayer, IssueRaises, PlayLayer, prefillVars
<1>2. CallInv'
  BY CallCall, EndChunkCall, LayersCall
<1>3. Chunked \in Nat /\ Chunked' \in Nat /\ Chunked <= Chunked'
  <2>5. PICK q, n : q = q_len' /\ n = len'
    OBVIOUS
  <2>1. q \in Nat /\ n \in Nat
    BY <1>2, <2>5 DEF CallInv
  <2>2. CASE PrefillCall \/ DecodeCall
    <3>1. q_len = 0 /\ n = len
      BY <2>2, <2>5 DEF PrefillCall, DecodeCall, Idle, Call
    <3>2. Chunked' = n + IF q > 1 THEN q ELSE 0
      BY <2>5 DEF Chunked
    <3>3. Chunked = len /\ len \in Nat
      BY <3>1, CallTypes DEF Chunked
    <3>4. n + (IF q > 1 THEN q ELSE 0) \in Nat /\ n <= n + IF q > 1 THEN q ELSE 0
      BY <2>1
    <3> QED BY <3>1, <3>2, <3>3, <3>4
  <2>3. CASE EndChunk
    <3>1. n = len + q_len
      BY <2>3, <2>5 DEF EndChunk
    <3>2. Chunked' = n + IF q > 1 THEN q ELSE 0
      BY <2>5 DEF Chunked
    <3>3. Chunked \in Nat /\ Chunked <= len + q_len
      BY CallTypes DEF Chunked
    <3>4. n + (IF q > 1 THEN q ELSE 0) \in Nat /\ n <= n + IF q > 1 THEN q ELSE 0
      BY <2>1
    <3> QED BY <2>1, <3>1, <3>2, <3>3, <3>4
  <2>4. CASE IssueLayer \/ IssueRaises \/ PlayLayer
    <3>1. n = len /\ q = q_len
      BY <2>4, <2>5 DEF IssueLayer, IssueRaises, PlayLayer
    <3> QED BY <2>5, <3>1, CallTypes DEF Chunked
  <2> QED BY <2>2, <2>3, <2>4
<1>4. prefill_block_num \in Int /\ prefill_block_num <= MaxOf(0, BlocksFor(Chunked) - LocalBlocks)
  BY DEF PrefillInv
<1>5. prefill_block_num <= MaxOf(0, BlocksFor(Chunked') - LocalBlocks)
  BY <1>3, <1>4, MoreBlocks
<1>6. ASSUME prefill_block_num # -1 PROVE callEnd' >= conf.prompt \/ CallSize % ChunkSize # 1
  <2>1. callEnd >= conf.prompt \/ CallSize % ChunkSize # 1
    BY <1>6 DEF PrefillInv
  <2>2. callEnd' \in Nat /\ callEnd <= callEnd'
    <3>1. CASE PrefillCall \/ DecodeCall
      <4>1. q_len = 0 /\ len' = len
        BY <3>1 DEF PrefillCall, DecodeCall, Idle, Call
      <4> QED BY <1>2, <4>1, CallTypes DEF CallInv
    <3>2. CASE EndChunk \/ IssueLayer \/ IssueRaises \/ PlayLayer
      BY <3>2, CallTypes DEF EndChunk, IssueLayer, IssueRaises, PlayLayer
    <3> QED BY <3>1, <3>2
  <2> QED BY <2>1, <2>2, CallTypes
<1> QED BY <1>1, <1>5, <1>6 DEF PrefillInv

(* The last chunk of a prompt piece that leaves one is not of one token. *)
LEMMA SizeOfLast ==
  ASSUME CallInv, q_len > 1, LastChunk, callEnd < conf.prompt
  PROVE  CallSize % ChunkSize # 1
<1>1. PICK k \in Nat : CallSize = k * ChunkSize + (callEnd - len)
  BY CallTypes DEF CallInv
<1>2. callEnd - len <= ChunkSize
  <2>1. \/ remaining_length = callEnd - len
        \/ remaining_length = 0 /\ callEnd - len <= ChunkSize
    BY DEF CallInv
  <2> QED BY <2>1, CallTypes DEF LastChunk
<1>3. q_len = callEnd - len /\ q_len <= ChunkSize
  BY <1>2, CallTypes
<1>4. CASE q_len = ChunkSize
  <2>1. PICK k1 \in Nat : k1 = k + 1
    OBVIOUS
  <2>2. k1 * ChunkSize = k * ChunkSize + ChunkSize
    BY <2>1, CallTypes
  <2>3. k1 * ChunkSize \in Nat
    BY CallTypes
  <2>4. CallSize = k1 * ChunkSize + 0
    BY <1>1, <1>3, <1>4, <2>2, <2>3
  <2>5. 0 \in 0 .. ChunkSize - 1 /\ ChunkSize \in Nat \ {0}
    BY CallTypes
  <2>6. CallSize % ChunkSize = 0
    BY <2>4, <2>5, DivUnique
  <2> QED BY <2>6
<1>5. CASE q_len # ChunkSize
  <2>1. q_len \in 0 .. ChunkSize - 1 /\ ChunkSize \in Nat \ {0}
    BY <1>3, <1>5, CallTypes
  <2>2. CallSize = k * ChunkSize + q_len
    BY <1>1, <1>3
  <2>3. CallSize % ChunkSize = q_len
    BY <2>1, <2>2, DivUnique
  <2> QED BY <2>3, CallTypes
<1> QED BY <1>4, <1>5

LEMMA LastChunkTypes ==
  ASSUME CallInv, PrefillInv, PrefillLayer
  PROVE  /\ prefill_block_num' \in Nat \cup {-1} /\ prefill_block_num <= prefill_block_num'
         /\ PrefillInv'
<1>1. /\ q_len > 1 /\ conf' = conf /\ len' = len /\ q_len' = q_len /\ callEnd' = callEnd
      /\ Preselect(layer)
  BY DEF PrefillLayer
<1>2. Chunked = len + q_len /\ Chunked' = len + q_len /\ len + q_len \in Nat
  BY <1>1, CallTypes DEF Chunked
<1>3. MaxOf(0, BlocksFor(len + q_len) - LocalBlocks) \in Nat
  BY <1>2, MoreBlocks
<1>4. CASE LastChunk /\ conf.preselect
  <2>1. /\ prefill_block_num' = MaxOf(0, BlocksFor(len + q_len) - LocalBlocks)
        /\ evict_tokens' = MaxOf(prefill_block_num' - PreCount, 0) * BlockLen
    BY <1>1, <1>4 DEF Preselect
  <2>2. callEnd' >= conf'.prompt \/ CallSize % ChunkSize # 1
    BY <1>1, <1>4, SizeOfLast, CallTypes
  <2>3. prefill_block_num <= prefill_block_num'
    BY <1>2, <2>1 DEF PrefillInv
  <2> QED BY <1>2, <1>3, <2>1, <2>2, <2>3 DEF PrefillInv
<1>5. CASE ~(LastChunk /\ conf.preselect)
  <2>1. prefill_block_num' = prefill_block_num /\ evict_tokens' = evict_tokens
    BY <1>1, <1>5 DEF Preselect, prefillVars
  <2>2. prefill_block_num \in Nat \cup {-1}
    BY DEF PrefillInv
  <2> QED BY <1>1, <1>2, <2>1, <2>2 DEF PrefillInv
<1> QED BY <1>4, <1>5

-----------------------------------------------------------------------------
(* The table *)

LEMMA InitTable == ASSUME Init PROVE TableInv
<1>1. block_table = Ascending /\ q_len = 0
  BY DEF Init
<1> QED BY <1>1 DEF TableInv, Ascending, SparseIssued

LEMMA EvictingIff ==
  ASSUME CallInv
  PROVE  /\ \A k \in Layers : Evicting(k) <=> k >= conf.dense /\ EvictsNow
         /\ \A k \in Layers : Sparse(k) <=> k >= conf.dense
BY DEF Evicting, Sparse, EvictsNow

LEMMA CallTable ==
  ASSUME CallInv, TableInv, PrefillCall \/ DecodeCall \/ EndChunk
  PROVE  TableInv'
<1>1. block_table' = block_table /\ prefill_block_num' = prefill_block_num /\ conf' = conf /\ layer' = 0
  BY CallTypes DEF PrefillCall, DecodeCall, Call, EndChunk, prefillVars, Idle
<1>2. ~SparseIssued'
  <2>1. conf.dense \in Nat
    BY CallTypes, ConfigOk
  <2> QED BY <1>1, <2>1 DEF SparseIssued
<1>3. \A k \in Layers : Evicting(k)' = Evicting(k)
  BY <1>1 DEF Evicting, Sparse
<1> QED BY <1>1, <1>2, <1>3 DEF TableInv, Ascending

LEMMA PrefillTable ==
  ASSUME CallInv, PrefillInv, TableInv, PrefillLayer
  PROVE  TableInv'
<1>1. block_table' = block_table /\ conf' = conf /\ q_len' = q_len /\ q_len > 1
  BY DEF PrefillLayer
<1>2. prefill_block_num' \in Int /\ prefill_block_num \in Int /\ prefill_block_num <= prefill_block_num'
  BY LastChunkTypes DEF PrefillInv
<1>3. ASSUME NEW k \in Layers, ~Evicting(k)' PROVE ~Evicting(k)
  BY <1>1, <1>2, <1>3, Constants DEF Evicting, Sparse
<1>4. ~SparseIssued'
  BY <1>1, CallTypes DEF SparseIssued
<1> QED BY <1>1, <1>3, <1>4 DEF TableInv, Ascending

LEMMA IssueTable ==
  ASSUME CallInv, PrefillInv, TableInv, IssueLayer
  PROVE  TableInv'
<1>1. /\ layer' = layer + 1 /\ q_len = 1 /\ q_len' = 1 /\ conf' = conf
      /\ prefill_block_num' = prefill_block_num /\ ~Raises(layer) /\ layer \in Layers
      /\ layer < LayerNum
  BY CallTypes DEF IssueLayer, prefillVars, Layers
<1>2. /\ conf.dense \in Nat /\ BlockNum \in Nat /\ PreCount \in Nat /\ LocalBlocks \in Nat
      /\ PreCount + LocalBlocks + 1 <= BlockNum /\ prefill_block_num \in Int
  BY Constants, ConfigOk, CallTypes DEF PrefillInv
<1>3. DOMAIN block_table' = 1 .. BlockNum
  BY DEF IssueLayer, TableInv, Ascending
<1>4. ASSUME \A k \in Layers : ~Evicting(k)' PROVE block_table' = Ascending
  <2>1. \A k \in Layers : ~Evicting(k)
    BY <1>1, <1>4 DEF Evicting, Sparse
  <2> QED BY <1>1, <2>1 DEF IssueLayer, TableInv
<1>5. SparseIssued' => Sparse(layer) /\ conf.preselect
  BY <1>1, <1>2 DEF SparseIssued, Sparse, Layers
<1>6. SparseIssued' => prefill_block_num' # -1
  BY <1>1, <1>5 DEF Raises
<1>7. ASSUME SparseIssued', EvictsNow', NEW i \in PreCount + 1 .. PreCount + LocalBlocks + 1
      PROVE block_table'[i] = prefill_block_num + i - 1 - PreCount
  <2>1. Evicting(layer)
    BY <1>1, <1>5, <1>7 DEF Evicting, EvictsNow
  <2>2. i \in 1 .. BlockNum /\ i - 1 \in LocalPart
    BY <1>2 DEF LocalPart
  <2>3. block_table' = [j \in 1 .. BlockNum |->
               IF j - 1 \in LocalPart
               THEN prefill_block_num + (j - 1) - PreCount
               ELSE block_table[j]]
    BY <2>1 DEF IssueLayer
  <2>4. block_table'[i] = prefill_block_num + (i - 1) - PreCount
    BY <2>2, <2>3
  <2> QED BY <1>2, <2>2, <2>4
<1> QED BY <1>1, <1>3, <1>4, <1>6, <1>7 DEF TableInv, Ascending

LEMMA RestTable ==
  ASSUME CallInv, PrefillInv, TableInv, IssueRaises \/ PlayLayer
  PROVE  TableInv'
<1>1. /\ conf' = conf /\ prefill_block_num' = prefill_block_num /\ layer' = layer /\ q_len' = q_len
  BY DEF IssueRaises, PlayLayer, prefillVars
<1>2. \A k \in Layers : Evicting(k)' = Evicting(k)
  BY <1>1 DEF Evicting, Sparse
<1>3. (SparseIssued' <=> SparseIssued) /\ (EvictsNow' <=> EvictsNow)
  BY <1>1 DEF SparseIssued, EvictsNow
<1>4. CASE IssueRaises
  <2>1. block_table' = block_table
    BY <1>4 DEF IssueRaises
  <2> QED BY <1>1, <1>2, <1>3, <2>1 DEF TableInv, Ascending
<1>5. CASE PlayLayer
  <2>1. block_table' = TableFor(played) /\ played \in Layers
    BY <1>5, CallTypes DEF PlayLayer, CallInv, Layers
  <2>2. DOMAIN block_table' = 1 .. BlockNum
    BY <2>1 DEF TableFor, TableInv
  <2>3. (\A k \in Layers : ~Evicting(k)) => block_table' = Ascending
    BY <2>1 DEF TableFor, TableInv
  <2>4. ASSUME NEW i \in PreCount + 1 .. PreCount + LocalBlocks + 1 PROVE block_table'[i] = block_table[i]
    BY <2>1, Constants DEF TableFor
  <2> QED BY <1>1, <1>2, <1>3, <2>2, <2>3, <2>4 DEF TableInv, Ascending
<1> QED BY <1>4, <1>5

-----------------------------------------------------------------------------
(* The store *)

LEMMA InitStore == ASSUME Init PROVE StoreInv
<1>1. store = [l \in Layers |-> [b \in Blocks |-> [s \in Slots |-> None]]] /\ len = 0 /\ played = 0
  BY DEF Init
<1>2. store \in [Layers -> [Blocks -> [Slots -> Cells]]]
  BY <1>1 DEF Cells
<1>3. \A l \in Layers : KnownTo(l) = 0
  BY <1>1 DEF KnownTo, Layers
<1>4. \A l \in Layers : InPlace(l)
  BY <1>3 DEF InPlace
<1> QED BY <1>2, <1>4 DEF StoreInv

(* The prompt is over once and for all. *)
LEMMA GrowingBefore ==
  ASSUME CallInv, Next, Growing'
  PROVE  Growing
<1>1. CASE PrefillCall
  BY <1>1 DEF PrefillCall, Idle, Growing
<1>2. CASE DecodeCall
  <2>1. /\ q_len = 0 /\ conf' = conf /\ len' = len /\ callEnd' = len + 1 /\ len >= conf.prompt
        /\ q_len' = MinOf(ChunkSize, 1)
    BY <1>2 DEF DecodeCall, Call, Idle
  <2>2. q_len' = 1
    BY <2>1, CallTypes DEF MinOf
  <2>3. callEnd' < conf.prompt
    BY <2>1, <2>2 DEF Growing
  <2> QED BY <2>1, <2>3, CallTypes
<1>3. CASE EndChunk
  <2>1. /\ conf' = conf /\ len' = len + q_len /\ callEnd' = callEnd /\ q_len > 0
        /\ q_len' = MinOf(ChunkSize, callEnd - len')
    BY <1>3 DEF EndChunk
  <2>2. PICK q, n : q = q_len' /\ n = len'
    OBVIOUS
  <2>3. /\ q > 1 \/ (q = 0 /\ n < conf.prompt) \/ (q = 1 /\ callEnd < conf.prompt)
    BY <2>1, <2>2 DEF Growing
  <2>4. n = len + q_len /\ n <= callEnd /\ q = IF ChunkSize <= callEnd - n THEN ChunkSize ELSE callEnd - n
    BY <2>1, <2>2, CallTypes DEF MinOf
  <2>5. q_len > 1 \/ (q_len = 1 /\ callEnd < conf.prompt)
    BY <2>1, <2>3, <2>4, CallTypes
  <2> QED BY <2>5 DEF Growing
<1>4. CASE PrefillLayer \/ IssueLayer \/ IssueRaises \/ PlayLayer
  BY <1>4 DEF PrefillLayer, IssueLayer, IssueRaises, PlayLayer, Growing
<1> QED BY <1>1, <1>2, <1>3, <1>4 DEF Next

Roomy(l) == Growing \/ (~Overtaken(l) /\ InRoom(l, len + 1))

LEMMA RoomyBefore ==
  ASSUME CallInv, PrefillInv, Next, NEW l \in Layers, Roomy(l)'
  PROVE  Roomy(l)
<1>1. CASE Growing'
  BY <1>1, GrowingBefore DEF Roomy
<1>2. CASE PrefillLayer
  BY <1>2 DEF PrefillLayer, Growing, Roomy
<1>3. CASE ~Growing' /\ ~PrefillLayer
  <2>1. /\ conf' = conf /\ prefill_block_num' = prefill_block_num
        /\ len' \in Nat /\ len <= len'
    <3>1. CASE PrefillCall \/ DecodeCall \/ EndChunk
      BY <3>1, CallTypes DEF PrefillCall, DecodeCall, Call, EndChunk, prefillVars
    <3>2. CASE IssueLayer \/ IssueRaises \/ PlayLayer
      BY <3>2, CallTypes DEF IssueLayer, IssueRaises, PlayLayer, prefillVars
    <3> QED BY <1>3, <3>1, <3>2 DEF Next
  <2>2. (\A k \in Layers : Evicting(k)' = Evicting(k)) /\ Sparse(l)' = Sparse(l) /\ Evicting(l)' = Evicting(l)
    BY <2>1 DEF Evicting, Sparse
  <2>3. ~Overtaken(l)' /\ InRoom(l, len + 1)'
    BY <1>3 DEF Roomy
  <2>4. ~Overtaken(l)
    BY <2>2, <2>3 DEF Overtaken
  <2>5. ASSUME Evicting(l) PROVE LocalBlocks > 0 /\ len + 1 <= (prefill_block_num + LocalBlocks + 1) * BlockLen
    <3>1. LocalBlocks > 0 /\ len' + 1 <= (prefill_block_num + LocalBlocks + 1) * BlockLen
      BY <2>1, <2>2, <2>3, <2>5 DEF InRoom
    <3>2. PICK m : m = (prefill_block_num + LocalBlocks + 1) * BlockLen
      OBVIOUS
    <3>3. m \in Int
      BY <3>2, Constants DEF PrefillInv
    <3>4. PICK n : n = len'
      OBVIOUS
    <3>5. n + 1 <= m /\ n \in Nat /\ len <= n
      BY <2>1, <3>1, <3>2, <3>4
    <3>6. len + 1 <= m
      BY <3>3, <3>5, CallTypes
    <3> QED BY <3>1, <3>2, <3>6
  <2> QED BY <2>4, <2>5 DEF Roomy, InRoom
<1> QED BY <1>1, <1>2, <1>3

(* Steps that write no token *)
LEMMA SameKnown ==
  ASSUME CallInv, PrefillCall \/ DecodeCall \/ EndChunk \/ IssueLayer \/ IssueRaises
  PROVE  \A l \in Layers : KnownTo(l)' = KnownTo(l)
<1> SUFFICES ASSUME NEW l \in Layers PROVE KnownTo(l)' = KnownTo(l)
  OBVIOUS
<1>1. CASE PrefillCall \/ DecodeCall
  <2>1. played' = 0 /\ played = 0 /\ len' = len
    BY <1>1, CallTypes DEF PrefillCall, DecodeCall, Call, Idle
  <2> QED BY <2>1 DEF KnownTo, Layers
<1>2. CASE EndChunk
  <2>1. played = LayerNum /\ len' = len + q_len /\ played' = 0
    BY <1>2 DEF EndChunk
  <2> QED BY <2>1, CallTypes DEF KnownTo, Layers
<1>3. CASE IssueLayer \/ IssueRaises
  BY <1>3 DEF IssueLayer, IssueRaises, KnownTo
<1> QED BY <1>1, <1>2, <1>3

LEMMA KeptStore ==
  ASSUME CallInv, PrefillInv, StoreInv, Next, PrefillCall \/ DecodeCall \/ EndChunk \/ IssueLayer \/ IssueRaises
  PROVE  StoreInv'
<1>1. store' = store
  BY DEF PrefillCall, DecodeCall, Call, EndChunk, IssueLayer, IssueRaises
<1>2. ASSUME NEW l \in Layers, Roomy(l)' PROVE InPlace(l)'
  <2>1. InPlace(l)
    BY <1>2, RoomyBefore DEF StoreInv, Roomy
  <2> QED BY <1>1, <2>1, SameKnown DEF InPlace
<1> QED BY <1>1, <1>2 DEF StoreInv, Roomy, Cells

(* Another block or another slot *)
LEMMA Elsewhere ==
  ASSUME NEW p \in Nat, NEW r \in Nat, p # r
  PROVE  p \div BlockLen # r \div BlockLen \/ p % BlockLen # r % BlockLen
<1>1. PICK a, b, c, d : a = p \div BlockLen /\ b = p % BlockLen /\ c = r \div BlockLen /\ d = r % BlockLen
  OBVIOUS
<1>2. p = a * BlockLen + b /\ r = c * BlockLen + d
  BY <1>1, Place
<1> QED BY <1>1, <1>2

LEMMA PrefillStore ==
  ASSUME CallInv, StoreInv, PrefillLayer
  PROVE  /\ StoreInv'
         /\ \A p \in 0 .. len + q_len - 1 :
              Swapped(layer)[p \div BlockLen][p % BlockLen] = Token(layer, p)
<1>1. /\ q_len > 1 /\ layer \in Layers /\ played = layer /\ layer' = layer + 1 /\ played' = played + 1
      /\ len' = len /\ q_len' = q_len
  BY CallTypes DEF PrefillLayer, Layers, CallInv
<1>2. \A l \in Layers : InPlace(l)
  BY <1>1 DEF StoreInv, Growing
<1>3. PICK data : data = Swapped(layer)
  OBVIOUS
<1>4. store' = [store EXCEPT ![layer] =
          [b \in Blocks |-> [s \in Slots |->
             IF New(b, s) THEN data[b][s] ELSE store[layer][b][s]]]]
  BY <1>3 DEF PrefillLayer, SwapInAndOut
<1>5. \A b \in Blocks : \A s \in Slots :
        /\ New(b, s) => data[b][s] = Token(layer, b * BlockLen + s)
        /\ ~New(b, s) /\ Cached(b, s) => data[b][s] = store[layer][b][s]
  BY <1>3 DEF Swapped
<1>6. ASSUME NEW p \in 0 .. len + q_len - 1
      PROVE  /\ p \in Nat /\ p \div BlockLen \in Blocks /\ p % BlockLen \in Slots
             /\ p = (p \div BlockLen) * BlockLen + (p % BlockLen)
             /\ New(p \div BlockLen, p % BlockLen) <=> p >= len
             /\ p < len => Cached(p \div BlockLen, p % BlockLen)
  <2>1. p \in Nat /\ p < MaxSeqLen /\ len \in Nat
    BY CallTypes
  <2>2. /\ p \div BlockLen \in Blocks /\ p % BlockLen \in Slots
        /\ p = (p \div BlockLen) * BlockLen + (p % BlockLen)
    BY <2>1, Place
  <2>3. PICK n : n = (p \div BlockLen) * BlockLen + (p % BlockLen)
    OBVIOUS
  <2>4. New(p \div BlockLen, p % BlockLen) <=> n \in len .. len + q_len - 1
    BY <2>3 DEF New
  <2>5. Cached(p \div BlockLen, p % BlockLen) <=> n < len
    BY <2>3 DEF Cached
  <2>6. n = p
    BY <2>2, <2>3
  <2>7. p \in len .. len + q_len - 1 <=> p >= len
    BY <2>1
  <2> QED BY <2>1, <2>2, <2>4, <2>5, <2>6, <2>7
<1>7. ASSUME NEW p \in 0 .. len + q_len - 1
      PROVE  data[p \div BlockLen][p % BlockLen] = Token(layer, p)
  <2>1. CASE p >= len
    BY <1>5, <1>6, <2>1, Zenon
  <2>2. CASE ~(p >= len)
    <3>1. p < len /\ p \in 0 .. len - 1
      BY <1>6, <2>2, CallTypes
    <3>2. data[p \div BlockLen][p % BlockLen] = store[layer][p \div BlockLen][p % BlockLen]
      BY <1>5, <1>6, <2>2, <3>1
    <3>3. KnownTo(layer) = len
      BY <1>1, CallTypes DEF KnownTo
    <3> QED BY <1>1, <1>2, <3>1, <3>2, <3>3 DEF InPlace
  <2> QED BY <2>1, <2>2
<1>8. store' \in [Layers -> [Blocks -> [Slots -> Cells]]]
  <2>1. \A b \in Blocks : \A s \in Slots : New(b, s) => Token(layer, b * BlockLen + s) \in Cells
    <3> SUFFICES ASSUME NEW b \in Blocks, NEW s \in Slots, New(b, s)
                 PROVE  b * BlockLen + s \in 0 .. MaxSeqLen - 1
      BY <1>1 DEF Cells
    <3>1. PICK n : n = b * BlockLen + s
      OBVIOUS
    <3>2. n \in len .. len + q_len - 1
      BY <3>1 DEF New
    <3>3. n \in 0 .. MaxSeqLen - 1
      BY <3>2, CallTypes
    <3> QED BY <3>1, <3>3
  <2>2. store \in [Layers -> [Blocks -> [Slots -> Cells]]]
    BY DEF StoreInv
  <2>3. [b \in Blocks |-> [s \in Slots |-> IF New(b, s) THEN data[b][s] ELSE store[layer][b][s]]]
          \in [Blocks -> [Slots -> Cells]]
    BY <1>1, <1>5, <2>1, <2>2
  <2> QED BY <1>1, <1>4, <2>2, <2>3
<1>9. ASSUME NEW l \in Layers PROVE InPlace(l)'
  <2>5. PICK k : k = KnownTo(l)'
    OBVIOUS
  <2> SUFFICES ASSUME NEW p \in 0 .. k - 1
               PROVE  store'[l][p \div BlockLen][p % BlockLen] = Token(l, p)
    BY <2>5 DEF InPlace
  <2>1. KnownTo(l)' = IF l <= layer THEN len + q_len ELSE len
    BY <1>1, CallTypes DEF KnownTo, Layers
  <2>2. l \in Nat /\ layer \in Nat
    BY <1>1 DEF Layers
  <2>3. CASE l = layer
    <3>7. k = len + q_len
      BY <2>1, <2>2, <2>3, <2>5
    <3>1. p \in 0 .. len + q_len - 1
      BY <3>7, CallTypes
    <3>2. data[p \div BlockLen][p % BlockLen] = Token(layer, p)
      BY <1>7, <3>1
    <3>3. /\ p \div BlockLen \in Blocks /\ p % BlockLen \in Slots /\ p \in Nat
          /\ New(p \div BlockLen, p % BlockLen) <=> p >= len
      BY <1>6, <3>1
    <3>4. store' [layer][p \div BlockLen][p % BlockLen] =
            IF New(p \div BlockLen, p % BlockLen) THEN data[p \div BlockLen][p % BlockLen]
            ELSE store[layer][p \div BlockLen][p % BlockLen]
      BY <1>1, <1>4, <3>3 DEF StoreInv
    <3>5. ASSUME p < len PROVE store[layer][p \div BlockLen][p % BlockLen] = Token(layer, p)
      <4>1. KnownTo(layer) = len /\ p \in 0 .. len - 1
        BY <1>1, <3>3, <3>5, CallTypes DEF KnownTo
      <4> QED BY <1>1, <1>2, <4>1 DEF InPlace
    <3>6. p >= len \/ p < len
      BY <3>3, CallTypes
    <3> QED BY <2>3, <3>2, <3>3, <3>4, <3>5, <3>6
  <2>4. CASE l # layer
    <3>1. KnownTo(l) = k
      BY <1>1, <2>1, <2>2, <2>4, <2>5 DEF KnownTo
    <3>2. store'[l] = store[l]
      BY <1>1, <1>4, <2>4 DEF StoreInv
    <3> QED BY <1>2, <3>1, <3>2 DEF InPlace
  <2> QED BY <2>3, <2>4
<1>10. \A p \in 0 .. len + q_len - 1 :
              Swapped(layer)[p \div BlockLen][p % BlockLen] = Token(layer, p)
  BY <1>3, <1>7
<1>11. StoreInv'
  <2>1. \A l \in Layers : Roomy(l)' => InPlace(l)'
    BY <1>9
  <2> QED BY <1>8, <2>1 DEF StoreInv, Roomy
<1> QED BY <1>10, <1>11

(* Where the update of a generated token writes: at the position of the    *)
(* token, mapped by the identity or by the entries of the local window.    *)
LEMMA Unevicted ==
  ASSUME CallInv, PrefillInv, TableInv, NEW l \in Layers, q_len = 1, \A k \in Layers : ~Evicting(k)
  PROVE  TableFor(l) = Ascending /\ PastFor(l) = len
<1>1. TableFor(l) = Ascending
  BY DEF TableFor, TableInv
<1>2. ASSUME Sparse(l), conf.preselect PROVE len - evict_tokens = len
  <2>1. ~(PreCount < prefill_block_num)
    BY <1>2 DEF Evicting
  <2>2. prefill_block_num \in Int /\ evict_tokens = MaxOf(prefill_block_num - PreCount, 0) * BlockLen
    BY DEF PrefillInv
  <2>3. MaxOf(prefill_block_num - PreCount, 0) = 0
    BY <2>1, <2>2, Constants DEF MaxOf
  <2>4. evict_tokens = 0
    BY <2>2, <2>3, Constants
  <2> QED BY <2>4, CallTypes
<1> QED BY <1>1, <1>2 DEF PastFor

LEMMA GrowingUnevicted ==
  ASSUME CallInv, PrefillInv, q_len = 1, Growing
  PROVE  \A k \in Layers : ~Evicting(k)
<1>1. callEnd < conf.prompt /\ callEnd = len + 1
  BY CallTypes DEF Growing
<1>2. PICK k \in Nat : CallSize = k * ChunkSize + (callEnd - len)
  BY <1>1, CallTypes DEF CallInv
<1>3. callEnd - len = 1 /\ 1 \in 0 .. ChunkSize - 1 /\ ChunkSize \in Nat \ {0}
  BY <1>1, CallTypes
<1>4. CallSize = k * ChunkSize + 1
  BY <1>2, <1>3
<1>5. CallSize % ChunkSize = 1
  BY <1>3, <1>4, DivUnique
<1>6. prefill_block_num = -1
  BY <1>1, <1>5, CallTypes DEF PrefillInv
<1> QED BY <1>6, Constants DEF Evicting

(* The blocks an evicting layer writes in its room *)
LEMMA RoomBlocks ==
  ASSUME CallInv, PrefillInv, q_len = 1, LocalBlocks > 0, PreCount < prefill_block_num,
         len + 1 <= (prefill_block_num + LocalBlocks + 1) * BlockLen
  PROVE  /\ prefill_block_num <= len \div BlockLen
         /\ len \div BlockLen <= prefill_block_num + LocalBlocks
         /\ len - evict_tokens \in Nat
         /\ (len - evict_tokens) \div BlockLen = len \div BlockLen - prefill_block_num + PreCount
         /\ (len - evict_tokens) % BlockLen = len % BlockLen
<1>1. PICK q, r, m : q = len \div BlockLen /\ r = len % BlockLen /\ m = prefill_block_num
  OBVIOUS
<1>2. /\ BlockLen \in Nat \ {0} /\ PreCount \in Nat \ {0} /\ LocalBlocks \in Nat /\ len \in Nat
      /\ m \in Nat /\ PreCount < m
  BY <1>1, Constants, CallTypes DEF PrefillInv
<1>3. q \in Nat /\ r \in 0 .. BlockLen - 1 /\ len = q * BlockLen + r
  BY <1>1, <1>2, DivMod
<1>4. m <= q
  <2>1. Chunked = len
    BY <1>2 DEF Chunked
  <2>2. m <= MaxOf(0, BlocksFor(len) - LocalBlocks)
    BY <1>1, <2>1 DEF PrefillInv
  <2>3. BlocksFor(len) \in Nat /\ BlocksFor(len) <= q + 1
    BY <1>1, <1>2, BlocksForOk
  <2>4. m <= BlocksFor(len) - LocalBlocks
    BY <1>2, <2>2, <2>3 DEF MaxOf
  <2> QED BY <1>2, <1>3, <2>3, <2>4
<1>5. q <= m + LocalBlocks
  <2>1. PICK n : n = m + LocalBlocks + 1
    OBVIOUS
  <2>2. n \in Nat /\ 0 \in 0 .. BlockLen - 1 /\ n * BlockLen \in Nat
    BY <1>2, <2>1
  <2>3. q * BlockLen + r < n * BlockLen + 0
    BY <1>1, <1>2, <1>3, <2>1, <2>2
  <2>4. q < n
    BY <1>2, <1>3, <2>2, <2>3, DivOrder
  <2> QED BY <1>2, <1>3, <2>1, <2>4
<1>6. evict_tokens = (m - PreCount) * BlockLen
  <2>1. evict_tokens = MaxOf(m - PreCount, 0) * BlockLen
    BY <1>1 DEF PrefillInv
  <2> QED BY <1>2, <2>1 DEF MaxOf
<1>7. PICK d : d = q - m + PreCount
  OBVIOUS
<1>8. d \in Nat /\ d * BlockLen \in Nat
  BY <1>2, <1>3, <1>4, <1>7
<1>9. PICK n : n = len - evict_tokens
  OBVIOUS
<1>10. n = d * BlockLen + r
  BY <1>2, <1>3, <1>6, <1>7, <1>9
<1>11. (d * BlockLen + r) \div BlockLen = d /\ (d * BlockLen + r) % BlockLen = r
  BY <1>2, <1>3, <1>8, DivUnique
<1>12. n \div BlockLen = d /\ n % BlockLen = r
  BY <1>10, <1>11, Zenon
<1>13. d * BlockLen + r \in Nat
  BY <1>2, <1>3, <1>8
<1>14. n \in Nat
  BY <1>10, <1>13, Zenon
<1> QED BY <1>1, <1>4, <1>5, <1>7, <1>9, <1>12, <1>14

-----------------------------------------------------------------------------
(* The preselected rows *)

PrefillBlocks == MaxOf(0, BlocksFor(len + q_len) - LocalBlocks)

(* The row of a layer: different blocks before the local window. *)
GoodRow(l) ==
  /\ \A i \in 1 .. PreCount : preselect_block_table[l][i] \in 0 .. prefill_block_num - 1
  /\ \A i, j \in 1 .. PreCount :
       preselect_block_table[l][i] = preselect_block_table[l][j] => i = j

(* During a last chunk only the layers it has left have their new rows. *)
RowsInv ==
  /\ DOMAIN preselect_block_table = Layers
  /\ q_len > 1 /\ LastChunk /\ conf.preselect /\ layer > 0 => prefill_block_num = PrefillBlocks
  /\ EvictsNow => \A l \in Layers : q_len <= 1 \/ ~LastChunk \/ l < layer => GoodRow(l)

LEMMA InitRows == ASSUME Init PROVE RowsInv
<1>1. DOMAIN preselect_block_table = Layers /\ q_len = 0 /\ prefill_block_num = -1
  BY DEF Init
<1>2. ~EvictsNow
  BY <1>1, Constants DEF EvictsNow
<1> QED BY <1>1, <1>2 DEF RowsInv

LEMMA KeptRows ==
  ASSUME CallInv, RowsInv,
         PrefillCall \/ DecodeCall \/ EndChunk \/ IssueLayer \/ IssueRaises \/ PlayLayer
  PROVE  RowsInv'
<1>1. /\ preselect_block_table' = preselect_block_table /\ prefill_block_num' = prefill_block_num
      /\ conf' = conf
  BY DEF PrefillCall, DecodeCall, Call, EndChunk, IssueLayer, IssueRaises, PlayLayer, prefillVars
<1>2. EvictsNow => \A l \in Layers : GoodRow(l)
  <2>1. q_len <= 1 \/ layer = LayerNum
    BY DEF PrefillCall, DecodeCall, Idle, EndChunk, IssueLayer, IssueRaises, PlayLayer
  <2> QED BY <2>1, CallTypes DEF RowsInv, Layers
<1>3. ~(q_len' > 1) \/ layer' = 0
  <2>1. CASE PrefillCall \/ DecodeCall \/ EndChunk
    BY <2>1, CallTypes DEF PrefillCall, DecodeCall, Call, Idle, EndChunk
  <2>2. CASE IssueLayer \/ IssueRaises \/ PlayLayer
    BY <2>2 DEF IssueLayer, IssueRaises, PlayLayer
  <2> QED BY <2>1, <2>2
<1>4. EvictsNow' => EvictsNow
  BY <1>1 DEF EvictsNow
<1>5. \A l \in Layers : GoodRow(l) => GoodRow(l)'
  BY <1>1 DEF GoodRow
<1>6. DOMAIN preselect_block_table' = Layers
  BY <1>1 DEF RowsInv
<1> QED BY <1>2, <1>3, <1>4, <1>5, <1>6 DEF RowsInv

LEMMA PrefillRows ==
  ASSUME CallInv, PrefillInv, RowsInv, PrefillLayer
  PROVE  RowsInv'
<1>1. /\ q_len > 1 /\ layer \in Layers /\ layer' = layer + 1 /\ len' = len /\ q_len' = q_len
      /\ conf' = conf /\ remaining_length' = remaining_length /\ Preselect(layer)
  BY CallTypes DEF PrefillLayer, Layers
<1>2. LastChunk' = LastChunk
  BY <1>1 DEF LastChunk
<1>3. CASE ~(LastChunk /\ conf.preselect)
  <2>1. preselect_block_table' = preselect_block_table /\ prefill_block_num' = prefill_block_num
    BY <1>1, <1>3 DEF Preselect, prefillVars
  <2>2. EvictsNow' <=> EvictsNow
    BY <1>1, <2>1 DEF EvictsNow
  <2>3. EvictsNow => ~LastChunk
    BY <1>3 DEF EvictsNow
  <2>4. \A l \in Layers : GoodRow(l) => GoodRow(l)'
    BY <2>1 DEF GoodRow
  <2>5. EvictsNow' => \A l \in Layers : GoodRow(l)'
    BY <2>2, <2>3, <2>4 DEF RowsInv
  <2>6. DOMAIN preselect_block_table' = Layers
    BY <2>1 DEF RowsInv
  <2> QED BY <1>1, <1>2, <1>3, <2>5, <2>6 DEF RowsInv
<1>4. CASE LastChunk /\ conf.preselect
  <2>1. PICK m : m = prefill_block_num'
    OBVIOUS
  <2>2. m = PrefillBlocks /\ m \in Nat /\ PrefillBlocks' = PrefillBlocks
    <3>1. m = PrefillBlocks
      BY <1>1, <1>4, <2>1 DEF Preselect, PrefillBlocks
    <3>2. len + q_len \in Nat
      BY CallTypes
    <3>3. PrefillBlocks \in Nat
      BY <3>2, MoreBlocks DEF PrefillBlocks
    <3> QED BY <1>1, <3>1, <3>3 DEF PrefillBlocks
  <2>3. PICK row :
          /\ row \in Injection(Candidates, 0 .. m - 1)
          /\ preselect_block_table' = [preselect_block_table EXCEPT ![layer] =
               [i \in 1 .. PreCount |-> IF i \in Candidates THEN row[i] ELSE @[i]]]
    BY <1>1, <1>4, <2>1 DEF Preselect
  <2>4. DOMAIN preselect_block_table' = Layers
    BY <2>3 DEF RowsInv
  <2>5. ASSUME EvictsNow', NEW l \in Layers, l < layer' PROVE GoodRow(l)'
    <3>1. PreCount < m
      BY <2>1, <2>5 DEF EvictsNow
    <3>2. l = layer \/ l < layer
      BY <1>1, <2>5 DEF Layers
    <3>3. CASE l = layer
      <4>1. Candidates = 1 .. PreCount
        BY <2>1, <2>2, <3>1, Constants DEF Candidates, MinOf
      <4>2. preselect_block_table'[l] = [i \in 1 .. PreCount |-> row[i]]
        BY <1>1, <2>3, <3>3, <4>1 DEF RowsInv
      <4>3. /\ \A i \in 1 .. PreCount : row[i] \in 0 .. m - 1
            /\ \A i, j \in 1 .. PreCount : row[i] = row[j] => i = j
        BY <2>3, <4>1 DEF Injection, IsInjective
      <4> QED BY <2>1, <4>2, <4>3 DEF GoodRow
    <3>4. CASE l < layer
      <4>1. preselect_block_table'[l] = preselect_block_table[l]
        BY <1>1, <2>3, <3>4 DEF RowsInv, Layers
      <4>2. layer > 0
        BY <1>1, <3>4 DEF Layers
      <4>3. prefill_block_num = m
        BY <1>1, <1>4, <2>2, <4>2 DEF RowsInv
      <4>4. EvictsNow
        BY <1>4, <3>1, <4>3 DEF EvictsNow
      <4>5. GoodRow(l)
        BY <3>4, <4>4 DEF RowsInv
      <4> QED BY <2>1, <4>1, <4>3, <4>5 DEF GoodRow
    <3> QED BY <3>2, <3>3, <3>4
  <2>6. q_len' > 1 /\ LastChunk'
    BY <1>1, <1>2, <1>4
  <2> QED BY <2>1, <2>2, <2>4, <2>5, <2>6, CallTypes, <1>1 DEF RowsInv
<1> QED BY <1>3, <1>4

-----------------------------------------------------------------------------
(* The table of a generated token *)

Begun(b, n) == b \in Blocks /\ b * BlockLen < n
Full(b, n) == b \in Blocks /\ (b + 1) * BlockLen <= n

(* Up to entry e, where the new token goes, different blocks of tokens. *)
GoodTable(table, e) ==
  /\ e \in Nat /\ e < BlockNum
  /\ At(table, e) = len \div BlockLen /\ len \div BlockLen \in Blocks
  /\ \A i \in 0 .. e - 1 : Full(At(table, i), len)
  /\ \A i, j \in 0 .. e : At(table, i) = At(table, j) => i = j

LEMMA FullBefore ==
  ASSUME NEW b \in Blocks, NEW n \in Nat, b < n \div BlockLen
  PROVE  Full(b, n)
<1>1. PICK q, r : q = n \div BlockLen /\ r = n % BlockLen
  OBVIOUS
<1>2. /\ BlockLen \in Nat \ {0} /\ q \in Nat /\ r \in Nat /\ n = q * BlockLen + r /\ b \in Nat /\ b + 1 <= q
  BY <1>1, Constants, Place DEF Blocks, Slots
<1>3. PICK d \in Nat : q = b + 1 + d
  <2>1. q - b - 1 \in Nat /\ q = b + 1 + (q - b - 1)
    BY <1>2
  <2> QED BY <2>1
<1>4. q * BlockLen = (b + 1) * BlockLen + d * BlockLen /\ d * BlockLen \in Nat /\ (b + 1) * BlockLen \in Nat
  BY <1>2, <1>3
<1>5. (b + 1) * BlockLen <= n
  BY <1>2, <1>4
<1> QED BY <1>5 DEF Full

LEMMA TableGood ==
  ASSUME CallInv, PrefillInv, TableInv, RowsInv, q_len = 1, played < layer, Roomy(played)
  PROVE  /\ PastFor(played) \in Nat
         /\ PastFor(played) % BlockLen = len % BlockLen
         /\ GoodTable(TableFor(played), PastFor(played) \div BlockLen)
<1>1. played \in Layers /\ len < MaxSeqLen /\ len \in Nat /\ layer <= LayerNum
  BY CallTypes DEF CallInv, Layers
<1>2. PICK q : q = len \div BlockLen
  OBVIOUS
<1>3. q \in Blocks /\ q \in Nat /\ q < BlockNum
  <2>1. q \in Blocks
    BY <1>1, <1>2, Place
  <2> QED BY <2>1, Constants DEF Blocks
<1>4. CASE \A k \in Layers : ~Evicting(k)
  <2>1. TableFor(played) = Ascending /\ PastFor(played) = len
    BY <1>1, <1>4, Unevicted
  <2>2. ASSUME NEW b \in Blocks PROVE At(Ascending, b) = b
    BY Constants DEF At, Ascending, Blocks
  <2>3. \A i \in 0 .. q : i \in Blocks
    BY <1>3, Constants DEF Blocks
  <2>4. ASSUME NEW i \in 0 .. q - 1 PROVE Full(i, len)
    <3>1. i \in Blocks /\ i < len \div BlockLen
      BY <1>2, <1>3, <2>3
    <3> QED BY <1>1, <3>1, FullBefore
  <2>5. \A i \in 0 .. q - 1 : i \in 0 .. q
    BY <1>3
  <2>6. GoodTable(Ascending, q)
    BY <1>2, <1>3, <2>2, <2>3, <2>4, <2>5 DEF GoodTable
  <2> QED BY <1>1, <1>2, <2>1, <2>6
<1>5. CASE ~(\A k \in Layers : ~Evicting(k))
  <2>1. ~Overtaken(played) /\ InRoom(played, len + 1) /\ Evicting(played)
    <3>1. ~Growing
      BY <1>5, GrowingUnevicted
    <3>2. ~Overtaken(played) /\ InRoom(played, len + 1)
      BY <3>1 DEF Roomy
    <3>3. Sparse(played)
      BY <1>5, <3>2 DEF Overtaken
    <3> QED BY <1>5, <3>2, <3>3 DEF Evicting
  <2>2. /\ LocalBlocks > 0 /\ len + 1 <= (prefill_block_num + LocalBlocks + 1) * BlockLen
        /\ Sparse(played) /\ conf.preselect /\ PreCount < prefill_block_num
    BY <2>1 DEF InRoom, Evicting
  <2>3. SparseIssued /\ EvictsNow
    <3>1. conf.dense \in Nat /\ played >= conf.dense
      BY <2>2, CallTypes, ConfigOk DEF Sparse
    <3> QED BY <1>1, <2>2, <3>1, CallTypes DEF SparseIssued, EvictsNow, Layers
  <2>4. PICK m, d, table : m = prefill_block_num /\ d = q - m + PreCount /\ table = TableFor(played)
    OBVIOUS
  <2>5. /\ m \in Nat /\ m <= q /\ q <= m + LocalBlocks /\ d \in Nat
        /\ PastFor(played) \in Nat
        /\ PastFor(played) \div BlockLen = d /\ PastFor(played) % BlockLen = len % BlockLen
    <3>1. PastFor(played) = len - evict_tokens
      BY <2>2 DEF PastFor
    <3>2. m \in Nat
      BY <2>2, <2>4, Constants DEF PrefillInv
    <3>3. m <= q /\ q <= m + LocalBlocks /\ len - evict_tokens \in Nat
          /\ (len - evict_tokens) \div BlockLen = d /\ (len - evict_tokens) % BlockLen = len % BlockLen
      BY <1>2, <2>2, <2>4, RoomBlocks
    <3>4. d \in Nat
      BY <1>3, <2>4, <3>2, <3>3, Constants
    <3> QED BY <3>1, <3>2, <3>3, <3>4
  <2>6. /\ d <= PreCount + LocalBlocks /\ PreCount <= d /\ d < BlockNum /\ m - PreCount \in Nat
    BY <1>3, <2>2, <2>4, <2>5, Constants
  <2>7. ASSUME NEW i \in 0 .. d
        PROVE  At(table, i) = IF i < PreCount THEN preselect_block_table[played][i + 1] ELSE i + (m - PreCount)
    <3>1. i + 1 \in 1 .. BlockNum /\ (i + 1 <= PreCount <=> i < PreCount)
      BY <2>5, <2>6, Constants
    <3>2. table = [j \in 1 .. BlockNum |->
                     IF j <= PreCount THEN preselect_block_table[played][j] ELSE block_table[j]]
      BY <2>1, <2>4 DEF TableFor
    <3>3. ASSUME ~(i < PreCount) PROVE block_table[i + 1] = i + (m - PreCount)
      <4>1. i + 1 \in PreCount + 1 .. PreCount + LocalBlocks + 1
        BY <2>5, <2>6, <3>3, Constants
      <4>2. block_table[i + 1] = m + (i + 1) - 1 - PreCount
        BY <2>3, <2>4, <4>1 DEF TableInv
      <4> QED BY <2>5, <4>1, <4>2, Constants
    <3> QED BY <3>1, <3>2, <3>3 DEF At
  <2>8. GoodRow(played)
    BY <1>1, <2>3 DEF RowsInv
  <2>9. ASSUME NEW i \in 0 .. d, i < PreCount
        PROVE  At(table, i) \in Blocks /\ At(table, i) < m
    <3>1. i + 1 \in 1 .. PreCount
      BY <2>9, Constants
    <3>2. preselect_block_table[played][i + 1] \in 0 .. m - 1
      BY <2>4, <2>8, <3>1 DEF GoodRow
    <3> QED BY <1>3, <2>5, <2>7, <2>9, <3>2, Constants DEF Blocks
  <2>10. ASSUME NEW i \in 0 .. d, ~(i < PreCount)
         PROVE  /\ At(table, i) = i + (m - PreCount) /\ At(table, i) \in Blocks /\ At(table, i) >= m
                /\ i < d => At(table, i) < q
    <3>1. At(table, i) = i + (m - PreCount)
      BY <2>7, <2>10
    <3>2. i + (m - PreCount) <= q /\ i + (m - PreCount) >= m /\ (i < d => i + (m - PreCount) < q)
      BY <1>3, <2>4, <2>5, <2>10, Constants
    <3> QED BY <1>3, <2>5, <3>1, <3>2, Constants DEF Blocks
  <2>11. ASSUME NEW i \in 0 .. d - 1 PROVE Full(At(table, i), len)
    <3>1. i \in 0 .. d /\ i < d
      BY <2>5
    <3>2. At(table, i) \in Blocks /\ At(table, i) < q
      <4>1. CASE i < PreCount
        <5>1. At(table, i) \in Blocks /\ At(table, i) < m
          BY <2>9, <3>1, <4>1
        <5> QED BY <1>3, <2>5, <5>1, Constants DEF Blocks
      <4>2. CASE ~(i < PreCount)
        BY <2>10, <3>1, <4>2
      <4> QED BY <4>1, <4>2
    <3> QED BY <1>1, <1>2, <3>2, FullBefore
  <2>12. At(table, d) = q
    <3>1. d \in 0 .. d /\ ~(d < PreCount)
      BY <2>5, <2>6, Constants
    <3>2. At(table, d) = d + (m - PreCount)
      BY <2>10, <3>1
    <3> QED BY <1>3, <2>4, <2>5, <3>2, Constants
  <2>13. ASSUME NEW i \in 0 .. d, NEW j \in 0 .. d, At(table, i) = At(table, j) PROVE i = j
    <3>1. CASE i < PreCount /\ j < PreCount
      <4>1. i + 1 \in 1 .. PreCount /\ j + 1 \in 1 .. PreCount
        BY <3>1, Constants
      <4>2. preselect_block_table[played][i + 1] = preselect_block_table[played][j + 1]
        BY <2>7, <2>13, <3>1
      <4>3. i + 1 = j + 1
        BY <2>8, <4>1, <4>2 DEF GoodRow
      <4> QED BY <4>3
    <3>2. CASE ~(i < PreCount) /\ ~(j < PreCount)
      <4>1. i + (m - PreCount) = j + (m - PreCount)
        BY <2>10, <2>13, <3>2
      <4> QED BY <2>6, <4>1
    <3>3. ASSUME NEW a \in 0 .. d, NEW b \in 0 .. d, a < PreCount, ~(b < PreCount) PROVE At(table, a) # At(table, b)
      <4>1. At(table, a) < m /\ At(table, a) \in Blocks /\ At(table, b) >= m /\ At(table, b) \in Blocks
        BY <2>9, <2>10, <3>3
      <4> QED BY <2>5, <4>1, Constants DEF Blocks
    <3> QED BY <2>13, <3>1, <3>2, <3>3
  <2>14. GoodTable(table, d)
    BY <1>2, <1>3, <2>5, <2>6, <2>11, <2>12, <2>13 DEF GoodTable
  <2> QED BY <2>4, <2>5, <2>14
<1> QED BY <1>4, <1>5

LEMMA PlayStore ==
  ASSUME CallInv, PrefillInv, TableInv, RowsInv, StoreInv, PlayLayer
  PROVE  StoreInv' /\ \A l \in Layers : l = played /\ Roomy(l) => InPlace(l)'
<1>1. /\ q_len = 1 /\ played < layer /\ played' = played + 1 /\ len' = len /\ q_len' = q_len
      /\ store' = Updated(played, TableFor(played), PastFor(played))
  BY DEF PlayLayer
<1>2. played \in Layers /\ len \in Nat /\ len < MaxSeqLen
  BY <1>1, CallTypes DEF CallInv, Layers
<1>3. PICK b, s : b = At(TableFor(played), PastFor(played) \div BlockLen) /\ s = PastFor(played) % BlockLen
  OBVIOUS
<1>4. store' = [store EXCEPT ![played][b][s] = Token(played, len)]
  BY <1>1, <1>3 DEF Updated
<1>5. store \in [Layers -> [Blocks -> [Slots -> Cells]]]
  BY DEF StoreInv
<1>6. Token(played, len) \in Cells
  BY <1>2, Constants DEF Cells
<1>7. store' \in [Layers -> [Blocks -> [Slots -> Cells]]]
  <2>1. PICK row : row = [store[played] EXCEPT ![b][s] = Token(played, len)]
    OBVIOUS
  <2>2. row \in [Blocks -> [Slots -> Cells]]
    <3>1. PICK f : f = store[played]
      OBVIOUS
    <3>2. f \in [Blocks -> [Slots -> Cells]]
      BY <1>2, <1>5, <3>1
    <3>3. row = [f EXCEPT ![b][s] = Token(played, len)]
      BY <2>1, <3>1
    <3>4. PICK c : c = Token(played, len)
      OBVIOUS
    <3>5. [f[b] EXCEPT ![s] = c] \in [Slots -> Cells] \/ b \notin Blocks
      BY <1>6, <3>2, <3>4
    <3> QED BY <3>2, <3>3, <3>4, <3>5
  <2>3. store' = [store EXCEPT ![played] = row]
    BY <1>4, <2>1
  <2> QED BY <1>2, <1>5, <2>2, <2>3
<1>8. ASSUME NEW l \in Layers, l # played, InPlace(l) PROVE InPlace(l)'
  <2>1. store'[l] = store[l]
    BY <1>4, <1>5, <1>8
  <2>2. KnownTo(l)' = KnownTo(l)
    BY <1>1, <1>2, <1>8 DEF KnownTo, Layers
  <2> QED BY <1>8, <2>1, <2>2 DEF InPlace
<1>9. ASSUME NEW l \in Layers, l = played, Roomy(l) PROVE InPlace(l)'
  <2>1. b = len \div BlockLen /\ s = len % BlockLen /\ b \in Blocks /\ s \in Slots
    BY <1>1, <1>2, <1>3, <1>9, TableGood, Place DEF GoodTable
  <2>2. KnownTo(l) = len
    BY <1>2, <1>9 DEF KnownTo, Layers
  <2>3. PICK k : k = KnownTo(l)'
    OBVIOUS
  <2>4. k = len + 1
    BY <1>1, <1>2, <1>9, <2>3 DEF KnownTo, Layers
  <2> SUFFICES ASSUME NEW p \in 0 .. k - 1
               PROVE  store'[l][p \div BlockLen][p % BlockLen] = Token(l, p)
    BY <2>3 DEF InPlace
  <2>5. p \in 0 .. len /\ p \in Nat /\ p < MaxSeqLen
    <3>1. p \in 0 .. len + 1 - 1
      BY <1>2, <2>4
    <3> QED BY <1>2, <3>1, Constants
  <2>6. p \div BlockLen \in Blocks /\ p % BlockLen \in Slots
    BY <2>5, Place
  <2>7. CASE p = len
    BY <1>2, <1>4, <1>5, <1>9, <2>1, <2>7
  <2>8. CASE p # len
    <3>1. store[l][p \div BlockLen][p % BlockLen] = Token(l, p)
      <4>1. p \in 0 .. len - 1
        BY <1>2, <2>5, <2>8
      <4>2. InPlace(l)
        BY <1>2, <1>9 DEF StoreInv, Roomy
      <4> QED BY <2>2, <4>1, <4>2 DEF InPlace
    <3>2. p \div BlockLen # b \/ p % BlockLen # s
      BY <1>2, <2>1, <2>5, <2>8, Elsewhere
    <3>3. store'[l][p \div BlockLen][p % BlockLen] = store[l][p \div BlockLen][p % BlockLen]
      BY <1>9, <1>2, <1>4, <1>5, <2>6, <3>2
    <3> QED BY <3>1, <3>3
  <2> QED BY <2>7, <2>8
<1>10. ASSUME NEW l \in Layers, Roomy(l)' PROVE InPlace(l)'
  <2>1. Roomy(l)
    BY <1>10, RoomyBefore DEF Next
  <2>2. InPlace(l)
    BY <2>1 DEF StoreInv, Roomy
  <2> QED BY <1>8, <1>9, <2>1, <2>2
<1>11. StoreInv'
  BY <1>7, <1>10 DEF StoreInv, Roomy
<1> QED BY <1>9, <1>11

-----------------------------------------------------------------------------
(* The invariant *)

CacheInv == CallInv /\ PrefillInv /\ TableInv /\ RowsInv /\ StoreInv

LEMMA InitCache == Init => CacheInv
BY InitCall, InitPrefill, InitTable, InitRows, InitStore DEF CacheInv

LEMMA StepCache == CacheInv /\ [Next]_vars => CacheInv'
<1> SUFFICES ASSUME CallInv, PrefillInv, TableInv, RowsInv, StoreInv, [Next]_vars PROVE CacheInv'
  BY DEF CacheInv
<1>1. CASE PrefillCall \/ DecodeCall
  BY <1>1, CallCall, KeptPrefill, CallTable, KeptRows, KeptStore DEF CacheInv, Next
<1>2. CASE EndChunk
  BY <1>2, EndChunkCall, KeptPrefill, CallTable, KeptRows, KeptStore DEF CacheInv, Next
<1>3. CASE PrefillLayer
  BY <1>3, LayersCall, LastChunkTypes, PrefillTable, PrefillRows, PrefillStore DEF CacheInv
<1>4. CASE IssueLayer
  BY <1>4, LayersCall, KeptPrefill, IssueTable, KeptRows, KeptStore DEF CacheInv, Next
<1>5. CASE IssueRaises
  BY <1>5, LayersCall, KeptPrefill, RestTable, KeptRows, KeptStore DEF CacheInv, Next
<1>6. CASE PlayLayer
  BY <1>6, LayersCall, KeptPrefill, RestTable, KeptRows, PlayStore DEF CacheInv
<1>7. CASE UNCHANGED vars
  <2>1. CallInv' /\ PrefillInv' /\ TableInv'
    BY <1>7 DEF vars, prefillVars, CallInv, PrefillInv, TableInv, Chunked, SparseIssued, EvictsNow, Evicting, Sparse, Ascending
  <2>2. StoreInv'
    BY <1>7 DEF vars, prefillVars, StoreInv, Growing, Overtaken, InRoom, InPlace, KnownTo, Evicting, Sparse
  <2>3. RowsInv'
    BY <1>7 DEF vars, prefillVars, RowsInv, LastChunk, PrefillBlocks, GoodRow, EvictsNow
  <2> QED BY <2>1, <2>2, <2>3 DEF CacheInv
<1> QED BY <1>1, <1>2, <1>3, <1>4, <1>5, <1>6, <1>7 DEF Next

(* No token of the conversation is overwritten in its layer, evicted or    *)
(* not, while generation stays in its room: what the prefill and the       *)
(* generation wrote stays at its place.                                    *)
THEOREM TokensKept == Spec => []NothingLost
<1>1. CacheInv => NothingLost
  <2> SUFFICES ASSUME CacheInv, NEW l \in Layers, NEW p \in 0 .. len - 1, InRoom(l, len + 1), ~Overtaken(l)
               PROVE  \E b \in Blocks : store[l][b][p % BlockLen] = Token(l, p)
    BY DEF NothingLost
  <2>1. len \in Nat /\ q_len \in Nat /\ len <= MaxSeqLen /\ MaxSeqLen \in Nat
    BY CallTypes DEF CacheInv
  <2>2. p \in Nat /\ p < MaxSeqLen
    BY <2>1
  <2>3. p \div BlockLen \in Blocks
    BY <2>2, Place
  <2>4. InPlace(l)
    BY DEF CacheInv, StoreInv
  <2>5. p \in 0 .. KnownTo(l) - 1
    BY <2>1 DEF KnownTo
  <2> QED BY <2>3, <2>4, <2>5 DEF InPlace
<1> QED BY <1>1, InitCache, StepCache, PTL DEF Spec

-----------------------------------------------------------------------------
(* What the attentions see *)

LEMMA OutcomeKinds ==
  ASSUME NEW l, NEW table, NEW n, NEW o \in Retrieved(l, table, n)
  PROVE  /\ o.how \in {"dense", "reuse", "retrieve"}
         /\ ~Picks(l) => o = Whole("dense", table, n)
BY DEF Retrieved, Reuse, Selections, Whole, Outcome

(* A dense layer no issue overtakes *)
LEMMA DenseSees ==
  ASSUME CacheInv, PlayLayer, played < conf.dense, ~Overtaken(played)
  PROVE  att'.tokens = [p \in 0 .. len |-> Token(played, p)]
<1>1. /\ q_len = 1 /\ played < layer /\ played \in Layers /\ len \in Nat /\ len < MaxSeqLen
  BY CallTypes DEF PlayLayer, CacheInv, CallInv, Layers
<1>2. conf.dense \in Nat
  BY CallTypes, ConfigOk DEF CacheInv
<1>3. ~Sparse(played) /\ ~Evicting(played) /\ ~Picks(played)
  BY <1>1, <1>2 DEF Sparse, Evicting, Picks, Layers
<1>4. \A k \in Layers : ~Evicting(k)
  BY <1>3 DEF Overtaken
<1>5. TableFor(played) = Ascending /\ PastFor(played) = len
  BY <1>1, <1>4, Unevicted DEF CacheInv
<1>6. PICK o : /\ o \in Retrieved(played, Ascending, len + 1)
               /\ att'.tokens = Attended(played, o, store')
  BY <1>5 DEF PlayLayer
<1>7. o.table = Ascending /\ o.visited = BlockNum /\ o.length = len + 1
  BY <1>3, <1>6, OutcomeKinds DEF Whole, Outcome
<1>8. MinOf(o.length, o.visited * BlockLen) - 1 = len
  <2>1. len + 1 <= MaxSeqLen /\ MaxSeqLen = BlockNum * BlockLen /\ MaxSeqLen \in Nat
    BY <1>1, Constants
  <2> QED BY <1>1, <1>7, <2>1 DEF MinOf
<1>9. ASSUME NEW p \in 0 .. len
      PROVE  store'[played][At(Ascending, p \div BlockLen)][p % BlockLen] = Token(played, p)
  <2>1. p \in Nat /\ p < MaxSeqLen
    BY <1>1, Constants
  <2>2. p \div BlockLen \in Blocks
    BY <2>1, Place
  <2>3. At(Ascending, p \div BlockLen) = p \div BlockLen
    BY <2>2, Constants DEF At, Ascending, Blocks
  <2>4. PICK l \in Layers : l = played
    BY <1>1
  <2>5. InPlace(l)'
    <3>1. Roomy(l)
      BY <1>3, <2>4 DEF Roomy, InRoom
    <3> QED BY <2>4, <3>1, PlayStore DEF CacheInv
  <2>6. PICK k : k = KnownTo(l)'
    OBVIOUS
  <2>7. k = len + 1
    <3>1. played' = played + 1 /\ len' = len /\ q_len' = q_len
      BY DEF PlayLayer
    <3> QED BY <1>1, <2>4, <2>6, <3>1 DEF KnownTo, Layers
  <2>8. p \in 0 .. k - 1
    BY <1>1, <2>7
  <2>9. store'[l][p \div BlockLen][p % BlockLen] = Token(l, p)
    BY <2>5, <2>6, <2>8 DEF InPlace
  <2> QED BY <2>3, <2>4, <2>9
<1>10. Attended(played, o, store') = [p \in 0 .. len |-> Token(played, p)]
  BY <1>7, <1>8, <1>9 DEF Attended
<1> QED BY <1>6, <1>10

LEMMA StepWhole == CacheInv /\ WholeContext /\ [Next]_vars => WholeContext'
<1> SUFFICES ASSUME CacheInv, WholeContext, [Next]_vars PROVE WholeContext'
  OBVIOUS
<1>1. CASE PrefillLayer
  <2>1. /\ att' = [how |-> "prefill", layer |-> layer, upto |-> len + q_len,
                tokens |-> [p \in 0 .. len + q_len - 1 |->
                              Swapped(layer)[p \div BlockLen][p % BlockLen]]]
    BY <1>1 DEF PrefillLayer, SwapInAndOut
  <2>2. \A p \in 0 .. len + q_len - 1 : Swapped(layer)[p \div BlockLen][p % BlockLen] = Token(layer, p)
    BY <1>1, PrefillStore DEF CacheInv
  <2>3. /\ att'.tokens = [p \in 0 .. len + q_len - 1 |-> Token(layer, p)]
        /\ att'.upto = len + q_len /\ att'.layer = layer
    BY <2>1, <2>2
  <2>4. SeesEverything'
    <3>1. PICK a : a = att'
      OBVIOUS
    <3>2. PICK n, l : n = len + q_len /\ l = layer
      OBVIOUS
    <3>3. a.tokens = [p \in 0 .. n - 1 |-> Token(l, p)]
      <4>1. PICK f, g : f = [p \in 0 .. len + q_len - 1 |-> Token(layer, p)] /\ g = [p \in 0 .. n - 1 |-> Token(l, p)]
        OBVIOUS
      <4>2. f = g
        <5>1. 0 .. len + q_len - 1 = 0 .. n - 1 /\ layer = l
          BY <3>2, CallTypes DEF CacheInv
        <5>2. DOMAIN f = DOMAIN g
          BY <4>1, <5>1
        <5>3. \A p \in DOMAIN g : f[p] = g[p]
          BY <4>1, <5>1
        <5> QED BY <4>1, <5>2, <5>3
      <4>3. a.tokens = f
        BY <2>3, <3>1, <4>1, Zenon
      <4> QED BY <4>1, <4>2, <4>3, Zenon
    <3>4. a.upto = n /\ a.layer = l
      BY <2>3, <3>1, <3>2, Zenon
    <3>5. a.tokens = [p \in 0 .. a.upto - 1 |-> Token(a.layer, p)]
      BY <3>3, <3>4
    <3> QED BY <3>1, <3>5 DEF SeesEverything
  <2> QED BY <2>4 DEF WholeContext
<1>2. CASE PlayLayer
  <2>1. PICK o \in Retrieved(played, TableFor(played), PastFor(played) + 1) :
          att' = [how |-> o.how, layer |-> played, upto |-> len + 1,
                  tokens |-> Attended(played, o, store')]
    BY <1>2 DEF PlayLayer
  <2>2. att'.how # "prefill" /\ att'.layer = played /\ att'.upto = len + 1
    <3>1. o.how # "prefill"
      BY OutcomeKinds
    <3> QED BY <2>1, <3>1
  <2>3. PICK l : l = played
    OBVIOUS
  <2>4. Overtaken(att.layer)' <=> Overtaken(l)
    BY <1>2, <2>2, <2>3 DEF PlayLayer, prefillVars, Overtaken, Evicting, Sparse
  <2>5. ASSUME played < conf.dense, ~Overtaken(l) PROVE SeesEverything'
    <3>1. att'.tokens = [p \in 0 .. len |-> Token(played, p)]
      BY <1>2, <2>3, <2>5, DenseSees
    <3>2. att'.upto - 1 = len
      BY <2>2, CallTypes DEF CacheInv
    <3> QED BY <2>2, <3>1, <3>2 DEF SeesEverything
  <2>6. conf' = conf
    BY <1>2 DEF PlayLayer
  <2> QED BY <2>2, <2>4, <2>5, <2>6 DEF WholeContext
<1>3. CASE PrefillCall \/ DecodeCall \/ EndChunk \/ IssueLayer \/ IssueRaises \/ UNCHANGED vars
  <2>1. att' = att /\ conf' = conf /\ prefill_block_num' = prefill_block_num
    BY <1>3 DEF PrefillCall, DecodeCall, Call, EndChunk, IssueLayer, IssueRaises, vars, prefillVars
  <2> QED BY <2>1 DEF WholeContext, SeesEverything, Overtaken, Evicting, Sparse
<1> QED BY <1>1, <1>2, <1>3 DEF Next

(* The attention of the prefill sees every token up to the newest, in      *)
(* order and of its own layer, whatever layer used the GPU buffer before;  *)
(* so does a dense layer in generation while no layer evicts.              *)
THEOREM ContextWhole == Spec => []WholeContext
<1>1. Init => WholeContext
  BY DEF Init, WholeContext
<1> QED BY <1>1, InitCache, StepCache, StepWhole, PTL DEF Spec

-----------------------------------------------------------------------------
(* Blocks that hold tokens *)

LEMMA Successor ==
  ASSUME NEW p \in Nat
  PROVE  \/ /\ (p % BlockLen) + 1 < BlockLen
            /\ (p + 1) \div BlockLen = p \div BlockLen /\ (p + 1) % BlockLen = (p % BlockLen) + 1
         \/ /\ (p % BlockLen) + 1 = BlockLen
            /\ (p + 1) \div BlockLen = p \div BlockLen + 1 /\ (p + 1) % BlockLen = 0
<1>1. PICK a, b, n : a = p \div BlockLen /\ b = p % BlockLen /\ n = p + 1
  OBVIOUS
<1>2. BlockLen \in Nat \ {0} /\ a \in Nat /\ b \in 0 .. BlockLen - 1 /\ p = a * BlockLen + b /\ a * BlockLen \in Nat
  <2>1. BlockLen \in Nat \ {0}
    BY Constants
  <2>2. a \in Nat /\ b \in 0 .. BlockLen - 1 /\ p = a * BlockLen + b
    BY <1>1, <2>1, DivMod
  <2> QED BY <2>1, <2>2
<1>3. CASE b + 1 < BlockLen
  <2>1. b + 1 \in 0 .. BlockLen - 1 /\ n = a * BlockLen + (b + 1)
    BY <1>1, <1>2, <1>3
  <2>2. n \div BlockLen = a /\ n % BlockLen = b + 1
    BY <1>2, <2>1, DivUnique
  <2> QED BY <1>1, <1>3, <2>2
<1>4. CASE ~(b + 1 < BlockLen)
  <2>1. PICK c : c = a + 1
    OBVIOUS
  <2>2. c \in Nat /\ c * BlockLen = a * BlockLen + BlockLen /\ 0 \in 0 .. BlockLen - 1 /\ b + 1 = BlockLen
    BY <1>2, <1>4, <2>1
  <2>3. n = c * BlockLen + 0
    BY <1>1, <1>2, <2>2
  <2>4. n \div BlockLen = c /\ n % BlockLen = 0
    BY <1>2, <2>2, <2>3, DivUnique
  <2> QED BY <1>1, <2>1, <2>2, <2>4
<1> QED BY <1>3, <1>4

LEMMA BegunFull ==
  ASSUME NEW b, NEW n \in Nat, Begun(b, n)
  PROVE  Full(b, n) \/ (b = n \div BlockLen /\ n % BlockLen # 0)
<1>1. PICK q, r : q = n \div BlockLen /\ r = n % BlockLen
  OBVIOUS
<1>2. /\ BlockLen \in Nat \ {0} /\ q \in Nat /\ r \in 0 .. BlockLen - 1 /\ n = q * BlockLen + r
      /\ b \in Nat /\ b \in Blocks
  BY <1>1, Constants, Place DEF Blocks, Slots, Begun
<1>3. b < q \/ (b = q /\ 0 < r)
  <2>1. b * BlockLen \in Nat
    BY <1>2
  <2>2. b * BlockLen + 0 < q * BlockLen + r /\ 0 \in 0 .. BlockLen - 1
    BY <1>2, <2>1 DEF Begun
  <2> QED BY <1>2, <2>2, DivOrder
<1> QED BY <1>1, <1>2, <1>3, FullBefore

LEMMA BlockLater ==
  ASSUME NEW b, NEW n \in Nat, NEW m \in Nat, n <= m
  PROVE  (Begun(b, n) => Begun(b, m)) /\ (Full(b, n) => Full(b, m))
<1> SUFFICES ASSUME b \in Blocks PROVE (Begun(b, n) => Begun(b, m)) /\ (Full(b, n) => Full(b, m))
  BY DEF Begun, Full
<1>1. PICK x, y : x = b * BlockLen /\ y = (b + 1) * BlockLen
  OBVIOUS
<1>2. x \in Nat /\ y \in Nat
  BY <1>1, Constants DEF Blocks
<1> QED BY <1>1, <1>2 DEF Begun, Full

(* The slots of a full block, and those of the block that fills *)
LEMMA FullSlots ==
  ASSUME NEW b, NEW n \in Nat, Full(b, n), NEW s \in Slots
  PROVE  b * BlockLen + s < n
<1>1. b \in Nat /\ BlockLen \in Nat \ {0} /\ s \in 0 .. BlockLen - 1
  BY Constants DEF Full, Blocks, Slots
<1>2. (b + 1) * BlockLen = b * BlockLen + BlockLen /\ b * BlockLen \in Nat
  BY <1>1
<1> QED BY <1>1, <1>2 DEF Full

LEMMA FillingSlots ==
  ASSUME NEW n \in Nat, NEW s \in Slots, s < n % BlockLen
  PROVE  (n \div BlockLen) * BlockLen + s < n
<1>1. PICK q, r : q = n \div BlockLen /\ r = n % BlockLen
  OBVIOUS
<1>2. /\ q \in Nat /\ r \in Nat /\ n = q * BlockLen + r /\ s \in Nat /\ q * BlockLen \in Nat
  BY <1>1, Constants, Place DEF Slots
<1> QED BY <1>1, <1>2

(* What a selection that is kept consists of, when n tokens are there:     *)
(* different blocks, at least those that were selected, all full but       *)
(* possibly the last.                                                      *)
KeptBlocks(h, n) ==
  /\ h \in Seq(Blocks)
  /\ Chosen <= Len(h)
  /\ \A i, j \in 1 .. Len(h) : h[i] = h[j] => i = j
  /\ \A i \in 1 .. Len(h) : Begun(h[i], n) /\ (i < Len(h) \/ Len(h) = Chosen => Full(h[i], n))

LEMMA KeptLater ==
  ASSUME NEW h, NEW n \in Nat, NEW m \in Nat, n <= m, KeptBlocks(h, n)
  PROVE  KeptBlocks(h, m)
BY BlockLater DEF KeptBlocks

LEMMA KeptSlots ==
  ASSUME NEW h, NEW n \in Nat, KeptBlocks(h, n), NEW p \in Nat, p \div BlockLen < Len(h),
         \/ p \div BlockLen + 1 < Len(h) \/ Len(h) = Chosen
         \/ n % BlockLen = 0 \/ p % BlockLen < n % BlockLen
  PROVE  At(h, p \div BlockLen) \in Blocks /\ At(h, p \div BlockLen) * BlockLen + (p % BlockLen) < n
<1>1. PICK i, s, b : i = p \div BlockLen /\ s = p % BlockLen /\ b = At(h, i)
  OBVIOUS
<1>2. i \in Nat /\ s \in Slots
  BY <1>1, Place
<1>3. i + 1 \in 1 .. Len(h) /\ b = h[i + 1] /\ Len(h) \in Nat
  <2>1. Len(h) \in Nat
    BY DEF KeptBlocks
  <2> QED BY <1>1, <1>2, <2>1 DEF At
<1>4. Begun(b, n) /\ b \in Blocks
  BY <1>3 DEF KeptBlocks, Begun
<1>5. Full(b, n) \/ (b = n \div BlockLen /\ s < n % BlockLen)
  <2>1. CASE i + 1 < Len(h) \/ Len(h) = Chosen
    BY <1>3, <2>1 DEF KeptBlocks
  <2>2. CASE n % BlockLen = 0
    BY <1>4, <2>2, BegunFull
  <2>3. CASE s < n % BlockLen
    BY <1>4, <2>3, BegunFull
  <2> QED BY <1>1, <2>1, <2>2, <2>3
<1>6. b * BlockLen + s < n
  BY <1>2, <1>5, FullSlots, FillingSlots
<1> QED BY <1>1, <1>4, <1>6

-----------------------------------------------------------------------------
(* What an attention visits *)

(* The first m positions of a table, where n tokens are there: slots that  *)
(* hold one, in different blocks. *)
Visits(t, m, n) ==
  /\ m \in Int
  /\ \A p \in 0 .. m - 1 :
       At(t, p \div BlockLen) \in Blocks /\ At(t, p \div BlockLen) * BlockLen + (p % BlockLen) < n
  /\ \A p, r \in 0 .. m - 1 :
       At(t, p \div BlockLen) = At(t, r \div BlockLen) => p \div BlockLen = r \div BlockLen

Once(f) ==
  /\ None \notin {f[p] : p \in DOMAIN f}
  /\ \A p, r \in DOMAIN f : f[p] = f[r] => p = r

Holds(st, l, n) ==
  \A b \in Blocks : \A s \in Slots :
    b * BlockLen + s < n => st[l][b][s] = Token(l, b * BlockLen + s)

View(st, l, t, m) == [p \in 0 .. m - 1 |-> st[l][At(t, p \div BlockLen)][p % BlockLen]]

LEMMA VisitedOnce ==
  ASSUME NEW st, NEW l, NEW n, NEW m, NEW t, Visits(t, m, n), Holds(st, l, n)
  PROVE  Once(View(st, l, t, m))
<1>4. PICK f : f = View(st, l, t, m)
  OBVIOUS
<1>5. f = [p \in 0 .. m - 1 |-> st[l][At(t, p \div BlockLen)][p % BlockLen]]
  BY <1>4 DEF View
<1>1. ASSUME NEW p \in 0 .. m - 1
      PROVE  f[p] = Token(l, At(t, p \div BlockLen) * BlockLen + (p % BlockLen))
  <2>1. p \in Nat
    BY DEF Visits
  <2>2. p % BlockLen \in Slots
    BY <2>1, Place
  <2>3. At(t, p \div BlockLen) \in Blocks /\ At(t, p \div BlockLen) * BlockLen + (p % BlockLen) < n
    BY DEF Visits
  <2> QED BY <1>5, <2>2, <2>3 DEF Holds
<1>2. \A p \in 0 .. m - 1 : f[p] # None
  <2>1. \A x : Token(l, x) # None
    <3> SUFFICES ASSUME NEW x, Token(l, x) = None PROVE FALSE
      OBVIOUS
    <3>1. Len(<<l, x>>) = 2 /\ Len(<<>>) = 0
      OBVIOUS
    <3> QED BY <3>1 DEF Token, None
  <2> QED BY <1>1, <2>1
<1>3. ASSUME NEW p \in 0 .. m - 1, NEW r \in 0 .. m - 1, f[p] = f[r] PROVE p = r
  <2>1. p \in Nat /\ r \in Nat
    BY DEF Visits
  <2>2. PICK a, b, c, d : /\ a = At(t, p \div BlockLen) /\ b = p % BlockLen
                          /\ c = At(t, r \div BlockLen) /\ d = r % BlockLen
    OBVIOUS
  <2>3. a * BlockLen + b = c * BlockLen + d
    BY <1>1, <1>3, <2>2 DEF Token
  <2>4. a \in Nat /\ c \in Nat /\ b \in Slots /\ d \in Slots
    BY <2>1, <2>2, Place DEF Visits, Blocks
  <2>5. a = c /\ b = d
    BY <2>3, <2>4, SamePlace
  <2>6. p \div BlockLen = r \div BlockLen
    BY <2>2, <2>5 DEF Visits
  <2>7. p = (p \div BlockLen) * BlockLen + (p % BlockLen) /\ r = (r \div BlockLen) * BlockLen + (r % BlockLen)
    BY <2>1, Place
  <2> QED BY <2>2, <2>5, <2>6, <2>7
<1> QED BY <1>2, <1>3, <1>4, <1>5 DEF Once

(* The whole of a table whose entry e takes the new token *)
LEMMA WholeVisits ==
  ASSUME NEW past \in Nat, len \in Nat, past % BlockLen = len % BlockLen, NEW table,
         GoodTable(table, past \div BlockLen), NEW m \in Int, m <= past + 1
  PROVE  Visits(table, m, len + 1)
<1>1. PICK e, r, q : e = past \div BlockLen /\ r = past % BlockLen /\ q = len \div BlockLen
  OBVIOUS
<1>2. /\ BlockLen \in Nat \ {0} /\ e \in Nat /\ r \in 0 .. BlockLen - 1 /\ past = e * BlockLen + r
      /\ q \in Nat /\ len = q * BlockLen + r
  <2>1. BlockLen \in Nat \ {0}
    BY Constants
  <2>2. e \in Nat /\ r \in 0 .. BlockLen - 1 /\ past = e * BlockLen + r
    BY <1>1, <2>1, DivMod
  <2>3. q \in Nat /\ len = q * BlockLen + (len % BlockLen)
    BY <1>1, <2>1, DivMod
  <2> QED BY <1>1, <2>1, <2>2, <2>3
<1>3. /\ At(table, e) = q /\ q \in Blocks
      /\ \A i \in 0 .. e - 1 : Full(At(table, i), len)
      /\ \A i, j \in 0 .. e : At(table, i) = At(table, j) => i = j
  BY <1>1 DEF GoodTable
<1>4. ASSUME NEW p \in 0 .. m - 1
      PROVE  /\ p \div BlockLen \in 0 .. e
             /\ At(table, p \div BlockLen) \in Blocks
             /\ At(table, p \div BlockLen) * BlockLen + (p % BlockLen) < len + 1
  <2>1. PICK i, s : i = p \div BlockLen /\ s = p % BlockLen
    OBVIOUS
  <2>2. p \in Nat /\ p < past + 1
    OBVIOUS
  <2>3. i \in Nat /\ s \in 0 .. BlockLen - 1 /\ p = i * BlockLen + s
    BY <1>2, <2>1, <2>2, DivMod
  <2>4. i < e \/ (i = e /\ s <= r)
    <3>1. ~(e * BlockLen + r < i * BlockLen + s)
      BY <1>2, <2>2, <2>3
    <3>2. ~(e < i \/ (e = i /\ r < s))
      BY <1>2, <2>3, <3>1, DivOrder
    <3> QED BY <1>2, <2>3, <3>2
  <2>5. CASE i < e
    <3>1. Full(At(table, i), len) /\ s \in Slots
      BY <1>2, <1>3, <2>3, <2>5 DEF Slots
    <3>2. At(table, i) * BlockLen + s < len /\ At(table, i) \in Blocks
      BY <3>1, FullSlots DEF Full
    <3>3. PICK x : x = At(table, i) * BlockLen
      OBVIOUS
    <3>4. x \in Nat
      BY <3>2, <3>3, Constants DEF Blocks
    <3>5. x + s < len + 1
      BY <2>3, <3>2, <3>3, <3>4
    <3> QED BY <1>2, <2>1, <2>3, <2>5, <3>2, <3>3, <3>5
  <2>6. CASE i = e /\ s <= r
    <3>1. q * BlockLen \in Nat
      BY <1>2
    <3>2. q * BlockLen + s < len + 1
      BY <1>2, <2>3, <2>6, <3>1
    <3> QED BY <1>2, <1>3, <2>1, <2>6, <3>2
  <2> QED BY <2>4, <2>5, <2>6
<1>5. \A p, r2 \in 0 .. m - 1 :
        At(table, p \div BlockLen) = At(table, r2 \div BlockLen) => p \div BlockLen = r2 \div BlockLen
  BY <1>3, <1>4
<1> QED BY <1>4, <1>5 DEF Visits

(* The blocks of a kept selection, up to a bound that only passes the last *)
(* one if it is full *)
LEMMA KeptVisits ==
  ASSUME NEW n \in Nat, NEW h, KeptBlocks(h, n), NEW t, NEW m \in Int,
         \A i \in 1 .. Len(h) : t[i] = h[i],
         \A p \in 0 .. m - 1 :
           /\ p \div BlockLen < Len(h)
           /\ \/ p \div BlockLen + 1 < Len(h) \/ Len(h) = Chosen
              \/ n % BlockLen = 0 \/ p % BlockLen < n % BlockLen
  PROVE  Visits(t, m, n)
<1>1. Len(h) \in Nat
  BY DEF KeptBlocks
<1>2. ASSUME NEW p \in 0 .. m - 1
      PROVE  /\ p \div BlockLen \in Nat /\ p \div BlockLen + 1 \in 1 .. Len(h)
             /\ At(t, p \div BlockLen) = h[p \div BlockLen + 1]
             /\ At(h, p \div BlockLen) = h[p \div BlockLen + 1]
  <2>1. p \in Nat
    OBVIOUS
  <2>2. p \div BlockLen \in Nat
    BY <2>1, Place
  <2> QED BY <1>1, <2>2 DEF At
<1>3. ASSUME NEW p \in 0 .. m - 1
      PROVE  At(t, p \div BlockLen) \in Blocks /\ At(t, p \div BlockLen) * BlockLen + (p % BlockLen) < n
  <2>1. p \in Nat
    OBVIOUS
  <2>2. At(h, p \div BlockLen) \in Blocks /\ At(h, p \div BlockLen) * BlockLen + (p % BlockLen) < n
    BY <2>1, KeptSlots
  <2> QED BY <1>2, <2>2
<1>4. ASSUME NEW p \in 0 .. m - 1, NEW r \in 0 .. m - 1, At(t, p \div BlockLen) = At(t, r \div BlockLen)
      PROVE  p \div BlockLen = r \div BlockLen
  <2>1. p \div BlockLen + 1 = r \div BlockLen + 1
    BY <1>2, <1>4 DEF KeptBlocks
  <2> QED BY <1>2, <2>1
<1> QED BY <1>3, <1>4 DEF Visits

LEMMA ChosenOk == Chosen \in Nat /\ Chosen >= 1
BY Constants DEF Chosen

LEMMA VisitsLater ==
  ASSUME NEW t, NEW m, NEW n \in Nat, Visits(t, m, n)
  PROVE  Visits(t, m, n + 1)
<1> SUFFICES ASSUME NEW p \in 0 .. m - 1
             PROVE  At(t, p \div BlockLen) * BlockLen + (p % BlockLen) < n + 1
  BY DEF Visits
<1>1. PICK b, x, s : b = At(t, p \div BlockLen) /\ x = b * BlockLen /\ s = p % BlockLen
  OBVIOUS
<1>2. p \in Nat /\ b \in Nat /\ x + s < n
  BY <1>1 DEF Visits, Blocks
<1>3. x \in Nat
  BY <1>1, <1>2, Constants
<1>4. s \in Nat
  BY <1>1, <1>2, Place DEF Slots
<1> QED BY <1>1, <1>2, <1>3, <1>4

(* The length a table is worth after the new token *)
LEMMA NewLength ==
  ASSUME NEW past \in Nat, len \in Nat, past % BlockLen = len % BlockLen
  PROVE  /\ (past + 1) % BlockLen = (len + 1) % BlockLen /\ (len + 1) % BlockLen \in 0 .. BlockLen - 1
         /\ (len + 1) % BlockLen # 0 =>
              /\ (past + 1) \div BlockLen = past \div BlockLen
              /\ (len + 1) \div BlockLen = len \div BlockLen
              /\ (len + 1) % BlockLen = (len % BlockLen) + 1
         /\ (len + 1) % BlockLen = 0 =>
              /\ (past + 1) \div BlockLen = past \div BlockLen + 1
              /\ (len + 1) \div BlockLen = len \div BlockLen + 1
<1>1. len % BlockLen \in Slots /\ (len + 1) % BlockLen \in Slots
  <2>1. len + 1 \in Nat
    OBVIOUS
  <2> QED BY <2>1, Place
<1>2. PICK r, a, b, c, d, u, v :
        /\ r = len % BlockLen /\ a = (len + 1) % BlockLen /\ b = (past + 1) % BlockLen
        /\ c = len \div BlockLen /\ d = (len + 1) \div BlockLen
        /\ u = past \div BlockLen /\ v = (past + 1) \div BlockLen
  OBVIOUS
<1>3. r \in Nat /\ a \in 0 .. BlockLen - 1 /\ BlockLen \in Nat \ {0}
  BY <1>1, <1>2, Constants DEF Slots
<1>4. (r + 1 < BlockLen /\ d = c /\ a = r + 1) \/ (r + 1 = BlockLen /\ d = c + 1 /\ a = 0)
  BY <1>2, Successor
<1>5. (r + 1 < BlockLen /\ v = u /\ b = r + 1) \/ (r + 1 = BlockLen /\ v = u + 1 /\ b = 0)
  BY <1>2, Successor
<1>6. a = b /\ (a # 0 => v = u /\ d = c /\ a = r + 1) /\ (a = 0 => v = u + 1 /\ d = c + 1)
  BY <1>3, <1>4, <1>5
<1> QED BY <1>2, <1>3, <1>6

(* A selection used again *)
LEMMA ExtendedKept ==
  ASSUME NEW past \in Nat, len \in Nat, past % BlockLen = len % BlockLen, NEW table,
         GoodTable(table, past \div BlockLen), NEW h, KeptBlocks(h, len),
         NEW t, t = Extended(h, table, past + 1)
  PROVE  /\ KeptBlocks(t, len + 1)
         /\ \A i \in 1 .. Len(h) : t[i] = h[i]
         /\ (len + 1) % BlockLen = 1 => t[Len(t)] = len \div BlockLen /\ Len(t) = Len(h) + 1 /\ len % BlockLen = 0
         /\ (len + 1) % BlockLen # 1 => t = h
<1>1. PICK q, k, n : q = len \div BlockLen /\ k = (len + 1) % BlockLen /\ n = past + 1
  OBVIOUS
<1>2. /\ n % BlockLen = k /\ k \in Nat
      /\ k = 1 => n \div BlockLen = past \div BlockLen /\ len % BlockLen = 0
  <2>1. k \in 0 .. BlockLen - 1 /\ n % BlockLen = k
    BY <1>1, NewLength
  <2>2. PICK r : r = len % BlockLen
    OBVIOUS
  <2>3. r \in Nat
    BY <2>2, Place DEF Slots
  <2>4. k # 0 => n \div BlockLen = past \div BlockLen /\ k = r + 1
    BY <1>1, <2>2, NewLength
  <2>5. k \in Nat
    BY <2>1, Constants
  <2> QED BY <2>1, <2>2, <2>3, <2>4, <2>5
<1>3. KeptBlocks(h, len + 1)
  BY KeptLater
<1>4. CASE k # 1
  <2>1. t = h
    BY <1>1, <1>2, <1>4 DEF Extended
  <2> QED BY <1>1, <1>3, <1>4, <2>1
<1>5. CASE k = 1
  <2>1. q \in Blocks /\ At(table, past \div BlockLen) = q
    BY <1>1 DEF GoodTable
  <2>2. t = Append(h, q)
    BY <1>1, <1>2, <1>5, <2>1 DEF Extended
  <2>3. h \in Seq(Blocks) /\ Len(h) \in Nat /\ Chosen <= Len(h)
    BY DEF KeptBlocks
  <2>4. /\ t \in Seq(Blocks) /\ Len(t) = Len(h) + 1 /\ t[Len(h) + 1] = q
        /\ \A i \in 1 .. Len(h) : t[i] = h[i]
    BY <2>1, <2>2, <2>3, AppendProperties
  <2>5. q \in Nat /\ q * BlockLen \in Nat /\ len = q * BlockLen
    <3>1. len = q * BlockLen + 0 /\ q \in Nat
      BY <1>1, <1>2, <1>5, Place
    <3> QED BY <3>1, Constants
  <2>6. Begun(q, len + 1)
    BY <2>1, <2>5 DEF Begun
  <2>7. ASSUME NEW i \in 1 .. Len(h) PROVE h[i] # q /\ Full(h[i], len + 1)
    <3>1. Begun(h[i], len)
      BY DEF KeptBlocks
    <3>2. h[i] # q
      BY <2>5, <3>1 DEF Begun
    <3>3. Full(h[i], len)
      BY <1>2, <1>5, <3>1, BegunFull
    <3> QED BY <3>2, <3>3, BlockLater
  <2>8. \A i \in 1 .. Len(h) : Begun(h[i], len + 1)
    BY <1>3 DEF KeptBlocks
  <2>9. \A i \in 1 .. Len(t) : i \in 1 .. Len(h) \/ i = Len(h) + 1
    BY <2>3, <2>4
  <2>10. \A i \in 1 .. Len(t) : Begun(t[i], len + 1)
    BY <2>4, <2>6, <2>8, <2>9
  <2>11. \A i \in 1 .. Len(t) : i < Len(t) \/ Len(t) = Chosen => Full(t[i], len + 1)
    BY <2>3, <2>4, <2>7, <2>9, ChosenOk
  <2>12. \A i, j \in 1 .. Len(t) : t[i] = t[j] => i = j
    <3>1. \A i, j \in 1 .. Len(h) : h[i] = h[j] => i = j
      BY DEF KeptBlocks
    <3> QED BY <2>4, <2>7, <2>9, <3>1
  <2>13. KeptBlocks(t, len + 1)
    <3>1. t \in Seq(Blocks) /\ Chosen <= Len(t)
      BY <2>3, <2>4, ChosenOk
    <3> QED BY <2>10, <2>11, <2>12, <3>1 DEF KeptBlocks
  <2> QED BY <1>1, <1>2, <1>5, <2>4, <2>13
<1> QED BY <1>4, <1>5

LEMMA ReuseVisits ==
  ASSUME NEW past \in Nat, len \in Nat, past % BlockLen = len % BlockLen, NEW table,
         GoodTable(table, past \div BlockLen), NEW h, h # <<>>, KeptBlocks(h, len),
         NEW o, o = Reuse(h, table, past + 1)
  PROVE  /\ Visits(o.table, MinOf(o.length, o.visited * BlockLen), len + 1)
         /\ o.history = Extended(h, table, past + 1)
<1>1. PICK t, k, n : t = Extended(h, table, past + 1) /\ k = (len + 1) % BlockLen /\ n = past + 1
  OBVIOUS
<1>2. /\ o.table = t /\ o.visited = Len(h) /\ o.history = t
      /\ o.length = IF conf.separate THEN ReusedLengthKvHead(n) ELSE ReusedLengthLayer(t, n)
  BY <1>1 DEF Reuse, Outcome
<1>3. /\ KeptBlocks(t, len + 1)
      /\ \A i \in 1 .. Len(h) : t[i] = h[i]
      /\ k = 1 => Len(t) = Len(h) + 1 /\ len % BlockLen = 0
      /\ k # 1 => t = h
  BY <1>1, ExtendedKept
<1>4. n % BlockLen = k /\ k \in 0 .. BlockLen - 1 /\ n \in Nat
  BY <1>1, NewLength
<1>5. BlockLen \in Nat \ {0} /\ Chosen \in Nat /\ Len(h) \in Nat /\ Chosen <= Len(h) /\ Chosen >= 1
  BY Constants, ChosenOk DEF KeptBlocks
<1>6. PICK m, c, w : /\ m = MinOf(o.length, o.visited * BlockLen)
                     /\ c = Chosen * BlockLen /\ w = (Len(h) - 1) * BlockLen
  OBVIOUS
<1>7. c \in Nat /\ w \in Nat /\ Len(h) * BlockLen = w + BlockLen /\ Len(h) - 1 \in Nat
  BY <1>5, <1>6
<1>8. /\ conf.separate => o.length \in Nat /\ o.length <= k + c
      /\ ~conf.separate /\ k # 1 => o.length = k + w
      /\ ~conf.separate /\ k = 1 => o.length = 1 + w + BlockLen
  <2>1. ASSUME conf.separate PROVE o.length \in Nat /\ o.length <= k + c
    <3>1. o.length = MinOf(n, k + c)
      BY <1>2, <1>4, <1>6, <2>1 DEF ReusedLengthKvHead, SelectedLength
    <3>2. k + c \in Nat
      BY <1>4, <1>7
    <3> QED BY <1>4, <3>1, <3>2 DEF MinOf
  <2>2. ASSUME ~conf.separate PROVE o.length = k + Len(t) * BlockLen - BlockLen
    BY <1>2, <1>4, <2>2 DEF ReusedLengthLayer
  <2>3. ASSUME ~conf.separate, k # 1 PROVE o.length = k + w
    <3>1. o.length = k + (w + BlockLen) - BlockLen
      BY <1>3, <1>7, <2>2, <2>3
    <3> QED BY <1>4, <1>5, <1>7, <3>1
  <2>4. ASSUME ~conf.separate, k = 1 PROVE o.length = 1 + w + BlockLen
    <3>1. (Len(h) + 1) * BlockLen = w + BlockLen + BlockLen
      BY <1>5, <1>7
    <3>2. o.length = 1 + (w + BlockLen + BlockLen) - BlockLen
      BY <1>3, <2>2, <2>4, <3>1
    <3> QED BY <1>5, <1>7, <3>2
  <2> QED BY <2>1, <2>3, <2>4
<1>9. m \in Int /\ m <= o.length /\ m <= w + BlockLen
  <2>1. o.visited * BlockLen = w + BlockLen
    BY <1>2, <1>7
  <2>2. o.length \in Int /\ w + BlockLen \in Int
    BY <1>4, <1>5, <1>7, <1>8
  <2>3. m = IF o.length <= w + BlockLen THEN o.length ELSE w + BlockLen
    BY <1>6, <2>1 DEF MinOf
  <2> QED BY <2>2, <2>3
<1>10. ASSUME NEW p \in 0 .. m - 1
       PROVE  /\ p \div BlockLen < Len(h)
              /\ \/ p \div BlockLen + 1 < Len(h) \/ Len(h) = Chosen
                 \/ k = 1 /\ ~conf.separate
                 \/ p % BlockLen < k
  <2>1. PICK i, s : i = p \div BlockLen /\ s = p % BlockLen
    OBVIOUS
  <2>2. p \in Nat /\ p < o.length /\ p < w + BlockLen
    BY <1>4, <1>5, <1>7, <1>8, <1>9
  <2>3. i \in Nat /\ s \in 0 .. BlockLen - 1 /\ p = i * BlockLen + s
    BY <1>5, <2>1, <2>2, DivMod
  <2>4. i < Len(h)
    <3>1. i * BlockLen + s < Len(h) * BlockLen + 0 /\ 0 \in 0 .. BlockLen - 1
      BY <1>5, <1>7, <2>2, <2>3
    <3> QED BY <1>5, <2>3, <3>1, DivOrder
  <2>5. ASSUME conf.separate, ~(i + 1 < Len(h)), Len(h) # Chosen PROVE s < k
    <3>1. i * BlockLen + s < Chosen * BlockLen + k
      BY <1>4, <1>6, <1>7, <1>8, <2>2, <2>3, <2>5
    <3>2. i < Chosen \/ (i = Chosen /\ s < k)
      BY <1>4, <1>5, <2>3, <3>1, DivOrder
    <3> QED BY <1>5, <2>3, <2>5, <3>2
  <2>6. ASSUME ~conf.separate, k # 1, ~(i + 1 < Len(h)) PROVE s < k
    <3>1. i * BlockLen + s < (Len(h) - 1) * BlockLen + k
      BY <1>4, <1>6, <1>7, <1>8, <2>2, <2>3, <2>6
    <3>2. PICK g : g = Len(h) - 1
      OBVIOUS
    <3>3. g \in Nat /\ i * BlockLen + s < g * BlockLen + k
      BY <1>7, <3>1, <3>2
    <3>4. i < g \/ (i = g /\ s < k)
      BY <1>4, <1>5, <2>3, <3>3, DivOrder
    <3> QED BY <1>5, <2>3, <2>6, <3>2, <3>4
  <2> QED BY <2>1, <2>4, <2>5, <2>6
<1>11. CASE k = 1 /\ ~conf.separate
  <2>1. Visits(t, m, len)
    BY <1>3, <1>9, <1>10, <1>11, KeptVisits
  <2> QED BY <1>1, <1>2, <1>6, <2>1, VisitsLater
<1>12. CASE ~(k = 1 /\ ~conf.separate)
  <2>1. KeptBlocks(h, len + 1) /\ len + 1 \in Nat
    BY KeptLater
  <2>2. Visits(t, m, len + 1)
    BY <1>1, <1>3, <1>9, <1>10, <1>12, <2>1, KeptVisits
  <2> QED BY <1>1, <1>2, <1>6, <2>2
<1> QED BY <1>11, <1>12

(* A new selection takes entries of the table, every one once. *)
Indexed(t, table, nb, k) ==
  /\ t \in Seq(Blocks) /\ Len(t) = IF k = 0 THEN Chosen ELSE Chosen + 1
  /\ \E idx : /\ \A i \in 1 .. Len(t) : t[i] = At(table, idx[i])
              /\ \A i \in 1 .. Chosen : idx[i] \in 0 .. nb - 1
              /\ k # 0 => idx[Chosen + 1] = nb
              /\ \A i, j \in 1 .. Chosen : idx[i] = idx[j] => i = j

LEMMA SelectionEntries ==
  ASSUME NEW table, NEW n \in Nat, Chosen < n \div BlockLen,
         NEW top \in Injection(1 .. Pick, Middle(n)),
         \A i \in 0 .. n \div BlockLen - 1 : At(table, i) \in Blocks,
         n % BlockLen # 0 => At(table, n \div BlockLen) \in Blocks
  PROVE  Indexed(Selection(table, n, top), table, n \div BlockLen, n % BlockLen)
<1>22. PICK nb, k, t : nb = n \div BlockLen /\ k = n % BlockLen /\ t = Selection(table, n, top)
  OBVIOUS
<1>23. /\ nb \in Nat /\ k \in Nat /\ Chosen < nb
       /\ \A i \in 0 .. nb - 1 : At(table, i) \in Blocks
       /\ k # 0 => At(table, nb) \in Blocks
  BY <1>22, Place DEF Slots
<1>1. /\ InitBlocks \in Nat /\ Pick \in Nat \ {0} /\ LocalBlocks \in Nat /\ Chosen \in Nat
      /\ Chosen = InitBlocks + Pick + LocalBlocks
  BY Constants DEF Chosen
<1>2. PICK A, B, C, D : /\ A = InitPart(table) /\ B = [i \in 1 .. Pick |-> At(table, top[i])]
                        /\ C = LocalEnd(table, n) /\ D = Unfinished(table, n)
  OBVIOUS
<1>3. t = ((A \o B) \o C) \o D
  BY <1>2, <1>22 DEF Selection
<1>4. /\ \A i \in 1 .. Pick : top[i] \in InitBlocks .. nb - LocalBlocks - 1
      /\ \A i, j \in 1 .. Pick : top[i] = top[j] => i = j
  BY <1>22 DEF Injection, IsInjective, Middle
<1>5. A \in Seq(Blocks) /\ Len(A) = InitBlocks /\ \A i \in 1 .. InitBlocks : A[i] = At(table, i - 1)
  <2>1. A = SubSeq(table, 1, InitBlocks)
    BY <1>2 DEF InitPart
  <2>2. \A i \in 1 .. InitBlocks : table[i] = At(table, i - 1) /\ i - 1 \in 0 .. nb - 1
    BY <1>23, <1>1 DEF At
  <2>3. \A i \in 1 .. InitBlocks : table[i] \in Blocks
    BY <1>23, <2>2
  <2>4. /\ A \in Seq(Blocks) /\ Len(A) = IF 1 <= InitBlocks THEN InitBlocks - 1 + 1 ELSE 0
        /\ \A i \in 1 .. InitBlocks - 1 + 1 : A[i] = table[1 + i - 1]
    BY <1>23, <1>1, <2>1, <2>3, SubSeqProperties
  <2>5. Len(A) = InitBlocks
    BY <1>23, <1>1, <2>4
  <2>6. ASSUME NEW i \in 1 .. InitBlocks PROVE A[i] = table[i]
    <3>1. i \in 1 .. InitBlocks - 1 + 1 /\ 1 + i - 1 = i
      BY <1>23, <1>1
    <3> QED BY <2>4, <3>1
  <2> QED BY <2>2, <2>4, <2>5, <2>6
<1>6. B \in Seq(Blocks) /\ Len(B) = Pick /\ \A i \in 1 .. Pick : B[i] = At(table, top[i])
  <2>1. ASSUME NEW i \in 1 .. Pick PROVE At(table, top[i]) \in Blocks
    <3>1. top[i] \in InitBlocks .. nb - LocalBlocks - 1
      BY <1>4
    <3>2. top[i] \in 0 .. nb - 1
      BY <1>23, <1>1, <3>1
    <3> QED BY <1>23, <3>2
  <2> QED BY <1>23, <1>1, <1>2, <2>1
<1>7. /\ C \in Seq(Blocks) /\ Len(C) = LocalBlocks
      /\ \A i \in 1 .. LocalBlocks : C[i] = At(table, nb - LocalBlocks + i - 1)
  <2>1. C = [i \in 1 .. LocalBlocks |-> At(table, nb - LocalBlocks + i - 1)]
    BY <1>2, <1>22 DEF LocalEnd
  <2>2. ASSUME NEW i \in 1 .. LocalBlocks PROVE At(table, nb - LocalBlocks + i - 1) \in Blocks
    <3>1. nb - LocalBlocks + i - 1 \in 0 .. nb - 1
      BY <1>23, <1>1
    <3> QED BY <1>23, <3>1
  <2> QED BY <1>23, <1>1, <2>1, <2>2
<1>8. D \in Seq(Blocks) /\ Len(D) = (IF k = 0 THEN 0 ELSE 1) /\ (k # 0 => D[1] = At(table, nb))
  BY <1>2, <1>22, <1>23 DEF Unfinished
<1>9. PICK E : E = A \o B
  OBVIOUS
<1>10. /\ E \in Seq(Blocks) /\ Len(E) = InitBlocks + Pick
       /\ \A i \in 1 .. InitBlocks + Pick : E[i] = IF i <= InitBlocks THEN A[i] ELSE B[i - InitBlocks]
  BY <1>23, <1>5, <1>6, <1>9, ConcatProperties
<1>11. PICK F : F = E \o C
  OBVIOUS
<1>12. /\ F \in Seq(Blocks) /\ Len(F) = Chosen
       /\ \A i \in 1 .. Chosen : F[i] = IF i <= InitBlocks + Pick THEN E[i] ELSE C[i - (InitBlocks + Pick)]
  <2>1. /\ F \in Seq(Blocks) /\ Len(F) = Len(E) + Len(C)
        /\ \A i \in 1 .. Len(E) + Len(C) : F[i] = IF i <= Len(E) THEN E[i] ELSE C[i - Len(E)]
    BY <1>7, <1>10, <1>11, ConcatProperties
  <2>2. Len(E) = InitBlocks + Pick /\ Len(E) + Len(C) = Chosen
    BY <1>23, <1>1, <1>7, <1>10
  <2> QED BY <2>1, <2>2
<1>13. /\ t \in Seq(Blocks) /\ Len(t) = Chosen + (IF k = 0 THEN 0 ELSE 1)
       /\ \A i \in 1 .. Len(t) : t[i] = IF i <= Chosen THEN F[i] ELSE D[i - Chosen]
  <2>1. t = F \o D
    BY <1>3, <1>9, <1>11
  <2>2. /\ t \in Seq(Blocks) /\ Len(t) = Len(F) + Len(D)
        /\ \A i \in 1 .. Len(F) + Len(D) : t[i] = IF i <= Len(F) THEN F[i] ELSE D[i - Len(F)]
    BY <1>8, <1>12, <2>1, ConcatProperties
  <2>3. Len(F) = Chosen /\ Len(F) + Len(D) = Chosen + (IF k = 0 THEN 0 ELSE 1)
    BY <1>8, <1>12
  <2> QED BY <2>2, <2>3
<1>14. PICK idx : idx = [i \in 1 .. Chosen + 1 |->
                          IF i <= InitBlocks THEN i - 1
                          ELSE IF i <= InitBlocks + Pick THEN top[i - InitBlocks]
                          ELSE IF i <= Chosen THEN nb - LocalBlocks + (i - (InitBlocks + Pick)) - 1
                          ELSE nb]
  OBVIOUS
<1>15. ASSUME NEW i \in 1 .. Chosen
       PROVE  /\ F[i] = At(table, idx[i]) /\ idx[i] \in 0 .. nb - 1
              /\ i <= InitBlocks => idx[i] = i - 1
              /\ InitBlocks < i /\ i <= InitBlocks + Pick =>
                   /\ i - InitBlocks \in 1 .. Pick /\ idx[i] = top[i - InitBlocks]
                   /\ idx[i] >= InitBlocks /\ idx[i] < nb - LocalBlocks
              /\ InitBlocks + Pick < i => idx[i] = nb - LocalBlocks + (i - (InitBlocks + Pick)) - 1
  <2>1. CASE i <= InitBlocks
    <3>1. i \in 1 .. InitBlocks /\ i \in 1 .. InitBlocks + Pick /\ i \in 1 .. Chosen + 1 /\ i <= InitBlocks + Pick
      BY <1>23, <1>1, <2>1
    <3>2. idx[i] = i - 1 /\ F[i] = At(table, i - 1)
      BY <1>5, <1>10, <1>12, <1>14, <2>1, <3>1
    <3>3. i - 1 \in 0 .. nb - 1 /\ ~(InitBlocks < i) /\ ~(InitBlocks + Pick < i)
      BY <1>23, <1>1, <2>1
    <3> QED BY <3>2, <3>3
  <2>2. CASE ~(i <= InitBlocks) /\ i <= InitBlocks + Pick
    <3>1. i - InitBlocks \in 1 .. Pick /\ i \in 1 .. InitBlocks + Pick /\ i \in 1 .. Chosen + 1
      BY <1>23, <1>1, <2>2
    <3>2. idx[i] = top[i - InitBlocks] /\ F[i] = At(table, top[i - InitBlocks])
      BY <1>6, <1>10, <1>12, <1>14, <2>2, <3>1
    <3>3. top[i - InitBlocks] \in InitBlocks .. nb - LocalBlocks - 1
      BY <1>4, <3>1
    <3>4. PICK x : x = top[i - InitBlocks]
      OBVIOUS
    <3>5. x \in 0 .. nb - 1 /\ x >= InitBlocks /\ x < nb - LocalBlocks /\ ~(InitBlocks + Pick < i)
      BY <1>23, <1>1, <2>2, <3>3, <3>4
    <3> QED BY <2>2, <3>1, <3>2, <3>4, <3>5
  <2>3. CASE ~(i <= InitBlocks + Pick)
    <3>1. i - (InitBlocks + Pick) \in 1 .. LocalBlocks /\ i \in 1 .. Chosen + 1 /\ ~(i <= InitBlocks)
      BY <1>23, <1>1, <2>3
    <3>2. PICK x : x = nb - LocalBlocks + (i - (InitBlocks + Pick)) - 1
      OBVIOUS
    <3>3. idx[i] = x
      BY <1>23, <1>14, <2>3, <3>1, <3>2
    <3>4. F[i] = At(table, x)
      BY <1>7, <1>12, <2>3, <3>1, <3>2
    <3>5. x \in 0 .. nb - 1
      BY <1>23, <1>1, <3>1, <3>2
    <3> QED BY <2>3, <3>1, <3>2, <3>3, <3>4, <3>5
  <2> QED BY <2>1, <2>2, <2>3
<1>16. ASSUME NEW i \in 1 .. Chosen, NEW j \in 1 .. Chosen, idx[i] = idx[j] PROVE i = j
  <2>1. PICK x, y, g : x = idx[i] /\ y = idx[j] /\ g = InitBlocks + Pick
    OBVIOUS
  <2>2. /\ x \in Nat /\ x = y /\ g \in Nat /\ InitBlocks <= g /\ g + LocalBlocks < nb
        /\ i \in Nat /\ j \in Nat /\ i >= 1 /\ j >= 1
    BY <1>23, <1>1, <1>15, <1>16, <2>1
  <2>3. /\ i <= InitBlocks => x = i - 1
        /\ InitBlocks < i /\ i <= g =>
             /\ i - InitBlocks \in 1 .. Pick /\ x = top[i - InitBlocks]
             /\ x >= InitBlocks /\ x < nb - LocalBlocks
        /\ g < i => x = nb - LocalBlocks + (i - g) - 1
    BY <1>23, <1>15, <2>1
  <2>4. /\ j <= InitBlocks => y = j - 1
        /\ InitBlocks < j /\ j <= g =>
             /\ j - InitBlocks \in 1 .. Pick /\ y = top[j - InitBlocks]
             /\ y >= InitBlocks /\ y < nb - LocalBlocks
        /\ g < j => y = nb - LocalBlocks + (j - g) - 1
    BY <1>23, <1>15, <2>1
  <2>5. CASE i <= InitBlocks \/ j <= InitBlocks
    BY <1>23, <1>1, <2>2, <2>3, <2>4, <2>5
  <2>6. CASE InitBlocks < i /\ i <= g /\ InitBlocks < j /\ j <= g
    <3>1. i - InitBlocks = j - InitBlocks
      BY <1>4, <2>2, <2>3, <2>4, <2>6
    <3> QED BY <1>23, <1>1, <2>2, <3>1
  <2>7. CASE g < i \/ g < j
    BY <1>23, <1>1, <2>2, <2>3, <2>4, <2>7
  <2> QED BY <1>23, <1>1, <2>2, <2>5, <2>6, <2>7
<1>17. k # 0 => idx[Chosen + 1] = nb /\ D[1] = At(table, nb)
  <2>1. Chosen + 1 \in 1 .. Chosen + 1 /\ ~(Chosen + 1 <= InitBlocks) /\ ~(Chosen + 1 <= InitBlocks + Pick)
        /\ ~(Chosen + 1 <= Chosen)
    BY <1>23, <1>1
  <2> QED BY <1>8, <1>14, <2>1
<1>18. ASSUME NEW i \in 1 .. Len(t) PROVE t[i] = At(table, idx[i])
  <2>1. CASE i <= Chosen
    <3>1. i \in 1 .. Chosen
      BY <1>1, <1>13, <2>1
    <3> QED BY <1>13, <1>15, <2>1, <3>1
  <2>2. CASE ~(i <= Chosen)
    <3>1. k # 0 /\ i = Chosen + 1 /\ i - Chosen = 1
      BY <1>23, <1>1, <1>13, <2>2
    <3> QED BY <1>23, <1>13, <1>17, <2>2, <3>1
  <2> QED BY <2>1, <2>2
<1>19. Len(t) = IF k = 0 THEN Chosen ELSE Chosen + 1
  BY <1>23, <1>1, <1>13
<1>20. \A i \in 1 .. Chosen : idx[i] \in 0 .. nb - 1
  BY <1>23, <1>15
<1>21. Indexed(t, table, nb, k)
  BY <1>13, <1>16, <1>17, <1>18, <1>19, <1>20 DEF Indexed
<1> QED BY <1>21, <1>22

LEMMA SelectionKept ==
  ASSUME NEW past \in Nat, len \in Nat, past % BlockLen = len % BlockLen, NEW table,
         GoodTable(table, past \div BlockLen), NEW n, n = past + 1, Chosen < n \div BlockLen,
         NEW top \in Injection(1 .. Pick, Middle(n)), NEW t, t = Selection(table, n, top)
  PROVE  /\ KeptBlocks(t, len + 1)
         /\ n % BlockLen = 0 => Len(t) = Chosen
         /\ n % BlockLen # 0 => Len(t) = Chosen + 1 /\ t[Len(t)] = len \div BlockLen
<1>1. PICK e, q, nb, k : /\ e = past \div BlockLen /\ q = len \div BlockLen
                         /\ nb = n \div BlockLen /\ k = n % BlockLen
  OBVIOUS
<1>2. /\ At(table, e) = q /\ q \in Blocks /\ e \in Nat
      /\ \A i \in 0 .. e - 1 : Full(At(table, i), len)
      /\ \A i, j \in 0 .. e : At(table, i) = At(table, j) => i = j
  BY <1>1 DEF GoodTable
<1>3. /\ n \in Nat /\ nb \in Nat /\ k \in Nat /\ k = (len + 1) % BlockLen
      /\ k # 0 => nb = e
      /\ k = 0 => nb = e + 1 /\ (len + 1) \div BlockLen = q + 1
  <2>1. n \in Nat
    OBVIOUS
  <2>2. nb \in Nat /\ k \in Nat
    BY <1>1, <2>1, Place DEF Slots
  <2> QED BY <1>1, <2>1, <2>2, NewLength
<1>4. len + 1 \in Nat /\ \A i \in 0 .. e - 1 : Full(At(table, i), len + 1)
  BY <1>2, BlockLater
<1>5. Begun(q, len + 1)
  <2>1. PICK x, r : x = q * BlockLen /\ r = len % BlockLen
    OBVIOUS
  <2>2. len = x + r
    BY <1>1, <2>1, Place
  <2>3. x \in Nat
    BY <1>2, <2>1, Constants DEF Blocks
  <2>4. r \in Nat
    BY <2>1, Place DEF Slots
  <2>5. x < len + 1
    BY <2>2, <2>3, <2>4
  <2> QED BY <1>2, <2>1, <2>5 DEF Begun
<1>6. k = 0 => Full(q, len + 1)
  <2>1. ASSUME k = 0 PROVE q < (len + 1) \div BlockLen
    BY <1>2, <1>3, <2>1 DEF Blocks
  <2> QED BY <1>2, <1>4, <2>1, FullBefore
<1>7. \A i \in 0 .. nb - 1 : Full(At(table, i), len + 1)
  <2> SUFFICES ASSUME NEW i \in 0 .. nb - 1 PROVE Full(At(table, i), len + 1)
    OBVIOUS
  <2>1. i \in 0 .. e - 1 \/ (k = 0 /\ i = e)
    BY <1>2, <1>3
  <2> QED BY <1>2, <1>4, <1>6, <2>1
<1>8. \A i \in 0 .. nb - 1 : At(table, i) \in Blocks
  BY <1>7 DEF Full
<1>9. k # 0 => At(table, nb) = q
  BY <1>2, <1>3
<1>18. Indexed(t, table, nb, k)
  <2>1. /\ Chosen < n \div BlockLen
        /\ \A i \in 0 .. n \div BlockLen - 1 : At(table, i) \in Blocks
        /\ n % BlockLen # 0 => At(table, n \div BlockLen) \in Blocks
    BY <1>1, <1>2, <1>8, <1>9
  <2>2. Indexed(Selection(table, n, top), table, n \div BlockLen, n % BlockLen)
    BY <1>3, <2>1, SelectionEntries
  <2> QED BY <1>1, <2>2
<1>10. t \in Seq(Blocks) /\ Len(t) = IF k = 0 THEN Chosen ELSE Chosen + 1
  BY <1>18 DEF Indexed
<1>11. PICK idx : /\ \A i \in 1 .. Len(t) : t[i] = At(table, idx[i])
                  /\ \A i \in 1 .. Chosen : idx[i] \in 0 .. nb - 1
                  /\ k # 0 => idx[Chosen + 1] = nb
                  /\ \A i, j \in 1 .. Chosen : idx[i] = idx[j] => i = j
  BY <1>18 DEF Indexed
<1>12. ASSUME NEW i \in 1 .. Len(t)
       PROVE  (i \in 1 .. Chosen /\ idx[i] \in 0 .. nb - 1) \/ (i = Chosen + 1 /\ k # 0 /\ idx[i] = nb)
  <2>1. i \in 1 .. Chosen \/ (i = Chosen + 1 /\ k # 0)
    BY <1>10, ChosenOk
  <2> QED BY <1>11, <2>1
<1>13. ASSUME NEW i \in 1 .. Len(t) PROVE Begun(t[i], len + 1) /\ (i \in 1 .. Chosen => Full(t[i], len + 1))
  <2>1. CASE i \in 1 .. Chosen
    <3>1. Full(t[i], len + 1)
      BY <1>7, <1>11, <2>1
    <3>2. Begun(t[i], len + 1)
      <4>1. 0 \in Slots
        BY Constants DEF Slots
      <4>2. t[i] * BlockLen + 0 < len + 1 /\ t[i] \in Blocks
        BY <1>4, <3>1, <4>1, FullSlots DEF Full
      <4>3. t[i] * BlockLen \in Nat
        BY <4>2, Constants DEF Blocks
      <4> QED BY <4>2, <4>3 DEF Begun
    <3> QED BY <3>1, <3>2
  <2>2. CASE i \notin 1 .. Chosen
    BY <1>5, <1>9, <1>11, <1>12, <2>2
  <2> QED BY <2>1, <2>2
<1>14. ASSUME NEW i \in 1 .. Len(t), NEW j \in 1 .. Len(t), t[i] = t[j] PROVE i = j
  <2>1. idx[i] \in 0 .. e /\ idx[j] \in 0 .. e
    BY <1>2, <1>3, <1>12
  <2>2. idx[i] = idx[j]
    BY <1>2, <1>11, <1>14, <2>1
  <2>3. CASE i \in 1 .. Chosen /\ j \in 1 .. Chosen
    BY <1>11, <2>2, <2>3
  <2>4. CASE ~(i \in 1 .. Chosen /\ j \in 1 .. Chosen)
    <3>1. PICK x : x = idx[i]
      OBVIOUS
    <3>2. /\ (i \in 1 .. Chosen /\ x \in 0 .. nb - 1) \/ (i = Chosen + 1 /\ x = nb)
          /\ (j \in 1 .. Chosen /\ x \in 0 .. nb - 1) \/ (j = Chosen + 1 /\ x = nb)
      BY <1>12, <2>2, <3>1
    <3> QED BY <1>3, <2>4, <3>2
  <2> QED BY <2>3, <2>4
<1>15. ASSUME NEW i \in 1 .. Len(t), i < Len(t) \/ Len(t) = Chosen PROVE i \in 1 .. Chosen
  BY <1>10, <1>15, ChosenOk
<1>16. KeptBlocks(t, len + 1)
  <2>1. Chosen <= Len(t)
    BY <1>10, ChosenOk
  <2> QED BY <1>10, <1>13, <1>14, <1>15, <2>1 DEF KeptBlocks
<1>17. k # 0 => t[Chosen + 1] = q
  <2>1. k # 0 => Chosen + 1 \in 1 .. Len(t)
    BY <1>10, ChosenOk
  <2> QED BY <1>9, <1>11, <2>1
<1> QED BY <1>1, <1>10, <1>16, <1>17

LEMMA SelectionVisits ==
  ASSUME NEW n \in Nat, len \in Nat, NEW k, k = n % BlockLen, k = (len + 1) % BlockLen, NEW t,
         KeptBlocks(t, len + 1), k = 0 => Len(t) = Chosen, k # 0 => Len(t) = Chosen + 1,
         NEW v \in Nat, NEW m, m = MinOf(SelectedLength(n), v * BlockLen)
  PROVE  Visits(t, m, len + 1)
<1>1. BlockLen \in Nat \ {0} /\ Chosen \in Nat /\ k \in 0 .. BlockLen - 1 /\ Len(t) \in Nat
  <2>1. BlockLen \in Nat \ {0} /\ Chosen \in Nat /\ Len(t) \in Nat
    BY Constants, ChosenOk DEF KeptBlocks
  <2> QED BY <2>1, DivMod
<1>2. PICK c, w : c = Chosen * BlockLen /\ w = v * BlockLen
  OBVIOUS
<1>3. c \in Nat /\ w \in Nat
  BY <1>1, <1>2
<1>4. m \in Int /\ m <= k + c
  <2>1. m = IF k + c <= w THEN k + c ELSE w
    BY <1>2 DEF SelectedLength, MinOf
  <2> QED BY <1>1, <1>3, <2>1
<1>5. ASSUME NEW p \in 0 .. m - 1
      PROVE  /\ p \div BlockLen < Len(t)
             /\ p \div BlockLen + 1 < Len(t) \/ Len(t) = Chosen \/ p % BlockLen < k
  <2>1. PICK i, s : i = p \div BlockLen /\ s = p % BlockLen
    OBVIOUS
  <2>2. p \in Nat /\ p < k + c
    BY <1>1, <1>3, <1>4
  <2>3. i \in Nat /\ s \in 0 .. BlockLen - 1 /\ p = i * BlockLen + s
    BY <1>1, <2>1, <2>2, DivMod
  <2>4. i * BlockLen + s < Chosen * BlockLen + k
    BY <1>1, <1>2, <1>3, <2>2, <2>3
  <2>5. i < Chosen \/ (i = Chosen /\ s < k)
    BY <1>1, <2>3, <2>4, DivOrder
  <2>6. i < Len(t) /\ (i + 1 < Len(t) \/ Len(t) = Chosen \/ s < k)
    BY <1>1, <2>3, <2>5
  <2> QED BY <2>1, <2>6
<1>6. \A i \in 1 .. Len(t) : t[i] = t[i]
  OBVIOUS
<1>7. len + 1 \in Nat
  OBVIOUS
<1> QED BY <1>4, <1>5, <1>6, <1>7, KeptVisits

-----------------------------------------------------------------------------
(* What a retrieval leaves: slots visited once, a history worth keeping,   *)
(* and one that ends with the block that fills if the one before did.      *)
Ends(h, n) == h # <<>> /\ n % BlockLen # 0 => h[Len(h)] = n \div BlockLen

GoodOutcome(o) ==
  /\ Visits(o.table, MinOf(o.length, o.visited * BlockLen), len + 1)
  /\ o.history # <<>> => KeptBlocks(o.history, len + 1)

LEMMA WholeOutcome ==
  ASSUME NEW past \in Nat, len \in Nat, past % BlockLen = len % BlockLen, NEW table,
         GoodTable(table, past \div BlockLen), NEW v \in Nat,
         NEW o, o.table = table, o.visited = v, o.length = past + 1, o.history = <<>>
  PROVE  GoodOutcome(o)
<1>1. PICK w : w = o.visited * BlockLen
  OBVIOUS
<1>2. w \in Nat
  BY <1>1, Constants
<1>3. MinOf(o.length, w) \in Int /\ MinOf(o.length, w) <= past + 1
  BY <1>2 DEF MinOf
<1>4. Visits(table, MinOf(o.length, w), len + 1)
  BY <1>3, WholeVisits
<1> QED BY <1>1, <1>4 DEF GoodOutcome

LEMMA ReuseOutcome ==
  ASSUME NEW past \in Nat, len \in Nat, past % BlockLen = len % BlockLen, NEW table,
         GoodTable(table, past \div BlockLen), NEW h, h # <<>>, KeptBlocks(h, len),
         NEW o, o = Reuse(h, table, past + 1)
  PROVE  GoodOutcome(o) /\ (Ends(h, len) => Ends(o.history, len + 1))
<1>1. PICK t : t = Extended(h, table, past + 1)
  OBVIOUS
<1>2. o.history = t /\ Visits(o.table, MinOf(o.length, o.visited * BlockLen), len + 1)
  BY <1>1, ReuseVisits
<1>3. /\ KeptBlocks(t, len + 1)
      /\ (len + 1) % BlockLen = 1 => t[Len(t)] = len \div BlockLen
      /\ (len + 1) % BlockLen # 1 => t = h
  BY <1>1, ExtendedKept
<1>4. ASSUME Ends(h, len), (len + 1) % BlockLen # 0 PROVE t[Len(t)] = (len + 1) \div BlockLen
  <2>1. (len + 1) \div BlockLen = len \div BlockLen /\ (len + 1) % BlockLen = (len % BlockLen) + 1
    BY <1>4, NewLength
  <2>2. CASE (len + 1) % BlockLen = 1
    BY <1>3, <2>1, <2>2
  <2>3. CASE (len + 1) % BlockLen # 1
    <3>1. len % BlockLen # 0
      BY <2>1, <2>3
    <3> QED BY <1>3, <1>4, <2>1, <2>3, <3>1 DEF Ends
  <2> QED BY <2>2, <2>3
<1> QED BY <1>2, <1>3, <1>4 DEF GoodOutcome, Ends

LEMMA SelectionOutcome ==
  ASSUME NEW past \in Nat, len \in Nat, past % BlockLen = len % BlockLen, NEW table,
         GoodTable(table, past \div BlockLen), NEW o \in Selections(table, past + 1)
  PROVE  GoodOutcome(o) /\ Ends(o.history, len + 1)
<1>1. PICK n, v : n = past + 1 /\ v = MinOf(BlockNum, Chosen + 1)
  OBVIOUS
<1>2. n \in Nat /\ v \in Nat
  BY <1>1, Constants, ChosenOk DEF MinOf
<1>3. CASE n \div BlockLen <= Chosen
  <2>1. o = Outcome("retrieve", table, v, n, <<>>)
    BY <1>1, <1>3 DEF Selections
  <2>2. o.table = table /\ o.visited = v /\ o.length = past + 1 /\ o.history = <<>>
    BY <1>1, <2>1 DEF Outcome
  <2>3. GoodOutcome(o)
    BY <1>2, <2>2, WholeOutcome
  <2> QED BY <2>2, <2>3 DEF Ends
<1>4. CASE ~(n \div BlockLen <= Chosen)
  <2>1. PICK top \in Injection(1 .. Pick, Middle(n)) :
          o = Outcome("retrieve", Selection(table, n, top), v, SelectedLength(n), Selection(table, n, top))
    BY <1>1, <1>4 DEF Selections
  <2>2. PICK t, m : t = Selection(table, n, top) /\ m = MinOf(SelectedLength(n), v * BlockLen)
    OBVIOUS
  <2>3. o.table = t /\ o.visited = v /\ o.length = SelectedLength(n) /\ o.history = t
    BY <2>1, <2>2 DEF Outcome
  <2>4. Chosen < n \div BlockLen
    BY <1>2, <1>4, ChosenOk, Place
  <2>5. /\ KeptBlocks(t, len + 1)
        /\ n % BlockLen = 0 => Len(t) = Chosen
        /\ n % BlockLen # 0 => Len(t) = Chosen + 1 /\ t[Len(t)] = len \div BlockLen
    BY <1>1, <2>2, <2>4, SelectionKept
  <2>6. PICK k : k = n % BlockLen
    OBVIOUS
  <2>7. k = (len + 1) % BlockLen /\ (k # 0 => (len + 1) \div BlockLen = len \div BlockLen)
    BY <1>1, <2>6, NewLength
  <2>8. Visits(t, m, len + 1)
    BY <1>2, <2>2, <2>5, <2>6, <2>7, SelectionVisits
  <2> QED BY <2>2, <2>3, <2>5, <2>6, <2>7, <2>8 DEF GoodOutcome, Ends
<1> QED BY <1>3, <1>4

(* layer_step 1: every layer has its own history. *)
LEMMA OwnGroup ==
  ASSUME CallInv, conf.layerStep = 1
  PROVE  /\ Offset = 0 /\ \A l \in Layers : Group(l) = l /\ l % conf.layerStep = Offset
<1>1. \A p \in Nat : p \div 1 = p /\ p % 1 = 0
  <2> SUFFICES ASSUME NEW p \in Nat PROVE p \div 1 = p /\ p % 1 = 0
    OBVIOUS
  <2>1. p = p * 1 + 0 /\ 1 \in Nat \ {0} /\ 0 \in 0 .. 1 - 1
    OBVIOUS
  <2>2. (p * 1 + 0) \div 1 = p /\ (p * 1 + 0) % 1 = 0
    BY <2>1, DivUnique
  <2> QED BY <2>1, <2>2
<1>2. conf.dense \in Nat
  BY CallTypes, ConfigOk
<1>3. Offset = 0
  BY <1>1, <1>2 DEF Offset
<1>4. ASSUME NEW l \in Layers PROVE Group(l) = l /\ l % conf.layerStep = Offset
  <2>1. l \in Nat /\ l - 0 = l
    BY DEF Layers
  <2> QED BY <1>1, <1>3, <2>1 DEF Group
<1> QED BY <1>3, <1>4

HistoryInv ==
  /\ DOMAIN history = Layers
  /\ conf.layerStep = 1 =>
       \A l \in Layers : Roomy(l) /\ history[l] # <<>> => KeptBlocks(history[l], KnownTo(l))

LEMMA RetrievedOutcome ==
  ASSUME CacheInv, HistoryInv, q_len = 1, played < layer, Roomy(played), conf.layerStep = 1,
         NEW o \in Retrieved(played, TableFor(played), PastFor(played) + 1)
  PROVE  GoodOutcome(o) /\ (Ends(history[played], len) => Ends(o.history, len + 1))
<1>1. played \in Layers /\ len \in Nat
  BY CallTypes DEF CacheInv, CallInv, Layers
<1>2. PICK past, table : past = PastFor(played) /\ table = TableFor(played)
  OBVIOUS
<1>3. past \in Nat /\ past % BlockLen = len % BlockLen /\ GoodTable(table, past \div BlockLen)
  BY <1>2, TableGood DEF CacheInv
<1>4. ASSUME NEW how, o = Whole(how, table, past + 1)
      PROVE  GoodOutcome(o) /\ Ends(o.history, len + 1)
  <2>1. o.table = table /\ o.visited = BlockNum /\ o.length = past + 1 /\ o.history = <<>>
    BY <1>4 DEF Whole, Outcome
  <2>2. BlockNum \in Nat
    BY Constants
  <2>3. GoodOutcome(o)
    BY <1>1, <1>3, <2>1, <2>2, WholeOutcome
  <2> QED BY <2>1, <2>3 DEF Ends
<1>5. CASE ~Picks(played)
  BY <1>2, <1>4, <1>5 DEF Retrieved
<1>6. ASSUME Picks(played), o = Reuse(history[Group(played)], table, past + 1)
      PROVE  GoodOutcome(o) /\ (Ends(history[played], len) => Ends(o.history, len + 1))
  <2>1. PICK h : h = history[played]
    OBVIOUS
  <2>2. o = Reuse(h, table, past + 1)
    BY <1>1, <1>6, <2>1, OwnGroup DEF CacheInv
  <2>3. CASE h = <<>>
    <3>1. o = Whole("reuse", table, past + 1)
      BY <2>2, <2>3 DEF Reuse
    <3> QED BY <1>4, <3>1
  <2>4. CASE h # <<>>
    <3>1. KnownTo(played) = len
      BY <1>1 DEF KnownTo, Layers
    <3>2. KeptBlocks(h, len)
      BY <1>1, <2>1, <2>4, <3>1 DEF HistoryInv
    <3> QED BY <1>1, <1>3, <2>1, <2>2, <2>4, <3>2, ReuseOutcome
  <2> QED BY <2>3, <2>4
<1>7. ASSUME Picks(played), o \in Selections(table, past + 1)
      PROVE  GoodOutcome(o) /\ Ends(o.history, len + 1)
  BY <1>1, <1>3, <1>7, SelectionOutcome
<1> QED BY <1>2, <1>5, <1>6, <1>7 DEF Retrieved

-----------------------------------------------------------------------------
(* The histories, and that generation sees no token twice *)

LEMMA PlayedOutcome ==
  ASSUME CacheInv, HistoryInv, PlayLayer
  PROVE  \E o \in Retrieved(played, TableFor(played), PastFor(played) + 1) :
           /\ history' = [history EXCEPT ![Group(played)] = o.history]
           /\ att' = [how |-> o.how, layer |-> played, upto |-> len + 1,
                      tokens |-> Attended(played, o, store')]
BY DEF PlayLayer

LEMMA PlayKnown ==
  ASSUME CacheInv, PlayLayer
  PROVE  /\ played \in Layers /\ len \in Nat /\ q_len = 1 /\ played < layer /\ conf' = conf
         /\ \A l \in Layers : KnownTo(l)' = (IF l = played THEN len + 1 ELSE KnownTo(l))
         /\ KnownTo(played) = len
<1>1. /\ q_len = 1 /\ played < layer /\ played' = played + 1 /\ len' = len /\ q_len' = q_len
      /\ conf' = conf
  BY DEF PlayLayer
<1>2. played \in Layers /\ len \in Nat
  BY <1>1, CallTypes DEF CacheInv, CallInv, Layers
<1> QED BY <1>1, <1>2 DEF KnownTo, Layers

LEMMA KnownGrows ==
  ASSUME CallInv, PrefillLayer, NEW l \in Layers
  PROVE  KnownTo(l) \in Nat /\ KnownTo(l)' \in Nat /\ KnownTo(l) <= KnownTo(l)'
<1>1. /\ played' = played + 1 /\ len' = len /\ q_len' = q_len
  BY DEF PrefillLayer
<1> QED BY <1>1, CallTypes DEF KnownTo, Layers

LEMMA InitHistory == ASSUME Init PROVE HistoryInv
<1>1. history = [g \in Layers |-> <<>>]
  BY DEF Init
<1> QED BY <1>1 DEF HistoryInv

LEMMA StepHistory == ASSUME CacheInv, HistoryInv, [Next]_vars PROVE HistoryInv'
<1>1. CASE UNCHANGED vars
  BY <1>1 DEF vars, prefillVars, HistoryInv, Roomy, Growing, Overtaken, InRoom, KnownTo, Evicting, Sparse
<1>2. CASE PrefillCall \/ DecodeCall \/ EndChunk \/ IssueLayer \/ IssueRaises \/ PrefillLayer
  <2>1. history' = history /\ conf' = conf
    BY <1>2 DEF PrefillCall, DecodeCall, Call, EndChunk, IssueLayer, IssueRaises, PrefillLayer
  <2>2. ASSUME NEW l \in Layers, NEW h, KeptBlocks(h, KnownTo(l)) PROVE KeptBlocks(h, KnownTo(l)')
    <3>1. CASE PrefillLayer
      BY <2>2, <3>1, KnownGrows, KeptLater DEF CacheInv
    <3>2. CASE ~PrefillLayer
      BY <1>2, <2>2, <3>2, SameKnown DEF CacheInv
    <3> QED BY <3>1, <3>2
  <2>3. ASSUME NEW l \in Layers, Roomy(l)' PROVE Roomy(l)
    BY <1>2, <2>3, RoomyBefore DEF CacheInv, Next
  <2>4. ASSUME conf.layerStep = 1, NEW l \in Layers, Roomy(l)', history[l] # <<>>
        PROVE  KeptBlocks(history[l], KnownTo(l)')
    BY <2>2, <2>3, <2>4 DEF HistoryInv
  <2>5. ASSUME NEW l \in Layers, KeptBlocks(history[l], KnownTo(l)') PROVE KeptBlocks(history[l], KnownTo(l))'
    BY <2>1, <2>5 DEF KeptBlocks, Begun, Full
  <2> QED BY <2>1, <2>4, <2>5 DEF HistoryInv
<1>3. CASE PlayLayer
  <2>1. PICK o \in Retrieved(played, TableFor(played), PastFor(played) + 1) :
          history' = [history EXCEPT ![Group(played)] = o.history]
    BY <1>3, PlayedOutcome
  <2>2. /\ played \in Layers /\ len \in Nat /\ q_len = 1 /\ played < layer /\ conf' = conf
        /\ \A l \in Layers : KnownTo(l)' = (IF l = played THEN len + 1 ELSE KnownTo(l))
    BY <1>3, PlayKnown
  <2>3. DOMAIN history' = Layers
    BY <2>1 DEF HistoryInv
  <2>4. ASSUME conf.layerStep = 1, NEW l \in Layers, Roomy(l)', history'[l] # <<>>
        PROVE  KeptBlocks(history'[l], KnownTo(l)')
    <3>1. Roomy(l)
      BY <1>3, <2>4, RoomyBefore DEF CacheInv, Next
    <3>2. history'[l] = IF l = played THEN o.history ELSE history[l]
      BY <2>1, <2>2, <2>4, OwnGroup DEF HistoryInv, CacheInv
    <3>3. CASE l = played
      <4>1. GoodOutcome(o)
        BY <2>2, <2>4, <3>1, <3>3, RetrievedOutcome
      <4> QED BY <2>2, <2>4, <3>2, <3>3, <4>1 DEF GoodOutcome
    <3>4. CASE l # played
      BY <2>2, <2>4, <3>1, <3>2, <3>4 DEF HistoryInv
    <3> QED BY <3>3, <3>4
  <2>5. ASSUME NEW l \in Layers, KeptBlocks(history'[l], KnownTo(l)') PROVE KeptBlocks(history[l], KnownTo(l))'
    BY <2>5 DEF KeptBlocks, Begun, Full
  <2> QED BY <2>2, <2>3, <2>4, <2>5 DEF HistoryInv
<1> QED BY <1>1, <1>2, <1>3 DEF Next

(* The slots the attention of a generated token visits *)
LEMMA PlaySlots ==
  ASSUME CacheInv, PlayLayer, Roomy(played), NEW b \in Blocks, NEW s \in Slots, b * BlockLen + s < len + 1
  PROVE  store'[played][b][s] = Token(played, b * BlockLen + s)
<1>1. played \in Layers /\ len \in Nat /\ \A l \in Layers : l = played => KnownTo(l)' = len + 1
  BY PlayKnown
<1>2. PICK l \in Layers : l = played
  BY <1>1
<1>3. InPlace(l)'
  BY <1>2, PlayStore DEF CacheInv
<1>4. PICK p, k : p = b * BlockLen + s /\ k = KnownTo(l)'
  OBVIOUS
<1>5. b \in Nat /\ s \in Nat /\ b * BlockLen \in Nat
  <2>1. b \in Nat /\ s \in Nat
    BY Constants DEF Blocks, Slots
  <2> QED BY <2>1, Constants
<1>6. p \in Nat /\ p \in 0 .. k - 1
  BY <1>1, <1>2, <1>4, <1>5
<1>7. p \div BlockLen = b /\ p % BlockLen = s
  BY <1>4, <1>5, SamePlace
<1>8. store'[l][p \div BlockLen][p % BlockLen] = Token(l, p)
  BY <1>3, <1>4, <1>6 DEF InPlace
<1> QED BY <1>2, <1>4, <1>7, <1>8

LEMMA PlayOnce ==
  ASSUME CacheInv, HistoryInv, PlayLayer, Roomy(played), conf.layerStep = 1
  PROVE  Once(att'.tokens)
<1>1. PICK o \in Retrieved(played, TableFor(played), PastFor(played) + 1) :
        att' = [how |-> o.how, layer |-> played, upto |-> len + 1,
                tokens |-> Attended(played, o, store')]
  BY PlayedOutcome
<1>2. GoodOutcome(o)
  BY PlayKnown, RetrievedOutcome
<1>3. PICK m, st, t : m = MinOf(o.length, o.visited * BlockLen) /\ st = store' /\ t = o.table
  OBVIOUS
<1>4. att'.tokens = View(st, played, t, m)
  BY <1>1, <1>3 DEF Attended, View
<1>5. Holds(st, played, len + 1)
  BY <1>3, PlaySlots DEF Holds
<1>6. Visits(t, m, len + 1)
  BY <1>2, <1>3 DEF GoodOutcome
<1> QED BY <1>4, <1>5, <1>6, VisitedOnce

LEMMA PrefillOnce ==
  ASSUME CacheInv, PrefillLayer
  PROVE  Once(att'.tokens)
<1>1. PICK f : f = att'.tokens
  OBVIOUS
<1>2. f = [p \in 0 .. len + q_len - 1 |-> Swapped(layer)[p \div BlockLen][p % BlockLen]]
  BY <1>1 DEF PrefillLayer, SwapInAndOut
<1>3. \A p \in DOMAIN f : f[p] = <<layer, p>>
  BY <1>2, PrefillStore DEF CacheInv, Token
<1>4. \A p, r : <<layer, p>> = <<layer, r>> => p = r
  OBVIOUS
<1>5. \A p : <<layer, p>> # <<>>
  OBVIOUS
<1> QED BY <1>1, <1>3, <1>4, <1>5 DEF Once, None

(* When the conversation leaves what the last attention saw as it is *)
LEMMA SameAttention ==
  ASSUME PrefillCall \/ DecodeCall \/ EndChunk \/ IssueLayer \/ IssueRaises \/ UNCHANGED vars
  PROVE  att' = att /\ conf' = conf /\ prefill_block_num' = prefill_block_num
BY DEF PrefillCall, DecodeCall, Call, EndChunk, IssueLayer, IssueRaises, vars, prefillVars

LEMMA RoomyPlayed ==
  ASSUME CacheInv, PlayLayer, NEW l, l = att'.layer, NEW n, n = att'.upto, InRoom(l, n)', ~Overtaken(l)'
  PROVE  Roomy(played)
<1>1. PICK o : att' = [how |-> o.how, layer |-> played, upto |-> len + 1,
                       tokens |-> Attended(played, o, store')]
  BY DEF PlayLayer
<1>2. conf' = conf /\ prefill_block_num' = prefill_block_num
  BY DEF PlayLayer, prefillVars
<1>3. l = played /\ n = len + 1
  BY <1>1
<1>4. InRoom(l, len + 1) /\ ~Overtaken(l)
  BY <1>2, <1>3 DEF InRoom, Overtaken, Evicting, Sparse
<1> QED BY <1>3, <1>4 DEF Roomy

LEMMA StepOnce == ASSUME CacheInv, HistoryInv, EachTokenOnce, [Next]_vars PROVE EachTokenOnce'
<1>1. ASSUME Once(att'.tokens) PROVE EachTokenOnce'
  BY <1>1 DEF EachTokenOnce, Seen, Once
<1>2. CASE PrefillLayer
  BY <1>1, <1>2, PrefillOnce
<1>3. CASE PlayLayer
  <2> SUFFICES ASSUME conf'.layerStep = 1, InRoom(att.layer, att.upto)', ~Overtaken(att.layer)'
               PROVE  EachTokenOnce'
    BY DEF EachTokenOnce
  <2>1. PICK l, n : l = att'.layer /\ n = att'.upto
    OBVIOUS
  <2>2. InRoom(l, n)' /\ ~Overtaken(l)'
    BY <2>1 DEF InRoom, Overtaken, Evicting, Sparse
  <2>3. Roomy(played) /\ conf.layerStep = 1
    BY <1>3, <2>1, <2>2, RoomyPlayed, PlayKnown
  <2> QED BY <1>1, <1>3, <2>3, PlayOnce
<1>4. CASE PrefillCall \/ DecodeCall \/ EndChunk \/ IssueLayer \/ IssueRaises \/ UNCHANGED vars
  <2>1. att' = att /\ conf' = conf /\ prefill_block_num' = prefill_block_num
    BY <1>4, SameAttention
  <2> QED BY <2>1 DEF EachTokenOnce, Seen, InRoom, Overtaken, Evicting, Sparse
<1> QED BY <1>2, <1>3, <1>4 DEF Next

(* Generation never sees a token twice nor a slot without a token of its   *)
(* layer, with every table, every new selection of topk_ and every one     *)
(* that is used again and extended.                                        *)
THEOREM SeenOnce == Spec => []EachTokenOnce
<1>1. Init => EachTokenOnce
  <2>1. Init => att.tokens = <<>>
    BY DEF Init
  <2>2. DOMAIN <<>> = {}
    OBVIOUS
  <2> QED BY <2>1, <2>2 DEF EachTokenOnce, Seen
<1>2. CacheInv /\ HistoryInv /\ EachTokenOnce /\ [Next]_vars => CacheInv' /\ HistoryInv' /\ EachTokenOnce'
  BY StepCache, StepHistory, StepOnce
<1> QED BY <1>1, <1>2, InitCache, InitHistory, PTL DEF Spec

-----------------------------------------------------------------------------
(* The newest token in a selection used again *)

(* SHARED: a history ends with the block that fills.  It exists only when  *)
(* the prompt is over, since its pieces do not end in single tokens.       *)
CurrentInv ==
  CallSize % ChunkSize # 1 /\ conf.layerStep = 1 =>
    /\ Growing => \A l \in Layers : history[l] = <<>>
    /\ ~conf.separate => \A l \in Layers : Roomy(l) => Ends(history[l], KnownTo(l))

LEMMA InitCurrent == ASSUME Init PROVE CurrentInv
<1>1. \A l \in Layers : history[l] = <<>>
  BY DEF Init
<1> QED BY <1>1 DEF CurrentInv, Ends

LEMMA NotGrowing ==
  ASSUME CacheInv, q_len = 1, CallSize % ChunkSize # 1
  PROVE  ~Growing
<1> SUFFICES ASSUME Growing PROVE FALSE
  OBVIOUS
<1>1. callEnd < conf.prompt /\ callEnd = len + 1
  BY CallTypes DEF Growing, CacheInv
<1>2. PICK k \in Nat : CallSize = k * ChunkSize + (callEnd - len)
  BY <1>1, CallTypes DEF CallInv, CacheInv
<1>3. callEnd - len = 1 /\ 1 \in 0 .. ChunkSize - 1 /\ ChunkSize \in Nat \ {0}
  BY <1>1, CallTypes DEF CacheInv
<1>4. CallSize = k * ChunkSize + 1
  BY <1>2, <1>3
<1> QED BY <1>3, <1>4, DivUnique

LEMMA StepCurrent ==
  ASSUME CacheInv, HistoryInv, CurrentInv, [Next]_vars
  PROVE  CurrentInv'
<1>1. CASE UNCHANGED vars
  BY <1>1 DEF vars, prefillVars, CurrentInv, Ends, Roomy, Growing, Overtaken, InRoom, KnownTo, Evicting, Sparse
<1>2. CASE PrefillLayer
  <2>1. history' = history /\ conf' = conf /\ q_len > 1
    BY <1>2 DEF PrefillLayer
  <2>2. Growing
    BY <2>1 DEF Growing
  <2> QED BY <2>1, <2>2 DEF CurrentInv, Ends
<1>3. CASE PrefillCall \/ DecodeCall \/ EndChunk \/ IssueLayer \/ IssueRaises
  <2>1. history' = history /\ conf' = conf
    BY <1>3 DEF PrefillCall, DecodeCall, Call, EndChunk, IssueLayer, IssueRaises
  <2>2. Growing' => Growing
    BY <1>3, GrowingBefore DEF CacheInv, Next
  <2>3. \A l \in Layers : KnownTo(l)' = KnownTo(l) /\ (Roomy(l)' => Roomy(l))
    BY <1>3, SameKnown, RoomyBefore DEF CacheInv, Next
  <2> QED BY <2>1, <2>2, <2>3 DEF CurrentInv, Ends
<1>4. CASE PlayLayer
  <2> SUFFICES ASSUME CallSize % ChunkSize # 1, conf.layerStep = 1
               PROVE  /\ ~Growing'
                      /\ ~conf.separate => \A l \in Layers : Roomy(l)' => Ends(history'[l], KnownTo(l)')
    <3>1. conf' = conf
      BY <1>4, PlayKnown
    <3>2. PICK h : h = history'
      OBVIOUS
    <3>3. ASSUME NEW l \in Layers, Ends(h[l], KnownTo(l)') PROVE Ends(history[l], KnownTo(l))'
      BY <3>2, <3>3 DEF Ends
    <3> QED BY <3>1, <3>2, <3>3 DEF CurrentInv
  <2>1. PICK o \in Retrieved(played, TableFor(played), PastFor(played) + 1) :
          history' = [history EXCEPT ![Group(played)] = o.history]
    BY <1>4, PlayedOutcome
  <2>2. /\ played \in Layers /\ len \in Nat /\ q_len = 1 /\ played < layer
        /\ \A l \in Layers : KnownTo(l)' = (IF l = played THEN len + 1 ELSE KnownTo(l))
        /\ KnownTo(played) = len
    BY <1>4, PlayKnown
  <2>3. ~Growing'
    BY <1>4, <2>2, NotGrowing, GrowingBefore DEF CacheInv, Next
  <2>4. ASSUME ~conf.separate, NEW l \in Layers, Roomy(l)' PROVE Ends(history'[l], KnownTo(l)')
    <3>1. Roomy(l)
      BY <1>4, <2>4, RoomyBefore DEF CacheInv, Next
    <3>2. history'[l] = IF l = played THEN o.history ELSE history[l]
      BY <2>1, <2>2, OwnGroup DEF HistoryInv, CacheInv
    <3>3. Ends(history[l], KnownTo(l))
      BY <2>4, <3>1 DEF CurrentInv
    <3>4. CASE l = played
      <4>1. Ends(history[played], len)
        BY <2>2, <3>3, <3>4
      <4>2. Ends(o.history, len + 1)
        BY <2>2, <3>1, <3>4, <4>1, RetrievedOutcome
      <4> QED BY <2>2, <3>2, <3>4, <4>2
    <3>5. CASE l # played
      BY <2>2, <3>2, <3>3, <3>5
    <3> QED BY <3>4, <3>5
  <2> QED BY <2>3, <2>4
<1> QED BY <1>1, <1>2, <1>3, <1>4 DEF Next

(* A position of the table where the attention finds the newest token *)
Finds(t, m) ==
  \E p \in 0 .. m - 1 : At(t, p \div BlockLen) = len \div BlockLen /\ p % BlockLen = len % BlockLen

LEMMA WholeFinds ==
  ASSUME NEW past \in Nat, len \in Nat, past % BlockLen = len % BlockLen, NEW table,
         GoodTable(table, past \div BlockLen), NEW m, m = MinOf(past + 1, BlockNum * BlockLen)
  PROVE  Finds(table, m)
<1>1. At(table, past \div BlockLen) = len \div BlockLen /\ past \div BlockLen \in Nat /\ past \div BlockLen < BlockNum
  BY DEF GoodTable
<1>2. past < BlockNum * BlockLen
  <2>1. PICK e, r, n : e = past \div BlockLen /\ r = past % BlockLen /\ n = BlockNum
    OBVIOUS
  <2>2. past = e * BlockLen + r /\ r \in 0 .. BlockLen - 1 /\ BlockLen \in Nat \ {0} /\ 0 \in 0 .. BlockLen - 1
    <3>1. r \in Slots /\ past = (past \div BlockLen) * BlockLen + (past % BlockLen)
      BY <2>1, Place
    <3> QED BY <2>1, <3>1, Constants DEF Slots
  <2>3. e \in Nat /\ n \in Nat /\ e < n
    BY <1>1, <2>1, Constants
  <2>4. ~(n * BlockLen + 0 < e * BlockLen + r)
    BY <2>2, <2>3, DivOrder
  <2>5. n * BlockLen \in Nat /\ e * BlockLen \in Nat
    BY <2>2, <2>3
  <2>6. n * BlockLen # e * BlockLen + r
    <3>1. ASSUME n * BlockLen + 0 = e * BlockLen + r PROVE FALSE
      <4>1. (n * BlockLen + 0) \div BlockLen = n /\ (e * BlockLen + r) \div BlockLen = e
        BY <2>2, <2>3, DivUnique
      <4> QED BY <2>3, <3>1, <4>1
    <3> QED BY <2>5, <3>1
  <2>7. e * BlockLen + r < n * BlockLen
    BY <2>2, <2>4, <2>5, <2>6
  <2> QED BY <2>1, <2>2, <2>7
<1>3. past \in 0 .. m - 1
  BY <1>2, Constants DEF MinOf
<1> QED BY <1>1, <1>3 DEF Finds

LEMMA ReuseFinds ==
  ASSUME NEW past \in Nat, len \in Nat, past % BlockLen = len % BlockLen, NEW table,
         GoodTable(table, past \div BlockLen), NEW h, h # <<>>, KeptBlocks(h, len), ~conf.separate,
         Ends(h, len), (len + 1) % BlockLen \notin {0, 1},
         NEW o, o = Reuse(h, table, past + 1)
  PROVE  Finds(o.table, MinOf(o.length, o.visited * BlockLen))
<1>1. PICK n, k, r, g : /\ n = past + 1 /\ k = (len + 1) % BlockLen /\ r = len % BlockLen /\ g = Len(h) - 1
  OBVIOUS
<1>2. n % BlockLen = k /\ k = r + 1 /\ k # 1 /\ k # 0
  BY <1>1, NewLength
<1>3. /\ BlockLen \in Nat \ {0} /\ r \in 0 .. BlockLen - 1 /\ r \in Slots
      /\ h \in Seq(Blocks) /\ g \in Nat /\ Len(h) = g + 1
  <2>1. BlockLen \in Nat \ {0} /\ r \in Slots
    BY <1>1, Constants, Place
  <2>2. h \in Seq(Blocks) /\ Len(h) \in Nat /\ Chosen <= Len(h)
    BY DEF KeptBlocks
  <2> QED BY <1>1, <2>1, <2>2, ChosenOk DEF Slots
<1>4. o.table = h /\ o.visited = g + 1 /\ o.length = k + (g + 1) * BlockLen - BlockLen
  <2>1. Extended(h, table, n) = h
    BY <1>2 DEF Extended
  <2>2. o = Outcome("reuse", h, Len(h), ReusedLengthLayer(h, n), h)
    BY <1>1, <2>1 DEF Reuse
  <2> QED BY <1>2, <1>3, <2>2 DEF Outcome, ReusedLengthLayer
<1>5. PICK w, p : w = g * BlockLen /\ p = g * BlockLen + r
  OBVIOUS
<1>6. w \in Nat /\ (g + 1) * BlockLen = w + BlockLen /\ p = w + r
  BY <1>3, <1>5
<1>7. p \div BlockLen = g /\ p % BlockLen = r
  BY <1>3, <1>5, SamePlace
<1>8. p \in 0 .. MinOf(o.length, o.visited * BlockLen) - 1
  <2>1. PICK a, b : a = o.length /\ b = o.visited * BlockLen
    OBVIOUS
  <2>2. a = k + w /\ b = w + BlockLen
    <3>1. a = k + (w + BlockLen) - BlockLen
      BY <1>4, <1>6, <2>1
    <3> QED BY <1>2, <1>3, <1>4, <1>6, <2>1, <3>1
  <2>3. p \in Nat /\ p < a /\ p < b /\ a \in Nat /\ b \in Nat
    BY <1>2, <1>3, <1>6, <2>2
  <2> QED BY <2>1, <2>3 DEF MinOf
<1>9. At(h, g) = len \div BlockLen
  <2>1. r # 0
    BY <1>2, <1>3
  <2> QED BY <1>1, <1>3, <2>1 DEF Ends, At
<1> QED BY <1>1, <1>4, <1>7, <1>8, <1>9 DEF Finds

(* ReuseGap of the state after the step *)
LEMMA PlayGap ==
  ASSUME CacheInv, HistoryInv, CurrentInv, PlayLayer, Roomy(played),
         conf.layerStep = 1, ~conf.separate, CallSize % ChunkSize # 1,
         att'.how = "reuse", (len + 1) % BlockLen \notin {0, 1}
  PROVE  \E q \in DOMAIN att'.tokens : att'.tokens[q] = Token(played, len)
<1>1. PICK o \in Retrieved(played, TableFor(played), PastFor(played) + 1) :
        att' = [how |-> o.how, layer |-> played, upto |-> len + 1,
                tokens |-> Attended(played, o, store')]
  BY PlayedOutcome
<1>2. /\ played \in Layers /\ len \in Nat /\ q_len = 1 /\ played < layer /\ KnownTo(played) = len
  BY PlayKnown
<1>3. PICK past, table, h : past = PastFor(played) /\ table = TableFor(played) /\ h = history[played]
  OBVIOUS
<1>4. past \in Nat /\ past % BlockLen = len % BlockLen /\ GoodTable(table, past \div BlockLen)
  BY <1>2, <1>3, TableGood DEF CacheInv
<1>5. o = Reuse(h, table, past + 1)
  <2>1. o.how = "reuse"
    BY <1>1
  <2>2. \A x \in Selections(table, past + 1) : x.how = "retrieve"
    BY DEF Selections, Outcome
  <2>3. Whole("dense", table, past + 1).how = "dense"
    BY DEF Whole, Outcome
  <2>4. o = Reuse(history[Group(played)], table, past + 1)
    BY <1>3, <2>1, <2>2, <2>3 DEF Retrieved
  <2> QED BY <1>2, <1>3, <2>4, OwnGroup DEF CacheInv
<1>6. PICK m, t : m = MinOf(o.length, o.visited * BlockLen) /\ t = o.table
  OBVIOUS
<1>7. Finds(t, m)
  <2>1. CASE h = <<>>
    <3>1. o.table = table /\ o.visited = BlockNum /\ o.length = past + 1
      BY <1>5, <2>1 DEF Reuse, Whole, Outcome
    <3>2. m = MinOf(past + 1, BlockNum * BlockLen)
      BY <1>6, <3>1
    <3> QED BY <1>2, <1>4, <1>6, <3>1, <3>2, WholeFinds
  <2>2. CASE h # <<>>
    <3>1. KeptBlocks(h, len)
      BY <1>2, <1>3, <2>2 DEF HistoryInv
    <3>2. Ends(h, len)
      BY <1>2, <1>3 DEF CurrentInv
    <3> QED BY <1>2, <1>4, <1>5, <1>6, <2>2, <3>1, <3>2, ReuseFinds
  <2> QED BY <2>1, <2>2
<1>8. PICK q \in 0 .. m - 1 : At(t, q \div BlockLen) = len \div BlockLen /\ q % BlockLen = len % BlockLen
  BY <1>7 DEF Finds
<1>9. att'.tokens = [p \in 0 .. m - 1 |-> store'[played][At(t, p \div BlockLen)][p % BlockLen]]
  BY <1>1, <1>6 DEF Attended
<1>10. store'[played][len \div BlockLen][len % BlockLen] = Token(played, len)
  <2>1. PICK b, s : b = len \div BlockLen /\ s = len % BlockLen
    OBVIOUS
  <2>2. b \in Blocks /\ s \in Slots /\ b * BlockLen + s = len
    BY <1>2, <1>4, <2>1, Place DEF GoodTable
  <2>3. b * BlockLen + s < len + 1
    BY <1>2, <2>2
  <2>4. store'[played][b][s] = Token(played, b * BlockLen + s)
    BY <2>2, <2>3, PlaySlots
  <2> QED BY <2>1, <2>2, <2>4
<1> QED BY <1>8, <1>9, <1>10

LEMMA StepGap == ASSUME CacheInv, HistoryInv, CurrentInv, ReuseGap, [Next]_vars PROVE ReuseGap'
<1>1. CASE PrefillLayer
  <2>1. att'.how = "prefill"
    BY <1>1 DEF PrefillLayer, SwapInAndOut
  <2> QED BY <2>1 DEF ReuseGap
<1>2. CASE PlayLayer
  <2> SUFFICES ASSUME att'.how = "reuse", ~conf'.separate, conf'.layerStep = 1, CallSize % ChunkSize # 1,
                      InRoom(att.layer, att.upto)', att'.upto % BlockLen \notin {0, 1}
               PROVE  \E q \in DOMAIN att'.tokens : att'.tokens[q] = Token(att'.layer, att'.upto - 1)
    BY DEF ReuseGap, Seen
  <2>1. PICK o \in Retrieved(played, TableFor(played), PastFor(played) + 1) :
          att' = [how |-> o.how, layer |-> played, upto |-> len + 1,
                  tokens |-> Attended(played, o, store')]
    BY <1>2, PlayedOutcome
  <2>2. /\ played \in Layers /\ len \in Nat /\ conf' = conf
    BY <1>2, PlayKnown
  <2>3. att'.layer = played /\ att'.upto = len + 1 /\ att'.upto - 1 = len /\ att'.how = o.how
    BY <2>1, <2>2
  <2>4. Sparse(played)
    <3>1. Picks(played)
      <4>1. Whole("dense", TableFor(played), PastFor(played) + 1).how = "dense"
        BY DEF Whole, Outcome
      <4> QED BY <2>3, <4>1, OutcomeKinds
    <3> QED BY <3>1 DEF Picks
  <2>5. PICK l, n : l = att'.layer /\ n = att'.upto
    OBVIOUS
  <2>6. InRoom(l, n)'
    BY <2>5 DEF InRoom, Evicting, Sparse
  <2>7. ~Overtaken(l)'
    BY <2>2, <2>3, <2>4, <2>5 DEF Overtaken, Sparse
  <2>8. Roomy(played)
    BY <1>2, <2>5, <2>6, <2>7, RoomyPlayed
  <2>9. conf.layerStep = 1 /\ ~conf.separate /\ (len + 1) % BlockLen \notin {0, 1}
    BY <2>2, <2>3
  <2>10. \E q \in DOMAIN att'.tokens : att'.tokens[q] = Token(played, len)
    BY <1>2, <2>8, <2>9, PlayGap
  <2> QED BY <2>3, <2>10
<1>3. CASE PrefillCall \/ DecodeCall \/ EndChunk \/ IssueLayer \/ IssueRaises \/ UNCHANGED vars
  <2>1. att' = att /\ conf' = conf /\ prefill_block_num' = prefill_block_num
    BY <1>3, SameAttention
  <2> QED BY <2>1 DEF ReuseGap, Seen, InRoom, Evicting, Sparse
<1> QED BY <1>1, <1>2, <1>3 DEF Next

(* A selection used again (SHARED, layer_step 1) contains the newest token *)
(* but when that token fills a block or begins one: retrieval_kvcache_     *)
(* layer_ adds the block that begins, but counts the selection as it was.  *)
THEOREM NewestMissedAtBoundaries == Spec => []ReuseGap
<1>1. Init => ReuseGap
  BY DEF Init, ReuseGap
<1>2. CacheInv /\ HistoryInv /\ CurrentInv /\ ReuseGap /\ [Next]_vars
        => CacheInv' /\ HistoryInv' /\ CurrentInv' /\ ReuseGap'
  BY StepCache, StepHistory, StepCurrent, StepGap
<1> QED BY <1>1, <1>2, InitCache, InitHistory, InitCurrent, PTL DEF Spec

-----------------------------------------------------------------------------
(* The attention: the threads of one job. *)

USE KVAttentionAssumption

-----------------------------------------------------------------------------
(* Sums of the slots of tasks. *)

(* A task has its block number in its slots, so two of a head share none. *)
Apart(v) ==
  \A k, l \in Tasks : k[1] = l[1] /\ k # l => v[k] \cap v[l] = {}

BagOf(v, K) == SetToBag(UNION {v[k] : k \in K})

LEMMA DisjointSum ==
  ASSUME NEW A, NEW B, A \cap B = {}
  PROVE  SetToBag(A) (+) SetToBag(B) = SetToBag(A \cup B)
<1>1. PICK f, g : f = SetToBag(A) /\ g = SetToBag(B)
  OBVIOUS
<1>2. DOMAIN f = A /\ DOMAIN g = B /\ (\A e \in A : f[e] = 1) /\ (\A e \in B : g[e] = 1)
  BY <1>1 DEF SetToBag
<1>3. f (+) g = [e \in A \cup B |-> (IF e \in A THEN f[e] ELSE 0) + (IF e \in B THEN g[e] ELSE 0)]
  BY <1>2 DEF (+)
<1>4. \A e \in A \cup B : (IF e \in A THEN f[e] ELSE 0) + (IF e \in B THEN g[e] ELSE 0) = 1
  BY <1>2
<1>5. f (+) g = [e \in A \cup B |-> 1]
  BY <1>3, <1>4
<1> QED BY <1>1, <1>5 DEF SetToBag

LEMMA SumOf ==
  ASSUME NEW v, NEW h, Apart(v), NEW K \in SUBSET Tasks, NEW L \in SUBSET Tasks, K \cap L = {},
         \A k \in K \cup L : k[1] = h
  PROVE  BagOf(v, K) (+) BagOf(v, L) = BagOf(v, K \cup L)
<1>1. PICK A, B : A = UNION {v[k] : k \in K} /\ B = UNION {v[k] : k \in L}
  OBVIOUS
<1>2. A \cap B = {}
  <2> SUFFICES ASSUME NEW x \in A, x \in B PROVE FALSE
    OBVIOUS
  <2>1. PICK k \in K : x \in v[k]
    BY <1>1
  <2>2. PICK l \in L : x \in v[l]
    BY <1>1
  <2>3. k # l /\ k \in Tasks /\ l \in Tasks /\ k[1] = l[1]
    OBVIOUS
  <2>4. v[k] \cap v[l] = {}
    BY <2>3 DEF Apart
  <2> QED BY <2>1, <2>2, <2>4
<1>3. A \cup B = UNION {v[k] : k \in K \cup L}
  BY <1>1
<1>4. SetToBag(A) (+) SetToBag(B) = SetToBag(A \cup B)
  BY <1>2, DisjointSum
<1> QED BY <1>1, <1>3, <1>4 DEF BagOf

LEMMA NoSum == ASSUME NEW v PROVE BagOf(v, {}) = EmptyBag
<1>1. UNION {v[k] : k \in {}} = {}
  OBVIOUS
<1> QED BY <1>1 DEF BagOf, EmptyBag

LEMMA OneSum == ASSUME NEW v, NEW k PROVE BagOf(v, {k}) = SetToBag(v[k])
<1>1. UNION {v[l] : l \in {k}} = v[k]
  OBVIOUS
<1> QED BY <1>1 DEF BagOf

(* Slots without weight add nothing. *)
LEMMA NothingMore ==
  ASSUME NEW v, NEW K, NEW k, v[k] = {}
  PROVE  BagOf(v, K \ {k}) = BagOf(v, K) /\ BagOf(v, K \cup {k}) = BagOf(v, K)
<1>1. UNION {v[l] : l \in K \ {k}} = UNION {v[l] : l \in K}
  OBVIOUS
<1>2. UNION {v[l] : l \in K \cup {k}} = UNION {v[l] : l \in K}
  OBVIOUS
<1> QED BY <1>1, <1>2 DEF BagOf

-----------------------------------------------------------------------------
(* The inductive invariant. *)

Todo == <<"todo", NoThread>>
Out == <<"output", NoThread>>
Lost == <<"dropped", NoThread>>
InSum(t) == <<"sum", t>>
Aside(t) == <<"aside", t>>
Places == {Todo, Out, Lost} \cup {InSum(t) : t \in AttnThreads} \cup {Aside(t) : t \in AttnThreads}

PlacedAt(place, h, w) == {k \in Tasks : k[1] = h /\ place[k] = w}

(* The slots of each task. *)
Given == [k \in Tasks |-> {k[2]} \X Visited(k[1], k[2])]

Merging == {"merge", "last merge"}

AttnTypes ==
  /\ seqlens \in [AttnHeads -> 1 .. AttnBlocks * AttnBlockLen]
  /\ todo \subseteq Tasks
  /\ pc \in [AttnThreads -> {"idle", "lock", "leaving", "done"} \cup Merging]
  /\ cur_head \in [AttnThreads -> AttnHeads \cup {NoHead}]
  /\ DOMAIN cur_output = AttnThreads /\ DOMAIN block = AttnThreads
  /\ DOMAIN seen = AttnThreads /\ DOMAIN mutex = AttnHeads
  /\ DOMAIN output = AttnHeads /\ DOMAIN dropped = AttnHeads

(* Who merges holds the mutex and knows the sum, and while a task is to be *)
(* done there is a thread that has not begun to leave.                     *)
MutexInv ==
  /\ \A t \in AttnThreads : pc[t] \in Merging \cup {"lock", "leaving"} => cur_head[t] \in AttnHeads
  /\ \A t \in AttnThreads : pc[t] \in Merging =>
        mutex[cur_head[t]] = t /\ seen[t] = output[cur_head[t]]
  /\ todo # {} => \E t \in AttnThreads : pc[t] \in {"idle", "lock", "merge"}

(* The four parts of what it means that the tasks are where place says. *)
TodoAt(place) == \A k \in Tasks : k \in todo <=> place[k] = Todo

MergedAt(place, v) ==
  \A h \in AttnHeads : /\ output[h] = BagOf(v, PlacedAt(place, h, Out))
                       /\ dropped[h] = BagOf(v, PlacedAt(place, h, Lost))

SumAt(place, v) ==
  \A t \in AttnThreads :
    /\ \A k \in Tasks : place[k] = InSum(t) => pc[t] # "done" /\ cur_head[t] = k[1]
    /\ pc[t] # "done" => /\ cur_head[t] = NoHead => cur_output[t] = EmptyBag
                         /\ cur_head[t] # NoHead =>
                              cur_output[t] = BagOf(v, PlacedAt(place, cur_head[t], InSum(t)))

AsideAt(place, v) ==
  \A t \in AttnThreads :
    /\ \A k \in Tasks : place[k] = Aside(t) => pc[t] \in {"lock", "merge"} /\ block[t][1] = k[1]
    /\ pc[t] \in {"lock", "merge"} =>
         block[t][1] \in AttnHeads /\ block[t][2] = BagOf(v, PlacedAt(place, block[t][1], Aside(t)))

Accounted(place, v) ==
  TodoAt(place) /\ MergedAt(place, v) /\ SumAt(place, v) /\ AsideAt(place, v)

AccountInv == \E place \in [Tasks -> Places] : Accounted(place, Given)

AttnInv == AttnTypes /\ MutexInv /\ AccountInv

LEMMA PlacesDiffer ==
  /\ Todo # Out /\ Todo # Lost /\ Out # Lost
  /\ \A t \in AttnThreads : /\ InSum(t) \notin {Todo, Out, Lost}
                            /\ Aside(t) \notin {Todo, Out, Lost}
  /\ \A t, u \in AttnThreads : InSum(t) # Aside(u)
  /\ \A t, u \in AttnThreads : InSum(t) = InSum(u) => t = u
  /\ \A t, u \in AttnThreads : Aside(t) = Aside(u) => t = u
BY DEF Todo, Out, Lost, InSum, Aside

LEMMA ArePlaces ==
  /\ Todo \in Places /\ Out \in Places /\ Lost \in Places
  /\ \A t \in AttnThreads : InSum(t) \in Places /\ Aside(t) \in Places
BY DEF Places

LEMMA GivenApart == Apart(Given)
<1> SUFFICES ASSUME NEW k \in Tasks, NEW l \in Tasks, k[1] = l[1], k # l
             PROVE  Given[k] \cap Given[l] = {}
  BY DEF Apart
<1>1. k[2] # l[2]
  BY DEF Tasks
<1> QED BY <1>1 DEF Given

LEMMA TaskOf ==
  ASSUME NEW h \in AttnHeads, NEW b \in 0 .. AttnBlocks - 1
  PROVE  /\ <<h, b>> \in Tasks /\ <<h, b>>[1] = h
         /\ Given[<<h, b>>] = {b} \X Visited(h, b) /\ OneBlock(h, b) = SetToBag(Given[<<h, b>>])
BY DEF Tasks, Given, OneBlock

-----------------------------------------------------------------------------
(* What moving tasks does to the tasks at a place. *)

Taken(place, q, k, w) ==
  /\ q \in [Tasks -> Places]
  /\ \A j \in Tasks : q[j] = IF j = k THEN w ELSE place[j]
  /\ \A h, x : x \notin {Todo, w} => PlacedAt(q, h, x) = PlacedAt(place, h, x)
  /\ \A h : h # k[1] => PlacedAt(q, h, w) = PlacedAt(place, h, w)
  /\ PlacedAt(q, k[1], w) = PlacedAt(place, k[1], w) \cup {k} /\ k \notin PlacedAt(place, k[1], w)

LEMMA TakenIs ==
  ASSUME NEW place \in [Tasks -> Places], NEW k \in Tasks, place[k] = Todo,
         NEW w \in Places, w # Todo, NEW q, q = [place EXCEPT ![k] = w]
  PROVE  Taken(place, q, k, w)
<1>1. q \in [Tasks -> Places] /\ \A j \in Tasks : q[j] = IF j = k THEN w ELSE place[j]
  OBVIOUS
<1>2. ASSUME NEW h, NEW x, x \notin {Todo, w} PROVE PlacedAt(q, h, x) = PlacedAt(place, h, x)
  BY <1>1, <1>2 DEF PlacedAt
<1>3. ASSUME NEW h, h # k[1] PROVE PlacedAt(q, h, w) = PlacedAt(place, h, w)
  BY <1>1, <1>3 DEF PlacedAt
<1>4. PlacedAt(q, k[1], w) = PlacedAt(place, k[1], w) \cup {k} /\ k \notin PlacedAt(place, k[1], w)
  BY <1>1 DEF PlacedAt
<1> QED BY <1>1, <1>2, <1>3, <1>4 DEF Taken

(* A merge into the sum of head h by thread t: what was in the sum is lost *)
(* or not, what the thread had is in it, and what it kept aside is what it *)
(* has now.                                                                *)
Merged(place, t, h, lost) ==
  [k \in Tasks |-> IF lost /\ k[1] = h /\ place[k] = Out THEN Lost
                   ELSE IF place[k] = InSum(t) THEN Out
                   ELSE IF place[k] = Aside(t) THEN InSum(t) ELSE place[k]]

Moved(place, q, t, h, lost) ==
  /\ q \in [Tasks -> Places]
  /\ \A k \in Tasks : q[k] = Todo <=> place[k] = Todo
  /\ \A k \in Tasks, u \in AttnThreads :
       /\ q[k] = InSum(u) <=> IF u = t THEN place[k] = Aside(t) ELSE place[k] = InSum(u)
       /\ q[k] = Aside(u) <=> u # t /\ place[k] = Aside(u)
  /\ \A g : PlacedAt(q, g, InSum(t)) = PlacedAt(place, g, Aside(t))
  /\ \A g, u : u \in AttnThreads \ {t} => /\ PlacedAt(q, g, InSum(u)) = PlacedAt(place, g, InSum(u))
                                         /\ PlacedAt(q, g, Aside(u)) = PlacedAt(place, g, Aside(u))
  /\ \A g : g # h => PlacedAt(q, g, Out) = PlacedAt(place, g, Out) /\ PlacedAt(q, g, Lost) = PlacedAt(place, g, Lost)
  /\ lost => /\ PlacedAt(q, h, Out) = PlacedAt(place, h, InSum(t))
             /\ PlacedAt(q, h, Lost) = PlacedAt(place, h, Lost) \cup PlacedAt(place, h, Out)
  /\ ~lost => /\ PlacedAt(q, h, Out) = PlacedAt(place, h, Out) \cup PlacedAt(place, h, InSum(t))
              /\ PlacedAt(q, h, Lost) = PlacedAt(place, h, Lost)

LEMMA MovedIs ==
  ASSUME NEW place \in [Tasks -> Places], NEW t \in AttnThreads, NEW h, NEW lost \in BOOLEAN,
         \A k \in Tasks : place[k] = InSum(t) => k[1] = h,
         NEW q, q = Merged(place, t, h, lost)
  PROVE  Moved(place, q, t, h, lost)
<1>1. \A k \in Tasks : q[k] = IF lost /\ k[1] = h /\ place[k] = Out THEN Lost
                              ELSE IF place[k] = InSum(t) THEN Out
                              ELSE IF place[k] = Aside(t) THEN InSum(t) ELSE place[k]
  BY DEF Merged
<1>2. q \in [Tasks -> Places]
  BY ArePlaces DEF Merged
<1>3. \A k \in Tasks : q[k] = Todo <=> place[k] = Todo
  BY <1>1, PlacesDiffer
<1>4. \A k \in Tasks, u \in AttnThreads :
        /\ q[k] = InSum(u) <=> IF u = t THEN place[k] = Aside(t) ELSE place[k] = InSum(u)
        /\ q[k] = Aside(u) <=> u # t /\ place[k] = Aside(u)
  BY <1>1, PlacesDiffer
<1>5. \A g : PlacedAt(q, g, InSum(t)) = PlacedAt(place, g, Aside(t))
  BY <1>4 DEF PlacedAt
<1>6. ASSUME NEW g, NEW u, u \in AttnThreads \ {t}
      PROVE PlacedAt(q, g, InSum(u)) = PlacedAt(place, g, InSum(u)) /\ PlacedAt(q, g, Aside(u)) = PlacedAt(place, g, Aside(u))
  BY <1>4, <1>6 DEF PlacedAt
<1>7. ASSUME NEW g, g # h
      PROVE PlacedAt(q, g, Out) = PlacedAt(place, g, Out) /\ PlacedAt(q, g, Lost) = PlacedAt(place, g, Lost)
  <2>1. \A k \in Tasks : k[1] = g => (q[k] = Out <=> place[k] = Out) /\ (q[k] = Lost <=> place[k] = Lost)
    BY <1>1, <1>7, PlacesDiffer
  <2> QED BY <2>1 DEF PlacedAt
<1>8. CASE lost
  <2>1. \A k \in Tasks : k[1] = h => /\ q[k] = Out <=> place[k] = InSum(t)
                                     /\ q[k] = Lost <=> place[k] \in {Lost, Out}
    BY <1>1, <1>8, PlacesDiffer
  <2>2. /\ PlacedAt(q, h, Out) = PlacedAt(place, h, InSum(t))
        /\ PlacedAt(q, h, Lost) = PlacedAt(place, h, Lost) \cup PlacedAt(place, h, Out)
    BY <2>1 DEF PlacedAt
  <2> QED BY <1>2, <1>3, <1>4, <1>5, <1>6, <1>7, <1>8, <2>2 DEF Moved
<1>9. CASE ~lost
  <2>1. \A k \in Tasks : k[1] = h => /\ q[k] = Out <=> place[k] \in {InSum(t), Out}
                                     /\ q[k] = Lost <=> place[k] = Lost
    BY <1>1, <1>9, PlacesDiffer
  <2>2. /\ PlacedAt(q, h, Out) = PlacedAt(place, h, Out) \cup PlacedAt(place, h, InSum(t))
        /\ PlacedAt(q, h, Lost) = PlacedAt(place, h, Lost)
    BY <2>1 DEF PlacedAt
  <2> QED BY <1>2, <1>3, <1>4, <1>5, <1>6, <1>7, <1>9, <2>2 DEF Moved
<1> QED BY <1>8, <1>9

-----------------------------------------------------------------------------
(* The invariant holds at the start of the job. *)

LEMMA AttnStarts == AttnInit => AttnInv
<1> SUFFICES ASSUME AttnInit PROVE AttnInv
  OBVIOUS
<1>1. AttnTypes
  BY DEF AttnInit, AttnTypes
<1>2. MutexInv
  BY DEF AttnInit, MutexInv, Merging
<1>3. AccountInv
  <2>1. PICK place : place = [k \in Tasks |-> Todo]
    OBVIOUS
  <2>2. place \in [Tasks -> Places] /\ \A k \in Tasks : place[k] = Todo
    BY <2>1, ArePlaces
  <2>3. \A h, w : w # Todo => PlacedAt(place, h, w) = {}
    BY <2>2 DEF PlacedAt
  <2>4. TodoAt(place)
    BY <2>2 DEF TodoAt, AttnInit
  <2>5. MergedAt(place, Given)
    BY <2>3, NoSum, PlacesDiffer DEF MergedAt, AttnInit
  <2>6. SumAt(place, Given)
    BY <2>2, PlacesDiffer DEF SumAt, AttnInit
  <2>7. AsideAt(place, Given)
    BY <2>2, PlacesDiffer DEF AsideAt, AttnInit
  <2> QED BY <2>2, <2>4, <2>5, <2>6, <2>7 DEF AccountInv, Accounted
<1> QED BY <1>1, <1>2, <1>3 DEF AttnInv

LEMMA TypesStep ==
  ASSUME AttnTypes, MutexInv, AccountInv, [AttnNext]_attnVars
  PROVE  AttnTypes'
<1>1. ASSUME NEW t \in AttnThreads, RunTask(t) PROVE AttnTypes'
  <2>1. PICK h \in AttnHeads, b \in 0 .. AttnBlocks - 1 :
           /\ <<h, b>> \in todo /\ todo' = todo \ {<<h, b>>}
           /\ Skip(t, h, b) \/ Accumulate(t, h, b) \/ Interrupt(t, h, b)
    BY <1>1 DEF RunTask
  <2>2. /\ pc' \in [AttnThreads -> {"idle", "lock", "leaving", "done"} \cup Merging]
        /\ cur_head' \in [AttnThreads -> AttnHeads \cup {NoHead}]
        /\ DOMAIN cur_output' = AttnThreads /\ DOMAIN block' = AttnThreads
    BY <2>1 DEF Skip, Accumulate, Interrupt, AttnTypes
  <2> QED BY <1>1, <2>1, <2>2 DEF RunTask, shared, AttnTypes
<1>2. ASSUME NEW t \in AttnThreads, Leave(t) PROVE AttnTypes'
  BY <1>2 DEF Leave, shared, AttnTypes
<1>3. ASSUME NEW t \in AttnThreads, Lock(t) PROVE AttnTypes'
  BY <1>3 DEF Lock, AttnTypes, Merging
<1>4. ASSUME NEW t \in AttnThreads, Merge(t)
      PROVE /\ DOMAIN output' = AttnHeads /\ DOMAIN dropped' = AttnHeads
            /\ DOMAIN mutex' = AttnHeads /\ DOMAIN seen' = AttnThreads
  BY <1>4 DEF Merge, AttnTypes
<1>5. ASSUME NEW t \in AttnThreads, MergeAndGoOn(t) PROVE AttnTypes'
  <2>1. block[t][1] \in AttnHeads
    BY <1>5 DEF MergeAndGoOn, AccountInv, Accounted, AsideAt
  <2> QED BY <1>4, <1>5, <2>1 DEF MergeAndGoOn, AttnTypes
<1>6. ASSUME NEW t \in AttnThreads, MergeAndLeave(t) PROVE AttnTypes'
  BY <1>4, <1>6 DEF MergeAndLeave, AttnTypes
<1>7. CASE UNCHANGED attnVars
  BY <1>7 DEF attnVars, AttnTypes
<1> QED BY <1>1, <1>2, <1>3, <1>5, <1>6, <1>7 DEF AttnNext

LEMMA MutexStep ==
  ASSUME AttnTypes, MutexInv, AccountInv, [AttnNext]_attnVars
  PROVE  MutexInv'
<1>1. ASSUME NEW t \in AttnThreads, RunTask(t) PROVE MutexInv'
  <2>1. PICK h \in AttnHeads, b \in 0 .. AttnBlocks - 1 :
           /\ <<h, b>> \in todo /\ todo' = todo \ {<<h, b>>}
           /\ Skip(t, h, b) \/ Accumulate(t, h, b) \/ Interrupt(t, h, b)
    BY <1>1 DEF RunTask
  <2>2. /\ \A u \in AttnThreads \ {t} : pc'[u] = pc[u] /\ cur_head'[u] = cur_head[u]
        /\ pc[t] = "idle" /\ pc'[t] \in {"idle", "lock"}
        /\ pc'[t] = "lock" => cur_head'[t] \in AttnHeads
        /\ UNCHANGED <<mutex, seen, output>>
    BY <1>1, <2>1 DEF RunTask, Skip, Accumulate, Interrupt, shared, AttnTypes
  <2> QED BY <2>2 DEF MutexInv, Merging
<1>2. ASSUME NEW t \in AttnThreads, Leave(t) PROVE MutexInv'
  <2>1. /\ \A u \in AttnThreads \ {t} : pc'[u] = pc[u]
        /\ pc'[t] \in {"leaving", "done"}
        /\ pc'[t] = "leaving" => cur_head[t] \in AttnHeads
        /\ UNCHANGED <<todo, cur_head, mutex, seen, output>>
        /\ todo = {} \/ \E u \in AttnThreads \ {t} : pc[u] \in {"idle", "lock", "merge"}
    BY <1>2 DEF Leave, shared, AttnTypes
  <2> QED BY <2>1 DEF MutexInv, Merging
<1>3. ASSUME NEW t \in AttnThreads, Lock(t) PROVE MutexInv'
  <2>1. PICK h : h = cur_head[t]
    OBVIOUS
  <2>2. /\ h \in AttnHeads /\ mutex[h] = NoThread /\ pc[t] \in {"lock", "leaving"}
        /\ \A u \in AttnThreads \ {t} : pc'[u] = pc[u] /\ seen'[u] = seen[u]
        /\ pc'[t] = IF pc[t] = "lock" THEN "merge" ELSE "last merge"
        /\ seen'[t] = output[h] /\ mutex'[h] = t
        /\ \A g \in AttnHeads \ {h} : mutex'[g] = mutex[g]
        /\ UNCHANGED <<todo, cur_head, output>>
    BY <1>3, <2>1 DEF Lock, Free, AttnTypes, MutexInv
  <2>3. \A u \in AttnThreads : pc[u] \in Merging => cur_head[u] # h
    BY <2>2 DEF MutexInv
  <2>4. \A u \in AttnThreads : pc'[u] \in Merging \cup {"lock", "leaving"} => cur_head[u] \in AttnHeads
    BY <2>1, <2>2 DEF MutexInv
  <2>5. ASSUME NEW u \in AttnThreads, pc'[u] \in Merging
        PROVE mutex'[cur_head[u]] = u /\ seen'[u] = output[cur_head[u]]
    BY <2>1, <2>2, <2>3, <2>4, <2>5 DEF MutexInv
  <2>6. todo # {} => \E u \in AttnThreads : pc'[u] \in {"idle", "lock", "merge"}
    BY <2>2 DEF MutexInv
  <2> QED BY <2>2, <2>4, <2>5, <2>6 DEF MutexInv
<1>4. ASSUME NEW t \in AttnThreads, MergeAndGoOn(t) \/ MergeAndLeave(t) PROVE MutexInv'
  <2>1. PICK h : h = cur_head[t]
    OBVIOUS
  <2>2. /\ h \in AttnHeads /\ mutex[h] = t /\ pc[t] \in Merging
        /\ \A u \in AttnThreads \ {t} : /\ pc'[u] = pc[u] /\ seen'[u] = seen[u]
                                        /\ cur_head'[u] = cur_head[u]
        /\ \A g \in AttnHeads \ {h} : mutex'[g] = mutex[g] /\ output'[g] = output[g]
        /\ \/ pc[t] = "merge" /\ pc'[t] = "idle"
           \/ pc[t] = "last merge" /\ pc'[t] = "done"
        /\ UNCHANGED todo
    <3>1. Merge(t) /\ pc[t] \in Merging /\ h \in AttnHeads /\ mutex[h] = t
      BY <1>4, <2>1 DEF MergeAndGoOn, MergeAndLeave, MutexInv, Merging
    <3>2. /\ mutex' = [mutex EXCEPT ![h] = NoThread] /\ seen' = [seen EXCEPT ![t] = EmptyBag]
          /\ \E x : output' = [output EXCEPT ![h] = x]
      BY <2>1, <3>1 DEF Merge
    <3>3. /\ \A u \in AttnThreads \ {t} : seen'[u] = seen[u]
          /\ \A g \in AttnHeads \ {h} : mutex'[g] = mutex[g] /\ output'[g] = output[g]
      BY <3>2 DEF AttnTypes
    <3>4. /\ \/ pc[t] = "merge" /\ pc'[t] = "idle"
             \/ pc[t] = "last merge" /\ pc'[t] = "done"
          /\ \A u \in AttnThreads \ {t} : pc'[u] = pc[u] /\ cur_head'[u] = cur_head[u]
          /\ UNCHANGED todo
      BY <1>4 DEF MergeAndGoOn, MergeAndLeave, AttnTypes
    <3> QED BY <3>1, <3>3, <3>4
  <2>3. \A u \in AttnThreads \ {t} : pc[u] \in Merging => cur_head[u] # h
    BY <2>2 DEF MutexInv
  <2>4. \A u \in AttnThreads : pc'[u] \in Merging \cup {"lock", "leaving"} =>
           u # t /\ cur_head'[u] = cur_head[u] /\ cur_head[u] \in AttnHeads
    BY <2>2 DEF MutexInv, Merging
  <2>5. ASSUME NEW u \in AttnThreads, pc'[u] \in Merging
        PROVE mutex'[cur_head'[u]] = u /\ seen'[u] = output'[cur_head'[u]]
    <3>1. PICK g : g = cur_head[u]
      OBVIOUS
    <3>2. u # t /\ cur_head'[u] = g /\ g \in AttnHeads /\ pc[u] \in Merging
      BY <2>2, <2>4, <2>5, <3>1
    <3>3. g # h /\ mutex[g] = u /\ seen[u] = output[g]
      BY <2>3, <3>1, <3>2 DEF MutexInv
    <3> QED BY <2>2, <3>2, <3>3
  <2>6. todo # {} => \E u \in AttnThreads : pc'[u] \in {"idle", "lock", "merge"}
    BY <2>2 DEF MutexInv, Merging
  <2> QED BY <2>2, <2>4, <2>5, <2>6 DEF MutexInv
<1>5. CASE UNCHANGED attnVars
  BY <1>5 DEF attnVars, MutexInv
<1> QED BY <1>1, <1>2, <1>3, <1>4, <1>5 DEF AttnNext

-----------------------------------------------------------------------------
(* Every task stays at one place. *)

LEMMA Again ==
  ASSUME NEW v, v = Given, seqlens' = seqlens, NEW q \in [Tasks -> Places],
         TodoAt(q)', MergedAt(q, v)', SumAt(q, v)', AsideAt(q, v)'
  PROVE  AccountInv'
<1>1. Given' = v
  BY DEF Given, Visited
<1> QED BY <1>1 DEF AccountInv, Accounted

(* A task that is taken: its slots are added to the sum of the thread, put *)
(* aside, or none.                                                         *)
LEMMA AccountRuns ==
  ASSUME AttnInv, NEW t \in AttnThreads, RunTask(t)
  PROVE  AccountInv'
<1>1. PICK h \in AttnHeads, b \in 0 .. AttnBlocks - 1 :
         /\ <<h, b>> \in todo /\ todo' = todo \ {<<h, b>>}
         /\ Skip(t, h, b) \/ Accumulate(t, h, b) \/ Interrupt(t, h, b)
  BY DEF RunTask
<1>2. PICK place \in [Tasks -> Places] : Accounted(place, Given)
  BY DEF AttnInv, AccountInv
<1>3. PICK v : v = Given
  OBVIOUS
<1>4. PICK k \in Tasks : k = <<h, b>>
  BY TaskOf
<1>5. /\ k[1] = h /\ v[k] = {b} \X Visited(h, b) /\ OneBlock(h, b) = SetToBag(v[k])
      /\ Apart(v)
  BY <1>3, <1>4, TaskOf, GivenApart
<1>6. TodoAt(place) /\ MergedAt(place, v) /\ SumAt(place, v) /\ AsideAt(place, v)
  BY <1>2, <1>3 DEF Accounted
<1>7. place[k] = Todo
  BY <1>1, <1>4, <1>6 DEF TodoAt
<1>8. ASSUME NEW w \in Places, w # Todo, NEW q, q = [place EXCEPT ![k] = w]
      PROVE  Taken(place, q, k, w) /\ TodoAt(q)'
  <2>1. Taken(place, q, k, w)
    BY <1>7, <1>8, TakenIs
  <2> QED BY <1>1, <1>4, <1>6, <1>8, <2>1 DEF TodoAt, Taken
<1>9. UNCHANGED <<seqlens, output, dropped>> /\ pc[t] = "idle"
  BY DEF RunTask, shared
<1>10. CASE Skip(t, h, b)
  <2>1. PICK q : q = [place EXCEPT ![k] = Out]
    OBVIOUS
  <2>2. Taken(place, q, k, Out) /\ TodoAt(q)'
    BY <1>8, <2>1, ArePlaces, PlacesDiffer
  <2>3. v[k] = {} /\ UNCHANGED <<pc, block, cur_head, cur_output>>
    BY <1>5, <1>10 DEF Skip
  <2>4. MergedAt(q, v)'
    <3>1. ASSUME NEW g \in AttnHeads PROVE BagOf(v, PlacedAt(q, g, Out)) = BagOf(v, PlacedAt(place, g, Out))
      <4>1. CASE g = h
        <5>1. PlacedAt(q, g, Out) = PlacedAt(place, g, Out) \cup {k}
          BY <1>5, <2>2, <4>1 DEF Taken
        <5>2. PICK K : K = PlacedAt(place, g, Out)
          OBVIOUS
        <5>3. v[k] = {}
          BY <2>3
        <5>4. BagOf(v, K \cup {k}) = BagOf(v, K)
          BY <5>3, NothingMore
        <5> QED BY <5>1, <5>2, <5>4
      <4>2. CASE g # h
        BY <1>5, <2>2, <4>2 DEF Taken
      <4> QED BY <4>1, <4>2
    <3>2. ASSUME NEW g \in AttnHeads PROVE PlacedAt(q, g, Lost) = PlacedAt(place, g, Lost)
      BY <2>2, PlacesDiffer DEF Taken
    <3> QED BY <1>6, <1>9, <3>1, <3>2 DEF MergedAt
  <2>5. ASSUME NEW u \in AttnThreads
        PROVE  /\ \A g : PlacedAt(q, g, InSum(u)) = PlacedAt(place, g, InSum(u)) /\ PlacedAt(q, g, Aside(u)) = PlacedAt(place, g, Aside(u))
               /\ \A j \in Tasks : /\ q[j] = InSum(u) <=> place[j] = InSum(u)
                                   /\ q[j] = Aside(u) <=> place[j] = Aside(u)
    BY <1>7, <2>2, PlacesDiffer DEF Taken
  <2>6. SumAt(q, v)'
    BY <1>6, <2>3, <2>5 DEF SumAt
  <2>7. AsideAt(q, v)'
    BY <1>6, <2>3, <2>5 DEF AsideAt
  <2>8. q \in [Tasks -> Places]
    BY <2>2 DEF Taken
  <2> QED BY <1>3, <1>9, <2>2, <2>4, <2>6, <2>7, <2>8, Again
<1>11. CASE Accumulate(t, h, b)
  <2>1. PICK q : q = [place EXCEPT ![k] = InSum(t)]
    OBVIOUS
  <2>2. Taken(place, q, k, InSum(t)) /\ TodoAt(q)'
    BY <1>8, <2>1, ArePlaces, PlacesDiffer
  <2>3. /\ cur_head[t] \in {h, NoHead} /\ cur_head'[t] = h
        /\ cur_output'[t] = cur_output[t] (+) SetToBag(v[k])
        /\ \A u \in AttnThreads \ {t} : cur_head'[u] = cur_head[u] /\ cur_output'[u] = cur_output[u]
        /\ UNCHANGED <<pc, block>>
    BY <1>5, <1>11 DEF Accumulate, AttnInv, AttnTypes
  <2>4. MergedAt(q, v)'
    <3>1. \A g : PlacedAt(q, g, Out) = PlacedAt(place, g, Out) /\ PlacedAt(q, g, Lost) = PlacedAt(place, g, Lost)
      BY <2>2, PlacesDiffer DEF Taken
    <3> QED BY <1>6, <1>9, <3>1 DEF MergedAt
  <2>5. cur_output[t] = BagOf(v, PlacedAt(place, h, InSum(t)))
    <3>1. CASE cur_head[t] = h
      BY <1>6, <1>9, <3>1 DEF SumAt
    <3>2. CASE cur_head[t] = NoHead
      <4>1. PlacedAt(place, h, InSum(t)) = {}
        BY <1>6, <3>2 DEF SumAt, PlacedAt
      <4> QED BY <1>6, <1>9, <3>2, <4>1, NoSum DEF SumAt
    <3> QED BY <2>3, <3>1, <3>2
  <2>6. cur_output'[t] = BagOf(v, PlacedAt(q, h, InSum(t)))
    <3>1. PlacedAt(q, h, InSum(t)) = PlacedAt(place, h, InSum(t)) \cup {k} /\ k \notin PlacedAt(place, h, InSum(t))
      BY <1>5, <2>2 DEF Taken
    <3>2. PICK K : K = PlacedAt(place, h, InSum(t))
      OBVIOUS
    <3>3. K \cap {k} = {} /\ \A j \in K \cup {k} : j[1] = h
      BY <1>5, <3>1, <3>2 DEF PlacedAt
    <3>5. K \in SUBSET Tasks /\ {k} \in SUBSET Tasks
      BY <3>2 DEF PlacedAt
    <3>4. BagOf(v, K) (+) BagOf(v, {k}) = BagOf(v, K \cup {k})
      <4>1. Apart(v)
        BY <1>5
      <4>2. PICK L : L = {k}
        OBVIOUS
      <4>3. K \cap L = {} /\ K \in SUBSET Tasks /\ L \in SUBSET Tasks
        BY <3>3, <3>5, <4>2
      <4>4. \A j \in K \cup L : j[1] = h
        BY <3>3, <4>2
      <4>5. BagOf(v, K) (+) BagOf(v, L) = BagOf(v, K \cup L)
        BY <4>1, <4>3, <4>4, SumOf
      <4> QED BY <4>2, <4>5
    <3> QED BY <2>3, <2>5, <3>1, <3>2, <3>4, OneSum
  <2>7. SumAt(q, v)'
    <3>1. ASSUME NEW u \in AttnThreads, u # t
          PROVE /\ \A j \in Tasks : q[j] = InSum(u) <=> place[j] = InSum(u)
                /\ \A g : PlacedAt(q, g, InSum(u)) = PlacedAt(place, g, InSum(u))
      BY <1>7, <2>2, <3>1, PlacesDiffer DEF Taken
    <3>2. \A j \in Tasks : q[j] = InSum(t) => j[1] = h
      <4> SUFFICES ASSUME NEW j \in Tasks, q[j] = InSum(t) PROVE j[1] = h
        OBVIOUS
      <4>1. j = k \/ place[j] = InSum(t)
        BY <2>2 DEF Taken
      <4>2. place[j] = InSum(t) => cur_head[t] = j[1] /\ j[1] \in AttnHeads
        BY <1>6 DEF SumAt, Tasks
      <4> QED BY <1>5, <2>3, <4>1, <4>2
    <3>3. /\ \A j \in Tasks : q[j] = InSum(t) => pc'[t] # "done" /\ cur_head'[t] = j[1]
          /\ cur_head'[t] # NoHead /\ cur_output'[t] = BagOf(v, PlacedAt(q, cur_head'[t], InSum(t)))
      BY <1>9, <2>3, <2>6, <3>2
    <3>4. ASSUME NEW u \in AttnThreads, u # t
          PROVE /\ \A j \in Tasks : q[j] = InSum(u) => pc'[u] # "done" /\ cur_head'[u] = j[1]
                /\ pc'[u] # "done" => /\ cur_head'[u] = NoHead => cur_output'[u] = EmptyBag
                                      /\ cur_head'[u] # NoHead =>
                                           cur_output'[u] = BagOf(v, PlacedAt(q, cur_head'[u], InSum(u)))
      BY <1>6, <2>3, <3>1, <3>4 DEF SumAt
    <3> QED BY <3>3, <3>4 DEF SumAt
  <2>8. AsideAt(q, v)'
    <3>1. ASSUME NEW u \in AttnThreads
          PROVE /\ \A j \in Tasks : q[j] = Aside(u) <=> place[j] = Aside(u)
                /\ \A g : PlacedAt(q, g, Aside(u)) = PlacedAt(place, g, Aside(u))
      BY <1>7, <2>2, PlacesDiffer DEF Taken
    <3> QED BY <1>6, <2>3, <3>1 DEF AsideAt
  <2>9. q \in [Tasks -> Places]
    BY <2>2 DEF Taken
  <2> QED BY <1>3, <1>9, <2>2, <2>4, <2>7, <2>8, <2>9, Again
<1>12. CASE Interrupt(t, h, b)
  <2>1. PICK q : q = [place EXCEPT ![k] = Aside(t)]
    OBVIOUS
  <2>2. Taken(place, q, k, Aside(t)) /\ TodoAt(q)'
    BY <1>8, <2>1, ArePlaces, PlacesDiffer
  <2>3. /\ block'[t][1] = h /\ block'[t][2] = SetToBag(v[k]) /\ pc'[t] = "lock"
        /\ \A u \in AttnThreads \ {t} : block'[u] = block[u] /\ pc'[u] = pc[u]
        /\ UNCHANGED <<cur_head, cur_output>>
    BY <1>5, <1>12 DEF Interrupt, AttnInv, AttnTypes
  <2>4. MergedAt(q, v)'
    <3>1. \A g : PlacedAt(q, g, Out) = PlacedAt(place, g, Out) /\ PlacedAt(q, g, Lost) = PlacedAt(place, g, Lost)
      BY <2>2, PlacesDiffer DEF Taken
    <3> QED BY <1>6, <1>9, <3>1 DEF MergedAt
  <2>5. SumAt(q, v)'
    <3>1. ASSUME NEW u \in AttnThreads
          PROVE /\ \A j \in Tasks : q[j] = InSum(u) <=> place[j] = InSum(u)
                /\ \A g : PlacedAt(q, g, InSum(u)) = PlacedAt(place, g, InSum(u))
                /\ pc'[u] # "done" <=> pc[u] # "done"
      BY <1>7, <1>9, <2>2, <2>3, PlacesDiffer DEF Taken
    <3> QED BY <1>6, <2>3, <3>1 DEF SumAt
  <2>6. \A j \in Tasks : place[j] # Aside(t)
    BY <1>6, <1>9 DEF AsideAt
  <2>7. (\A j \in Tasks : q[j] = Aside(t) => j = k) /\ PlacedAt(q, h, Aside(t)) = {k}
    <3>1. PlacedAt(q, h, Aside(t)) = PlacedAt(place, h, Aside(t)) \cup {k}
      BY <1>5, <2>2 DEF Taken
    <3> QED BY <2>2, <2>6, <3>1 DEF Taken, PlacedAt
  <2>8. AsideAt(q, v)'
    <3>1. ASSUME NEW u \in AttnThreads, u # t
          PROVE /\ \A j \in Tasks : q[j] = Aside(u) <=> place[j] = Aside(u)
                /\ \A g : PlacedAt(q, g, Aside(u)) = PlacedAt(place, g, Aside(u))
      BY <1>7, <2>2, <3>1, PlacesDiffer DEF Taken
    <3>2. /\ \A j \in Tasks : q[j] = Aside(t) => pc'[t] \in {"lock", "merge"} /\ block'[t][1] = j[1]
          /\ block'[t][1] \in AttnHeads /\ block'[t][2] = BagOf(v, PlacedAt(q, block'[t][1], Aside(t)))
      <4>1. \A j \in Tasks : q[j] = Aside(t) => j[1] = h
        BY <1>5, <2>7
      <4>2. BagOf(v, PlacedAt(q, h, Aside(t))) = SetToBag(v[k])
        BY <2>7, OneSum
      <4>3. block'[t][2] = BagOf(v, PlacedAt(q, block'[t][1], Aside(t)))
        BY <2>3, <4>2
      <4> QED BY <2>3, <4>1, <4>3
    <3>3. ASSUME NEW u \in AttnThreads, u # t
          PROVE /\ \A j \in Tasks : q[j] = Aside(u) => pc'[u] \in {"lock", "merge"} /\ block'[u][1] = j[1]
                /\ pc'[u] \in {"lock", "merge"} =>
                     block'[u][1] \in AttnHeads /\ block'[u][2] = BagOf(v, PlacedAt(q, block'[u][1], Aside(u)))
      BY <1>6, <2>3, <3>1, <3>3 DEF AsideAt
    <3> QED BY <3>2, <3>3 DEF AsideAt
  <2>9. q \in [Tasks -> Places]
    BY <2>2 DEF Taken
  <2> QED BY <1>3, <1>9, <2>2, <2>4, <2>5, <2>8, <2>9, Again
<1> QED BY <1>1, <1>10, <1>11, <1>12

(* A thread that leaves has its sum, or has none; one that locks the mutex *)
(* changes nothing.                                                        *)
LEMMA AccountStays ==
  ASSUME AttnInv, NEW t \in AttnThreads, Leave(t) \/ Lock(t)
  PROVE  AccountInv'
<1>1. PICK place \in [Tasks -> Places] : Accounted(place, Given)
  BY DEF AttnInv, AccountInv
<1>2. PICK v : v = Given
  OBVIOUS
<1>3. TodoAt(place) /\ MergedAt(place, v) /\ SumAt(place, v) /\ AsideAt(place, v)
  BY <1>1, <1>2 DEF Accounted
<1>4. /\ UNCHANGED <<seqlens, todo, block, cur_head, cur_output, output, dropped>>
      /\ \A u \in AttnThreads \ {t} : pc'[u] = pc[u]
      /\ pc[t] \in {"lock", "merge"} <=> pc'[t] \in {"lock", "merge"}
      /\ pc[t] # "done" /\ (pc'[t] = "done" => cur_head[t] = NoHead)
  BY DEF Leave, Lock, shared, AttnInv, AttnTypes
<1>5. TodoAt(place)' /\ MergedAt(place, v)'
  BY <1>3, <1>4 DEF TodoAt, MergedAt
<1>6. SumAt(place, v)'
  <2>1. \A k \in Tasks : k[1] # NoHead
    BY DEF Tasks
  <2>2. ASSUME NEW u \in AttnThreads, NEW k \in Tasks, place[k] = InSum(u)
        PROVE  pc'[u] # "done" /\ cur_head'[u] = k[1]
    BY <1>3, <1>4, <2>1, <2>2 DEF SumAt
  <2>3. ASSUME NEW u \in AttnThreads, pc'[u] # "done"
        PROVE  /\ cur_head'[u] = NoHead => cur_output'[u] = EmptyBag
               /\ cur_head'[u] # NoHead =>
                    cur_output'[u] = BagOf(v, PlacedAt(place, cur_head'[u], InSum(u)))
    BY <1>3, <1>4, <2>3 DEF SumAt
  <2> QED BY <2>2, <2>3 DEF SumAt
<1>7. AsideAt(place, v)'
  <2>1. \A u \in AttnThreads : pc'[u] \in {"lock", "merge"} <=> pc[u] \in {"lock", "merge"}
    BY <1>4
  <2> QED BY <1>3, <1>4, <2>1 DEF AsideAt
<1> QED BY <1>2, <1>4, <1>5, <1>6, <1>7, Again

(* A merge: the sum of the head grows by that of the thread, or that takes *)
(* its place, and the block kept aside is the next sum.                    *)
LEMMA AccountMerges ==
  ASSUME AttnInv, NEW t \in AttnThreads, MergeAndGoOn(t) \/ MergeAndLeave(t)
  PROVE  AccountInv'
<1>1. PICK place \in [Tasks -> Places] : Accounted(place, Given)
  BY DEF AttnInv, AccountInv
<1>2. PICK v : v = Given
  OBVIOUS
<1>3. TodoAt(place) /\ MergedAt(place, v) /\ SumAt(place, v) /\ AsideAt(place, v) /\ Apart(v)
  BY <1>1, <1>2, GivenApart DEF Accounted
<1>4. PICK h : h = cur_head[t]
  OBVIOUS
<1>5. PICK lost \in BOOLEAN : lost <=> near_zero[h]
  OBVIOUS
<1>6. /\ Merge(t) /\ pc[t] \in Merging /\ h \in AttnHeads /\ seen[t] = output[h] /\ h # NoHead
      /\ UNCHANGED <<seqlens, todo>>
  BY <1>4 DEF MergeAndGoOn, MergeAndLeave, AttnInv, MutexInv, Merging
<1>7. \A k \in Tasks : place[k] = InSum(t) => k[1] = h
  BY <1>3, <1>4 DEF SumAt
<1>8. PICK q : q = Merged(place, t, h, lost)
  OBVIOUS
<1>9. Moved(place, q, t, h, lost)
  BY <1>7, <1>8, MovedIs
<1>10. cur_output[t] = BagOf(v, PlacedAt(place, h, InSum(t)))
  BY <1>3, <1>4, <1>6 DEF SumAt, Merging
<1>11. TodoAt(q)'
  BY <1>3, <1>6, <1>9 DEF TodoAt, Moved
<1>12. MergedAt(q, v)'
  <2>1. \A g \in AttnHeads \ {h} : output'[g] = output[g] /\ dropped'[g] = dropped[g]
    BY <1>4, <1>6 DEF Merge, AttnInv, AttnTypes
  <2>2. ASSUME NEW g \in AttnHeads, g # h
        PROVE  /\ output'[g] = BagOf(v, PlacedAt(q, g, Out))
               /\ dropped'[g] = BagOf(v, PlacedAt(q, g, Lost))
    BY <1>3, <1>9, <2>1, <2>2 DEF MergedAt, Moved
  <2>3. PICK O, L, U : O = PlacedAt(place, h, Out) /\ L = PlacedAt(place, h, Lost) /\ U = PlacedAt(place, h, InSum(t))
    OBVIOUS
  <2>4. /\ O \in SUBSET Tasks /\ L \in SUBSET Tasks /\ U \in SUBSET Tasks
        /\ O \cap U = {} /\ L \cap O = {}
        /\ \A k \in O \cup U : k[1] = h
        /\ \A k \in L \cup O : k[1] = h
    BY <2>3, PlacesDiffer DEF PlacedAt
  <2>5. output[h] = BagOf(v, O) /\ dropped[h] = BagOf(v, L) /\ cur_output[t] = BagOf(v, U)
    BY <1>3, <1>6, <1>10, <2>3 DEF MergedAt
  <2>6. Apart(v)
    BY <1>3
  <2>7. BagOf(v, O) (+) BagOf(v, U) = BagOf(v, O \cup U)
    BY <2>4, <2>6, SumOf
  <2>8. BagOf(v, L) (+) BagOf(v, O) = BagOf(v, L \cup O)
    BY <2>4, <2>6, SumOf
  <2>9. CASE lost
    <3>1. output'[h] = cur_output[t] /\ dropped'[h] = dropped[h] (+) output[h]
      BY <1>4, <1>5, <1>6, <2>9 DEF Merge, AttnInv, AttnTypes
    <3>2. PlacedAt(q, h, Out) = U /\ PlacedAt(q, h, Lost) = L \cup O
      BY <1>9, <2>3, <2>9 DEF Moved
    <3>3. output'[h] = BagOf(v, PlacedAt(q, h, Out)) /\ dropped'[h] = BagOf(v, PlacedAt(q, h, Lost))
      BY <2>5, <2>8, <3>1, <3>2
    <3> QED BY <2>2, <3>3 DEF MergedAt
  <2>10. CASE ~lost
    <3>1. output'[h] = output[h] (+) cur_output[t] /\ dropped'[h] = dropped[h]
      BY <1>4, <1>5, <1>6, <2>10 DEF Merge, AttnInv, AttnTypes
    <3>2. PlacedAt(q, h, Out) = O \cup U /\ PlacedAt(q, h, Lost) = L
      BY <1>9, <2>3, <2>10 DEF Moved
    <3>3. output'[h] = BagOf(v, PlacedAt(q, h, Out)) /\ dropped'[h] = BagOf(v, PlacedAt(q, h, Lost))
      BY <2>5, <2>7, <3>1, <3>2
    <3> QED BY <2>2, <3>3 DEF MergedAt
  <2> QED BY <2>9, <2>10
<1>13. \A u \in AttnThreads \ {t} : /\ pc'[u] = pc[u] /\ cur_head'[u] = cur_head[u]
                                    /\ cur_output'[u] = cur_output[u] /\ block'[u] = block[u]
  BY DEF MergeAndGoOn, MergeAndLeave, AttnInv, AttnTypes
<1>14. SumAt(q, v)' /\ AsideAt(q, v)'
  <2>1. ASSUME NEW u \in AttnThreads, u # t
        PROVE  /\ \A k \in Tasks : q[k] = InSum(u) => pc'[u] # "done" /\ cur_head'[u] = k[1]
               /\ pc'[u] # "done" => /\ cur_head'[u] = NoHead => cur_output'[u] = EmptyBag
                                     /\ cur_head'[u] # NoHead =>
                                          cur_output'[u] = BagOf(v, PlacedAt(q, cur_head'[u], InSum(u)))
    BY <1>3, <1>9, <1>13, <2>1 DEF SumAt, Moved
  <2>2. ASSUME NEW u \in AttnThreads, u # t
        PROVE  /\ \A k \in Tasks : q[k] = Aside(u) => pc'[u] \in {"lock", "merge"} /\ block'[u][1] = k[1]
               /\ pc'[u] \in {"lock", "merge"} =>
                    block'[u][1] \in AttnHeads /\ block'[u][2] = BagOf(v, PlacedAt(q, block'[u][1], Aside(u)))
    BY <1>3, <1>9, <1>13, <2>2 DEF AsideAt, Moved
  <2>3. pc'[t] \in {"idle", "done"} /\ \A k \in Tasks : q[k] # Aside(t)
    BY <1>9 DEF MergeAndGoOn, MergeAndLeave, AttnInv, AttnTypes, Moved
  <2>4. AsideAt(q, v)'
    BY <2>2, <2>3 DEF AsideAt
  <2>5. CASE MergeAndGoOn(t)
    <3>1. PICK g : g = block[t][1]
      OBVIOUS
    <3>2. pc'[t] = "idle" /\ cur_head'[t] = g /\ cur_output'[t] = block[t][2] /\ pc[t] = "merge"
      BY <2>5, <3>1 DEF MergeAndGoOn, NextOutput, AttnInv, AttnTypes
    <3>3. g \in AttnHeads /\ block[t][2] = BagOf(v, PlacedAt(place, g, Aside(t)))
      BY <1>3, <3>1, <3>2 DEF AsideAt
    <3>4. PlacedAt(q, g, InSum(t)) = PlacedAt(place, g, Aside(t))
      BY <1>9 DEF Moved
    <3>5. \A k \in Tasks : q[k] = InSum(t) => k[1] = g
      BY <1>3, <1>9, <3>1 DEF AsideAt, Moved
    <3>6. cur_head'[t] # NoHead /\ cur_output'[t] = BagOf(v, PlacedAt(q, cur_head'[t], InSum(t)))
      BY <3>2, <3>3, <3>4
    <3>7. \A k \in Tasks : q[k] = InSum(t) => pc'[t] # "done" /\ cur_head'[t] = k[1]
      BY <3>2, <3>5
    <3>8. SumAt(q, v)'
      BY <2>1, <3>6, <3>7 DEF SumAt
    <3> QED BY <2>4, <3>8
  <2>6. CASE MergeAndLeave(t)
    <3>1. pc'[t] = "done" /\ pc[t] = "last merge"
      BY <2>6 DEF MergeAndLeave, AttnInv, AttnTypes
    <3>2. \A k \in Tasks : q[k] # InSum(t)
      BY <1>3, <1>9, <3>1 DEF AsideAt, Moved
    <3>3. SumAt(q, v)'
      BY <2>1, <3>1, <3>2 DEF SumAt
    <3> QED BY <2>4, <3>3
  <2> QED BY <2>5, <2>6
<1>15. q \in [Tasks -> Places]
  BY <1>9 DEF Moved
<1> QED BY <1>2, <1>6, <1>11, <1>12, <1>14, <1>15, Again

LEMMA AttnStep == AttnInv /\ [AttnNext]_attnVars => AttnInv'
<1> SUFFICES ASSUME AttnInv, [AttnNext]_attnVars PROVE AttnInv'
  OBVIOUS
<1>1. AttnTypes /\ MutexInv /\ AccountInv
  BY DEF AttnInv
<1>2. AttnTypes' /\ MutexInv'
  BY <1>1, TypesStep, MutexStep
<1>3. AccountInv'
  <2>1. CASE UNCHANGED attnVars
    <3>1. PICK place \in [Tasks -> Places] : Accounted(place, Given)
      BY <1>1 DEF AccountInv
    <3>2. PICK v : v = Given
      OBVIOUS
    <3>3. TodoAt(place)' /\ MergedAt(place, v)' /\ SumAt(place, v)' /\ AsideAt(place, v)'
      BY <2>1, <3>1, <3>2 DEF Accounted, TodoAt, MergedAt, SumAt, AsideAt, attnVars
    <3>4. seqlens' = seqlens
      BY <2>1 DEF attnVars
    <3> QED BY <3>2, <3>3, <3>4, Again
  <2> QED BY <2>1, AccountRuns, AccountStays, AccountMerges DEF AttnNext
<1> QED BY <1>2, <1>3 DEF AttnInv

-----------------------------------------------------------------------------
(* The slots of all tasks of a head are those of its tokens. *)

LEMMA Lengths ==
  /\ AttnBlocks \in Nat \ {0} /\ AttnBlockLen \in Nat \ {0} /\ ByteLen \in Nat \ {0}
  /\ AttnBlockLen % ByteLen = 0
BY KVAttentionAssumption

(* The bits of the mask say which slots come before the end. *)
LEMMA MaskIs ==
  ASSUME NEW n \in 0 .. AttnBlockLen - 1, NEW s \in 0 .. AttnBlockLen - 1
  PROVE  s % ByteLen \in Mask(n)[s \div ByteLen] <=> s < n
<1>1. PICK i, j, k, l : /\ i = s \div ByteLen /\ j = s % ByteLen
                        /\ k = n \div ByteLen /\ l = n % ByteLen
  OBVIOUS
<1>2. /\ i \in Nat /\ j \in 0 .. ByteLen - 1 /\ s = i * ByteLen + j
      /\ k \in Nat /\ l \in 0 .. ByteLen - 1 /\ n = k * ByteLen + l
  <2>1. n \in Nat /\ s \in Nat
    BY Lengths
  <2>2. i \in Nat /\ j \in 0 .. ByteLen - 1 /\ s = i * ByteLen + j
    BY <1>1, <2>1, DivMod, Lengths
  <2>3. k \in Nat /\ l \in 0 .. ByteLen - 1 /\ n = k * ByteLen + l
    BY <1>1, <2>1, DivMod, Lengths
  <2> QED BY <2>2, <2>3
<1>3. s < n <=> (i < k \/ (i = k /\ j < l))
  BY <1>2, DivOrder
<1>4. PICK m \in Nat : m = AttnBlockLen \div ByteLen /\ AttnBlockLen = m * ByteLen + 0
  <2>1. PICK m : m = AttnBlockLen \div ByteLen
    OBVIOUS
  <2>2. m \in Nat /\ AttnBlockLen = m * ByteLen + (AttnBlockLen % ByteLen)
    BY <2>1, DivMod
  <2> QED BY <2>1, <2>2
<1>5. i \in 0 .. m - 1
  <2>1. i * ByteLen + j < m * ByteLen + 0
    BY <1>2, <1>4
  <2>2. i < m \/ (i = m /\ j < 0)
    <3>1. 0 \in 0 .. ByteLen - 1
      BY Lengths
    <3>2. i \in Nat /\ j \in 0 .. ByteLen - 1
      BY <1>2
    <3> QED BY <1>4, <2>1, <3>1, <3>2, DivOrder, Lengths
  <2> QED BY <1>2, <1>4, <2>2
<1>6. Mask(n)[i] = IF i < k THEN 0 .. ByteLen - 1 ELSE IF i = k THEN 0 .. l - 1 ELSE {}
  BY <1>1, <1>4, <1>5 DEF Mask
<1>7. j \in Mask(n)[i] <=> (i < k \/ (i = k /\ j < l))
  <2>1. PICK set : set = Mask(n)[i]
    OBVIOUS
  <2>2. i \in Nat /\ k \in Nat /\ l \in Nat /\ j \in 0 .. ByteLen - 1 /\ j \in Nat
    BY <1>2, Lengths
  <2>3. CASE i < k
    BY <1>6, <2>1, <2>2, <2>3
  <2>4. CASE i = k
    <3>1. set = 0 .. l - 1
      BY <1>6, <2>1, <2>2, <2>4
    <3> QED BY <2>1, <2>2, <2>4, <3>1
  <2>5. CASE k < i
    <3>1. set = {}
      BY <1>6, <2>1, <2>2, <2>5
    <3> QED BY <2>1, <2>2, <2>5, <3>1
  <2> QED BY <2>2, <2>3, <2>4, <2>5
<1> QED BY <1>1, <1>3, <1>7

LEMMA VisitedIs ==
  ASSUME NEW h \in AttnHeads, NEW b \in Nat, seqlens[h] \in Nat
  PROVE  Visited(h, b) = {s \in 0 .. AttnBlockLen - 1 : b * AttnBlockLen + s < seqlens[h]}
<1>1. PICK x, last, n : x = seqlens[h] /\ last = x \div AttnBlockLen /\ n = x % AttnBlockLen
  OBVIOUS
<1>2. x \in Nat /\ last \in Nat /\ n \in 0 .. AttnBlockLen - 1 /\ x = last * AttnBlockLen + n
  BY <1>1, DivMod
<1>3. ASSUME NEW s \in 0 .. AttnBlockLen - 1
      PROVE  b * AttnBlockLen + s < x <=> (b < last \/ (b = last /\ s < n))
  <2>1. s \in 0 .. AttnBlockLen - 1 /\ n \in 0 .. AttnBlockLen - 1 /\ last \in Nat
    BY <1>2
  <2>2. b * AttnBlockLen + s < last * AttnBlockLen + n <=> (b < last \/ (b = last /\ s < n))
    BY <2>1, DivOrder, Lengths
  <2> QED BY <1>2, <2>2
<1>4. Visited(h, b) = IF b < last THEN 0 .. AttnBlockLen - 1
                      ELSE IF b = last
                           THEN {s \in 0 .. AttnBlockLen - 1 : s % ByteLen \in Mask(n)[s \div ByteLen]}
                           ELSE {}
  BY <1>1 DEF Visited
<1>5. CASE b < last
  BY <1>1, <1>3, <1>4, <1>5
<1>6. CASE b = last
  <2>1. \A s \in 0 .. AttnBlockLen - 1 : s % ByteLen \in Mask(n)[s \div ByteLen] <=> s < n
    BY <1>2, MaskIs
  <2>2. \A s \in 0 .. AttnBlockLen - 1 : b * AttnBlockLen + s < x <=> s < n
    BY <1>2, <1>3, <1>6
  <2>3. Visited(h, b) = {s \in 0 .. AttnBlockLen - 1 : s % ByteLen \in Mask(n)[s \div ByteLen]}
    BY <1>2, <1>4, <1>6
  <2> QED BY <1>1, <2>1, <2>2, <2>3
<1>7. CASE last < b
  BY <1>1, <1>2, <1>3, <1>4, <1>7
<1> QED BY <1>2, <1>5, <1>6, <1>7

LEMMA TokensAre ==
  ASSUME AttnTypes, NEW h \in AttnHeads
  PROVE  UNION {Given[k] : k \in {j \in Tasks : j[1] = h}} = Tokens(h)
<1>1. PICK x : x = seqlens[h]
  OBVIOUS
<1>2. x \in 1 .. AttnBlocks * AttnBlockLen /\ AttnBlocks * AttnBlockLen \in Nat
  BY <1>1 DEF AttnTypes
<1>3. \A b \in 0 .. AttnBlocks - 1 : Visited(h, b) = {s \in 0 .. AttnBlockLen - 1 : b * AttnBlockLen + s < x}
  BY <1>1, <1>2, VisitedIs
<1>4. ASSUME NEW p \in 0 .. x - 1
      PROVE  <<p \div AttnBlockLen, p % AttnBlockLen>> \in UNION {Given[k] : k \in {j \in Tasks : j[1] = h}}
  <2>1. PICK b, s : b = p \div AttnBlockLen /\ s = p % AttnBlockLen
    OBVIOUS
  <2>2. b \in Nat /\ s \in 0 .. AttnBlockLen - 1 /\ p = b * AttnBlockLen + s
    <3>1. p \in Nat
      BY <1>2
    <3> QED BY <2>1, <3>1, DivMod, Lengths
  <2>3. b \in 0 .. AttnBlocks - 1
    <3>1. b * AttnBlockLen + s < AttnBlocks * AttnBlockLen + 0
      BY <1>2, <2>2
    <3>2. b < AttnBlocks \/ (b = AttnBlocks /\ s < 0)
      BY <2>2, <3>1, DivOrder
    <3> QED BY <2>2, <3>2
  <2>4. s \in Visited(h, b)
    BY <1>2, <1>3, <2>2, <2>3
  <2>5. <<b, s>> \in Given[<<h, b>>] /\ <<h, b>> \in Tasks /\ <<h, b>>[1] = h
    BY <2>3, <2>4, TaskOf
  <2> QED BY <2>1, <2>5
<1>5. ASSUME NEW k \in Tasks, k[1] = h, NEW e \in Given[k] PROVE e \in Tokens(h)
  <2>1. PICK b \in 0 .. AttnBlocks - 1 : k = <<h, b>>
    BY <1>5 DEF Tasks
  <2>2. PICK s \in Visited(h, b) : e = <<b, s>>
    BY <2>1, TaskOf
  <2>3. s \in 0 .. AttnBlockLen - 1 /\ b * AttnBlockLen + s < x
    BY <1>3, <2>2
  <2>4. PICK p : p = b * AttnBlockLen + s
    OBVIOUS
  <2>5. b * AttnBlockLen \in Nat
    OBVIOUS
  <2>6. p \in 0 .. x - 1 /\ p \div AttnBlockLen = b /\ p % AttnBlockLen = s
    BY <1>2, <2>3, <2>4, <2>5, DivUnique
  <2> QED BY <1>1, <2>2, <2>6 DEF Tokens
<1> QED BY <1>1, <1>4, <1>5 DEF Tokens

(* However the tasks are shared out and the merges interleave, at the end  *)
(* of the job each token of a head is in its output once, or in what was   *)
(* overwritten (attention_layer_, attention_kvhead_).                      *)
THEOREM TokensWeighed == AttnSpec => []EachTokenWeighed
<1>1. AttnInv => EachTokenWeighed
  <2> SUFFICES ASSUME AttnInv, AttnDone, NEW h \in AttnHeads
               PROVE  output[h] (+) dropped[h] = SetToBag(Tokens(h))
    BY DEF EachTokenWeighed
  <2>1. PICK place \in [Tasks -> Places] : Accounted(place, Given)
    BY DEF AttnInv, AccountInv
  <2>2. PICK v : v = Given
    OBVIOUS
  <2>3. TodoAt(place) /\ MergedAt(place, v) /\ SumAt(place, v) /\ AsideAt(place, v) /\ Apart(v)
    BY <2>1, <2>2, GivenApart DEF Accounted
  <2>4. todo = {}
    BY DEF AttnInv, MutexInv, AttnDone
  <2>5. \A k \in Tasks : place[k] \in {Out, Lost}
    <3> SUFFICES ASSUME NEW k \in Tasks PROVE place[k] \in {Out, Lost}
      OBVIOUS
    <3>1. place[k] # Todo
      BY <2>3, <2>4 DEF TodoAt
    <3>2. \A t \in AttnThreads : place[k] # InSum(t) /\ place[k] # Aside(t)
      BY <2>3 DEF SumAt, AsideAt, AttnDone
    <3> QED BY <3>1, <3>2 DEF Places
  <2>6. PICK O, L : O = PlacedAt(place, h, Out) /\ L = PlacedAt(place, h, Lost)
    OBVIOUS
  <2>7. /\ O \in SUBSET Tasks /\ L \in SUBSET Tasks /\ O \cap L = {}
        /\ \A k \in O \cup L : k[1] = h
    BY <2>6, PlacesDiffer DEF PlacedAt
  <2>8. O \cup L = {k \in Tasks : k[1] = h}
    BY <2>5, <2>6 DEF PlacedAt
  <2>9. BagOf(v, O) (+) BagOf(v, L) = BagOf(v, O \cup L)
    BY <2>3, <2>7, SumOf
  <2>10. UNION {v[k] : k \in {j \in Tasks : j[1] = h}} = Tokens(h)
    BY <2>2, TokensAre DEF AttnInv
  <2> QED BY <2>3, <2>6, <2>8, <2>9, <2>10 DEF MergedAt, BagOf
<1>2. AttnSpec => []AttnInv
  BY AttnStarts, AttnStep, PTL DEF AttnSpec
<1> QED BY <1>1, <1>2, PTL
=============================================================================
