------------------------------ MODULE KVAnchors ------------------------------
(***************************************************************************)
(* What orders the blocks of the long-context cache (KVCache leaves that   *)
(* order open): calc_anchor_all_layers summarises the keys of each block   *)
(* after a prefill (ktransformers_ext/operators/kvcache/kvcache_utils.cpp) *)
(* and calculate_block_similarity_layer_ and _kvhead_ compare a query with *)
(* these anchors (kvcache_attn.cpp), for one layer and a batch of one.     *)
(*                                                                         *)
(* An anchor is the set of keys that entered it, a key being its kv head,  *)
(* block and slot; sums, maxima and scales are abstracted, and which       *)
(* tokens of a block are the most important is arbitrary.                  *)
(***************************************************************************)
EXTENDS Integers, FiniteSets, FiniteSetsExt, SequencesExt

CONSTANTS
  AnchorBlockLen,  \* block_len
  AnchorBlocks,    \* max_block_num
  InitBlockNum, LocalBlockNum,
  QHeadNum,        \* q_head_num
  Settings         \* anchor_type, anchor_num, kv_type, kv_head_num, retrieval

ASSUME KVAnchorsAssumption ==
  /\ {AnchorBlockLen, AnchorBlocks, QHeadNum} \subseteq Nat \ {0}
  /\ {InitBlockNum, LocalBlockNum} \subseteq Nat
  /\ \A c \in Settings :
       /\ c.type \in {"DYNAMIC", "BLOCK_MEAN", "BLOCK_MAX", "FIXED", "QUEST"}
       /\ c.kv_type \in {"F16", "Q4_0", "Q8_0"}
       /\ c.anchor_num \in 1 .. AnchorBlockLen
       /\ c.type = "QUEST" => c.anchor_num = 2
       /\ c.type \in {"BLOCK_MEAN", "BLOCK_MAX"} => c.anchor_num = 1
       /\ c.kv_head_num \in 1 .. QHeadNum /\ QHeadNum % c.kv_head_num = 0

VARIABLES
  set,           \* the settings in force
  seq_len,       \* tokens in the cache
  anchored,      \* history: seq_len when the anchors were last computed
  anchor,        \* anchor_: by block, anchor and q head
  table,         \* block_table_before_retrieval_
  block_similar  \* the keys that ranked each entry that competes

anchorVars == <<set, seq_len, anchored, anchor, table, block_similar>>

Entries == 0 .. AnchorBlocks - 1
AnchorSlots == 0 .. AnchorBlockLen - 1
QHeads == 0 .. QHeadNum - 1
n_gqa == QHeadNum \div set.kv_head_num

AnchorInit ==
  /\ set \in Settings
  /\ seq_len = 0 /\ anchored = 0
  /\ anchor = [b \in Entries |-> [a \in 0 .. set.anchor_num - 1 |->
                 [h \in QHeads |-> {}]]]
  /\ table = [i \in Entries |-> i]
  /\ block_similar = [i \in Entries |-> {}]

-----------------------------------------------------------------------------
(* Faulty variants of operators below, to show what the property detects. *)
FromSecond(n) == InitBlockNum + 2 .. n \div AnchorBlockLen - LocalBlockNum - 1

-----------------------------------------------------------------------------
(* calc_anchor_all_layers, for block b of a cache of n tokens *)

(* Slots behind the last token are summarised with the others: they hold   *)
(* whatever the cache holds.                                               *)
NoKey == <<>>
Key(n, k, b, s) == IF b * AnchorBlockLen + s < n THEN <<k, b, s>> ELSE NoKey
Keys(n, k, b, slots) == {Key(n, k, b, s) : s \in slots}

KvHead(h) == h \div n_gqa

(* The anchor_num most important tokens of the block, of each q head; all  *)
(* go to anchor 0.                                                         *)
Dynamic(n, b, top) ==
  [a \in 0 .. set.anchor_num - 1 |-> [h \in QHeads |->
     IF a = 0 THEN Keys(n, KvHead(h), b, top[h]) ELSE {}]]

(* These three leave the anchors cleared when keys are quantised. *)
IsF16 == set.kv_type = "F16"

BlockMean(n, b) ==
  [a \in 0 .. 0 |-> [h \in QHeads |->
     IF IsF16 THEN Keys(n, KvHead(h), b, AnchorSlots) ELSE {}]]

BlockMax(n, b) ==
  [a \in 0 .. 0 |-> [h \in QHeads |->
     IF IsF16 THEN Keys(n, KvHead(h), b, AnchorSlots) ELSE {}]]

FixedAnchor(n, b) ==
  LET stride == AnchorBlockLen \div set.anchor_num
  IN [a \in 0 .. set.anchor_num - 1 |-> [h \in QHeads |->
        IF a = 0 /\ IsF16
        THEN Keys(n, KvHead(h), b, {tot * stride : tot \in 0 .. set.anchor_num - 1})
        ELSE {}]]

(* Maximum and minimum of each kv head, at the place of the q head of the  *)
(* same number, whatever the kind of keys.                                 *)
QuestF16(n, b) ==
  [a \in 0 .. 1 |-> [h \in QHeads |->
     IF h < set.kv_head_num THEN Keys(n, h, b, AnchorSlots) ELSE {}]]

QuestQ4(n, b) ==
  [a \in 0 .. 1 |-> [h \in QHeads |->
     IF h < set.kv_head_num THEN Keys(n, h, b, AnchorSlots) ELSE {}]]

QuestQ8(n, b) ==
  [a \in 0 .. 1 |-> [h \in QHeads |->
     IF h < set.kv_head_num THEN Keys(n, h, b, AnchorSlots) ELSE {}]]

Quest(n, b) ==
  CASE set.kv_type = "F16" -> QuestF16(n, b)
    [] set.kv_type = "Q4_0" -> QuestQ4(n, b)
    [] set.kv_type = "Q8_0" -> QuestQ8(n, b)

Anchors(n, b, top) ==
  CASE set.type = "DYNAMIC" -> Dynamic(n, b, top)
    [] set.type = "BLOCK_MEAN" -> BlockMean(n, b)
    [] set.type = "BLOCK_MAX" -> BlockMax(n, b)
    [] set.type = "FIXED" -> FixedAnchor(n, b)
    [] set.type = "QUEST" -> Quest(n, b)

(* One block after another in block_table, the unfinished one included. *)
Summarised(n) == {b \in Entries : b < (n + AnchorBlockLen - 1) \div AnchorBlockLen
                                  /\ ~(n \div AnchorBlockLen < b)}

Tops == [QHeads -> kSubset(set.anchor_num, AnchorSlots)]

(* A call of KLlamaModel.forward with several tokens: the prompt, or the   *)
(* next one.  (clear_importance_all_layers follows; block_similar_ is      *)
(* cleared when the next attention begins.)                                *)
Prefill ==
  /\ \E n \in seq_len + 2 .. AnchorBlocks * AnchorBlockLen :
       /\ seq_len' = n /\ anchored' = n
       /\ \E top \in IF set.type = "DYNAMIC" THEN Tops ELSE {<<>>} :
            anchor' = [b \in Entries |-> IF b \in Summarised(n)
                                         THEN Anchors(n, b, top) ELSE anchor[b]]
  /\ block_similar' = [i \in Entries |-> {}]
  /\ UNCHANGED <<set, table>>

-----------------------------------------------------------------------------
(* A token is generated: the blocks between the first ones and the local   *)
(* window are compared with the query.  The table maps entries to blocks   *)
(* in some order once blocks were selected after the prefill.              *)
Competing(n) == InitBlockNum .. n \div AnchorBlockLen - LocalBlockNum - 1

(* calculate_block_similarity_layer_ with one anchor per block: one matrix *)
(* product if the entries are consecutive blocks, one per entry if not,    *)
(* which looks the block up in the table a second time.                    *)
Consecutive(n) == InitBlockNum + 1 .. n \div AnchorBlockLen - LocalBlockNum - 1
IsSeq(t, n) == \A i \in Consecutive(n) : t[i] = t[i - 1] + 1

AnchorBlockLayer(t, n, i) ==
  IF IsSeq(t, n) THEN t[InitBlockNum] + i - InitBlockNum ELSE t[t[i]]

(* The same with several anchors *)
AnchorBlockLayers(t, i) == t[i]

(* calculate_block_similarity_kvhead_ *)
AnchorBlockKvHead(t, i) == t[i]

AnchorBlock(t, n, i) ==
  IF set.retrieval = "KVHEAD" THEN AnchorBlockKvHead(t, i)
  ELSE IF set.anchor_num = 1 THEN AnchorBlockLayer(t, n, i)
  ELSE AnchorBlockLayers(t, i)

SimilarKeys(t, n, i) ==
  UNION {{<<h, k>> : k \in anchor[AnchorBlock(t, n, i)][a][h]} :
           a \in 0 .. set.anchor_num - 1, h \in QHeads}

Generate ==
  /\ anchored > 0 /\ seq_len < AnchorBlocks * AnchorBlockLen
  /\ seq_len' = seq_len + 1
  /\ table' \in Bijection(Entries, Entries)
  /\ block_similar' = [i \in Entries |->
       IF i \in Competing(seq_len') THEN SimilarKeys(table', seq_len', i) ELSE {}]
  /\ UNCHANGED <<set, anchored, anchor>>

AnchorNext == Prefill \/ Generate

AnchorSpec == AnchorInit /\ [][AnchorNext]_anchorVars

-----------------------------------------------------------------------------
(* Properties *)

(* Where the ranking is meant to work: a summary of QUEST lands at the     *)
(* q heads only when there are as many kv heads, three kinds of anchors    *)
(* need unquantised keys, and the second lookup of the layer-wise product  *)
(* goes astray when the selected blocks are not consecutive.               *)
HeadsMatch == set.type = "QUEST" => set.kv_head_num = QHeadNum
KeysReadable == set.type \in {"BLOCK_MEAN", "BLOCK_MAX", "FIXED"} => IsF16
LooksUpOnce == set.retrieval = "KVHEAD" \/ set.anchor_num > 1 \/ IsSeq(table, seq_len)

(* A block competes by keys of its own and of the kv head each query head  *)
(* attends to, and, if it was complete when the anchors were computed, by  *)
(* all heads and by no slot without token.  (A block finished in           *)
(* generation keeps the anchor it had, or none.)                           *)
RankedByOwnKeys ==
  HeadsMatch /\ KeysReadable /\ LooksUpOnce =>
    \A i \in Competing(seq_len) :
      LET complete == (table[i] + 1) * AnchorBlockLen <= anchored IN
      /\ \A hk \in block_similar[i] :
           LET h == hk[1]
               k == hk[2]
           IN \/ k # NoKey /\ k[1] = (h * set.kv_head_num) \div QHeadNum /\ k[2] = table[i]
              \/ k = NoKey /\ ~complete
      /\ complete /\ block_similar[i] # {}
         => {hk[1] : hk \in block_similar[i]} = QHeads
=============================================================================
