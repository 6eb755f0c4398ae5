------------------------------ MODULE KVCache ------------------------------
(***************************************************************************)
(* The KV cache of the long-context mode: one conversation of              *)
(* prefill_and_generate (util/utils.py) through KLlamaModel.forward        *)
(* (operators/models.py), DynamicScaledDotProductAttention.apply           *)
(* (operators/dynamic_attention.py) and the C++ KVCache                    *)
(* (ktransformers_ext/operators/kvcache), which keeps the tokens of every  *)
(* layer in blocks of DRAM.                                                *)
(*                                                                         *)
(* A token is the layer it belongs to and its position; its key and its    *)
(* value move together, and quantisation does not change which token a     *)
(* slot holds.  Similarities and importances only order blocks: which ones *)
(* win is arbitrary.  Batch size is 1, as everywhere in apply, and one kv  *)
(* head stands for all of them: SEPARATE selects for each by itself.       *)
(***************************************************************************)
EXTENDS Integers, FiniteSets, SequencesExt

CONSTANTS
  BlockLen,      \* block_size
  BlockNum,      \* max_seq_len // block_size
  LayerNum,
  InitBlocks,    \* init_block_num, which attn_with_kvcache derives from block_len
  Pick,          \* second_select_num, the argument topk
  LocalBlocks,   \* local_windows_len // block_size
  PreCount,      \* preselect_block_count
  ChunkSize,     \* chunk_size of the configuration, prefill_chunk_size
  CallSize,      \* chunk_prefill_size of prefill_and_generate
  Configs        \* the other settings and the prompt length, one record each

ASSUME KVCacheAssumption ==
  /\ {BlockLen, BlockNum, LayerNum, Pick, PreCount} \subseteq Nat \ {0}
  /\ {InitBlocks, LocalBlocks} \subseteq Nat
  /\ {ChunkSize, CallSize} \subseteq Nat \ {0, 1}
  /\ PreCount + LocalBlocks + 1 <= BlockNum
  /\ \A c \in Configs :
       /\ {c.preselect, c.separate} \subseteq BOOLEAN
       /\ {c.layerStep, c.tokenStep} \subseteq Nat \ {0}
       /\ LayerNum % c.layerStep = 0 /\ c.dense \in 0 .. LayerNum
       /\ c.prompt \in 1 .. BlockNum * BlockLen

Layers == 0 .. LayerNum - 1
Blocks == 0 .. BlockNum - 1
Slots == 0 .. BlockLen - 1
MaxSeqLen == BlockNum * BlockLen

VARIABLES
  conf,          \* the configuration in force
  store,         \* k_cache_/v_cache_: layer, block, slot
  staging,       \* cache_key_states on the GPU, shared by the layers
  block_table,   \* block_table_cpu, pinned, shared by the layers
  preselect_block_table,
  prefill_block_num,  \* -1: the attribute does not exist yet
  evict_tokens,
  generate_token_idx,
  history,       \* selected_blocks_history_ with its length, by layer group
  len,           \* tokens every layer has processed
  callEnd,       \* length the running call of the model will reach
  remaining_length,
  q_len,         \* tokens of the running forward_chunk, 0 between two
  layer,         \* next layer the host issues
  played,        \* next layer the stream and the CPU execute
  failed,        \* Python raised an exception
  att            \* what the last attention saw

vars == <<conf, store, staging, block_table, preselect_block_table,
          prefill_block_num, evict_tokens, generate_token_idx, history, len,
          callEnd, remaining_length, q_len, layer, played, failed, att>>
prefillVars == <<preselect_block_table, prefill_block_num, evict_tokens>>

None == <<>>
Token(l, p) == <<l, p>>

MinOf(a, b) == IF a <= b THEN a ELSE b
MaxOf(a, b) == IF a >= b THEN a ELSE b
BlocksFor(n) == (n + BlockLen - 1) \div BlockLen
Ascending == [i \in 1 .. BlockNum |-> i - 1]     \* prefix_block_table

(* Element b of a table; tables are indexed from 0 in the code. *)
At(table, b) == table[b + 1]

Init ==
  /\ conf \in Configs
  /\ store = [l \in Layers |-> [b \in Blocks |-> [s \in Slots |-> None]]]
  /\ staging = [b \in Blocks |-> [s \in Slots |-> None]]
  /\ block_table = Ascending
  /\ preselect_block_table = [l \in Layers |-> [i \in 1 .. PreCount |-> 0]]
  /\ prefill_block_num = -1 /\ evict_tokens = 0
  /\ generate_token_idx = 0
  /\ history = [g \in Layers |-> <<>>]
  /\ len = 0 /\ callEnd = 0 /\ remaining_length = 0 /\ q_len = 0
  /\ layer = 0 /\ played = 0
  /\ failed = FALSE
  /\ att = [how |-> "none", layer |-> 0, upto |-> 0, tokens |-> <<>>]

-----------------------------------------------------------------------------
(* Faulty variants of operators below, to show what each property detects. *)
WholeBlocksCached(b, s) == (b + 1) * BlockLen <= len
UnmappedTable(l) == Ascending
OverlappingMiddle(n) == 0 .. n \div BlockLen - LocalBlocks - 1
ForgottenBoundary(h, table, n) == h

-----------------------------------------------------------------------------
(* The calls of the model: prefill_and_generate passes the prompt in pieces *)
(* of CallSize tokens, forward cuts a piece in chunks, then one token at a  *)
(* time is generated while max_seq_len allows it.                           *)
Idle == q_len = 0 /\ ~failed

Call(tokens) ==
  /\ callEnd' = len + tokens
  /\ remaining_length' = IF tokens > ChunkSize THEN tokens ELSE remaining_length
  /\ q_len' = MinOf(ChunkSize, tokens)
  /\ UNCHANGED <<conf, store, staging, block_table, prefillVars,
                 generate_token_idx, history, len, layer, played, failed, att>>

PrefillCall == Idle /\ len < conf.prompt
               /\ Call(MinOf(CallSize, conf.prompt - len))

DecodeCall == Idle /\ len >= conf.prompt /\ len < MaxSeqLen /\ Call(1)

(* The end of forward_chunk, and forward's loop over the chunks.  The next *)
(* call starts after the host has synchronised with the device.  The       *)
(* anchors and importances computed here only rank blocks.                 *)
EndChunk ==
  /\ q_len > 0 /\ layer = LayerNum /\ played = LayerNum
  /\ len' = len + q_len
  /\ q_len' = MinOf(ChunkSize, callEnd - len')
  /\ remaining_length' = IF remaining_length > 0 THEN remaining_length - q_len
                         ELSE 0
  /\ layer' = 0 /\ played' = 0
  /\ UNCHANGED <<conf, store, staging, block_table, prefillVars,
                 generate_token_idx, history, callEnd, failed, att>>

LastChunk == remaining_length <= ChunkSize /\ q_len # 1

-----------------------------------------------------------------------------
(* A chunk of several tokens through one layer: submit() then sync(), so   *)
(* that host, device and CPU advance together.                             *)

(* get_and_update_kvcache_fp16 reads the slots of earlier tokens ... *)
Cached(b, s) == b * BlockLen + s < len

(* ... and writes those of the new ones. *)
New(b, s) == b * BlockLen + s \in len .. len + q_len - 1

(* The tokens swap_in_and_swap_out gives to the attention of layer l: new  *)
(* ones over whatever the buffer holds, then the round trip to DRAM.       *)
Swapped(l) ==
  [b \in Blocks |-> [s \in Slots |->
     IF New(b, s) THEN Token(l, b * BlockLen + s)
     ELSE IF Cached(b, s) THEN store[l][b][s]
     ELSE staging[b][s]]]

SwapInAndOut(l) ==
  LET data == Swapped(l)
  IN /\ staging' = data
     /\ store' = [store EXCEPT ![l] =
          [b \in Blocks |-> [s \in Slots |->
             IF New(b, s) THEN data[b][s] ELSE store[l][b][s]]]]
     /\ att' = [how |-> "prefill", layer |-> l, upto |-> len + q_len,
                tokens |-> [p \in 0 .. len + q_len - 1 |->
                              data[p \div BlockLen][p % BlockLen]]]

(* get_preselect_block_table_and_attn_score: the blocks before the local   *)
(* window that generation may use, in an arbitrary order of importance.    *)
(* The union with the last layer replaces entries by others not in the     *)
(* row: rows stay repetition-free, which is all that is said of them.      *)
Candidates == 1 .. MinOf(PreCount, prefill_block_num')

Preselect(l) ==
  IF ~(LastChunk /\ conf.preselect) THEN UNCHANGED prefillVars
  ELSE /\ prefill_block_num' = MaxOf(0, BlocksFor(len + q_len) - LocalBlocks)
       /\ evict_tokens' = MaxOf(prefill_block_num' - PreCount, 0) * BlockLen
       /\ \E row \in Injection(Candidates, 0 .. prefill_block_num' - 1) :
            preselect_block_table' = [preselect_block_table EXCEPT ![l] =
              [i \in 1 .. PreCount |->
                 IF i \in Candidates THEN row[i] ELSE @[i]]]

PrefillLayer ==
  /\ q_len > 1 /\ layer < LayerNum /\ ~failed
  /\ generate_token_idx' = IF layer = 0 /\ LastChunk THEN -1
                           ELSE generate_token_idx
  /\ SwapInAndOut(layer)
  /\ Preselect(layer)
  /\ layer' = layer + 1 /\ played' = played + 1
  /\ UNCHANGED <<conf, block_table, history, len, callEnd, remaining_length,
                 q_len, failed>>

-----------------------------------------------------------------------------
(* One token through one layer.  The host only enqueues device copies and  *)
(* host functions, and goes on to the next layer; but block_table_cpu and  *)
(* prefix_block_table are both in host memory, so that a copy between them *)
(* takes place when the host issues it.                                    *)
Sparse(l) == l >= conf.dense
Evicting(l) == Sparse(l) /\ conf.preselect /\ PreCount < prefill_block_num

(* prefill_block_num is read before it is ever set, or the slice of        *)
(* prefix_block_table is shorter than its destination.                     *)
Raises(l) ==
  /\ Sparse(l) /\ conf.preselect
  /\ \/ prefill_block_num = -1
     \/ Evicting(l) /\ prefill_block_num + LocalBlocks + 1 > BlockNum

LocalPart == PreCount .. PreCount + LocalBlocks

IssueLayer ==
  /\ q_len = 1 /\ layer < LayerNum /\ ~failed /\ ~Raises(layer)
  /\ generate_token_idx' = IF layer = 0 THEN generate_token_idx + 1
                           ELSE generate_token_idx
  /\ block_table' =
       IF Evicting(layer)
       THEN [i \in 1 .. BlockNum |->
               IF i - 1 \in LocalPart
               THEN prefill_block_num + (i - 1) - PreCount
               ELSE block_table[i]]
       ELSE IF Sparse(layer) /\ conf.preselect THEN block_table
       ELSE Ascending
  /\ layer' = layer + 1
  /\ UNCHANGED <<conf, store, staging, prefillVars, history, len, callEnd,
                 remaining_length, q_len, played, failed, att>>

IssueRaises ==
  /\ q_len = 1 /\ layer < LayerNum /\ ~failed /\ Raises(layer)
  /\ failed' = TRUE
  /\ UNCHANGED <<conf, store, staging, block_table, prefillVars,
                 generate_token_idx, history, len, callEnd, remaining_length,
                 q_len, layer, played, att>>

-----------------------------------------------------------------------------
(* The CPU side: KVCache::attn_with_kvcache for layer l. *)

(* The table when the task runs.  The row of the layer is copied from the  *)
(* device in stream order; the host writes no entry of it in between.      *)
TableFor(l) ==
  IF Evicting(l)
  THEN [i \in 1 .. BlockNum |->
          IF i <= PreCount THEN preselect_block_table[l][i] ELSE block_table[i]]
  ELSE block_table

PastFor(l) == IF Sparse(l) /\ conf.preselect THEN len - evict_tokens ELSE len

(* update_kvcache_fp16 with q_len = 1 *)
Updated(l, table, past) ==
  [store EXCEPT ![l][At(table, past \div BlockLen)][past % BlockLen] =
     Token(l, len)]

(* topk as apply and the wrapper of attn_with_kvcache pass it *)
Picks(l) ==
  /\ Sparse(l)
  /\ ~(conf.preselect /\ Pick > PreCount)
  /\ Pick + LocalBlocks < BlockNum

Offset == conf.dense % conf.layerStep
Group(l) == IF l < Offset THEN 0 ELSE (l - Offset) \div conf.layerStep

Chosen == InitBlocks + Pick + LocalBlocks

(* What a retrieval leaves to the attention: a table, how many entries of  *)
(* it are visited, the length it is worth; and the new history.            *)
Outcome(how, table, visited, length, h) ==
  [how |-> how, table |-> table, visited |-> visited, length |-> length,
   history |-> h]

Whole(how, table, n) == Outcome(how, table, BlockNum, n, <<>>)

(* select_block_layer_, select_block_kvhead_ *)
InitPart(table) == SubSeq(table, 1, InitBlocks)

LocalEnd(table, n) ==
  [i \in 1 .. LocalBlocks |->
     At(table, n \div BlockLen - LocalBlocks + i - 1)]

Unfinished(table, n) ==
  IF n % BlockLen = 0 THEN <<>> ELSE <<At(table, n \div BlockLen)>>

SelectedLength(n) == (n % BlockLen) + Chosen * BlockLen

(* The entries that compete by their similarity to the query *)
Middle(n) == InitBlocks .. n \div BlockLen - LocalBlocks - 1

Selection(table, n, top) ==
  InitPart(table) \o [i \in 1 .. Pick |-> At(table, top[i])]
  \o LocalEnd(table, n) \o Unfinished(table, n)

Selections(table, n) ==
  LET visited == MinOf(BlockNum, Chosen + 1)
  IN IF n \div BlockLen <= Chosen
     THEN {Outcome("retrieve", table, visited, n, <<>>)}
     ELSE {LET t == Selection(table, n, top)
           IN Outcome("retrieve", t, visited, SelectedLength(n), t) :
             top \in Injection(1 .. Pick, Middle(n))}

(* The first branch of retrieval_kvcache_layer_ and of                     *)
(* retrieval_kvcache_kvhead_: a selection made before is used again.       *)
Extended(h, table, n) ==
  IF n % BlockLen = 1 THEN Append(h, At(table, n \div BlockLen)) ELSE h

ReusedLengthLayer(h, n) == (n % BlockLen) + Len(h) * BlockLen - BlockLen
ReusedLengthKvHead(n) == MinOf(n, SelectedLength(n))

Reuse(h, table, n) ==
  IF h = <<>> THEN Whole("reuse", table, n)
  ELSE LET t == Extended(h, table, n)
       IN Outcome("reuse", t, Len(h),
                  IF conf.separate THEN ReusedLengthKvHead(n)
                  ELSE ReusedLengthLayer(t, n), t)

Retrieved(l, table, n) ==
  IF ~Picks(l) THEN {Whole("dense", table, n)}
  ELSE IF \/ generate_token_idx % conf.tokenStep # 0
          \/ l % conf.layerStep # Offset
       THEN {Reuse(history[Group(l)], table, n)}
       ELSE Selections(table, n)

(* attention_layer_, attention_kvhead_: the slots visited, by their        *)
(* position in the table, and the tokens they hold.                        *)
Attended(l, o, st) ==
  [p \in 0 .. MinOf(o.length, o.visited * BlockLen) - 1 |->
     st[l][At(o.table, p \div BlockLen)][p % BlockLen]]

PlayLayer ==
  /\ q_len = 1 /\ played < layer
  /\ LET l == played
         table == TableFor(l)
         past == PastFor(l)
     IN /\ block_table' = table
        /\ store' = Updated(l, table, past)
        /\ \E o \in Retrieved(l, table, past + 1) :
             /\ history' = [history EXCEPT ![Group(l)] = o.history]
             /\ att' = [how |-> o.how, layer |-> l, upto |-> len + 1,
                        tokens |-> Attended(l, o, store')]
  /\ played' = played + 1
  /\ UNCHANGED <<conf, staging, prefillVars, generate_token_idx, len, callEnd,
                 remaining_length, q_len, layer, failed>>

Next == PrefillCall \/ DecodeCall \/ EndChunk \/ PrefillLayer \/ IssueLayer
        \/ IssueRaises \/ PlayLayer

Spec == Init /\ [][Next]_vars

-----------------------------------------------------------------------------
(* Properties. *)

Seen == {att.tokens[p] : p \in DOMAIN att.tokens}
SeesEverything == att.tokens = [p \in 0 .. att.upto - 1 |-> Token(att.layer, p)]

(* Past its room - the blocks of the local window and one more - a layer   *)
(* that evicts maps new tokens onto entries the table had before.  Without *)
(* a local window even the unfinished block of the prompt is out of room:  *)
(* its place in the table may belong to a preselected block.               *)
InRoom(l, n) ==
  Evicting(l) => LocalBlocks > 0 /\ n <= (prefill_block_num + LocalBlocks + 1) * BlockLen

(* A layer whose table another layer's issue may overwrite before it runs. *)
Overtaken(l) == ~Sparse(l) /\ \E k \in Layers : Evicting(k)

(* Prefill attention sees every token up to the newest, in order, of its   *)
(* own layer, though the GPU buffer is shared by the layers and the rest   *)
(* comes back from DRAM; so does a dense layer while nothing is evicted.   *)
WholeContext ==
  \/ att.how = "prefill"
  \/ att.how = "dense" /\ att.layer < conf.dense /\ ~Overtaken(att.layer)
  => SeesEverything

(* No token of the conversation is ever overwritten in the cache of a      *)
(* layer, evicted or not, as long as generation stays in its room.         *)
NothingLost ==
  \A l \in Layers : \A p \in 0 .. len - 1 :
    InRoom(l, len + 1) /\ ~Overtaken(l)
    => \E b \in Blocks : store[l][b][p % BlockLen] = Token(l, p)

(* Generation never sees the same token twice, nor a slot that holds no    *)
(* token of its layer, whatever selection was made or reused (layer_step 1 *)
(* only: a group of layers extends its shared history once per layer).     *)
EachTokenOnce ==
  conf.layerStep = 1 /\ InRoom(att.layer, att.upto) /\ ~Overtaken(att.layer)
  => /\ None \notin Seen
     /\ \A p, r \in DOMAIN att.tokens :
          att.tokens[p] = att.tokens[r] => p = r

(* A selection used again (SHARED, layer_step 1) misses the newest token   *)
(* only at a block boundary: when it fills its block, or begins one.  Not  *)
(* so if pieces of the prompt end in a chunk of a single token: that one   *)
(* is treated as a generated token, and may use a selection made before    *)
(* the whole piece.                                                        *)
ReuseGap ==
  /\ att.how = "reuse" /\ ~conf.separate /\ conf.layerStep = 1
  /\ CallSize % ChunkSize # 1
  /\ InRoom(att.layer, att.upto)
  /\ Token(att.layer, att.upto - 1) \notin Seen
  => att.upto % BlockLen \in {0, 1}

(* doc/en/long_context_introduction.md of dense_layer_num: "Number of      *)
(* Initial Layers Without KVCache Selection, Importing All KVCache".       *)
DenseImportsAll == att.how = "dense" /\ att.layer < conf.dense => SeesEverything
=============================================================================
