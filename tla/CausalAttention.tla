-------------------------- MODULE CausalAttention --------------------------
(***************************************************************************)
(* What the attention of a layer reads, over the prompts and the tokens of *)
(* a process: the static cache and its page table, the chunks of a prompt, *)
(* the forwards of the models with their masks, the attention classes and  *)
(* kernels (operators/attention.py, the Triton and flashinfer kernels, the *)
(* classes of modeling_*.py), the plan of the MLA wrapper, the CUDA graph, *)
(* and the two drivers, prefill_and_generate and KTransformersInterface.   *)
(*                                                                         *)
(* A token is the number of the prompt it belongs to; its key is the token *)
(* and stands in the slot of its position; 0 is a slot of zeroes.  What a  *)
(* query reads is a set of <<slot, split>>: a slot is read by one of the   *)
(* splits of the decoding kernel, by split 0 everywhere else.              *)
(***************************************************************************)
EXTENDS Integers

Archs == {"DeepseekV2", "DeepseekV3", "Qwen2Moe", "Mixtral", "Llama"}
Impls == {"eager", "flash_attention_2", "sdpa"}

(* The configurations of a process that the code lets exist, with one      *)
(* layer of its model: its family, whether rules replaced the model, how   *)
(* attention is implemented, whether it takes forward_windows (Windows,    *)
(* GPUs before Ampere or not of NVIDIA), and config.sliding_window with    *)
(* use_sliding_window below max_window_layers ("on") or without ("off").   *)
(* The server takes attn_implementation from config.json.                  *)
SessionConfigs ==
  {c \in [arch : Archs, injected : BOOLEAN, server : BOOLEAN, impl : Impls,
          windows : BOOLEAN, flashinfer : BOOLEAN, absorb : BOOLEAN,
          graph : BOOLEAN, window : {"none", "off", "on"}, threshold : Nat] :
     /\ c.arch = "Qwen2Moe" => c.impl = "flash_attention_2"
     /\ c.arch = "Mixtral" /\ ~c.server => c.impl = "flash_attention_2"
     /\ c.arch = "Llama" /\ ~c.server => c.impl = "eager"
     /\ c.arch \in {"DeepseekV2", "DeepseekV3"} => c.impl # "sdpa"
     /\ c.arch = "DeepseekV3" => c.injected
     /\ c.arch \in {"Mixtral", "Llama"} => ~c.injected /\ c.window # "on"
     /\ c.windows => c.arch \in {"DeepseekV2", "DeepseekV3"}
     /\ c.window # "none" => c.arch \in {"Qwen2Moe", "Mixtral"}
     /\ c.threshold # 0 => c.injected}

CONSTANTS
  AttnConfigs,       \* the configurations considered
  CacheLens,         \* cache_lens of the server
  CachePage,         \* page_size of the MLA cache
  ChunkPrefillSize,  \* chunk_prefill_size of the drivers
  ChunckSize,        \* chunck_size of forward_windows
  SlidingWindow,     \* config.sliding_window, where there is one
  MaxNewTokens,      \* max_new_tokens
  MaxPrompt,         \* bound on the tokens of the prompt of local_chat
  MaxPrompts         \* bound on the prompts of a behaviour

ASSUME CausalAttentionAssumption ==
  /\ AttnConfigs \subseteq SessionConfigs
  /\ CacheLens \in Nat /\ MaxPrompt \in Nat /\ MaxPrompts \in Nat
  /\ CachePage \in Nat \ {0} /\ ChunkPrefillSize \in Nat \ {0}
  /\ ChunckSize \in Nat \ {0} /\ SlidingWindow \in Nat \ {0}
  /\ MaxNewTokens \in Nat \ {0}

VARIABLES
  conf,           \* one of AttnConfigs
  key_cache,      \* token whose key is in each slot of the layer
  cache_len,      \* max_cache_len
  past_tokens,    \* past_tokens of the layer
  generated_ids,  \* tokens of the conversation
  seq_length,     \* how many they are
  ids_len,        \* length of the tensor generated_ids (of the server)
  chunk_start,    \* position where the next chunk of the prompt starts
  stop_at,        \* seq_length at which generation ends at the latest
  stage,          \* where the driver is
  mla_wrapper,    \* MLAWrapperSingleton: made, need_plan, and its plan
  runner,         \* warm_uped and cuda_graph_runner
  asked,          \* history: the positions of the last forward
  attended,       \* history: what each of its queries read
  sampled_from,   \* history: position whose logits gave the last token
  gaps,           \* history: positions of the prefix that have no key
  lag,            \* history: of these, those later than the last prompt
                  \* of a new thread
  prompts         \* how many prompts there were

cacheVars == <<key_cache, cache_len, past_tokens>>
driverVars == <<generated_ids, seq_length, ids_len, chunk_start, stop_at, stage>>
kernelVars == <<mla_wrapper, runner>>
seenVars == <<asked, attended, sampled_from>>
sessionVars == <<conf, cacheVars, driverVars, kernelVars, seenVars, gaps, lag, prompts>>

MLA == conf.arch \in {"DeepseekV2", "DeepseekV3"}

-----------------------------------------------------------------------------
(* StaticCache *)

EmptyCache(len) == [s \in 0 .. len - 1 |-> 0]
CacheSlots == DOMAIN key_cache

\* page_idx, page_offset, and back through page_table (the identity).
SlotOf(p) == IF MLA THEN (p \div CachePage) * CachePage + (p % CachePage) ELSE p

(* A forward f of f.n positions from f.first, with the plan f.plan of the  *)
(* wrapper; not live if it is a replay of the captured graph, in which the *)
(* kernels run and the Python of the layers does not.                      *)
Rows(f) == 0 .. f.n - 1

Updated(f) ==
  [s \in CacheSlots |->
     IF \E r \in Rows(f) : SlotOf(f.first + r) = s
     THEN generated_ids[f.first + (CHOOSE r \in Rows(f) : SlotOf(f.first + r) = s)]
     ELSE key_cache[s]]

SuffixRemoved(k) ==
  [s \in CacheSlots |-> IF s < k THEN key_cache[s] ELSE 0]

UsableLength(n) ==
  IF past_tokens + n > cache_len THEN cache_len - n ELSE past_tokens
KvSeqLen(f) == f.n + UsableLength(f.n)

-----------------------------------------------------------------------------
(* Masks, and what an attention returns *)

NoMask == [given |-> FALSE, cells |-> {}]

\* triu, unless there is one row, times the columns after cache_position.
UpdateCausalMask(f) ==
  IF conf.impl = "flash_attention_2" THEN NoMask
  ELSE [given |-> TRUE,
        cells |-> {x \in Rows(f) \X CacheSlots :
                     ~((f.n # 1 => x[2] > x[1]) /\ x[2] > f.first + x[1])}]

RaisesError == [raised |-> TRUE, reads |-> <<>>]
Reads(reads) == [raised |-> FALSE, reads |-> reads]

FirstSlots(len) == (0 .. len - 1) \X {0}
Unmasked(f, mask) ==
  [r \in Rows(f) |-> {x \in CacheSlots \X {0} : <<r, x[1]>> \in mask.cells}]

\* flash_attn_func, causal: the last query goes with the last of len keys.
FlashAttn(f, len) == [r \in Rows(f) |-> FirstSlots(len - f.n + r + 1)]

-----------------------------------------------------------------------------
(* KDeepseekV2Attention *)

\* Up to chunck_size queries, the cache cut to the width of the mask.
ForwardChunck(f, mask) ==
  IF mask.given THEN Reads(Unmasked(f, mask)) ELSE RaisesError

\* More of them by pieces, with their rows of the mask, or with one that
\* takes the first query for position 0.  A piece stands for its own rows:
\* it writes its keys first, and reads none of a later piece.
ForwardWindows(f, mask) ==
  IF f.n <= ChunckSize THEN ForwardChunck(f, mask)
  ELSE IF mask.given THEN Reads(Unmasked(f, mask))
  ELSE Reads([r \in Rows(f) |->
                LET cur_idx == (r \div ChunckSize) * ChunckSize
                IN  FirstSlots(cur_idx + (r % ChunckSize) + 1)])

KvSplits == 4
Splits == 0 .. KvSplits - 1
KvLenPerSplit(len) == (len + KvSplits - 1) \div KvSplits
SplitStart(s, len) == KvLenPerSplit(len) * s
SplitEnd(s, len) ==
  IF SplitStart(s, len) + KvLenPerSplit(len) <= len
  THEN SplitStart(s, len) + KvLenPerSplit(len) ELSE len

\* Stage 1 of the Triton kernel leaves one partial result for each split,
\* stage 2 puts together those of the splits that are not empty.
SplitReads(s, len) ==
  {SlotOf(i) : i \in SplitStart(s, len) .. SplitEnd(s, len) - 1} \X {s}
DecodeGrouped(len) ==
  UNION {SplitReads(s, len) :
           s \in {t \in Splits : SplitEnd(t, len) > SplitStart(t, len)}}

\* Several queries take the first kv_seq_len slots of the cache.
FlashPrefill(f) == Reads(FlashAttn(f, KvSeqLen(f)))

ForwardTriton(f) ==
  IF f.n = 1 THEN Reads([r \in Rows(f) |-> DecodeGrouped(f.first + 1)])
  ELSE FlashPrefill(f)

\* The wrapper is made, and planned if it has to be, by the first layer.
Absorbs(f) == f.n = 1 \/ conf.absorb
PlannedLen(f) ==
  IF f.plan.made /\ ~f.plan.need THEN f.plan.kv_len ELSE f.first + f.n
PlanAfter(f) ==
  IF MLA /\ conf.flashinfer /\ ~conf.windows /\ Absorbs(f)
  THEN [made |-> TRUE, need |-> FALSE, kv_len |-> PlannedLen(f)] ELSE f.plan

ForwardFlashinfer(f) ==
  IF Absorbs(f) THEN Reads(FlashAttn(f, PlannedLen(f))) ELSE FlashPrefill(f)

KDeepseekV2Attention(f, mask) ==
  IF conf.windows THEN ForwardWindows(f, mask)
  ELSE IF conf.flashinfer THEN ForwardFlashinfer(f)
  ELSE ForwardTriton(f)

-----------------------------------------------------------------------------
(* The attention classes of the models *)

Windowed(f) == f.live /\ conf.window # "none" /\ KvSeqLen(f) > SlidingWindow

\* One query takes as many keys as its position says, so not its own.
KvcacheOrFlash(f) ==
  IF f.n = 1 THEN [r \in Rows(f) |-> FirstSlots(f.first)]
  ELSE FlashAttn(f, f.first + f.n)

Qwen2MoeFlash(f) ==
  IF Windowed(f) /\ conf.window = "on"
  THEN [r \in Rows(f) |->
          {x \in FirstSlots(f.first + r + 1) : x[1] >= f.first + r - SlidingWindow}]
  ELSE KvcacheOrFlash(f)

\* past_key_value[layer_idx] is not there in a StaticCache.
Qwen2MoeFlashAttention2(f) ==
  IF Windowed(f) /\ past_tokens > 0 THEN RaisesError ELSE Reads(Qwen2MoeFlash(f))

\* It never slides, but reads use_sliding_window, which MixtralConfig lacks.
MixtralFlash(f) == KvcacheOrFlash(f)
MixtralFlashAttention2(f) ==
  IF Windowed(f) THEN RaisesError ELSE Reads(MixtralFlash(f))

\* The weights are as wide as the cache, kv_seq_len has to be too.
MixtralAttention(f, mask) ==
  IF f.live /\ KvSeqLen(f) # cache_len THEN RaisesError ELSE Reads(Unmasked(f, mask))

\* Without a mask, is_causal starts at the first key.
MixtralSdpaAttention(f, mask) ==
  Reads(IF mask.given THEN Unmasked(f, mask)
        ELSE [r \in Rows(f) |-> FirstSlots(r + 1)])

LlamaAttention(f, mask) ==
  Reads(IF mask.given THEN Unmasked(f, mask)
        ELSE [r \in Rows(f) |-> CacheSlots \X {0}])
LlamaFlashAttention2 == RaisesError
LlamaSdpaAttention(f, mask) == MixtralSdpaAttention(f, mask)

-----------------------------------------------------------------------------
(* The models: the mask a forward hands to its layers, to be forgotten by  *)
(* those that do without.                                                  *)

LongPrefill(f) == conf.threshold # 0 /\ conf.threshold < f.n

KDeepseekV2Model(f) ==
  KDeepseekV2Attention(f, IF LongPrefill(f) \/ ~conf.windows THEN NoMask
                          ELSE UpdateCausalMask(f))
DeepseekV2Model(f) == KDeepseekV2Attention(f, UpdateCausalMask(f))

\* Their masks are none: the implementation is always flash_attention_2.
KQwen2MoeModel(f) == Qwen2MoeFlashAttention2(f)
Qwen2MoeModel(f) == Qwen2MoeFlashAttention2(f)

MixtralModel(f) ==
  CASE conf.impl = "eager" -> MixtralAttention(f, UpdateCausalMask(f))
    [] conf.impl = "sdpa" -> MixtralSdpaAttention(f, UpdateCausalMask(f))
    [] OTHER -> MixtralFlashAttention2(f)

LlamaModel(f) ==
  CASE conf.impl = "eager" -> LlamaAttention(f, UpdateCausalMask(f))
    [] conf.impl = "sdpa" -> LlamaSdpaAttention(f, UpdateCausalMask(f))
    [] OTHER -> LlamaFlashAttention2

ModelForward(f) ==
  CASE MLA -> IF conf.injected THEN KDeepseekV2Model(f) ELSE DeepseekV2Model(f)
    [] conf.arch = "Qwen2Moe" ->
         IF conf.injected THEN KQwen2MoeModel(f) ELSE Qwen2MoeModel(f)
    [] conf.arch = "Mixtral" -> MixtralModel(f)
    [] OTHER -> LlamaModel(f)

\* Rows the ...ForCausalLM return logits of; the drivers take the last.
DeepseekV2Logits(f) == {f.n - 1}
DeepseekV3Logits(f) == {f.n - 1}
Qwen2MoeLogits(f) == Rows(f)
MixtralLogits(f) == Rows(f)
LlamaLogits(f) == Rows(f)
LogitRows(f) ==
  CASE conf.arch = "DeepseekV2" -> DeepseekV2Logits(f)
    [] conf.arch = "DeepseekV3" -> DeepseekV3Logits(f)
    [] conf.arch = "Qwen2Moe" -> Qwen2MoeLogits(f)
    [] conf.arch = "Mixtral" -> MixtralLogits(f)
    [] OTHER -> LlamaLogits(f)
LastRow(rows) == CHOOSE r \in rows : \A q \in rows : q <= r

-----------------------------------------------------------------------------
(* Forwards *)

\* What the layer is left with by a forward that returns, python counting
\* it bias times more than its own update.
Attend(f, bias) ==
  /\ key_cache' = Updated(f)
  /\ past_tokens' = past_tokens + f.n + bias
  /\ mla_wrapper' = PlanAfter(f)
  /\ asked' = [first |-> f.first, n |-> f.n]
  /\ attended' = ModelForward(f).reads

\* The bound of the model: an error ends the behaviour.
Fail ==
  /\ stage' = "raised" /\ attended' = <<>>
  /\ UNCHANGED <<conf, cacheVars, generated_ids, seq_length, ids_len,
                 chunk_start, stop_at, kernelVars, asked, sampled_from,
                 gaps, lag, prompts>>

Sample(f) == sampled_from' = f.first + LastRow(LogitRows(f))
AppendToken ==
  /\ generated_ids' = [p \in 0 .. seq_length |->
                         IF p = seq_length THEN prompts ELSE generated_ids[p]]
  /\ seq_length' = seq_length + 1

-----------------------------------------------------------------------------
(* Prompts *)

AtMost(a, b) == IF a <= b THEN a ELSE b

NewTokens(from, n) ==
  /\ seq_length' = from + n
  /\ generated_ids' = [p \in 0 .. from + n - 1 |->
                         IF p < from THEN generated_ids[p] ELSE prompts + 1]
  /\ chunk_start' = from /\ stage' = "prefill" /\ attended' = <<>>
  /\ prompts' = prompts + 1

(* local_chat: one prompt, with a cache for it and its answer. *)
ChatPrompt(n) ==
  /\ ~conf.server /\ stage = "idle"
  /\ NewTokens(0, n)
  /\ cache_len' = n + MaxNewTokens
  /\ key_cache' = EmptyCache(n + MaxNewTokens) /\ past_tokens' = 0
  /\ ids_len' = n + MaxNewTokens + 1
  /\ UNCHANGED <<conf, stop_at, kernelVars, asked, sampled_from, gaps, lag>>

Takes == conf.server /\ stage \in {"idle", "decode", "stopped"} /\ prompts < MaxPrompts

(* The server, for a new thread: the first k tokens are those of the last  *)
(* conversation, whose last token is not compared.  Prompts that do not    *)
(* fit are in InferenceServer.                                             *)
NewThread(k, n) ==
  /\ Takes /\ (IF seq_length = 0 THEN k = 0 ELSE k < seq_length)
  /\ k + n < CacheLens
  /\ NewTokens(k, n)
  /\ key_cache' = SuffixRemoved(k) /\ past_tokens' = k
  /\ ids_len' = AtMost(k + n + MaxNewTokens + 1, CacheLens)
  /\ gaps' = {p \in gaps : p < k} /\ lag' = 0
  /\ UNCHANGED <<conf, cache_len, stop_at, kernelVars, asked, sampled_from>>

(* For the same thread: what follows the tokens there are.  The last one   *)
(* of an answer that did not end by itself was never given to the model.   *)
Unkeyed == IF stage = "decode" THEN {seq_length - 1} ELSE {}

SameThread(n) ==
  /\ Takes /\ stage # "idle"
  /\ seq_length + n < CacheLens
  /\ AtMost(seq_length + n + MaxNewTokens + 1, CacheLens) > ids_len
  /\ NewTokens(seq_length, n)
  /\ ids_len' = AtMost(seq_length + n + MaxNewTokens + 1, CacheLens)
  /\ gaps' = gaps \cup Unkeyed
  /\ lag' = IF Unkeyed = {} THEN lag ELSE lag + 1
  /\ UNCHANGED <<conf, cacheVars, stop_at, kernelVars, asked, sampled_from>>

-----------------------------------------------------------------------------
(* Prefill and decode *)

(* A faulty variant: only the first chunk of a prompt asks for a plan. *)
PlanOnce == [mla_wrapper EXCEPT !.need = @ \/ past_tokens = 0]

NeedPlanAll == [mla_wrapper EXCEPT !.need = TRUE]
PlanAll(len) ==
  IF mla_wrapper.made THEN [made |-> TRUE, need |-> FALSE, kv_len |-> len]
  ELSE mla_wrapper

Chunk ==
  [first |-> chunk_start, n |-> AtMost(ChunkPrefillSize, seq_length - chunk_start),
   live |-> TRUE, plan |-> NeedPlanAll]
ChunkEnd == chunk_start + Chunk.n

\* range(1, max_new_tokens) of each driver.
LastLength(len) ==
  IF ~conf.server THEN len + MaxNewTokens - 1
  ELSE IF AtMost(MaxNewTokens, CacheLens - len) <= 2 THEN len
  ELSE len + AtMost(MaxNewTokens, CacheLens - len) - 2

PrefillChunk ==
  /\ stage = "prefill" /\ ~ModelForward(Chunk).raised
  /\ Attend(Chunk, 0)
  /\ IF ChunkEnd < seq_length
     THEN /\ chunk_start' = ChunkEnd
          /\ UNCHANGED <<generated_ids, seq_length, stop_at, stage, sampled_from>>
     ELSE /\ Sample(Chunk) /\ AppendToken
          /\ stage' = "decode" /\ stop_at' = LastLength(seq_length + 1)
          /\ UNCHANGED chunk_start
  /\ UNCHANGED <<conf, cache_len, ids_len, runner, gaps, lag, prompts>>

PrefillFails ==
  /\ stage = "prefill" /\ ModelForward(Chunk).raised
  /\ Fail

\* The first step of a process warms up, the next one captures and replays,
\* and so do later ones of the server.  TransformersInterface.generate plans
\* for a configuration of MLA before each step, prefill_and_generate if told.
Step ==
  [first |-> seq_length - 1, n |-> 1, live |-> runner # "captured",
   plan |-> IF conf.flashinfer /\ MLA THEN PlanAll(seq_length) ELSE mla_wrapper]
PlanRaises == conf.server /\ conf.flashinfer /\ ~MLA
Decodes == stage = "decode" /\ seq_length < stop_at

RunnerAfter ==
  IF ~conf.graph THEN runner
  ELSE IF runner = "cold" THEN "warm" ELSE "captured"

\* prefill_and_generate counts the token of each step, which update() has
\* counted in a step without the graph.
Bias == IF ~conf.server /\ RunnerAfter # "captured" THEN 1 ELSE 0

DecodeStep(eos) ==
  /\ Decodes /\ ~PlanRaises /\ ~ModelForward(Step).raised
  /\ Attend(Step, Bias)
  /\ runner' = RunnerAfter
  /\ IF eos
     THEN stage' = "stopped" /\ UNCHANGED <<generated_ids, seq_length, sampled_from>>
     ELSE Sample(Step) /\ AppendToken /\ UNCHANGED stage
  /\ UNCHANGED <<conf, cache_len, ids_len, chunk_start, stop_at, gaps, lag, prompts>>

DecodeFails ==
  /\ Decodes /\ (PlanRaises \/ ModelForward(Step).raised)
  /\ Fail

SessionInit ==
  /\ conf \in AttnConfigs
  /\ cache_len = (IF conf.server THEN CacheLens ELSE 0)
  /\ key_cache = EmptyCache(cache_len) /\ past_tokens = 0
  /\ generated_ids = <<>> /\ seq_length = 0 /\ ids_len = 0
  /\ chunk_start = 0 /\ stop_at = 0 /\ stage = "idle"
  /\ mla_wrapper = [made |-> FALSE, need |-> TRUE, kv_len |-> 0]
  /\ runner = "cold"
  /\ asked = [first |-> 0, n |-> 0] /\ attended = <<>> /\ sampled_from = 0
  /\ gaps = {} /\ lag = 0 /\ prompts = 0

SessionNext ==
  \/ \E n \in 1 .. MaxPrompt : ChatPrompt(n)
  \/ \E k \in 0 .. CacheLens, n \in 1 .. CacheLens : NewThread(k, n)
  \/ \E n \in 1 .. CacheLens : SameThread(n)
  \/ PrefillChunk \/ PrefillFails
  \/ \E eos \in BOOLEAN : DecodeStep(eos)
  \/ DecodeFails

SessionSpec == SessionInit /\ [][SessionNext]_sessionVars

-----------------------------------------------------------------------------

(* What row r of the forward a leaves out of the slots up to its own: one *)
(* query of flash_attn_with_kvcache its own; a window what is before it; a *)
(* prefill of MLA after an answer that did not end by itself its last; the *)
(* generated masks of forward_windows all but the positions of the call.   *)
LeftOut(a, r, j) ==
  \/ /\ conf.arch \in {"Qwen2Moe", "Mixtral"} /\ conf.impl = "flash_attention_2"
     /\ a.n = 1 /\ j = a.first
  \/ conf.window = "on" /\ a.first = 0 /\ j + SlidingWindow < r
  \/ /\ MLA /\ ~conf.windows /\ a.n # 1 /\ ~(conf.flashinfer /\ conf.absorb)
     /\ j + lag > a.first + r
  \/ /\ MLA /\ conf.windows /\ j > r
     /\ (conf.impl = "flash_attention_2" \/ LongPrefill(a))

(* Configurations in which no forward raises. *)
NeverRaises ==
  /\ conf.windows => conf.impl = "eager"
  /\ conf.windows => conf.threshold = 0 \/ conf.threshold >= ChunckSize
  /\ conf.window = "none"
  /\ conf.arch = "Mixtral" => conf.impl # "eager"
  /\ conf.arch = "Llama" => conf.impl # "flash_attention_2"
  /\ ~PlanRaises

(* Whatever was asked before, in whatever chunks, by pieces, splits or a   *)
(* replayed graph: a query reads each slot up to its own once, but for the *)
(* ones above, and no other; what it reads are the keys of the tokens of   *)
(* this conversation, or zeroes at a token the model was never given; the  *)
(* next token comes from the last of them; and only in the configurations  *)
(* above does a forward raise.                                             *)
SeesItsPast ==
  /\ stage = "raised" => ~NeverRaises
  /\ stage = "decode" => sampled_from = seq_length - 2
  /\ \A r \in DOMAIN attended :
       /\ {x[1] : x \in attended[r]} =
            {j \in 0 .. asked.first + r : ~LeftOut(asked, r, j)}
       /\ \A x, y \in attended[r] : x[1] = y[1] => x = y
       /\ \A x \in attended[r] :
            key_cache[x[1]] = IF x[1] \in gaps THEN 0 ELSE generated_ids[x[1]]
=============================================================================
