---------------------------- MODULE MCSingleCalls ----------------------------
(* Seven parts that share no state, each of which is over after a few      *)
(* calls: a behaviour is one of one part, and the others stay idle.        *)
EXTENDS HybridSchedule, KVAttention, KVAnchors, MoERouting, GGUFTensors, ModelLoading,
        CausalAttention

VARIABLE part

Parts == {"schedule", "attention", "anchors", "routing", "tensors", "loading", "sessions"}

MCBiases == {-3, 0, 1}

\* What the code accepts: QUEST has two anchors, means and maxima one; the
\* kinds of quantised keys differ for QUEST alone.
MCSettings ==
  {c \in [type : {"DYNAMIC", "BLOCK_MEAN", "BLOCK_MAX", "FIXED", "QUEST"},
          anchor_num : {1, 2}, kv_type : {"F16", "Q4_0", "Q8_0"},
          kv_head_num : {1, 2}, retrieval : {"LAYER", "KVHEAD"}] :
     /\ c.type = "QUEST" => c.anchor_num = 2
     /\ c.type \in {"BLOCK_MEAN", "BLOCK_MAX"} => c.anchor_num = 1
     /\ c.type # "QUEST" => c.kv_type # "Q4_0"}

\* Chats (d) and servers (s) of each family, attention and device.
DefaultSession ==
  [arch |-> "DeepseekV2", injected |-> TRUE, server |-> FALSE, impl |-> "eager",
   windows |-> FALSE, flashinfer |-> FALSE, absorb |-> FALSE, graph |-> TRUE,
   window |-> "none", threshold |-> 0]
MCAttnConfigs ==
  LET d == DefaultSession
      s == [d EXCEPT !.server = TRUE]
      w == [s EXCEPT !.windows = TRUE, !.graph = FALSE]
      q == [d EXCEPT !.arch = "Qwen2Moe", !.impl = "flash_attention_2"]
      m == [d EXCEPT !.arch = "Mixtral", !.injected = FALSE,
                     !.impl = "flash_attention_2"]
      l == [d EXCEPT !.arch = "Llama", !.injected = FALSE]
  IN {[d EXCEPT !.graph = FALSE], [d EXCEPT !.flashinfer = TRUE],
      [d EXCEPT !.arch = "DeepseekV3", !.flashinfer = TRUE, !.absorb = TRUE],
      [s EXCEPT !.arch = "DeepseekV3", !.flashinfer = TRUE, !.absorb = TRUE],
      [s EXCEPT !.flashinfer = TRUE], [s EXCEPT !.injected = FALSE], s,
      w, [w EXCEPT !.threshold = 1], [w EXCEPT !.threshold = 2],
      [w EXCEPT !.impl = "flash_attention_2"],
      [w EXCEPT !.server = FALSE],
      [q EXCEPT !.server = TRUE], [q EXCEPT !.window = "on"],
      [q EXCEPT !.server = TRUE, !.window = "off"],
      [q EXCEPT !.server = TRUE, !.flashinfer = TRUE], [q EXCEPT !.injected = FALSE],
      m, [m EXCEPT !.server = TRUE, !.impl = "sdpa"],
      [m EXCEPT !.server = TRUE, !.impl = "eager"],
      [m EXCEPT !.server = TRUE, !.window = "off"],
      l, [l EXCEPT !.server = TRUE, !.impl = "sdpa"],
      [l EXCEPT !.server = TRUE, !.impl = "flash_attention_2"], [l EXCEPT !.server = TRUE]}

MCTensorsBefore == [type : {"F16", "Q6_K"}, blocks : {1, 2}]

-----------------------------------------------------------------------------
(* Any one state will do for a part that is idle. *)

HssIdle ==
  /\ expert_ids = <<>> /\ load_experts = <<>> /\ unload_experts = <<>>
  /\ sorted_experts = <<>> /\ cpu_queue = <<>> /\ gpu_queue = <<>>
  /\ original_cpu_queue = <<>> /\ original_gpu_queue = <<>>
  /\ cpu_total_time = 0 /\ gpu_total_time = 0 /\ move_total_time = 0

AttnIdle ==
  /\ pc = [t \in AttnThreads |-> "idle"]
  /\ seqlens = <<>> /\ todo = {} /\ block = <<>> /\ cur_head = <<>>
  /\ cur_output = <<>> /\ mutex = <<>> /\ seen = <<>> /\ output = <<>>
  /\ near_zero = <<>> /\ dropped = <<>>

AnchorIdle ==
  /\ set = CHOOSE c \in Settings : TRUE
  /\ seq_len = 0 /\ anchored = 0 /\ anchor = <<>>
  /\ table = [i \in Entries |-> i] /\ block_similar = <<>>

MoeIdle ==
  /\ gate = NoGate /\ moe = NoBlock /\ picked = Pending
  /\ topk_ids = <<>> /\ result = Pending

GgufIdle ==
  /\ gguf = <<>> /\ offset = -1 /\ request = <<>> /\ loop = 0
  /\ values = <<>> /\ outcome = "none"

LoadIdle ==
  /\ model = <<>> /\ rules = <<>> /\ optimize_config = <<>>
  /\ tensor_device_map = <<>> /\ injected = <<>> /\ loaded = <<>>
  /\ phase = "rules"

SessionIdle ==
  /\ conf = DefaultSession /\ key_cache = <<>> /\ cache_len = 0 /\ past_tokens = 0
  /\ generated_ids = <<>> /\ seq_length = 0 /\ ids_len = 0 /\ chunk_start = 0
  /\ stop_at = 0 /\ stage = "idle" /\ mla_wrapper = <<>> /\ runner = "cold"
  /\ asked = <<>> /\ attended = <<>> /\ sampled_from = 0
  /\ gaps = {} /\ lag = 0 /\ prompts = 0

(* The scheduler only compares experts for equality: one order will do.    *)
InOrder(s) == \A i \in 1 .. Len(s) - 1 : s[i] < s[i + 1]

(* Bounds of MoERouting.  The text of moe_infer is the same in both DeepSeek *)
(* classes, so that one of them stands for several ranks.  With three tokens  *)
(* or several ranks the experts of a token are in one order; with several     *)
(* ranks the tokens of each rank are too.                                     *)
OneClass == moe # NoBlock /\ moe.ranks > 1 => moe.block = "DeepseekV2" /\ moe.n_shared_experts

NotAfter(x, y) == x[1] < y[1] \/ (x[1] = y[1] /\ x[2] <= y[2])
OneOrder ==
  topk_ids # <<>> =>
    /\ moe.ranks > 1 \/ moe.tokens > 2 =>
         \A r \in DOMAIN topk_ids : \A t \in DOMAIN topk_ids[r] : InOrder(topk_ids[r][t])
    /\ moe.ranks > 1 =>
         \A r \in DOMAIN topk_ids : \A i \in 1 .. moe.tokens - 1 :
           NotAfter(topk_ids[r][i], topk_ids[r][i + 1])

SingleInit ==
  /\ part \in Parts
  /\ IF part = "schedule" THEN HssInit /\ InOrder(expert_ids) ELSE HssIdle
  /\ IF part = "attention" THEN AttnInit ELSE AttnIdle
  /\ IF part = "anchors" THEN AnchorInit ELSE AnchorIdle
  /\ IF part = "routing" THEN MoeInit /\ OneClass ELSE MoeIdle
  /\ IF part = "tensors" THEN GgufInit ELSE GgufIdle
  /\ IF part = "loading" THEN LoadInit ELSE LoadIdle
  /\ IF part = "sessions" THEN SessionInit ELSE SessionIdle

SingleNext ==
  /\ UNCHANGED part
  /\ \/ part = "schedule" /\ HssNext
        /\ UNCHANGED <<attnVars, anchorVars, moeVars, ggufVars, loadVars, sessionVars>>
     \/ part = "attention" /\ AttnNext
        /\ UNCHANGED <<hssVars, anchorVars, moeVars, ggufVars, loadVars, sessionVars>>
     \/ part = "anchors" /\ AnchorNext
        /\ UNCHANGED <<hssVars, attnVars, moeVars, ggufVars, loadVars, sessionVars>>
     \/ part = "routing" /\ MoeNext /\ OneOrder'
        /\ UNCHANGED <<hssVars, attnVars, anchorVars, ggufVars, loadVars, sessionVars>>
     \/ part = "tensors" /\ GgufNext
        /\ UNCHANGED <<hssVars, attnVars, anchorVars, moeVars, loadVars, sessionVars>>
     \/ part = "loading" /\ LoadNext
        /\ UNCHANGED <<hssVars, attnVars, anchorVars, moeVars, ggufVars, sessionVars>>
     \/ part = "sessions" /\ SessionNext
        /\ UNCHANGED <<hssVars, attnVars, anchorVars, moeVars, ggufVars, loadVars>>

SingleSpec ==
  /\ SingleInit
  /\ [][SingleNext]_<<part, hssVars, attnVars, anchorVars, moeVars, ggufVars, loadVars,
                      sessionVars>>
=============================================================================
