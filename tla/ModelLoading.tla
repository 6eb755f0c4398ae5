----------------------------- MODULE ModelLoading -----------------------------
(***************************************************************************)
(* optimize_and_load_gguf: rules decide which modules of a model are       *)
(* replaced and where their weights go (optimize/optimize.py), and the     *)
(* tensors of a file are found by translated names (util/utils.py,         *)
(* util/custom_gguf.py, util/custom_loader.py, operators/base_operator.py  *)
(* and the load_weights of operators), for one layer of DeepSeek-V3 or     *)
(* Mixtral.  The file is of GGUF, or one that merge_safetensor_gguf.py     *)
(* made of the model's own tensors and a GGUF file.                        *)
(*                                                                         *)
(* A name is the sequence of its parts between dots.                       *)
(***************************************************************************)
EXTENDS Integers, Sequences, SequencesExt

CONSTANTS
  MaxRules,        \* bound: rules of a file
  Devices          \* bound: values of generate_device in a rule

ASSUME ModelLoadingAssumption == MaxRules \in Nat

NoDevice == "none" \* kwargs without generate_device
ASSUME DevicesAssumption == NoDevice \notin Devices

VARIABLES
  model,              \* family of the model and kind of file
  rules,              \* rule_list
  optimize_config,    \* by module: key, class, device; absent if not reached
  tensor_device_map,  \* by translated key: the device of kwargs
  injected,           \* modules that are replaced, with their class
  loaded,             \* by parameter or operator: tensors and device
  phase

loadVars == <<model, rules, optimize_config, tensor_device_map, injected, loaded, phase>>

-----------------------------------------------------------------------------
(* The models: modules in the order of _modules, with what they are, and   *)
(* the parameters a module has itself.                                     *)

Layer == <<"model", "layers", "0">>
Mlp == Layer \o <<"mlp">>
Moe == Layer \o <<"block_sparse_moe">>

Tree == [
  DeepseekV3 |-> <<
    <<<<"model">>, "container">>, <<<<"model", "embed_tokens">>, "embedding">>,
    <<<<"model", "layers">>, "container">>, <<Layer, "layer">>,
    <<Layer \o <<"self_attn">>, "container">>,
    <<Layer \o <<"self_attn", "kv_a_proj_with_mqa">>, "Linear">>,
    <<Mlp, "block">>, <<Mlp \o <<"experts">>, "experts">>,
    <<Mlp \o <<"experts", "0">>, "container">>,
    <<Mlp \o <<"experts", "0", "up_proj">>, "Linear">>,
    <<Mlp \o <<"gate">>, "gate">>, <<Mlp \o <<"shared_experts">>, "container">>,
    <<Mlp \o <<"shared_experts", "down_proj">>, "Linear">>,
    <<Layer \o <<"input_layernorm">>, "norm">>,
    <<<<"model", "norm">>, "norm">>, <<<<"lm_head">>, "Linear">> >>,
  Mixtral |-> <<
    <<<<"model">>, "container">>, <<<<"model", "embed_tokens">>, "embedding">>,
    <<<<"model", "layers">>, "container">>, <<Layer, "layer">>,
    <<Layer \o <<"self_attn">>, "container">>,
    <<Layer \o <<"self_attn", "q_proj">>, "Linear">>,
    <<Moe, "block">>, <<Moe \o <<"gate">>, "Linear">>,
    <<Moe \o <<"experts">>, "experts">>, <<Moe \o <<"experts", "0">>, "container">>,
    <<Moe \o <<"experts", "0", "w1">>, "Linear">>,
    <<Layer \o <<"post_attention_layernorm">>, "norm">>,
    <<<<"model", "norm">>, "norm">>, <<<<"lm_head">>, "Linear">> >>]

Families == DOMAIN Tree
ModulesOf(family) == {Tree[family][i][1] : i \in DOMAIN Tree[family]}
Kind == [family \in Families |-> [m \in ModulesOf(family) |->
           (CHOOSE x \in ToSet(Tree[family]) : x[1] = m)[2]]]
ParamsOf(kind) ==
  CASE kind \in {"Linear", "norm", "embedding"} -> {"weight"}
    [] kind = "gate" -> {"weight", "e_score_correction_bias"}
    [] OTHER -> {}
ParametersOf(family) ==
  UNION {{Append(m, p) : p \in ParamsOf(Kind[family][m])} : m \in ModulesOf(family)}

Modules == ModulesOf(model.family)
Parameters == ParametersOf(model.family)
KindOf(m) == Kind[model.family][m]
Above(m) == {a \in Modules : IsStrictPrefix(a, m)}

-----------------------------------------------------------------------------
(* Names *)

(* translate_name_to_gguf_mixtral *)
MixtralWeights == [w1 |-> "ffn_gate", w2 |-> "ffn_down", w3 |-> "ffn_up"]
TranslateMixtral(name) ==
  IF /\ Len(name) = 8 /\ SubSeq(name, 1, 2) = <<"model", "layers">>
     /\ SubSeq(name, 4, 5) = <<"block_sparse_moe", "experts">>
     /\ name[7] \in DOMAIN MixtralWeights /\ name[8] = "weight"
  THEN <<"blk", name[3], MixtralWeights[name[7]], name[6], "weight">>
  ELSE name

(* The replacements of translate_name_to_gguf, in order. *)
Replacements == <<
  <<<<"lm_head">>, <<"output">>>>,
  <<<<"model", "embed_tokens">>, <<"token_embd">>>>,
  <<<<"model", "norm">>, <<"output_norm">>>>,
  <<<<"model", "layers">>, <<"blk">>>>,
  <<<<"input_layernorm">>, <<"attn_norm">>>>,
  <<<<"mlp", "down_proj">>, <<"ffn_down">>>>,
  <<<<"mlp", "gate_proj">>, <<"ffn_gate">>>>,
  <<<<"mlp", "up_proj">>, <<"ffn_up">>>>,
  <<<<"post_attention_layernorm">>, <<"ffn_norm">>>>,
  <<<<"self_attn", "q_proj">>, <<"attn_q">>>>,
  <<<<"self_attn", "k_proj">>, <<"attn_k">>>>,
  <<<<"self_attn", "v_proj">>, <<"attn_v">>>>,
  <<<<"self_attn", "o_proj">>, <<"attn_output">>>>,
  <<<<"self_attn", "qkv_proj">>, <<"attn_qkv">>>>,
  <<<<"self_attn", "kv_a_proj_with_mqa">>, <<"attn_kv_a_mqa">>>>,
  <<<<"self_attn", "kv_a_layernorm">>, <<"attn_kv_a_norm">>>>,
  <<<<"self_attn", "kv_b_proj">>, <<"attn_kv_b">>>>,
  <<<<"self_attn", "q_a_proj">>, <<"attn_q_a">>>>,
  <<<<"self_attn", "q_a_layernorm">>, <<"attn_q_a_norm">>>>,
  <<<<"self_attn", "q_b_proj">>, <<"attn_q_b">>>>,
  <<<<"shared_expert">>, <<"shared_experts">>>>,
  <<<<"shared_expert_gate">>, <<"shared_experts_gate">>>>,
  <<<<"mlp", "shared_experts", "down_proj">>, <<"ffn_down_shexp">>>>,
  <<<<"mlp", "gate">>, <<"ffn_gate_inp">>>>,
  <<<<"mlp", "shared_experts", "gate_proj">>, <<"ffn_gate_shexp">>>>,
  <<<<"mlp", "shared_experts", "up_proj">>, <<"ffn_up_shexp">>>>,
  <<<<"mlp", "shared_experts_gate">>, <<"ffn_gate_inp_shexp">>>>,
  <<<<"mlp", "experts">>, <<>>>>,
  <<<<"block_sparse_moe", "gate">>, <<"ffn_gate_inp">>>>,
  <<<<"block_sparse_moe", "experts">>, <<>>>> >>

Replaced(name, list) ==
  FoldLeft(LAMBDA n, r : ReplaceFirstSubSeq(r[2], r[1], n), name, list)
Translate(name) == Replaced(TranslateMixtral(name), Replacements)

(* The names there are to translate, some of them relative to a module     *)
(* whose name is translated already.                                       *)
Below(m, n) == SubSeq(n, Len(m) + 1, Len(n))
AllNames ==
  UNION {LET N == ModulesOf(f) \cup ParametersOf(f) IN
           N \cup UNION {{Translate(m) \o Below(m, n) : n \in {n \in N : IsPrefix(m, n)}} :
                           m \in ModulesOf(f)} :
         f \in Families}
Translated == [name \in AllNames |-> Translate(name)]

-----------------------------------------------------------------------------
(* Files: llama.cpp's names of the parameters, and the merged file.        *)

Experts3 == {"ffn_gate", "ffn_up", "ffn_down"}
GgufName == [
  DeepseekV3 |->
    (<<"model", "embed_tokens", "weight">> :> <<"token_embd", "weight">>) @@
    (Layer \o <<"self_attn", "kv_a_proj_with_mqa", "weight">>
       :> <<"blk", "0", "attn_kv_a_mqa", "weight">>) @@
    (Mlp \o <<"gate", "weight">> :> <<"blk", "0", "ffn_gate_inp", "weight">>) @@
    (Mlp \o <<"gate", "e_score_correction_bias">> :> <<"blk", "0", "exp_probs_b", "bias">>) @@
    (Mlp \o <<"shared_experts", "down_proj", "weight">>
       :> <<"blk", "0", "ffn_down_shexp", "weight">>) @@
    (Layer \o <<"input_layernorm", "weight">> :> <<"blk", "0", "attn_norm", "weight">>) @@
    (<<"model", "norm", "weight">> :> <<"output_norm", "weight">>) @@
    (<<"lm_head", "weight">> :> <<"output", "weight">>),
  Mixtral |->
    (<<"model", "embed_tokens", "weight">> :> <<"token_embd", "weight">>) @@
    (Layer \o <<"self_attn", "q_proj", "weight">> :> <<"blk", "0", "attn_q", "weight">>) @@
    (Moe \o <<"gate", "weight">> :> <<"blk", "0", "ffn_gate_inp", "weight">>) @@
    (Moe \o <<"experts", "0", "w1", "weight">> :> <<"blk", "0", "ffn_gate", "0", "weight">>) @@
    (Layer \o <<"post_attention_layernorm", "weight">>
       :> <<"blk", "0", "ffn_norm", "weight">>) @@
    (<<"model", "norm", "weight">> :> <<"output_norm", "weight">>) @@
    (<<"lm_head", "weight">> :> <<"output", "weight">>)]

ExpertTensors == [
  DeepseekV3 |-> {<<"blk", "0", w \o "_exps", "weight">> : w \in Experts3},
  Mixtral |-> {<<"blk", "0", w, "0", "weight">> : w \in Experts3}]
GgufTensors(family) ==
  {GgufName[family][p] : p \in DOMAIN GgufName[family]} \cup ExpertTensors[family]

(* translate_name of the merging script, for the tensors of DeepSeek-V3:   *)
(* all experts of a layer have one name, and their tensor is that of the   *)
(* GGUF file, with its type; Linear weights are of FP8 and have scales.    *)
MergeReplacements == <<
  <<<<"up_proj">>, <<"ffn_up_exps">>>>, <<<<"down_proj">>, <<"ffn_down_exps">>>>,
  <<<<"gate_proj">>, <<"ffn_gate_exps">>>>,
  <<<<"ffn_gate_inp", "e_score_correction_bias">>, <<"exp_probs_b", "bias">>>> >>
TranslateName(name) == Replaced(Translate(name), MergeReplacements)

ExpertKeys ==
  {Mlp \o <<"experts", w, "weight">> : w \in {"up_proj", "down_proj", "gate_proj"}}
OwnKeys ==
  LET F == "DeepseekV3"
      P == {p \in ParametersOf(F) : ~IsPrefix(Mlp \o <<"experts">>, p)}
  IN P \cup {Append(m, "weight_scale_inv") :
               m \in {m \in ModulesOf(F) : Kind[F][m] = "Linear" /\ m # <<"lm_head">>
                                           /\ ~IsPrefix(Mlp \o <<"experts">>, m)}}
CombineTensorSources ==
  {TranslateName(k) : k \in OwnKeys}
  \cup {TranslateName(k) : k \in {k \in ExpertKeys : TranslateName(k) \in GgufTensors("DeepseekV3")}}
  \cup {Append(Front(TranslateName(k)), "ggml_type") : k \in ExpertKeys}

TensorFile == [DeepseekV3 |-> GgufTensors("DeepseekV3"), Mixtral |-> GgufTensors("Mixtral"),
               merged |-> CombineTensorSources]
FilesOf(family) ==
  {TensorFile[family]} \cup IF family = "DeepseekV3" THEN {TensorFile.merged} ELSE {}
Tensors == IF model.merged THEN TensorFile.merged ELSE TensorFile[model.family]

(* About the names alone, and finite: whatever a parameter is looked for   *)
(* by, if a file has a tensor of that name, it is the parameter's, and the *)
(* name before the last dot is the key of its module, and of no other.     *)
(* Modules below Mixtral's experts have another key: of their tensors,     *)
(* blk.N.ffn_gate.E.weight, the name before the last dot is no key at all. *)
KeysOf(family, p) ==
  {Translated[p]}
  \cup {Translated[Translated[m] \o Below(m, p)] :
          m \in {a \in ModulesOf(family) : IsStrictPrefix(a, Front(p)) \/ a = Front(p)}}
Keyless(m) == IsPrefix(Moe \o <<"experts">>, m)
HasKey(m) == IF Keyless(m) THEN {} ELSE {m}
ASSUME NamesAssumption ==
  \A family \in Families :
    /\ ModulesOf(family) \subseteq Seq(STRING)
    /\ ModulesOf(family) \cap ParametersOf(family) = {}
    /\ \A p \in ParametersOf(family), file \in FilesOf(family) :
       \A key \in KeysOf(family, p) \cap file :
         /\ key = GgufName[family][p]
         /\ {m \in ModulesOf(family) : Translated[m] = Front(key)} = HasKey(Front(p))

-----------------------------------------------------------------------------
(* gen_optimize_config *)

(* A rule matches by class, by name, or by both. *)
Matches(r, m) ==
  CASE r.match = "Linear in layers" -> KindOf(m) = "Linear" /\ IsPrefix(Layer, m)
    [] r.match = "in layers" -> IsStrictPrefix(Layer, m)
    [] r.match = "lm_head" -> m = <<"lm_head">>
    [] OTHER -> KindOf(m) = r.match

Matching(m) == {i \in DOMAIN rules : Matches(rules[i], m)}
(* Faulty variant, to show what the property detects. *)
LastMatching(m) ==
  IF Matching(m) = {} THEN 0 ELSE CHOOSE i \in Matching(m) : \A j \in Matching(m) : j <= i
FirstMatching(m) ==
  IF Matching(m) = {} THEN 0 ELSE CHOOSE i \in Matching(m) : \A j \in Matching(m) : i <= j

Recursive(m) == FirstMatching(m) = 0 \/ rules[FirstMatching(m)].recursive

ConfigOf(m) ==
  IF FirstMatching(m) = 0
  THEN [key |-> Translated[m], class |-> "default", device |-> "cuda:0"]
  ELSE [key |-> Translated[m], class |-> rules[FirstMatching(m)].class,
        device |-> rules[FirstMatching(m)].device]

GenOptimizeConfig ==
  /\ phase = "rules"
  /\ optimize_config' =
       [m \in {m \in Modules : \A a \in Above(m) : Recursive(a)} |-> ConfigOf(m)]
  /\ phase' = "config"
  /\ UNCHANGED <<model, rules, tensor_device_map, injected, loaded>>

Order == SelectSeq([i \in DOMAIN Tree[model.family] |-> Tree[model.family][i][1]],
                   LAMBDA m : m \in DOMAIN optimize_config)

(* get_device_usage: the first module of a layer with "experts" in its     *)
(* name has to have a device.                                              *)
OfExperts(m) == \E i \in DOMAIN m : m[i] \in {"experts", "shared_experts"}
GetDeviceUsage ==
  LET named == SelectSeq(Order, OfExperts)
  IN /\ phase = "config"
     /\ phase' = IF named # <<>> /\ optimize_config[Head(named)].device = NoDevice
                 THEN "raises" ELSE "inject"
     /\ UNCHANGED <<model, rules, optimize_config, tensor_device_map, injected, loaded>>

-----------------------------------------------------------------------------
Precedes(n, m) ==
  \E i, j \in DOMAIN Tree[model.family] :
    i < j /\ Tree[model.family][i][1] = n /\ Tree[model.family][j][1] = m

(* inject: children before what is in them, each where its parent was in   *)
(* the configuration; one key may be met twice, and keeps the last device. *)
Inject ==
  /\ phase = "inject"
  /\ injected' = [m \in {m \in DOMAIN optimize_config : optimize_config[m].class # "default"}
                    |-> optimize_config[m].class]
  /\ tensor_device_map' =
       [k \in {optimize_config[m].key : m \in DOMAIN optimize_config} |->
          LET same == {m \in DOMAIN optimize_config : optimize_config[m].key = k}
          IN optimize_config[CHOOSE m \in same : \A n \in same \ {m} : Precedes(n, m)].device]
  /\ phase' = "lm_head"
  /\ UNCHANGED <<model, rules, optimize_config, loaded>>

-----------------------------------------------------------------------------
(* load_weights *)

Self(m) == Above(m) \cup {m}
InjectedAbove(m) == Self(m) \cap DOMAIN injected
Innermost(S) == CHOOSE m \in S : \A n \in S : Len(n) <= Len(m)
OwnLoad(m) == \E a \in InjectedAbove(m) : injected[a] = "operator"

(* BaseInjectedModule.load goes on in the original module, with the        *)
(* translated key of the injected one for a prefix.                        *)
KeyOf(p) ==
  LET above == InjectedAbove(Front(p))
      m == Innermost(above)
  IN IF above = {} THEN Translated[p] ELSE Translated[Translated[m] \o Below(m, p)]

(* get_device *)
GetDevice(key) ==
  IF key \in DOMAIN tensor_device_map THEN tensor_device_map[key] ELSE "cuda"

(* load_cur_state_dict, for one parameter *)
Missing(p) == KeyOf(p) \notin Tensors \/ GetDevice(Front(KeyOf(p))) = NoDevice
LoadParameter(p) == [tensors |-> {KeyOf(p)}, device |-> GetDevice(Front(KeyOf(p)))]

(* What the operators ask for.  KLinearBase.load_weight wants the scales   *)
(* of FP8 of a merged file.                                                *)
LinearTensors(key) ==
  {Append(key, "weight")}
  \cup IF model.merged THEN {Append(key, "weight_scale_inv")} ELSE {}

(* KMoEGateBase.load_weights *)
GateTensors(key) ==
  {Front(key) \o <<"ffn_gate_inp", "weight">>, Front(key) \o <<"exp_probs_b", "bias">>}

(* KExpertsCPU.load_weights: three tensors, or three for each expert. *)
ExpertsTensors(key) ==
  IF model.merged \/ key \o <<"ffn_gate_exps", "weight">> \in Tensors
  THEN {key \o <<w \o "_exps", "weight">> : w \in Experts3}
       \cup IF model.merged THEN {key \o <<w \o "_exps", "ggml_type">> : w \in Experts3} ELSE {}
  ELSE {key \o <<w, "0", "weight">> : w \in Experts3}

OperatorTensors(m) ==
  LET key == Translated[m] IN
  CASE KindOf(m) = "Linear" -> LinearTensors(key)
    [] KindOf(m) = "gate" -> GateTensors(key)
    [] KindOf(m) = "experts" -> ExpertsTensors(key)

DefaultDevice(m) == IF KindOf(m) = "experts" THEN "cpu" ELSE "cuda"
LoadOperator(m) ==
  [tensors |-> OperatorTensors(m),
   device |-> IF optimize_config[m].device = NoDevice THEN DefaultDevice(m)
              ELSE optimize_config[m].device]

(* What load_weights of module top reaches. *)
ParametersBelow(top) ==
  {p \in Parameters : IsPrefix(top, p) /\ ~OwnLoad(Front(p))}
OperatorsBelow(top) ==
  {m \in Modules : /\ IsPrefix(top, m) /\ OwnLoad(m)
                   /\ \A a \in Above(m) : ~OwnLoad(a)}

LoadWeights(top, then) ==
  IF \/ \E p \in ParametersBelow(top) : Missing(p)
     \/ \E m \in OperatorsBelow(top) : ~(OperatorTensors(m) \subseteq Tensors)
  THEN phase' = "raises" /\ UNCHANGED loaded
  ELSE /\ loaded' = [x \in ParametersBelow(top) \cup OperatorsBelow(top) \cup DOMAIN loaded |->
                      IF x \in ParametersBelow(top) THEN LoadParameter(x)
                      ELSE IF x \in OperatorsBelow(top) THEN LoadOperator(x) ELSE loaded[x]]
       /\ phase' = then

LoadLmHead ==
  /\ phase = "lm_head" /\ LoadWeights(<<"lm_head">>, "weights")
  /\ UNCHANGED <<model, rules, optimize_config, tensor_device_map, injected>>

(* ... and del_meta, which leaves what has been loaded. *)
LoadModel ==
  /\ phase = "weights" /\ LoadWeights(<<>>, "ready")
  /\ UNCHANGED <<model, rules, optimize_config, tensor_device_map, injected>>

-----------------------------------------------------------------------------

OneKind == {"Linear in layers", "lm_head", "gate", "experts"}
Rules ==
  [match : {"block", "layer", "in layers"}, class : {"default", "base"},
   device : Devices \cup {NoDevice}, recursive : BOOLEAN]
  \cup [match : OneKind, class : {"default", "base", "operator"},
        device : Devices \cup {NoDevice}, recursive : BOOLEAN]

LoadInit ==
  /\ model \in [family : Families, merged : BOOLEAN]
  /\ model.merged => model.family = "DeepseekV3"
  /\ rules \in UNION {[1 .. n -> Rules] : n \in 0 .. MaxRules}
  /\ optimize_config = <<>> /\ tensor_device_map = <<>> /\ injected = <<>>
  /\ loaded = <<>> /\ phase = "rules"

LoadNext ==
  GenOptimizeConfig \/ GetDeviceUsage \/ Inject \/ LoadLmHead \/ LoadModel
LoadSpec == LoadInit /\ [][LoadNext]_loadVars

-----------------------------------------------------------------------------
(* Properties *)

(* The rule a module is under, 0 for none: the first that matches it,      *)
(* unless a rule that is not recursive matches a module above it first.    *)
Cut(m) == \E a \in Above(m), i \in DOMAIN rules :
            /\ Matches(rules[i], a) /\ ~rules[i].recursive
            /\ \A j \in 1 .. i - 1 : ~Matches(rules[j], a)
Rule(m) ==
  IF Cut(m) THEN 0
  ELSE LET S == {i \in DOMAIN rules : Matches(rules[i], m)}
       IN IF S = {} THEN 0 ELSE CHOOSE i \in S : \A j \in S : i <= j

(* The device a module's rule names; generate_device of gen_optimize_config *)
(* if it matches none, get_device's default if it is not reached.           *)
RuledDevice(m) ==
  IF Cut(m) THEN "cuda" ELSE IF Rule(m) = 0 THEN "cuda:0" ELSE rules[Rule(m)].device

(* get_device looks a parameter's device up by the name of its tensor.  Of *)
(* an expert of Mixtral that is no key, so that its parameters go to the   *)
(* default device whatever the rule of their module names.                 *)
LoadDevice(m) == IF Keyless(m) THEN "cuda" ELSE RuledDevice(m)

IsOperator(m) == Rule(m) # 0 /\ rules[Rule(m)].class = "operator"

(* A model that is loaded has every parameter that no operator stands for, *)
(* from the tensor the file has for it, however its name was translated    *)
(* (in one go, or relative to an injected module), on the device its rule  *)
(* names, but for the parameters of Mixtral's experts (LoadDevice); an     *)
(* operator has what it needs where its rule says; nothing else was        *)
(* replaced (optimize_and_load_gguf).                                      *)
LoadedAsRuled ==
  phase = "ready" =>
    /\ \A m \in Modules :
         m \in DOMAIN injected <=> Rule(m) # 0 /\ rules[Rule(m)].class # "default"
    /\ \A p \in Parameters :
         LET m == Front(p) IN
         IF \E a \in Above(m) \cup {m} : IsOperator(a) THEN p \notin DOMAIN loaded
         ELSE loaded[p] = [tensors |-> {GgufName[model.family][p]}, device |-> LoadDevice(m)]
    /\ \A m \in Modules :
         IsOperator(m) /\ ~(\E a \in Above(m) : IsOperator(a)) =>
           /\ loaded[m].tensors \subseteq Tensors
           /\ loaded[m].device = IF rules[Rule(m)].device = NoDevice
                                 THEN DefaultDevice(m) ELSE rules[Rule(m)].device
=============================================================================
