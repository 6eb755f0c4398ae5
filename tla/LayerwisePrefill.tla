------------------------- MODULE LayerwisePrefill -------------------------
(***************************************************************************)
(* What holds the weights of a model that prefills long prompts by layers  *)
(* (KQwen2MoeModel, KDeepseekV2Model in operators/models.py): such a       *)
(* forward unloads every layer, brings in one at a time with its prefill   *)
(* operators, and at its end loads all of them for generation again.       *)
(*                                                                         *)
(* A module is <<layer, slot>>: slot 1 stands for the projections of the   *)
(* attention (and the router of Qwen2-MoE), 2 for the routed experts, 3    *)
(* for the other projections of the layer.  The tensors of an operator are *)
(* the number of the forward that loaded them plus 1, 0 if it has none.    *)
(* One GPU; a pass is a forward of the model.                              *)
(***************************************************************************)
EXTENDS Integers, Sequences

CONSTANTS
  NLayers,       \* layers of the model
  FirstSparse,   \* first_k_dense_replace: the layers before have no experts
  MaxPasses      \* bound on the forwards of a behaviour

ASSUME LayerwisePrefillAssumption ==
  \* With one layer, the one whose prefill ran out of memory would do to
  \* run a whole forward in mode PREFILL.
  /\ NLayers \in Nat \ {0, 1} /\ FirstSparse \in 0 .. NLayers
  /\ MaxPasses \in Nat

Layers == 0 .. NLayers - 1
Slots == 1 .. 3
Experts == 2
Modules == {m \in Layers \X Slots : m[2] = Experts => m[1] >= FirstSparse}
Roles == {"prefill", "generate"}

(* Operators a rule file may name and that survive the loading of the      *)
(* model: KTransformersLinear and KTransformersExperts unload their        *)
(* prefill operator first, which KLinearFP8 does not take.                 *)
LinearOps == [prefill : {"KLinearMarlin", "KLinearTorch", "KLinearQ8",
                         "KLinearCPUInfer"},
              generate : {"KLinearMarlin", "KLinearTorch", "KLinearQ8",
                          "KLinearFP8", "KLinearCPUInfer"}]
ExpertsOps == [prefill : {"KExpertsTorch", "KExpertsMarlin", "KExpertsCPU"},
               generate : {"KExpertsMarlin", "KExpertsCPU"}]

VARIABLES
  conf,     \* the rule file, the family of the model, and who calls it
  mod,      \* of each module: its mode and its operators
  cuda,     \* layers whose norms and other plain submodules are on the GPU
  pc, layer, slot,   \* where the forward is
  long,     \* per_layer_prefill_flag
  ready,    \* the last forward returned its logits
  graph,    \* tensors the captured CUDA graph reads
  story,    \* history: kinds of the forwards so far
  used,     \* history: modes of the modules this forward has run
  failed,   \* history: an operator made a forward raise
  oom       \* history: the GPU ran out of memory; at most once

model == <<mod, cuda>>
host == <<pc, layer, slot, long, ready>>
vars == <<conf, model, host, graph, story, used, failed, oom>>

-----------------------------------------------------------------------------
(* An operator, by its kind. *)

Kind(m, role) ==
  IF m[2] = Experts THEN conf.experts[role] ELSE conf.linear[role]

NoTensors == [loaded |-> FALSE, tensors |-> 0]
Number == Len(story) + 1

(* load() of each class; three return at once if they say they are loaded. *)
KLinearTorchLoaded(o) ==
  IF o.loaded THEN o ELSE [loaded |-> TRUE, tensors |-> Number]
KLinearQ8Loaded(o) ==
  IF o.loaded THEN o ELSE [loaded |-> TRUE, tensors |-> Number]
KLinearMarlinLoaded(o) ==
  IF o.loaded THEN o ELSE [loaded |-> TRUE, tensors |-> Number]
(* A faulty variant: it returns early as the others do. *)
FP8LoadedOnce(o) ==
  IF o.loaded THEN o ELSE [loaded |-> TRUE, tensors |-> Number]

KLinearFP8Loaded(o) == [o EXCEPT !.tensors = Number]
KLinearCPUInferLoaded(o) == [o EXCEPT !.tensors = Number]
KExpertsCPULoaded(o) == [o EXCEPT !.tensors = Number]
KExpertsMarlinLoaded(o) == KLinearMarlinLoaded(o)

(* KExpertsTorch passes load_weights an argument it does not take;         *)
(* KExpertsMarlin copies what its projections have moved out before.       *)
LoadRaises(kind, o) ==
  \/ kind = "KExpertsTorch"
  \/ kind = "KExpertsMarlin" /\ o.loaded

Loaded(kind, o) ==
  CASE kind = "KLinearTorch" -> KLinearTorchLoaded(o)
    [] kind = "KLinearQ8" -> KLinearQ8Loaded(o)
    [] kind = "KLinearMarlin" -> KLinearMarlinLoaded(o)
    [] kind = "KLinearFP8" -> KLinearFP8Loaded(o)
    [] kind = "KLinearCPUInfer" -> KLinearCPUInferLoaded(o)
    [] kind = "KExpertsCPU" -> KExpertsCPULoaded(o)
    [] OTHER -> KExpertsMarlinLoaded(o)

(* unload(): only KLinearQ8 takes back that it is loaded; on the CPU, and  *)
(* with no cache for KExpertsTorch, nothing is given up.                   *)
(* A faulty variant: it stays "loaded", as the others do. *)
Q8KeepsFlag(o) == [o EXCEPT !.tensors = 0]

KLinearQ8Unloaded(o) == NoTensors
KLinearTorchUnloaded(o) == [o EXCEPT !.tensors = 0]
KLinearMarlinUnloaded(o) == [o EXCEPT !.tensors = 0]
KLinearFP8Unloaded(o) == [o EXCEPT !.tensors = 0]
KExpertsMarlinUnloaded(o) == [o EXCEPT !.tensors = 0]

Unloaded(kind, o) ==
  CASE kind = "KLinearQ8" -> KLinearQ8Unloaded(o)
    [] kind = "KLinearTorch" -> KLinearTorchUnloaded(o)
    [] kind = "KLinearMarlin" -> KLinearMarlinUnloaded(o)
    [] kind = "KLinearFP8" -> KLinearFP8Unloaded(o)
    [] kind = "KExpertsMarlin" -> KExpertsMarlinUnloaded(o)
    [] OTHER -> o

(* The operator forward() of the wrapper calls: its mode is the one it was *)
(* loaded in last, since unload() does not change it.                      *)
Role(mode) == IF mode = "PREFILL" THEN "prefill" ELSE "generate"
Other(role) == IF role = "prefill" THEN "generate" ELSE "prefill"
Tensors(m) == mod[m].ops[Role(mod[m].mode)].tensors

-----------------------------------------------------------------------------
(* set_inference_mode of a module: unload both operators, or unload one    *)
(* and then load the other.                                                *)

UnloadedModule(m) ==
  [mod[m] EXCEPT !.ops = [r \in Roles |-> Unloaded(Kind(m, r), @[r])]]
HalfLoaded(m, role) ==
  [mod[m] EXCEPT !.ops[Other(role)] = Unloaded(Kind(m, Other(role)), @)]
LoadedModule(m, mode) ==
  [HalfLoaded(m, Role(mode)) EXCEPT
     !.mode = mode, !.ops[Role(mode)] = Loaded(Kind(m, Role(mode)), @)]

Here == <<layer, slot>>

(* load_layer_to of KDeepseekV2Model leaves the attention's projections    *)
(* alone: self_attn.to(device) does not reach the tensors of an operator.  *)
Managed(m) == m \in Modules /\ (m[2] = 1 => conf.family = "Qwen2Moe")

Target ==
  CASE pc = "load" -> "PREFILL"
    [] pc = "restore" -> "GENERATE"
    [] OTHER -> "UNLOAD"
Places == {"unload", "load", "compute", "clear", "restore"}

-----------------------------------------------------------------------------
(* The forward. *)

(* A faulty variant: the layers are counted from 1. *)
PastLast == layer = NLayers

Last == layer = NLayers - 1
Following ==
  IF pc = "load" THEN <<"compute", layer>>
  ELSE IF pc = "compute" /\ long THEN <<"clear", layer>>
  ELSE IF ~Last THEN <<IF pc = "clear" THEN "load" ELSE pc, layer + 1>>
  ELSE IF pc = "unload" THEN <<"load", 0>>
  ELSE IF pc = "clear" THEN <<"restore", 0>>
  ELSE <<"idle", 0>>

Advance ==
  /\ IF slot < 3
     THEN slot' = slot + 1 /\ UNCHANGED <<pc, layer, ready>>
     ELSE /\ slot' = 1 /\ pc' = Following[1] /\ layer' = Following[2]
          /\ ready' = (pc' = "idle")
  /\ UNCHANGED long

(* An exception leaves everything as it is.  The server goes on to the     *)
(* next request; local_chat.py ends.                                       *)
Raise ==
  /\ pc' = IF conf.server THEN "idle" ELSE "exited"
  /\ layer' = 0 /\ slot' = 1 /\ ready' = FALSE
  /\ UNCHANGED long

(* A faulty variant: the runner is kept, as the server does. *)
SameGraph == graph

(* prefill_and_generate captures a graph of its own; the server keeps one. *)
KeptGraph == IF conf.server THEN graph ELSE <<>>

Forward(kind) ==
  /\ pc = "idle" /\ Len(story) < MaxPasses
  /\ story' = Append(story, kind) /\ used' = {}
  /\ long' = (kind = "long")
  /\ pc' = IF kind = "long" THEN "unload" ELSE "compute"
  /\ ready' = FALSE
  /\ graph' = KeptGraph
  /\ UNCHANGED <<conf, model, layer, slot, failed, oom>>

(* One module after the other: load_layer_to switches it, ... *)
Skip ==
  /\ pc \in Places /\ (IF pc = "compute" THEN Here \notin Modules
                                         ELSE ~Managed(Here))
  /\ Advance
  /\ UNCHANGED <<conf, model, graph, story, used, failed, oom>>

(* A faulty variant: UNLOAD leaves the norms where they are. *)
OnlyToGPU == IF slot < 3 THEN cuda ELSE cuda \cup {layer}

(* The last thing load_layer_to moves are the layer's norms. *)
Moved ==
  IF slot < 3 THEN cuda
  ELSE IF Target = "UNLOAD" THEN cuda \ {layer} ELSE cuda \cup {layer}

Unload ==
  /\ pc \in {"unload", "clear"} /\ Managed(Here)
  /\ mod' = [mod EXCEPT ![Here] = UnloadedModule(Here)]
  /\ cuda' = Moved
  /\ Advance
  /\ UNCHANGED <<conf, graph, story, used, failed, oom>>

Breaks == LoadRaises(Kind(Here, Role(Target)), mod[Here].ops[Role(Target)])

Load ==
  /\ pc \in {"load", "restore"} /\ Managed(Here) /\ ~Breaks
  /\ mod' = [mod EXCEPT ![Here] = LoadedModule(Here, Target)]
  /\ cuda' = Moved
  /\ Advance
  /\ UNCHANGED <<conf, graph, story, used, failed, oom>>

LoadFails ==
  /\ pc \in {"load", "restore"} /\ Managed(Here) /\ Breaks
  /\ mod' = [mod EXCEPT ![Here] = HalfLoaded(Here, Role(Target))]
  /\ failed' = TRUE
  /\ Raise
  /\ UNCHANGED <<conf, cuda, graph, story, used, oom>>

(* ... and the decoder layer calls it. *)
Runs(m) == m[1] \in cuda /\ Tensors(m) # 0

(* KQwen2MoeSparseMoeBlock leaves out the fourth argument of               *)
(* KTransformersExperts.forward, which takes no default, but not when it   *)
(* decodes.                                                                *)
Rejects(m) == m[2] = Experts /\ conf.family = "Qwen2Moe"

Compute ==
  /\ pc = "compute" /\ Here \in Modules /\ Runs(Here) /\ ~Rejects(Here)
  /\ used' = IF Managed(Here) THEN used \cup {mod[Here].mode} ELSE used
  /\ Advance
  /\ UNCHANGED <<conf, model, graph, story, failed, oom>>

ComputeFails ==
  /\ pc = "compute" /\ Here \in Modules /\ (Runs(Here) => Rejects(Here))
  /\ failed' = TRUE
  /\ Raise
  /\ UNCHANGED <<conf, model, graph, story, used, oom>>

(* In a prefill by layers, memory for the weights or the activations. *)
OutOfMemory ==
  /\ long /\ pc \in {"load", "compute", "restore"} /\ ~oom
  /\ IF pc = "compute" THEN Here \in Modules ELSE Managed(Here)
  /\ oom' = TRUE
  /\ mod' = IF pc = "compute" THEN mod
            ELSE [mod EXCEPT ![Here] = HalfLoaded(Here, Role(Target))]
  /\ Raise
  /\ UNCHANGED <<conf, cuda, graph, story, used, failed>>

-----------------------------------------------------------------------------
(* Decoding with a CUDA graph: the first step captures it (once an eager   *)
(* one has warmed up), later ones replay it.  A capture that raises leaves *)
(* the server with a runner that holds no graph.                           *)

Broken == [m \in Modules |-> 0]
Captures == ready /\ pc = "idle" /\ conf.graphs /\ graph = <<>>

Capture ==
  /\ Captures /\ \A m \in Modules : Runs(m)
  /\ graph' = [m \in Modules |-> Tensors(m)]
  /\ UNCHANGED <<conf, model, host, story, used, failed, oom>>

CaptureFails ==
  /\ Captures /\ \E m \in Modules : ~Runs(m)
  /\ graph' = Broken
  /\ failed' = TRUE
  /\ Raise
  /\ UNCHANGED <<conf, model, story, used, oom>>

ReplayFails ==
  /\ ready /\ pc = "idle" /\ graph = Broken
  /\ failed' = TRUE
  /\ Raise
  /\ UNCHANGED <<conf, model, graph, story, used, oom>>

-----------------------------------------------------------------------------

(* KExpertsMarlin reads the router's results on the host, which a capture  *)
(* does not allow.                                                         *)
Configurations ==
  {c \in [family : {"Qwen2Moe", "DeepseekV2"}, server : BOOLEAN,
          graphs : BOOLEAN, linear : LinearOps, experts : ExpertsOps] :
     c.graphs => c.experts.generate = "KExpertsCPU"}

(* load_weights has loaded every module, in mode GENERATE. *)
Init ==
  /\ conf \in Configurations /\ story = <<>>
  /\ mod = [m \in Modules |->
              [mode |-> "GENERATE",
               ops |-> [prefill |-> NoTensors,
                        generate |->
                          Loaded(Kind(m, "generate"), NoTensors)]]]
  /\ cuda = Layers
  /\ pc = "idle" /\ layer = 0 /\ slot = 1 /\ long = FALSE /\ ready = FALSE
  /\ graph = <<>> /\ used = {}
  /\ failed = FALSE /\ oom = FALSE

Next ==
  \/ \E kind \in {"long", "short"} : Forward(kind)
  \/ Skip \/ Unload \/ Load \/ LoadFails \/ Compute \/ ComputeFails
  \/ OutOfMemory
  \/ Capture \/ CaptureFails \/ ReplayFails

Spec == Init /\ [][Next]_vars

-----------------------------------------------------------------------------

Operator == [loaded : BOOLEAN, tensors : 0 .. MaxPasses + 1]
Graphs == {<<>>} \cup [Modules -> 0 .. MaxPasses + 1]

(* Types; a forward that returned logits is over, and a position is a      *)
(* module only of a layer that has it.                                     *)
TypeOK ==
  /\ conf \in Configurations
  /\ mod \in [Modules -> [mode : {"PREFILL", "GENERATE"},
                          ops : [prefill : Operator, generate : Operator]]]
  /\ cuda \subseteq Layers
  /\ pc \in Places \cup {"idle", "exited"}
  /\ layer \in Layers /\ slot \in Slots
  /\ long \in BOOLEAN /\ ready \in BOOLEAN /\ (ready => pc = "idle")
  /\ graph \in Graphs
  /\ story \in Seq({"long", "short"}) /\ Len(story) <= MaxPasses
  /\ used \subseteq {"PREFILL", "GENERATE"}
  /\ failed \in BOOLEAN /\ oom \in BOOLEAN

(* A forward that returns logits has run every module in the configuration *)
(* of its kind: the prefill operators only in a prefill by layers, also    *)
(* after a forward that raised and left the layers in different modes.     *)
SameConfiguration ==
  ready => used = {IF long THEN "PREFILL" ELSE "GENERATE"}

(* Operators that can be loaded again after unload(). *)
Reloadable ==
  /\ \A r \in Roles :
       conf.linear[r] \in {"KLinearQ8", "KLinearFP8", "KLinearCPUInfer"}
  /\ \A r \in Roles : conf.experts[r] = "KExpertsCPU"

(* Whatever was unloaded, loaded or abandoned half way before: after a     *)
(* forward that returned, each layer is back on the GPU with its modules   *)
(* in mode GENERATE, and they can run if operators can be loaded again.    *)
AsLoaded ==
  ready => /\ cuda = Layers
           /\ \A m \in Modules : mod[m].mode = "GENERATE"
           /\ Reloadable => \A m \in Modules : Runs(m)

(* Unless memory ran out, whether a forward has raised is decided by the   *)
(* operators and the prompts: experts that load() breaks on need one long  *)
(* prompt, prefill operators that stay "loaded" two, and those that        *)
(* generate a forward of the other kind after it, or its capture; a sparse *)
(* layer of Qwen2-MoE needs a prompt.                                      *)
Longs == {i \in DOMAIN story : story[i] = "long"}
KeepsFlag == {"KLinearMarlin", "KLinearTorch"}
HasExperts == FirstSparse < NLayers
Doomed ==
  \/ HasExperts /\ conf.family = "Qwen2Moe" /\ story # <<>>
  \/ /\ HasExperts /\ Longs # {}
     /\ \/ conf.experts.prefill = "KExpertsTorch"
        \/ conf.experts.generate = "KExpertsMarlin"
  \/ /\ \E i, j \in Longs : i < j
     /\ \/ conf.linear.prefill \in KeepsFlag
        \/ HasExperts /\ conf.experts.prefill = "KExpertsMarlin"
  \/ /\ conf.linear.generate \in KeepsFlag
     /\ \/ \E i \in Longs, j \in DOMAIN story \ Longs : i < j
        \/ graph = Broken
FailureForetold == pc \in {"idle", "exited"} /\ ~oom => (failed <=> Doomed)

(* A graph that may be replayed reads tensors its operators do not hold    *)
(* any more exactly when a prefill by layers began after its capture,      *)
(* which only happens in the server.                                       *)
Outdated == \E i \in Longs : \A m \in Modules : graph[m] <= i
GraphCurrent ==
  ready /\ graph \notin {<<>>, Broken} =>
    /\ (\A m \in Modules : graph[m] = Tensors(m)) <=> ~Outdated
    /\ Outdated => conf.server
=============================================================================
