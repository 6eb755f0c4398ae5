---------------------- MODULE LayerwisePrefill_proofs ----------------------
(***************************************************************************)
(* Proofs about LayerwisePrefill, for every number of layers (two at       *)
(* least) and forwards and every choice of operators: types, that a        *)
(* forward which returns ran in one configuration, that it leaves the      *)
(* model as it was loaded, when the tensors of a captured graph are still  *)
(* those of its operators, and which prompts make which operators raise.   *)
(***************************************************************************)
EXTENDS LayerwisePrefill, TLAPS

ModuleType == [mode : {"PREFILL", "GENERATE"},
               ops : [prefill : Operator, generate : Operator]]

-----------------------------------------------------------------------------
(* Operators *)

ReloadableKinds ==
  {"KLinearQ8", "KLinearFP8", "KLinearCPUInfer", "KExpertsCPU"}

(* KLinearQ8 says it is loaded only if it is. *)
Honest(kind, o) == kind = "KLinearQ8" /\ o.loaded => o.tensors # 0

LEMMA LoadedOperator ==
  ASSUME story \in Seq({"long", "short"}), Len(story) <= MaxPasses,
         LayerwisePrefillAssumption, NEW kind, NEW o \in Operator,
         Honest(kind, o)
  PROVE  /\ Loaded(kind, o) \in Operator
         /\ Honest(kind, Loaded(kind, o))
         /\ kind \in ReloadableKinds => Loaded(kind, o).tensors # 0
<1>1. Number \in 1 .. MaxPasses + 1
  BY DEF Number, LayerwisePrefillAssumption
<1>2. CASE kind = "KLinearQ8"
  <2>1. Loaded(kind, o) = KLinearQ8Loaded(o)
    BY <1>2 DEF Loaded
  <2>2. CASE o.loaded
    BY <1>2, <2>1, <2>2 DEF KLinearQ8Loaded, Honest
  <2>3. CASE ~o.loaded
    <3>1. Loaded(kind, o) = [loaded |-> TRUE, tensors |-> Number]
      BY <2>1, <2>3 DEF KLinearQ8Loaded
    <3> QED
      BY <1>1, <3>1 DEF Operator, Honest
  <2> QED
    BY <2>2, <2>3
<1>3. CASE kind \in {"KLinearFP8", "KLinearCPUInfer", "KExpertsCPU"}
  <2>1. Loaded(kind, o) = [o EXCEPT !.tensors = Number]
    BY <1>3 DEF Loaded, KLinearFP8Loaded, KLinearCPUInferLoaded, KExpertsCPULoaded
  <2> QED
    BY <1>1, <1>3, <2>1 DEF Operator, Honest
<1>4. CASE kind \notin ReloadableKinds
  <2>1. Loaded(kind, o) =
          IF o.loaded THEN o ELSE [loaded |-> TRUE, tensors |-> Number]
    BY <1>4 DEF ReloadableKinds, Loaded, KLinearTorchLoaded,
                KLinearMarlinLoaded, KExpertsMarlinLoaded
  <2> QED
    BY <1>1, <1>4, <2>1 DEF Operator, Honest, ReloadableKinds
<1> QED
  BY <1>2, <1>3, <1>4 DEF ReloadableKinds

LEMMA UnloadedOperator ==
  ASSUME LayerwisePrefillAssumption, NEW kind, NEW o \in Operator,
         Honest(kind, o)
  PROVE  Unloaded(kind, o) \in Operator /\ Honest(kind, Unloaded(kind, o))
<1>1. CASE kind = "KLinearQ8"
  <2>1. Unloaded(kind, o) = NoTensors
    BY <1>1 DEF Unloaded, KLinearQ8Unloaded
  <2> QED
    BY <2>1 DEF NoTensors, Operator, Honest, LayerwisePrefillAssumption
<1>2. CASE kind # "KLinearQ8"
  <2>1. Unloaded(kind, o) \in {o, [o EXCEPT !.tensors = 0]}
    BY <1>2 DEF Unloaded, KLinearTorchUnloaded, KLinearMarlinUnloaded,
                KLinearFP8Unloaded, KExpertsMarlinUnloaded
  <2> QED
    BY <1>2, <2>1 DEF Operator, Honest, LayerwisePrefillAssumption
<1> QED
  BY <1>1, <1>2

-----------------------------------------------------------------------------
(* Modules *)

HonestInv ==
  \A m \in Modules, r \in Roles : Honest(Kind(m, r), mod[m].ops[r])

(* What each way to switch a module gives. *)
LEMMA UnloadedGives ==
  ASSUME TypeOK, HonestInv, NEW m \in Modules
  PROVE  /\ UnloadedModule(m) \in ModuleType
         /\ UnloadedModule(m).mode = mod[m].mode
         /\ \A r \in Roles : Honest(Kind(m, r), UnloadedModule(m).ops[r])
<1>1. mod[m] \in ModuleType
  BY DEF TypeOK, ModuleType
<1>2. \A r \in Roles : /\ Unloaded(Kind(m, r), mod[m].ops[r]) \in Operator
                       /\ Honest(Kind(m, r), Unloaded(Kind(m, r), mod[m].ops[r]))
  BY <1>1, UnloadedOperator, LayerwisePrefillAssumption
     DEF ModuleType, HonestInv, Roles
<1>3. UnloadedModule(m) =
        [mode |-> mod[m].mode,
         ops |-> [r \in Roles |-> Unloaded(Kind(m, r), mod[m].ops[r])]]
  BY <1>1 DEF UnloadedModule, ModuleType
<1>4. [r \in Roles |-> Unloaded(Kind(m, r), mod[m].ops[r])]
        \in [prefill : Operator, generate : Operator]
  BY <1>2 DEF Roles
<1> QED
  BY <1>1, <1>2, <1>3, <1>4 DEF ModuleType

LEMMA HalfGives ==
  ASSUME TypeOK, HonestInv, NEW m \in Modules, NEW role \in Roles
  PROVE  /\ HalfLoaded(m, role) \in ModuleType
         /\ HalfLoaded(m, role).mode = mod[m].mode
         /\ HalfLoaded(m, role).ops[role] = mod[m].ops[role]
         /\ \A r \in Roles : Honest(Kind(m, r), HalfLoaded(m, role).ops[r])
<1>1. mod[m] \in ModuleType
  BY DEF TypeOK, ModuleType
<1>2. Other(role) \in Roles /\ Other(role) # role
  BY DEF Other, Roles
<1> DEFINE q == Other(role)
           o == Unloaded(Kind(m, q), mod[m].ops[q])
<1>3. o \in Operator /\ Honest(Kind(m, q), o)
  BY <1>1, <1>2, UnloadedOperator, LayerwisePrefillAssumption
     DEF ModuleType, HonestInv, Roles
<1>4. HalfLoaded(m, role) =
        [mode |-> mod[m].mode, ops |-> [mod[m].ops EXCEPT ![q] = o]]
  BY <1>1 DEF HalfLoaded, ModuleType
<1> HIDE DEF o, q
<1> QED
  BY <1>1, <1>2, <1>3, <1>4 DEF ModuleType, HonestInv, Roles, q

LEMMA LoadedGives ==
  ASSUME TypeOK, HonestInv, NEW m \in Modules,
         NEW mode \in {"PREFILL", "GENERATE"}
  PROVE  /\ LoadedModule(m, mode) \in ModuleType
         /\ LoadedModule(m, mode).mode = mode
         /\ \A r \in Roles : Honest(Kind(m, r), LoadedModule(m, mode).ops[r])
         /\ Kind(m, Role(mode)) \in ReloadableKinds
            => LoadedModule(m, mode).ops[Role(mode)].tensors # 0
<1> DEFINE q == Role(mode)
           h == HalfLoaded(m, q)
           o == Loaded(Kind(m, q), h.ops[q])
<1>1. q \in Roles
  BY DEF Role, Roles
<1>2. /\ h \in ModuleType
      /\ \A r \in Roles : Honest(Kind(m, r), h.ops[r])
  BY <1>1, HalfGives
<1>3. h.ops[q] \in Operator
  BY <1>1, <1>2 DEF ModuleType, Roles
<1>4. /\ o \in Operator
      /\ Honest(Kind(m, q), o)
      /\ Kind(m, q) \in ReloadableKinds => o.tensors # 0
  BY <1>1, <1>2, <1>3, LoadedOperator, LayerwisePrefillAssumption DEF TypeOK
<1>5. LoadedModule(m, mode) = [mode |-> mode, ops |-> [h.ops EXCEPT ![q] = o]]
  <2>1. LoadedModule(m, mode) =
          [h EXCEPT !.mode = mode, !.ops[q] = Loaded(Kind(m, q), @)]
    BY DEF LoadedModule
  <2> HIDE DEF h, q
  <2> QED
    BY <1>2, <2>1 DEF ModuleType
<1> HIDE DEF h
<1> HIDE DEF o, q
<1> QED
  BY <1>1, <1>2, <1>3, <1>4, <1>5 DEF ModuleType, Roles, q

-----------------------------------------------------------------------------
(* Types *)

LEMMA AdvanceTypes ==
  ASSUME TypeOK, pc \in Places, Advance
  PROVE  /\ pc' \in Places \cup {"idle"} /\ layer' \in Layers
         /\ slot' \in Slots /\ long' = long
         /\ ready' \in BOOLEAN /\ (ready' => pc' = "idle")
<1> USE LayerwisePrefillAssumption DEF LayerwisePrefillAssumption
<1>1. CASE slot < 3
  BY <1>1 DEF Advance, TypeOK, Slots, Places
<1>2. CASE ~(slot < 3)
  <2>1. layer + 1 \in Layers \/ Last
    BY DEF Last, TypeOK, Layers
  <2>2. Following[1] \in Places \cup {"idle"} /\ Following[2] \in Layers
    BY <2>1 DEF Following, TypeOK, Layers, Places
  <2>3. /\ slot' = 1 /\ pc' = Following[1] /\ layer' = Following[2]
        /\ ready' = (pc' = "idle") /\ long' = long
    BY <1>2 DEF Advance
  <2>4. slot' \in Slots
    BY <2>3 DEF Slots
  <2>5. ready' \in BOOLEAN /\ (ready' => pc' = "idle")
    BY <2>3, Zenon
  <2> QED
    BY <2>2, <2>3, <2>4, <2>5
<1> QED
  BY <1>1, <1>2

LEMMA RaiseTypes ==
  ASSUME TypeOK, Raise
  PROVE  /\ pc' \in {"idle", "exited"} /\ layer' = 0 /\ layer' \in Layers
         /\ slot' = 1 /\ slot' \in Slots
         /\ long' = long /\ ready' = FALSE
  BY LayerwisePrefillAssumption
     DEF Raise, LayerwisePrefillAssumption, Layers, Slots

(* A module is switched by a step that leaves the rules alone. *)
LEMMA SwitchTypes ==
  ASSUME TypeOK, HonestInv, NEW h \in Modules, NEW v \in ModuleType,
         \A r \in Roles : Honest(Kind(h, r), v.ops[r]),
         mod' = [mod EXCEPT ![h] = v], UNCHANGED conf
  PROVE  mod' \in [Modules -> ModuleType] /\ HonestInv'
<1>1. mod \in [Modules -> ModuleType]
  BY DEF TypeOK, ModuleType
<1>2. \A m \in Modules : mod'[m] = IF m = h THEN v ELSE mod[m]
  BY <1>1
<1>3. \A m, r : Kind(m, r)' = Kind(m, r)
  BY DEF Kind
<1>4. ASSUME NEW m \in Modules, NEW r \in Roles
      PROVE  Honest(Kind(m, r), mod'[m].ops[r])
  BY <1>2, <1>4 DEF HonestInv
<1> QED
  BY <1>1, <1>3, <1>4 DEF HonestInv

LEMMA HereManaged ==
  ASSUME TypeOK, Managed(Here) PROVE Here \in Modules
  BY DEF Managed

LEMMA TensorsType ==
  ASSUME TypeOK, NEW m \in Modules PROVE Tensors(m) \in 0 .. MaxPasses + 1
<1>1. mod[m] \in ModuleType
  BY DEF TypeOK, ModuleType
<1> QED
  BY <1>1 DEF ModuleType, Tensors, Role, Operator

LEMMA TargetType == Target \in {"PREFILL", "GENERATE", "UNLOAD"}
  BY DEF Target

LEMMA MovedType == TypeOK => Moved \subseteq Layers
  BY DEF Moved, TypeOK

(* The steps that switch a module. *)
LEMMA UnloadSwitches ==
  ASSUME TypeOK, HonestInv, Unload
  PROVE  /\ mod' \in [Modules -> ModuleType] /\ HonestInv'
         /\ \A m \in Modules : mod'[m].mode = mod[m].mode
<1>1. Here \in Modules
  BY HereManaged DEF Unload
<1>2. mod' = [mod EXCEPT ![Here] = UnloadedModule(Here)] /\ UNCHANGED conf
  BY DEF Unload
<1>3. /\ UnloadedModule(Here) \in ModuleType
      /\ UnloadedModule(Here).mode = mod[Here].mode
      /\ \A r \in Roles : Honest(Kind(Here, r), UnloadedModule(Here).ops[r])
  BY <1>1, UnloadedGives
<1>4. mod' \in [Modules -> ModuleType] /\ HonestInv'
  BY <1>1, <1>2, <1>3, SwitchTypes
<1> QED
  BY <1>1, <1>2, <1>3, <1>4 DEF TypeOK

LEMMA LoadSwitches ==
  ASSUME TypeOK, HonestInv, Load
  PROVE  /\ mod' \in [Modules -> ModuleType] /\ HonestInv'
         /\ \A m \in Modules \ {Here} : mod'[m] = mod[m]
         /\ mod'[Here].mode = Target
         /\ Kind(Here, Role(Target)) \in ReloadableKinds
            => mod'[Here].ops[Role(Target)].tensors # 0
<1>1. Here \in Modules
  BY HereManaged DEF Load
<1>2. /\ mod' = [mod EXCEPT ![Here] = LoadedModule(Here, Target)]
      /\ UNCHANGED conf /\ Target \in {"PREFILL", "GENERATE"}
  BY DEF Load, Target
<1> DEFINE v == LoadedModule(Here, Target)
<1>3. /\ v \in ModuleType /\ v.mode = Target
      /\ \A r \in Roles : Honest(Kind(Here, r), v.ops[r])
      /\ Kind(Here, Role(Target)) \in ReloadableKinds
         => v.ops[Role(Target)].tensors # 0
  BY <1>1, <1>2, LoadedGives
<1> HIDE DEF v
<1>4. mod' = [mod EXCEPT ![Here] = v]
  BY <1>2 DEF v
<1>5. mod' \in [Modules -> ModuleType] /\ HonestInv'
  BY <1>1, <1>2, <1>3, <1>4, SwitchTypes
<1> QED
  BY <1>1, <1>3, <1>4, <1>5 DEF TypeOK

(* An operator that raises, or a GPU out of memory, leaves a module whose  *)
(* other operator is unloaded.                                             *)
LEMMA HalfSwitches ==
  ASSUME TypeOK, HonestInv, Managed(Here), UNCHANGED conf,
         mod' = [mod EXCEPT ![Here] = HalfLoaded(Here, Role(Target))]
  PROVE  /\ mod' \in [Modules -> ModuleType] /\ HonestInv'
         /\ \A m \in Modules \ {Here} : mod'[m] = mod[m]
<1>1. Here \in Modules
  BY HereManaged
<1>2. Role(Target) \in Roles
  BY DEF Role, Roles
<1> DEFINE v == HalfLoaded(Here, Role(Target))
<1>3. v \in ModuleType /\ \A r \in Roles : Honest(Kind(Here, r), v.ops[r])
  BY <1>1, <1>2, HalfGives
<1> HIDE DEF v
<1>4. mod' = [mod EXCEPT ![Here] = v]
  BY DEF v
<1>5. mod' \in [Modules -> ModuleType] /\ HonestInv'
  BY <1>1, <1>3, <1>4, SwitchTypes
<1> QED
  BY <1>1, <1>4, <1>5 DEF TypeOK

LEMMA HonestUnchanged ==
  HonestInv /\ UNCHANGED <<conf, mod>> => HonestInv'
BY DEF HonestInv, Kind

LEMMA TypeInit == Init => TypeOK /\ HonestInv
<1> SUFFICES ASSUME Init PROVE TypeOK /\ HonestInv
  OBVIOUS
<1> USE LayerwisePrefillAssumption DEF LayerwisePrefillAssumption
<1>1. NoTensors \in Operator /\ \A k : Honest(k, NoTensors)
  BY DEF NoTensors, Operator, Honest
<1>2. story \in Seq({"long", "short"}) /\ Len(story) <= MaxPasses
  BY DEF Init
<1>3. \A k : Loaded(k, NoTensors) \in Operator /\ Honest(k, Loaded(k, NoTensors))
  BY <1>1, <1>2, LoadedOperator
<1>4. ASSUME NEW m \in Modules
      PROVE  /\ mod[m] \in ModuleType
             /\ \A r \in Roles : Honest(Kind(m, r), mod[m].ops[r])
  <2> DEFINE o == Loaded(Kind(m, "generate"), NoTensors)
  <2>1. o \in Operator /\ Honest(Kind(m, "generate"), o)
    BY <1>3
  <2>2. mod[m] = [mode |-> "GENERATE",
                  ops |-> [prefill |-> NoTensors, generate |-> o]]
    BY DEF Init
  <2> HIDE DEF o
  <2> QED
    BY <1>1, <2>1, <2>2 DEF ModuleType, Roles
<1>5. mod \in [Modules -> ModuleType]
  BY <1>4 DEF Init
<1>6. HonestInv
  BY <1>4 DEF HonestInv
<1>7. layer \in Layers /\ slot \in Slots /\ graph \in Graphs
  BY DEF Init, Layers, Slots, Graphs
<1>8. /\ conf \in Configurations /\ cuda \subseteq Layers
      /\ pc \in Places \cup {"idle", "exited"} /\ long \in BOOLEAN
      /\ ready = FALSE /\ used = {} /\ failed = FALSE /\ oom = FALSE
  BY DEF Init
<1> QED
  BY <1>2, <1>5, <1>6, <1>7, <1>8 DEF TypeOK, ModuleType

LEMMA TypeStep ==
  ASSUME TypeOK, HonestInv, [Next]_vars
  PROVE  TypeOK' /\ HonestInv'
<1> USE LayerwisePrefillAssumption DEF LayerwisePrefillAssumption
<1> DEFINE Rest == /\ conf' \in Configurations /\ cuda' \subseteq Layers
                   /\ graph' \in Graphs
                   /\ story' \in Seq({"long", "short"})
                   /\ Len(story') <= MaxPasses
                   /\ used' \subseteq {"PREFILL", "GENERATE"}
                   /\ failed' \in BOOLEAN /\ oom' \in BOOLEAN
           Where == /\ pc' \in Places \cup {"idle", "exited"}
                    /\ layer' \in Layers /\ slot' \in Slots
                    /\ long' \in BOOLEAN /\ ready' \in BOOLEAN
                    /\ (ready' => pc' = "idle")
           Weights == mod' \in [Modules -> ModuleType] /\ HonestInv'
<1> SUFFICES Rest /\ Where /\ Weights
  BY DEF TypeOK, ModuleType
<1>1. mod \in [Modules -> ModuleType]
  BY DEF TypeOK, ModuleType
<1>2. ASSUME pc \in Places, Advance PROVE Where
  BY <1>2, AdvanceTypes DEF TypeOK
<1>3. ASSUME Raise PROVE Where
  BY <1>3, RaiseTypes DEF TypeOK
<1>4. UNCHANGED <<conf, mod>> => Weights
  BY <1>1, HonestUnchanged
<1>5. ASSUME NEW kind \in {"long", "short"}, Forward(kind)
      PROVE  Rest /\ Where /\ Weights
  <2>1. Weights
    BY <1>4, <1>5 DEF Forward, model
  <2>2. Where
    BY <1>5 DEF Forward, TypeOK, Places
  <2>3. graph' \in Graphs
    BY <1>5 DEF Forward, KeptGraph, Graphs, TypeOK
  <2>4. story' \in Seq({"long", "short"}) /\ Len(story') <= MaxPasses
    BY <1>5 DEF Forward, TypeOK
  <2>5. Rest
    BY <1>5, <2>3, <2>4 DEF Forward, TypeOK, model
  <2> QED
    BY <2>1, <2>2, <2>5
<1>6. CASE Skip
  <2>1. Weights /\ Where
    BY <1>2, <1>4, <1>6 DEF Skip, model
  <2> QED
    BY <1>6, <2>1 DEF Skip, model, TypeOK, ModuleType
<1>7. CASE Unload
  <2>1. Weights
    BY <1>7, UnloadSwitches
  <2>2. Where
    BY <1>2, <1>7 DEF Unload, Places
  <2>3. Rest
    BY <1>7, MovedType DEF Unload, TypeOK
  <2> QED
    BY <2>1, <2>2, <2>3
<1>8. CASE Load
  <2>1. Weights
    BY <1>8, LoadSwitches
  <2>2. Where
    BY <1>2, <1>8 DEF Load, Places
  <2>3. Rest
    BY <1>8, MovedType DEF Load, TypeOK
  <2> QED
    BY <2>1, <2>2, <2>3
<1>9. CASE LoadFails
  <2>1. Weights
    BY <1>9, HalfSwitches DEF LoadFails
  <2>2. Where
    BY <1>3, <1>9 DEF LoadFails
  <2>3. Rest
    BY <1>9 DEF LoadFails, TypeOK
  <2> QED
    BY <2>1, <2>2, <2>3
<1>10. CASE Compute
  <2>1. Weights
    BY <1>4, <1>10 DEF Compute, model
  <2>2. Where
    BY <1>2, <1>10 DEF Compute, Places
  <2>3. mod[Here].mode \in {"PREFILL", "GENERATE"}
    BY <1>1, <1>10 DEF Compute, ModuleType
  <2>4. Rest
    BY <1>10, <2>3 DEF Compute, TypeOK, model
  <2> QED
    BY <2>1, <2>2, <2>4
<1>11. CASE ComputeFails
  BY <1>3, <1>4, <1>11 DEF ComputeFails, TypeOK, model
<1>12. CASE OutOfMemory
  <2>1. Weights
    BY <1>4, <1>12, HalfSwitches DEF OutOfMemory
  <2>2. Where
    BY <1>3, <1>12 DEF OutOfMemory
  <2>3. Rest
    BY <1>12 DEF OutOfMemory, TypeOK
  <2> QED
    BY <2>1, <2>2, <2>3
<1>13. CASE Capture
  <2>1. graph' \in Graphs
    BY <1>13, TensorsType DEF Capture, Graphs
  <2>2. Weights
    BY <1>4, <1>13 DEF Capture, model
  <2> QED
    BY <1>13, <2>1, <2>2 DEF Capture, TypeOK, model, host, Captures
<1>14. CASE CaptureFails
  <2>1. graph' \in Graphs
    BY <1>14 DEF CaptureFails, Broken, Graphs
  <2>2. Weights /\ Where
    BY <1>3, <1>4, <1>14 DEF CaptureFails, model
  <2> QED
    BY <1>14, <2>1, <2>2 DEF CaptureFails, TypeOK, model
<1>15. CASE ReplayFails
  BY <1>3, <1>4, <1>15 DEF ReplayFails, TypeOK, model
<1>16. CASE UNCHANGED vars
  <2>1. Weights
    BY <1>4, <1>16 DEF vars, model
  <2> QED
    BY <1>16, <2>1 DEF vars, TypeOK, model, host
<1> HIDE DEF Rest, Where, Weights
<1> QED
  BY <1>5, <1>6, <1>7, <1>8, <1>9, <1>10, <1>11, <1>12, <1>13, <1>14,
     <1>15, <1>16 DEF Next

(* Every operator, position and graph is one the code can have, and a      *)
(* forward that returned its logits has come to its end.                   *)
THEOREM TypeCorrect == Spec => []TypeOK
<1>1. TypeOK /\ HonestInv /\ [Next]_vars => (TypeOK /\ HonestInv)'
  BY TypeStep
<1> QED
  BY <1>1, TypeInit, PTL DEF Spec

-----------------------------------------------------------------------------
(* Where the weights are at each stage of a forward.  What it raised from  *)
(* matters to the next one only by this: a model that is not whole has     *)
(* lost a layer, which a forward in mode GENERATE does not get past.       *)

WholeModule(m) ==
  /\ mod[m].mode = "GENERATE"
  /\ Reloadable => mod[m].ops["generate"].tensors # 0
Whole == cuda = Layers /\ \A m \in Modules : WholeModule(m)
Lost == \E l \in Layers : l \notin cuda

(* load_layer_to has dealt with a module. *)
Passed(m) == m[1] < layer \/ (m[1] = layer /\ m[2] < slot)

(* The modules no load_layer_to touches stay as they were loaded. *)
UnmanagedInv == \A m \in Modules : ~Managed(m) => WholeModule(m)

RestInv == layer = 0 /\ slot = 1 /\ (Whole \/ Lost)
ReadyInv == Whole /\ used = {IF long THEN "PREFILL" ELSE "GENERATE"}
ShortInv ==
  /\ Whole \/ Lost
  /\ Whole => used \subseteq {"GENERATE"}
  /\ \A l \in Layers : l < layer => l \in cuda
UnloadInv == long /\ used = {} /\ \A l \in Layers : l < layer => l \notin cuda
LoadInv ==
  /\ long /\ cuda = {} /\ used \subseteq {"PREFILL"}
  /\ \A m \in Modules : m[1] = layer /\ m[2] < slot /\ Managed(m)
                        => mod[m].mode = "PREFILL"
LongInv ==
  /\ cuda \subseteq {layer} /\ used \subseteq {"PREFILL"}
  /\ \A m \in Modules : m[1] = layer /\ Managed(m) => mod[m].mode = "PREFILL"
ClearInv == long /\ cuda \subseteq {layer} /\ used = {"PREFILL"}
RestoreInv ==
  /\ long /\ used = {"PREFILL"}
  /\ cuda = {l \in Layers : l < layer}
  /\ \A m \in Modules : Passed(m) => WholeModule(m)

StageInv ==
  /\ pc \in {"idle", "exited"} => RestInv
  /\ ready => ReadyInv
  /\ pc = "compute" /\ ~long => ShortInv
  /\ pc = "unload" => UnloadInv
  /\ pc = "load" => LoadInv
  /\ pc = "compute" /\ long => LongInv
  /\ pc = "clear" => ClearInv
  /\ pc = "restore" => RestoreInv

-----------------------------------------------------------------------------
(* Positions *)

LEMMA ModuleParts ==
  ASSUME NEW m \in Modules
  PROVE  /\ m[1] \in Int /\ 0 <= m[1] /\ m[1] <= NLayers - 1
         /\ m[2] \in Int /\ 1 <= m[2] /\ m[2] <= 3
         /\ m[1] = layer /\ m[2] = slot => m = Here
<1>1. m \in Layers \X Slots
  BY DEF Modules
<1>2. m[1] \in Layers /\ m[2] \in Slots /\ m = <<m[1], m[2]>>
  BY <1>1
<1> QED
  BY <1>2, LayerwisePrefillAssumption
     DEF LayerwisePrefillAssumption, Layers, Slots, Here

(* Every layer ends with a module load_layer_to deals with. *)
LEMMA ThirdManaged ==
  ASSUME TypeOK, ~(slot < 3)
  PROVE  slot = 3 /\ Here \in Modules /\ Managed(Here)
<1>1. slot = 3 /\ layer \in Layers
  BY DEF TypeOK, Slots
<1>2. Here \in Layers \X Slots /\ Here[2] = 3
  BY <1>1 DEF Here, Slots
<1> QED
  BY <1>1, <1>2 DEF Modules, Managed, Experts

LEMMA Stays ==
  ASSUME Advance, slot < 3
  PROVE  /\ slot' = slot + 1 /\ pc' = pc /\ layer' = layer
         /\ ready' = ready /\ long' = long
  BY DEF Advance

LEMMA Leaves ==
  ASSUME Advance, ~(slot < 3)
  PROVE  /\ slot' = 1 /\ pc' = Following[1] /\ layer' = Following[2]
         /\ ready' = (pc' = "idle") /\ long' = long
  BY DEF Advance

(* A step of load_layer_to: what it does but for the module itself. *)
LEMMA Switches ==
  ASSUME TypeOK, Skip \/ Unload \/ Load, pc # "compute"
  PROVE  /\ Advance /\ used' = used /\ conf' = conf
         /\ slot < 3 => cuda' = cuda
         /\ ~(slot < 3) =>
              cuda' = IF Target = "UNLOAD" THEN cuda \ {layer}
                                           ELSE cuda \cup {layer}
  BY ThirdManaged DEF Skip, Unload, Load, Moved, model

(* Each module but the one being switched is as it was. *)
LEMMA ManagedStep ==
  ASSUME TypeOK, HonestInv, UnmanagedInv, [Next]_vars
  PROVE  UnmanagedInv'
<1>1. conf' = conf
  BY DEF Next, Forward, Skip, Unload, Load, LoadFails, Compute, ComputeFails,
         OutOfMemory, Capture, CaptureFails, ReplayFails, vars
<1>2. CASE mod' = mod
  BY <1>1, <1>2 DEF UnmanagedInv, Managed, WholeModule, Reloadable
<1>3. CASE Managed(Here) /\ \E v : mod' = [mod EXCEPT ![Here] = v]
  <2>1. \A m \in Modules : ~Managed(m) => mod'[m] = mod[m]
    BY <1>3 DEF TypeOK
  <2> QED
    BY <1>1, <2>1 DEF UnmanagedInv, Managed, WholeModule, Reloadable
<1> QED
  BY <1>2, <1>3
     DEF Next, Forward, Skip, Unload, Load, LoadFails, Compute, ComputeFails,
         OutOfMemory, Capture, CaptureFails, ReplayFails, vars, model

-----------------------------------------------------------------------------
(* The stages of a forward *)

LEMMA UnloadStage ==
  ASSUME TypeOK, StageInv, pc = "unload", Skip \/ Unload
  PROVE  StageInv'
<1> USE LayerwisePrefillAssumption DEF LayerwisePrefillAssumption
<1>1. UnloadInv /\ ready = FALSE /\ layer \in Layers /\ cuda \subseteq Layers
  BY DEF StageInv, TypeOK
<1>2. /\ Advance /\ used' = used
      /\ slot < 3 => cuda' = cuda
      /\ ~(slot < 3) => cuda' = cuda \ {layer}
  BY Switches DEF Target
<1>3. CASE slot < 3
  BY <1>1, <1>2, <1>3, Stays DEF StageInv, UnloadInv
<1>4. CASE ~(slot < 3) /\ ~Last
  <2>1. pc' = "unload" /\ layer' = layer + 1 /\ ready' = FALSE /\ long' = long
    BY <1>2, <1>4, Leaves DEF Following
  <2> QED
    BY <1>1, <1>2, <1>4, <2>1 DEF StageInv, UnloadInv, Layers
<1>5. CASE ~(slot < 3) /\ Last
  <2>1. /\ pc' = "load" /\ layer' = 0 /\ slot' = 1
        /\ ready' = FALSE /\ long' = long
    BY <1>2, <1>5, Leaves DEF Following
  <2>2. cuda' = {}
    <3>1. \A l \in Layers : l < layer \/ l = layer
      BY <1>1, <1>5 DEF Last, Layers
    <3>2. \A l \in Layers : l \notin cuda'
      BY <1>1, <1>2, <1>5, <3>1 DEF UnloadInv
    <3> QED
      BY <1>1, <1>2, <1>5, <3>2
  <2>3. \A m \in Modules : ~(m[2] < slot')
    BY <2>1, ModuleParts
  <2>4. LoadInv'
    BY <1>1, <1>2, <2>1, <2>2, <2>3 DEF UnloadInv, LoadInv
  <2> QED
    BY <2>1, <2>4 DEF StageInv
<1> QED
  BY <1>3, <1>4, <1>5

LEMMA LoadStage ==
  ASSUME TypeOK, HonestInv, StageInv, pc = "load", Skip \/ Load
  PROVE  StageInv'
<1>1. LoadInv /\ ready = FALSE /\ layer \in Layers /\ slot \in Slots
  BY DEF StageInv, TypeOK
<1>2. /\ Advance /\ used' = used /\ conf' = conf
      /\ slot < 3 => cuda' = cuda
      /\ ~(slot < 3) => cuda' = cuda \cup {layer}
  BY Switches DEF Target
<1>3. \A m : Managed(m)' = Managed(m)
  BY <1>2 DEF Managed
<1>4. ASSUME NEW m \in Modules, Managed(m), m[1] = layer,
             m[2] < slot \/ m[2] = slot
      PROVE  mod'[m].mode = "PREFILL"
  <2>1. CASE Load /\ m = Here
    BY <2>1, LoadSwitches DEF Target
  <2>2. CASE m # Here
    <3>1. mod[m].mode = "PREFILL"
      BY <1>1, <1>4, <2>2, ModuleParts DEF LoadInv
    <3>2. mod'[m] = mod[m]
      BY <2>2, LoadSwitches DEF Skip, model
    <3> QED
      BY <3>1, <3>2
  <2>3. CASE Skip /\ m = Here
    BY <1>4, <2>3 DEF Skip
  <2> QED
    BY <2>1, <2>2, <2>3
<1>5. CASE slot < 3
  <2>1. /\ pc' = "load" /\ layer' = layer /\ slot' = slot + 1
        /\ ready' = FALSE /\ long' = long
    BY <1>1, <1>2, <1>5, Stays
  <2>2. \A m \in Modules : m[2] < slot' => m[2] < slot \/ m[2] = slot
    BY <1>1, <2>1, ModuleParts DEF Slots
  <2>3. LoadInv'
    BY <1>1, <1>2, <1>3, <1>4, <1>5, <2>1, <2>2 DEF LoadInv
  <2> QED
    BY <2>1, <2>3 DEF StageInv
<1>6. CASE ~(slot < 3)
  <2>1. /\ pc' = "compute" /\ layer' = layer
        /\ ready' = FALSE /\ long' = long
    BY <1>2, <1>6, Leaves DEF Following
  <2>2. \A m \in Modules : m[2] < slot \/ m[2] = slot
    BY <1>1, <1>6, ModuleParts DEF Slots
  <2>3. LongInv'
    BY <1>1, <1>2, <1>3, <1>4, <1>6, <2>1, <2>2 DEF LoadInv, LongInv
  <2> QED
    BY <1>1, <2>1, <2>3 DEF StageInv, LoadInv
<1> QED
  BY <1>5, <1>6

LEMMA LongStage ==
  ASSUME TypeOK, StageInv, pc = "compute", long, Skip \/ Compute
  PROVE  StageInv'
<1>1. LongInv /\ ready = FALSE
  BY DEF StageInv, TypeOK
<1>2. Advance /\ UNCHANGED <<conf, mod, cuda>>
  BY DEF Skip, Compute, model
<1>3. \A m : Managed(m)' = Managed(m)
  BY <1>2 DEF Managed
<1>4. Here[1] = layer
  BY DEF Here
<1>5. used' \subseteq {"PREFILL"}
  BY <1>1, <1>4 DEF Skip, Compute, LongInv
<1>6. CASE slot < 3
  <2>1. /\ pc' = "compute" /\ layer' = layer
        /\ ready' = FALSE /\ long' = long
    BY <1>1, <1>2, <1>6, Stays
  <2>2. LongInv'
    BY <1>1, <1>2, <1>3, <1>5, <2>1 DEF LongInv
  <2> QED
    BY <2>1, <2>2 DEF StageInv
<1>7. CASE ~(slot < 3)
  <2>1. pc' = "clear" /\ layer' = layer /\ ready' = FALSE /\ long' = long
    BY <1>2, <1>7, Leaves DEF Following
  <2>2. Here \in Modules /\ Managed(Here)
    BY <1>7, ThirdManaged
  <2>3. used' = {"PREFILL"}
    BY <1>1, <1>4, <1>5, <2>2 DEF Skip, Compute, LongInv
  <2>4. ClearInv'
    BY <1>1, <1>2, <2>1, <2>3 DEF LongInv, ClearInv
  <2> QED
    BY <2>1, <2>4 DEF StageInv
<1> QED
  BY <1>6, <1>7

LEMMA ClearStage ==
  ASSUME TypeOK, StageInv, pc = "clear", Skip \/ Unload
  PROVE  StageInv'
<1>1. ClearInv /\ ready = FALSE /\ layer \in Layers
  BY DEF StageInv, TypeOK
<1>2. /\ Advance /\ used' = used
      /\ slot < 3 => cuda' = cuda
      /\ ~(slot < 3) => cuda' = cuda \ {layer}
  BY Switches DEF Target
<1>3. CASE slot < 3
  BY <1>1, <1>2, <1>3, Stays DEF StageInv, ClearInv
<1>4. CASE ~(slot < 3)
  <2>1. cuda' = {}
    BY <1>1, <1>2, <1>4 DEF ClearInv
  <2>2. /\ slot' = 1 /\ ready' = FALSE /\ long' = long
        /\ \/ pc' = "load"
           \/ pc' = "restore" /\ layer' = 0
    BY <1>2, <1>4, Leaves DEF Following
  <2>3. CASE pc' = "load"
    <3>1. \A m \in Modules : ~(m[2] < slot')
      BY <2>2, ModuleParts
    <3>2. LoadInv'
      BY <1>1, <1>2, <2>1, <2>2, <3>1 DEF ClearInv, LoadInv
    <3> QED
      BY <2>2, <2>3, <3>2 DEF StageInv
  <2>4. CASE pc' = "restore" /\ layer' = 0
    <3>1. \A m \in Modules : ~Passed(m)'
      BY <2>2, <2>4, ModuleParts DEF Passed
    <3>2. RestoreInv'
      BY <1>1, <1>2, <2>1, <2>2, <2>4, <3>1 DEF ClearInv, RestoreInv, Layers
    <3> QED
      BY <2>2, <2>4, <3>2 DEF StageInv
  <2> QED
    BY <2>2, <2>3, <2>4
<1> QED
  BY <1>3, <1>4

LEMMA ReloadableGives ==
  ASSUME Reloadable, NEW m, NEW r \in Roles
  PROVE  Kind(m, r) \in ReloadableKinds
  BY DEF Reloadable, Kind, ReloadableKinds

(* After the last layer the model is whole again. *)
LEMMA RestoreStage ==
  ASSUME TypeOK, HonestInv, UnmanagedInv, StageInv, pc = "restore",
         Skip \/ Load
  PROVE  StageInv'
<1> USE LayerwisePrefillAssumption DEF LayerwisePrefillAssumption
<1>1. /\ RestoreInv /\ ready = FALSE
      /\ layer \in Int /\ 0 <= layer /\ layer <= NLayers - 1
      /\ slot \in 1 .. 3
  BY DEF StageInv, TypeOK, Layers, Slots
<1>2. /\ Advance /\ used' = used /\ conf' = conf
      /\ slot < 3 => cuda' = cuda
      /\ ~(slot < 3) => cuda' = cuda \cup {layer}
  BY Switches DEF Target
<1>3. ASSUME NEW m \in Modules, Passed(m) \/ m = Here
      PROVE  WholeModule(m)'
  <2>1. CASE Load /\ m = Here
    <3>1. mod'[m].mode = "GENERATE"
      BY <2>1, LoadSwitches DEF Target
    <3>2. ASSUME Reloadable PROVE mod'[m].ops["generate"].tensors # 0
      <4>1. Role(Target) = "generate"
        BY DEF Role, Target
      <4>2. Kind(Here, "generate") \in ReloadableKinds
        BY <3>2, ReloadableGives DEF Roles
      <4> QED
        BY <2>1, <4>1, <4>2, LoadSwitches
    <3> QED
      BY <1>2, <3>1, <3>2 DEF WholeModule, Reloadable
  <2>2. CASE ~(Load /\ m = Here)
    <3>1. mod'[m] = mod[m]
      BY <2>2, LoadSwitches DEF Skip, model
    <3>2. WholeModule(m)
      BY <1>1, <1>3, <2>2 DEF RestoreInv, UnmanagedInv, Skip
    <3> QED
      BY <1>2, <3>1, <3>2 DEF WholeModule, Reloadable
  <2> QED
    BY <2>1, <2>2
<1>4. CASE slot < 3
  <2>1. /\ pc' = "restore" /\ layer' = layer /\ slot' = slot + 1
        /\ ready' = FALSE /\ long' = long
    BY <1>1, <1>2, <1>4, Stays
  <2>2. ASSUME NEW m \in Modules, Passed(m)' PROVE Passed(m) \/ m = Here
    BY <1>1, <2>1, <2>2, ModuleParts DEF Passed
  <2>3. RestoreInv'
    BY <1>1, <1>2, <1>3, <1>4, <2>1, <2>2 DEF RestoreInv
  <2> QED
    BY <2>1, <2>3 DEF StageInv
<1>5. CASE ~(slot < 3)
  <2>1. ASSUME NEW m \in Modules, m[1] <= layer PROVE WholeModule(m)'
    <3>1. Passed(m) \/ m = Here
      BY <1>1, <1>5, <2>1, ModuleParts DEF Passed
    <3> QED
      BY <1>3, <3>1
  <2>2. cuda' = {l \in Layers : l < layer + 1}
    <3>1. \A l : l \in cuda' <=> (l \in Layers /\ l < layer) \/ l = layer
      BY <1>1, <1>2, <1>5 DEF RestoreInv
    <3>2. \A l \in Layers : l < layer + 1 <=> l < layer \/ l = layer
      BY <1>1 DEF Layers
    <3>3. layer \in Layers
      BY <1>1 DEF Layers
    <3> QED
      BY <3>1, <3>2, <3>3
  <2>3. CASE ~Last
    <3>1. /\ pc' = "restore" /\ layer' = layer + 1 /\ slot' = 1
          /\ ready' = FALSE /\ long' = long
      BY <1>2, <1>5, <2>3, Leaves DEF Following
    <3>2. ASSUME NEW m \in Modules, Passed(m)' PROVE m[1] <= layer
      BY <1>1, <3>1, <3>2, ModuleParts DEF Passed
    <3>3. RestoreInv'
      BY <1>1, <1>2, <2>1, <2>2, <3>1, <3>2 DEF RestoreInv
    <3> QED
      BY <3>1, <3>3 DEF StageInv
  <2>4. CASE Last
    <3>1. pc' = "idle" /\ layer' = 0 /\ slot' = 1 /\ long' = long
      BY <1>2, <1>5, <2>4, Leaves DEF Following
    <3>2. \A m \in Modules : m[1] <= layer
      BY <2>4, ModuleParts DEF Last
    <3>3. cuda' = Layers
      BY <1>1, <2>2, <2>4 DEF Last, Layers
    <3>4. Whole'
      BY <2>1, <3>2, <3>3 DEF Whole, Layers, Modules
    <3>5. ReadyInv' /\ RestInv'
      BY <1>1, <1>2, <3>1, <3>4 DEF RestoreInv, ReadyInv, RestInv
    <3> QED
      BY <3>1, <3>5 DEF StageInv
  <2> QED
    BY <2>3, <2>4
<1> QED
  BY <1>4, <1>5

(* A forward in mode GENERATE gets to its end only through layers that are *)
(* on the GPU, so the model was whole.                                     *)
LEMMA ShortStage ==
  ASSUME TypeOK, StageInv, pc = "compute", ~long, Skip \/ Compute
  PROVE  StageInv'
<1> USE LayerwisePrefillAssumption DEF LayerwisePrefillAssumption
<1>1. ShortInv /\ ready = FALSE /\ layer \in Layers /\ cuda \subseteq Layers
  BY DEF StageInv, TypeOK
<1>2. Advance /\ UNCHANGED <<conf, mod, cuda>>
  BY DEF Skip, Compute, model
<1>3. (Whole' <=> Whole) /\ (Lost' <=> Lost)
  BY <1>2 DEF Whole, Lost, WholeModule, Reloadable
<1>4. ASSUME Whole PROVE used' \subseteq {"GENERATE"}
  BY <1>1, <1>4 DEF Skip, Compute, ShortInv, Whole, WholeModule
<1>5. CASE slot < 3
  <2>1. /\ pc' = "compute" /\ layer' = layer
        /\ ready' = FALSE /\ long' = long
    BY <1>1, <1>2, <1>5, Stays
  <2>2. ShortInv'
    BY <1>1, <1>2, <1>3, <1>4, <2>1 DEF ShortInv
  <2> QED
    BY <2>1, <2>2 DEF StageInv
<1>6. CASE ~(slot < 3)
  <2>1. Here \in Modules /\ Managed(Here) /\ Here[1] = layer
    BY <1>6, ThirdManaged DEF Here
  <2>2. layer \in cuda /\ used' = used \cup {mod[Here].mode}
    BY <2>1 DEF Skip, Compute, Runs
  <2>3. \A l \in Layers : l < layer + 1 => l \in cuda'
    BY <1>1, <1>2, <2>2 DEF ShortInv, Layers
  <2>4. CASE ~Last
    <3>1. /\ pc' = "compute" /\ layer' = layer + 1
          /\ ready' = FALSE /\ long' = long
      BY <1>2, <1>6, <2>4, Leaves DEF Following
    <3>2. ShortInv'
      BY <1>1, <1>2, <1>3, <1>4, <2>3, <3>1 DEF ShortInv
    <3> QED
      BY <3>1, <3>2 DEF StageInv
  <2>5. CASE Last
    <3>1. pc' = "idle" /\ layer' = 0 /\ slot' = 1 /\ long' = long
      BY <1>2, <1>6, <2>5, Leaves DEF Following
    <3>2. \A l \in Layers : l < layer + 1
      BY <2>5 DEF Last, Layers
    <3>3. Whole
      BY <1>1, <1>2, <2>3, <3>2 DEF ShortInv, Lost
    <3>4. used' = {"GENERATE"}
      BY <1>4, <2>1, <2>2, <3>3 DEF Whole, WholeModule
    <3>5. ReadyInv' /\ RestInv'
      BY <1>3, <3>1, <3>3, <3>4 DEF ReadyInv, RestInv
    <3> QED
      BY <3>1, <3>5 DEF StageInv
  <2> QED
    BY <2>4, <2>5
<1> QED
  BY <1>5, <1>6

(* Whatever raises in a prefill by layers, some layer is not on the GPU.   *)
LEMMA RaiseStage ==
  ASSUME TypeOK, StageInv, pc \in {"load", "compute", "restore"}, Raise,
         cuda' = cuda, mod' = mod \/ long, conf' = conf
  PROVE  StageInv'
<1> USE LayerwisePrefillAssumption DEF LayerwisePrefillAssumption
<1>1. /\ pc' \in {"idle", "exited"} /\ layer' = 0 /\ slot' = 1
      /\ ready' = FALSE
  BY RaiseTypes
<1>2. layer \in Layers /\ layer \in Int
  BY DEF TypeOK, Layers
<1>3. CASE pc = "compute" /\ ~long
  <2>1. Whole \/ Lost
    BY <1>3 DEF StageInv, ShortInv
  <2>2. Whole' \/ Lost'
    BY <1>3, <2>1 DEF Whole, Lost, WholeModule, Reloadable
  <2> QED
    BY <1>1, <2>2 DEF StageInv, RestInv
<1>4. CASE ~(pc = "compute" /\ ~long)
  <2>1. cuda \subseteq {layer} \/ layer \notin cuda
    BY <1>2, <1>4 DEF StageInv, LoadInv, LongInv, RestoreInv
  <2>2. 0 \in Layers /\ 1 \in Layers
    BY DEF Layers
  <2>3. Lost'
    BY <1>2, <2>1, <2>2 DEF Lost
  <2> QED
    BY <1>1, <2>3 DEF StageInv, RestInv
<1> QED
  BY <1>3, <1>4

-----------------------------------------------------------------------------
(* The model between forwards *)

LEMMA ForwardStage ==
  ASSUME TypeOK, StageInv, NEW kind \in {"long", "short"}, Forward(kind)
  PROVE  StageInv'
<1>1. /\ Whole \/ Lost
      /\ layer = 0 /\ layer' = 0 /\ ready' = FALSE /\ used' = {}
      /\ cuda' = cuda /\ mod' = mod /\ conf' = conf
  BY DEF Forward, StageInv, RestInv, model
<1>2. \A l \in Layers : ~(l < layer')
  BY <1>1 DEF Layers
<1>3. CASE kind = "long"
  <2>1. pc' = "unload" /\ long'
    BY <1>3 DEF Forward
  <2>2. UnloadInv'
    BY <1>1, <1>2, <2>1 DEF UnloadInv
  <2> QED
    BY <1>1, <2>1, <2>2 DEF StageInv
<1>4. CASE kind = "short"
  <2>1. pc' = "compute" /\ ~long'
    BY <1>4 DEF Forward
  <2>2. Whole' \/ Lost'
    BY <1>1 DEF Whole, Lost, WholeModule, Reloadable
  <2>3. ShortInv'
    BY <1>1, <1>2, <2>2 DEF ShortInv
  <2> QED
    BY <1>1, <2>1, <2>3 DEF StageInv
<1> QED
  BY <1>3, <1>4

(* Steps that leave the model alone and may end what was ready. *)
LEMMA GraphStage ==
  ASSUME StageInv, UNCHANGED <<conf, mod, cuda, used>>,
         \/ UNCHANGED <<pc, layer, slot, long, ready>>
         \/ pc = "idle" /\ Raise
  PROVE  StageInv'
<1>1. (Whole' <=> Whole) /\ (Lost' <=> Lost)
  BY DEF Whole, Lost, WholeModule, Reloadable
<1>2. CASE UNCHANGED <<pc, layer, slot, long, ready>>
  <2>1. /\ RestInv' <=> RestInv
        /\ ReadyInv' <=> ReadyInv
        /\ ShortInv' <=> ShortInv
    BY <1>1, <1>2 DEF RestInv, ReadyInv, ShortInv
  <2>2. /\ UnloadInv' <=> UnloadInv
        /\ LoadInv' <=> LoadInv
        /\ LongInv' <=> LongInv
        /\ ClearInv' <=> ClearInv
    BY <1>2 DEF UnloadInv, LoadInv, LongInv, ClearInv, Managed
  <2>3. RestoreInv' <=> RestoreInv
    BY <1>2 DEF RestoreInv, Passed, WholeModule, Reloadable
  <2> QED
    BY <1>2, <2>1, <2>2, <2>3 DEF StageInv
<1>3. CASE pc = "idle" /\ Raise
  <2>1. /\ pc' \in {"idle", "exited"} /\ layer' = 0 /\ slot' = 1
        /\ ready' = FALSE
    BY <1>3 DEF Raise
  <2>2. RestInv'
    BY <1>1, <1>3, <2>1 DEF StageInv, RestInv
  <2> QED
    BY <2>1, <2>2 DEF StageInv
<1> QED
  BY <1>2, <1>3

LEMMA StageStep ==
  ASSUME TypeOK, HonestInv, UnmanagedInv, StageInv, [Next]_vars
  PROVE  StageInv'
<1>1. ASSUME NEW kind \in {"long", "short"}, Forward(kind) PROVE StageInv'
  BY <1>1, ForwardStage
<1>2. CASE Skip
  <2>1. CASE pc = "unload"
    BY <1>2, <2>1, UnloadStage
  <2>2. CASE pc = "load"
    BY <1>2, <2>2, LoadStage
  <2>3. CASE pc = "compute"
    BY <1>2, <2>3, LongStage, ShortStage
  <2>4. CASE pc = "clear"
    BY <1>2, <2>4, ClearStage
  <2>5. CASE pc = "restore"
    BY <1>2, <2>5, RestoreStage
  <2> QED
    BY <1>2, <2>1, <2>2, <2>3, <2>4, <2>5 DEF Skip, Places
<1>3. CASE Unload
  <2>1. CASE pc = "unload"
    BY <1>3, <2>1, UnloadStage
  <2>2. CASE pc = "clear"
    BY <1>3, <2>2, ClearStage
  <2> QED
    BY <1>3, <2>1, <2>2 DEF Unload
<1>4. CASE Load
  <2>1. CASE pc = "load"
    BY <1>4, <2>1, LoadStage
  <2>2. CASE pc = "restore"
    BY <1>4, <2>2, RestoreStage
  <2> QED
    BY <1>4, <2>1, <2>2 DEF Load
<1>5. CASE LoadFails
  <2>1. /\ pc \in {"load", "restore"} /\ Raise
        /\ cuda' = cuda /\ conf' = conf
    BY <1>5 DEF LoadFails
  <2>2. long
    BY <2>1 DEF StageInv, LoadInv, RestoreInv
  <2> QED
    BY <2>1, <2>2, RaiseStage
<1>6. CASE Compute
  <2>1. pc = "compute"
    BY <1>6 DEF Compute
  <2> QED
    BY <1>6, <2>1, LongStage, ShortStage
<1>7. CASE ComputeFails
  <2>1. /\ pc = "compute" /\ Raise
        /\ cuda' = cuda /\ conf' = conf /\ mod' = mod
    BY <1>7 DEF ComputeFails, model
  <2> QED
    BY <2>1, RaiseStage
<1>8. CASE OutOfMemory
  <2>1. /\ pc \in {"load", "compute", "restore"} /\ Raise /\ long
        /\ cuda' = cuda /\ conf' = conf
    BY <1>8 DEF OutOfMemory
  <2> QED
    BY <2>1, RaiseStage
<1>9. CASE Capture \/ CaptureFails \/ ReplayFails \/ UNCHANGED vars
  <2>1. /\ UNCHANGED <<conf, mod, cuda, used>>
        /\ \/ UNCHANGED <<pc, layer, slot, long, ready>>
           \/ pc = "idle" /\ Raise
    BY <1>9 DEF Capture, CaptureFails, ReplayFails, Captures, vars, model, host
  <2> QED
    BY <2>1, GraphStage
<1> QED
  BY <1>1, <1>2, <1>3, <1>4, <1>5, <1>6, <1>7, <1>8, <1>9 DEF Next

LEMMA StageInit == Init => UnmanagedInv /\ StageInv
<1> SUFFICES ASSUME Init PROVE UnmanagedInv /\ StageInv
  OBVIOUS
<1>1. story \in Seq({"long", "short"}) /\ Len(story) <= MaxPasses
  BY LayerwisePrefillAssumption DEF Init, LayerwisePrefillAssumption
<1>2. NoTensors \in Operator /\ \A k : Honest(k, NoTensors)
  BY LayerwisePrefillAssumption
     DEF NoTensors, Operator, Honest, LayerwisePrefillAssumption
<1>3. ASSUME NEW m \in Modules PROVE WholeModule(m)
  <2> DEFINE o == Loaded(Kind(m, "generate"), NoTensors)
  <2>1. mod[m].mode = "GENERATE" /\ mod[m].ops["generate"] = o
    BY DEF Init
  <2>2. Kind(m, "generate") \in ReloadableKinds => o.tensors # 0
    BY <1>1, <1>2, LoadedOperator, LayerwisePrefillAssumption
  <2> HIDE DEF o
  <2>3. Reloadable => o.tensors # 0
    BY <2>2, ReloadableGives DEF Roles
  <2> QED
    BY <2>1, <2>3 DEF WholeModule
<1>4. Whole
  BY <1>3 DEF Whole, Init
<1> QED
  BY <1>3, <1>4 DEF UnmanagedInv, StageInv, RestInv, Init

StageInductive == TypeOK /\ HonestInv /\ UnmanagedInv /\ StageInv

LEMMA StagesHold == Spec => []StageInductive
<1>1. Init => StageInductive
  BY TypeInit, StageInit DEF StageInductive
<1>2. StageInductive /\ [Next]_vars => StageInductive'
  BY TypeStep, ManagedStep, StageStep DEF StageInductive
<1> QED
  BY <1>1, <1>2, PTL DEF Spec

(* Logits come from one configuration, prefill or generation, whatever the *)
(* forwards before have raised.                                            *)
THEOREM OneConfiguration == Spec => []SameConfiguration
<1>1. StageInductive => SameConfiguration
  BY DEF StageInductive, StageInv, ReadyInv, SameConfiguration
<1> QED
  BY <1>1, StagesHold, PTL

(* A forward that returned has put every layer back, ready to run if its   *)
(* operators can be loaded again.                                          *)
THEOREM BackAsLoaded == Spec => []AsLoaded
<1>1. StageInductive => AsLoaded
  <2> SUFFICES ASSUME StageInductive, ready
               PROVE  /\ cuda = Layers
                      /\ \A m \in Modules : mod[m].mode = "GENERATE"
                      /\ Reloadable => \A m \in Modules : Runs(m)
    BY DEF AsLoaded
  <2>1. Whole
    BY DEF StageInductive, StageInv, ReadyInv
  <2>2. ASSUME Reloadable, NEW m \in Modules PROVE Runs(m)
    <3>1. m[1] \in cuda
      BY <2>1 DEF Whole, Modules
    <3>2. Tensors(m) # 0
      BY <2>1, <2>2 DEF Whole, WholeModule, Tensors, Role
    <3> QED
      BY <3>1, <3>2 DEF Runs
  <2> QED
    BY <2>1, <2>2 DEF Whole, WholeModule
<1> QED
  BY <1>1, StagesHold, PTL

-----------------------------------------------------------------------------
(* Which forward loaded the tensors that generate: the newest prefill by   *)
(* layers, or the loading of the model (0).                                *)

Newest(k) ==
  /\ k \in 0 .. Len(story) /\ (k = 0 \/ k \in Longs)
  /\ \A i \in Longs : i <= k

(* Kinds that load() leaves alone if they say they are loaded, or refuses *)
GivenUp == {"KLinearQ8", "KLinearTorch", "KLinearMarlin", "KExpertsMarlin"}

Gen(m) == mod[m].ops["generate"]
Emptied(m) == Kind(m, "generate") \in GivenUp => Gen(m).tensors = 0
Fresh(m) == Gen(m).tensors # 0 => Newest(Gen(m).tensors - 1)

AtRest == pc \in {"idle", "exited"} \/ (pc = "compute" /\ ~long)
Away == pc \in {"load", "clear"} \/ (pc = "compute" /\ long)

FreshInv ==
  /\ long => Len(story) \in Longs
  /\ \A m \in Modules : ~Managed(m) => Gen(m).tensors = 1
  /\ AtRest /\ cuda = Layers => \A m \in Modules : Managed(m) => Fresh(m)
  /\ pc = "unload" => \A m \in Modules : Managed(m) /\ Passed(m) => Emptied(m)
  /\ Away => \A m \in Modules : Managed(m) => Emptied(m)
  /\ pc = "restore" =>
       \A m \in Modules : Managed(m) => /\ Passed(m) => Fresh(m)
                                        /\ ~Passed(m) => Emptied(m)

LEMMA UnloadedEmpties ==
  ASSUME NEW kind, NEW o \in Operator
  PROVE  kind \in GivenUp => Unloaded(kind, o).tensors = 0
BY DEF GivenUp, Unloaded, KLinearQ8Unloaded, KLinearTorchUnloaded,
       KLinearMarlinUnloaded, KLinearFP8Unloaded, KExpertsMarlinUnloaded,
       NoTensors, Operator

LEMMA LoadedFills ==
  ASSUME NEW kind, NEW o \in Operator, kind \in GivenUp => o.tensors = 0,
         kind \in GivenUp \cup {"KLinearFP8", "KLinearCPUInfer", "KExpertsCPU"}
  PROVE  Loaded(kind, o).tensors \in {0, Number}
<1>1. CASE kind \in GivenUp
  BY <1>1 DEF GivenUp, Loaded, KLinearTorchLoaded, KLinearQ8Loaded,
                KLinearMarlinLoaded, KExpertsMarlinLoaded
<1>2. CASE kind \in {"KLinearFP8", "KLinearCPUInfer", "KExpertsCPU"}
  BY <1>2 DEF Loaded, KLinearFP8Loaded, KLinearCPUInferLoaded,
                KExpertsCPULoaded, Operator
<1> QED
  BY <1>1, <1>2

LEMMA GenerateKinds ==
  ASSUME TypeOK, NEW m \in Modules
  PROVE  Kind(m, "generate") \in
           GivenUp \cup {"KLinearFP8", "KLinearCPUInfer", "KExpertsCPU"}
BY DEF TypeOK, Configurations, LinearOps, ExpertsOps, Kind, GivenUp

LEMMA GenType ==
  ASSUME TypeOK, NEW m \in Modules
  PROVE  Gen(m) \in Operator /\ mod[m] \in ModuleType
BY DEF TypeOK, ModuleType, Gen

(* What the ways to switch a module do to its operator that generates *)
LEMMA UnloadedGen ==
  ASSUME TypeOK, NEW m \in Modules
  PROVE  Kind(m, "generate") \in GivenUp =>
           UnloadedModule(m).ops["generate"].tensors = 0
<1>1. UnloadedModule(m).ops["generate"] = Unloaded(Kind(m, "generate"), Gen(m))
  BY GenType DEF UnloadedModule, Gen, ModuleType, Roles
<1> QED
  BY <1>1, UnloadedEmpties, GenType

LEMMA PrefillGen ==
  ASSUME TypeOK, NEW m \in Modules
  PROVE  Kind(m, "generate") \in GivenUp =>
           LoadedModule(m, "PREFILL").ops["generate"].tensors = 0
<1>1. LoadedModule(m, "PREFILL").ops["generate"] =
        Unloaded(Kind(m, "generate"), Gen(m))
  BY GenType DEF LoadedModule, HalfLoaded, Role, Other, Gen, ModuleType
<1> QED
  BY <1>1, UnloadedEmpties, GenType

LEMMA RestoredGen ==
  ASSUME TypeOK, NEW m \in Modules, Emptied(m)
  PROVE  LoadedModule(m, "GENERATE").ops["generate"].tensors \in {0, Number}
<1>1. LoadedModule(m, "GENERATE").ops["generate"] =
        Loaded(Kind(m, "generate"), Gen(m))
  BY GenType DEF LoadedModule, HalfLoaded, Role, Other, Gen, ModuleType
<1> QED
  BY <1>1, LoadedFills, GenType, GenerateKinds DEF Emptied

(* The kinds of the forwards so far *)
LEMMA LongsOf ==
  ASSUME TypeOK
  PROVE  /\ Len(story) \in Nat /\ Longs \subseteq 1 .. Len(story)
         /\ \A k, j : Newest(k) /\ Newest(j) => k = j
<1>1. Len(story) \in Nat /\ Longs \subseteq 1 .. Len(story)
  BY DEF TypeOK, Longs
<1> QED
  BY <1>1 DEF Newest

LEMMA NewForward ==
  ASSUME TypeOK, NEW kind, Forward(kind)
  PROVE  /\ Len(story') = Len(story) + 1
         /\ Longs' = Longs \cup (IF kind = "long" THEN {Len(story) + 1} ELSE {})
<1>1. /\ story' = Append(story, kind)
      /\ Len(story) \in Nat /\ DOMAIN story = 1 .. Len(story)
  BY DEF Forward, TypeOK
<1>2. /\ Len(story') = Len(story) + 1 /\ DOMAIN story' = 1 .. Len(story) + 1
      /\ story'[Len(story) + 1] = kind
      /\ \A i \in 1 .. Len(story) : story'[i] = story[i]
  BY <1>1 DEF TypeOK
<1> QED
  BY <1>1, <1>2 DEF Longs

-----------------------------------------------------------------------------
(* The steps *)

(* load_layer_to deals with one module after the other. *)
LEMMA PassedOn ==
  ASSUME TypeOK, Advance, pc \in {"unload", "load", "clear", "restore"},
         NEW m \in Modules
  PROVE  /\ slot < 3 => pc' = pc /\ (Passed(m)' <=> Passed(m) \/ m = Here)
         /\ ~(slot < 3) /\ ~Last /\ pc \in {"unload", "restore"} =>
              pc' = pc /\ (Passed(m)' <=> Passed(m) \/ m = Here)
         /\ ~(slot < 3) /\ Last /\ pc \in {"unload", "restore"} =>
              Passed(m) \/ m = Here
<1>1. /\ layer \in Int /\ 0 <= layer /\ layer <= NLayers - 1
      /\ slot \in 1 .. 3 /\ NLayers \in Int
  BY LayerwisePrefillAssumption DEF TypeOK, Layers, Slots, LayerwisePrefillAssumption
<1>2. m = Here => m[1] = layer /\ m[2] = slot
  BY DEF Here
<1>3. CASE slot < 3
  <2>1. slot' = slot + 1 /\ pc' = pc /\ layer' = layer
    BY <1>3, Stays
  <2> QED
    BY <1>1, <1>2, <1>3, <2>1, ModuleParts DEF Passed
<1>4. CASE ~(slot < 3) /\ ~Last
  <2>1. pc \in {"unload", "restore"} => pc' = pc /\ layer' = layer + 1 /\ slot' = 1
    BY <1>4, Leaves DEF Following
  <2> QED
    BY <1>1, <1>2, <1>4, <2>1, ModuleParts DEF Passed
<1>5. CASE ~(slot < 3) /\ Last
  BY <1>1, <1>2, <1>5, ModuleParts DEF Passed, Last
<1> QED
  BY <1>3, <1>4, <1>5

(* Where such a step leads *)
LEMMA SwitchLeads ==
  ASSUME TypeOK, Advance, pc \in {"unload", "load", "clear", "restore"}
  PROVE  /\ long' = long
         /\ pc = "unload" => pc' = "unload" \/ (~(slot < 3) /\ Last /\ pc' = "load")
         /\ pc = "load" => pc' = "load" \/ pc' = "compute"
         /\ pc = "clear" => pc' \in {"clear", "load"}
                            \/ (pc' = "restore" /\ layer' = 0 /\ slot' = 1)
         /\ pc = "restore" =>
              pc' = "restore" \/ (~(slot < 3) /\ Last /\ pc' = "idle")
<1>1. CASE slot < 3
  BY <1>1, Stays
<1>2. CASE ~(slot < 3)
  BY <1>2, Leaves DEF Following
<1> QED
  BY <1>1, <1>2

LEMMA NonePassed ==
  ASSUME TypeOK, layer' = 0, slot' = 1, NEW m \in Modules
  PROVE  ~Passed(m)'
BY ModuleParts DEF Passed

(* What each module is like after a step of load_layer_to *)
LEMMA SwitchGen ==
  ASSUME TypeOK, StageInv, FreshInv, pc # "compute", Skip \/ Unload \/ Load
  PROVE  /\ conf' = conf /\ story' = story
         /\ \A m \in Modules : m # Here \/ ~Managed(m) => mod'[m] = mod[m]
         /\ \A m \in Modules : m = Here /\ Managed(m) =>
              /\ pc \in {"unload", "clear", "load"} => Emptied(m)'
              /\ pc = "restore" => Fresh(m)'
<1>1. conf' = conf /\ story' = story
  BY DEF Skip, Unload, Load
<1>2. mod' = mod \/ (Managed(Here) /\ \E v : mod' = [mod EXCEPT ![Here] = v])
  BY DEF Skip, Unload, Load, model
<1>3. ASSUME NEW m \in Modules, m # Here \/ ~Managed(m) PROVE mod'[m] = mod[m]
  BY <1>2, <1>3 DEF TypeOK
<1>4. ASSUME NEW h \in Modules, h = Here, Managed(h),
             pc \in {"unload", "clear", "load"}
      PROVE  Emptied(h)'
  <2>1. mod'[h] = UnloadedModule(h) \/ mod'[h] = LoadedModule(h, "PREFILL")
    BY <1>4 DEF Skip, Unload, Load, Target, TypeOK
  <2>2. Kind(h, "generate") \in GivenUp => mod'[h].ops["generate"].tensors = 0
    BY <2>1, UnloadedGen, PrefillGen
  <2> QED
    BY <1>1, <2>2 DEF Emptied, Gen, Kind
<1>5. ASSUME NEW h \in Modules, h = Here, Managed(h), pc = "restore"
      PROVE  Fresh(h)'
  <2>1. mod'[h] = LoadedModule(h, "GENERATE")
    BY <1>5 DEF Skip, Unload, Load, Target, TypeOK
  <2>2. Emptied(h)
    <3>1. ~Passed(h)
      BY <1>5, ModuleParts DEF Passed, Here
    <3> QED
      BY <1>5, <3>1 DEF FreshInv
  <2>3. mod'[h].ops["generate"].tensors \in {0, Len(story) + 1}
    BY <2>1, <2>2, RestoredGen DEF Number
  <2>4. Newest(Len(story))
    <3>1. Len(story) \in Longs
      BY <1>5 DEF FreshInv, StageInv, RestoreInv
    <3> QED
      BY <3>1, LongsOf DEF Newest
  <2>5. Newest(Len(story))'
    BY <1>1, <2>4 DEF Newest, Longs
  <2>6. PICK t : t = mod'[h].ops["generate"].tensors
    OBVIOUS
  <2>7. t = 0 \/ t - 1 = Len(story)
    BY <2>3, <2>6, LongsOf
  <2> QED
    BY <1>1, <2>5, <2>6, <2>7 DEF Fresh, Gen
<1> QED
  BY <1>1, <1>3, <1>4, <1>5

(* What is said of a module does not change with the others. *)
LEMMA SameGen ==
  ASSUME UNCHANGED <<conf, story>>
  PROVE  /\ Longs' = Longs /\ \A m : Managed(m)' <=> Managed(m)
         /\ \A k : Newest(k)' <=> Newest(k)
         /\ \A m : mod'[m] = mod[m] => /\ Gen(m)' = Gen(m)
                                       /\ Emptied(m)' <=> Emptied(m)
                                       /\ Fresh(m)' <=> Fresh(m)
<1>1. Longs' = Longs
  BY DEF Longs
<1>2. \A k : Newest(k)' <=> Newest(k)
  BY <1>1 DEF Newest
<1>3. \A m : Managed(m)' <=> Managed(m)
  BY DEF Managed
<1>4. ASSUME NEW m, mod'[m] = mod[m]
      PROVE  Gen(m)' = Gen(m) /\ (Emptied(m)' <=> Emptied(m))
  BY <1>4 DEF Gen, Emptied, Kind
<1>5. ASSUME NEW m, mod'[m] = mod[m] PROVE Fresh(m)' <=> Fresh(m)
  <2>1. Gen(m)' = Gen(m)
    BY <1>4, <1>5
  <2> QED
    BY <1>2, <2>1 DEF Fresh
<1> QED
  BY <1>1, <1>2, <1>3, <1>4, <1>5

LEMMA FreshForward ==
  ASSUME TypeOK, StageInv, FreshInv, NEW kind \in {"long", "short"},
         Forward(kind)
  PROVE  FreshInv'
<1>1. /\ UNCHANGED <<conf, mod, cuda, layer, slot>> /\ long' = (kind = "long")
      /\ pc = "idle" /\ pc' = IF kind = "long" THEN "unload" ELSE "compute"
  BY DEF Forward, model
<1>2. layer' = 0 /\ slot' = 1
  BY <1>1 DEF StageInv, RestInv
<1>3. \A m \in Modules : ~Passed(m)'
  BY <1>2, NonePassed
<1>4. \A m \in Modules : ~Managed(m)' => Gen(m)'.tensors = 1
  BY <1>1 DEF FreshInv, Managed, Gen
<1>5. CASE kind = "long"
  <2>1. Len(story') \in Longs'
    BY <1>5, NewForward
  <2> QED
    BY <1>1, <1>3, <1>4, <1>5, <2>1 DEF FreshInv, AtRest, Away
<1>6. CASE kind = "short"
  <2>1. Longs' = Longs /\ Len(story') = Len(story) + 1 /\ Len(story) \in Nat
    BY <1>6, NewForward, LongsOf
  <2>2. \A k : Newest(k) => Newest(k)'
    BY <2>1 DEF Newest
  <2>3. \A m \in Modules : Fresh(m) => Fresh(m)'
    BY <1>1, <2>2 DEF Fresh, Gen
  <2>4. \A m \in Modules : Managed(m)' <=> Managed(m)
    BY <1>1 DEF Managed
  <2>5. AtRest
    BY <1>1 DEF AtRest
  <2>6. cuda' = Layers => \A m \in Modules : Managed(m)' => Fresh(m)'
    BY <1>1, <2>3, <2>4, <2>5 DEF FreshInv
  <2> QED
    BY <1>1, <1>4, <1>6, <2>6 DEF FreshInv, AtRest, Away
<1> QED
  BY <1>5, <1>6

LEMMA FreshSwitch ==
  ASSUME TypeOK, StageInv, FreshInv,
         pc \in {"unload", "load", "clear", "restore"},
         Skip \/ Unload \/ Load
  PROVE  FreshInv'
<1>1. Advance /\ UNCHANGED <<conf, story>>
  BY DEF Skip, Unload, Load
<1>2. /\ \A m \in Modules : m # Here \/ ~Managed(m) => mod'[m] = mod[m]
      /\ \A m \in Modules : m = Here /\ Managed(m) =>
              /\ pc \in {"unload", "clear", "load"} => Emptied(m)'
              /\ pc = "restore" => Fresh(m)'
  BY SwitchGen
<1>3. /\ Longs' = Longs /\ \A m : Managed(m)' <=> Managed(m)
      /\ \A m : mod'[m] = mod[m] => /\ Gen(m)' = Gen(m)
                                    /\ Emptied(m)' <=> Emptied(m)
                                    /\ Fresh(m)' <=> Fresh(m)
  BY <1>1, SameGen
<1>4. long' = long /\ (long' => Len(story') \in Longs')
  BY <1>1, <1>3, SwitchLeads DEF FreshInv
<1>5. \A m \in Modules : ~Managed(m)' => Gen(m)'.tensors = 1
  BY <1>2, <1>3 DEF FreshInv
<1>6. long
  BY DEF StageInv, UnloadInv, LoadInv, ClearInv, RestoreInv
<1>7. CASE pc = "unload"
  <2>1. ASSUME NEW m \in Modules, Managed(m), Passed(m) \/ m = Here
        PROVE  Emptied(m)'
    BY <1>2, <1>3, <1>7, <2>1 DEF FreshInv
  <2>2. CASE pc' = "unload"
    <3>1. \A m \in Modules : Passed(m)' => Passed(m) \/ m = Here
      BY <1>1, <1>7, <2>2, PassedOn, SwitchLeads, Leaves DEF Following
    <3>2. \A m \in Modules : Managed(m)' /\ Passed(m)' => Emptied(m)'
      BY <1>3, <2>1, <3>1
    <3> QED
      BY <1>4, <1>5, <2>2, <3>2 DEF FreshInv, AtRest, Away
  <2>3. CASE ~(slot < 3) /\ Last /\ pc' = "load"
    <3>1. \A m \in Modules : Managed(m)' => Emptied(m)'
      BY <1>1, <1>3, <1>7, <2>1, <2>3, PassedOn
    <3> QED
      BY <1>4, <1>5, <2>3, <3>1 DEF FreshInv, AtRest, Away
  <2> QED
    BY <1>1, <1>7, <2>2, <2>3, SwitchLeads
<1>8. CASE pc \in {"load", "clear"}
  <2>1. Away
    BY <1>8 DEF Away
  <2>2. \A m \in Modules : Managed(m)' => Emptied(m)'
    BY <1>2, <1>3, <1>8, <2>1 DEF FreshInv
  <2>3. /\ pc' \in {"load", "compute", "clear", "restore"}
        /\ pc' = "restore" => layer' = 0 /\ slot' = 1
    BY <1>1, <1>8, SwitchLeads
  <2>4. pc' = "restore" => \A m \in Modules : ~Passed(m)'
    BY <2>3, NonePassed
  <2> QED
    BY <1>4, <1>5, <1>6, <2>2, <2>3, <2>4 DEF FreshInv, AtRest, Away
<1>9. CASE pc = "restore"
  <2>1. ASSUME NEW m \in Modules, Managed(m)
        PROVE  /\ Passed(m) \/ m = Here => Fresh(m)'
               /\ ~Passed(m) /\ m # Here => Emptied(m)'
    BY <1>2, <1>3, <1>9, <2>1 DEF FreshInv
  <2>2. CASE pc' = "restore"
    <3>1. \A m \in Modules : Passed(m)' <=> Passed(m) \/ m = Here
      BY <1>1, <1>9, <2>2, PassedOn, SwitchLeads, Leaves DEF Following
    <3>2. \A m \in Modules : Managed(m)' =>
             (Passed(m)' => Fresh(m)') /\ (~Passed(m)' => Emptied(m)')
      BY <1>3, <2>1, <3>1
    <3> QED
      BY <1>4, <1>5, <2>2, <3>2 DEF FreshInv, AtRest, Away
  <2>3. CASE ~(slot < 3) /\ Last /\ pc' = "idle"
    <3>1. \A m \in Modules : Managed(m)' => Fresh(m)'
      BY <1>1, <1>3, <1>9, <2>1, <2>3, PassedOn
    <3> QED
      BY <1>4, <1>5, <2>3, <3>1 DEF FreshInv, AtRest, Away
  <2> QED
    BY <1>1, <1>9, <2>2, <2>3, SwitchLeads
<1> QED
  BY <1>7, <1>8, <1>9

LEMMA FreshCompute ==
  ASSUME TypeOK, StageInv, FreshInv, pc = "compute", Skip \/ Compute
  PROVE  FreshInv'
<1>1. Advance /\ UNCHANGED <<conf, story, mod, cuda>>
  BY DEF Skip, Compute, model
<1>2. /\ Longs' = Longs /\ \A m : Managed(m)' <=> Managed(m)
      /\ \A m : /\ Gen(m)' = Gen(m)
                /\ Emptied(m)' <=> Emptied(m)
                /\ Fresh(m)' <=> Fresh(m)
  BY <1>1, SameGen
<1>3. /\ long' = long /\ (long' => Len(story') \in Longs')
      /\ pc' = "compute" \/ pc' = (IF long THEN "clear" ELSE "idle")
  BY <1>1, <1>2, Stays, Leaves DEF FreshInv, Following
<1>4. \A m \in Modules : ~Managed(m)' => Gen(m)'.tensors = 1
  BY <1>2 DEF FreshInv
<1>5. CASE long
  <2>1. Away
    BY <1>5 DEF Away
  <2>2. \A m \in Modules : Managed(m)' => Emptied(m)'
    BY <1>2, <2>1 DEF FreshInv
  <2> QED
    BY <1>3, <1>4, <1>5, <2>2 DEF FreshInv, AtRest, Away
<1>6. CASE ~long
  <2>1. AtRest
    BY <1>6 DEF AtRest
  <2>2. cuda' = Layers => \A m \in Modules : Managed(m)' => Fresh(m)'
    BY <1>1, <1>2, <2>1 DEF FreshInv
  <2> QED
    BY <1>3, <1>4, <1>6, <2>2 DEF FreshInv, AtRest, Away
<1> QED
  BY <1>5, <1>6

(* What raises leaves the modules alone or a layer off the GPU. *)
LEMMA FreshRaise ==
  ASSUME TypeOK, FreshInv, Raise, UNCHANGED <<conf, story, cuda>>,
         \/ mod' = mod /\ AtRest
         \/ /\ cuda # Layers
            /\ \/ mod' = mod
               \/ Managed(Here) /\ \E v : mod' = [mod EXCEPT ![Here] = v]
  PROVE  FreshInv'
<1>1. pc' \in {"idle", "exited"} /\ long' = long
  BY RaiseTypes
<1>2. /\ Longs' = Longs /\ \A m : Managed(m)' <=> Managed(m)
      /\ \A m : mod'[m] = mod[m] => Gen(m)' = Gen(m) /\ (Fresh(m)' <=> Fresh(m))
  BY SameGen
<1>3. \A m \in Modules : ~Managed(m) => mod'[m] = mod[m]
  BY DEF TypeOK
<1>4. \A m \in Modules : ~Managed(m)' => Gen(m)'.tensors = 1
  BY <1>2, <1>3 DEF FreshInv
<1>5. cuda' = Layers => \A m \in Modules : Managed(m)' => Fresh(m)'
  BY <1>2 DEF FreshInv
<1> QED
  BY <1>1, <1>2, <1>4, <1>5 DEF FreshInv, Away

LEMMA LongLost ==
  ASSUME TypeOK, StageInv, long, pc \in {"load", "compute", "restore"}
  PROVE  cuda # Layers
<1> USE LayerwisePrefillAssumption DEF LayerwisePrefillAssumption
<1>1. layer \in Layers /\ 0 \in Layers /\ 1 \in Layers
  BY DEF TypeOK, Layers
<1>2. cuda \subseteq {layer} \/ layer \notin cuda
  BY <1>1 DEF StageInv, LoadInv, LongInv, RestoreInv, Layers
<1> QED
  BY <1>1, <1>2

LEMMA FreshStep ==
  ASSUME TypeOK, StageInv, FreshInv, [Next]_vars
  PROVE  FreshInv'
<1>1. ASSUME NEW kind \in {"long", "short"}, Forward(kind) PROVE FreshInv'
  BY <1>1, FreshForward
<1>2. CASE Skip \/ Compute
  <2>1. CASE pc = "compute"
    BY <1>2, <2>1, FreshCompute
  <2>2. CASE pc # "compute"
    BY <1>2, <2>2, FreshSwitch DEF Skip, Compute, Places
  <2> QED
    BY <2>1, <2>2
<1>3. CASE Unload \/ Load
  <2>1. pc \in {"unload", "load", "clear", "restore"}
    BY <1>3 DEF Unload, Load
  <2> QED
    BY <1>3, <2>1, FreshSwitch
<1>4. CASE LoadFails
  <2>1. long
    BY <1>4 DEF LoadFails, StageInv, LoadInv, RestoreInv
  <2> QED
    BY <1>4, <2>1, LongLost, FreshRaise DEF LoadFails
<1>5. CASE ComputeFails
  BY <1>5, LongLost, FreshRaise DEF ComputeFails, model, AtRest
<1>6. CASE OutOfMemory
  <2>1. mod' = mod \/ (Managed(Here) /\ \E v : mod' = [mod EXCEPT ![Here] = v])
    BY <1>6 DEF OutOfMemory
  <2> QED
    BY <1>6, <2>1, LongLost, FreshRaise DEF OutOfMemory
<1>7. CASE CaptureFails \/ ReplayFails
  BY <1>7, FreshRaise DEF CaptureFails, ReplayFails, Captures, model, AtRest
<1>8. CASE Capture \/ UNCHANGED vars
  <2>1. UNCHANGED <<conf, mod, cuda, pc, layer, slot, long, story>>
    BY <1>8 DEF Capture, vars, model, host
  <2>2. /\ Longs' = Longs /\ \A m : Managed(m)' <=> Managed(m)
        /\ \A m : /\ Gen(m)' = Gen(m)
                  /\ Emptied(m)' <=> Emptied(m)
                  /\ Fresh(m)' <=> Fresh(m)
    BY <2>1, SameGen
  <2>3. \A m : Passed(m)' <=> Passed(m)
    BY <2>1 DEF Passed
  <2>4. (AtRest' <=> AtRest) /\ (Away' <=> Away)
    BY <2>1 DEF AtRest, Away
  <2> QED
    BY <2>1, <2>2, <2>3, <2>4 DEF FreshInv
<1> QED
  BY <1>1, <1>2, <1>3, <1>4, <1>5, <1>6, <1>7, <1>8 DEF Next

-----------------------------------------------------------------------------
(* The graph: which prefill by layers its tensors are from (0: none), and  *)
(* that they are its operators' own until the next one begins.             *)

NoneAfter(j) == \A i \in Longs : i <= j

Captured(j) ==
  /\ j \in Nat /\ (j = 0 \/ j \in Longs)
  /\ \A m \in Modules : graph[m] = IF Managed(m) THEN j + 1 ELSE 1
  /\ conf.server \/ NoneAfter(j)
  /\ NoneAfter(j) => /\ \A m \in Modules : graph[m] = Gen(m).tensors
                     /\ ~(long /\ pc \in Places)

GraphInv == graph \notin {<<>>, Broken} => \E j : Captured(j)

LEMMA FirstManaged == <<0, 3>> \in Modules /\ Managed(<<0, 3>>)
BY LayerwisePrefillAssumption
   DEF LayerwisePrefillAssumption, Modules, Managed, Layers, Slots, Experts

(* Once a forward has returned, the operators that generate are called.    *)
LEMMA ReadyTensors ==
  ASSUME TypeOK, StageInv, FreshInv, ready
  PROVE  /\ \A m \in Modules : Tensors(m) = Gen(m).tensors
         /\ \A m \in Modules : Managed(m) => Fresh(m)
         /\ \A m \in Modules : ~Managed(m) => Gen(m).tensors = 1
         /\ pc = "idle"
<1>1. Whole /\ pc = "idle"
  BY DEF StageInv, ReadyInv, TypeOK
<1>2. \A m \in Modules : Tensors(m) = Gen(m).tensors
  BY <1>1 DEF Whole, WholeModule, Tensors, Role, Gen
<1>3. AtRest /\ cuda = Layers
  BY <1>1 DEF AtRest, Whole
<1> QED
  BY <1>1, <1>2, <1>3 DEF FreshInv

LEMMA GraphForward ==
  ASSUME TypeOK, GraphInv, NEW kind \in {"long", "short"}, Forward(kind)
  PROVE  GraphInv'
<1> SUFFICES ASSUME graph' \notin {<<>>, Broken} PROVE \E j : Captured(j)'
  BY DEF GraphInv, Broken
<1>1. graph' = graph /\ conf.server /\ UNCHANGED <<conf, mod>>
  BY DEF Forward, KeptGraph, model
<1>2. PICK j : Captured(j)
  BY <1>1 DEF GraphInv
<1>3. /\ j \in Nat /\ (j = 0 \/ j \in Longs)
      /\ \A m \in Modules : graph[m] = IF Managed(m) THEN j + 1 ELSE 1
  BY <1>2 DEF Captured
<1>4. /\ Longs \subseteq 1 .. Len(story) /\ Len(story) \in Nat
      /\ Longs' = Longs \cup (IF kind = "long" THEN {Len(story) + 1} ELSE {})
      /\ long' = (kind = "long")
  BY LongsOf, NewForward DEF Forward
<1>5. CASE kind = "long"
  <2>1. Len(story) + 1 \in Longs' /\ ~(Len(story) + 1 <= j)
    BY <1>3, <1>4, <1>5
  <2>2. ~NoneAfter(j)'
    BY <2>1 DEF NoneAfter
  <2> QED
    BY <1>1, <1>3, <1>4, <2>2 DEF Captured, Managed
<1>6. CASE kind = "short"
  <2>1. NoneAfter(j)' => NoneAfter(j)
    BY <1>4, <1>6 DEF NoneAfter
  <2>2. NoneAfter(j) => \A m \in Modules : graph[m] = Gen(m).tensors
    BY <1>2 DEF Captured
  <2>3. \A m \in Modules : Gen(m)' = Gen(m)
    BY <1>1 DEF Gen
  <2> QED
    BY <1>1, <1>3, <1>4, <1>6, <2>1, <2>2, <2>3 DEF Captured, Managed
<1> QED
  BY <1>5, <1>6

LEMMA GraphCapture ==
  ASSUME TypeOK, StageInv, FreshInv, Capture
  PROVE  GraphInv'
<1>1. /\ ready /\ \A m \in Modules : Runs(m)
      /\ graph' = [m \in Modules |-> Tensors(m)]
      /\ UNCHANGED <<conf, mod, pc, long, story>>
  BY DEF Capture, Captures, model, host
<1>2. /\ \A m \in Modules : Tensors(m) = Gen(m).tensors
      /\ \A m \in Modules : Managed(m) => Fresh(m)
      /\ \A m \in Modules : ~Managed(m) => Gen(m).tensors = 1
      /\ pc = "idle"
  BY <1>1, ReadyTensors
<1>3. \A m \in Modules : Gen(m).tensors \in Nat /\ Gen(m).tensors # 0
  BY <1>1, <1>2, GenType, LayerwisePrefillAssumption
     DEF Runs, Operator, LayerwisePrefillAssumption
<1>4. \A m \in Modules : Managed(m) => Newest(Gen(m).tensors - 1)
  BY <1>2, <1>3 DEF Fresh
<1>5. PICK j \in Nat : Newest(j)
  <2>1. Gen(<<0, 3>>).tensors - 1 \in Nat
    BY <1>3, FirstManaged
  <2> QED
    BY <1>4, <2>1, FirstManaged
<1>6. ASSUME NEW m \in Modules, Managed(m) PROVE Gen(m).tensors = j + 1
  <2>1. Gen(m).tensors - 1 = j
    BY <1>4, <1>5, <1>6, LongsOf
  <2>2. PICK t \in Nat : t = Gen(m).tensors
    BY <1>3
  <2>3. t - 1 = j
    BY <2>1, <2>2
  <2> QED
    BY <1>5, <2>2, <2>3
<1>7. \A m \in Modules : graph'[m] = Gen(m).tensors
  BY <1>1, <1>2
<1>8. /\ \A m : Managed(m)' <=> Managed(m)
      /\ \A m \in Modules : Gen(m)' = Gen(m)
      /\ Longs' = Longs
  BY <1>1 DEF Managed, Gen, Longs
<1>9. \A m \in Modules : graph'[m] = IF Managed(m) THEN j + 1 ELSE 1
  BY <1>2, <1>6, <1>7
<1>10. (j = 0 \/ j \in Longs) /\ NoneAfter(j)
  BY <1>5 DEF Newest, NoneAfter
<1>11. NoneAfter(j)' /\ ~(long' /\ pc' \in Places)
  BY <1>1, <1>2, <1>8, <1>10 DEF NoneAfter, Places
<1>12. Captured(j)'
  BY <1>5, <1>7, <1>8, <1>9, <1>10, <1>11 DEF Captured
<1> QED
  BY <1>12 DEF GraphInv

(* Steps that leave the graph alone, and the modules too unless a prefill  *)
(* by layers is on its way                                                 *)
LEMMA GraphKept ==
  ASSUME GraphInv, UNCHANGED <<conf, graph, story, long>>,
         mod' = mod \/ (long /\ pc \in Places),
         long /\ pc' \in Places => pc \in Places
  PROVE  GraphInv'
<1> SUFFICES ASSUME graph' \notin {<<>>, Broken} PROVE \E j : Captured(j)'
  BY DEF GraphInv, Broken
<1>1. PICK j : Captured(j)
  BY DEF GraphInv
<1>2. Longs' = Longs /\ \A m : Managed(m)' <=> Managed(m)
  BY DEF Longs, Managed
<1>3. NoneAfter(j)' <=> NoneAfter(j)
  BY <1>2 DEF NoneAfter
<1>4. mod' = mod => \A m \in Modules : Gen(m)' = Gen(m)
  BY DEF Gen
<1>5. Captured(j)'
  BY <1>1, <1>2, <1>3, <1>4 DEF Captured
<1> QED
  BY <1>5

LEMMA GraphStep ==
  ASSUME TypeOK, StageInv, FreshInv, GraphInv, [Next]_vars
  PROVE  GraphInv'
<1>1. ASSUME NEW kind \in {"long", "short"}, Forward(kind) PROVE GraphInv'
  BY <1>1, GraphForward
<1>2. CASE Capture
  BY <1>2, GraphCapture
<1>3. CASE CaptureFails
  BY <1>3 DEF CaptureFails, GraphInv, Broken
<1>4. CASE Skip \/ Compute
  <2>1. UNCHANGED <<conf, graph, story, long, mod>> /\ pc \in Places
    BY <1>4 DEF Skip, Compute, Advance, model, Places
  <2> QED
    BY <2>1, GraphKept
<1>5. CASE Unload \/ Load \/ LoadFails
  <2>1. UNCHANGED <<conf, graph, story, long>> /\ pc \in Places /\ long
    BY <1>5 DEF Unload, Load, LoadFails, Advance, Raise, Places, StageInv,
                UnloadInv, LoadInv, ClearInv, RestoreInv
  <2> QED
    BY <2>1, GraphKept
<1>6. CASE ComputeFails \/ OutOfMemory
  <2>1. /\ UNCHANGED <<conf, graph, story, long>> /\ pc \in Places
        /\ mod' = mod \/ long
    BY <1>6 DEF ComputeFails, OutOfMemory, Raise, Places, model
  <2> QED
    BY <2>1, GraphKept
<1>7. CASE ReplayFails
  BY <1>7, GraphKept DEF ReplayFails, Raise, model, Places
<1>8. CASE UNCHANGED vars
  BY <1>8, GraphKept DEF vars, model, host
<1> QED
  BY <1>1, <1>2, <1>3, <1>4, <1>5, <1>6, <1>7, <1>8 DEF Next

LEMMA GraphInit == Init => FreshInv /\ GraphInv
<1> SUFFICES ASSUME Init PROVE FreshInv /\ GraphInv
  OBVIOUS
<1>1. GraphInv
  BY DEF Init, GraphInv
<1>2. TypeOK
  BY TypeInit
<1>3. Longs = {} /\ Len(story) = 0 /\ Number = 1
  BY DEF Init, Longs, Number
<1>4. ASSUME NEW m \in Modules PROVE Gen(m).tensors = 1
  <2>1. Gen(m) = Loaded(Kind(m, "generate"), NoTensors)
    BY DEF Init, Gen
  <2>2. Kind(m, "generate") \in
          GivenUp \cup {"KLinearFP8", "KLinearCPUInfer", "KExpertsCPU"}
    BY <1>2, GenerateKinds
  <2>3. CASE Kind(m, "generate") \in GivenUp
    BY <1>3, <2>1, <2>3
       DEF GivenUp, Loaded, NoTensors, KLinearTorchLoaded, KLinearQ8Loaded,
           KLinearMarlinLoaded, KExpertsMarlinLoaded
  <2>4. CASE Kind(m, "generate") \in {"KLinearFP8", "KLinearCPUInfer", "KExpertsCPU"}
    BY <1>3, <2>1, <2>4
       DEF Loaded, NoTensors, KLinearFP8Loaded, KLinearCPUInferLoaded,
           KExpertsCPULoaded
  <2> QED
    BY <2>2, <2>3, <2>4
<1>5. Newest(0)
  BY <1>3 DEF Newest
<1>6. \A m \in Modules : Fresh(m)
  BY <1>4, <1>5 DEF Fresh
<1>7. pc = "idle" /\ ~long
  BY DEF Init
<1> QED
  BY <1>1, <1>4, <1>6, <1>7 DEF FreshInv, Away

GraphInductive == StageInductive /\ FreshInv /\ GraphInv

LEMMA GraphsHold == Spec => []GraphInductive
<1>1. Init => GraphInductive
  BY TypeInit, StageInit, GraphInit DEF GraphInductive, StageInductive
<1>2. GraphInductive /\ [Next]_vars => GraphInductive'
  BY TypeStep, ManagedStep, StageStep, FreshStep, GraphStep
     DEF GraphInductive, StageInductive
<1> QED
  BY <1>1, <1>2, PTL DEF Spec

(* A graph that may be replayed reads the tensors of its operators exactly *)
(* until a prefill by layers has replaced them, which leaves a graph       *)
(* behind only in the server.                                              *)
THEOREM GraphReadsCurrent == Spec => []GraphCurrent
<1>1. GraphInductive => GraphCurrent
  <2> SUFFICES ASSUME GraphInductive, ready, graph \notin {<<>>, Broken}
               PROVE  /\ (\A m \in Modules : graph[m] = Tensors(m)) <=> ~Outdated
                      /\ Outdated => conf.server
    BY DEF GraphCurrent
  <2>1. PICK j : Captured(j)
    BY DEF GraphInductive, GraphInv
  <2>2. /\ j \in Nat /\ Longs \subseteq 1 .. Len(story) /\ Len(story) \in Nat
        /\ \A m \in Modules : graph[m] = IF Managed(m) THEN j + 1 ELSE 1
    BY <2>1, LongsOf DEF Captured, GraphInductive, StageInductive
  <2>3. /\ \A m \in Modules : Tensors(m) = Gen(m).tensors
        /\ \A m \in Modules : Managed(m) => Fresh(m)
    BY ReadyTensors DEF GraphInductive, StageInductive
  <2>4. graph[<<0, 3>>] = j + 1
    BY <2>2, FirstManaged
  <2>5. CASE NoneAfter(j)
    <3>1. ~Outdated
      BY <2>2, <2>4, <2>5, FirstManaged DEF NoneAfter, Outdated
    <3>2. \A m \in Modules : graph[m] = Tensors(m)
      BY <2>1, <2>3, <2>5 DEF Captured
    <3> QED
      BY <3>1, <3>2
  <2>6. CASE ~NoneAfter(j)
    <3>1. PICK i \in Longs : ~(i <= j)
      BY <2>6 DEF NoneAfter
    <3>2. i \in Nat /\ 1 <= i /\ j + 1 <= i
      BY <2>2, <3>1
    <3>3. Outdated
      BY <2>2, <3>1, <3>2 DEF Outdated
    <3>4. conf.server
      BY <2>1, <2>6 DEF Captured
    <3>5. Gen(<<0, 3>>).tensors # j + 1
      <4> SUFFICES ASSUME Gen(<<0, 3>>).tensors = j + 1 PROVE FALSE
        OBVIOUS
      <4>1. Newest((j + 1) - 1)
        BY <2>2, <2>3, FirstManaged DEF Fresh
      <4>2. (j + 1) - 1 = j
        BY <2>2
      <4> QED
        BY <3>1, <4>1, <4>2 DEF Newest
    <3> QED
      BY <2>3, <2>4, <3>3, <3>4, <3>5, FirstManaged
  <2> QED
    BY <2>5, <2>6
<1> QED
  BY <1>1, GraphsHold, PTL

-----------------------------------------------------------------------------
(* Whether a forward has raised.  As long as none has, everything can be   *)
(* told: what each operator holds and says of itself, and that no forward  *)
(* so far, nor the part of this one that is over, was doomed.              *)

Lasting == KeepsFlag \cup {"KExpertsMarlin"}
Pre(m) == mod[m].ops["prefill"]
PKind(m) == Kind(m, "prefill")
GKind(m) == Kind(m, "generate")

(* Doomed, of the first n forwards *)
DoomedBy(n) ==
  \/ HasExperts /\ conf.family = "Qwen2Moe" /\ n > 0
  \/ /\ HasExperts /\ \E i \in Longs : i <= n
     /\ \/ conf.experts.prefill = "KExpertsTorch"
        \/ conf.experts.generate = "KExpertsMarlin"
  \/ /\ \E i, j \in Longs : i < j /\ j <= n
     /\ \/ conf.linear.prefill \in KeepsFlag
        \/ HasExperts /\ conf.experts.prefill = "KExpertsMarlin"
  \/ /\ conf.linear.generate \in KeepsFlag
     /\ \E i \in Longs, j \in DOMAIN story \ Longs : i < j /\ j <= n
Over == IF pc \in Places THEN Len(story) - 1 ELSE Len(story)

(* Not the first prefill by layers *)
Second == \E i \in Longs : i < Len(story)

(* The operators that generate, once one has unloaded them *)
GBack(m) == Gen(m).tensors = 0 <=> GKind(m) \in Lasting
GenInv ==
  \A m \in Modules : Managed(m) =>
    /\ GKind(m) \in Lasting => Gen(m).loaded
    /\ AtRest /\ Longs = {} => Gen(m).tensors # 0
    /\ AtRest /\ Longs # {} => GBack(m)
    /\ pc = "restore" /\ Passed(m) => GBack(m) /\ GKind(m) # "KExpertsMarlin"

(* The prefill operators, before, while and after their layer is loaded    *)
PSpent(m) == PKind(m) \in Lasting => Pre(m).loaded /\ Pre(m).tensors = 0
PIn(m) ==
  /\ PKind(m) # "KExpertsTorch" /\ (Second => PKind(m) # "KExpertsMarlin")
  /\ PKind(m) \in Lasting => Pre(m).loaded
  /\ Pre(m).tensors = 0 <=> Second /\ PKind(m) \in Lasting
POld(m) == IF Second /\ ~AtRest THEN PSpent(m) ELSE ~Pre(m).loaded

Old(m) ==
  \/ AtRest /\ Longs = {}
  \/ pc = "unload"
  \/ pc = "load" /\ ~Passed(m)
  \/ (pc = "clear" \/ (pc = "compute" /\ long)) /\ m[1] > layer
In(m) ==
  /\ m[1] = layer
  /\ \/ pc = "load" /\ m[2] < slot
     \/ pc = "compute" /\ long
     \/ pc = "clear" /\ ~(m[2] < slot)
Spent(m) ==
  \/ AtRest /\ Longs # {}
  \/ (pc = "load" \/ (pc = "compute" /\ long)) /\ m[1] < layer
  \/ pc = "clear" /\ Passed(m)
  \/ pc = "restore"
PreInv ==
  \A m \in Modules : Managed(m) => /\ Old(m) => POld(m)
                                   /\ In(m) => PIn(m)
                                   /\ Spent(m) => PSpent(m)

(* The modules this forward has called *)
Ran(m) ==
  \/ pc = "compute" /\ Passed(m)
  \/ pc = "load" /\ m[1] < layer
  \/ pc = "clear" /\ m[1] <= layer
  \/ pc = "restore"
Fine(m) ==
  /\ ~Rejects(m)
  /\ Managed(m) =>
       IF long THEN /\ PKind(m) # "KExpertsTorch"
                    /\ Second => PKind(m) \notin Lasting
               ELSE Longs # {} => GKind(m) \notin Lasting
RanInv == \A m \in Modules : Ran(m) => Fine(m)

PlaceInv ==
  /\ AtRest => cuda = Layers
  /\ pc = "compute" /\ long => layer \in cuda
StoryInv == pc \in Places => Len(story) > 0 /\ (long <=> Len(story) \in Longs)

CleanInv ==
  /\ pc # "exited" /\ graph # Broken /\ ~DoomedBy(Over)
  /\ GenInv /\ PreInv /\ RanInv /\ PlaceInv

ForetoldInv ==
  /\ StoryInv
  /\ failed /\ ~oom => Doomed /\ (conf.server \/ pc = "exited")
  /\ ~failed /\ ~oom => CleanInv

-----------------------------------------------------------------------------
(* Operators *)

LEMMA UnloadedLasting ==
  ASSUME NEW kind, NEW o \in Operator
  PROVE  /\ kind \in Lasting => /\ Unloaded(kind, o).loaded = o.loaded
                                /\ Unloaded(kind, o).tensors = 0
         /\ ~o.loaded => ~Unloaded(kind, o).loaded
BY DEF Lasting, KeepsFlag, Unloaded, KLinearQ8Unloaded, KLinearTorchUnloaded,
       KLinearMarlinUnloaded, KLinearFP8Unloaded, KExpertsMarlinUnloaded,
       NoTensors, Operator

LEMMA LoadedLasting ==
  ASSUME TypeOK, NEW kind \in Lasting, NEW o \in Operator
  PROVE  /\ Loaded(kind, o).loaded
         /\ o.loaded => Loaded(kind, o) = o
         /\ ~o.loaded => Loaded(kind, o).tensors # 0
<1>1. Loaded(kind, o) =
        IF o.loaded THEN o ELSE [loaded |-> TRUE, tensors |-> Number]
  BY DEF Lasting, KeepsFlag, Loaded, KLinearTorchLoaded, KLinearMarlinLoaded,
         KExpertsMarlinLoaded
<1>2. Number # 0
  BY DEF Number, TypeOK
<1> QED
  BY <1>1, <1>2

LEMMA KindOf ==
  ASSUME TypeOK, NEW m \in Modules, NEW r \in Roles
  PROVE  /\ m[2] = Experts => Kind(m, r) = conf.experts[r] /\ HasExperts
         /\ m[2] # Experts => Kind(m, r) = conf.linear[r]
         /\ Kind(m, r) \in
              Lasting \cup ReloadableKinds \cup {"KExpertsTorch"}
         /\ Kind(m, r) = "KExpertsTorch" =>
              r = "prefill" /\ m[2] = Experts
         /\ Kind(m, r) = "KExpertsMarlin" => m[2] = Experts
         /\ Kind(m, r) \in KeepsFlag => m[2] # Experts
<1>1. m[2] = Experts => FirstSparse < NLayers
  <2>1. m[1] \in Int /\ m[1] <= NLayers - 1
    BY ModuleParts
  <2>2. m[2] = Experts => m[1] >= FirstSparse
    BY DEF Modules
  <2> QED
    BY <2>1, <2>2, LayerwisePrefillAssumption DEF LayerwisePrefillAssumption
<1>2. /\ conf.linear \in LinearOps /\ conf.experts \in ExpertsOps
  BY DEF TypeOK, Configurations
<1>3. CASE m[2] = Experts
  BY <1>1, <1>2, <1>3 DEF Kind, HasExperts, ExpertsOps, Lasting, KeepsFlag,
     ReloadableKinds, Roles
<1>4. CASE m[2] # Experts
  BY <1>2, <1>4 DEF Kind, LinearOps, Lasting, KeepsFlag,
     ReloadableKinds, Roles
<1> QED
  BY <1>3, <1>4

LEMMA PreType ==
  ASSUME TypeOK, NEW m \in Modules PROVE Pre(m) \in Operator
BY DEF TypeOK, ModuleType, Pre

(* What the ways to switch a module do to its two operators *)
LEMMA UnloadedParts ==
  ASSUME TypeOK, NEW m \in Modules
  PROVE  /\ UnloadedModule(m).ops["generate"] = Unloaded(GKind(m), Gen(m))
         /\ UnloadedModule(m).ops["prefill"] = Unloaded(PKind(m), Pre(m))
BY GenType DEF UnloadedModule, Gen, Pre, GKind, PKind, ModuleType, Roles

LEMMA LoadedParts ==
  ASSUME TypeOK, NEW m \in Modules
  PROVE  /\ LoadedModule(m, "PREFILL").ops["generate"] =
              Unloaded(GKind(m), Gen(m))
         /\ LoadedModule(m, "PREFILL").ops["prefill"] =
              Loaded(PKind(m), Pre(m))
         /\ LoadedModule(m, "GENERATE").ops["generate"] =
              Loaded(GKind(m), Gen(m))
         /\ LoadedModule(m, "GENERATE").ops["prefill"] =
              Unloaded(PKind(m), Pre(m))
BY GenType DEF LoadedModule, HalfLoaded, Role, Other, Gen, Pre, GKind, PKind,
               ModuleType

(* What a step of load_layer_to does to the module it is about *)
LEMMA PartsStep ==
  ASSUME TypeOK, pc # "compute", Skip \/ Unload \/ Load
  PROVE  /\ \A m \in Modules : m # Here \/ ~Managed(m) => mod'[m] = mod[m]
         /\ \A m \in Modules : m = Here /\ Managed(m) =>
              /\ pc # "restore" => Gen(m)' = Unloaded(GKind(m), Gen(m))
              /\ pc = "restore" => Gen(m)' = Loaded(GKind(m), Gen(m))
              /\ pc # "load" => Pre(m)' = Unloaded(PKind(m), Pre(m))
              /\ pc = "load" => Pre(m)' = Loaded(PKind(m), Pre(m))
              /\ pc \in {"load", "restore"} => ~Breaks
<1>1. mod' = mod \/ (Managed(Here) /\ \E v : mod' = [mod EXCEPT ![Here] = v])
  BY DEF Skip, Unload, Load, model
<1>2. ASSUME NEW m \in Modules, m # Here \/ ~Managed(m) PROVE mod'[m] = mod[m]
  BY <1>1, <1>2 DEF TypeOK
<1>3. ASSUME NEW h \in Modules, h = Here, Managed(h)
      PROVE  /\ pc # "restore" => Gen(h)' = Unloaded(GKind(h), Gen(h))
             /\ pc = "restore" => Gen(h)' = Loaded(GKind(h), Gen(h))
             /\ pc # "load" => Pre(h)' = Unloaded(PKind(h), Pre(h))
             /\ pc = "load" => Pre(h)' = Loaded(PKind(h), Pre(h))
             /\ pc \in {"load", "restore"} => ~Breaks
  <2>1. /\ Unload => mod'[h] = UnloadedModule(h)
        /\ Load /\ pc = "load" => mod'[h] = LoadedModule(h, "PREFILL")
        /\ Load /\ pc = "restore" => mod'[h] = LoadedModule(h, "GENERATE")
    BY <1>3 DEF Unload, Load, Target, TypeOK
  <2>2. /\ pc \in {"unload", "clear"} => Unload
        /\ pc \in {"load", "restore"} => Load /\ ~Breaks
        /\ pc \in {"unload", "clear", "load", "restore"}
    BY <1>3 DEF Skip, Unload, Load, Places
  <2> QED
    BY <2>1, <2>2, UnloadedParts, LoadedParts DEF Gen, Pre
<1> QED
  BY <1>2, <1>3

-----------------------------------------------------------------------------
(* Steps between forwards keep what was foretold. *)

(* What a step that leaves operators and prompts alone does not change *)
LEMMA SameFacts ==
  ASSUME UNCHANGED <<conf, story>>
  PROVE  /\ Longs' = Longs /\ (Second' <=> Second)
         /\ \A n : DoomedBy(n)' <=> DoomedBy(n)
         /\ \A m : /\ Managed(m)' <=> Managed(m)
                   /\ PKind(m)' = PKind(m) /\ GKind(m)' = GKind(m)
                   /\ Rejects(m)' <=> Rejects(m)
<1>1. Longs' = Longs
  BY DEF Longs
<1>2. Second' <=> Second
  BY <1>1 DEF Second
<1>3. \A n : DoomedBy(n)' <=> DoomedBy(n)
  BY <1>1 DEF DoomedBy, HasExperts
<1>4. \A m : /\ Managed(m)' <=> Managed(m)
             /\ PKind(m)' = PKind(m) /\ GKind(m)' = GKind(m)
             /\ Rejects(m)' <=> Rejects(m)
  BY DEF Managed, PKind, GKind, Kind, Rejects
<1> QED
  BY <1>1, <1>2, <1>3, <1>4

LEMMA SameParts ==
  ASSUME UNCHANGED <<conf, story>>, NEW m, mod'[m] = mod[m]
  PROVE  /\ Gen(m)' = Gen(m) /\ Pre(m)' = Pre(m)
         /\ (GBack(m)' <=> GBack(m)) /\ (PSpent(m)' <=> PSpent(m))
         /\ (PIn(m)' <=> PIn(m))
<1>1. /\ Gen(m)' = Gen(m) /\ Pre(m)' = Pre(m)
  BY DEF Gen, Pre
<1>2. /\ (Second' <=> Second)
      /\ PKind(m)' = PKind(m) /\ GKind(m)' = GKind(m)
  BY SameFacts
<1> QED
  BY <1>1, <1>2 DEF GBack, PSpent, PIn

LEMMA DoomedIs ==
  ASSUME TypeOK
  PROVE  Doomed <=> \/ DoomedBy(Len(story))
                    \/ conf.linear.generate \in KeepsFlag /\ graph = Broken
<1>1. /\ Len(story) \in Nat /\ DOMAIN story = 1 .. Len(story)
      /\ story # <<>> <=> Len(story) > 0
  BY DEF TypeOK
<1>2. Longs \subseteq DOMAIN story
  BY DEF Longs
<1>3. \A i \in DOMAIN story : i <= Len(story)
  BY <1>1
<1> QED
  BY <1>1, <1>2, <1>3 DEF Doomed, DoomedBy

LEMMA DoomStays ==
  ASSUME TypeOK, NEW kind \in {"long", "short"}, Forward(kind), Doomed,
         conf.server
  PROVE  Doomed'
<1>1. /\ story' = Append(story, kind) /\ graph' = graph /\ conf' = conf
  BY DEF Forward, KeptGraph
<1>2. /\ Len(story) \in Nat /\ DOMAIN story = 1 .. Len(story)
      /\ DOMAIN story' = 1 .. Len(story) + 1 /\ story' # <<>>
      /\ \A i \in 1 .. Len(story) : story'[i] = story[i]
  BY <1>1 DEF TypeOK
<1>3. /\ Longs \subseteq Longs'
      /\ DOMAIN story \ Longs \subseteq DOMAIN story' \ Longs'
  BY <1>2 DEF Longs
<1> QED
  BY <1>1, <1>2, <1>3 DEF Doomed, Broken, HasExperts

LEMMA NotBroken ==
  ASSUME NEW g, DOMAIN g = {} \/ \E m \in Modules : g[m] # 0
  PROVE  g # Broken
<1>1. <<0, 3>> \in Modules /\ DOMAIN Broken = Modules
  BY FirstManaged DEF Broken
<1>2. \A m \in Modules : Broken[m] = 0
  BY DEF Broken
<1> QED
  BY <1>1, <1>2

(* A module after the end of a forward that ran it *)
LEMMA FineTells ==
  ASSUME TypeOK, NEW n \in Nat, n = Len(story), n > 0,
         long <=> n \in Longs, ~DoomedBy(n - 1),
         \A m \in Modules : Fine(m),
         long => \A m \in Modules : Managed(m) => GKind(m) # "KExpertsMarlin"
  PROVE  ~DoomedBy(n)
<1>1. Longs \subseteq 1 .. n /\ DOMAIN story = 1 .. n
  BY LongsOf DEF TypeOK
<1>2. <<0, 3>> \in Modules /\ Managed(<<0, 3>>)
  BY FirstManaged
<1>3. /\ PKind(<<0, 3>>) = conf.linear.prefill
      /\ GKind(<<0, 3>>) = conf.linear.generate
  BY DEF PKind, GKind, Kind, Experts
<1>4. IF long THEN Second => conf.linear.prefill \notin KeepsFlag
              ELSE Longs # {} => conf.linear.generate \notin KeepsFlag
  BY <1>2, <1>3 DEF Fine, Lasting
<1>5. ASSUME HasExperts
      PROVE  /\ conf.family # "Qwen2Moe"
             /\ long => /\ conf.experts.prefill # "KExpertsTorch"
                        /\ conf.experts.generate # "KExpertsMarlin"
                        /\ Second => conf.experts.prefill # "KExpertsMarlin"
  <2> DEFINE s == <<FirstSparse, Experts>>
  <2>1. s \in Modules /\ Managed(s)
    BY <1>5, LayerwisePrefillAssumption
       DEF LayerwisePrefillAssumption, HasExperts, Modules, Layers, Slots,
           Experts, Managed
  <2>2. /\ PKind(s) = conf.experts.prefill
        /\ GKind(s) = conf.experts.generate
        /\ Rejects(s) <=> conf.family = "Qwen2Moe"
    BY DEF PKind, GKind, Kind, Rejects
  <2> HIDE DEF s
  <2>3. Fine(s) /\ (long => GKind(s) # "KExpertsMarlin")
    BY <2>1
  <2> QED
    BY <2>1, <2>2, <2>3 DEF Fine, Lasting
<1>6. \A i \in Longs : i < n => i <= n - 1
  BY <1>1
<1>7. Second <=> \E i \in Longs : i < n
  BY DEF Second
<1>8. ~(HasExperts /\ conf.family = "Qwen2Moe" /\ n > 0)
  BY <1>5
<1>9. ASSUME HasExperts, NEW i \in Longs
      PROVE  /\ conf.experts.prefill # "KExpertsTorch"
             /\ conf.experts.generate # "KExpertsMarlin"
  <2>1. CASE long
    BY <1>5, <1>9, <2>1
  <2>2. CASE ~long
    <3>1. i <= n - 1
      BY <1>1, <1>9, <2>2
    <3> QED
      BY <1>9, <3>1 DEF DoomedBy
  <2> QED
    BY <2>1, <2>2
<1>10. ASSUME NEW i \in Longs, NEW j \in Longs, i < j
       PROVE  /\ conf.linear.prefill \notin KeepsFlag
              /\ HasExperts => conf.experts.prefill # "KExpertsMarlin"
  <2>0. i \in Int /\ j \in Int /\ j <= n
    BY <1>1, <1>10
  <2>1. CASE j = n
    <3>1. long /\ Second
      BY <1>7, <1>10, <2>1
    <3> QED
      BY <1>4, <1>5, <3>1
  <2>2. CASE j # n
    <3>1. j <= n - 1
      BY <2>0, <2>2
    <3> QED
      BY <1>10, <3>1 DEF DoomedBy
  <2> QED
    BY <2>1, <2>2
<1>11. ASSUME NEW i \in Longs, NEW j \in DOMAIN story \ Longs, i < j
       PROVE  conf.linear.generate \notin KeepsFlag
  <2>1. CASE j = n
    BY <1>4, <1>11, <2>1
  <2>2. CASE j # n
    <3>1. j <= n - 1
      BY <1>1, <1>11, <2>2
    <3> QED
      BY <1>11, <3>1 DEF DoomedBy
  <2> QED
    BY <2>1, <2>2
<1> QED
  BY <1>8, <1>9, <1>10, <1>11 DEF DoomedBy

-----------------------------------------------------------------------------
(* The steps of a forward in which nothing has raised *)

LEMMA CleanForward ==
  ASSUME TypeOK, StageInv, CleanInv, NEW kind \in {"long", "short"},
         Forward(kind)
  PROVE  CleanInv' /\ StoryInv'
<1>1. /\ UNCHANGED <<conf, mod, cuda, layer, slot>> /\ long' = (kind = "long")
      /\ pc = "idle" /\ pc' = IF kind = "long" THEN "unload" ELSE "compute"
      /\ graph' = graph \/ graph' = <<>>
  BY DEF Forward, model, KeptGraph
<1>2. layer' = 0 /\ slot' = 1
  BY <1>1 DEF StageInv, RestInv
<1>3. \A m \in Modules : ~Passed(m)'
  BY <1>2, NonePassed
<1>4. /\ Len(story) \in Nat /\ Len(story') = Len(story) + 1
      /\ Longs' = Longs \cup (IF kind = "long" THEN {Len(story) + 1} ELSE {})
      /\ Longs \subseteq 1 .. Len(story)
  BY NewForward, LongsOf
<1>5. StoryInv'
  <2>1. PICK n \in Nat : n = Len(story)
    BY <1>4
  <2>2. /\ Len(story') = n + 1 /\ Longs \subseteq 1 .. n
        /\ Longs' = Longs \cup (IF kind = "long" THEN {n + 1} ELSE {})
    BY <1>4, <2>1
  <2>3. n + 1 > 0 /\ n + 1 \notin Longs
    BY <2>2
  <2>4. kind = "long" <=> n + 1 \in Longs'
    BY <2>2, <2>3
  <2> QED
    BY <1>1, <2>2, <2>3, <2>4 DEF StoryInv
<1>6. AtRest /\ ~(pc \in Places)
  BY <1>1 DEF AtRest, Places
<1>7. ~DoomedBy(Over)'
  <2>1. Over = Len(story) /\ Over' = Len(story)
    BY <1>1, <1>4, <1>6 DEF Over, Places
  <2>2. PICK n \in Nat : n = Len(story)
    BY <1>4
  <2>3. ~DoomedBy(n)
    BY <2>1, <2>2 DEF CleanInv
  <2>4. /\ \A i \in Longs' : i <= n => i \in Longs
        /\ Longs \subseteq Int
    BY <1>4, <2>2
  <2>5. \A j \in DOMAIN story' \ Longs' : j <= n => j \in DOMAIN story \ Longs
    BY <1>4, <2>2 DEF TypeOK
  <2>6. \A i \in Longs', j \in Longs' : i < j /\ j <= n => i <= n
    BY <1>4, <2>2
  <2>7. \A i \in Longs', j \in DOMAIN story' \ Longs' : i < j /\ j <= n => i <= n
    BY <1>4, <2>2, <2>5 DEF TypeOK
  <2>8. ~DoomedBy(n)'
    BY <1>1, <2>3, <2>4, <2>5, <2>6, <2>7 DEF DoomedBy, HasExperts
  <2> QED
    BY <2>1, <2>2, <2>8
<1>8. graph' # Broken' /\ pc' # "exited"
  <2>1. graph' # Broken
    BY <1>1, NotBroken DEF CleanInv
  <2> QED
    BY <1>1, <2>1 DEF Broken
<1>9. \A m \in Modules :
        /\ Gen(m)' = Gen(m) /\ Pre(m)' = Pre(m) /\ (Managed(m)' <=> Managed(m))
        /\ PKind(m)' = PKind(m) /\ GKind(m)' = GKind(m)
  BY <1>1 DEF Gen, Pre, Managed, PKind, GKind, Kind
<1>10. kind = "short" => AtRest' /\ Longs' = Longs
  BY <1>1, <1>4 DEF AtRest
<1>11. kind = "long" => ~AtRest' /\ pc' = "unload" /\ (Second' <=> Longs # {})
  <2>1. PICK n \in Nat : n = Len(story)
    BY <1>4
  <2>2. /\ Len(story') = n + 1 /\ Longs \subseteq 1 .. n
        /\ Longs' = Longs \cup (IF kind = "long" THEN {n + 1} ELSE {})
    BY <1>4, <2>1
  <2>3. kind = "long" => (Second' <=> \E i \in Longs \cup {n + 1} : i < n + 1)
    BY <2>2 DEF Second
  <2>4. (\E i \in Longs \cup {n + 1} : i < n + 1) <=> Longs # {}
    <3>1. \A i \in Longs : i < n + 1
      BY <2>1, <2>2
    <3>2. ~(n + 1 < n + 1)
      BY <2>1
    <3> QED
      BY <3>1, <3>2
  <2> QED
    BY <1>1, <2>3, <2>4 DEF AtRest
<1>12. GenInv'
  BY <1>1, <1>6, <1>9, <1>10, <1>11 DEF CleanInv, GenInv, GBack
<1>13. PreInv'
  <2> SUFFICES ASSUME NEW m \in Modules, Managed(m)'
               PROVE  /\ Old(m)' => POld(m)'
                      /\ In(m)' => PIn(m)'
                      /\ Spent(m)' => PSpent(m)'
    BY DEF PreInv
  <2>1. /\ Longs = {} => ~Pre(m).loaded
        /\ Longs # {} => PSpent(m)
    BY <1>6, <1>9 DEF CleanInv, PreInv, Old, Spent, POld
  <2>2. Longs # {} => PSpent(m)'
    BY <1>9, <2>1 DEF PSpent
  <2>3. CASE kind = "short"
    BY <1>1, <1>9, <1>10, <2>1, <2>2, <2>3 DEF Old, In, Spent, POld
  <2>4. CASE kind = "long"
    BY <1>1, <1>9, <1>11, <2>1, <2>2, <2>4 DEF Old, In, Spent, POld
  <2> QED
    BY <2>3, <2>4
<1>14. RanInv'
  BY <1>1, <1>3 DEF RanInv, Ran
<1>15. PlaceInv'
  BY <1>1, <1>6, <1>10, <1>11 DEF CleanInv, PlaceInv
<1> QED
  BY <1>5, <1>7, <1>8, <1>12, <1>13, <1>14, <1>15 DEF CleanInv

(* Where a prefill by layers goes next, and what is said of each module    *)
(* there                                                                   *)
LongPlaces == {"unload", "load", "clear", "restore"}

LEMMA LongMoves ==
  ASSUME TypeOK, Advance, pc \in LongPlaces \/ pc = "compute", long,
         NEW m \in Modules
  PROVE  /\ pc' \in Places \/ (pc = "restore" /\ pc' = "idle")
         /\ long' /\ pc' # "exited"
         /\ pc' \in Places =>
              /\ ~AtRest'
              /\ Old(m)' => Old(m) /\ (m # Here \/ pc \in {"unload", "compute"})
              /\ In(m)' => \/ In(m) /\ (m # Here \/ pc = "compute")
                           \/ m = Here /\ pc = "load"
              /\ Spent(m)' => Spent(m) \/ (m = Here /\ pc = "clear")
              /\ Ran(m)' => Ran(m) \/ (m = Here /\ pc = "compute")
              /\ pc' = "restore" /\ Passed(m)' =>
                   pc = "restore" /\ (Passed(m) \/ m = Here)
         /\ pc' \notin Places => AtRest' /\ Spent(m) /\ Ran(m)
                                 /\ (Passed(m) \/ m = Here)
<1>1. /\ layer \in Int /\ 0 <= layer /\ layer <= NLayers - 1
      /\ slot \in Int /\ 1 <= slot /\ slot <= 3 /\ NLayers \in Int
  BY LayerwisePrefillAssumption
     DEF TypeOK, Layers, Slots, LayerwisePrefillAssumption
<1>2. /\ m[1] \in Int /\ 0 <= m[1] /\ m[1] <= NLayers - 1
      /\ m[2] \in Int /\ 1 <= m[2] /\ m[2] <= 3
      /\ m = Here <=> m[1] = layer /\ m[2] = slot
  BY ModuleParts DEF Here
<1>3. CASE slot < 3
  <2>1. slot' = slot + 1 /\ pc' = pc /\ layer' = layer /\ long' = long
    BY <1>3, Stays
  <2>2. pc' \in Places /\ ~AtRest' /\ pc' # "exited"
    BY <2>1 DEF Places, LongPlaces, AtRest
  <2>3. Passed(m)' => Passed(m) \/ m = Here
    BY <1>1, <1>2, <2>1 DEF Passed
  <2>4. Passed(m) => Passed(m)'
    BY <1>1, <1>2, <2>1 DEF Passed
  <2>5. Old(m)' => Old(m) /\ (m # Here \/ pc \in {"unload", "compute"})
    BY <1>1, <1>2, <2>1, <2>2, <2>4 DEF Old, Passed, AtRest
  <2>6. In(m)' => \/ In(m) /\ (m # Here \/ pc = "compute")
                  \/ m = Here /\ pc = "load"
    BY <1>1, <1>2, <2>1 DEF In
  <2>7. Spent(m)' => Spent(m) \/ (m = Here /\ pc = "clear")
    BY <1>1, <1>2, <2>1, <2>2, <2>3 DEF Spent
  <2>8. Ran(m)' => Ran(m) \/ (m = Here /\ pc = "compute")
    BY <1>1, <1>2, <2>1, <2>3 DEF Ran
  <2> QED
    BY <2>1, <2>2, <2>3, <2>5, <2>6, <2>7, <2>8
<1>4. CASE ~(slot < 3)
  <2>0. slot' = 1 /\ pc' = Following[1] /\ layer' = Following[2] /\ long' = long
    BY <1>4, Leaves
  <2>1. CASE pc = "unload"
    <3>1. (pc' = "unload" /\ layer' = layer + 1) \/ (pc' = "load" /\ layer' = 0)
      BY <2>0, <2>1 DEF Following
    <3> QED
      BY <1>1, <1>2, <2>0, <2>1, <3>1
         DEF Places, AtRest, Old, In, Spent, Ran
  <2>2. CASE pc = "load"
    <3>1. pc' = "compute" /\ layer' = layer
      BY <2>0, <2>2 DEF Following
    <3> QED
      BY <1>1, <1>2, <1>4, <2>0, <2>2, <3>1
         DEF Places, AtRest, Old, In, Spent, Ran, Passed
  <2>3. CASE pc = "compute"
    <3>1. pc' = "clear" /\ layer' = layer
      BY <2>0, <2>3 DEF Following
    <3> QED
      BY <1>1, <1>2, <1>4, <2>0, <2>3, <3>1
         DEF Places, AtRest, Old, In, Spent, Ran, Passed
  <2>4. CASE pc = "clear"
    <3>1. (pc' = "load" /\ layer' = layer + 1)
          \/ (pc' = "restore" /\ layer' = 0 /\ Last)
      BY <2>0, <2>4 DEF Following
    <3> QED
      BY <1>1, <1>2, <1>4, <2>0, <2>4, <3>1
         DEF Places, AtRest, Old, In, Spent, Ran, Passed, Last
  <2>5. CASE pc = "restore"
    <3>1. (pc' = "restore" /\ layer' = layer + 1)
          \/ (pc' = "idle" /\ layer' = 0 /\ Last)
      BY <2>0, <2>5 DEF Following
    <3> QED
      BY <1>1, <1>2, <1>4, <2>0, <2>5, <3>1
         DEF Places, AtRest, Old, In, Spent, Ran, Passed, Last
  <2> QED
    BY <2>1, <2>2, <2>3, <2>4, <2>5 DEF LongPlaces
<1> QED
  BY <1>3, <1>4

(* load_layer_to, in a prefill by layers *)
LEMMA CleanSwitch ==
  ASSUME TypeOK, HonestInv, StageInv, StageInv', FreshInv, StoryInv, CleanInv,
         pc \in LongPlaces, Skip \/ Unload \/ Load
  PROVE  CleanInv'
<1>1. Advance /\ UNCHANGED <<conf, story, graph>> /\ long
  BY DEF Skip, Unload, Load, LongPlaces, StageInv, UnloadInv, LoadInv,
         ClearInv, RestoreInv
<1>2. \A m \in Modules :
        /\ pc' \in Places \/ (pc = "restore" /\ pc' = "idle")
        /\ long' /\ pc' # "exited"
        /\ pc' \in Places =>
             /\ ~AtRest'
             /\ Old(m)' => Old(m) /\ (m # Here \/ pc \in {"unload", "compute"})
             /\ In(m)' => \/ In(m) /\ (m # Here \/ pc = "compute")
                          \/ m = Here /\ pc = "load"
             /\ Spent(m)' => Spent(m) \/ (m = Here /\ pc = "clear")
             /\ Ran(m)' => Ran(m) \/ (m = Here /\ pc = "compute")
             /\ pc' = "restore" /\ Passed(m)' =>
                  pc = "restore" /\ (Passed(m) \/ m = Here)
        /\ pc' \notin Places => AtRest' /\ Spent(m) /\ Ran(m)
                                /\ (Passed(m) \/ m = Here)
  BY <1>1, LongMoves
<1>3. /\ pc # "compute" /\ pc \in Places /\ ~AtRest
  BY <1>1 DEF LongPlaces, AtRest, Places
<1>4. /\ \A m \in Modules : m # Here \/ ~Managed(m) => mod'[m] = mod[m]
      /\ \A m \in Modules : m = Here /\ Managed(m) =>
           /\ pc # "restore" => Gen(m)' = Unloaded(GKind(m), Gen(m))
           /\ pc = "restore" => Gen(m)' = Loaded(GKind(m), Gen(m))
           /\ pc # "load" => Pre(m)' = Unloaded(PKind(m), Pre(m))
           /\ pc = "load" => Pre(m)' = Loaded(PKind(m), Pre(m))
           /\ pc \in {"load", "restore"} => ~Breaks
  BY <1>3, PartsStep
<1>5. /\ Longs' = Longs /\ (Second' <=> Second)
      /\ \A n : DoomedBy(n)' <=> DoomedBy(n)
      /\ \A m : /\ Managed(m)' <=> Managed(m)
                /\ PKind(m)' = PKind(m) /\ GKind(m)' = GKind(m)
                /\ Rejects(m)' <=> Rejects(m)
  BY <1>1, SameFacts
<1>6. \A m \in Modules : m # Here \/ ~Managed(m) =>
        /\ Gen(m)' = Gen(m) /\ Pre(m)' = Pre(m)
        /\ (GBack(m)' <=> GBack(m)) /\ (PSpent(m)' <=> PSpent(m))
        /\ (PIn(m)' <=> PIn(m))
  BY <1>1, <1>4, SameParts
<1>7. (pc' \in Places \/ (pc = "restore" /\ pc' = "idle"))
  BY <1>2, FirstManaged
<1>8. Len(story) \in Nat /\ Len(story) > 0 /\ Len(story) \in Longs /\ Longs # {}
  BY <1>1, <1>3, LongsOf DEF StoryInv
(* The operators that generate *)
<1>9. ASSUME NEW h \in Modules, h = Here, Managed(h), pc = "restore"
      PROVE  GBack(h)' /\ GKind(h) # "KExpertsMarlin"
  <2>1. Gen(h)' = Loaded(GKind(h), Gen(h)) /\ ~Breaks
    BY <1>4, <1>9
  <2>2. ~Passed(h)
    BY <1>9, ModuleParts DEF Passed, Here
  <2>3. Emptied(h) /\ (GKind(h) \in Lasting => Gen(h).loaded)
    BY <1>9, <2>2 DEF FreshInv, CleanInv, GenInv
  <2>4. GKind(h) \in Lasting => Gen(h).tensors = 0 /\ Gen(h).loaded
    BY <2>3 DEF Emptied, GKind, Lasting, KeepsFlag, GivenUp
  <2>5. GKind(h) # "KExpertsMarlin"
    BY <1>9, <2>1, <2>4
       DEF Breaks, LoadRaises, Target, Role, GKind, Gen, Lasting
  <2>6. CASE GKind(h) \in Lasting
    <3>1. Gen(h)' = Gen(h)
      BY <2>1, <2>4, <2>6, LoadedLasting, GenType
    <3> QED
      BY <1>5, <2>4, <2>5, <2>6, <3>1 DEF GBack
  <2>7. CASE GKind(h) \notin Lasting
    <3>1. GKind(h) \in ReloadableKinds
      BY <2>7, KindOf DEF GKind, Roles
    <3>2. Honest(GKind(h), Gen(h))
      BY DEF HonestInv, GKind, Gen, Roles
    <3>3. Loaded(GKind(h), Gen(h)).tensors # 0
      BY <3>1, <3>2, LoadedOperator, GenType, LayerwisePrefillAssumption
         DEF TypeOK
    <3> QED
      BY <1>5, <2>1, <2>5, <2>7, <3>3 DEF GBack
  <2> QED
    BY <2>6, <2>7
<1>10. ASSUME NEW m \in Modules, Managed(m)
       PROVE  GKind(m) \in Lasting => Gen(m)'.loaded
  <2>1. GKind(m) \in Lasting => Gen(m).loaded
    BY <1>10 DEF CleanInv, GenInv
  <2>2. CASE m # Here
    BY <1>6, <2>1, <2>2
  <2>3. CASE m = Here
    BY <1>4, <1>10, <2>1, <2>3, UnloadedLasting, LoadedLasting, GenType
  <2> QED
    BY <2>2, <2>3
<1>11. ASSUME NEW m \in Modules, Managed(m), pc = "restore", Passed(m) \/ m = Here
       PROVE  GBack(m)' /\ GKind(m) # "KExpertsMarlin"
  <2>1. CASE m = Here
    BY <1>9, <1>11, <2>1
  <2>2. CASE m # Here
    <3>1. GBack(m) /\ GKind(m) # "KExpertsMarlin"
      BY <1>11, <2>2 DEF CleanInv, GenInv
    <3> QED
      BY <1>6, <2>2, <3>1
  <2> QED
    BY <2>1, <2>2
<1>12. GenInv'
  <2> SUFFICES ASSUME NEW m \in Modules, Managed(m)
               PROVE  /\ GKind(m)' \in Lasting => Gen(m)'.loaded
                      /\ AtRest' => GBack(m)'
                      /\ pc' = "restore" /\ Passed(m)' =>
                           GBack(m)' /\ GKind(m)' # "KExpertsMarlin"
    BY <1>5, <1>8 DEF GenInv, Lasting, KeepsFlag
  <2>1. GKind(m)' \in Lasting => Gen(m)'.loaded
    BY <1>5, <1>10
  <2>2. AtRest' => GBack(m)'
    BY <1>2, <1>11
  <2>3. pc' = "restore" /\ Passed(m)' => GBack(m)' /\ GKind(m)' # "KExpertsMarlin"
    <3>1. pc' = "restore" => pc' \in Places
      BY DEF Places
    <3> QED
      BY <1>2, <1>5, <1>11, <3>1
  <2> QED
    BY <2>1, <2>2, <2>3
(* The prefill operators *)
<1>13. ASSUME NEW h \in Modules, h = Here, Managed(h), pc = "load"
       PROVE  PIn(h)'
  <2>1. Pre(h)' = Loaded(PKind(h), Pre(h)) /\ ~Breaks
    BY <1>4, <1>13
  <2>2. Old(h)
    BY <1>13, ModuleParts DEF Old, Passed, Here
  <2>3. IF Second THEN PSpent(h) ELSE ~Pre(h).loaded
    BY <1>3, <1>13, <2>2 DEF CleanInv, PreInv, POld
  <2>4. /\ PKind(h) # "KExpertsTorch"
        /\ PKind(h) = "KExpertsMarlin" => ~Pre(h).loaded
    BY <1>13, <2>1 DEF Breaks, LoadRaises, Target, Role, PKind, Pre
  <2>5. Second => PKind(h) # "KExpertsMarlin"
    BY <2>3, <2>4 DEF PSpent, Lasting
  <2>6. CASE PKind(h) \in Lasting
    <3>1. /\ Loaded(PKind(h), Pre(h)).loaded
          /\ Pre(h).loaded => Loaded(PKind(h), Pre(h)) = Pre(h)
          /\ ~Pre(h).loaded => Loaded(PKind(h), Pre(h)).tensors # 0
      BY <2>6, LoadedLasting, PreType
    <3>2. /\ Second => Pre(h)'.tensors = 0
          /\ ~Second => Pre(h)'.tensors # 0
      BY <2>1, <2>3, <2>6, <3>1 DEF PSpent
    <3> QED
      BY <1>5, <2>1, <2>4, <2>5, <2>6, <3>1, <3>2 DEF PIn
  <2>7. CASE PKind(h) \notin Lasting
    <3>1. PKind(h) \in ReloadableKinds
      BY <2>4, <2>7, KindOf DEF PKind, Roles
    <3>2. Honest(PKind(h), Pre(h))
      BY DEF HonestInv, PKind, Pre, Roles
    <3>3. Loaded(PKind(h), Pre(h)).tensors # 0
      BY <3>1, <3>2, LoadedOperator, PreType, LayerwisePrefillAssumption
         DEF TypeOK
    <3> QED
      BY <1>5, <2>1, <2>4, <2>5, <2>7, <3>3 DEF PIn
  <2> QED
    BY <2>6, <2>7
<1>14. ASSUME NEW h \in Modules, h = Here, Managed(h), pc # "load"
       PROVE  /\ PSpent(h) \/ PIn(h) => PSpent(h)'
              /\ ~Pre(h).loaded => ~Pre(h)'.loaded
  <2>1. Pre(h)' = Unloaded(PKind(h), Pre(h))
    BY <1>4, <1>14
  <2> QED
    BY <1>5, <2>1, UnloadedLasting, PreType DEF PSpent, PIn
<1>15. PreInv'
  <2> SUFFICES ASSUME NEW m \in Modules, Managed(m)
               PROVE  /\ Old(m)' => POld(m)'
                      /\ In(m)' => PIn(m)'
                      /\ Spent(m)' => PSpent(m)'
    BY <1>5 DEF PreInv
  <2>1. /\ Old(m) => POld(m) /\ (In(m) => PIn(m)) /\ (Spent(m) => PSpent(m))
    BY DEF CleanInv, PreInv
  <2>2. /\ In(m) => PIn(m)
        /\ Spent(m) => PSpent(m)
        /\ Old(m) => IF Second THEN PSpent(m) ELSE ~Pre(m).loaded
    BY <1>3 DEF CleanInv, PreInv, POld
  <2>3. CASE pc' \notin Places
    <3>1. AtRest' /\ Spent(m) /\ Longs' # {} /\ pc = "restore" /\ pc' = "idle"
      BY <1>2, <1>5, <1>7, <1>8, <2>3
    <3>2. PSpent(m)'
      BY <1>6, <1>14, <2>2, <3>1
    <3>3. ~Old(m)' /\ ~In(m)'
      BY <3>1 DEF Old, In
    <3> QED
      BY <3>2, <3>3
  <2>4. CASE pc' \in Places
    <3>1. Old(m)' => POld(m)'
      <4>1. ASSUME Old(m)'
            PROVE  IF Second THEN PSpent(m)' ELSE ~Pre(m)'.loaded
        <5>1. Old(m) /\ (m # Here \/ pc = "unload")
          BY <1>2, <1>3, <2>4, <4>1
        <5> QED
          BY <1>6, <1>14, <2>2, <5>1
      <4>2. ~AtRest'
        BY <1>2, <2>4
      <4> QED
        BY <1>5, <4>1, <4>2 DEF POld
    <3>2. In(m)' => PIn(m)'
      BY <1>2, <1>3, <1>6, <1>13, <2>2, <2>4
    <3>3. Spent(m)' => PSpent(m)'
      <4>1. m = Here /\ pc = "clear" => In(m) \/ Spent(m)
        BY ModuleParts DEF Here, In, Spent, Passed
      <4>2. Spent(m) /\ m = Here => pc # "load"
        BY <1>3, ModuleParts DEF Spent, Here, Passed
      <4> QED
        BY <1>2, <1>6, <1>14, <2>2, <2>4, <4>1, <4>2
    <3> QED
      BY <3>1, <3>2, <3>3
  <2> QED
    BY <2>3, <2>4
(* The forward so far *)
<1>16. \A m \in Modules : Fine(m)' <=> Fine(m)
  BY <1>1, <1>2, <1>5 DEF Fine
<1>17. CASE pc' \in Places
  <2>1. RanInv'
    BY <1>2, <1>3, <1>16, <1>17 DEF CleanInv, RanInv
  <2>2. Over' = Over /\ graph' # Broken' /\ pc' # "exited"
    BY <1>1, <1>2, <1>3, <1>7, <1>17, FirstManaged DEF Over, CleanInv, Broken
  <2>3. PlaceInv'
    <3>1. pc' = "compute" => layer \in cuda' /\ layer' = layer
      <4>1. pc' = "compute" => ~(slot < 3) /\ pc = "load" /\ layer' = layer
        BY <1>1, <1>3, Stays, Leaves DEF Following, LongPlaces
      <4> QED
        BY <1>3, <4>1, Switches DEF Target
    <3> QED
      BY <1>2, <1>17, <3>1, FirstManaged DEF PlaceInv
  <2> QED
    BY <1>5, <1>12, <1>15, <2>1, <2>2, <2>3 DEF CleanInv
<1>18. CASE pc' \notin Places
  <2>1. /\ pc = "restore" /\ pc' = "idle" /\ AtRest'
        /\ \A m \in Modules : Ran(m) /\ (Passed(m) \/ m = Here)
    BY <1>2, <1>7, <1>18, FirstManaged
  <2>2. \A m \in Modules : Fine(m)
    BY <2>1 DEF CleanInv, RanInv
  <2>3. RanInv'
    BY <2>1 DEF RanInv, Ran
  <2>4. ~DoomedBy(Over)'
    <3>1. Over = Len(story) - 1 /\ Over' = Len(story)
      BY <1>1, <1>3, <1>18 DEF Over
    <3>2. PICK n \in Nat : n = Len(story)
      BY <1>8
    <3>3. ~DoomedBy(n - 1)
      BY <3>1, <3>2 DEF CleanInv
    <3>4. \A m \in Modules : Managed(m) => GKind(m) # "KExpertsMarlin"
      BY <1>11, <2>1
    <3>5. ~DoomedBy(n)
      BY <1>1, <1>8, <2>2, <3>2, <3>3, <3>4, FineTells
    <3> QED
      BY <1>5, <3>1, <3>2, <3>5
  <2>5. PlaceInv'
    <3>1. ready'
      BY <1>1, <2>1, Stays, Leaves
    <3>2. cuda' = Layers
      BY <3>1 DEF StageInv, ReadyInv, Whole
    <3> QED
      BY <2>1, <3>2 DEF PlaceInv
  <2>6. graph' # Broken' /\ pc' # "exited"
    BY <1>1, <2>1 DEF CleanInv, Broken
  <2> QED
    BY <1>12, <1>15, <2>3, <2>4, <2>5, <2>6 DEF CleanInv
<1> QED
  BY <1>17, <1>18

(* A module called by a prefill by layers, or by another forward, and what *)
(* there was to it                                                         *)
LEMMA LongTensors ==
  ASSUME TypeOK, StageInv, UnmanagedInv, FreshInv, StoryInv, CleanInv,
         pc = "compute", long, NEW h \in Modules, h = Here
  PROVE  /\ ~Managed(h) => Runs(h)
         /\ Managed(h) => PIn(h) /\ (Runs(h) <=> Pre(h).tensors # 0)
<1>1. h[1] = layer /\ layer \in cuda
  BY DEF Here, CleanInv, PlaceInv
<1>2. CASE Managed(h)
  <2>1. mod[h].mode = "PREFILL"
    BY <1>1, <1>2 DEF StageInv, LongInv
  <2>2. In(h)
    BY <1>1 DEF In
  <2> QED
    BY <1>1, <1>2, <2>1, <2>2 DEF CleanInv, PreInv, Runs, Tensors, Role, Pre
<1>3. CASE ~Managed(h)
  <2>1. mod[h].mode = "GENERATE" /\ Gen(h).tensors = 1
    BY <1>3 DEF UnmanagedInv, WholeModule, FreshInv
  <2> QED
    BY <1>1, <1>3, <2>1 DEF Runs, Tensors, Role, Gen
<1> QED
  BY <1>2, <1>3

LEMMA ShortTensors ==
  ASSUME TypeOK, StageInv, FreshInv, StoryInv, CleanInv,
         pc = "compute" \/ pc = "idle", pc = "compute" => ~long,
         NEW h \in Modules
  PROVE  /\ Runs(h) <=> Gen(h).tensors # 0
         /\ Gen(h).tensors = 0 =>
              Managed(h) /\ Longs # {} /\ GKind(h) \in Lasting
         /\ Managed(h) /\ Longs # {} /\ GKind(h) \in Lasting =>
              Gen(h).tensors = 0
<1>1. AtRest
  BY DEF AtRest
<1>2. cuda = Layers
  BY <1>1 DEF CleanInv, PlaceInv
<1>3. Whole
  BY <1>2 DEF StageInv, RestInv, ShortInv, Lost
<1>4. Tensors(h) = Gen(h).tensors
  BY <1>3 DEF Whole, WholeModule, Tensors, Role, Gen
<1>5. h[1] \in Layers
  BY DEF Modules
<1>6. /\ ~Managed(h) => Gen(h).tensors = 1
      /\ Managed(h) /\ Longs = {} => Gen(h).tensors # 0
      /\ Managed(h) /\ Longs # {} => GBack(h)
  BY <1>1 DEF FreshInv, CleanInv, GenInv
<1> QED
  BY <1>2, <1>4, <1>5, <1>6 DEF Runs, GBack

LEMMA CleanLong ==
  ASSUME TypeOK, StageInv, UnmanagedInv, FreshInv, StoryInv, CleanInv,
         pc = "compute", long, Skip \/ Compute
  PROVE  CleanInv'
<1>1. Advance /\ UNCHANGED <<conf, model, story, graph>>
  BY DEF Skip, Compute
<1>2. UNCHANGED <<mod, cuda>>
  BY <1>1 DEF model
<1>3. pc' \in Places /\ ~AtRest' /\ long' /\ pc' # "exited"
  BY <1>1, FirstManaged, LongMoves
<1>4. \A m \in Modules :
        /\ Old(m)' => Old(m)
        /\ In(m)' => In(m)
        /\ Spent(m)' => Spent(m)
        /\ Ran(m)' => Ran(m) \/ m = Here
        /\ ~(pc' = "restore" /\ Passed(m)')
  BY <1>1, <1>3, LongMoves
<1>5. /\ Longs' = Longs /\ (Second' <=> Second)
      /\ \A n : DoomedBy(n)' <=> DoomedBy(n)
      /\ \A m : /\ Managed(m)' <=> Managed(m)
                /\ PKind(m)' = PKind(m) /\ GKind(m)' = GKind(m)
                /\ Rejects(m)' <=> Rejects(m)
  BY <1>1, SameFacts
<1>6. \A m : /\ Gen(m)' = Gen(m) /\ Pre(m)' = Pre(m)
             /\ (PSpent(m)' <=> PSpent(m)) /\ (PIn(m)' <=> PIn(m))
  BY <1>1, <1>2, SameParts
<1>7. ~AtRest /\ pc \in Places
  BY DEF AtRest, Places
<1>8. GenInv'
  BY <1>3, <1>4, <1>5, <1>6 DEF CleanInv, GenInv
<1>9. PreInv'
  BY <1>3, <1>4, <1>5, <1>6, <1>7 DEF CleanInv, PreInv, POld
<1>10. ASSUME NEW h \in Modules, h = Here PROVE Fine(h)
  <2>1. Compute /\ Runs(h) /\ ~Rejects(h)
    BY <1>10 DEF Skip, Compute
  <2>2. Managed(h) => PIn(h) /\ Pre(h).tensors # 0
    BY <1>10, <2>1, LongTensors
  <2> QED
    BY <2>1, <2>2 DEF Fine, PIn
<1>11. \A m \in Modules : Fine(m)' <=> Fine(m)
  BY <1>3, <1>5 DEF Fine
<1>12. RanInv'
  BY <1>4, <1>10, <1>11 DEF CleanInv, RanInv
<1>13. pc' = "compute" => layer' = layer
  BY <1>1, Stays, Leaves DEF Following
<1>14. PlaceInv'
  BY <1>2, <1>3, <1>13 DEF CleanInv, PlaceInv
<1>15. Over' = Over /\ graph' # Broken'
  BY <1>1, <1>3, <1>7 DEF Over, CleanInv, Broken
<1> QED
  BY <1>3, <1>5, <1>8, <1>9, <1>12, <1>14, <1>15 DEF CleanInv

LEMMA CleanShort ==
  ASSUME TypeOK, StageInv, FreshInv, StoryInv, CleanInv,
         pc = "compute", ~long, Skip \/ Compute
  PROVE  CleanInv'
<1>1. Advance /\ UNCHANGED <<conf, model, story, graph>>
  BY DEF Skip, Compute
<1>2. UNCHANGED <<mod, cuda>>
  BY <1>1 DEF model
<1>3. ~long' /\ pc' \in {"compute", "idle"}
  BY <1>1, Stays, Leaves DEF Following
<1>4. AtRest /\ AtRest' /\ pc \in Places
  BY <1>3 DEF AtRest, Places
<1>5. \A m \in Modules :
        /\ ~Old(m)' \/ Longs' = {}
        /\ ~In(m)'
        /\ Spent(m)' => Longs' # {}
        /\ ~(pc' = "restore")
  BY <1>3, <1>4 DEF Old, In, Spent
<1>6. /\ Longs' = Longs
      /\ \A n : DoomedBy(n)' <=> DoomedBy(n)
      /\ \A m : /\ Managed(m)' <=> Managed(m)
                /\ PKind(m)' = PKind(m) /\ GKind(m)' = GKind(m)
                /\ Rejects(m)' <=> Rejects(m)
  BY <1>1, SameFacts
<1>7. \A m : /\ Gen(m)' = Gen(m) /\ Pre(m)' = Pre(m)
             /\ (GBack(m)' <=> GBack(m)) /\ (PSpent(m)' <=> PSpent(m))
  BY <1>1, <1>2, SameParts
<1>8. GenInv'
  BY <1>4, <1>5, <1>6, <1>7 DEF CleanInv, GenInv
<1>9. \A m \in Modules : Managed(m) => /\ Longs = {} => ~Pre(m).loaded
                                       /\ Longs # {} => PSpent(m)
  BY <1>4 DEF CleanInv, PreInv, Old, Spent, POld
<1>10. PreInv'
  BY <1>4, <1>5, <1>6, <1>7, <1>9 DEF PreInv, POld
<1>11. ASSUME NEW h \in Modules, h = Here PROVE Fine(h)
  <2>1. Compute /\ Runs(h) /\ ~Rejects(h)
    BY <1>11 DEF Skip, Compute
  <2>2. Managed(h) /\ Longs # {} => GKind(h) \notin Lasting
    BY <2>1, ShortTensors
  <2> QED
    BY <2>1, <2>2 DEF Fine
<1>12. \A m \in Modules : Fine(m)' <=> Fine(m)
  BY <1>3, <1>6 DEF Fine
<1>13. PlaceInv'
  BY <1>2, <1>3, <1>4 DEF CleanInv, PlaceInv
<1>14. graph' # Broken' /\ pc' # "exited"
  BY <1>1, <1>3 DEF CleanInv, Broken
<1>15. CASE pc' = "compute"
  <2>1. \A m \in Modules : Passed(m)' => Passed(m) \/ m = Here
    <3>1. /\ layer \in Int /\ slot \in 1 .. 3
      BY LayerwisePrefillAssumption
         DEF TypeOK, Layers, Slots, LayerwisePrefillAssumption
    <3>2. \/ slot < 3 /\ layer' = layer /\ slot' = slot + 1
          \/ ~(slot < 3) /\ layer' = layer + 1 /\ slot' = 1
      BY <1>1, <1>15, Stays, Leaves DEF Following
    <3> QED
      BY <3>1, <3>2, ModuleParts DEF Passed
  <2>2. \A m \in Modules : Ran(m)' => Ran(m) \/ m = Here
    BY <1>15, <2>1 DEF Ran
  <2>3. RanInv'
    BY <1>11, <1>12, <2>2 DEF CleanInv, RanInv
  <2>4. Over' = Over
    BY <1>1, <1>4, <1>15 DEF Over, Places
  <2> QED
    BY <1>6, <1>8, <1>10, <1>13, <1>14, <2>3, <2>4 DEF CleanInv
<1>16. CASE pc' = "idle"
  <2>1. ~(slot < 3) /\ Last
    BY <1>1, <1>16, Stays, Leaves DEF Following
  <2>2. \A m \in Modules : Passed(m) \/ m = Here
    <3>1. /\ layer \in Int /\ slot \in 1 .. 3 /\ layer = NLayers - 1
      BY <2>1, LayerwisePrefillAssumption
         DEF TypeOK, Layers, Slots, LayerwisePrefillAssumption, Last
    <3> QED
      BY <2>1, <3>1, ModuleParts DEF Passed
  <2>3. \A m \in Modules : Fine(m)
    BY <1>11, <2>2 DEF CleanInv, RanInv, Ran
  <2>4. RanInv'
    BY <1>16 DEF RanInv, Ran
  <2>5. Over = Len(story) - 1 /\ Over' = Len(story)
    BY <1>1, <1>4, <1>16 DEF Over, Places
  <2>6. PICK n \in Nat : n = Len(story)
    BY LongsOf
  <2>7. n > 0 /\ n \notin Longs /\ ~DoomedBy(n - 1)
    BY <1>4, <2>5, <2>6 DEF StoryInv, CleanInv
  <2>8. ~DoomedBy(n)
    BY <2>3, <2>6, <2>7, FineTells
  <2> QED
    BY <1>6, <1>8, <1>10, <1>13, <1>14, <2>4, <2>5, <2>6, <2>8 DEF CleanInv
<1> QED
  BY <1>3, <1>15, <1>16

(* What raises first was foretold. *)
LEMMA LoadDoomed ==
  ASSUME TypeOK, StageInv, FreshInv, StoryInv, CleanInv, LoadFails
  PROVE  Doomed
<1>1. /\ pc \in {"load", "restore"} /\ long /\ Managed(Here) /\ Breaks
  BY DEF LoadFails, StageInv, LoadInv, RestoreInv
<1>2. PICK h : h = Here /\ h \in Modules /\ Managed(h)
  BY <1>1 DEF Managed
<1>3. Len(story) \in Longs /\ ~AtRest
  BY <1>1 DEF StoryInv, Places, AtRest
<1>4. CASE pc = "load"
  <2>1. \/ PKind(h) = "KExpertsTorch"
        \/ PKind(h) = "KExpertsMarlin" /\ Pre(h).loaded
    BY <1>1, <1>2, <1>4 DEF Breaks, LoadRaises, Target, Role, PKind, Pre
  <2>2. h[2] = Experts /\ HasExperts /\ PKind(h) = conf.experts.prefill
    BY <1>2, <2>1, KindOf DEF PKind, Roles
  <2>3. Pre(h).loaded => Second
    <3>1. Old(h)
      BY <1>2, <1>4, ModuleParts DEF Old, Passed, Here
    <3> QED
      BY <1>2, <1>3, <3>1 DEF CleanInv, PreInv, POld
  <2> QED
    BY <1>3, <2>1, <2>2, <2>3 DEF Doomed, Second
<1>5. CASE pc = "restore"
  <2>1. GKind(h) = "KExpertsTorch" \/ GKind(h) = "KExpertsMarlin"
    BY <1>1, <1>2, <1>5 DEF Breaks, LoadRaises, Target, Role, GKind
  <2>2. GKind(h) = conf.experts.generate /\ HasExperts
        /\ GKind(h) = "KExpertsMarlin"
    BY <1>2, <2>1, KindOf DEF GKind, Roles
  <2> QED
    BY <1>3, <2>2 DEF Doomed
<1> QED
  BY <1>1, <1>4, <1>5

LEMMA ComputeDoomed ==
  ASSUME TypeOK, StageInv, UnmanagedInv, FreshInv, StoryInv, CleanInv,
         ComputeFails
  PROVE  Doomed
<1>1. PICK h : h = Here /\ h \in Modules /\ (~Runs(h) \/ Rejects(h))
  BY DEF ComputeFails
<1>2. pc = "compute"
  BY DEF ComputeFails
<1>3. story # <<>> /\ Len(story) \in DOMAIN story /\ Longs \subseteq 1 .. Len(story)
      /\ (long <=> Len(story) \in Longs)
  BY <1>2, LongsOf DEF StoryInv, Places, TypeOK
<1>4. CASE Rejects(h)
  <2>1. HasExperts
    BY <1>1, <1>4, KindOf DEF Rejects, Roles
  <2> QED
    BY <1>3, <1>4, <2>1 DEF Rejects, Doomed
<1>5. CASE ~Runs(h) /\ long
  <2>1. PIn(h) /\ Pre(h).tensors = 0
    BY <1>1, <1>2, <1>5, LongTensors
  <2>2. Second /\ PKind(h) \in KeepsFlag
    BY <2>1 DEF PIn, Lasting
  <2>3. conf.linear.prefill \in KeepsFlag
    BY <1>1, <2>2, KindOf DEF PKind, Roles
  <2> QED
    BY <1>3, <1>5, <2>2, <2>3 DEF Doomed, Second
<1>6. CASE ~Runs(h) /\ ~long
  <2>1. Managed(h) /\ Longs # {} /\ GKind(h) \in Lasting
    BY <1>1, <1>2, <1>6, ShortTensors
  <2>2. CASE GKind(h) \in KeepsFlag
    <3>1. conf.linear.generate \in KeepsFlag
      BY <1>1, <2>2, KindOf DEF GKind, Roles
    <3>2. PICK i \in Longs : TRUE
      BY <2>1
    <3>3. i < Len(story)
      BY <1>3, <1>6, <3>2
    <3> QED
      BY <1>3, <1>6, <3>1, <3>3 DEF Doomed
  <2>3. CASE GKind(h) = "KExpertsMarlin"
    <3>1. conf.experts.generate = "KExpertsMarlin" /\ HasExperts
      BY <1>1, <2>3, KindOf DEF GKind, Roles
    <3> QED
      BY <2>1, <3>1 DEF Doomed
  <2> QED
    BY <2>1, <2>2, <2>3 DEF Lasting
<1> QED
  BY <1>1, <1>4, <1>5, <1>6

LEMMA CaptureDoomed ==
  ASSUME TypeOK, StageInv, FreshInv, StoryInv, CleanInv, CaptureFails
  PROVE  Doomed'
<1>1. PICK h \in Modules : ~Runs(h)
  BY DEF CaptureFails
<1>2. pc = "idle" /\ conf.graphs /\ graph' = Broken /\ conf' = conf
  BY DEF CaptureFails, Captures
<1>3. GKind(h) \in Lasting
  BY <1>1, <1>2, ShortTensors
<1>4. GKind(h) # "KExpertsMarlin"
  <2>1. conf.experts.generate = "KExpertsCPU"
    BY <1>2 DEF TypeOK, Configurations
  <2> QED
    BY <1>1, <2>1, KindOf DEF GKind, Roles
<1>5. conf.linear.generate \in KeepsFlag
  BY <1>1, <1>3, <1>4, KindOf DEF Lasting, GKind, Roles
<1> QED
  BY <1>2, <1>5 DEF Doomed, Broken

LEMMA CleanStill ==
  ASSUME TypeOK, StageInv, FreshInv, CleanInv, Capture \/ UNCHANGED vars
  PROVE  CleanInv'
<1>1. /\ UNCHANGED <<conf, mod, cuda, pc, layer, slot, long, story>>
      /\ graph' = graph \/ Capture
  BY DEF Capture, vars, model, host
<1>2. /\ Longs' = Longs /\ (Second' <=> Second)
      /\ \A n : DoomedBy(n)' <=> DoomedBy(n)
      /\ \A m : /\ Managed(m)' <=> Managed(m)
                /\ PKind(m)' = PKind(m) /\ GKind(m)' = GKind(m)
                /\ Rejects(m)' <=> Rejects(m)
  BY <1>1, SameFacts
<1>3. \A m : /\ Gen(m)' = Gen(m) /\ Pre(m)' = Pre(m)
             /\ (GBack(m)' <=> GBack(m)) /\ (PSpent(m)' <=> PSpent(m))
             /\ (PIn(m)' <=> PIn(m))
  BY <1>1, SameParts
<1>4. (AtRest' <=> AtRest) /\ \A m : Passed(m)' <=> Passed(m)
  BY <1>1 DEF AtRest, Passed
<1>5. GenInv'
  BY <1>1, <1>2, <1>3, <1>4 DEF CleanInv, GenInv
<1>6. PreInv'
  BY <1>1, <1>2, <1>3, <1>4 DEF CleanInv, PreInv, Old, In, Spent, POld
<1>7. RanInv'
  BY <1>1, <1>2, <1>4 DEF CleanInv, RanInv, Ran, Fine
<1>8. PlaceInv'
  BY <1>1, <1>4 DEF CleanInv, PlaceInv
<1>9. graph' # Broken'
  <2>1. CASE graph' = graph
    BY <2>1 DEF CleanInv, Broken
  <2>2. CASE Capture
    <3>1. graph' = [m \in Modules |-> Tensors(m)]
          /\ \A m \in Modules : Tensors(m) # 0
      BY <2>2 DEF Capture, Runs
    <3>2. graph' # Broken
      BY <3>1, FirstManaged DEF Broken
    <3> QED
      BY <3>2 DEF Broken
  <2> QED
    BY <1>1, <2>1, <2>2
<1>10. Over' = Over /\ pc' # "exited"
  BY <1>1 DEF Over, CleanInv
<1> QED
  BY <1>2, <1>5, <1>6, <1>7, <1>8, <1>9, <1>10 DEF CleanInv

-----------------------------------------------------------------------------
(* What was foretold *)

LEMMA ForetoldStep ==
  ASSUME TypeOK, HonestInv, StageInv, StageInv', UnmanagedInv, FreshInv,
         ForetoldInv, [Next]_vars
  PROVE  ForetoldInv'
<1>1. StoryInv
  BY DEF ForetoldInv
<1>2. ASSUME NEW kind \in {"long", "short"}, Forward(kind) PROVE ForetoldInv'
  <2>1. failed' = failed /\ oom' = oom /\ conf' = conf /\ pc = "idle"
    BY <1>2 DEF Forward
  <2>2. StoryInv'
    <3>1. /\ Len(story) \in Nat /\ Len(story') = Len(story) + 1
          /\ Longs' = Longs \cup (IF kind = "long" THEN {Len(story) + 1} ELSE {})
          /\ Longs \subseteq 1 .. Len(story) /\ long' = (kind = "long")
      BY <1>2, NewForward, LongsOf DEF Forward
    <3>2. PICK n \in Nat : n = Len(story)
      BY <3>1
    <3>3. n + 1 > 0 /\ n + 1 \notin Longs
      BY <3>1, <3>2
    <3> QED
      BY <3>1, <3>2, <3>3 DEF StoryInv
  <2>3. failed /\ ~oom => Doomed' /\ conf.server
    BY <1>2, <2>1, DoomStays DEF ForetoldInv
  <2>4. ~failed /\ ~oom => CleanInv'
    BY <1>2, CleanForward DEF ForetoldInv
  <2> QED
    BY <2>1, <2>2, <2>3, <2>4 DEF ForetoldInv
(* Every other step leaves the prompts alone. *)
<1>3. ASSUME UNCHANGED <<conf, story, long>>,
             \/ graph' = graph
             \/ Capture /\ ~failed'
             \/ CaptureFails /\ graph' = Broken,
             pc' \in Places => pc \in Places,
             pc = "exited" => pc' = "exited",
             failed' /\ ~oom' /\ ~failed =>
               Doomed' /\ (conf.server \/ pc' = "exited"),
             ~oom' => ~oom, failed => failed',
             ~failed' /\ ~oom' => CleanInv'
      PROVE  ForetoldInv'
  <2>1. Longs' = Longs /\ StoryInv'
    BY <1>1, <1>3 DEF StoryInv, Longs
  <2>2. Doomed => Doomed' \/ (Capture /\ ~failed')
    <3>1. Broken' = Broken
      BY DEF Broken
    <3>2. CASE graph' = graph \/ graph' = Broken
      BY <1>3, <2>1, <3>1, <3>2 DEF Doomed, HasExperts
    <3> QED
      BY <1>3, <3>2
  <2> QED
    BY <1>3, <2>1, <2>2 DEF ForetoldInv
<1>4. CASE Skip \/ Unload \/ Load \/ Compute
  <2>1. /\ UNCHANGED <<conf, story, graph, failed, oom>> /\ Advance
        /\ pc \in Places /\ long' = long
    BY <1>4 DEF Skip, Unload, Load, Compute, Advance, Places
  <2>2. CleanInv => CleanInv'
    <3>1. CASE pc = "compute"
      <4>1. Skip \/ Compute
        BY <1>4, <3>1 DEF Unload, Load
      <4> QED
        BY <1>1, <3>1, <4>1, CleanLong, CleanShort
    <3>2. CASE pc # "compute"
      <4>1. (Skip \/ Unload \/ Load) /\ pc \in LongPlaces
        BY <1>4, <2>1, <3>2 DEF Compute, Places, LongPlaces
      <4> QED
        BY <1>1, <4>1, CleanSwitch
    <3> QED
      BY <3>1, <3>2
  <2>3. pc # "exited"
    BY <2>1 DEF Places
  <2> QED
    BY <1>3, <2>1, <2>2, <2>3 DEF ForetoldInv
<1>5. CASE LoadFails \/ ComputeFails
  <2>1. /\ UNCHANGED <<conf, story, graph, oom>> /\ failed' /\ pc \in Places
        /\ pc' \notin Places /\ long' = long
        /\ conf.server \/ pc' = "exited"
    BY <1>5 DEF LoadFails, ComputeFails, Raise, Places
  <2>2. CleanInv => Doomed
    BY <1>1, <1>5, LoadDoomed, ComputeDoomed
  <2>3. Doomed => Doomed'
    BY <2>1 DEF Doomed, Longs, Broken, HasExperts
  <2>4. pc # "exited"
    BY <2>1 DEF Places
  <2> QED
    BY <1>3, <2>1, <2>2, <2>3, <2>4 DEF ForetoldInv
<1>6. CASE OutOfMemory
  <2>1. /\ UNCHANGED <<conf, story, graph, failed>> /\ oom' /\ long' = long
        /\ pc' \notin Places /\ pc \in Places
    BY <1>6 DEF OutOfMemory, Raise, Places
  <2>2. pc # "exited"
    BY <2>1 DEF Places
  <2> QED
    BY <1>1, <2>1 DEF ForetoldInv, StoryInv
<1>7. CASE Capture \/ UNCHANGED vars
  <2>1. /\ UNCHANGED <<conf, story, failed, oom, pc, long>>
        /\ graph' = graph \/ (Capture /\ graph = <<>>)
    BY <1>7 DEF Capture, Captures, vars, host
  <2>2. CleanInv => CleanInv'
    BY <1>7, CleanStill
  <2>3. Doomed => Doomed'
    <3>1. <<>> # Broken
      BY NotBroken
    <3>2. graph = Broken => graph' = Broken'
      BY <2>1, <3>1 DEF Broken
    <3> QED
      BY <2>1, <3>2 DEF Doomed, Longs, HasExperts
  <2>4. StoryInv'
    BY <1>1, <2>1 DEF StoryInv, Longs
  <2> QED
    BY <2>1, <2>2, <2>3, <2>4 DEF ForetoldInv
<1>8. CASE CaptureFails
  <2>1. /\ UNCHANGED <<conf, story, oom, long>> /\ failed' /\ graph' = Broken
        /\ pc' \notin Places /\ pc = "idle" /\ (conf.server \/ pc' = "exited")
    BY <1>8 DEF CaptureFails, Captures, Raise, Places
  <2>2. CleanInv => Doomed'
    BY <1>1, <1>8, CaptureDoomed
  <2> QED
    BY <1>3, <1>8, <2>1, <2>2 DEF ForetoldInv
<1>9. CASE ReplayFails
  <2>1. /\ UNCHANGED <<conf, story, oom, long, graph>> /\ failed' /\ graph = Broken
        /\ pc' \notin Places /\ pc = "idle" /\ (conf.server \/ pc' = "exited")
    BY <1>9 DEF ReplayFails, Raise, Places
  <2>2. ~CleanInv
    BY <2>1 DEF CleanInv
  <2> QED
    BY <1>3, <2>1, <2>2 DEF ForetoldInv
<1> QED
  BY <1>2, <1>4, <1>5, <1>6, <1>7, <1>8, <1>9 DEF Next

LEMMA ForetoldInit == Init => ForetoldInv
<1> SUFFICES ASSUME Init PROVE ForetoldInv
  OBVIOUS
<1>1. TypeOK /\ StageInv /\ FreshInv
  BY TypeInit, StageInit, GraphInit
<1>2. /\ pc = "idle" /\ story = <<>> /\ graph = <<>> /\ cuda = Layers
      /\ ~failed /\ ~oom /\ layer = 0
  BY DEF Init
<1>3. Longs = {} /\ Len(story) = 0 /\ DOMAIN story = {}
  BY <1>2 DEF Longs
<1>4. AtRest /\ pc \notin Places
  BY <1>2 DEF AtRest, Places
<1>5. graph # Broken
  BY <1>2, NotBroken
<1>6. ~DoomedBy(Over)
  <2>1. Over = 0
    BY <1>3, <1>4 DEF Over
  <2> QED
    BY <1>3, <2>1 DEF DoomedBy
<1>7. ASSUME NEW m \in Modules
      PROVE  /\ ~Pre(m).loaded
             /\ Gen(m) = Loaded(GKind(m), NoTensors)
  BY DEF Init, Pre, Gen, GKind, NoTensors
<1>8. ASSUME NEW m \in Modules
      PROVE  /\ GKind(m) \in Lasting => Gen(m).loaded
             /\ Gen(m).tensors # 0
  <2>1. NoTensors \in Operator /\ Honest(GKind(m), NoTensors)
    BY LayerwisePrefillAssumption
       DEF NoTensors, Operator, Honest, LayerwisePrefillAssumption
  <2>2. GKind(m) \in Lasting \cup ReloadableKinds
    BY <1>1, KindOf DEF GKind, Roles
  <2>3. CASE GKind(m) \in Lasting
    BY <1>1, <1>7, <2>1, <2>3, LoadedLasting DEF NoTensors
  <2>4. CASE GKind(m) \in ReloadableKinds
    <3>1. GKind(m) \notin Lasting
      BY <2>4 DEF Lasting, KeepsFlag, ReloadableKinds
    <3> QED
      BY <1>1, <1>7, <2>1, <2>4, <3>1, LoadedOperator,
         LayerwisePrefillAssumption DEF TypeOK
  <2> QED
    BY <2>2, <2>3, <2>4
<1>9. GenInv
  BY <1>2, <1>3, <1>8 DEF GenInv
<1>10. PreInv
  BY <1>2, <1>3, <1>4, <1>7 DEF PreInv, POld, In, Spent
<1>11. RanInv
  BY <1>2 DEF RanInv, Ran
<1>12. PlaceInv
  BY <1>2 DEF PlaceInv
<1>13. StoryInv
  BY <1>4 DEF StoryInv
<1> QED
  BY <1>2, <1>5, <1>6, <1>9, <1>10, <1>11, <1>12, <1>13
     DEF ForetoldInv, CleanInv

(* Unless memory ran out, the operators and the lengths of the prompts     *)
(* decide whether a forward has raised, whatever the order of the prompts  *)
(* and the state in which the forward that raised left the layers.         *)
THEOREM FailuresForetold == Spec => []FailureForetold
<1> DEFINE Inv == GraphInductive /\ ForetoldInv
<1>1. Init => Inv
  BY TypeInit, StageInit, GraphInit, ForetoldInit
     DEF GraphInductive, StageInductive
<1>2. Inv /\ [Next]_vars => Inv'
  <2> SUFFICES ASSUME Inv, [Next]_vars PROVE Inv'
    OBVIOUS
  <2>1. TypeOK' /\ HonestInv' /\ UnmanagedInv' /\ StageInv'
    BY TypeStep, ManagedStep, StageStep DEF GraphInductive, StageInductive
  <2>2. FreshInv' /\ GraphInv'
    BY FreshStep, GraphStep DEF GraphInductive, StageInductive
  <2>3. ForetoldInv'
    BY <2>1, ForetoldStep DEF GraphInductive, StageInductive
  <2> QED
    BY <2>1, <2>2, <2>3 DEF GraphInductive, StageInductive
<1>3. Inv => FailureForetold
  <2> SUFFICES ASSUME Inv, pc \in {"idle", "exited"}, ~oom
               PROVE  failed <=> Doomed
    BY DEF FailureForetold
  <2>1. failed => Doomed
    BY DEF ForetoldInv
  <2>2. ASSUME ~failed PROVE ~Doomed
    <3>1. CleanInv
      BY <2>2 DEF ForetoldInv
    <3>2. Over = Len(story)
      BY DEF Over, Places
    <3> QED
      BY <3>1, <3>2, DoomedIs DEF CleanInv, GraphInductive, StageInductive
  <2> QED
    BY <2>1, <2>2
<1> HIDE DEF Inv
<1> QED
  BY <1>1, <1>2, <1>3, PTL DEF Spec
=============================================================================
