----------------------------- MODULE ExpertCache -----------------------------
(***************************************************************************)
(* KExpertsCache of operators/experts.py, the GPU cache of expert weights, *)
(* as KExpertsMarlin.forward drives it: the index the host keeps, and the  *)
(* copies and kernels that CUDA streams run behind its back.               *)
(*                                                                         *)
(* The host is one Python thread that runs the layers in turn, a prefill   *)
(* or a decode pass at a time; it only enqueues work.  copy_stream and     *)
(* prefetch_stream carry the copies of weights into slots, the compute     *)
(* stream the kernels that use them.  A stream is a FIFO; streams are      *)
(* ordered only by events, and the host waits for a stream only where it   *)
(* reads a result of it.  An expert's gate, up and down matrices, copied   *)
(* and waited for one after the other, are one item here.                  *)
(*                                                                         *)
(* One device; every layer has LoadSize slots, as local_chat configures.   *)
(* Priority scores are abstracted: any loaded expert may have the lowest   *)
(* score, any expert the highest.                                          *)
(***************************************************************************)
EXTENDS Integers, FiniteSets, Sequences

CONSTANTS L,              \* config.num_hidden_layers, each with experts
          n,              \* expert_num_per_layer
          LoadSize,       \* load_size[layer], the same for all layers
          PrefetchSize,   \* prefetch_size
          TopK,           \* experts selected for a token
          Kinds,          \* the passes the model makes: "prefill", "decode"
          MaxPasses       \* bound: passes in one behaviour

ASSUME ExpertCacheAssumption ==
  /\ L \in Nat \ {0} /\ n \in Nat \ {0} /\ MaxPasses \in Nat
  /\ LoadSize \in 1 .. n
  /\ PrefetchSize \in 0 .. n
  /\ TopK \in 1 .. n
  /\ Kinds \subseteq {"prefill", "decode"}

VARIABLES
  loaded,         \* loaded_experts_idx[layer]: the slot of each expert, or None
  free,           \* free_memory_slots[layer], as a set
  buffer_slots,   \* the expert each prefill buffer is for, or NoUid
  copies,         \* the copies enqueued on each stream and not executed
  memory,         \* the expert whose weights each place of VRAM holds
  prefetch_lock,  \* events: how many copies of a stream are to execute yet
  loading_lock,   \* the same, for each layer and expert
  compute,        \* the kernels enqueued on the compute stream
  barrier,        \* the events the compute stream waits for before them
  pc, layer, kind, passes,   \* where the host is
  todo,           \* experts to load, look up or prefetch: a sequence of sets
  views           \* get_experts_weights: the views handed out, in order

index == <<loaded, free, buffer_slots>>
gpu == <<memory, compute>>
host == <<pc, layer, kind, passes>>
vars == <<index, copies, gpu, prefetch_lock, loading_lock, barrier, host, todo, views>>

Layers == 0 .. L - 1
Experts == 0 .. n - 1
Streams == {"copy", "prefetch"}
None == -1
NoUid == <<>>

(* A faulty variant of Slots, to show what TypeOK detects. *)
OverlongSlots(l) == l * LoadSize .. (l + 1) * LoadSize

(* initialize_free_memory_slots: the slots of a layer, and their layer. *)
Slots(l) == l * LoadSize .. (l + 1) * LoadSize - 1
slots2layer(slot) == slot \div LoadSize

Places == {"slot"} \X (0 .. L * LoadSize - 1) \cup {"buffer"} \X Experts

Loaded(l) == {e \in Experts : loaded[l][e] # None}

(* The weights of expert u, to be put into, or used at, a place. *)
Item(place, u) == [at |-> place, uid |-> u]

-----------------------------------------------------------------------------
(* Faulty variants of operators below, to show what each property detects. *)
LostSlot(slot) == free
StaleReplaced(l, victim, e, slot) == [loaded EXCEPT ![l][e] = slot]
NoWait == [s \in Streams |-> 0]
NoLoadingWait(e) == [s \in Streams |-> 0]

-----------------------------------------------------------------------------
(* CUDA *)

(* An event completes when the copies before it on its stream have. *)
Recorded(s) == [t \in Streams |-> IF t = s THEN Len(copies[s]) + 1 ELSE 0]
Ticked(left, s) == [left EXCEPT ![s] = IF @ > 0 THEN @ - 1 ELSE 0]
Complete(left) == \A s \in Streams : left[s] = 0

Later(a, b) == [s \in Streams |-> IF a[s] >= b[s] THEN a[s] ELSE b[s]]

Issue(s, place, u) == copies' = [copies EXCEPT ![s] = Append(@, Item(place, u))]

(* A stream executes its next copy. *)
ExecuteCopy(s) ==
  /\ copies[s] # <<>>
  /\ memory' = [memory EXCEPT ![Head(copies[s]).at] = Head(copies[s]).uid]
  /\ copies' = [copies EXCEPT ![s] = Tail(@)]
  /\ prefetch_lock' = [i \in Experts |-> Ticked(prefetch_lock[i], s)]
  /\ loading_lock' = [l \in Layers |-> [e \in Experts |-> Ticked(loading_lock[l][e], s)]]
  /\ barrier' = Ticked(barrier, s)
  /\ compute' = [k \in DOMAIN compute |->
                   [compute[k] EXCEPT !.after = Ticked(compute[k].after, s)]]
  /\ UNCHANGED <<index, host, todo, views>>

Runnable == compute # <<>> /\ Complete(Head(compute).after)

(* The compute stream executes its next kernel. *)
ExecuteKernel ==
  /\ Runnable
  /\ compute' = Tail(compute)
  /\ UNCHANGED <<index, copies, memory, prefetch_lock, loading_lock, barrier,
                 host, todo, views>>

(* The host has waited for the compute stream: it read a result of it. *)
Drained == compute = <<>> /\ Complete(barrier)

-----------------------------------------------------------------------------
(* The index *)

BufferFree(i) == buffer_slots[i] = NoUid
FirstBuffer == CHOOSE i \in Experts : BufferFree(i) /\ \A j \in 0 .. i - 1 : ~BufferFree(j)
RoomInBuffer == \E i \in Experts : BufferFree(i)

(* load_expert_weights, prefill and no slot free: a buffer takes it. *)
LoadIntoBuffer(l, e) ==
  /\ free[l] = {} /\ RoomInBuffer
  /\ buffer_slots' = [buffer_slots EXCEPT ![FirstBuffer] = <<l, e>>]
  /\ Issue("copy", <<"buffer", FirstBuffer>>, <<l, e>>)
  /\ UNCHANGED <<loaded, free>>

(* load_expert_weights into a free slot; which one does not matter. *)
LoadIntoSlot(l, e, s) ==
  /\ \E slot \in free[l] :
       /\ free' = [free EXCEPT ![l] = @ \ {slot}]
       /\ loaded' = [loaded EXCEPT ![l][e] = slot]
       /\ Issue(s, <<"slot", slot>>, <<l, e>>)
  /\ UNCHANGED buffer_slots

(* unload_expert_weights: where the freed slot goes, and the index without *)
(* the victim.                                                             *)
FreeWith(slot) == [free EXCEPT ![slots2layer(slot)] = @ \cup {slot}]
Replaced(l, victim, e, slot) == [loaded EXCEPT ![l][victim] = None, ![l][e] = slot]

(* load_expert_weights, no slot free: the loaded expert with the lowest    *)
(* score is evicted; reading which one waits for the compute stream.       *)
LoadEvicting(l, e, s) ==
  /\ free[l] = {} /\ Drained
  /\ \E victim \in Loaded(l) :
       LET freed == FreeWith(loaded[l][victim])
           owner == slots2layer(loaded[l][victim])
       IN  \E slot \in freed[owner] :
             /\ free' = [freed EXCEPT ![owner] = @ \ {slot}]
             /\ loaded' = Replaced(l, victim, e, slot)
             /\ Issue(s, <<"slot", slot>>, <<l, e>>)
  /\ UNCHANGED buffer_slots

LoadForDecode(l, e, s) == LoadIntoSlot(l, e, s) \/ LoadEvicting(l, e, s)

LoadForPrefill(l, e) ==
  \/ LoadIntoBuffer(l, e)
  \/ LoadIntoSlot(l, e, "copy")
  \/ ~RoomInBuffer /\ LoadEvicting(l, e, "copy")

InBuffer(u) == \E i \in Experts : buffer_slots[i] = u
Found(l, e) == loaded[l][e] # None \/ InBuffer(<<l, e>>)

(* get_expert_weights: the place a view is of; a slot before a buffer. *)
PlaceOf(l, e) ==
  IF loaded[l][e] # None THEN <<"slot", loaded[l][e]>>
  ELSE <<"buffer", CHOOSE i \in Experts : /\ buffer_slots[i] = <<l, e>>
                                         /\ \A j \in 0 .. i - 1 : buffer_slots[j] # <<l, e>>>>

-----------------------------------------------------------------------------
(* The host *)

Smallest(S) == CHOOSE e \in S : \A f \in S : e <= f

Init ==
  /\ loaded = [l \in Layers |-> [e \in Experts |-> None]]
  /\ free = [l \in Layers |-> Slots(l)]
  /\ buffer_slots = [i \in Experts |-> NoUid]
  /\ copies = [s \in Streams |-> <<>>]
  /\ memory = [p \in Places |-> NoUid]
  /\ prefetch_lock = [i \in Experts |-> [s \in Streams |-> 0]]
  /\ loading_lock = [l \in Layers |-> [e \in Experts |-> [s \in Streams |-> 0]]]
  /\ compute = <<>>
  /\ barrier = [s \in Streams |-> 0]
  /\ pc = "loading" /\ layer = 0 /\ kind = "prefill" /\ passes = 0
  /\ todo = <<Experts>>
  /\ views = <<>>

(* KExpertsMarlin.load, load_weights_to_storage: the experts of a layer in *)
(* order, into slots as long as there are any.  Its events are dropped.    *)
Store ==
  /\ pc = "loading" /\ todo[1] # {}
  /\ LET e == Smallest(todo[1]) IN
       /\ \/ LoadIntoSlot(layer, e, "copy")
          \/ free[layer] = {} /\ UNCHANGED <<index, copies>>
       /\ todo' = <<todo[1] \ {e}>>
  /\ UNCHANGED <<gpu, prefetch_lock, loading_lock, barrier, host, views>>

NextLayerToLoad ==
  /\ pc = "loading" /\ todo[1] = {} /\ layer < L - 1
  /\ layer' = layer + 1
  /\ todo' = <<Experts>>
  /\ UNCHANGED <<index, copies, gpu, prefetch_lock, loading_lock, barrier,
                 pc, kind, passes, views>>

(* optimize_and_load_gguf ends with empty_cache, which frees device memory *)
(* and so waits for all streams.                                           *)
AllLoaded ==
  /\ pc = "loading" /\ todo[1] = {} /\ layer = L - 1
  /\ \A s \in Streams : copies[s] = <<>>
  /\ pc' = "idle"
  /\ layer' = L
  /\ UNCHANGED <<index, copies, gpu, prefetch_lock, loading_lock, barrier,
                 kind, passes, todo, views>>

(* prefill_and_generate: another pass through the layers.  A decode pass   *)
(* ended with a device synchronisation, prefill with reading its logits.   *)
BeginPass ==
  /\ pc = "idle" /\ layer = L /\ passes < MaxPasses
  /\ Drained
  /\ kind = "decode" => \A s \in Streams : copies[s] = <<>>
  /\ kind' \in Kinds
  /\ layer' = 0
  /\ passes' = passes + 1
  /\ UNCHANGED <<index, copies, gpu, prefetch_lock, loading_lock, barrier,
                 pc, todo, views>>

(* wait_prefetch: the compute stream waits for every prefetch_lock. *)
AfterPrefetch ==
  [s \in Streams |->
     LET left == {prefetch_lock[i][s] : i \in Experts}
     IN  CHOOSE m \in left : \A k \in left : k <= m]

(* KExpertsMarlin.forward: the experts selected are read (tolist waits for *)
(* the compute stream) and split.  In prefill the GPU computes them all.   *)
(* In decode HSS gives it a prefix of hits followed by misses, and the CPU *)
(* the rest.  get_experts_weights looks the hits up before the misses.     *)
Forward ==
  /\ pc = "idle" /\ layer < L
  /\ Drained
  /\ \E selected \in SUBSET Experts :
       LET hits == selected \cap Loaded(layer)
           misses == selected \ Loaded(layer)
       IN  \/ /\ kind = "prefill" /\ Cardinality(selected) >= TopK
              /\ todo' = <<hits, misses>>
           \/ /\ kind = "decode" /\ Cardinality(selected) = TopK
              /\ \/ \E some \in SUBSET hits : todo' = <<some, {}>>
                 \/ \E some \in SUBSET misses : todo' = <<hits, some>>
  /\ barrier' = AfterPrefetch
  /\ pc' = "lookup"
  /\ UNCHANGED <<index, copies, gpu, prefetch_lock, loading_lock,
                 layer, kind, passes, views>>

(* get_expert_weights for the next expert: its view, after a load if it is *)
(* neither in a slot nor in a buffer.                                      *)
Lookup(e) ==
  /\ pc = "lookup"
  /\ e \in IF todo[1] # {} THEN todo[1] ELSE todo[2]
  /\ \/ /\ Found(layer, e)
        /\ UNCHANGED <<index, copies, loading_lock>>
     \/ /\ ~Found(layer, e)
        /\ IF kind = "prefill" THEN LoadForPrefill(layer, e)
                               ELSE LoadForDecode(layer, e, "copy")
        /\ loading_lock' = [loading_lock EXCEPT ![layer][e] = Recorded("copy")]
  /\ UNCHANGED <<gpu, prefetch_lock, barrier, host>>
  /\ views' = Append(views, Item(PlaceOf(layer, e)', <<layer, e>>))
  /\ todo' = <<todo[1] \ {e}, todo[2] \ {e}>>

(* A decode step that used the GPU goes on to prefetch for the next layer: *)
(* the experts with the highest scores.                                    *)
EndLookups ==
  /\ pc = "lookup" /\ todo = <<{}, {}>>
  /\ IF kind = "decode" /\ views # <<>> /\ layer < L - 1
       THEN /\ pc' = "prefetch"
            /\ \E best \in SUBSET Experts :
                 Cardinality(best) = PrefetchSize /\ todo' = <<best>>
       ELSE pc' = "use" /\ todo' = <<>>
  /\ UNCHANGED <<index, copies, gpu, prefetch_lock, loading_lock, barrier,
                 layer, kind, passes, views>>

(* prefetch_expert, one round of its loop; reading the index of the expert *)
(* waits for the compute stream.                                           *)
Prefetch(e) ==
  /\ pc = "prefetch" /\ e \in todo[1]
  /\ Drained
  /\ LET idx == PrefetchSize - Cardinality(todo[1]) IN
       \/ /\ loaded[layer + 1][e] # None
          /\ UNCHANGED <<index, copies, prefetch_lock>>
       \/ /\ loaded[layer + 1][e] = None
          /\ LoadForDecode(layer + 1, e, "prefetch")
          /\ prefetch_lock' = [prefetch_lock EXCEPT ![idx] = Recorded("prefetch")]
  /\ todo' = <<todo[1] \ {e}>>
  /\ UNCHANGED <<gpu, loading_lock, barrier, host, views>>

EndPrefetch ==
  /\ pc = "prefetch" /\ todo[1] = {}
  /\ pc' = "use"
  /\ todo' = <<>>
  /\ UNCHANGED <<index, copies, gpu, prefetch_lock, loading_lock, barrier,
                 layer, kind, passes, views>>

LoadingWait(e) == loading_lock[layer][e]

(* The kernels of the next expert, after its loading_lock.  In decode the  *)
(* expert's position is looked up first, which waits for the last kernel.  *)
Use ==
  /\ pc = "use" /\ views # <<>>
  /\ kind = "decode" => Drained
  /\ LET view == Head(views) IN
       compute' = Append(compute, [at |-> view.at, uid |-> view.uid,
                                   after |-> Later(barrier, LoadingWait(view.uid[2]))])
  /\ views' = Tail(views)
  /\ UNCHANGED <<index, copies, memory, prefetch_lock, loading_lock, barrier,
                 host, todo>>

(* The end of forward; in prefill it resets the buffers, and then loads    *)
(* into them the experts of the layer after the next.                      *)
EndForward ==
  /\ pc = "use" /\ views = <<>>
  /\ IF kind = "prefill"
       THEN /\ buffer_slots' = [i \in Experts |-> NoUid]
            /\ todo' = <<IF layer < L - 2 THEN Experts ELSE {}>>
            /\ pc' = "reset"
            /\ layer' = layer
       ELSE /\ layer' = layer + 1
            /\ pc' = "idle"
            /\ UNCHANGED <<buffer_slots, todo>>
  /\ UNCHANGED <<loaded, free, copies, gpu, prefetch_lock, loading_lock, barrier,
                 kind, passes, views>>

(* reset_buffer, one round of its loop: no test whether i is loaded. *)
Reload ==
  /\ pc = "reset" /\ todo[1] # {}
  /\ LET i == Smallest(todo[1]) IN
       /\ LoadForPrefill(layer + 2, i)
       /\ prefetch_lock' = [prefetch_lock EXCEPT ![i] = Recorded("copy")]
       /\ todo' = <<todo[1] \ {i}>>
  /\ UNCHANGED <<gpu, loading_lock, barrier, host, views>>

EndReset ==
  /\ pc = "reset" /\ todo[1] = {}
  /\ pc' = "idle"
  /\ layer' = layer + 1
  /\ todo' = <<>>
  /\ UNCHANGED <<index, copies, gpu, prefetch_lock, loading_lock, barrier,
                 kind, passes, views>>

-----------------------------------------------------------------------------
Work ==
  \/ Store \/ NextLayerToLoad \/ AllLoaded
  \/ Forward \/ EndLookups \/ EndPrefetch \/ Use \/ EndForward
  \/ Reload \/ EndReset
  \/ \E e \in Experts : Lookup(e) \/ Prefetch(e)

Next ==
  \/ BeginPass \/ Work
  \/ ExecuteKernel
  \/ \E s \in Streams : ExecuteCopy(s)

(* The host goes on with a pass it began, and every stream makes progress. *)
Fairness ==
  /\ WF_vars(Work)
  /\ WF_vars(ExecuteKernel)
  /\ \A s \in Streams : WF_vars(ExecuteCopy(s))

Spec == Init /\ [][Next]_vars

FairSpec == Spec /\ Fairness

-----------------------------------------------------------------------------
(* Properties *)

Uids == Layers \X Experts
Waits == [Streams -> Nat]

(* Type invariant. *)
TypeOK ==
  /\ loaded \in [Layers -> [Experts -> 0 .. L * LoadSize - 1 \cup {None}]]
  /\ free \in [Layers -> SUBSET (0 .. L * LoadSize - 1)]
  /\ buffer_slots \in [Experts -> Uids \cup {NoUid}]
  /\ copies \in [Streams -> Seq([at : Places, uid : Uids])]
  /\ memory \in [Places -> Uids \cup {NoUid}]
  /\ prefetch_lock \in [Experts -> Waits]
  /\ loading_lock \in [Layers -> [Experts -> Waits]]
  /\ compute \in Seq([at : Places, uid : Uids, after : Waits])
  /\ barrier \in Waits
  /\ pc \in {"loading", "idle", "lookup", "prefetch", "use", "reset"}
  /\ layer \in 0 .. L /\ kind \in {"prefill", "decode"} /\ passes \in Nat
  /\ todo \in Seq(SUBSET Experts)
  /\ views \in Seq([at : Places, uid : Uids])

(* The slots of a layer are its free slots and those of its loaded         *)
(* experts, each once: no slot leaks, none is given to two experts, and    *)
(* the free list drives no layer into the slots of another.                *)
SlotPartition ==
  \A l \in Layers :
    /\ free[l] \subseteq Slots(l)
    /\ {loaded[l][e] : e \in Loaded(l)} = Slots(l) \ free[l]
    /\ \A e, f \in Loaded(l) : loaded[l][e] = loaded[l][f] => e = f

Pending(s, place) == {k \in DOMAIN copies[s] : copies[s][k].at = place}

(* Once all copies to it have executed, the place holds u. *)
WillHold(place, u) ==
  \/ /\ \A s \in Streams : Pending(s, place) = {}
     /\ memory[place] = u
  \/ \E s \in Streams :
       /\ Pending(s, place) # {}
       /\ \A t \in Streams \ {s} : Pending(t, place) = {}
       /\ \A k \in Pending(s, place) :
            (\A j \in Pending(s, place) : j <= k) => copies[s][k].uid = u

(* "current loaded experts index and position in memory": what the index   *)
(* says of a slot is what the copies make of it, in any order in which the *)
(* two streams run them.                                                   *)
IndexTruthful ==
  \A l \in Layers : \A e \in Loaded(l) : WillHold(<<"slot", loaded[l][e]>>, <<l, e>>)

(* The index still gives this place to this expert. *)
Current(at, u) ==
  IF at[1] = "slot" THEN loaded[u[1]][u[2]] = at[2] ELSE buffer_slots[at[2]] = u

(* A kernel that may run and has its place taken by another expert.  In    *)
(* decode, where the host waits for the last kernel before it looks the    *)
(* next position up, only an expert of the same forward can have taken it: *)
(* a miss looked up later, whose kernels are still to be enqueued.  In     *)
(* prefill the host is ahead of the kernels, and anything may have.        *)
Displaced(k) ==
  /\ ~Current(k.at, k.uid)
  /\ kind = "decode" => \E i \in DOMAIN views : views[i].at = k.at

(* A kernel runs on complete weights: the events it waits for cover every  *)
(* copy of its expert, by a miss, a prefetch or a buffer refill.  The one  *)
(* exception is a displaced kernel, which the code does not protect        *)
(* (WeightsIntact); a prefetch for the next layer, an earlier forward or   *)
(* an expert of another layer displaces no kernel of a decode pass.        *)
CurrentWeights ==
  Runnable => LET k == Head(compute) IN memory[k.at] = k.uid \/ Displaced(k)

(* Every kernel runs on the weights of the expert it was enqueued for. *)
WeightsIntact == Runnable => memory[Head(compute).at] = Head(compute).uid

(* A forward comes to its end, and the stream drains: no load finds the    *)
(* free list of its layer empty after an eviction, which would be pop(0)   *)
(* of an empty list in the middle of a layer.                              *)
ForwardReturns == pc = "lookup" ~> pc = "idle" /\ Drained
=============================================================================
