---------------------------- MODULE HybridSchedule ----------------------------
(***************************************************************************)
(* How one decode step of KExpertsMarlin.forward (operators/experts.py)    *)
(* divides the experts of a token between the GPU and the CPU:             *)
(* get_expert_place, calc_experts and the greedy loop of HSS, one action   *)
(* for each round of the loop.                                             *)
(*                                                                         *)
(* HSS runs only to generate, where id_counts is 1 for every expert, so    *)
(* that its two sorts (which are stable) leave the order as it is.  Times  *)
(* are integers, in 1/100000 of the code's unit of time.                   *)
(***************************************************************************)
EXTENDS Integers, FiniteSets, SequencesExt

CONSTANTS LayerExperts,  \* the experts of the layer
          MaxTopK        \* bound: how many a token selects

ASSUME HybridScheduleAssumption == MaxTopK \in Nat

VARIABLES
  expert_ids,            \* the experts selected, as the router orders them
  load_experts,          \* those in GPU slots, in that order
  unload_experts,        \* and the others
  sorted_experts,        \* experts to schedule: hits, then misses
  cpu_queue, gpu_queue,
  original_cpu_queue, original_gpu_queue,
  cpu_total_time, gpu_total_time, move_total_time

inputs == <<expert_ids, load_experts, unload_experts>>
queues == <<cpu_queue, gpu_queue, original_cpu_queue, original_gpu_queue>>
times == <<cpu_total_time, gpu_total_time, move_total_time>>
hssVars == <<inputs, sorted_experts, queues, times>>

(* list.index; positions count from 1 here. *)
IndexIn(s, e) == CHOOSE k \in DOMAIN s : s[k] = e

MaxOf(a, b) == IF a >= b THEN a ELSE b

-----------------------------------------------------------------------------
(* Faulty variants of operators below, to show what each property detects. *)
PopFirst == Tail(sorted_experts)
GreedyOnTotals == gpu_total_time <= cpu_total_time

-----------------------------------------------------------------------------
(* get_expert_place, and the beginning of HSS. *)

(* A list of those that are in S, by one of the branches of its loop. *)
Those(s, S) ==
  LET kept[n \in 0 .. Len(s)] ==
        IF n = 0 THEN <<>>
        ELSE IF s[n] \in S THEN Append(kept[n - 1], s[n]) ELSE kept[n - 1]
  IN  kept[Len(s)]

Selections(k) == Injection(1 .. k, LayerExperts)

AllExperts == load_experts \o unload_experts

HssInit ==
  /\ \E k \in 1 .. MaxTopK : expert_ids \in Selections(k)
  /\ \E gpu_slots \in SUBSET LayerExperts :
       /\ load_experts = Those(expert_ids, gpu_slots)
       /\ unload_experts = Those(expert_ids, LayerExperts \ gpu_slots)
  /\ sorted_experts = AllExperts
  /\ cpu_queue = <<>> /\ gpu_queue = <<>>
  /\ original_cpu_queue = <<>> /\ original_gpu_queue = <<>>
  /\ cpu_total_time = 0 /\ gpu_total_time = 0 /\ move_total_time = 0

(* model_cpu_time with its intercept, model_gpu_time, model_move_time *)
CpuCost == 100000
CpuIntercept == 79000
GpuCost == 50000
MoveCost == 41791

first_idx == Head(sorted_experts)
last_idx == Last(sorted_experts)

IsMove == first_idx \in ToSet(unload_experts)

CpuTime == CpuCost + (IF cpu_queue = <<>> THEN CpuIntercept ELSE 0)

(* A miss is computed when its weights have come, one after another. *)
GpuTime ==
  GpuCost + IF IsMove THEN MaxOf(0, move_total_time + MoveCost - gpu_total_time) ELSE 0

GpuIsEarlier == gpu_total_time + GpuTime <= cpu_total_time + CpuTime

Original(e) == IF e \in ToSet(load_experts) THEN IndexIn(load_experts, e)
                                            ELSE IndexIn(unload_experts, e)

PopLast == Front(sorted_experts)

(* The GPU takes experts from the front, ... *)
ToGpu ==
  /\ sorted_experts # <<>> /\ GpuIsEarlier
  /\ move_total_time' = move_total_time + IF IsMove THEN MoveCost ELSE 0
  /\ gpu_total_time' = gpu_total_time + GpuTime
  /\ gpu_queue' = Append(gpu_queue, first_idx)
  /\ original_gpu_queue' = Append(original_gpu_queue, Original(first_idx))
  /\ sorted_experts' = Tail(sorted_experts)
  /\ UNCHANGED <<inputs, cpu_queue, original_cpu_queue, cpu_total_time>>

(* ... the CPU from the back. *)
ToCpu ==
  /\ sorted_experts # <<>> /\ ~GpuIsEarlier
  /\ cpu_total_time' = cpu_total_time + CpuTime
  /\ cpu_queue' = Append(cpu_queue, last_idx)
  /\ original_cpu_queue' = Append(original_cpu_queue, Original(last_idx))
  /\ sorted_experts' = PopLast
  /\ UNCHANGED <<inputs, gpu_queue, original_gpu_queue, gpu_total_time, move_total_time>>

HssNext == ToGpu \/ ToCpu

HssSpec == HssInit /\ [][HssNext]_hssVars

-----------------------------------------------------------------------------
(* Properties *)

(* No selected expert is lost, or computed twice: each is in one place.    *)
EachOnce ==
  LET all == cpu_queue \o gpu_queue \o sorted_experts IN
    /\ Len(all) = Len(expert_ids)
    /\ ToSet(all) = ToSet(expert_ids)

(* The time all experts take on the CPU, and on the GPU. *)
AllCpu == CpuIntercept + CpuCost * Len(expert_ids)

(* On the GPU the k-th miss can begin when k weights have come, and then   *)
(* the misses after it follow.                                             *)
AllGpu ==
  LET h == Len(load_experts)
      m == Len(unload_experts)
      ends == {MaxOf(h * GpuCost, k * MoveCost) + (m - k + 1) * GpuCost : k \in 1 .. m}
  IN  IF m = 0 THEN h * GpuCost ELSE CHOOSE t \in ends : \A u \in ends : u <= t

(* The balance the strategy is for: dividing the work is never slower than *)
(* leaving all of it to the faster of the two.                             *)
NeverSlowerThanOne ==
  sorted_experts = <<>> =>
    LET makespan == MaxOf(cpu_total_time, gpu_total_time)
    IN  makespan <= AllCpu /\ makespan <= AllGpu

(* forward sends the CPU the routing weights at the positions HSS returns: *)
(* each is the position of the expert it goes with.                        *)
WeightsMatch ==
  \A k \in DOMAIN cpu_queue : expert_ids[original_cpu_queue[k]] = cpu_queue[k]
=============================================================================
