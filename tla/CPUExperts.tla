----------------------------- MODULE CPUExperts -----------------------------
(***************************************************************************)
(* The experts computed by the CPU.  Python (KExpertsCPU and               *)
(* KExpertsMarlin.forward in operators/experts.py, KLinearCPUInfer in      *)
(* operators/linear.py) hands tasks to CPUInfer, directly or through the   *)
(* CUDA stream; its single worker runs the operators of                    *)
(* ktransformers_ext/operators/llamafile, whose scratch memory is one      *)
(* SharedMemBuffer.  The worker is the SerialExecutor that TaskQueue       *)
(* implements, and a job of an operator is what WorkStealing computes.     *)
(*                                                                         *)
(* A tensor is the name of the pass and the layer it was computed for; a   *)
(* contribution is an expert applied to a token with a routing weight.     *)
(***************************************************************************)
EXTENDS Integers, FiniteSets, SequencesExt

CONSTANTS
  NLayers,       \* layers of experts; the operator NLayers is the lm_head
  NumExperts,
  TopK,          \* num_experts_per_tok
  GroupMin,      \* group_min_len
  GroupMax,      \* group_max_len
  LinearWidth,   \* rows of scratch memory lm_head needs per token
  Routings,      \* the sequences of experts the router may give a token
  MaxPrompt,     \* bound on the tokens of a prefill
  MaxPasses,     \* bound on the passes of the model
  Configs        \* records [router, graph]

ASSUME CPUExpertsAssumption ==
  /\ {NLayers, NumExperts, TopK, GroupMin, LinearWidth, MaxPasses}
       \subseteq Nat \ {0}
  /\ TopK <= NumExperts /\ GroupMin <= GroupMax
  /\ {GroupMax, MaxPrompt} \subseteq Nat \ {0, 1}
  /\ Routings \subseteq Injection(1 .. TopK, 0 .. NumExperts - 1)
  /\ \A c \in Configs : c.router \in {"host", "stream"} /\ c.graph \in BOOLEAN
                        /\ (c.graph => c.router = "stream")

Experts == 0 .. NumExperts - 1
Layers == 0 .. NLayers - 1
Ops == 0 .. NLayers
LmHead == NLayers
Objects == 1 .. NLayers + 2   \* addresses: one more than operators

VARIABLES
  conf,      \* router: where the routed ids are when experts are handed over;
             \* graph: decoding replays a captured CUDA graph
  buffer,    \* buffer_ (how often it was allocated) and size_
  hist_requests,  \* by live object: its requests and the pointers they got
  op,        \* the object Python holds for each operator, 0 if none
  captured,  \* the objects a captured graph names, <<>> if none
  pinned,    \* input_tensor_cpu .. output_cpu of KExpertsCPU
  stream,    \* operations enqueued on the CUDA stream
  tasks,     \* tasks of the CPU queue
  running,   \* the task the worker executes, <<>> or one
  crashed,   \* a division by zero ended the process
  pc,        \* load, idle, or what Python executes: decode, prefill, reload
  sync,      \* Python is in sync(), waiting for the CPU queue
  layer, pass,
  added      \* by layer: what the last decode pass added

vars == <<conf, buffer, hist_requests, op, captured, pinned, stream, tasks,
          running, crashed, pc, sync, layer, pass, added>>
memory == <<buffer, hist_requests, op>>

None == <<>>
QueueIdle == running = <<>> /\ tasks = <<>>    \* what sync() waits for

-----------------------------------------------------------------------------
(* Faulty variants of operators below, to show what each property detects. *)
NotRearranged(hist, b) == hist
NeverWaits == TRUE
UpToGroupMin(rest) == rest <= GroupMin
NoOffset(g, e) == 0

-----------------------------------------------------------------------------
(* SharedMemBuffer: requests are sequences of sizes, in rows.              *)
Sums(request) ==
  LET sum[i \in 0 .. Len(request)] ==
        IF i = 0 THEN 0 ELSE sum[i - 1] + request[i]
  IN sum
SizeOf(request) == Sums(request)[Len(request)]
Offset(request, i) == Sums(request)[i - 1]

Arrange(request, b) ==
  [request |-> request,
   pointers |-> [i \in DOMAIN request |-> <<b.allocation, Offset(request, i)>>]]

Rearranged(hist, b) ==
  [o \in DOMAIN hist |->
     [g \in DOMAIN hist[o] |-> Arrange(hist[o][g].request, b)]]

(* alloc: a request that does not fit replaces the buffer. *)
Alloc(m, obj, request) ==
  LET grows == SizeOf(request) > m.buffer.size
      b == IF grows THEN [allocation |-> m.buffer.allocation + 1,
                          size |-> SizeOf(request)]
           ELSE m.buffer
      hist == IF grows THEN Rearranged(m.hist, b) ELSE m.hist
  IN [buffer |-> b,
      hist |-> [hist EXCEPT ![obj] = Append(@, Arrange(request, b))]]

(* dealloc *)
Dealloc(m, obj) == [m EXCEPT !.hist[obj] = <<>>]

(* The constructors: the requests of MOE for one token (s_) and for a      *)
(* group (m_), those of Linear.                                            *)
OneRequest == <<1>> \o [k \in 1 .. TopK |-> 1] \o <<1>>
ManyRequest == [i \in 1 .. GroupMax |-> 1] \o <<TopK * GroupMax>>
               \o [i \in 1 .. GroupMax |-> 1]
LinearRequest == <<GroupMax, GroupMax * LinearWidth>>

Live(hist) == {o \in Objects : hist[o] # <<>>}

(* self.moe = MOE(config): the new object is built before the old one, if  *)
(* there is one, is destroyed.                                             *)
Construct(l) ==
  LET obj == CHOOSE o \in Objects : o \notin Live(hist_requests)
      old == op[l]
      m == [buffer |-> buffer, hist |-> hist_requests]
      built == IF l = LmHead THEN Alloc(m, obj, LinearRequest)
               ELSE Alloc(Alloc(m, obj, OneRequest), obj, ManyRequest)
      n == IF old = 0 THEN built ELSE Dealloc(built, old)
  IN /\ buffer' = n.buffer
     /\ hist_requests' = n.hist
     /\ op' = [op EXCEPT ![l] = obj]

-----------------------------------------------------------------------------
(* MOE::forward.  A batch gives each token the sequence of its experts and *)
(* weights: size_per_token, expert_ids and weights of the code.            *)
Routes(g) == UNION {{i} \X DOMAIN g[i] : i \in DOMAIN g}
Id(g, r) == g[r[1]][r[2]].id

LocalNum(g, e) == Cardinality({r \in Routes(g) : Id(g, r) = e})
LocalOffset(g, e) == Cardinality({r \in Routes(g) : Id(g, r) < e})

Before(q, r) == q[1] < r[1] \/ (q[1] = r[1] /\ q[2] < r[2])
LocalPos(g, r) ==
  Cardinality({q \in Routes(g) : Id(g, q) = Id(g, r) /\ Before(q, r)})

(* The row of the scratch memory a token is copied to for one expert ...   *)
Row(g, r) == LocalOffset(g, Id(g, r)) + LocalPos(g, r)

(* ... and the expert whose matrices are applied to that row.              *)
ExpertOfRow(g, row) ==
  CHOOSE e \in Experts :
    row \in LocalOffset(g, e) .. LocalOffset(g, e) + LocalNum(g, e) - 1
TokenInRow(g, row) == (CHOOSE r \in Routes(g) : Row(g, r) = row)[1]

(* forward_many: the contributions to each token of a group that follows   *)
(* the first at tokens.                                                    *)
ForwardMany(g, at) ==
  [i \in DOMAIN g |->
     {LET row == Row(g, <<i, j>>)
      IN [id |-> ExpertOfRow(g, row), token |-> at + TokenInRow(g, row),
          weight |-> g[i][j].weight] : j \in DOMAIN g[i]}]

(* forward_one *)
ForwardOne(token, i) ==
  {[id |-> token[j].id, token |-> i, weight |-> token[j].weight] :
     j \in DOMAIN token}

TooShort(rest) == rest < GroupMin

-----------------------------------------------------------------------------
(* The worker of the CPU queue. *)
Task(kind, l, obj) ==
  [kind |-> kind, layer |-> l, obj |-> obj, routed |-> <<>>, cpu |-> <<>>,
   batch |-> <<>>]

Start ==
  /\ running = <<>> /\ tasks # <<>>
  /\ running' = <<[task |-> Head(tasks), at |-> 0, out |-> <<>>,
                   size |-> pinned.size, allocation |-> buffer.allocation]>>
  /\ tasks' = Tail(tasks)
  /\ UNCHANGED <<conf, memory, captured, pinned, stream, crashed, pc, sync,
                 layer, pass, added>>

Run == running[1]
Rest == Len(Run.task.batch) - Run.at
workerOnly == <<conf, memory, captured, pinned, stream, tasks, pc, sync, layer,
                pass, added>>

RunGroup ==
  /\ running # <<>> /\ Run.task.kind = "prefill" /\ ~TooShort(Rest)
  /\ LET len == IF Rest < GroupMax THEN Rest ELSE GroupMax
         g == SubSeq(Run.task.batch, Run.at + 1, Run.at + len)
     IN running' = <<[Run EXCEPT !.at = @ + len,
                                 !.out = @ \o ForwardMany(g, Run.at)]>>
  /\ UNCHANGED <<workerOnly, crashed>>

(* do_work_stealing_job divides by the number of threads it will use, none *)
(* for a job of no task: a token without an expert on the CPU.             *)
RunToken ==
  /\ running # <<>> /\ Run.task.kind = "prefill" /\ TooShort(Rest) /\ Rest > 0
  /\ LET token == Run.task.batch[Run.at + 1]
     IN IF token = <<>>
        THEN crashed' = TRUE /\ UNCHANGED running
        ELSE /\ running' = <<[Run EXCEPT !.at = @ + 1,
                    !.out = Append(@, ForwardOne(token, Run.at + 1))]>>
             /\ UNCHANGED crashed
  /\ UNCHANGED workerOnly

(* The end of a task.  Linear and warm_up have no effect but on scratch    *)
(* memory; decoding is forward_one with what the pinned tensors hold.      *)
Finish ==
  /\ running # <<>>
  /\ Run.task.kind = "prefill" => Rest = 0
  /\ pinned' = IF Run.task.kind # "decode" THEN pinned
               ELSE [pinned EXCEPT !.output =
                       [input |-> pinned.input, weights |-> pinned.weights,
                        ids |-> pinned.ids, size |-> Run.size,
                        layer |-> Run.task.layer]]
  /\ running' = <<>>
  /\ UNCHANGED <<conf, memory, captured, stream, tasks, crashed, pc, sync,
                 layer, pass, added>>

-----------------------------------------------------------------------------
(* The CUDA stream executes what was enqueued in order; a host function    *)
(* that runs sync() keeps it waiting for the CPU queue.                    *)
HandOver(tag, task) ==
  << [do |-> "copy", tag |-> tag, task |-> task],
     [do |-> "submit", tag |-> tag, task |-> task],
     [do |-> "sync", tag |-> tag, task |-> task],
     [do |-> "add", tag |-> tag, task |-> task] >>

StreamStep ==
  /\ stream # <<>>
  /\ LET o == Head(stream)
     IN /\ o.do = "sync" => QueueIdle
        /\ pinned' =
             IF o.do # "copy" THEN pinned
             ELSE [pinned EXCEPT !.input = o.tag, !.weights = o.tag,
                     !.ids = IF conf.router = "stream" THEN o.tag ELSE @]
        /\ tasks' = IF o.do = "submit" THEN Append(tasks, o.task) ELSE tasks
        /\ added' = IF o.do = "add"
                    THEN [added EXCEPT ![o.tag.layer] =
                            [tag |-> o.tag, got |-> pinned.output]]
                    ELSE added
  /\ stream' = Tail(stream)
  /\ UNCHANGED <<conf, memory, captured, running, crashed, pc, sync, layer,
                 pass>>

-----------------------------------------------------------------------------
(* Python. *)
hostOnly == <<conf, running, crashed>>

Init ==
  /\ conf \in Configs
  /\ buffer = [allocation |-> 0, size |-> 0]
  /\ hist_requests = [o \in Objects |-> <<>>]
  /\ op = [l \in Ops |-> 0] /\ captured = <<>>
  /\ pinned = [input |-> None, weights |-> None, ids |-> None, size |-> 0,
               output |-> None]
  /\ stream = <<>> /\ tasks = <<>> /\ running = <<>> /\ crashed = FALSE
  /\ pc = "load" /\ sync = FALSE /\ layer = 0 /\ pass = 0
  /\ added = [l \in Layers |-> None]

(* load: an operator is built and, when it is one that generates, warmed   *)
(* up; KExpertsMarlin does not warm up the KExpertsCPU it owns.            *)
WarmsUp(l) == l = LmHead \/ conf.router = "stream"

Load ==
  /\ pc = "load" /\ layer \in Ops /\ ~sync
  /\ Construct(layer)
  /\ IF WarmsUp(layer)
     THEN /\ tasks' = Append(tasks, Task("warm", layer, op'[layer]))
          /\ sync' = TRUE /\ UNCHANGED layer
     ELSE layer' = layer + 1 /\ UNCHANGED <<tasks, sync>>
  /\ UNCHANGED <<hostOnly, captured, pinned, stream, pc, pass, added>>

(* A prefill by layers runs without the CPU; at its end load_layer_to      *)
(* loads the experts of every layer again.                                 *)
Reload ==
  /\ pc = "reload" /\ layer \in Layers
  /\ Construct(layer)
  /\ layer' = layer + 1
  /\ UNCHANGED <<hostOnly, captured, pinned, stream, tasks, pc, sync, pass,
                 added>>

Synced ==
  /\ sync /\ QueueIdle
  /\ sync' = FALSE /\ layer' = layer + 1
  /\ UNCHANGED <<hostOnly, memory, captured, pinned, stream, tasks, pc, pass,
                 added>>

(* The next token is read from the device before anything else happens. *)
End ==
  /\ pc # "idle" /\ stream = <<>>
  /\ layer = IF pc = "reload" THEN NLayers ELSE NLayers + 1
  /\ pc' = "idle" /\ layer' = 0
  /\ UNCHANGED <<hostOnly, memory, captured, pinned, stream, tasks, sync, pass,
                 added>>

Begin(kind) ==
  /\ pc = "idle" /\ pass < MaxPasses
  /\ pc' = kind /\ pass' = pass + 1 /\ layer' = 0
  /\ captured' = IF kind = "decode" /\ conf.graph /\ captured = <<>>
                 THEN op ELSE captured
  /\ added' = [l \in Layers |-> None]
  /\ UNCHANGED <<hostOnly, memory, pinned, stream, tasks, sync>>

Target(l) == IF captured = <<>> THEN op[l] ELSE captured[l]

(* KExpertsMarlin.forward reads the router's ids, and so waits for all the *)
(* stream was given before; the blocks that call submit_for_one_decode     *)
(* with the router's own tensors do not.                                   *)
RouterRead == conf.router = "host" => stream = <<>>

CpuCounts == IF conf.router = "host" THEN 0 .. TopK ELSE {TopK}

(* submit_for_one_decode and sync_for_one_decode.  The size, and ids that  *)
(* are in host memory, are copied at once.                                 *)
DecodeLayer ==
  /\ pc = "decode" /\ layer \in Layers /\ RouterRead
  /\ \E n \in CpuCounts :
       IF n = 0 THEN UNCHANGED <<pinned, stream>>
       ELSE LET tag == [pass |-> pass, layer |-> layer, size |-> n]
            IN /\ pinned' = [pinned EXCEPT !.size = n,
                    !.ids = IF conf.router = "host" THEN tag ELSE @]
               /\ stream' = stream \o
                    HandOver(tag, Task("decode", layer, Target(layer)))
  /\ layer' = layer + 1
  /\ UNCHANGED <<hostOnly, memory, captured, tasks, pc, sync, pass, added>>

(* KLinearCPUInfer.forward, on the stream while a graph is captured.       *)
Submit(task) ==
  /\ stream = <<>>
  /\ tasks' = Append(tasks, task) /\ sync' = TRUE
  /\ UNCHANGED <<hostOnly, memory, captured, pinned, stream, pc, layer, pass,
                 added>>

HeadLayer ==
  /\ pc \in {"decode", "prefill"} /\ layer = LmHead /\ ~sync
  /\ LET task == Task("linear", LmHead, Target(LmHead))
         tag == [pass |-> pass, layer |-> LmHead, size |-> 1]
     IN IF pc = "decode" /\ conf.graph
        THEN /\ stream' = stream \o SubSeq(HandOver(tag, task), 2, 3)
             /\ layer' = layer + 1
             /\ UNCHANGED <<hostOnly, memory, captured, pinned, tasks, pc,
                            sync, pass, added>>
        ELSE Submit(task)

(* The tokens of a prefill and their experts; KExpertsMarlin.forward gives *)
(* the CPU those of cpu_idxs, in its order, KExpertsCPU.forward all.       *)
Chosen(ids, cpu) ==
  IF conf.router = "stream" THEN [j \in 1 .. TopK |-> [id |-> ids[j], weight |-> j]]
  ELSE LET mine[n \in 0 .. Len(cpu)] ==
             IF n = 0 THEN <<>>
             ELSE IF cpu[n] \notin Range(ids) THEN mine[n - 1]
             ELSE Append(mine[n - 1],
                    [id |-> cpu[n],
                     weight |-> CHOOSE k \in 1 .. TopK : ids[k] = cpu[n]])
       IN mine[Len(cpu)]

CpuIdxs(routed) ==
  IF conf.router = "stream" THEN {<<>>}
  ELSE LET used == UNION {Range(routed[i]) : i \in DOMAIN routed}
       IN {idxs \in UNION {[1 .. n -> used] : n \in 1 .. NumExperts} :
             \A n \in DOMAIN idxs : \A k \in 1 .. n - 1 : idxs[k] < idxs[n]}

PrefillTask(l, routed, cpu) ==
  [Task("prefill", l, op[l]) EXCEPT !.routed = routed, !.cpu = cpu,
     !.batch = [i \in DOMAIN routed |-> Chosen(routed[i], cpu)]]

PrefillLayer ==
  /\ pc = "prefill" /\ layer \in Layers /\ ~sync
  /\ \E n \in 2 .. MaxPrompt :
       \E routed \in [1 .. n -> Routings] :
         \E cpu \in CpuIdxs(routed) : Submit(PrefillTask(layer, routed, cpu))

(* All of them on the GPU: nothing is submitted. *)
PrefillOnGpu ==
  /\ pc = "prefill" /\ layer \in Layers /\ ~sync /\ conf.router = "host"
  /\ layer' = layer + 1
  /\ UNCHANGED <<hostOnly, memory, captured, pinned, stream, tasks, pc, sync,
                 pass, added>>

Host == Load \/ Reload \/ Synced \/ End \/ DecodeLayer \/ HeadLayer \/ PrefillLayer
        \/ PrefillOnGpu
Worker == Start \/ RunGroup \/ RunToken \/ Finish

Next ==
  /\ ~crashed
  /\ \/ \E kind \in {"decode", "prefill", "reload"} : Begin(kind)
     \/ Host \/ StreamStep \/ Worker

(* Python goes on with a pass it began; the device and the worker thread   *)
(* execute what they were given.                                           *)
Fairness ==
  /\ WF_vars(~crashed /\ Host) /\ WF_vars(~crashed /\ StreamStep)
  /\ WF_vars(~crashed /\ Worker)

Spec == Init /\ [][Next]_vars /\ Fairness

-----------------------------------------------------------------------------
(* Properties. *)
(* What a decoding layer adds to its hidden states was computed by a task  *)
(* of its own from its own input, ids, weights and number of CPU experts,    *)
(* though all layers share one set of pinned tensors, some written by the  *)
(* host at once and some in stream order.                                  *)
HandOff ==
  \A l \in Layers : added[l] # None =>
    LET t == added[l].tag
    IN added[l].got = [input |-> t, weights |-> t, ids |-> t, size |-> t.size,
                       layer |-> l]

(* Every operator alive points into the allocation of the scratch buffer   *)
(* in force, with regions of a request that do not overlap, and so does    *)
(* the task that runs; and the worker and every queued task use the        *)
(* operator their layer holds, which is alive.  One kind of task is not    *)
(* promised that: a replayed graph names the operators it was captured     *)
(* with, and those of layers reloaded since were destroyed (their address  *)
(* may even be another layer's by now).                                    *)
InForce(group) ==
  \A i \in DOMAIN group.request :
    /\ group.pointers[i][1] = buffer.allocation
    /\ group.pointers[i][2] + group.request[i] <= buffer.size
    /\ \A k \in 1 .. i - 1 :
         group.pointers[k][2] + group.request[k] <= group.pointers[i][2]

StaleReplay(t) ==
  /\ t.kind = "decode" /\ captured # <<>>
  /\ t.obj = captured[t.layer] /\ t.obj # op[t.layer]

NamesLive(t) == t.obj = op[t.layer] /\ hist_requests[t.obj] # <<>>

UsesLiveMemory ==
  /\ \A o \in Live(hist_requests) : \A group \in Range(hist_requests[o]) :
       InForce(group)
  /\ \A t \in Range(tasks) : NamesLive(t) \/ StaleReplay(t)
  /\ running # <<>> => /\ NamesLive(Run.task) \/ StaleReplay(Run.task)
                       /\ Run.allocation = buffer.allocation

(* The tokens of a prefill get exactly the contributions of their experts  *)
(* on the CPU, each with its routing weight, however the batch is cut in   *)
(* groups and single tokens and its rows are gathered by expert.           *)
CpuExperts(t) == IF conf.router = "stream" THEN Experts ELSE Range(t.cpu)
Contributions ==
  running # <<>> /\ Run.task.kind = "prefill" =>
    LET t == Run.task
    IN \A i \in 1 .. Run.at :
         Run.out[i] = {[id |-> t.routed[i][k], token |-> i, weight |-> k] :
                         k \in {h \in 1 .. TopK : t.routed[i][h] \in CpuExperts(t)}}

(* A pass that began ends, unless the tokens left over from the groups are *)
(* fewer than group_min_len and one has no expert on the CPU.              *)
Bare ==
  \E t \in Range(tasks) \cup {running[i].task : i \in DOMAIN running} :
    /\ t.kind = "prefill"
    /\ LET tail == Len(t.batch) % GroupMax
       IN /\ tail < GroupMin
          /\ \E i \in Len(t.batch) - tail + 1 .. Len(t.batch) : t.batch[i] = <<>>
PassCompletes == pc # "idle" ~> (pc = "idle" \/ Bare)
=============================================================================
