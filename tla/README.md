# HybriMoE in TLA+

This directory holds TLA+ models of HybriMoE, the fork of ktransformers that
decodes mixture-of-experts models on a CPU and a GPU at once, the TLC
configurations that check them on small instances, and TLAPS proofs of what
matters most for every instance. `PROJECT.json` maps each definition to the
lines it translates and lists components, runs, hazards and theorems.

Paths below are relative to `src/ktransformers/`.

## 1. The system

| Part | State | Operations | Talks to |
|---|---|---|---|
| **Backend** (`ktransformers_ext/cpu_backend/backend.*`) | per thread: `status`, `curr`, `end`; `thread_num_` and the three functions | `do_work_stealing_job`, `process_tasks`, `worker_thread`, destructor | called by the operators of `llamafile/` and `kvcache/`, from a TaskQueue task |
| **TaskQueue** (`cpu_backend/task_queue.*`) | `tasks`, `mutex`, `cv`, `sync_flag`, `exit_flag` | `enqueue`, `sync`, `processTasks`, constructor, destructor | Python threads and CUDA host functions enqueue; its worker runs operators |
| **CPUInfer** (`cpu_backend/cpuinfer.h`, `operators/cpuinfer.py`) | a Backend and a TaskQueue; one shared instance in Python | `submit`, `sync`, both also on a CUDA stream; replacement by a larger one | all CPU operators |
| **SharedMemBuffer** (`llamafile/shared_mem_buffer.*`) | one block, and the requests to re-arrange | `alloc`, `dealloc` | CPU operators' constructors and destructors |
| **llamafile operators** (`operators/llamafile/{moe,linear,mlp}.cpp`) | pointers into the shared block | `forward` (groups, single tokens), `warm_up` | Backend |
| **KExpertsCPU, KLinearCPUInfer** (`operators/experts.py`, `operators/linear.py`) | pinned buffers shared by all layers | submit / sync of a decode step, direct call in prefill, `load` | CPUInfer, CUDA stream |
| **KExpertsCache** (`operators/experts.py:715-1133`) | index expert → slot, free slots, prefill buffers, two copy streams and their events | look-ups, loads, evictions, prefetch, buffer refill | `KExpertsMarlin.forward`, KScoreAwareCache |
| **HSS** (`operators/experts.py:1128-1201`) | local queues and times | division of a token's experts between CPU and GPU | `KExpertsMarlin.forward` |
| **KScoreAwareCache** (`operators/experts.py:662-713`) | priority scores | update by the router, lowest / highest of a layer | MoEGate, KExpertsCache |
| **kvcache** (`ktransformers_ext/operators/kvcache`, `operators/dynamic_attention.py`) | blocks of keys per layer in DRAM, anchors, block tables, history of selections | append, retrieve, attend, anchor; driven by `apply` | `KLlamaModel.forward`, CPUInfer |
| **Gates and sparse blocks** (`operators/gate.py`, `experts.py:1316-1690`, `models/modeling_*.py`) | none between calls | choose experts, hand tokens over, gather and add | KTransformersExperts |
| **Linear and experts wrappers, layer-wise models** (`operators/{linear,experts,models}.py`) | mode, two operators, `loaded` and tensors of each | `load`, `unload`, `set_inference_mode`, `load_layer_to` | every injected module |
| **Static cache, attention** (`models/custom_cache.py`, `operators/{attention,triton_attention,flashinfer_wrapper}.py`, attention classes and models of `models/modeling_*.py`) | a slot for each position and layer, page table, `past_tokens`, the plan of the MLA wrapper | `update`, `remove_suffix`, `change_seq_length`, `forward` of each model and attention class, `plan` | generation loop, interfaces, CUDA graph |
| **CUDA graph runner, generation loop** (`util/cuda_graph_runner.py`, `util/utils.py`) | captured graph | capture, replay, `prefill_and_generate` | all of the above |
| **Interfaces** (`server/backend/interfaces`) | generated ids, sequence length, KV cache, lock | `inference` = tokenize, prefill, decode, as a generator | contexts, endpoints |
| **Contexts and runs** (`server/backend`, `server/api/openai/assistants`) | run status, current context of each thread | create, cancel, stream a run | interfaces, database |
| **Injection** (`optimize/optimize.py`) | rule list, optimize config | first match per module, device usage | model loading |
| **Loading** (`util/{custom_gguf,utils,safetensor_loader}.py`, `merge_tensors/`, `ktransformers_ext/cuda/custom_gguf`) | tensor index of the files | find, cut, convert, translate names | every operator's `load_weights` |

How they meet: the host thread (Python) enqueues kernels, copies and host functions on
CUDA streams; a host function submits to the CPU queue or waits for it; the queue's worker runs
an operator, which forks a job to the Backend's threads. The server runs all requests as
coroutines of one event loop, which share one interface.

Where it is hard: the thread pool shares plain fields among spinning threads; the queue is read
through a flag without its lock; the GPU executes copies and kernels long after the host has
updated the index that describes them; all layers share pinned tensors, one block table and one
scratch memory, some written by the host at once and some in stream order; the HTTP server
interleaves coroutines that share one KV cache, any of which may be dropped at a yield; operators
are unloaded and loaded in the middle of a forward that may raise. The list of hazards, one by
one with their lines, is in `PROJECT.json`.

What makes each part correct:

* Backend: every task of a job runs exactly once before the call returns, without a data race, and every call and the destructor end.
* TaskQueue: tasks run in order, one at a time; `sync` waits for what the caller submitted; nothing is lost; every call ends.
* SharedMemBuffer, llamafile: a task uses an operator that is alive, in the block in force; every token gets the contributions of its experts.
* CPU experts: what a layer adds was computed from its own input, ids and weights.
* KExpertsCache: no slot leaks or has two owners; the index is what VRAM will hold; a kernel runs on the weights of its expert.
* HSS: every selected expert is computed once, with its own routing weight, and the division pays.
* kvcache: no token is overwritten, none is attended to twice, a retrieval competes by the keys of the block it stands for, and concurrent merges lose nothing.
* Gates and blocks: an expert is chosen and weighted by its own score; each token reaches each of its experts once.
* Layer-wise prefill: a forward runs all modules in one configuration and leaves them as `load_weights` did.
* Static cache and attention: a query reads the keys of its own conversation up to its own position, each once, and nothing later.
* Interfaces: the KV cache holds the keys of the tokens in `generated_ids`; one inference at a time; the lock is given back.
* Runs: the recorded outcome is what happened.
* Loading: a tensor is what was written; every parameter gets its own tensor on the device its rule names.

## 2. Modules

| Module | Models | Kind |
|---|---|---|
| `ParallelFor` | what a job of the pool promises | abstract |
| `WorkStealing` | `Backend` | detailed, implements `ParallelFor` |
| `SerialExecutor` | what the queue promises | abstract |
| `TaskQueue` | `TaskQueue` | detailed, implements `SerialExecutor` |
| `CPUExperts`, `MCCPUExperts` | KExpertsCPU, KLinearCPUInfer, the CUDA stream, the CPU queue, SharedMemBuffer, MOE, composed | detailed, on top of `SerialExecutor` and `ParallelFor` |
| `ExpertCache` | `KExpertsCache` under `KExpertsMarlin.forward`, with CUDA streams | detailed |
| `HybridSchedule` | `HSS` for a decode step | algorithm |
| `KVCache`, `MCKVCache` | the long-context cache and its drivers, for a conversation | detailed |
| `KVAttention` | threads of one attention over blocks | detailed, on top of `ParallelFor` |
| `KVAnchors` | anchors of blocks and the similarities computed from them | algorithm |
| `MoERouting` | gates and sparse blocks | algorithm |
| `LayerwisePrefill` | operators that are unloaded and loaded by layer, and the captured graph | detailed |
| `InferenceServer`, `MCInferenceServer` | requests, contexts, runs, interface, lock | detailed |
| `GGUFTensors` | finding, cutting and converting tensors | algorithm |
| `ModelLoading` | injection and loading under a rule file | algorithm |
| `CausalAttention` | which slots of the static cache each query reads, from the drivers to the kernels, for five families of models | detailed |
| `MCSingleCalls` | the parts that are small next to the others, for one run | model checking |
| `NumberLemmas` | counting (initial segments, one-to-one functions), least and greatest elements (`Min`, `Max` of `FiniteSetsExt`), division with remainder, functions defined by a recurrence and their sums | lemmas |
| `CPUInfer_proofs` | `WorkStealing` and `TaskQueue`, the two halves of a `CPUInfer` | proofs |
| `CPUExperts_proofs`, `LayerwisePrefill_proofs`, `InferenceServer_proofs` | the module of that name | proofs |
| `KExpertsMarlin_proofs` | `ExpertCache` and `HybridSchedule`, the two halves of `KExpertsMarlin.forward` | proofs |
| `KVCache_proofs` | `KVCache` and `KVAttention` | proofs |
| `SingleCalls_proofs` | `KVAnchors`, `MoERouting`, `GGUFTensors`, `ModelLoading` and `CausalAttention` | proofs |

An operator described as a faulty variant is what a plausible slip in the code would do; no
specification uses it. It is there to show that a property fails when the code has that slip.

### WorkStealing

Thread 0 is the caller, `1 .. N-1` are the workers. An action is one access to
shared state: a `fetch_add` on `curr` (`Claim`), a load of `status` (`CheckVictim`,
`JoinWorker`, `WakeUp`), a store of `status` (`Publish`, `Finish`, `StoreExit`),
a write of a slice (`SetSlice`). `Compute` is the call of `compute_func_`, kept
apart from the claim so that a claimed task may run late. `t_offset = 0` is the
first loop of `process_tasks` (own slice), larger values are the stealing loop.
The poll of `worker_thread` is an action only when it leaves the poll. `status`
and `curr` are sequentially consistent here; the code uses release/acquire, which
gives the same outcomes because plain fields are published by the store of
`status` and never written while another thread may read them: that is `NoRace`,
which is checked and proved rather than assumed. `USE_NUMA` selects how
many threads a job uses.

### TaskQueue

The lock, the push, the store of the flag with the unlock, and the notification are
separate actions, so `sync` sees every intermediate state. `cv.wait` releases the
mutex as it begins to wait; spurious wake-ups are possible at any time. The
constructor's two stores come after the worker was started; `Fresh` is what the
flags may contain before. `front()` of an empty queue is undefined and sends the
worker to a state of its own (`TakeNothing`).

### ExpertCache

The host is sequential; `pc`, `layer`, `todo`, `views` say where it is in `load`,
`forward`, `get_experts_weights`, `prefetch_expert` and `reset_buffer`. It
only enqueues: `copies` are the FIFOs of `copy_stream` and `prefetch_stream`,
`compute` that of the compute stream. An event is a number of copies that
have yet to execute; `Drained` marks the places where the host reads a result of the
compute stream (`item`, `tolist`, `torch.where`, a synchronisation) and so waits.
Sizes are the same for all layers and there is one device, as `local_chat.py`
configures. Which expert has the lowest or highest score is arbitrary, so the
results hold for any scores. The three matrices of an expert, copied in sequence
with an event each, are one item.

### HybridSchedule

One action per round of the loop; `HssInit` chooses the experts the router selected
and which of them are cached, `Those` being the lists `get_expert_place` makes of them. In decode `id_counts` is 1 for each expert, so
both sorts keep the order. Times are integers (1/100000 of the unit of the code).

### CPUExperts

Python (`Host`), the CUDA stream (`StreamStep`) and the worker of the CPU queue (`Worker`) are
three processes. `DecodeLayer` is `submit_for_one_decode` and `sync_for_one_decode`: the host writes
`size`, and ids that are in host memory, at once, and enqueues the copies, the two host functions and
the addition; so the host can be layers ahead of the device. The queue is used as `SerialExecutor`
promises, `sync` being "nothing queued, nothing running". A pinned tensor is the name of the pass and
layer it was computed for. `conf.router` says where the routed ids are when they are handed over:
`host` is `KExpertsMarlin.forward`, which has read them and thereby waited for the stream; `stream` is
a block with `KExpertsCPU` that hands over the router's device tensors. `Construct` is the
constructor of an operator with its requests to SharedMemBuffer, followed by the destruction of the one it
replaces; `Reload` is what a prefill by layers does to the experts at its end. `ForwardMany` gathers
rows by expert as `MOE::forward_many` does (`m_local_num_`, `m_local_pos_`, pointers into the pooled rows), `RunToken`
is `forward_one` for what is left. A job of no task divides by `thread_num_ = 0` (`backend.cpp:63`) and
ends the process: `crashed`.

### KVCache

A behaviour is one conversation: prefill in calls and chunks, then one token at a time. `PrefillLayer` is
`swap_in_and_swap_out` with `get_and_update_kvcache_fp16` (submit then sync, so atomic); in generation
`IssueLayer` is what the host does for a layer and `PlayLayer` what the stream and the CPU task do
later: the two are apart because `block_table_cpu` and `prefix_block_table` are both in host memory and
so are copied when the host issues, whichever layers have yet to run. `Selections` and `Reuse` are the two
branches of `retrieval_kvcache_layer_` and `_kvhead_`; which blocks win is arbitrary. `att` is what the last
attention saw. A token is its layer and position, so a slot overwritten, or read through the wrong
table, is visible.

### KVAttention

The job of `attention_layer_` / `attention_kvhead_`: a thread takes a task (`ParallelFor` gives each to
one thread), computes a block with its mask, adds it to its own sum, and merges that sum into the head's output under
the head's mutex when it meets another head or leaves. Sums are bags of slots, so adding twice or losing
shows. The code takes `|attn_lse_| < 1e-6` for "nothing merged yet": whether a real log-sum-exp is that
near zero is arbitrary here, and what such a case overwrites is recorded in `dropped`.

### KVAnchors

`calc_anchor_all_layers` for the five kinds of anchors and three of keys, and the similarities
that rank blocks. An anchor is the set of keys that entered it. `RankedByOwnKeys` names what has to hold for the
ranking to mean what it should; the exceptions are behaviours of the code that were met
while modelling: the branch for a single anchor and non-consecutive blocks looks the table up twice
(`kvcache_attn.cpp`, near 944); QUEST anchors are written at the q-head index that equals the kv-head number; BLOCK_MEAN, BLOCK_MAX
and FIXED leave anchors of quantised keys at zero. Also visible in the model: blocks
finished in generation never get an anchor; the last unfinished block is not skipped although a comment says
so; anchors after the first of DYNAMIC and FIXED stay empty.

### MoERouting

Gates (`Greedy`, `GroupLimitedGreedy`, `NoauxTc`, `GroupedTopk`) map the scores of a token to experts
and weights, blocks (one operator each for the DeepSeek, Qwen2 and Mixtral classes and for those that replace them) map
the routed tokens to outputs. An output is the bag of `<<expert, token given, place of the weight>>`,
a failure is `Raises`. What raises, and is modelled so: `KTransformersExperts.forward` (`experts.py:1289`)
takes four arguments, and `KQwen2MoeSparseMoeBlock`, `KDeepseekV3MoE` and `KMistralSparseMoEBlock` pass
three for a prompt of several tokens; `KExpertsTorch.forward`; a block whose experts are a plain list and a single
token (`hasattr` on a missing attribute), or not of an injected class (`hidden_states_expert.cpu()` before assignment).

### GGUFTensors

`LoadGguf` finds where tensors begin, `LoadIteration` and the rest cut a tensor in pieces and
convert block by block. A block is its number in the file, so a piece cut, dropped or repeated
shows. `GGML_DEQUANTIZE` (numpy) and `GGML_DEQUANTIZE_GPU` (CUDA) map an element of a
block to the bits it is made of; `SameBits` compares them for every element of each of the seven
types that have a kernel. A Q4_0 or Q5_0 tensor has none and raises on the GPU.

### ModelLoading

One decoder layer of a DeepSeek-V3 model, with GGUF files or a merged safetensors file, and of a
Mixtral model with GGUF files. `GenOptimizeConfig` is the recursion with its first match, `GetDeviceUsage`, `Inject` and `LoadModel` follow
`optimize_and_load_gguf`; `Translate` and `TranslateMixtral` rewrite names as the code does, applied
to a name from the root or relative to an injected module. What raises is modelled as such: a parameter whose translated name no file has, a
key `generate_device` that is missing.

### LayerwisePrefill

A module is a layer and a slot; each has a mode and two operators with `loaded` and tensors. One
action per module of `load_layer_to` (`Unload`, `Load`), per module run (`Compute`), per way to
raise (`LoadFails`, `ComputeFails`, `OutOfMemory`), and for the graph (`Capture`, `CaptureFails`,
`ReplayFails`). `Configurations` are the operators a rule file may name that survive the loading of the model, under two
families, from `local_chat.py` or from the server. `FailureForetold` is an exact characterisation: whether a forward has raised can be told
from the operators and the lengths of the prompts so far. It documents that `KLinearTorch` and `KLinearMarlin` keep
`loaded` after `unload()`, that `KExpertsMarlin` cannot be loaded twice, and that
`KExpertsTorch.load` passes an argument `load_weights` does not take. `GraphCurrent` does the same
for the graph of the server, which outlives the tensors it reads once a prefill by layers began.

### InferenceServer

A request is a chain of async generators; an action is what happens between two yields.
`Prefill` is everything from the lock to the first token, `Decode` a step, `Reason` and `Return`
the end; `Drop` is a client that goes away at any yield, after which the event loop closes the generator
(`Close`), which gives the lock back. `InProgress`, `CancelRun`, `CreateRun`, `Sync` are `ThreadContext.work` and the
endpoints, with the status in memory and in the database apart. Each of the reuse rules of
`prefill` is there: same thread (`last = Id(r)`), shared prefix, refused prompts (`TooLong`), a
cache that is full (`exit(0)`, `killed`), an index past the ids (`poisoned`). `cut` and `overlapped` are history variables for what the properties exclude:
a position left without key when a generation that ended by length is continued or is followed by a refused prompt, and two runs of one
thread at a time.

### CausalAttention

A behaviour is a process with one model: `local_chat.py` with one prompt, or the server with several, each a new
thread that keeps a prefix (`NewThread`) or a continuation (`SameThread`). `PrefillChunk` is a chunk of
the prompt through model, mask, attention and `StaticCache.update`, `DecodeStep` one token, run by Python or
replayed from the graph: a replay runs the kernels but not the Python of the layers, so tests that raise and the
choice of a window are skipped in it (`live`). A token is the number of its prompt and its key is the token, so a
stale slot, a slot of another conversation and a slot of zeros are told apart. A forward is a record
(first position, length, plan of the MLA wrapper); `ModelForward` goes through the model and attention class the
configuration selects to what each query reads: a set of `<<slot, split>>`, split 0 wherever a kernel does not
divide the keys. The layers of a model run alike, so there is one. `Fail` ends the behaviour: what an
error leaves behind is in `LayerwisePrefill` and `InferenceServer`, and so are prompts that do not fit.
`gaps` and `lag` are history variables: a token that ended an answer by length was never given to the
model, so its slot is zero and `past_tokens`, which counts forwards, stays behind.

### MCSingleCalls

Seven modules model code that is small enough next to the rest to share one run, most of it without state between calls.
They share no variable; their disjoint sum, selected by `part`, is the specification. Each part's idle
variables have one arbitrary value.

## 3. Runs

Twelve runs, eight of which find no error; four show a disagreement between the code and what it says of
itself.

| Run | Instance | Shows |
|---|---|---|
| `work_stealing` | 3 threads, jobs of 1, 2, 4 tasks, 2 jobs (67 261 states) | `TypeOK`, `NoRace`, refinement of `ParallelFor` (no id run twice, none missing at the return), `CallsReturn` |
| `task_queue` | 2 clients, 2 tasks each, flags initially anything (5 131) | `QueueTypeOK` (with the lock discipline), `FlagSound`, refinement of `SerialExecutor`; `NeverTakesNothing` and `QueueDrains` if `exit_flag` was FALSE |
| `task_queue_race` | 1 client, 1 task | **violation** of `EnqueueReturns` |
| `cpu_experts` | 2 layers of 3 experts, 2 per token, and a `lm_head`; groups of 2 to 3; prompts of 2 to 4 tokens; 3 passes of any kind (38 941) | `HandOff`, `UsesLiveMemory`, `Contributions`, `PassCompletes` |
| `expert_cache` | 3 layers, 3 experts, 2 slots, 1 prefetch, 2 passes of either kind (362 323) | `TypeOK`, `SlotPartition`, `IndexTruthful`, `CurrentWeights`, `ForwardReturns` |
| `expert_cache_prefill` | 3 layers, 3 experts, 1 slot, prefill | **violation** of `WeightsIntact` |
| `hybrid_schedule_weights` | 4 experts | **violation** of `WeightsMatch` |
| `kv_cache` | 7 blocks of 3 tokens, 2 layers, 17 configurations, whole conversations (860 826) | `WholeContext`, `NothingLost`, `EachTokenOnce`, `ReuseGap` |
| `kv_cache_dense` | the shipped settings in small | **violation** of `DenseImportsAll` |
| `inference_server` | a chat and two runs of one thread, cache of 7, 3 prompts, 2 continuations (305 763) | `TypeOK`, `ContextIntact`, `RecordsTruthful`, `NewcomerServed`, `Served` |
| `layerwise_prefill` | a dense and a sparse layer, every choice of operators, 4 forwards, memory exhausted at most once (604 360) | `SameConfiguration`, `AsLoaded`, `FailureForetold`, `GraphCurrent` |
| `single_calls` | seven parts, bounds in `MCSingleCalls.cfg` (713 736) | `EachOnce`, `NeverSlowerThanOne` (`HybridSchedule`), `EachTokenWeighed` (`KVAttention`), `RankedByOwnKeys` (`KVAnchors`), `RoutedByGroup`, `GivenToItsExperts` (`MoERouting`), `LoadedAsWritten` (`GGUFTensors`), `LoadedAsRuled` (`ModelLoading`), `SeesItsPast` (`CausalAttention`) |

Bounds.

* `work_stealing`: three threads give an owner, a thief and a third party, which is what a race between owner
  and thief needs to be observed; 1, 2 and 4 tasks are fewer than the threads, fewer by one, and uneven;
  two jobs let a late thief of the first meet the second.
* `task_queue`: two clients are a thread that waits and one that keeps the queue busy.
* `cpu_experts`: two layers are what shared pinned tensors need to be overwritten too early; a prompt of
  four tokens is a group of three and a single token, three of them one full group, two the smallest group;
  the operators are three kinds of requests of different sizes, so that the scratch memory grows
  while older operators point into it; two passes put a reload, a prefill or a captured decode before or after
  another one. Three sequences of experts per token cover every expert and both orders.
* `expert_cache`: three layers are the least for which `reset_buffer` refills (`layer_idx < len - 2`) and a
  prefetch finds a next layer; three experts and two slots make hits, misses and evictions happen in one forward;
  two passes put decode after prefill and prefill after decode.
* `kv_cache`: blocks of three tokens, chunks of five and calls of ten end in the middle of
  blocks, of chunks and of calls; the prompts fit the preselected blocks, leave one out, end in a chunk
  of a single token, and end in the last block; generation goes on until the cache is full. Each of
  preselection, dense layers, selection by layer or by kv head, and reuse by tokens or by layers is on and off.
* `inference_server`: two runs of a thread and a chat are a context replaced under a running coroutine, a
  continuation and a newcomer; a cache of seven positions and three new tokens let a prompt fit, be cut short by
  `max_new_tokens`, fill the cache and be refused. One sampled token suffices: prompts differ from it where prefixes have to.
* `layerwise_prefill`: four forwards are long, short, long, short in any order, one more than
  `Doomed` speaks of; a second exhausted memory adds nothing that the first does not leave behind.
* `single_calls`: six experts are `num_experts_per_tok` of DeepSeek-V2, in ascending order, since the schedule
  only compares them for equality; two threads and two heads of two blocks make a thread
  change heads while the other merges; three iterations are a first, a middle and a last piece; a tensor of one or
  two experts, after a tensor of another type and length, makes both offsets count; two rules
  are one that is shadowed or cut off by the other; two ranks of two tokens send rows both ways. `MCSingleCalls` bounds what
  the routers choose, and only it: three tokens, or several ranks, have each token's experts in one order (`OneOrder`), and
  several ranks one of the two DeepSeek classes, which share `moe_infer` (`OneClass`); `MoeSpec` and the theorem have any
  order, either class, and `argsort` keeping or reversing equal keys. For `CausalAttention`, three prompts are a newcomer, one that
  keeps a prefix or continues, and one after that; a cache of nine slots in pages of two, chunks of three and
  answers of four tokens let a prompt take one to three chunks, use all four splits of the Triton kernel, warm the graph up,
  capture and replay it, and be continued twice after answers that ended by length (`lag` of 2); a window of two is
  exceeded, and pieces of two make `forward_windows` cut a chunk. The 25 configurations have every family, attention implementation and driver,
  with and without graph, flashinfer, absorbed prefill, window, injected model and layer-wise prefill; the proof is for all of
  `SessionConfigs`.

Deadlock is not checked: the behaviours end with a destructor, with the bound on jobs, tasks or
passes, with a full cache, or with a call that returned; that calls end is stated as liveness instead.

Fairness. Threads are kernel threads that the scheduler runs again and again: weak fairness of each
thread's own steps, none for starting a job, making a call or destroying. A client blocked on the
mutex of the queue gets it eventually although spurious wake-ups let the worker take it any number
of times: strong fairness of `EnqueueLock`. CUDA streams make progress (weak fairness each), and the
host goes on with what it began (`Host` of `CPUExperts`, but not `Begin`). The event loop runs a coroutine
that can go on (`WF_vars(Work)`): no fairness between requests is assumed, the lock itself is first come first
served, and a client is not assumed to stay.

### Findings

1. `task_queue.cpp:13`: the worker is started before `exit_flag` is stored. If it reads
   a stale `true` with an empty queue it returns with the mutex locked, and the first
   `enqueue` blocks for ever. The same early return is why nothing may be enqueued
   after the destructor began; from an `exit_flag` of FALSE all is well (`task_queue`).
2. `experts.py:1105`: in prefill `reset_buffer`, and an eviction for a later expert of the
   same pass, reassign a place whose kernel is still enqueued, and the copy stream waits
   for no kernel. In decode the host reads the router's result and each expert's position
   before each kernel, and that wait excludes most of it; one way is left. All experts of a
   forward are looked up before their kernels are enqueued, in the order of the schedule, and a
   miss looked up after a hit may evict it (`experts.py:961`), so that the kernel of the hit runs on the weights of the miss.
   TLC shows this for `WeightsIntact` with `Kinds = {"decode"}` and two slots. `CurrentWeights` says that
   it is the only way in decode: a kernel finds its expert's weights unless it is `Displaced`.
3. `experts.py:1170-1179`: `HSS` returns positions within hits or misses; `forward` uses them
   as positions within the selected experts (`experts.py:507`).
4. `dynamic_attention.py:676`: with preselection and a prompt longer than what is preselected, the host writes
   the entries of a sparse layer into `block_table_cpu` while the CPU task of a dense layer, which reads it, is
   still to run. The dense layer then misses tokens and writes its new one elsewhere.

Behaviours the models reproduce and whose extent the properties delimit (none contradicts a statement of the repository):

* A selection that is used again misses the newest token at block boundaries (`ReuseGap`); with `layer_step > 1` the
  layers of a group extend their shared selection once each and then attend to slots without token
  (`EachTokenOnce` is stated for 1). A prompt whose last inner chunk is one token raises, as
  `prefill_block_num` does not exist yet (`IssueRaises`). Generation past the local window and one more block
  overwrites preselected ones (`InRoom`), which `local_chat.py:179` does not rule out.
* Three corners appeared only when a proof got stuck on them; TLC then showed a behaviour for each. With no
  local blocks (`local_block_num = 0`) and an evicting layer the block being filled is the one past the window, and new tokens
  overwrite preselected ones at once (`InRoom`). If the calls of a prompt end in a chunk of a single token
  (`CallSize % ChunkSize = 1`), that token is taken for a generated one and leaves a selection from before the
  next whole call, which may be reused afterwards and misses more than the newest token (`ReuseGap`). A model
  whose layers are all dense (`first_k_dense_replace` is at least the number of layers) escapes every failure that is due
  to its experts (`HasExperts` in `Doomed`).
* A prompt whose rest after full groups is shorter than `group_min_len` and contains a token without an
  expert on the CPU divides by zero (`Bare` in `PassCompletes`). A captured graph keeps naming the `MOE`
  a reload destroyed: the tasks of its replays are the `StaleReplay` that `UsesLiveMemory` leaves out (without that
  exception TLC finds it violated: decode, a prompt by layers, decode).
* Continuing a thread whose conversation fills the cache ends the process (`exit(0)`), or, if `generated_ids` is still
  shorter than the cache, writes past its end with an index tensor on the device (`ktransformers.py:189`; the check of
  line 131 sees the new ids only): a device-side assert after which every request of the process fails, newcomers
  included (`poisoned`). `NewcomerServed` says that only a continuation can do this; continuing after a
  generation that ended by length leaves a position without key (`cut`). A run cancelled before it is in progress
  runs on; one cancelled between its last item and `sync_db` is "cancelling" for ever; a client that goes away leaves
  "queued" in the database (`RecordsTruthful` says what can still be relied on).
* After a long prompt that raised, layers stay on the CPU and short prompts raise until a long one succeeds.
  KDeepseekV2Model's layer-wise prefill asserts the decoder class of DeepSeek-V2, so a V3 model raises.
* One query of `Qwen2MoeFlashAttention2` or `MixtralFlashAttention2` passes `position_ids` as the number of keys, which is
  the number of those before it: in decode a token does not read its own key (`LeftOut`, first part). Whatever follows a
  multi-token prefill of MLA after an answer that ended by length is compared with a `past_tokens` that lags by one for each
  such answer, so the last queries miss as many of the newest keys (third part). A configuration with a sliding window raises once the
  window is exceeded and Python runs the layer; a server with flashinfer and a model without MLA raises at its first
  decode step; `forward_windows` without a mask, or with a fixed one, takes each call to begin at position 0
  (`NeverRaises`, fourth part). `prefill_and_generate` without a graph counts each generated token twice in `past_tokens`, which after the
  prefill only the tests of a window read.
* A masked expert (score 0) beats one whose biased score is negative (`RoutedByGroup`).
* A large BF16 tensor loaded as float16 keeps its bits (`LoadedAsWritten` excludes it), and small tensors on the
  GPU get the default dtype at import. The key of the experts collides with their layer's in `tensor_device_map`;
  parameters that a rule with `recursive: False` hides go to `cuda`, and so do those of Mixtral's experts whatever their
  rule says (`LoadDevice`): `blk.N.ffn_gate.E`, the name of such a tensor, is no key of the map (`utils.py:57-61`, 93). A Mixtral
  model under an injected base block has names no file holds, and raises.

## 4. Proofs

The `*_proofs` modules hold for every value of the constants that the named assumptions allow. Of the 40
properties that passing runs check, 35 are theorems, all but the liveness ones:

| Module | Theorems |
|---|---|
| `CPUInfer_proofs` | `TypeOK`, `NoRace`, `AtMostOnce`, `ImplementsParallelFor` of `WorkStealing`; `QueueTypeOK`, `FlagSound`, `NeverTakesNothing`, `ImplementsSerialExecutor` of `TaskQueue` |
| `KExpertsMarlin_proofs` | `TypeOK`, `SlotPartition`, `IndexTruthful`, `CurrentWeights` of `ExpertCache`; `EachOnce`, `NeverSlowerThanOne` of `HybridSchedule` |
| `CPUExperts_proofs` | `HandOff`, `UsesLiveMemory`, `Contributions` |
| `KVCache_proofs` | `NothingLost`, `WholeContext`, `EachTokenOnce`, `ReuseGap` of `KVCache`; `EachTokenWeighed` of `KVAttention` |
| `InferenceServer_proofs` | `TypeOK`, `RecordsTruthful`, `ContextIntact`, `NewcomerServed` |
| `LayerwisePrefill_proofs` | `TypeOK`, `SameConfiguration`, `AsLoaded`, `GraphCurrent`, `FailureForetold` |
| `SingleCalls_proofs` | `RankedByOwnKeys` of `KVAnchors`; `RoutedByGroup` and `GivenToItsExperts` of `MoERouting`; `LoadedAsWritten` of `GGUFTensors`; `LoadedAsRuled` of `ModelLoading`; `SeesItsPast` of `CausalAttention` |

(`AtMostOnce` and the `TypeOK` of `LayerwisePrefill` are theorems that no run lists: the refinement, which contains
`AtMostOnce`, and `AsLoaded` need them.)

*WorkStealing.* The invariant is the conjunction of: `ControlInv` (where threads can be, given
where the caller is), `StatusInv` (a thread is WORKING only if its slice was handed out, and in
`process_tasks` only if it is WORKING), `SliceInv` (the slices handed out are consecutive intervals
whose last one ends at `task_num`), `ClaimInv` (the ids claimed - running or run - are exactly those
below `curr` in some slice) and `DrainInv` (a slice whose thread has left it, because it is done
or already steals, is exhausted: `curr` is at or past its upper bound; claims go only to
slices handed out). `NoTaskTwice`, `NoRace` and
the step simulation of `ParallelFor` follow: in particular `DrainInv` at the end of the
join says that all slices are exhausted, hence by `ClaimInv` all tasks have run. The slices need
`task_num = base * thread_num + remainder` only through `SliceInv`, established by the set-up loop.

*TaskQueue.* `QueueTypeOK` already contains the lock discipline. `FlagSound` is inductive with it;
the simulation of `SerialExecutor` needs it at `SyncReturn`. `NothingTaken`: if `exit_flag` was FALSE
when the worker started, nothing is taken from an empty queue, because once `exit_flag` is TRUE it stays.

*ExpertCache, slots.* `SlotPartition` is not inductive: it breaks when an expert that already has a
slot is put into a second one, and the loop of `reset_buffer` does not test for that. It is
safe there for two reasons, which the invariant states. `FullInv`: once the weights are
loaded, no layer has a free slot, and no operation makes one (a layer has at least as many
experts as slots, `ExpertCacheAssumption`, so loading them all fills it, by the pigeonhole
principle). `ControlInv`: while `reset_buffer` runs, the buffers of the experts still to load
are free, since `FirstBuffer` is at most the expert's own number. So the reload always takes a
buffer and never a slot. Look-ups and prefetches load only experts that are in no slot. The
lemmas `SlotLoad`, `EvictingLoad` and `BufferLoad` say what each way to load does to the
index.

*ExpertCache, weights.* `IndexTruthful` speaks of two streams that nothing orders with each other, so it
rests on time: when a place is given to an expert from one stream, the other must have no copy left
to that place. The host knows that only through events, and `WaitInv` says which event awaits each copy:
`PrefetchAwaited` and `CopyAwaited` (the last copy of a stream is covered by a `prefetch_lock`, a
`loading_lock` of a view, the barrier or an enqueued kernel), `ForwardInv` (in a forward every
copy is behind the barrier, or a miss of this layer behind its lock, or a prefetch for the next one)
and `KindInv` (a prefill finds the prefetch stream empty). `KernelWaits` says that a kernel whose expert still has
its place waits for all copies to it; with the truth of the index that gives the half of `CurrentWeights` about kernels that have their
place. For the others in decode, `DecodeInv`: at most one kernel is enqueued, and a view or kernel that has lost its place has
lost it to a view behind it, because a load displaces only an expert of its own layer, and from the slot it takes
(`DisplacedByLoad`): a look-up adds its view at the end, and a prefetch loads for the next layer.

*HybridSchedule.* `Divided` says that the GPU queue is the beginning of hits and misses in order, the CPU queue the
end, reversed, and `sorted_experts` what is between: hence `EachOnce`. `TakesOnGpu` is the time of the
GPU in closed form: some miss waited for its weights and the ones after it did not. `BalanceHelps` is
then that what either side was given last ended no later than it would have on the other (`Timed`), by
`MoveCost < GpuCost`, case by case.

*CPUExperts.* `HandInv` for `HandOff`: the stream is a sequence of complete groups copy, submit, sync, add
(`StreamShape`); only its first group can have begun (`HeadInv`, with what the pinned tensors and the worker
hold at each of the four); and what the host writes at once is the same for all groups in the stream
(`AtOnce`), since with the router's ids on the host there is one group at most, and otherwise the size is `TopK` for
all. `MemoryInv` for `UsesLiveMemory`: all requests of live objects are arranged in the block
in force, each fits it, the objects alive are those Python holds, one for each operator (so `Construct` finds a free address),
and what is enqueued names the one of its layer, or is a decoding task of a graph captured before a reload (the
`lm_head` is never reloaded, so its captured object is the one in use). `ShareInv` for `Contributions`: what the worker has
put out is `forward_one` of each token so far. That a group computed by `forward_many` is the same is `ManyAsOne`: rows are given
out one by one, without gaps, in the order of experts, because the offset of an expert counts the rows of those
before it (by counting: `Cardinality` of disjoint sets of routes).

*KVCache.* `CacheInv` is inductive for `NothingLost` and `WholeContext`: `CallInv` (where a call and its
chunks are), `PrefillInv` (how many blocks the prefill leaves, and that it leaves any only after a chunk of several
tokens), `TableInv` (the shared `block_table` is ascending unless a layer evicts, and shifted by what was evicted
when one has), `RowsInv` (the preselected rows name distinct blocks outside of the window) and `StoreInv` (as long as the layer is not
overtaken and in its room, each position is in its own block and slot). `HistoryInv` adds for
`EachTokenOnce` that a kept selection names full blocks, once each, and `CurrentInv` for `ReuseGap`
that it ends with the block that is being filled, and that there is none while the prompt goes on.

*KVAttention.* Every task has a place, which the proof chooses: still to do, in the sum of a thread, aside with a thread that has
met another head, in the output of its head, or overwritten. `AccountInv` says that there is such an
assignment and that every sum is the bag of what was placed there; `MutexInv` that who merges has the mutex
and has seen the output as it is, and that tasks to do have a thread to do them.

*InferenceServer, records.* `RInv` adds to `RecordsTruthful` which run a context
works for (`ContextInv`: while the runs of a thread do not overlap, the one that is active) and, in
`RecordInv`, how the status, `asked` and the database go together at each place a run can be: until it is in
progress no cancellation counts, then "cancelling" and `asked` are the same, and at `sync` the status already
says what happened. The database only ever receives `status` at `Sync`.

*InferenceServer, session.* `SInv` is `SessionInv` (every position of `ids` but
the newest one and those in `cut` has the key of its token, the zeros `torch.zeros` put in included; behind
the ids no key is left) together with `LockInv` (who decodes or ends holds the lock, and there is room in
`ids` for all it may still generate). `ContextIsIntact` follows from it while a request decodes;
`NewcomersAreServed` needs `Shared` and `Expected` to leave room, whatever `ids` holds, which is where
the lemmas of `NumberLemmas` about `Min` and `Max` enter: a newcomer's ids fit, so it neither exits nor writes out of
range, and fails only at the copy to a device whose context is spoilt already (`BreakStep`, `NewcomerStep`).

*LayerwisePrefill.* `StageInductive` is `TypeOK`, `HonestInv` (a `KLinearQ8` says it is loaded only if it
is), `UnmanagedInv` (modules `load_layer_to` does not touch are as `load_weights` left them) and `StageInv`
(for each stage of a forward: which layers are on the GPU, which modules are already in the mode of the
stage, and which modes `used` can hold; between forwards the model is either whole or has a layer that is not on the GPU,
so that a short forward cannot return from a half-restored model). `OneConfiguration` and `BackAsLoaded` are
what it says at the end of a forward.

*LayerwisePrefill, graph and failures.* `FreshInv` says which forward loaded the tensors that generate: the newest prefill by layers, or
the loading of the model; `GraphInv` that a graph holds the tensors of one prefill (`Captured(j)`), and that they are
the operators' own until the next begins. `ForetoldInv` has, while nothing has raised, the exact content of every operator in
each stage: those that generate (`GenInv`), those of the prefill before, while and after their layer is loaded
(`PreInv`), and that every module this forward has called could be called (`RanInv`). A forward therefore ends
without raising only if the choice of operators is not `Doomed`, and each way to raise is one that `Doomed` names.

*KVAnchors.* `AnchorInv`: an anchor of a block holds keys of that block and of the kv head its query head attends
to, and a block that was complete when the anchors were computed has one in every head. The settings that
break either are the exceptions `HeadsMatch` and `KeysReadable` name; a second lookup that goes astray is `LooksUpOnce`. `Grouped` is the arithmetic of it: a
query head's number divided by the size of a group is its kv head. Where one kernel serves consecutive blocks, the
least entry that does not continue the first one would contradict that they are consecutive (`ConsecutiveEntries`).

*Gates.* `MaskedChoice` is the counting argument: if a masked expert is among the best `TopK`, everything inside the
chosen groups with a positive score is there too, so there are fewer than `TopK` of those. It holds for any function
`f` of the experts, with the bias or without.

*Blocks.* `GivenInv` adds to `GivenToItsExperts` how far a block is (chosen, routed, returned) and that its tables have
`TopK` different experts for each token, in any order (`RouterChoices`). The decode of `KExpertsMarlin`, which has the weights wrong
(finding 3), is asked for the right experts, once each, whatever the weight. The loops over experts need no induction: what they add for one token is a set
of routes, and the routes of disjoint sets of experts are disjoint (`OneHotOk`, `DisjointBags`, `SplitGiven`).
`moe_infer` is a counting argument. Ranks are a permutation of the rows (`Ranked`, an injection of a finite set into
itself, `OneToOne`), so `Argsort` sorts (`ArgsortSorts`); the first rows of it are as many as the keys below
(`TotalCount`, `SortedSlices`), hence the slice a row is in is that of its expert, and `ScatterBack` puts its output
where the row came from. Over several ranks the same lemma is used three times: rows sorted by expert are sorted
by rank too (`RankSends`), what a rank receives is cut by source as it was sent (`Exchange`), and by source and expert
within that (`GroupSlices`), so a rank's second sort gives each row to its expert (`RankHandles`) and
the way back inverts the way there (`RankAnswers`, `RankGathers`). It rests on `RoutedExperts` being divided evenly
among ranks, as `moe_infer` does.

*GGUFTensors.* `TensorInv`: the offset is where the tensor begins, whatever precedes it (rounding up to the
alignment commutes with adding a multiple of it), and the loop over pieces has converted exactly the blocks before the next
piece, in order. The GPU reads the bits numpy reads (`SameBitsHold`) by one lemma for each type of tensor:
an element's number is split by division into the fields both programs index by.

*ModelLoading.* `LoadInv` says how far the loading is: what the recursion has written for a module (`ConfigOf`), what
`inject` made of it, and that what has been loaded is a parameter no operator stands for, or an operator. A rule that
is not recursive cuts exactly the modules the recursion no longer reaches (`ReachedUncut`), so the configuration of a
module is that of the first rule that matches (`RuleFound`), the default one only where none does. That the keys are
right is `KeyFound` and `DeviceFound`: whatever name a parameter is looked for by, if a file has it, it is the parameter's own,
and the entry of `tensor_device_map` is that of its own module, or there is none (`LoadDevice`). These rest on `NamesAssumption`, a finite fact
about the names of the three kinds of model, which mentions no rule and no device and which TLC evaluates whenever `single_calls` runs:
the rewriting of names is a recursion over their parts, which TLC can compute and TLAPS cannot. The theorem is
for lists of rules of any length over the classes and patterns of `Rules`, with any devices, where the run tries two; like the run,
it is about one layer of each kind of model.

*CausalAttention.* `SeesItsPast` speaks of one forward; what makes it inductive is what the conversation has left in the cache.
`SessionInv` says: every slot below the positions computed so far has the key of the token in `generated_ids`, but for `gaps`, which are
zero, and every slot behind them is zero; `past_tokens` is that number minus the lag (for `local_chat`, which may run ahead
in decode, during the prefill; later it is only known to be positive); the plan of the wrapper, when it need not be
made again, is for the step at hand; in decode, the token to be given next is the last one and the cache has room for
all that may come. `KeysWritten` is the cache after a forward, `GroupedReads` that the splits of the Triton kernel partition the
slots (`RowOfSplit`: division of a length in four with rounding up, empty splits at the end), `MaskRow` that the mask
built with `triu` and `cache_position` leaves each row the slots up to its own, `MLAReturns` and `ForwardReturns`, class by class,
what each query reads. `ChunkForward` and `StepForward` join these for the two actions; `PrefillKeeps`, `DecodeKeeps`,
`ThreadKeeps`, `SameKeeps` and `FailKeeps` are the steps of `SessionInv`.

Only model-checked:

* Liveness (`CallsReturn`, `QueueDrains`, `ForwardReturns`, `PassCompletes`, `Served`): fairness and
  `ENABLED` are out of reach of TLAPS as installed.

## 5. Plan

Done: pool and queue with their abstractions; cache of experts; schedule; CPU experts with their stream and scratch
memory; long-context cache in three modules; server; layer-wise prefill; routing; loading; static cache and attention.

Left, in order:

1. `KScoreAwareCache`: that an expert the router favours is kept, over a long decode.
2. `ExpertCache` with two devices (`slots2layer` is overwritten by the second one).
3. The destructor of `CPUInfer` and its replacement by one with more threads.

Not modelled, and why:

* Kernels and tensor arithmetic (Marlin, FP8, products and softmax of attention, RoPE, norms): floating point, without
  state; what the dequantisation and the attention kernels read is modelled.
* `DeepseekV3Model.forward` itself: the rule files put `KDeepseekV2Model` in its place, and its rotary positions
  come from `past_tokens`. The tail of the last page of the MLA cache, which no position has.
* The key-value header of GGUF, tokenisation, sampling, text output: parsing and formatting. The permutation of the
  attention rows of llama models is a fixed reshape.
* `TransformersInterface` used alone and ExLlamaV2: the first is the parent of what is modelled, without
  lock; the second is an external engine. `user_force_think` changes prompts only.
* The Ollama and legacy endpoints: they call `inference` as `chat_completion` does. Database CRUD: one SQL
  transaction per operation; the status of a run is modelled.
* Code without a caller: `reset_offload`, load, dump, clearing and sparsity of the KV cache, `MLP` as an
  injected operator. (`load_expert_tensor` is modelled although only reserved.)
* The web site, which keeps no state the rest depends on.
* GPU memory: `OutOfMemory` may happen once anywhere in a prefill by layers instead.
