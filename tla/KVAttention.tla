----------------------------- MODULE KVAttention -----------------------------
(***************************************************************************)
(* One call of KVCache::attention_layer_ or attention_kvhead_              *)
(* (ktransformers_ext/operators/kvcache/kvcache_attn.cpp): the threads of  *)
(* the Backend compute the attention of one token block by block, each     *)
(* keeps the sum of the blocks it met of one head, and merges it into the  *)
(* shared output, under the mutex of the head, when it meets another head  *)
(* or leaves the job.                                                      *)
(*                                                                         *)
(* What the Backend promises is taken from ParallelFor, which WorkStealing *)
(* implements: each task is given to one thread.  A sum is the bag of the  *)
(* slots of the cache it accounts for; the log-sum-exp that goes with it   *)
(* only matters where the code compares it with zero, and whether it is    *)
(* near zero is arbitrary.  A head is a pair of batch and kv head.         *)
(***************************************************************************)
EXTENDS Integers, FiniteSets, Bags

CONSTANTS
  AttnThreads,
  AttnHeads,     \* mutex_, output_fp32_ and attn_lse_ exist per head
  AttnBlocks,    \* max_block_num_after_retrieval_
  AttnBlockLen,
  ByteLen,       \* bits of an element of the mask, 8
  NoThread, NoHead

ASSUME KVAttentionAssumption ==
  /\ {AttnBlocks, AttnBlockLen, ByteLen} \subseteq Nat \ {0}
  /\ AttnBlockLen % ByteLen = 0 /\ AttnThreads # {}
  /\ NoThread \notin AttnThreads /\ NoHead \notin AttnHeads

VARIABLES
  seqlens,       \* cache_seqlens_ after the retrieval, of each head's batch
  todo,          \* tasks that no thread has begun
  pc,            \* of each thread
  block,         \* thread_local_output_fp32_: task and slots of one block
  cur_head,      \* thread_cur_head_idx_
  cur_output,    \* thread_local_cur_output_fp32_
  mutex,         \* mutex_: the holder, or NoThread
  seen,          \* output_fp32_ as the holder of the mutex read it
  output,        \* output_fp32_
  near_zero,     \* |attn_lse_| < 1e-6
  dropped        \* history: what was overwritten because of near_zero

attnVars == <<seqlens, todo, pc, block, cur_head, cur_output, mutex, seen,
              output, near_zero, dropped>>
shared == <<mutex, output, near_zero, dropped>>

Tasks == AttnHeads \X (0 .. AttnBlocks - 1)

(* attn_initialize_layer_ and attn_initialize_kvhead_, then the functions  *)
(* that do_work_stealing_job runs first in each thread.                    *)
AttnInit ==
  /\ seqlens \in [AttnHeads -> 1 .. AttnBlocks * AttnBlockLen]
  /\ todo = Tasks
  /\ pc = [t \in AttnThreads |-> "idle"]
  /\ block = [t \in AttnThreads |-> <<NoHead, EmptyBag>>]
  /\ cur_head = [t \in AttnThreads |-> NoHead]
  /\ cur_output = [t \in AttnThreads |-> EmptyBag]
  /\ mutex = [h \in AttnHeads |-> NoThread]
  /\ seen = [t \in AttnThreads |-> EmptyBag]
  /\ output = [h \in AttnHeads |-> EmptyBag]
  /\ near_zero = [h \in AttnHeads |-> TRUE]
  /\ dropped = [h \in AttnHeads |-> EmptyBag]

-----------------------------------------------------------------------------
(* Faulty variants of operators below, to show what the property detects. *)
WholeLastByte(n) == [i \in 0 .. AttnBlockLen \div ByteLen - 1 |->
                       IF i <= n \div ByteLen THEN 0 .. ByteLen - 1 ELSE {}]

-----------------------------------------------------------------------------
(* The mask of the last block: bytes of ones, one of the remaining bits,   *)
(* and zeros.                                                              *)
Mask(n) ==
  [i \in 0 .. AttnBlockLen \div ByteLen - 1 |->
     IF i < n \div ByteLen THEN 0 .. ByteLen - 1
     ELSE IF i = n \div ByteLen THEN 0 .. (n % ByteLen) - 1
     ELSE {}]

(* The slots of block b that attn_with_kvcache_one_block_ gives weight to: *)
(* all of a full block, those whose bit is set in the last one, and none   *)
(* beyond the sequence.                                                    *)
Visited(h, b) ==
  LET last == seqlens[h] \div AttnBlockLen
      n == seqlens[h] % AttnBlockLen
  IN IF b < last THEN 0 .. AttnBlockLen - 1
     ELSE IF b = last
          THEN {s \in 0 .. AttnBlockLen - 1 : s % ByteLen \in Mask(n)[s \div ByteLen]}
          ELSE {}

OneBlock(h, b) == SetToBag({b} \X Visited(h, b))

(* The task of head h and block b: skipped, added to the sum of the thread *)
(* (which is of the same head, or of none yet), or kept aside until the    *)
(* sum of another head is merged.                                          *)
Skip(t, h, b) ==
  /\ Visited(h, b) = {}
  /\ UNCHANGED <<pc, block, cur_head, cur_output>>

Accumulate(t, h, b) ==
  /\ Visited(h, b) # {} /\ cur_head[t] \in {h, NoHead}
  /\ cur_output' = [cur_output EXCEPT ![t] = @ (+) OneBlock(h, b)]
  /\ cur_head' = [cur_head EXCEPT ![t] = h]
  /\ UNCHANGED <<pc, block>>

Interrupt(t, h, b) ==
  /\ Visited(h, b) # {} /\ cur_head[t] \notin {h, NoHead}
  /\ block' = [block EXCEPT ![t] = <<h, OneBlock(h, b)>>]
  /\ pc' = [pc EXCEPT ![t] = "lock"]
  /\ UNCHANGED <<cur_head, cur_output>>

RunTask(t) ==
  /\ pc[t] = "idle"
  /\ \E h \in AttnHeads, b \in 0 .. AttnBlocks - 1 :
       /\ <<h, b>> \in todo /\ todo' = todo \ {<<h, b>>}
       /\ Skip(t, h, b) \/ Accumulate(t, h, b) \/ Interrupt(t, h, b)
  /\ UNCHANGED <<seqlens, seen, shared>>

(* A thread that finds nothing to claim or steal runs the last function of *)
(* the job.  Another thread may still have tasks to claim, when its slice  *)
(* is not published yet.                                                   *)
Leave(t) ==
  /\ pc[t] = "idle"
  /\ todo = {} \/ \E u \in AttnThreads \ {t} : pc[u] \in {"idle", "lock", "merge"}
  /\ pc' = [pc EXCEPT ![t] = IF cur_head[t] = NoHead THEN "done" ELSE "leaving"]
  /\ UNCHANGED <<seqlens, todo, block, cur_head, cur_output, seen, shared>>

-----------------------------------------------------------------------------
(* mutex_[batch][head]->lock(), then the shared sum is read ... *)
Free(t) == mutex[cur_head[t]] = NoThread

Lock(t) ==
  /\ pc[t] \in {"lock", "leaving"} /\ Free(t) /\ mutex[cur_head[t]] # t
  /\ mutex' = [mutex EXCEPT ![cur_head[t]] = t]
  /\ seen' = [seen EXCEPT ![t] = output[cur_head[t]]]
  /\ pc' = [pc EXCEPT ![t] = IF @ = "lock" THEN "merge" ELSE "last merge"]
  /\ UNCHANGED <<seqlens, todo, block, cur_head, cur_output, output, near_zero,
                 dropped>>

(* ... and written: the thread's sum takes its place if the log-sum-exp is *)
(* near zero, which is how an empty sum is recognised, and is added to it  *)
(* otherwise.                                                              *)
Merge(t) ==
  LET h == cur_head[t] IN
  /\ pc[t] \in {"merge", "last merge"}
  /\ IF near_zero[h]
     THEN /\ output' = [output EXCEPT ![h] = cur_output[t]]
          /\ dropped' = [dropped EXCEPT ![h] = @ (+) seen[t]]
     ELSE /\ output' = [output EXCEPT ![h] = seen[t] (+) cur_output[t]]
          /\ UNCHANGED dropped
  /\ \E z \in BOOLEAN : near_zero' = [near_zero EXCEPT ![h] = z]
  /\ mutex' = [mutex EXCEPT ![h] = NoThread]
  /\ seen' = [seen EXCEPT ![t] = EmptyBag]

(* The block that was kept aside begins the next sum. *)
NextOutput(t) == block[t][2]

MergeAndGoOn(t) ==
  /\ pc[t] = "merge" /\ Merge(t)
  /\ cur_head' = [cur_head EXCEPT ![t] = block[t][1]]
  /\ cur_output' = [cur_output EXCEPT ![t] = NextOutput(t)]
  /\ block' = [block EXCEPT ![t] = <<NoHead, EmptyBag>>]
  /\ pc' = [pc EXCEPT ![t] = "idle"]
  /\ UNCHANGED <<seqlens, todo>>

MergeAndLeave(t) ==
  /\ pc[t] = "last merge" /\ Merge(t)
  /\ pc' = [pc EXCEPT ![t] = "done"]
  /\ UNCHANGED <<seqlens, todo, block, cur_head, cur_output>>

AttnNext ==
  \E t \in AttnThreads : \/ RunTask(t) \/ Leave(t)
                         \/ Lock(t) \/ MergeAndGoOn(t) \/ MergeAndLeave(t)

AttnSpec == AttnInit /\ [][AttnNext]_attnVars

-----------------------------------------------------------------------------
(* Properties *)

AttnDone == \A t \in AttnThreads : pc[t] = "done"

(* The slots of the tokens of a head, by block. *)
Tokens(h) ==
  {<<p \div AttnBlockLen, p % AttnBlockLen>> : p \in 0 .. seqlens[h] - 1}

(* However the tasks are shared out and the merges interleave, when the    *)
(* job returns the output of a head accounts for each token once, and for  *)
(* no slot behind the last token; what is missing was overwritten when the *)
(* log-sum-exp of what had been merged before happened to be near zero     *)
(* (attention_layer_, attention_kvhead_).                                  *)
EachTokenWeighed ==
  AttnDone => \A h \in AttnHeads : output[h] (+) dropped[h] = SetToBag(Tokens(h))

=============================================================================
