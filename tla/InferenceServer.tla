-------------------------- MODULE InferenceServer --------------------------
(***************************************************************************)
(* The requests of the server: chat completions and runs of assistants     *)
(* share one KTransformersInterface, that is one array of ids, one static  *)
(* KV cache and one lock (server/backend/interfaces).  A request is a      *)
(* chain of async generators on one event loop: it gives way only where it *)
(* yields, where its client may be gone, a run be cancelled, or another    *)
(* run of the thread replace it in the thread's context.                   *)
(*                                                                         *)
(* A token is a number, 0 what torch.zeros put in; kv has at each position *)
(* the token whose key is cached there, 0 if none.  A history variable     *)
(* says so in its comment; no guard reads one.                             *)
(***************************************************************************)
EXTENDS Integers, SequencesExt, FiniteSetsExt

CONSTANTS
  Chats,       \* requests of /v1/chat/completions, each with a new uuid
  ThreadOf,    \* the threads of the runs of assistants, in order of creation
  Sampled,     \* tokens the model may answer with
  Prompts,     \* prompts of new conversations
  Tails,       \* what a client adds to the conversation it continues
  CacheLens,   \* args.cache_lens
  MaxNew,      \* args.max_new_tokens
  NoOne

Runs == DOMAIN ThreadOf
Requests == Chats \cup Runs
Threads == Range(ThreadOf)

ASSUME InferenceServerAssumption ==
  /\ Chats \cap Runs = {} /\ ThreadOf \in Seq(Threads)
  /\ NoOne \notin Requests \cup Threads
  /\ CacheLens \in Nat \ {0} /\ MaxNew \in Nat \ {0}
  /\ Sampled \subseteq Nat \ {0}
  /\ Prompts \cup Tails \subseteq Seq(Nat \ {0}) \ {<<>>}

VARIABLES
  ids, seq,    \* generated_ids, <<>> before the first prefill; seq_length
  last,        \* last_request_id
  kv,          \* the StaticCache
  lock, waiters,   \* _infer_lock: its holder, and who waits, in order
  closing,     \* generators that hold the lock, without consumer
  killed,      \* the process has exited
  poisoned,    \* a device-side assert: no CUDA call of the process works
  pc,          \* of each request: where it is
  left,        \* decode steps the request that decodes still has
  turn,        \* of each thread: its last message is the user's
  current,     \* the run of the thread's context
  status, db,  \* of each run: RunObject.status, and the one in the database
  asked,       \* history: runs whose cancellation met them in progress
  overlapped,  \* history: threads on which two runs were active at once
  cut          \* history: positions left behind without a key

session == <<ids, seq, last, kv, killed, poisoned, cut>>
mutex == <<lock, waiters, closing>>
records == <<turn, current, status, db, asked, overlapped>>
vars == <<session, mutex, records, pc, left>>

Id(r) == IF r \in Runs THEN ThreadOf[r] ELSE r
Goto(r, place) == pc' = [pc EXCEPT ![r] = place]
Release == lock' = NoOne

Init ==
  /\ ids = <<>> /\ seq = 0 /\ last = NoOne
  /\ kv = [i \in 1 .. CacheLens |-> 0]
  /\ lock = NoOne /\ waiters = <<>> /\ closing = {}
  /\ killed = FALSE /\ poisoned = FALSE
  /\ pc = [r \in Requests |-> "new"] /\ left = 0
  /\ turn = [t \in Threads |-> TRUE] /\ current = [t \in Threads |-> NoOne]
  /\ status = [r \in Runs |-> "queued"] /\ db = [r \in Runs |-> "absent"]
  /\ asked = {} /\ overlapped = {} /\ cut = {}

-----------------------------------------------------------------------------
(* Runs and threads. *)

Active(r) == pc[r] \in {"started", "waiting", "decoding", "ending", "sync"}

(* create_message: the user speaks.  Left out is a message no run follows. *)
Say(t) ==
  /\ \E r \in Runs : ThreadOf[r] = t /\ pc[r] = "new"
  /\ ~turn[t] /\ turn' = [turn EXCEPT ![t] = TRUE]
  /\ UNCHANGED <<session, mutex, pc, left, current, status, db, asked, overlapped>>

(* create_run: the row in the database, the context of the thread, which   *)
(* now works for this run, and ThreadContext.work up to its first yield.   *)
(* Runs are numbered as they are created.                                  *)
CreateRun(r) ==
  LET t == ThreadOf[r]
  IN /\ pc[r] = "new" /\ \A o \in 1 .. r - 1 : pc[o] # "new"
     /\ db' = [db EXCEPT ![r] = "queued"]
     /\ current' = [current EXCEPT ![t] = r]
     /\ turn' = [turn EXCEPT ![t] = FALSE]
     /\ Goto(r, IF turn[t] THEN "started" ELSE "failed")
     /\ overlapped' = overlapped \cup
          {u \in {t} : \E o \in Runs : ThreadOf[o] = u /\ Active(o)}
     /\ UNCHANGED <<session, mutex, left, status, asked>>

(* work: the run is announced as in progress, then waits for the lock. *)
CtxRun(r) == current[ThreadOf[r]]
InProgress(r) ==
  /\ pc[r] = "started"
  /\ status' = [status EXCEPT ![CtxRun(r)] = "in_progress"]
  /\ Goto(r, "waiting") /\ waiters' = Append(waiters, r)
  /\ UNCHANGED <<session, lock, closing, left, turn, current, db, asked, overlapped>>

(* chat_completion: the lock is asked for at once. *)
CreateChat(r) ==
  /\ pc[r] = "new"
  /\ Goto(r, "waiting") /\ waiters' = Append(waiters, r)
  /\ UNCHANGED <<session, lock, closing, left, records>>

(* cancel_run, for the run the context works for.  Left out is one while   *)
(* no run of the thread is active: nobody reads the status it sets.        *)
CancelRun(t) ==
  /\ \E r \in Runs : ThreadOf[r] = t /\ Active(r)
  /\ LET r == current[t]
     IN /\ status' = [status EXCEPT ![r] = "cancelling"]
        /\ asked' = asked \cup {o \in {r} : status[o] = "in_progress"}
  /\ UNCHANGED <<session, mutex, pc, left, turn, current, db, overlapped>>

-----------------------------------------------------------------------------
(* What ThreadContext.work makes of each item of the generator.            *)

Cancelling(r) == r \in Runs /\ status[CtxRun(r)] = "cancelling"

(* The next item reaches the client, or a cancelled run leaves the loop    *)
(* and its generator, which is closed later.                               *)
Leave(r) ==
  /\ status' = [status EXCEPT ![CtxRun(r)] = "cancelled"]
  /\ closing' = closing \cup {r} /\ Goto(r, "sync")
Deliver(r, place) ==
  IF Cancelling(r) THEN Leave(r)
  ELSE Goto(r, place) /\ UNCHANGED <<status, closing>>

-----------------------------------------------------------------------------
(* Prefill: from the lock to the first token, without a yield.             *)

(* A faulty variant: the last id generated counts as well. *)
SharedToTheEnd(prompt, length) ==
  Max({k \in 0 .. Min({length, Len(prompt) - 1}) : k <= Len(ids) /\
         SubSeq(prompt, 1, k) = SubSeq(ids, 1, k)} \cup {0})

(* The leading ids a new request shares with the last one; its last id and *)
(* the last one generated, which has no key yet, are never among them.     *)
Shared(prompt, length) ==
  Max({k \in 0 .. Min({length, Len(prompt)}) - 1 : k <= Len(ids) /\
         SubSeq(prompt, 1, k) = SubSeq(ids, 1, k)} \cup {0})

Keep(r, prompt) ==
  IF last = Id(r) THEN seq
  ELSE Shared(prompt, IF ids = <<>> THEN 1 ELSE seq)

(* A faulty variant: the ids of the last conversation stay. *)
KeepsAll(r, keep) == ids

KeptIds(r, keep) == IF last = Id(r) THEN ids ELSE SubSeq(ids, 1, keep)

(* A faulty variant: the length of TransformersInterface.prefill. *)
Uncapped(length) == length + MaxNew + 1

Expected(length) == Min({length + MaxNew + 1, CacheLens})

(* generate: max_new_tokens - 1 steps at most. *)
Steps(length) == Max({0, Min({MaxNew, CacheLens - length}) - 2})

(* torch.ne of the ids there are and the ids of the prompt. *)
Comparable(prompt) ==
  LET x == Min({seq, Len(ids)})
      y == Min({seq, Len(prompt)})
  IN ids # <<>> /\ (x = y \/ 1 \in {x, y})

(* The position whose token was generated last and has no key, if any. *)
Unkeyed == {i \in {seq} \cap DOMAIN ids : kv[i] # ids[i]}

Fail(r) == Release /\ Goto(r, "failed") /\ UNCHANGED <<left, status, closing>>

(* format_and_tokenize_input_ids fails before anything changed: the ids    *)
(* cannot be compared, or cannot be put on the device.                     *)
Mismatch(r) == Fail(r) /\ UNCHANGED session

(* Too long: prefill only notes the length, and generate ends at once. *)
TooLong(r, input) ==
  /\ seq' = Len(input) /\ last' = Id(r) /\ cut' = cut \cup Unkeyed
  /\ lock' = r /\ Goto(r, "ending") /\ left' = 0
  /\ UNCHANGED <<ids, kv, killed, poisoned, status, closing>>

(* The rest of the prompt goes behind what is kept.  The ids are written   *)
(* with an index tensor on the device: one past their end is no exception  *)
(* of this request but an assert that leaves the CUDA context unusable.    *)
Compute(r, keep, rest) ==
  LET kept == KeptIds(r, keep)
      length == keep + Len(rest)
      room == Expected(length) - Len(kept)
      blank == kept \o [i \in 1 .. room |-> 0]
      placed == keep + 1 .. length
      filled == [i \in DOMAIN blank |-> IF i \in placed THEN rest[i - keep] ELSE blank[i]]
      old == [i \in DOMAIN kv |-> IF last # Id(r) /\ i > keep THEN 0 ELSE kv[i]]
  IN /\ last' = Id(r)
     /\ cut' = IF last = Id(r) THEN cut \cup Unkeyed ELSE cut \cap 1 .. keep
     /\ \/ /\ room <= 0                              \* exit(0)
           /\ killed' = TRUE /\ seq' = length /\ ids' = kept /\ kv' = old
           /\ UNCHANGED poisoned /\ Fail(r)
        \/ /\ room > 0 /\ (rest = <<>> \/ length > Len(blank))
           /\ seq' = length /\ ids' = blank /\ kv' = old /\ UNCHANGED killed
           /\ poisoned' = (rest # <<>>) /\ Fail(r)
        \/ /\ room > 0 /\ rest # <<>> /\ length <= Len(blank)
           /\ kv' = [i \in DOMAIN kv |-> IF i \in placed THEN filled[i] ELSE old[i]]
           /\ UNCHANGED <<killed, poisoned>>
           /\ IF length = Len(blank)                 \* no room for the token
              THEN ids' = filled /\ seq' = length /\ Fail(r)
              ELSE /\ \E token \in Sampled : ids' = [filled EXCEPT ![length + 1] = token]
                   /\ seq' = length + 1 /\ lock' = r
                   /\ Deliver(r, "decoding")
                   /\ left' = IF Cancelling(r) THEN 0 ELSE Steps(length + 1)

(* A client sends a new conversation, or the one in ids and something new. *)
Sent ==
  Prompts \cup
  {SubSeq(ids, 1, seq) \o tail :
     tail \in {u \in Tails : seq \in DOMAIN ids /\ 0 \notin Range(SubSeq(ids, 1, seq))}}

Prefill(r) ==
  /\ pc[r] = "waiting" /\ lock = NoOne /\ waiters # <<>> /\ r = Head(waiters)
  /\ waiters' = Tail(waiters)
  /\ UNCHANGED <<turn, current, db, asked, overlapped>>
  /\ \E prompt \in Sent :
       LET input == IF last = Id(r) THEN SubSeq(prompt, seq + 1, Len(prompt)) ELSE prompt
       IN IF poisoned \/ (last = Id(r) /\ ~Comparable(prompt)) THEN Mismatch(r)
          ELSE IF Len(input) >= CacheLens THEN TooLong(r, input)
          ELSE LET keep == Keep(r, prompt)
               IN Compute(r, keep, SubSeq(prompt, keep + 1, Len(prompt)))

-----------------------------------------------------------------------------
(* Decoding, and the end of a request.                                     *)

notDecoding == <<last, killed, poisoned, cut, lock, waiters, turn, current, db, asked, overlapped>>

Decode(r) ==
  /\ pc[r] = "decoding" /\ left > 0
  /\ kv' = [kv EXCEPT ![seq] = ids[seq]]
  /\ \/ /\ Deliver(r, "ending") /\ left' = 0
        /\ UNCHANGED <<ids, seq>>
     \/ /\ \E token \in Sampled : ids' = [ids EXCEPT ![seq + 1] = token]
        /\ seq' = seq + 1 /\ Deliver(r, "decoding")
        /\ left' = IF Cancelling(r) THEN 0 ELSE left - 1
  /\ UNCHANGED notDecoding

Exhausted(r) ==
  /\ pc[r] = "decoding" /\ left = 0 /\ Deliver(r, "ending")
  /\ UNCHANGED <<ids, seq, kv, left, notDecoding>>

(* The item with the finish reason. *)
Reason(r) ==
  /\ pc[r] = "ending" /\ Cancelling(r) /\ Leave(r)
  /\ UNCHANGED <<session, lock, waiters, left, turn, current, db, asked, overlapped>>

(* A faulty variant: a cancellation during the last items is not seen. *)
AlwaysCompleted(s) == "completed"

(* The generator returns: the lock is free and the run over. *)
Outcome(s) == IF s = "cancelling" THEN "cancelled" ELSE "completed"
Return(r) ==
  /\ pc[r] = "ending" /\ Release
  /\ IF r \in Chats THEN Goto(r, "done") /\ UNCHANGED status
     ELSE IF status[CtxRun(r)] \in {"cancelling", "in_progress"}
     THEN /\ status' = [status EXCEPT ![CtxRun(r)] = Outcome(@)]
          /\ Goto(r, "sync")
     ELSE Goto(r, "raised") /\ UNCHANGED status      \* NotImplementedError
  /\ UNCHANGED <<session, waiters, closing, left, turn, current, db, asked, overlapped>>

(* sync_db of the context's run. *)
Sync(r) ==
  /\ pc[r] = "sync"
  /\ db' = [db EXCEPT ![CtxRun(r)] = status[CtxRun(r)]]
  /\ Goto(r, "done")
  /\ UNCHANGED <<session, mutex, left, turn, current, status, asked, overlapped>>

(* The client is gone: its generators are left wherever they are. *)
Drop(r) ==
  /\ Active(r) /\ Goto(r, "gone")
  /\ waiters' = RemoveFirst(waiters, r)
  /\ closing' = closing \cup ({r} \cap {lock})
  /\ left' = IF lock = r THEN 0 ELSE left
  /\ UNCHANGED <<session, lock, records>>

(* A faulty variant: closing a generator does not leave the lock. *)
KeepsLock(r) ==
  /\ r \in closing
  /\ closing' = closing \ {r}
  /\ UNCHANGED <<session, lock, waiters, pc, left, records>>

(* The event loop closes a generator nobody consumes any more. *)
Close(r) ==
  /\ r \in closing
  /\ Release /\ closing' = closing \ {r}
  /\ UNCHANGED <<session, waiters, pc, left, records>>

Work ==
  /\ ~killed
  /\ \E r \in Requests :
       \/ InProgress(r) \/ Close(r) \/ Sync(r) \/ Reason(r) \/ Return(r)
       \/ Exhausted(r) \/ Decode(r) \/ Prefill(r)

Next ==
  \/ Work
  \/ ~killed /\ \/ \E r \in Chats : CreateChat(r)
                \/ \E r \in Runs : CreateRun(r)
                \/ \E r \in Requests : Drop(r)
                \/ \E t \in Threads : Say(t) \/ CancelRun(t)

(* The event loop does not stand still while a generator can go on; a      *)
(* client that reads no more is one that is gone.                          *)
Spec == Init /\ [][Next]_vars /\ WF_vars(Work)
-----------------------------------------------------------------------------
(* Properties. *)

(* Every variable stays in its range, the ids never outgrow the cache, and *)
(* there is room for each token still to be generated.                     *)
TypeOK ==
  /\ ids \in Seq(Nat) /\ Len(ids) <= CacheLens /\ seq \in Nat
  /\ last \in {NoOne} \cup Chats \cup Threads
  /\ kv \in [1 .. CacheLens -> Nat]
  /\ lock \in Requests \cup {NoOne} /\ closing \subseteq {lock} \ {NoOne}
  /\ waiters \in Seq(Requests) /\ IsInjective(waiters)
  /\ pc \in [Requests -> {"new", "started", "waiting", "decoding", "ending",
                          "sync", "done", "gone", "failed", "raised"}]
  /\ \A r \in Requests : pc[r] = "decoding" => seq + left <= Len(ids)
  /\ current \in [Threads -> Runs \cup {NoOne}]
  /\ status \in [Runs -> {"queued", "in_progress", "cancelling", "cancelled",
                          "completed"}]
  /\ killed \in BOOLEAN /\ poisoned \in BOOLEAN /\ turn \in [Threads -> BOOLEAN]

(* While a request decodes, every position before its newest token has the *)
(* key of the token that stands there, whatever earlier requests were cut  *)
(* short, refused or dropped; only a generation that ended without EOS and *)
(* was continued, or followed by a refused prompt, leaves a position out.  *)
ContextIntact ==
  \A r \in Requests : pc[r] = "decoding" =>
    \A i \in 1 .. seq - 1 : i \in cut \/ kv[i] = ids[i]

(* A request of a new conversation is never refused with an exception,     *)
(* whatever ids the others left behind, and breaks nothing: only one that  *)
(* continues the last conversation, past the end of the cache, ends the    *)
(* process or spoils its CUDA context; newcomers fail only after that.     *)
Broken == killed \/ poisoned
NewcomerServed ==
  [][/\ \A r \in Requests :
          pc[r] = "waiting" /\ pc'[r] = "failed" => last = Id(r) \/ poisoned
     /\ Broken' /\ ~Broken =>
          \E r \in Requests : last = Id(r) /\ pc[r] = "waiting" /\ pc'[r] = "failed"]_vars

(* Unless two runs of a thread were active at once, the database says of a *)
(* run that ended what became of it: completed if no cancellation met it   *)
(* in progress, cancelled only if one did.                                 *)
RecordsTruthful ==
  \A r \in Runs : ThreadOf[r] \notin overlapped =>
    /\ db[r] = "completed" => r \notin asked
    /\ db[r] = "cancelled" => r \in asked
    /\ pc[r] = "done" => db[r] \in {"completed", "cancelled", "cancelling"}
    /\ pc[r] # "raised"

(* Whoever waits for the model gets it or leaves, though the clients of    *)
(* those before may go away at any moment with the lock held: the queue    *)
(* of the lock empties.                                                    *)
Served == waiters # <<>> ~> (waiters = <<>> \/ killed)
=============================================================================
