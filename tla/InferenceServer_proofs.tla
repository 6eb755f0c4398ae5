----------------------- MODULE InferenceServer_proofs -----------------------
(***************************************************************************)
(* Proofs about InferenceServer, for any number of chats, threads and      *)
(* runs, any prompts and any size of the cache.                            *)
(*                                                                         *)
(* RecordsTruthful: while the runs of a thread do not overlap, the context *)
(* of the thread works for the one that is active, so that what is said of *)
(* a status is said of that run; where the run is tells which statuses it  *)
(* may have, and whether it was asked to stop.                             *)
(***************************************************************************)
EXTENDS InferenceServer, NumberLemmas, TLAPS

Places == {"new", "started", "waiting", "decoding", "ending", "sync", "done",
           "gone", "failed", "raised"}
Statuses == {"queued", "in_progress", "cancelling", "cancelled", "completed"}

RecordTypes ==
  /\ pc \in [Requests -> Places]
  /\ \A r \in Chats : pc[r] \notin {"started", "sync"}
  /\ status \in [Runs -> Statuses]
  /\ db \in [Runs -> Statuses \cup {"absent"}]
  /\ current \in [Threads -> Runs \cup {NoOne}]

(* A context works for a run of its thread that was created, and for the   *)
(* active one unless two were active at once.                              *)
ContextInv ==
  /\ \A t \in Threads : current[t] \in Runs =>
       ThreadOf[current[t]] = t /\ pc[current[t]] # "new"
  /\ \A r \in Runs : Active(r) =>
       /\ CtxRun(r) \in Runs
       /\ ThreadOf[r] \notin overlapped => CtxRun(r) = r

NewRun(r) ==
  pc[r] = "new" => status[r] = "queued" /\ db[r] = "absent" /\ r \notin asked

(* What may be recorded of a run, by where it is. *)
Accounted(r) ==
  /\ pc[r] = "started" => status[r] \in {"queued", "cancelling"} /\ r \notin asked
  /\ pc[r] \in {"waiting", "decoding", "ending"} =>
       \/ status[r] = "in_progress" /\ r \notin asked
       \/ status[r] = "cancelling" /\ r \in asked
  /\ pc[r] = "sync" =>
       /\ status[r] \in {"completed", "cancelled", "cancelling"}
       /\ status[r] = "completed" => r \notin asked
       /\ status[r] = "cancelled" => r \in asked
  /\ pc[r] = "done" =>
       /\ db[r] \in {"completed", "cancelled", "cancelling"}
       /\ db[r] = "completed" => r \notin asked
       /\ db[r] = "cancelled" => r \in asked
  /\ pc[r] # "done" => db[r] \in {"absent", "queued"}
  /\ pc[r] # "raised"

RecordInv ==
  \A r \in Runs :
    NewRun(r) /\ (ThreadOf[r] \notin overlapped => Accounted(r))

RInv == RecordTypes /\ ContextInv /\ RecordInv

-----------------------------------------------------------------------------
(* What the constants are. *)
LEMMA Constants ==
  /\ Runs \cap Chats = {} /\ Runs \subseteq Requests /\ Chats \subseteq Requests
  /\ \A r \in Runs : ThreadOf[r] \in Threads
  /\ NoOne \notin Runs /\ NoOne \notin Requests
<1>1. Runs = DOMAIN ThreadOf
  BY DEF Runs
<1>2. \A r \in Runs : ThreadOf[r] \in Threads
  BY <1>1 DEF Threads, Range
<1> QED
  BY <1>2, InferenceServerAssumption DEF Requests

-----------------------------------------------------------------------------
(* The steps of a request, as far as its records are concerned.            *)

(* It goes from one place where its status is in force to another, or fails. *)
Advance(r) ==
  /\ pc[r] \in {"waiting", "decoding", "ending"}
  /\ \E place \in {"decoding", "ending", "failed"} : pc' = [pc EXCEPT ![r] = place]
  /\ UNCHANGED status

(* It leaves the loop because it is cancelled. *)
StopCancelled(r) ==
  /\ pc[r] \in {"waiting", "decoding", "ending"}
  /\ r \in Runs /\ status[CtxRun(r)] = "cancelling"
  /\ pc' = [pc EXCEPT ![r] = "sync"]
  /\ status' = [status EXCEPT ![CtxRun(r)] = "cancelled"]

(* Prefill and decoding change the records in one of these two ways only.  *)
LEMMA Deliveries ==
  ASSUME NEW r, NEW place \in {"decoding", "ending"}, Deliver(r, place),
         pc[r] \in {"waiting", "decoding", "ending"}
  PROVE  Advance(r) \/ StopCancelled(r)
BY DEF Deliver, Leave, Cancelling, Goto, Advance, StopCancelled

LEMMA PrefillRecords ==
  ASSUME NEW r, Prefill(r)
  PROVE  (Advance(r) \/ StopCancelled(r)) /\ UNCHANGED <<current, db, asked, overlapped>>
<1>1. pc[r] = "waiting" /\ UNCHANGED <<current, db, asked, overlapped>>
  BY DEF Prefill
<1>2. PICK prompt \in Sent :
        LET input == IF last = Id(r) THEN SubSeq(prompt, seq + 1, Len(prompt)) ELSE prompt
        IN IF poisoned \/ (last = Id(r) /\ ~Comparable(prompt)) THEN Mismatch(r)
           ELSE IF Len(input) >= CacheLens THEN TooLong(r, input)
           ELSE LET keep == Keep(r, prompt)
                IN Compute(r, keep, SubSeq(prompt, keep + 1, Len(prompt)))
  BY DEF Prefill
<1> DEFINE input == IF last = Id(r) THEN SubSeq(prompt, seq + 1, Len(prompt)) ELSE prompt
           keep == Keep(r, prompt)
           rest == SubSeq(prompt, keep + 1, Len(prompt))
<1>3. CASE Mismatch(r)
  BY <1>1, <1>3 DEF Mismatch, Fail, Goto, Advance
<1>4. CASE TooLong(r, input)
  <2> HIDE DEF input
  <2> QED BY <1>1, <1>4 DEF TooLong, Goto, Advance
<1>5. CASE Compute(r, keep, rest)
  <2> HIDE DEF keep, rest
  <2>1. Fail(r) \/ Deliver(r, "decoding")
    BY <1>5 DEF Compute
  <2>2. CASE Fail(r)
    BY <1>1, <2>2 DEF Fail, Goto, Advance
  <2>3. CASE Deliver(r, "decoding")
    BY <1>1, <2>3, Deliveries
  <2> QED BY <1>1, <2>1, <2>2, <2>3
<1>6. Mismatch(r) \/ TooLong(r, input) \/ Compute(r, keep, rest)
  BY <1>2
<1> QED BY <1>3, <1>4, <1>5, <1>6

LEMMA DecodeRecords ==
  ASSUME NEW r, Decode(r) \/ Exhausted(r) \/ Reason(r)
  PROVE  (Advance(r) \/ StopCancelled(r)) /\ UNCHANGED <<current, db, asked, overlapped>>
<1>1. CASE Decode(r)
  <2>1. pc[r] = "decoding" /\ (Deliver(r, "ending") \/ Deliver(r, "decoding"))
    BY <1>1 DEF Decode
  <2>2. UNCHANGED <<current, db, asked, overlapped>>
    BY <1>1 DEF Decode, notDecoding
  <2> QED BY <2>1, <2>2, Deliveries
<1>2. CASE Exhausted(r)
  BY <1>2, Deliveries DEF Exhausted, notDecoding
<1>3. CASE Reason(r)
  BY <1>3 DEF Reason, Leave, Cancelling, Goto, StopCancelled
<1> QED BY <1>1, <1>2, <1>3
LEMMA AdvanceKeeps ==
  ASSUME RInv, NEW r \in Requests, Advance(r),
         UNCHANGED <<current, db, asked, overlapped>>
  PROVE  RInv'
<1> PICK place \in {"decoding", "ending", "failed"} : pc' = [pc EXCEPT ![r] = place]
  BY DEF Advance
<1>1. RecordTypes'
  BY DEF RInv, RecordTypes, Advance, Places
<1>2. pc'[r] = place /\ (\A o \in Requests : o # r => pc'[o] = pc[o])
  BY DEF RInv, RecordTypes
<1>3. ContextInv'
  BY <1>2, Constants DEF RInv, RecordTypes, ContextInv, Advance, Active, CtxRun
<1>4. RecordInv'
  <2> SUFFICES ASSUME NEW o \in Runs
               PROVE  NewRun(o)' /\ (ThreadOf[o] \notin overlapped => Accounted(o)')
    BY DEF RecordInv
  <2>1. NewRun(o) /\ (ThreadOf[o] \notin overlapped => Accounted(o))
    BY DEF RInv, RecordInv
  <2>2. CASE o = r
    BY <1>2, <2>1, <2>2, Constants DEF NewRun, Accounted, Advance
  <2>3. CASE o # r
    BY <1>2, <2>1, <2>3, Constants DEF NewRun, Accounted, Advance
  <2> QED BY <2>2, <2>3
<1> QED BY <1>1, <1>3, <1>4 DEF RInv

(* A step of an active run changes the status of no other run, if its      *)
(* thread never had two.                                                   *)
LEMMA OwnStatus ==
  ASSUME RInv, NEW r \in Runs, Active(r), NEW s,
         NEW f, f = [status EXCEPT ![CtxRun(r)] = s]
  PROVE  /\ CtxRun(r) \in Runs /\ f[CtxRun(r)] = s /\ DOMAIN f = Runs
         /\ pc[CtxRun(r)] # "new"
         /\ ThreadOf[CtxRun(r)] = ThreadOf[r]
         /\ \A o \in Runs : o # CtxRun(r) => f[o] = status[o]
         /\ ThreadOf[r] \notin overlapped => CtxRun(r) = r
BY Constants DEF RInv, RecordTypes, ContextInv, CtxRun

LEMMA StopKeeps ==
  ASSUME RInv, NEW r \in Requests, StopCancelled(r),
         UNCHANGED <<current, db, asked, overlapped>>
  PROVE  RInv'
<1>1. r \in Runs /\ Active(r)
  BY DEF StopCancelled, Active
<1>2. /\ CtxRun(r) \in Runs /\ status'[CtxRun(r)] = "cancelled"
      /\ pc[CtxRun(r)] # "new" /\ ThreadOf[CtxRun(r)] = ThreadOf[r]
      /\ \A o \in Runs : o # CtxRun(r) => status'[o] = status[o]
      /\ ThreadOf[r] \notin overlapped => CtxRun(r) = r
  BY <1>1, OwnStatus DEF StopCancelled
<1>3. RecordTypes'
  BY <1>1, <1>2, Constants DEF RInv, RecordTypes, StopCancelled, Places, Statuses
<1>4. pc'[r] = "sync" /\ (\A o \in Requests : o # r => pc'[o] = pc[o])
  BY DEF RInv, RecordTypes, StopCancelled
<1>5. ContextInv'
  BY <1>1, <1>4, Constants DEF RInv, RecordTypes, ContextInv, Active, CtxRun
<1>6. RecordInv'
  <2> SUFFICES ASSUME NEW o \in Runs
               PROVE  NewRun(o)' /\ (ThreadOf[o] \notin overlapped => Accounted(o)')
    BY DEF RecordInv
  <2>1. NewRun(o) /\ (ThreadOf[o] \notin overlapped => Accounted(o))
    BY DEF RInv, RecordInv
  <2>2. CASE o = r
    BY <1>1, <1>2, <1>4, <2>1, <2>2 DEF NewRun, Accounted, StopCancelled
  <2>3. CASE o # r
    BY <1>1, <1>2, <1>4, <2>1, <2>3, Constants DEF NewRun, Accounted, StopCancelled
  <2> QED BY <2>2, <2>3
<1> QED BY <1>3, <1>5, <1>6 DEF RInv

LEMMA InProgressKeeps == ASSUME RInv, NEW r \in Runs, InProgress(r) PROVE RInv'
<1>1. Active(r) /\ pc[r] = "started" /\ UNCHANGED <<current, db, asked, overlapped>>
  BY DEF InProgress, Active
<1>2. /\ CtxRun(r) \in Runs /\ status'[CtxRun(r)] = "in_progress"
      /\ pc[CtxRun(r)] # "new" /\ ThreadOf[CtxRun(r)] = ThreadOf[r]
      /\ \A o \in Runs : o # CtxRun(r) => status'[o] = status[o]
      /\ ThreadOf[r] \notin overlapped => CtxRun(r) = r
  BY <1>1, OwnStatus DEF InProgress
<1>3. RecordTypes'
  BY <1>1, <1>2, Constants DEF RInv, RecordTypes, InProgress, Goto, Places, Statuses
<1>4. pc'[r] = "waiting" /\ (\A o \in Requests : o # r => pc'[o] = pc[o])
  BY Constants DEF RInv, RecordTypes, InProgress, Goto
<1>5. ContextInv'
  BY <1>1, <1>4, Constants DEF RInv, RecordTypes, ContextInv, Active, CtxRun
<1>6. RecordInv'
  <2> SUFFICES ASSUME NEW o \in Runs
               PROVE  NewRun(o)' /\ (ThreadOf[o] \notin overlapped => Accounted(o)')
    BY <1>1 DEF RecordInv
  <2>1. NewRun(o) /\ (ThreadOf[o] \notin overlapped => Accounted(o))
    BY DEF RInv, RecordInv
  <2>2. CASE o = r
    BY <1>1, <1>2, <1>4, <2>1, <2>2 DEF NewRun, Accounted
  <2>3. CASE o # r
    BY <1>1, <1>2, <1>4, <2>1, <2>3, Constants DEF NewRun, Accounted
  <2> QED BY <2>2, <2>3
<1> QED BY <1>3, <1>5, <1>6 DEF RInv

LEMMA ReturnKeeps == ASSUME RInv, NEW r \in Requests, Return(r) PROVE RInv'
<1>1. pc[r] = "ending" /\ UNCHANGED <<current, db, asked, overlapped>>
  BY DEF Return
<1>2. CASE r \in Chats
  <2>1. pc' = [pc EXCEPT ![r] = "done"] /\ status' = status /\ r \notin Runs
    BY <1>2, Constants DEF Return, Goto
  <2>2. RecordTypes'
    BY <1>1, <2>1 DEF RInv, RecordTypes, Places
  <2>3. \A o \in Runs : pc'[o] = pc[o]
    BY <2>1, Constants DEF RInv, RecordTypes
  <2>4. ContextInv'
    BY <1>1, <2>3 DEF RInv, ContextInv, RecordTypes, Active, CtxRun
  <2>5. RecordInv'
    BY <1>1, <2>1, <2>3 DEF RInv, RecordInv, NewRun, Accounted
  <2> QED BY <2>2, <2>4, <2>5 DEF RInv
<1>3. CASE r \in Runs
  <2>1. Active(r) /\ r \notin Chats
    BY <1>1, <1>3, Constants DEF Active
  <2>2. /\ CtxRun(r) \in Runs
        /\ pc[CtxRun(r)] # "new" /\ ThreadOf[CtxRun(r)] = ThreadOf[r]
        /\ ThreadOf[r] \notin overlapped => CtxRun(r) = r
    BY <1>3, <2>1, Constants DEF RInv, ContextInv, CtxRun
  <2>3. \/ /\ status[CtxRun(r)] \in {"cancelling", "in_progress"}
           /\ status' = [status EXCEPT ![CtxRun(r)] = Outcome(status[CtxRun(r)])]
           /\ pc' = [pc EXCEPT ![r] = "sync"]
        \/ /\ status[CtxRun(r)] \notin {"cancelling", "in_progress"}
           /\ UNCHANGED status /\ pc' = [pc EXCEPT ![r] = "raised"]
    BY <2>1 DEF Return, Goto
  <2>4. RecordTypes'
    BY <1>1, <1>3, <2>2, Constants, <2>3 DEF RInv, RecordTypes, Places, Statuses, Outcome
  <2>5. \A o \in Requests : o # r => pc'[o] = pc[o]
    BY <2>3 DEF RInv, RecordTypes
  <2>6. ContextInv'
    <3>1. pc'[r] \in {"sync", "raised"}
      BY <2>3 DEF RInv, RecordTypes
    <3> QED BY <1>1, <1>3, <2>1, <2>5, <3>1, Constants
            DEF RInv, RecordTypes, ContextInv, Active, CtxRun
  <2>7. RecordInv'
    <3> SUFFICES ASSUME NEW o \in Runs
                 PROVE  NewRun(o)' /\ (ThreadOf[o] \notin overlapped => Accounted(o)')
      BY <1>1 DEF RecordInv
    <3>1. NewRun(o) /\ (ThreadOf[o] \notin overlapped => Accounted(o))
      BY DEF RInv, RecordInv
    <3>2. o # CtxRun(r) => status'[o] = status[o]
      BY <2>2, <2>3 DEF RInv, RecordTypes
    <3>3. CASE o = r
      <4>1. pc'[r] \in {"sync", "raised"}
        BY <2>3 DEF RInv, RecordTypes
      <4>2. ThreadOf[o] \notin overlapped =>
              pc'[r] = "sync" /\ status'[r] = Outcome(status[r])
        BY <1>1, <1>3, <2>2, <2>3, <3>1, <3>3 DEF RInv, RecordTypes, Accounted
      <4> QED BY <1>1, <3>1, <3>3, <4>1, <4>2 DEF NewRun, Accounted, Outcome
    <3>4. CASE o # r
      BY <1>1, <2>2, <2>5, <3>1, <3>2, <3>4, Constants DEF NewRun, Accounted
    <3> QED BY <3>3, <3>4
  <2> QED BY <2>4, <2>6, <2>7 DEF RInv
<1> QED BY <1>2, <1>3 DEF Requests
LEMMA SyncKeeps == ASSUME RInv, NEW r \in Runs, Sync(r) PROVE RInv'
<1>1. /\ Active(r) /\ pc[r] = "sync" /\ UNCHANGED <<status, current, asked, overlapped>>
      /\ pc' = [pc EXCEPT ![r] = "done"]
      /\ db' = [db EXCEPT ![CtxRun(r)] = status[CtxRun(r)]]
  BY DEF Sync, Active, Goto
<1>2. /\ CtxRun(r) \in Runs
      /\ pc[CtxRun(r)] # "new" /\ ThreadOf[CtxRun(r)] = ThreadOf[r]
      /\ ThreadOf[r] \notin overlapped => CtxRun(r) = r
  BY <1>1, Constants DEF RInv, ContextInv, CtxRun
<1>3. /\ db'[CtxRun(r)] = status[CtxRun(r)]
      /\ \A o \in Runs : o # CtxRun(r) => db'[o] = db[o]
  BY <1>1, <1>2 DEF RInv, RecordTypes
<1>4. RecordTypes'
  BY <1>1, <1>2, Constants DEF RInv, RecordTypes, Places
<1>5. pc'[r] = "done" /\ (\A o \in Requests : o # r => pc'[o] = pc[o])
  BY <1>1, Constants DEF RInv, RecordTypes
<1>6. ContextInv'
  BY <1>1, <1>5, Constants DEF RInv, RecordTypes, ContextInv, Active, CtxRun
<1>7. RecordInv'
  <2> SUFFICES ASSUME NEW o \in Runs
               PROVE  NewRun(o)' /\ (ThreadOf[o] \notin overlapped => Accounted(o)')
    BY <1>1 DEF RecordInv
  <2>1. NewRun(o) /\ (ThreadOf[o] \notin overlapped => Accounted(o))
    BY DEF RInv, RecordInv
  <2>2. CASE o = r
    BY <1>1, <1>2, <1>3, <1>5, <2>1, <2>2 DEF NewRun, Accounted
  <2>3. CASE o # r
    BY <1>1, <1>2, <1>3, <1>5, <2>1, <2>3, Constants DEF NewRun, Accounted
  <2> QED BY <2>2, <2>3
<1> QED BY <1>4, <1>6, <1>7 DEF RInv

LEMMA DropKeeps == ASSUME RInv, NEW r \in Requests, Drop(r) PROVE RInv'
<1>1. Active(r) /\ pc' = [pc EXCEPT ![r] = "gone"] /\ UNCHANGED records
  BY DEF Drop, Goto
<1>2. pc'[r] = "gone" /\ (\A o \in Requests : o # r => pc'[o] = pc[o])
  BY <1>1 DEF RInv, RecordTypes
<1>3. RecordTypes'
  BY <1>1 DEF RInv, RecordTypes, Places, records
<1>4. ContextInv'
  BY <1>1, <1>2, Constants DEF RInv, RecordTypes, ContextInv, Active, CtxRun, records
<1>5. RecordInv'
  <2> SUFFICES ASSUME NEW o \in Runs
               PROVE  NewRun(o)' /\ (ThreadOf[o] \notin overlapped => Accounted(o)')
    BY <1>1 DEF RecordInv, records
  <2>1. NewRun(o) /\ (ThreadOf[o] \notin overlapped => Accounted(o))
    BY DEF RInv, RecordInv
  <2>2. CASE o = r
    BY <1>1, <1>2, <2>1, <2>2, Constants DEF NewRun, Accounted, Active, records
  <2>3. CASE o # r
    BY <1>1, <1>2, <2>1, <2>3, Constants DEF NewRun, Accounted, records
  <2> QED BY <2>2, <2>3
<1> QED BY <1>3, <1>4, <1>5 DEF RInv

LEMMA CreateRunKeeps == ASSUME RInv, NEW r \in Runs, CreateRun(r) PROVE RInv'
<1> DEFINE t == ThreadOf[r]
<1>1. /\ pc[r] = "new" /\ UNCHANGED <<status, asked>>
      /\ db' = [db EXCEPT ![r] = "queued"]
      /\ current' = [current EXCEPT ![t] = r]
      /\ pc' = [pc EXCEPT ![r] = IF turn[t] THEN "started" ELSE "failed"]
      /\ overlapped' = overlapped \cup
           {u \in {t} : \E o \in Runs : ThreadOf[o] = u /\ Active(o)}
  BY DEF CreateRun, Goto
<1>2. t \in Threads /\ r \in Requests
  BY Constants
<1> HIDE DEF t
<1>3. RecordTypes'
  BY <1>1, <1>2, Constants DEF RInv, RecordTypes, Places, Statuses
<1>4. /\ pc'[r] \in {"started", "failed"}
      /\ \A o \in Requests : o # r => pc'[o] = pc[o]
      /\ db'[r] = "queued" /\ \A o \in Runs : o # r => db'[o] = db[o]
      /\ current'[t] = r /\ \A u \in Threads : u # t => current'[u] = current[u]
  BY <1>1, <1>2 DEF RInv, RecordTypes
<1>5. ContextInv'
  <2>1. ASSUME NEW u \in Threads, current'[u] \in Runs
        PROVE  ThreadOf[current'[u]] = u /\ pc'[current'[u]] # "new"
    <3>1. CASE u = t
      BY <1>4, <3>1 DEF t
    <3>2. CASE u # t
      <4>1. current'[u] = current[u] /\ ThreadOf[current[u]] = u /\ pc[current[u]] # "new"
        BY <1>4, <2>1, <3>2 DEF RInv, ContextInv
      <4> QED BY <1>1, <1>4, <2>1, <4>1, Constants
    <3> QED BY <3>1, <3>2
  <2>2. ASSUME NEW o \in Runs, Active(o)'
        PROVE  CtxRun(o)' \in Runs /\ (ThreadOf[o] \notin overlapped' => CtxRun(o)' = o)
    <3>1. CASE o = r
      BY <1>4, <3>1 DEF CtxRun, t
    <3>2. CASE o # r
      <4>1. Active(o)
        BY <1>4, <2>2, <3>2, Constants DEF Active
      <4>2. CtxRun(o) \in Runs /\ (ThreadOf[o] \notin overlapped => CtxRun(o) = o)
        BY <4>1 DEF RInv, ContextInv
      <4>3. CASE ThreadOf[o] = t
        BY <1>1, <1>4, <4>1, <4>3 DEF CtxRun
      <4>4. CASE ThreadOf[o] # t
        BY <1>1, <1>4, <4>2, <4>4, Constants DEF CtxRun
      <4> QED BY <4>3, <4>4
    <3> QED BY <3>1, <3>2
  <2> QED BY <2>1, <2>2 DEF ContextInv
<1>6. RecordInv'
  <2> SUFFICES ASSUME NEW o \in Runs
               PROVE  NewRun(o)' /\ (ThreadOf[o] \notin overlapped' => Accounted(o)')
    BY DEF RecordInv
  <2>1. NewRun(o) /\ (ThreadOf[o] \notin overlapped => Accounted(o))
    BY DEF RInv, RecordInv
  <2>2. CASE o = r
    BY <1>1, <1>4, <2>1, <2>2 DEF NewRun, Accounted
  <2>3. CASE o # r
    <3>1. ThreadOf[o] \notin overlapped' => ThreadOf[o] \notin overlapped
      BY <1>1
    <3> QED BY <1>1, <1>4, <2>1, <2>3, <3>1, Constants DEF NewRun, Accounted
  <2> QED BY <2>2, <2>3
<1> QED BY <1>3, <1>5, <1>6 DEF RInv

LEMMA CancelRunKeeps == ASSUME RInv, NEW t \in Threads, CancelRun(t) PROVE RInv'
<1> DEFINE r == current[t]
<1>1. /\ UNCHANGED <<pc, current, db, overlapped>>
      /\ status' = [status EXCEPT ![r] = "cancelling"]
      /\ asked' = asked \cup {o \in {r} : status[o] = "in_progress"}
  BY DEF CancelRun
<1>2. PICK a \in Runs : ThreadOf[a] = t /\ Active(a)
  BY DEF CancelRun
<1>3. /\ r \in Runs /\ ThreadOf[r] = t /\ pc[r] # "new"
      /\ t \notin overlapped => r = a
  BY <1>2 DEF RInv, ContextInv, CtxRun
<1> HIDE DEF r
<1>4. status'[r] = "cancelling" /\ \A o \in Runs : o # r => status'[o] = status[o]
  BY <1>1, <1>3 DEF RInv, RecordTypes
<1>5. RecordTypes'
  BY <1>1, <1>3 DEF RInv, RecordTypes, Statuses
<1>6. ContextInv'
  BY <1>1 DEF RInv, ContextInv, Active, CtxRun
<1>7. RecordInv'
  <2> SUFFICES ASSUME NEW o \in Runs
               PROVE  NewRun(o)' /\ (ThreadOf[o] \notin overlapped => Accounted(o)')
    BY <1>1 DEF RecordInv
  <2>1. NewRun(o) /\ (ThreadOf[o] \notin overlapped => Accounted(o))
    BY DEF RInv, RecordInv
  <2>2. CASE o = r
    <3>1. t \notin overlapped => Active(o)
      BY <1>2, <1>3, <2>2
    <3> QED BY <1>1, <1>3, <1>4, <2>1, <2>2, <3>1 DEF NewRun, Accounted, Active
  <2>3. CASE o # r
    BY <1>1, <1>4, <2>1, <2>3 DEF NewRun, Accounted
  <2> QED BY <2>2, <2>3
<1> QED BY <1>5, <1>6, <1>7 DEF RInv

(* What changes neither a status nor a record, and moves no run.           *)
LEMMA OthersKeep ==
  ASSUME RInv, UNCHANGED <<status, db, current, asked, overlapped>>,
         pc' \in [Requests -> Places],
         \A r \in Chats : pc'[r] \notin {"started", "sync"}, \A r \in Runs : pc'[r] = pc[r]
  PROVE  RInv'
<1>1. RecordTypes'
  BY DEF RInv, RecordTypes
<1>2. ContextInv'
  BY DEF RInv, RecordTypes, ContextInv, Active, CtxRun
<1>3. RecordInv'
  BY DEF RInv, RecordInv, NewRun, Accounted
<1> QED BY <1>1, <1>2, <1>3 DEF RInv

LEMMA RecordsInit == Init => RInv
<1> SUFFICES ASSUME Init PROVE RInv
  OBVIOUS
<1>1. RecordTypes
  BY Constants DEF Init, RecordTypes, Places, Statuses
<1>2. ContextInv /\ RecordInv
  BY Constants DEF Init, ContextInv, RecordInv, NewRun, Accounted, Active, CtxRun
<1> QED BY <1>1, <1>2 DEF RInv

LEMMA RecordsStep == RInv /\ [Next]_vars => RInv'
<1> SUFFICES ASSUME RInv, [Next]_vars PROVE RInv'
  OBVIOUS
<1>1. ASSUME NEW r \in Requests, Prefill(r) PROVE RInv'
  BY <1>1, PrefillRecords, AdvanceKeeps, StopKeeps
<1>2. ASSUME NEW r \in Requests, Decode(r) \/ Exhausted(r) \/ Reason(r) PROVE RInv'
  BY <1>2, DecodeRecords, AdvanceKeeps, StopKeeps
<1>3. ASSUME NEW r \in Requests, InProgress(r) \/ Sync(r) PROVE RInv'
  <2>1. r \notin Chats
    BY <1>3 DEF InProgress, Sync, RInv, RecordTypes
  <2> QED BY <1>3, <2>1, InProgressKeeps, SyncKeeps DEF Requests
<1>4. ASSUME NEW r \in Requests, Close(r) PROVE RInv'
  BY <1>4, OthersKeep DEF Close, records, RInv, RecordTypes
<1>5. ASSUME NEW r \in Chats, CreateChat(r) PROVE RInv'
  BY <1>5, OthersKeep, Constants DEF CreateChat, Goto, records, RInv, RecordTypes, Places
<1>6. ASSUME NEW t \in Threads, Say(t) PROVE RInv'
  BY <1>6, OthersKeep DEF Say, RInv, RecordTypes
<1>7. CASE UNCHANGED vars
  BY <1>7, OthersKeep DEF vars, records, RInv, RecordTypes
<1> QED
  BY <1>1, <1>2, <1>3, <1>4, <1>5, <1>6, <1>7, ReturnKeeps, DropKeeps,
     CreateRunKeeps, CancelRunKeeps DEF Next, Work

(* The database tells the truth about every run whose thread never had two *)
(* active at once, whatever is cancelled, dropped or created in between.   *)
THEOREM RecordsAreTruthful == Spec => []RecordsTruthful
<1>1. RInv => RecordsTruthful
  BY DEF RInv, RecordInv, Accounted, RecordsTruthful
<1> QED BY <1>1, RecordsInit, RecordsStep, PTL DEF Spec

-----------------------------------------------------------------------------
(***************************************************************************)
(* Proofs about the session all requests of InferenceServer share: the     *)
(* ids, the keys cached for them and the lock.                             *)
(*                                                                         *)
(* ContextIntact needs more than it says: every position of ids has the    *)
(* key of its token, but the newest one and those in cut; behind the ids   *)
(* no key is left; only the holder of the lock decodes, and there is room  *)
(* for all it may still generate.                                          *)
(***************************************************************************)

SessionTypes ==
  /\ ids \in Seq(Nat) /\ Len(ids) <= CacheLens
  /\ seq \in Nat /\ (ids # <<>> => seq >= 1)
  /\ kv \in [1 .. CacheLens -> Nat]

Keyed ==
  /\ \A i \in 1 .. Len(ids) : i = seq \/ i \in cut \/ kv[i] = ids[i]
  /\ \A i \in 1 .. CacheLens : i > Len(ids) => kv[i] = 0

SessionInv == SessionTypes /\ Keyed

LockInv ==
  /\ pc \in [Requests -> Places] /\ left \in Nat
  /\ closing \subseteq {lock} /\ NoOne \notin closing
  /\ \A r \in closing : pc[r] \in {"sync", "done", "gone"}
  /\ \A r \in Requests : pc[r] \in {"decoding", "ending"} => lock = r
  /\ \A r \in Requests : pc[r] = "decoding" => seq >= 1 /\ seq + left <= Len(ids)

SInv == SessionInv /\ LockInv

-----------------------------------------------------------------------------
(* The operators of prefill. *)

(* What a client sends is a conversation of at least one token.            *)
LEMMA Sends == ASSUME SessionInv PROVE Sent \subseteq Seq(Nat) \ {<<>>}
<1> SUFFICES ASSUME NEW p \in Sent PROVE p \in Seq(Nat) /\ p # <<>>
  OBVIOUS
<1>1. CASE p \in Prompts
  <2>1. p \in Seq(Nat \ {0}) /\ p # <<>>
    BY <1>1, InferenceServerAssumption
  <2> QED BY <2>1
<1>2. CASE \E tail \in Tails : seq \in DOMAIN ids /\ p = SubSeq(ids, 1, seq) \o tail
  <2> PICK tail \in Tails : seq \in DOMAIN ids /\ p = SubSeq(ids, 1, seq) \o tail
    BY <1>2
  <2>1. tail \in Seq(Nat \ {0}) /\ tail # <<>>
    BY InferenceServerAssumption
  <2>2. tail \in Seq(Nat) /\ Len(tail) >= 1
    BY <2>1
  <2>3. SubSeq(ids, 1, seq) \in Seq(Nat)
    BY DEF SessionInv, SessionTypes
  <2>4. p \in Seq(Nat) /\ Len(p) >= 1
    BY <2>2, <2>3
  <2> QED BY <2>4
<1> QED BY <1>1, <1>2 DEF Sent

(* The ids a request shares with the last one end before its own last id   *)
(* and before the newest token.                                            *)
LEMMA SharedBounds ==
  ASSUME ids \in Seq(Nat), NEW prompt \in Seq(Nat), prompt # <<>>,
         NEW length \in Nat, length >= 1
  PROVE  /\ Shared(prompt, length) \in Nat
         /\ Shared(prompt, length) < length /\ Shared(prompt, length) < Len(prompt)
         /\ Shared(prompt, length) <= Len(ids)
         /\ SubSeq(prompt, 1, Shared(prompt, length)) = SubSeq(ids, 1, Shared(prompt, length))
<1> DEFINE n == Min({length, Len(prompt)}) - 1
           S == {k \in 0 .. n : k <= Len(ids) /\
                   SubSeq(prompt, 1, k) = SubSeq(ids, 1, k)} \cup {0}
<1>1. Len(prompt) \in Nat /\ Len(prompt) >= 1
  OBVIOUS
<1>2. n \in Nat /\ n < length /\ n < Len(prompt)
  <2> DEFINE l == Len(prompt)
  <2>1. l \in Int /\ l >= 1
    BY <1>1
  <2> HIDE DEF l
  <2>2. Min({length, l}) \in Int /\ Min({length, l}) = IF length <= l THEN length ELSE l
    BY <2>1, MinOfTwo
  <2> QED BY <2>1, <2>2 DEF l
<1> HIDE DEF n
<1>3. S \in SUBSET (0 .. n) /\ S # {}
  BY <1>2
<1>4. SubSeq(prompt, 1, 0) = SubSeq(ids, 1, 0)
  OBVIOUS
<1>5. Max(S) \in S
  <2> HIDE DEF S
  <2> QED BY <1>2, <1>3, MaxOfBounded
<1>6. /\ Max(S) \in 0 .. n /\ Max(S) <= Len(ids)
      /\ SubSeq(prompt, 1, Max(S)) = SubSeq(ids, 1, Max(S))
  <2> DEFINE m == Max(S)
  <2>1. m = 0 \/ (m \in 0 .. n /\ m <= Len(ids) /\ SubSeq(prompt, 1, m) = SubSeq(ids, 1, m))
    BY <1>5
  <2> HIDE DEF m, S
  <2>2. CASE m = 0
    BY <1>2, <1>4, <2>2 DEF m
  <2> QED BY <2>1, <2>2 DEF m
<1>7. Shared(prompt, length) = Max(S)
  BY DEF Shared, n
<1> HIDE DEF S
<1> QED BY <1>2, <1>6, <1>7

LEMMA ExpectedBounds ==
  ASSUME NEW length \in Nat
  PROVE  /\ Expected(length) \in Int /\ Expected(length) <= CacheLens
         /\ length < CacheLens => Expected(length) > length
         /\ Steps(length + 1) \in Nat
         /\ length + 1 <= Expected(length) =>
              length + 1 + Steps(length + 1) <= Expected(length)
<1> DEFINE m == Min({MaxNew, CacheLens - (length + 1)})
<1>1. CacheLens \in Nat \ {0} /\ MaxNew \in Nat \ {0}
  BY InferenceServerAssumption
<1>2. Expected(length) = IF length + MaxNew + 1 <= CacheLens THEN length + MaxNew + 1 ELSE CacheLens
  BY <1>1, MinOfTwo DEF Expected
<1>3. m \in Int /\ m <= MaxNew /\ m <= CacheLens - (length + 1)
  BY <1>1, MinOfTwo
<1>4. Steps(length + 1) = Max({0, m - 2})
  BY DEF Steps
<1> HIDE DEF m
<1>5. Max({0, m - 2}) = IF 0 <= m - 2 THEN m - 2 ELSE 0
  BY <1>3, MaxOfTwo
<1> QED BY <1>1, <1>2, <1>3, <1>4, <1>5

(* The ids with room for what may be generated. *)
LEMMA Blank ==
  ASSUME NEW s \in Seq(Nat), NEW n \in Nat,
         NEW b, b = s \o [i \in 1 .. n |-> 0]
  PROVE  /\ b \in Seq(Nat) /\ Len(b) = Len(s) + n /\ DOMAIN b = 1 .. Len(s) + n
         /\ \A i \in 1 .. Len(s) : b[i] = s[i]
         /\ \A i \in 1 .. Len(s) + n : i > Len(s) => b[i] = 0
<1> DEFINE z == [i \in 1 .. n |-> 0]
<1>1. z \in Seq(Nat) /\ Len(z) = n /\ \A i \in 1 .. n : z[i] = 0
  OBVIOUS
<1> HIDE DEF z
<1>2. b = s \o z
  BY DEF z
<1>3. b \in Seq(Nat) /\ Len(b) = Len(s) + n
  BY <1>1, <1>2
<1>4. \A i \in 1 .. Len(s) : b[i] = s[i]
  BY <1>1, <1>2
<1>5. ASSUME NEW i \in 1 .. Len(s) + n, i > Len(s) PROVE b[i] = 0
  <2>1. b[i] = z[i - Len(s)] /\ i - Len(s) \in 1 .. n
    BY <1>1, <1>2, <1>5
  <2> QED BY <1>1, <2>1
<1> QED BY <1>3, <1>4, <1>5

-----------------------------------------------------------------------------
(* Prefill.                                                                *)

(* What computing the rest of a prompt starts from: its holder continues   *)
(* its own conversation, or keeps a part of the ids without the newest.    *)
Base(r, keep, rest) ==
  /\ keep \in Nat /\ rest \in Seq(Nat)
  /\ last = Id(r) => keep = seq /\ ids # <<>>
  /\ last # Id(r) => keep <= Len(ids) /\ (ids # <<>> => keep < seq) /\ rest # <<>>

(* The keys and left-behind positions after the tidying up. *)
OldKeys(r, keep) == [i \in DOMAIN kv |-> IF last # Id(r) /\ i > keep THEN 0 ELSE kv[i]]
Behind(r, keep) == IF last = Id(r) THEN cut \cup Unkeyed ELSE cut \cap 1 .. keep

LEMMA Tidied ==
  ASSUME SessionInv, NEW r, NEW keep, NEW rest, Base(r, keep, rest),
         NEW kept, kept = KeptIds(r, keep),
         NEW old, old = OldKeys(r, keep), NEW behind, behind = Behind(r, keep)
  PROVE  /\ kept \in Seq(Nat) /\ Len(kept) <= CacheLens
         /\ last # Id(r) => Len(kept) = keep
         /\ last = Id(r) => kept # <<>>
         /\ old \in [1 .. CacheLens -> Nat]
         /\ \A i \in 1 .. Len(kept) : i \in behind \/ old[i] = kept[i]
         /\ \A i \in 1 .. CacheLens : i > Len(kept) => old[i] = 0
<1>1. SessionTypes /\ Keyed
  BY DEF SessionInv
<1>2. CacheLens \in Nat
  BY InferenceServerAssumption
<1>3. old \in [1 .. CacheLens -> Nat]
  BY <1>1 DEF SessionTypes, OldKeys
<1>4. CASE last = Id(r)
  <2>1. kept = ids /\ keep = seq /\ ids # <<>> /\ behind = cut \cup Unkeyed
    BY <1>4 DEF Base, KeptIds, Behind
  <2>2. \A i \in 1 .. CacheLens : old[i] = kv[i]
    BY <1>1, <1>4 DEF SessionTypes, OldKeys
  <2>3. ASSUME NEW i \in 1 .. Len(kept) PROVE i \in behind \/ old[i] = kept[i]
    <3>1. i \in 1 .. Len(ids) /\ i \in 1 .. CacheLens
      BY <1>1, <1>2, <2>1 DEF SessionTypes
    <3>2. i = seq \/ i \in cut \/ kv[i] = ids[i]
      BY <1>1, <3>1 DEF Keyed
    <3>3. i = seq => i \in Unkeyed \/ kv[i] = ids[i]
      BY <1>1, <3>1 DEF Unkeyed, SessionTypes
    <3> QED BY <2>1, <2>2, <3>1, <3>2, <3>3
  <2> QED BY <1>1, <1>3, <1>4, <2>1, <2>2, <2>3 DEF SessionTypes, Keyed
<1>5. CASE last # Id(r)
  <2>1. /\ kept = SubSeq(ids, 1, keep) /\ keep <= Len(ids) /\ keep \in Nat
        /\ behind = cut \cap 1 .. keep /\ (ids # <<>> => keep < seq)
    BY <1>5 DEF Base, KeptIds, Behind
  <2>2. kept \in Seq(Nat) /\ Len(kept) = keep /\ \A i \in 1 .. keep : kept[i] = ids[i]
    BY <1>1, <2>1 DEF SessionTypes
  <2>3. \A i \in 1 .. CacheLens : old[i] = IF i > keep THEN 0 ELSE kv[i]
    BY <1>1, <1>5 DEF SessionTypes, OldKeys
  <2>4. ASSUME NEW i \in 1 .. Len(kept) PROVE i \in behind \/ old[i] = kept[i]
    <3>1. i \in 1 .. Len(ids) /\ i \in 1 .. CacheLens /\ i \in 1 .. keep /\ i # seq
      BY <1>1, <1>2, <2>1, <2>2 DEF SessionTypes
    <3>2. i \in cut \/ kv[i] = ids[i]
      BY <1>1, <3>1 DEF Keyed
    <3> QED BY <2>1, <2>2, <2>3, <3>1, <3>2
  <2>5. Len(kept) <= CacheLens
    BY <1>1, <1>2, <2>1, <2>2 DEF SessionTypes
  <2>6. \A i \in 1 .. CacheLens : i > Len(kept) => old[i] = 0
    BY <2>2, <2>3
  <2> QED BY <1>3, <1>5, <2>2, <2>4, <2>5, <2>6
<1> QED BY <1>4, <1>5

(* The lock is free: nobody decodes, no generator waits to be closed.      *)
LEMMA Idle ==
  ASSUME LockInv, lock = NoOne
  PROVE  closing = {} /\ \A o \in Requests : pc[o] \notin {"decoding", "ending"}
BY Constants DEF LockInv

LEMMA FailKeepsLock ==
  ASSUME LockInv, lock = NoOne, NEW r \in Requests, Fail(r)
  PROVE  LockInv'
<1>1. /\ lock' = NoOne /\ closing' = {} /\ left' = left
      /\ pc' = [pc EXCEPT ![r] = "failed"]
  BY Idle DEF Fail, Release, Goto
<1>2. pc' \in [Requests -> Places] /\ \A o \in Requests : pc'[o] \notin {"decoding", "ending"}
  BY <1>1, Idle DEF LockInv, Places
<1> QED BY <1>1, <1>2, Constants DEF LockInv

(* Whoever takes the free lock ends, decodes with room enough, or stops.   *)
LEMMA TakingKeepsLock ==
  ASSUME LockInv, lock = NoOne, NEW r \in Requests, lock' = r,
         NEW place \in Places, pc' = [pc EXCEPT ![r] = place],
         closing' \subseteq {r}, closing' # {} => place = "sync",
         left' \in Nat, place = "decoding" => seq' >= 1 /\ seq' + left' <= Len(ids')
  PROVE  LockInv'
<1>1. pc'[r] = place /\ \A o \in Requests : o # r => pc'[o] = pc[o]
  BY DEF LockInv
<1>2. pc' \in [Requests -> Places]
  BY DEF LockInv
<1> QED BY <1>1, <1>2, Idle, Constants DEF LockInv

LEMMA TooLongKeeps ==
  ASSUME SInv, lock = NoOne, NEW r \in Requests, NEW input \in Seq(Nat),
         Len(input) >= CacheLens, TooLong(r, input)
  PROVE  SInv'
<1>1. SessionInv /\ LockInv /\ CacheLens \in Nat \ {0}
  BY InferenceServerAssumption DEF SInv
<1>2. /\ seq' = Len(input) /\ UNCHANGED <<ids, kv>> /\ cut' = cut \cup Unkeyed
      /\ lock' = r /\ pc' = [pc EXCEPT ![r] = "ending"] /\ left' = 0 /\ closing' = closing
  BY DEF TooLong, Goto
<1>3. SessionTypes'
  <2>1. Len(input) \in Nat /\ Len(input) >= 1
    BY <1>1
  <2> QED BY <1>1, <1>2, <2>1 DEF SessionInv, SessionTypes
<1>4. Keyed'
  <2>1. ASSUME NEW i \in 1 .. Len(ids) PROVE i \in cut' \/ kv[i] = ids[i]
    <3>1. i = seq \/ i \in cut \/ kv[i] = ids[i]
      BY <1>1 DEF SessionInv, Keyed
    <3>2. i = seq => i \in Unkeyed \/ kv[i] = ids[i]
      BY <1>1 DEF Unkeyed, SessionInv, SessionTypes
    <3> QED BY <1>2, <3>1, <3>2
  <2> QED BY <1>1, <1>2, <2>1 DEF SessionInv, Keyed
<1>5. LockInv'
  <2>1. closing' = {}
    BY <1>1, <1>2, Idle
  <2>2. "ending" \in Places /\ left' \in Nat
    BY <1>2 DEF Places
  <2> QED BY <1>1, <1>2, <2>1, <2>2, TakingKeepsLock
<1> QED BY <1>3, <1>4, <1>5 DEF SInv, SessionInv

(* Computing a prompt keeps the invariant, and succeeds for a newcomer.    *)
LEMMA ComputeKeeps ==
  ASSUME SInv, lock = NoOne, NEW r \in Requests, pc[r] = "waiting",
         NEW keep, NEW rest, Base(r, keep, rest), Compute(r, keep, rest)
  PROVE  /\ SInv'
         /\ last # Id(r) /\ keep + Len(rest) < CacheLens => pc'[r] # "failed"
<1> DEFINE kept == KeptIds(r, keep)
           length == keep + Len(rest)
           room == Expected(length) - Len(kept)
           blank == kept \o [i \in 1 .. room |-> 0]
           placed == keep + 1 .. length
           filled == [i \in DOMAIN blank |-> IF i \in placed THEN rest[i - keep] ELSE blank[i]]
           old == OldKeys(r, keep)
           behind == Behind(r, keep)
<1>1. /\ cut' = behind
      /\ \/ /\ room <= 0
            /\ seq' = length /\ ids' = kept /\ kv' = old
            /\ Fail(r)
         \/ /\ room > 0 /\ (rest = <<>> \/ length > Len(blank))
            /\ seq' = length /\ ids' = blank /\ kv' = old
            /\ Fail(r)
         \/ /\ room > 0 /\ rest # <<>> /\ length <= Len(blank)
            /\ kv' = [i \in DOMAIN kv |-> IF i \in placed THEN filled[i] ELSE old[i]]
            /\ IF length = Len(blank)
               THEN ids' = filled /\ seq' = length /\ Fail(r)
               ELSE /\ \E token \in Sampled : ids' = [filled EXCEPT ![length + 1] = token]
                    /\ seq' = length + 1 /\ lock' = r
                    /\ Deliver(r, "decoding")
                    /\ left' = IF Cancelling(r) THEN 0 ELSE Steps(length + 1)
  BY DEF Compute, OldKeys, Behind
<1>2. SessionInv /\ SessionTypes /\ LockInv /\ CacheLens \in Nat /\ Sampled \subseteq Nat
  BY InferenceServerAssumption DEF SInv, SessionInv
<1>3. /\ kept \in Seq(Nat) /\ Len(kept) <= CacheLens
      /\ last # Id(r) => Len(kept) = keep
      /\ last = Id(r) => kept # <<>>
      /\ old \in [1 .. CacheLens -> Nat]
      /\ \A i \in 1 .. Len(kept) : i \in behind \/ old[i] = kept[i]
      /\ \A i \in 1 .. CacheLens : i > Len(kept) => old[i] = 0
  BY <1>2, Tidied
<1>4. /\ keep \in Nat /\ rest \in Seq(Nat) /\ length \in Nat
      /\ length >= 1
      /\ last # Id(r) => rest # <<>> /\ keep <= length - 1
  <2>1. keep \in Nat /\ rest \in Seq(Nat) /\ Len(rest) \in Nat
    BY DEF Base
  <2>2. CASE last = Id(r)
    BY <1>2, <2>1, <2>2 DEF Base, SessionTypes
  <2>3. CASE last # Id(r)
    <3>1. Len(rest) >= 1
      BY <2>1, <2>3 DEF Base
    <3> QED BY <2>1, <2>3, <3>1 DEF Base
  <2> QED BY <2>1, <2>2, <2>3
<1>5. /\ Expected(length) \in Int /\ Expected(length) <= CacheLens
      /\ length < CacheLens => Expected(length) > length
      /\ Steps(length + 1) \in Nat
      /\ length + 1 <= Expected(length) =>
           length + 1 + Steps(length + 1) <= Expected(length)
  BY <1>4, ExpectedBounds
<1>6. kv' \in [1 .. CacheLens -> Nat] =>
        (SessionTypes' <=> ids' \in Seq(Nat) /\ Len(ids') <= CacheLens /\ seq' \in Nat
                             /\ (ids' # <<>> => seq' >= 1))
  BY DEF SessionTypes
<1> HIDE DEF kept, old, behind, length
<1>7. CASE room <= 0 /\ seq' = length /\ ids' = kept /\ kv' = old /\ Fail(r)
  <2>1. SessionTypes'
    BY <1>3, <1>4, <1>6, <1>7
  <2>2. Keyed'
    BY <1>1, <1>3, <1>7 DEF Keyed
  <2>3. LockInv'
    BY <1>2, <1>7, FailKeepsLock
  <2>4. last # Id(r) => ~(length < CacheLens)
    BY <1>3, <1>4, <1>5, <1>7
  <2> QED BY <2>1, <2>2, <2>3, <2>4 DEF SInv, SessionInv, length
<1>8. CASE room > 0
  <2> room \in Nat
    BY <1>3, <1>5, <1>8
  <2>1. /\ blank \in Seq(Nat) /\ Len(blank) = Expected(length)
        /\ DOMAIN blank = 1 .. Expected(length)
        /\ \A i \in 1 .. Len(kept) : blank[i] = kept[i]
        /\ \A i \in 1 .. Expected(length) : i > Len(kept) => blank[i] = 0
    <3> DEFINE n == room
    <3>1. Len(kept) + n = Expected(length) /\ n \in Nat
      BY <1>3, <1>5
    <3> HIDE DEF n
    <3>2. blank = kept \o [i \in 1 .. n |-> 0]
      BY DEF n
    <3> HIDE DEF blank
    <3>3. /\ blank \in Seq(Nat) /\ Len(blank) = Len(kept) + n
          /\ DOMAIN blank = 1 .. Len(kept) + n
          /\ \A i \in 1 .. Len(kept) : blank[i] = kept[i]
          /\ \A i \in 1 .. Len(kept) + n : i > Len(kept) => blank[i] = 0
      BY <1>3, <3>1, <3>2, Blank
    <3> QED BY <3>1, <3>3
  <2> HIDE DEF blank
  <2>2. ASSUME NEW i \in 1 .. Expected(length) PROVE i \in behind \/ old[i] = blank[i]
    <3>1. CASE i <= Len(kept)
      <4>1. i \in 1 .. Len(kept)
        BY <1>3, <3>1
      <4> QED BY <1>3, <2>1, <4>1
    <3>2. CASE i > Len(kept)
      <4>1. i \in 1 .. CacheLens
        BY <1>2, <1>5
      <4> QED BY <1>3, <2>1, <3>2, <4>1
    <3> QED BY <1>3, <3>1, <3>2
  <2>3. last # Id(r) /\ length < CacheLens => rest # <<>> /\ length < Len(blank)
    BY <1>4, <1>5, <2>1
  <2>4. CASE seq' = length /\ ids' = blank /\ kv' = old /\ Fail(r)
             /\ (rest = <<>> \/ length > Len(blank))
    <3>1. SessionTypes'
      BY <1>3, <1>4, <1>5, <1>6, <2>1, <2>4
    <3>2. Keyed'
      BY <1>1, <1>3, <1>5, <1>8, <2>1, <2>2, <2>4 DEF Keyed
    <3>3. LockInv'
      BY <1>2, <2>4, FailKeepsLock
    <3>4. last # Id(r) => ~(length < CacheLens)
      BY <1>4, <1>5, <2>1, <2>3, <2>4
    <3> QED BY <3>1, <3>2, <3>3, <3>4 DEF SInv, SessionInv, length
  <2>5. CASE /\ rest # <<>> /\ length <= Len(blank)
             /\ kv' = [i \in DOMAIN kv |-> IF i \in placed THEN filled[i] ELSE old[i]]
    <3>1. /\ filled \in Seq(Nat) /\ Len(filled) = Expected(length)
          /\ \A i \in 1 .. Expected(length) : i \notin placed => filled[i] = blank[i]
      <4>1. \A i \in placed : rest[i - keep] \in Nat
        BY <1>4 DEF length
      <4>2. \A i \in 1 .. Expected(length) : blank[i] \in Nat
        BY <2>1
      <4>3. filled \in [1 .. Expected(length) -> Nat]
        BY <2>1, <4>1, <4>2
      <4>4. filled \in Seq(Nat) /\ Len(filled) = Expected(length)
        <5>1. Expected(length) \in Nat
          BY <1>4, <1>5, <2>1, <2>5
        <5> HIDE DEF filled
        <5> QED BY <4>3, <5>1
      <4> QED BY <2>1, <4>4
    <3>2. \A i \in placed : i \in 1 .. Expected(length)
      BY <1>4, <1>5, <2>1, <2>5
    <3>3. kv' \in [1 .. CacheLens -> Nat]
      <4>1. \A i \in placed : filled[i] \in Nat
        BY <3>1, <3>2
      <4> HIDE DEF filled
      <4> QED BY <1>2, <1>3, <2>5, <4>1 DEF SessionTypes
    <3>4. \A i \in 1 .. CacheLens : kv'[i] = IF i \in placed THEN filled[i] ELSE old[i]
      BY <1>2, <2>5 DEF SessionTypes
    <3>5. \A i \in 1 .. Expected(length) : i \in behind \/ kv'[i] = filled[i]
      <4> SUFFICES ASSUME NEW i \in 1 .. Expected(length), i \notin behind
                   PROVE  kv'[i] = filled[i]
        OBVIOUS
      <4> HIDE DEF filled, placed
      <4>1. i \in 1 .. CacheLens
        BY <1>2, <1>5
      <4> QED BY <2>2, <3>1, <3>4, <4>1
    <3>6. \A i \in 1 .. CacheLens : i > Expected(length) => kv'[i] = 0
      <4> SUFFICES ASSUME NEW i \in 1 .. CacheLens, i > Expected(length)
                   PROVE  kv'[i] = 0
        OBVIOUS
      <4>1. i \notin placed
        BY <1>5, <3>2
      <4> HIDE DEF filled, placed
      <4> QED BY <1>3, <1>5, <1>8, <3>4, <4>1
    <3> HIDE DEF filled, placed
    <3>7. CASE length = Len(blank) /\ ids' = filled /\ seq' = length /\ Fail(r)
      <4>1. SessionTypes'
        BY <1>4, <1>5, <1>6, <3>1, <3>3, <3>7
      <4>2. Keyed'
        BY <1>1, <3>1, <3>5, <3>6, <3>7 DEF Keyed
      <4>3. LockInv'
        BY <1>2, <3>7, FailKeepsLock
      <4>4. last # Id(r) => ~(length < CacheLens)
        BY <2>1, <2>3, <3>7
      <4> QED BY <4>1, <4>2, <4>3, <4>4 DEF SInv, SessionInv, length
    <3>8. CASE /\ length # Len(blank)
               /\ \E token \in Sampled : ids' = [filled EXCEPT ![length + 1] = token]
               /\ seq' = length + 1 /\ lock' = r
               /\ Deliver(r, "decoding")
               /\ left' = IF Cancelling(r) THEN 0 ELSE Steps(length + 1)
      <4> PICK token \in Sampled : ids' = [filled EXCEPT ![length + 1] = token]
        BY <3>8
      <4>1. length + 1 <= Expected(length) /\ seq' = length + 1
        BY <1>4, <1>5, <2>1, <2>5, <3>8
      <4>2. /\ ids' \in Seq(Nat) /\ Len(ids') = Expected(length)
            /\ \A i \in 1 .. Expected(length) : i # seq' => ids'[i] = filled[i]
        BY <1>2, <1>4, <3>1, <4>1
      <4>3. SessionTypes'
        BY <1>4, <1>5, <1>6, <3>3, <4>1, <4>2
      <4>4. Keyed'
        BY <1>1, <3>5, <3>6, <4>2 DEF Keyed
      <4>5. LockInv' /\ pc'[r] # "failed"
        <5>1. left' \in Nat /\ seq' >= 1 /\ seq' + left' <= Len(ids')
          BY <1>4, <1>5, <3>8, <4>1, <4>2
        <5>2. closing = {}
          BY <1>2, Idle
        <5>3. CASE Cancelling(r)
          <6>1. closing' \subseteq {r} /\ pc' = [pc EXCEPT ![r] = "sync"] /\ "sync" \in Places
            BY <3>8, <5>2, <5>3 DEF Deliver, Leave, Goto, Places
          <6>2. pc'[r] = "sync"
            BY <1>2, <6>1 DEF LockInv
          <6> QED BY <1>2, <3>8, <5>1, <6>1, <6>2, TakingKeepsLock
        <5>4. CASE ~Cancelling(r)
          <6>1. closing' = {} /\ pc' = [pc EXCEPT ![r] = "decoding"] /\ "decoding" \in Places
            BY <3>8, <5>2, <5>4 DEF Deliver, Goto, Places
          <6>2. pc'[r] = "decoding"
            BY <1>2, <6>1 DEF LockInv
          <6> QED BY <1>2, <3>8, <5>1, <6>1, <6>2, TakingKeepsLock
        <5> QED BY <5>3, <5>4
      <4> QED BY <4>3, <4>4, <4>5 DEF SInv, SessionInv
    <3> QED BY <1>1, <1>8, <2>4, <2>5, <3>7, <3>8
  <2> QED BY <1>1, <1>8, <2>4, <2>5
<1> QED BY <1>1, <1>7, <1>8

LEMMA PrefillKeeps ==
  ASSUME SInv, NEW r \in Requests, Prefill(r)
  PROVE  SInv' /\ (last # Id(r) => pc'[r] # "failed" \/ poisoned)
<1>1. pc[r] = "waiting" /\ lock = NoOne /\ SessionInv /\ LockInv /\ SessionTypes
      /\ CacheLens \in Nat
  BY InferenceServerAssumption DEF Prefill, SInv, SessionInv
<1>2. PICK prompt \in Sent :
        LET input == IF last = Id(r) THEN SubSeq(prompt, seq + 1, Len(prompt)) ELSE prompt
        IN IF poisoned \/ (last = Id(r) /\ ~Comparable(prompt)) THEN Mismatch(r)
           ELSE IF Len(input) >= CacheLens THEN TooLong(r, input)
           ELSE LET keep == Keep(r, prompt)
                IN Compute(r, keep, SubSeq(prompt, keep + 1, Len(prompt)))
  BY DEF Prefill
<1>3. prompt \in Seq(Nat) /\ prompt # <<>> /\ Len(prompt) \in Nat /\ Len(prompt) >= 1
  <2>1. prompt \in Seq(Nat) /\ prompt # <<>>
    BY <1>1, Sends
  <2> QED BY <2>1
<1> DEFINE input == IF last = Id(r) THEN SubSeq(prompt, seq + 1, Len(prompt)) ELSE prompt
           keep == Keep(r, prompt)
           rest == SubSeq(prompt, keep + 1, Len(prompt))
<1>4. CASE (poisoned \/ last = Id(r)) /\ Mismatch(r)
  <2>1. LockInv' /\ UNCHANGED <<ids, seq, kv, cut>>
    BY <1>1, <1>4, FailKeepsLock DEF Mismatch, session
  <2> QED BY <1>1, <1>4, <2>1 DEF SInv, SessionInv, SessionTypes, Keyed
<1>5. CASE Len(input) >= CacheLens /\ TooLong(r, input)
  <2>1. input \in Seq(Nat)
    BY <1>1, <1>3 DEF SessionTypes
  <2> HIDE DEF input
  <2>2. SInv'
    BY <1>1, <1>5, <2>1, TooLongKeeps
  <2>3. pc'[r] # "failed"
    BY <1>1, <1>5 DEF TooLong, Goto, LockInv
  <2> QED BY <2>2, <2>3
<1>6. CASE (last = Id(r) => Comparable(prompt)) /\ Len(input) < CacheLens /\ Compute(r, keep, rest)
  <2>1. CASE last = Id(r)
    <3>1. keep = seq /\ ids # <<>>
      BY <1>6, <2>1 DEF Keep, Comparable
    <3>2. rest \in Seq(Nat)
      BY <1>1, <1>3, <3>1 DEF SessionTypes
    <3>3. Base(r, keep, rest)
      BY <1>1, <2>1, <3>1, <3>2 DEF Base, SessionTypes
    <3> HIDE DEF keep, rest
    <3> QED BY <1>1, <1>6, <2>1, <3>3, ComputeKeeps
  <2>2. CASE last # Id(r)
    <3> DEFINE length == IF ids = <<>> THEN 1 ELSE seq
    <3>1. length \in Nat /\ length >= 1 /\ ids \in Seq(Nat)
      BY <1>1 DEF SessionTypes
    <3>2. keep = Shared(prompt, length)
      BY <2>2 DEF Keep
    <3> HIDE DEF length, keep
    <3>3. keep \in Nat /\ keep < length /\ keep < Len(prompt) /\ keep <= Len(ids)
      BY <1>3, <3>1, <3>2, SharedBounds
    <3>4. rest \in Seq(Nat) /\ Len(rest) = Len(prompt) - keep /\ rest # <<>>
      <4> DEFINE l == Len(prompt)
      <4>1. keep + 1 \in 1 .. l /\ l \in 1 .. Len(prompt) /\ keep \in Nat /\ l \in Nat
        BY <1>3, <3>3
      <4>2. SubSeq(prompt, keep + 1, l) \in Seq(Nat) /\ Len(SubSeq(prompt, keep + 1, l)) = l - keep
        <5> HIDE DEF l
        <5> QED BY <1>3, <4>1
      <4>3. Len(rest) >= 1
        BY <4>1, <4>2
      <4>4. rest # <<>>
        <5> HIDE DEF rest
        <5> QED BY <4>3
      <4> QED BY <4>2, <4>4
    <3> HIDE DEF rest
    <3>5. Base(r, keep, rest)
      BY <2>2, <3>3, <3>4 DEF Base, length
    <3>6. keep + Len(rest) < CacheLens
      BY <1>3, <1>6, <2>2, <3>3, <3>4
    <3> QED BY <1>1, <1>6, <2>2, <3>5, <3>6, ComputeKeeps
  <2> QED BY <2>1, <2>2
<1>7. Len(input) \in Nat
  BY <1>1, <1>3 DEF SessionTypes
<1> QED
  <2> HIDE DEF input, keep, rest
  <2>1. \/ (poisoned \/ last = Id(r)) /\ Mismatch(r)
        \/ (last = Id(r) => Comparable(prompt)) /\ Len(input) >= CacheLens /\ TooLong(r, input)
        \/ (last = Id(r) => Comparable(prompt)) /\ ~(Len(input) >= CacheLens) /\ Compute(r, keep, rest)
    BY <1>2 DEF input, keep, rest
  <2> QED BY <1>1, <1>4, <1>5, <1>6, <1>7, <2>1

-----------------------------------------------------------------------------
(* Decoding.                                                               *)
LEMMA DecodeKeeps == ASSUME SInv, NEW r \in Requests, Decode(r) PROVE SInv'
<1>1. SessionInv /\ LockInv /\ SessionTypes /\ Keyed /\ CacheLens \in Nat /\ Sampled \subseteq Nat
  BY InferenceServerAssumption DEF SInv, SessionInv
<1>2. /\ pc[r] = "decoding" /\ left > 0 /\ UNCHANGED <<cut, lock>>
      /\ kv' = [kv EXCEPT ![seq] = ids[seq]]
      /\ \/ Deliver(r, "ending") /\ left' = 0 /\ UNCHANGED <<ids, seq>>
         \/ /\ \E token \in Sampled : ids' = [ids EXCEPT ![seq + 1] = token]
            /\ seq' = seq + 1 /\ Deliver(r, "decoding")
            /\ left' = IF Cancelling(r) THEN 0 ELSE left - 1
  BY DEF Decode, notDecoding
<1>3. /\ seq \in Nat /\ left \in Nat /\ seq >= 1 /\ seq + left <= Len(ids) /\ lock = r
      /\ ids \in Seq(Nat) /\ Len(ids) \in Nat /\ Len(ids) <= CacheLens
  BY <1>1, <1>2 DEF LockInv, SessionTypes
<1>4. seq \in 1 .. Len(ids) /\ seq + 1 \in 1 .. Len(ids) /\ seq \in 1 .. CacheLens
  BY <1>1, <1>2, <1>3
<1>5. kv' \in [1 .. CacheLens -> Nat] /\ kv'[seq] = ids[seq]
      /\ \A i \in 1 .. CacheLens : i # seq => kv'[i] = kv[i]
  <2>1. kv \in [1 .. CacheLens -> Nat] /\ ids[seq] \in Nat
    BY <1>1, <1>3, <1>4 DEF SessionTypes
  <2> QED BY <1>2, <1>4, <2>1
<1>6. \A i \in 1 .. Len(ids) : i \in cut \/ kv'[i] = ids[i]
  <2> SUFFICES ASSUME NEW i \in 1 .. Len(ids), i # seq PROVE i \in cut \/ kv'[i] = ids[i]
    BY <1>5
  <2>1. i \in 1 .. CacheLens
    BY <1>1, <1>3
  <2> QED BY <1>1, <1>5, <2>1 DEF Keyed
<1>7. \A i \in 1 .. CacheLens : i > Len(ids) => kv'[i] = 0
  <2> SUFFICES ASSUME NEW i \in 1 .. CacheLens, i > Len(ids) PROVE kv'[i] = 0
    OBVIOUS
  <2>1. i # seq
    BY <1>3, <1>4
  <2>2. kv[i] = 0
    BY <1>1 DEF Keyed
  <2> QED BY <1>5, <2>1, <2>2
<1>8. /\ ids' \in Seq(Nat) /\ Len(ids') = Len(ids) /\ seq' \in Nat /\ seq' >= 1
      /\ \A i \in 1 .. Len(ids) : i # seq' => ids'[i] = ids[i]
      /\ left' \in Nat /\ (left' > 0 => seq' + left' <= Len(ids)) /\ seq' <= Len(ids)
  <2>1. CASE left' = 0 /\ UNCHANGED <<ids, seq>>
    BY <1>3, <1>4, <2>1
  <2>2. CASE /\ \E token \in Sampled : ids' = [ids EXCEPT ![seq + 1] = token]
             /\ seq' = seq + 1 /\ left' = IF Cancelling(r) THEN 0 ELSE left - 1
    <3> PICK token \in Sampled : ids' = [ids EXCEPT ![seq + 1] = token]
      BY <2>2
    <3>1. /\ ids' \in Seq(Nat) /\ Len(ids') = Len(ids)
          /\ \A i \in 1 .. Len(ids) : i # seq' => ids'[i] = ids[i]
      <4>1. token \in Nat
        BY <1>1
      <4> QED BY <1>3, <1>4, <2>2, <4>1
    <3> QED BY <1>2, <1>3, <1>4, <2>2, <3>1
  <2> QED BY <1>2, <2>1, <2>2
<1>9. SessionInv'
  BY <1>1, <1>2, <1>3, <1>5, <1>6, <1>7, <1>8 DEF SessionInv, SessionTypes, Keyed
<1>10. LockInv'
  <2>1. r \notin closing /\ closing = {}
    BY <1>1, <1>2, <1>3 DEF LockInv
  <2>2. \A o \in Requests : o # r => pc[o] \notin {"decoding", "ending"}
    BY <1>1, <1>3 DEF LockInv
  <2>3. \/ closing' = {r} /\ pc' = [pc EXCEPT ![r] = "sync"]
        \/ closing' = {} /\ pc' = [pc EXCEPT ![r] = "ending"]
        \/ closing' = {} /\ pc' = [pc EXCEPT ![r] = "decoding"]
    BY <1>2, <2>1 DEF Deliver, Leave, Goto
  <2>4. pc' \in [Requests -> Places] /\ \A o \in Requests : o # r => pc'[o] = pc[o]
    BY <1>1, <2>3 DEF LockInv, Places
  <2>5. closing' # {} => pc'[r] = "sync"
    BY <1>1, <2>3 DEF LockInv
  <2>6. seq' + left' <= Len(ids')
    BY <1>8
  <2> QED BY <1>2, <1>3, <1>8, <2>2, <2>3, <2>4, <2>5, <2>6, Constants DEF LockInv
<1> QED BY <1>9, <1>10 DEF SInv

-----------------------------------------------------------------------------
(* The steps that leave the session alone.                                 *)

(* One request goes on; who decoded still does, or does no more.           *)
LEMMA OneMoves ==
  ASSUME SInv, UNCHANGED <<ids, seq, kv, cut>>,
         NEW r \in Requests, NEW place \in Places \ {"decoding"},
         pc' = [pc EXCEPT ![r] = place],
         left' \in Nat, left' = left \/ (left' = 0 /\ lock = r),
         \/ /\ lock' = lock /\ (place = "ending" => lock = r)
            /\ \/ closing' = closing
               \/ closing' = closing \cup {r} /\ lock = r
            /\ r \in closing' => place \in {"sync", "done", "gone"}
         \/ lock = r /\ lock' = NoOne /\ closing' = {} /\ place # "ending"
  PROVE  SInv'
<1>1. SessionInv'
  BY DEF SInv, SessionInv, SessionTypes, Keyed
<1>2. pc' \in [Requests -> Places] /\ pc'[r] = place
      /\ \A o \in Requests : o # r => pc'[o] = pc[o]
  BY DEF SInv, LockInv
<1>3. closing' \subseteq {lock'} /\ NoOne \notin closing'
  BY Constants DEF SInv, LockInv
<1>4. ASSUME NEW o \in closing' PROVE pc'[o] \in {"sync", "done", "gone"}
  BY <1>2, <1>4 DEF SInv, LockInv, Places
<1>5. ASSUME NEW o \in Requests, pc'[o] \in {"decoding", "ending"} PROVE lock' = o
  BY <1>2, <1>5 DEF SInv, LockInv
<1>6. ASSUME NEW o \in Requests, pc'[o] = "decoding" PROVE seq' >= 1 /\ seq' + left' <= Len(ids')
  BY <1>2, <1>6 DEF SInv, LockInv, SessionInv, SessionTypes
<1> QED BY <1>1, <1>2, <1>3, <1>4, <1>5, <1>6 DEF SInv, LockInv

(* Nothing of the session, of the lock or of where a request is changes.   *)
LEMMA NothingMoves ==
  ASSUME SInv, UNCHANGED <<session, mutex, pc, left>>
  PROVE  SInv'
BY DEF SInv, SessionInv, SessionTypes, Keyed, LockInv, session, mutex

LEMMA ReturnFreesLock == ASSUME SInv, NEW r \in Requests, Return(r) PROVE SInv'
<1>1. /\ pc[r] = "ending" /\ lock = r /\ lock' = NoOne /\ closing' = closing /\ left' = left
      /\ left \in Nat /\ UNCHANGED <<ids, seq, kv, cut>>
      /\ \E place \in {"done", "sync", "raised"} : pc' = [pc EXCEPT ![r] = place]
  BY DEF Return, Release, Goto, session, SInv, LockInv
<1>2. closing' = {}
  BY <1>1 DEF SInv, LockInv
<1>3. {"done", "sync", "raised"} \subseteq Places \ {"decoding"}
  BY DEF Places
<1> QED BY <1>1, <1>2, <1>3, OneMoves

LEMMA ExhaustedKeeps == ASSUME SInv, NEW r \in Requests, Exhausted(r) \/ Reason(r) PROVE SInv'
<1>1. /\ pc[r] \in {"decoding", "ending"} /\ lock = r /\ UNCHANGED <<ids, seq, kv, cut, lock, left>>
      /\ left \in Nat
      /\ \/ pc' = [pc EXCEPT ![r] = "sync"] /\ closing' = closing \cup {r}
         \/ pc' = [pc EXCEPT ![r] = "ending"] /\ closing' = closing
  BY DEF Exhausted, Reason, Deliver, Leave, Goto, notDecoding, session, SInv, LockInv
<1>2. r \notin closing
  BY <1>1 DEF SInv, LockInv
<1>3. {"sync", "ending"} \subseteq Places \ {"decoding"}
  BY DEF Places
<1> QED BY <1>1, <1>2, <1>3, OneMoves

LEMMA DropKeepsSession == ASSUME SInv, NEW r \in Requests, Drop(r) PROVE SInv'
<1>1. /\ pc' = [pc EXCEPT ![r] = "gone"] /\ lock' = lock /\ UNCHANGED <<ids, seq, kv, cut>>
      /\ left' = IF lock = r THEN 0 ELSE left
      /\ closing' = closing \cup ({r} \cap {lock}) /\ left \in Nat
  BY DEF Drop, Goto, session, SInv, LockInv
<1>2. "gone" \in Places \ {"decoding"}
  BY DEF Places
<1>3. closing' = closing \/ (closing' = closing \cup {r} /\ lock = r)
  BY <1>1
<1> QED BY <1>1, <1>2, <1>3, OneMoves

LEMMA CloseKeepsSession == ASSUME SInv, NEW r \in Requests, Close(r) PROVE SInv'
<1>1. /\ r \in closing /\ lock' = NoOne /\ closing' = closing \ {r}
      /\ UNCHANGED <<ids, seq, kv, cut, pc, left>>
  BY DEF Close, Release, session
<1>2. lock = r /\ closing' = {}
  BY <1>1 DEF SInv, LockInv
<1>3. \A o \in Requests : pc[o] \notin {"decoding", "ending"}
  BY <1>1, <1>2 DEF SInv, LockInv
<1> QED BY <1>1, <1>2, <1>3 DEF SInv, SessionInv, SessionTypes, Keyed, LockInv

(* The places outside the lock. *)
LEMMA OutsideKeeps ==
  ASSUME SInv, NEW r \in Requests, InProgress(r) \/ Sync(r) \/ CreateChat(r) \/ CreateRun(r)
  PROVE  SInv'
<1>1. /\ pc[r] \in {"started", "sync", "new"} /\ UNCHANGED <<ids, seq, kv, cut, lock, closing, left>>
      /\ \E place \in {"waiting", "done", "started", "failed"} : pc' = [pc EXCEPT ![r] = place]
      /\ pc[r] # "sync" \/ pc' = [pc EXCEPT ![r] = "done"]
  BY DEF InProgress, Sync, CreateChat, CreateRun, Goto, session, mutex
<1>2. r \in closing => pc[r] = "sync"
  BY <1>1 DEF SInv, LockInv
<1>3. {"waiting", "done", "started", "failed"} \subseteq Places \ {"decoding"} /\ left \in Nat
  BY DEF Places, SInv, LockInv
<1>4. CASE pc[r] = "sync"
  BY <1>1, <1>3, <1>4, OneMoves
<1>5. CASE pc[r] # "sync"
  BY <1>1, <1>2, <1>3, <1>5, OneMoves
<1> QED BY <1>4, <1>5

LEMMA SessionInit == Init => SInv
<1> SUFFICES ASSUME Init PROVE SInv
  OBVIOUS
<1>1. SessionInv
  BY InferenceServerAssumption DEF Init, SessionInv, SessionTypes, Keyed
<1>2. LockInv
  BY Constants DEF Init, LockInv, Places
<1> QED BY <1>1, <1>2 DEF SInv

LEMMA SessionStep == SInv /\ [Next]_vars => SInv'
<1> SUFFICES ASSUME SInv, [Next]_vars PROVE SInv'
  OBVIOUS
<1>1. ASSUME NEW t \in Threads, Say(t) \/ CancelRun(t) PROVE SInv'
  BY <1>1, NothingMoves DEF Say, CancelRun
<1>2. CASE UNCHANGED vars
  BY <1>2, NothingMoves DEF vars
<1> QED
  BY <1>1, <1>2, PrefillKeeps, DecodeKeeps, ReturnFreesLock, ExhaustedKeeps,
     DropKeepsSession, CloseKeepsSession, OutsideKeeps, Constants DEF Next, Work

(* While a request decodes, every position before its newest token has the *)
(* key of the token that stands there, but those that were left behind.    *)
THEOREM ContextIsIntact == Spec => []ContextIntact
<1>1. SInv => ContextIntact
  <2> SUFFICES ASSUME SInv, NEW r \in Requests, pc[r] = "decoding", NEW i \in 1 .. seq - 1
               PROVE  i \in cut \/ kv[i] = ids[i]
    BY DEF ContextIntact
  <2>1. seq \in Nat /\ left \in Nat /\ seq + left <= Len(ids) /\ Len(ids) \in Nat
    BY DEF SInv, SessionInv, SessionTypes, LockInv
  <2>2. i \in 1 .. Len(ids) /\ i # seq
    BY <2>1
  <2> QED BY <2>2 DEF SInv, SessionInv, Keyed
<1> QED BY <1>1, SessionInit, SessionStep, PTL DEF Spec

(* Only prefill fails a request that has waited for the lock, and never    *)
(* one that begins a conversation.                                         *)
LEMMA NewcomerStep ==
  ASSUME SInv, [Next]_vars, NEW r \in Requests, pc[r] = "waiting", pc'[r] = "failed"
  PROVE  last = Id(r) \/ poisoned
<1>1. pc \in [Requests -> Places]
  BY DEF SInv, LockInv
<1>2. ASSUME NEW o \in Requests, NEW place, pc' = [pc EXCEPT ![o] = place], place # "failed"
      PROVE  FALSE
  BY <1>1, <1>2
<1>3. ASSUME NEW o \in Requests, NEW place, pc' = [pc EXCEPT ![o] = place], pc[o] # "waiting"
      PROVE  FALSE
  BY <1>1, <1>3
<1>4. pc' # pc
  OBVIOUS
<1>5. ASSUME NEW o \in Requests, Prefill(o) PROVE last = Id(r) \/ poisoned
  <2>1. SInv' /\ (last # Id(o) => pc'[o] # "failed" \/ poisoned)
    BY <1>5, PrefillKeeps
  <2>2. \E place : pc' = [pc EXCEPT ![o] = place]
    BY <1>5, PrefillRecords DEF Advance, StopCancelled
  <2>3. o = r
    BY <1>1, <2>2
  <2> QED BY <2>1, <2>3
<1>6. ASSUME NEW o \in Requests, InProgress(o) \/ Sync(o) \/ CreateRun(o) \/ Return(o)
      PROVE  FALSE
  BY <1>3, <1>6 DEF InProgress, Sync, CreateRun, Return, Goto
<1>7. ASSUME NEW o \in Requests, Exhausted(o) \/ Decode(o) \/ Reason(o) PROVE FALSE
  BY <1>3, <1>7 DEF Exhausted, Decode, Reason, Deliver, Leave, Goto
<1>8. ASSUME NEW o \in Requests, CreateChat(o) \/ Drop(o) PROVE FALSE
  BY <1>2, <1>8 DEF CreateChat, Drop, Goto
<1>9. ASSUME NEW o \in Requests, Close(o) PROVE FALSE
  BY <1>4, <1>9 DEF Close
<1>10. ASSUME NEW t \in Threads, Say(t) \/ CancelRun(t) PROVE FALSE
  BY <1>4, <1>10 DEF Say, CancelRun
<1>11. CASE UNCHANGED vars
  BY <1>4, <1>11 DEF vars
<1> QED BY <1>5, <1>6, <1>7, <1>8, <1>9, <1>10, <1>11, Constants DEF Next, Work

(* Who ends the process or spoils its CUDA context fails with it, and      *)
(* continues the last conversation.                                        *)
LEMMA BreakStep ==
  ASSUME SInv, [Next]_vars, Broken', ~Broken
  PROVE  \E r \in Requests : last = Id(r) /\ pc[r] = "waiting" /\ pc'[r] = "failed"
<1>1. ~(UNCHANGED <<killed, poisoned>>)
  BY DEF Broken
<1>2. ASSUME NEW r \in Requests, Prefill(r)
      PROVE  last = Id(r) /\ pc[r] = "waiting" /\ pc'[r] = "failed"
  <2>1. PICK prompt \in Sent :
       LET input == IF last = Id(r) THEN SubSeq(prompt, seq + 1, Len(prompt)) ELSE prompt
       IN IF poisoned \/ (last = Id(r) /\ ~Comparable(prompt)) THEN Mismatch(r)
          ELSE IF Len(input) >= CacheLens THEN TooLong(r, input)
          ELSE LET keep == Keep(r, prompt)
               IN Compute(r, keep, SubSeq(prompt, keep + 1, Len(prompt)))
    BY <1>2 DEF Prefill
  <2>2. ASSUME Mismatch(r) PROVE FALSE
    BY <1>1, <2>2 DEF Mismatch, session
  <2>3. ASSUME NEW input, TooLong(r, input) PROVE FALSE
    BY <1>1, <2>3 DEF TooLong
  <2>4. ASSUME NEW keep, NEW rest, Compute(r, keep, rest) PROVE Fail(r)
    BY <1>1, <2>4 DEF Compute
  <2>5. Fail(r)
    BY <2>1, <2>2, <2>3, <2>4
  <2>6. pc[r] = "waiting" /\ pc \in [Requests -> Places] /\ ~poisoned
    BY <1>2 DEF Prefill, SInv, LockInv, Broken
  <2>7. pc'[r] = "failed"
    BY <2>5, <2>6 DEF Fail, Goto
  <2> QED BY <1>2, <2>6, <2>7, PrefillKeeps
<1>3. ASSUME NEW r \in Requests,
             \/ InProgress(r) \/ Close(r) \/ Sync(r) \/ Reason(r) \/ Return(r)
             \/ Exhausted(r) \/ Decode(r) \/ CreateChat(r) \/ CreateRun(r) \/ Drop(r)
      PROVE  FALSE
  BY <1>1, <1>3 DEF InProgress, Close, Sync, Reason, Return, Exhausted, Decode, CreateChat,
     CreateRun, Drop, session, notDecoding
<1>4. ASSUME NEW t \in Threads, Say(t) \/ CancelRun(t) PROVE FALSE
  BY <1>1, <1>4 DEF Say, CancelRun, session
<1>5. CASE UNCHANGED vars
  BY <1>1, <1>5 DEF vars, session
<1> QED BY <1>2, <1>3, <1>4, <1>5, Constants DEF Next, Work

(* Newcomers fail, whatever ids, keys and lengths the requests before left *)
(* behind, only in a CUDA context that a continuation past the end of the  *)
(* cache has spoilt; newcomers never end the process or spoil the context. *)
THEOREM NewcomersAreServed == Spec => NewcomerServed
<1>1. SInv /\ [Next]_vars =>
        [/\ \A r \in Requests :
              pc[r] = "waiting" /\ pc'[r] = "failed" => last = Id(r) \/ poisoned
         /\ Broken' /\ ~Broken =>
              \E r \in Requests : last = Id(r) /\ pc[r] = "waiting" /\ pc'[r] = "failed"]_vars
  BY NewcomerStep, BreakStep
<1> QED BY <1>1, SessionInit, SessionStep, PTL DEF Spec, NewcomerServed
-----------------------------------------------------------------------------
LEMMA RemoveFirstIs ==
  ASSUME NEW S, NEW q \in Seq(S), NEW e, NEW u, u = RemoveFirst(q, e)
  PROVE  \/ u = q /\ \A i \in 1 .. Len(q) : q[i] # e
         \/ \E i \in 1 .. Len(q) : u = RemoveAt(q, i) /\ q[i] = e
<1>1. CASE \A i \in 1 .. Len(q) : q[i] # e
  BY <1>1 DEF RemoveFirst
<1>2. CASE \E i \in 1 .. Len(q) : q[i] = e
  <2> DEFINE I == {i \in 1 .. Len(q) : q[i] = e}
  <2>1. SelectInSeq(q, LAMBDA v : v = e) = Min(I)
    BY <1>2 DEF SelectInSeq
  <2>2. Min(I) \in I
    <3>1. I \in SUBSET (1 .. Len(q)) /\ I # {} /\ I \in SUBSET Nat
      BY <1>2
    <3> HIDE DEF I
    <3>2. PICK m \in I : \A k \in I : m <= k
      BY <3>1, Least
    <3> QED BY <3>2 DEF Min
  <2>3. u = RemoveAt(q, Min(I))
    BY <1>2, <2>1 DEF RemoveFirst
  <2> QED BY <2>2, <2>3
<1> QED BY <1>1, <1>2

(* The queue of the lock, and what else the requests leave behind. *)
QueueInv ==
  /\ last \in {NoOne} \cup Chats \cup Threads /\ lock \in Requests \cup {NoOne}
  /\ killed \in BOOLEAN /\ poisoned \in BOOLEAN /\ turn \in [Threads -> BOOLEAN]
  /\ waiters \in Seq(Requests) /\ IsInjective(waiters)
  /\ \A i \in 1 .. Len(waiters) : pc[waiters[i]] = "waiting"

LEMMA WithoutOne ==
  ASSUME NEW S, NEW q \in Seq(S), IsInjective(q), NEW e, NEW u, u = RemoveFirst(q, e)
  PROVE  /\ u \in Seq(S) /\ IsInjective(u)
         /\ \A i \in 1 .. Len(u) : u[i] # e /\ \E j \in 1 .. Len(q) : u[i] = q[j]
<1>1. CASE u = q /\ \A i \in 1 .. Len(q) : q[i] # e
  BY <1>1
<1>2. CASE \E i \in 1 .. Len(q) : u = RemoveAt(q, i) /\ q[i] = e
  <2>1. PICK i \in 1 .. Len(q) : u = RemoveAt(q, i) /\ q[i] = e
    BY <1>2
  <2>2. PICK n \in Nat : n = Len(q)
    OBVIOUS
  <2>3. PICK a, b : a = SubSeq(q, 1, i - 1) /\ b = SubSeq(q, i + 1, n)
    OBVIOUS
  <2>4. /\ a \in Seq(S) /\ Len(a) = i - 1 /\ \A k \in 1 .. i - 1 : a[k] = q[k]
    <3>1. \A k \in 1 .. i - 1 : k \in 1 .. n /\ q[k] \in S
      BY <2>2
    <3> QED BY <2>2, <2>3, <3>1
  <2>5. /\ b \in Seq(S) /\ Len(b) = n - i /\ \A k \in 1 .. n - i : b[k] = q[i + k]
    <3>1. \A k \in i + 1 .. n : k \in 1 .. n /\ q[k] \in S
      BY <2>2
    <3> QED BY <2>2, <2>3, <3>1
  <2>6. u = a \o b
    BY <2>1, <2>2, <2>3 DEF RemoveAt
  <2>7. u \in Seq(S) /\ Len(u) = n - 1
    <3>1. a \in Seq(S) /\ b \in Seq(S)
      BY <2>4, <2>5
    <3>2. a \o b \in Seq(S)
      BY <3>1
    <3>3. Len(a \o b) = Len(a) + Len(b)
      BY <3>1
    <3>4. Len(a) = i - 1 /\ Len(b) = n - i
      BY <2>4, <2>5
    <3>5. (i - 1) + (n - i) = n - 1
      BY <2>2
    <3> QED BY <2>6, <3>2, <3>3, <3>4, <3>5
  <2>8. \A k \in 1 .. n - 1 : u[k] = IF k < i THEN q[k] ELSE q[k + 1]
    <3> SUFFICES ASSUME NEW k \in 1 .. n - 1 PROVE u[k] = IF k < i THEN q[k] ELSE q[k + 1]
      OBVIOUS
    <3>1. CASE k < i
      BY <2>2, <2>4, <2>5, <2>6, <3>1
    <3>2. CASE ~(k < i)
      <4>1. u[k] = b[k - (i - 1)] /\ k - (i - 1) \in 1 .. n - i
        BY <2>2, <2>4, <2>5, <2>6, <3>2
      <4>2. b[k - (i - 1)] = q[i + (k - (i - 1))] /\ i + (k - (i - 1)) = k + 1
        BY <2>2, <2>5, <4>1
      <4> QED BY <3>2, <4>1, <4>2
    <3> QED BY <3>1, <3>2
  <2>9. DOMAIN q = 1 .. n /\ DOMAIN u = 1 .. n - 1
    BY <2>2, <2>7
  <2>10. \A j, k \in 1 .. n : q[j] = q[k] => j = k
    BY <2>9 DEF IsInjective
  <2>11. ASSUME NEW j \in 1 .. n - 1, NEW k \in 1 .. n - 1, u[j] = u[k] PROVE j = k
    <3>1. j \in 1 .. n /\ k \in 1 .. n /\ j + 1 \in 1 .. n /\ k + 1 \in 1 .. n
      BY <2>2
    <3>2. (IF j < i THEN j ELSE j + 1) = (IF k < i THEN k ELSE k + 1)
      BY <2>8, <2>10, <2>11, <3>1
    <3> QED BY <3>1, <3>2
  <2>12. IsInjective(u)
    BY <2>9, <2>11 DEF IsInjective
  <2>13. ASSUME NEW k \in 1 .. n - 1 PROVE u[k] # e /\ \E j \in 1 .. n : u[k] = q[j]
    <3>1. k \in 1 .. n /\ k + 1 \in 1 .. n /\ i \in 1 .. n
      BY <2>2
    <3>2. PICK j \in 1 .. n : j # i /\ u[k] = q[j]
      <4>1. CASE k < i
        <5>1. u[k] = q[k] /\ k # i
          BY <2>8, <3>1, <4>1
        <5> QED BY <3>1, <5>1
      <4>2. CASE ~(k < i)
        <5>1. u[k] = q[k + 1] /\ k + 1 # i
          BY <2>8, <3>1, <4>2
        <5> QED BY <3>1, <5>1
      <4> QED BY <4>1, <4>2
    <3> QED BY <2>1, <2>10, <3>1, <3>2
  <2> QED BY <2>2, <2>7, <2>12, <2>13
<1> QED BY <1>1, <1>2, RemoveFirstIs

LEMMA QueueInit == Init => QueueInv
<1> SUFFICES ASSUME Init PROVE QueueInv
  OBVIOUS
<1>1. waiters = <<>> /\ IsInjective(<<>>) /\ Len(waiters) = 0
  BY DEF Init, IsInjective
<1>2. <<>> \in Seq(Requests) /\ \A i \in 1 .. 0 : FALSE
  OBVIOUS
<1>3. turn \in [Threads -> BOOLEAN]
  BY DEF Init
<1>4. last = NoOne /\ lock = NoOne /\ killed = FALSE /\ poisoned = FALSE
  BY DEF Init
<1>5. \A i \in 1 .. Len(waiters) : pc[waiters[i]] = "waiting"
  BY <1>1, <1>2
<1>6. waiters \in Seq(Requests) /\ IsInjective(waiters)
  BY <1>1, <1>2
<1> QED BY <1>3, <1>4, <1>5, <1>6 DEF QueueInv

(* Who is not in the queue may go anywhere. *)
LEMMA QueueStays ==
  ASSUME QueueInv, pc \in [Requests -> Places], UNCHANGED <<waiters>>,
         NEW r \in Requests, NEW place, pc' = [pc EXCEPT ![r] = place],
         pc[r] # "waiting" \/ place = "waiting",
         lock' \in Requests \cup {NoOne}, turn' \in [Threads -> BOOLEAN],
         UNCHANGED <<last, killed, poisoned>>
  PROVE  QueueInv'
<1>1. ASSUME NEW i \in 1 .. Len(waiters) PROVE pc'[waiters[i]] = "waiting"
  BY DEF QueueInv
<1> QED BY <1>1 DEF QueueInv

LEMMA QueueJoins ==
  ASSUME QueueInv, pc \in [Requests -> Places], NEW r \in Requests, pc[r] # "waiting",
         pc' = [pc EXCEPT ![r] = "waiting"], waiters' = Append(waiters, r),
         UNCHANGED <<last, lock, killed, poisoned, turn>>
  PROVE  QueueInv'
<1>1. PICK q, u : q = waiters /\ u = Append(q, r)
  OBVIOUS
<1>2. q \in Seq(Requests) /\ IsInjective(q) /\ \A i \in 1 .. Len(q) : pc[q[i]] = "waiting"
  BY <1>1 DEF QueueInv
<1>3. PICK n \in Nat : n = Len(q)
  BY <1>2
<1>4. /\ u \in Seq(Requests) /\ Len(u) = n + 1 /\ u[n + 1] = r
      /\ \A i \in 1 .. n : u[i] = q[i]
  BY <1>1, <1>2, <1>3
<1>5. \A i \in 1 .. n : q[i] # r /\ q[i] \in Requests
  BY <1>2, <1>3
<1>6. DOMAIN u = 1 .. n + 1 /\ DOMAIN q = 1 .. n
  BY <1>2, <1>3, <1>4
<1>7. \A i \in 1 .. n + 1 : i \in 1 .. n \/ i = n + 1
  BY <1>3
<1>8. IsInjective(u)
  BY <1>2, <1>4, <1>5, <1>6, <1>7 DEF IsInjective
<1>9. \A i \in 1 .. n + 1 : pc'[u[i]] = "waiting"
  BY <1>2, <1>3, <1>4, <1>5, <1>7
<1> QED BY <1>1, <1>4, <1>8, <1>9 DEF QueueInv

LEMMA QueueLeaves ==
  ASSUME QueueInv, pc \in [Requests -> Places], NEW r \in Requests, Drop(r)
  PROVE  QueueInv'
<1>1. PICK q, u : q = waiters /\ u = RemoveFirst(q, r)
  OBVIOUS
<1>2. q \in Seq(Requests) /\ IsInjective(q) /\ \A i \in 1 .. Len(q) : pc[q[i]] = "waiting"
  BY <1>1 DEF QueueInv
<1>3. /\ u \in Seq(Requests) /\ IsInjective(u)
      /\ \A i \in 1 .. Len(u) : u[i] # r /\ \E j \in 1 .. Len(q) : u[i] = q[j]
  BY <1>1, <1>2, WithoutOne
<1>4. /\ waiters' = u /\ pc' = [pc EXCEPT ![r] = "gone"]
      /\ UNCHANGED <<last, lock, killed, poisoned, turn>>
  BY <1>1 DEF Drop, Goto, session, records
<1>5. \A i \in 1 .. Len(q) : q[i] \in Requests
  BY <1>2
<1>6. \A i \in 1 .. Len(u) : pc'[u[i]] = "waiting"
  BY <1>2, <1>3, <1>4, <1>5
<1> QED BY <1>3, <1>4, <1>6 DEF QueueInv

LEMMA QueueServes ==
  ASSUME QueueInv, RInv, NEW r \in Requests, Prefill(r)
  PROVE  QueueInv'
<1>1. /\ waiters # <<>> /\ r = Head(waiters) /\ waiters' = Tail(waiters) /\ turn' = turn
  BY DEF Prefill
<1>2. \E place : pc' = [pc EXCEPT ![r] = place]
  BY PrefillRecords DEF Advance, StopCancelled
<1>3. /\ lock' \in {NoOne, r} /\ last' \in {last, Id(r)} /\ killed' \in {killed, TRUE}
      /\ poisoned' \in {poisoned, TRUE, FALSE}
  <2>1. PICK prompt \in Sent :
       LET input == IF last = Id(r) THEN SubSeq(prompt, seq + 1, Len(prompt)) ELSE prompt
       IN IF poisoned \/ (last = Id(r) /\ ~Comparable(prompt)) THEN Mismatch(r)
          ELSE IF Len(input) >= CacheLens THEN TooLong(r, input)
          ELSE LET keep == Keep(r, prompt)
               IN Compute(r, keep, SubSeq(prompt, keep + 1, Len(prompt)))
    BY DEF Prefill
  <2>2. CASE Mismatch(r)
    BY <2>2 DEF Mismatch, Fail, Release, session
  <2>3. ASSUME NEW input, TooLong(r, input)
        PROVE  lock' \in {NoOne, r} /\ last' \in {last, Id(r)} /\ killed' \in {killed, TRUE}
      /\ poisoned' \in {poisoned, TRUE, FALSE}
    BY <2>3 DEF TooLong
  <2>4. ASSUME NEW keep, NEW rest, Compute(r, keep, rest)
        PROVE  lock' \in {NoOne, r} /\ last' \in {last, Id(r)} /\ killed' \in {killed, TRUE}
      /\ poisoned' \in {poisoned, TRUE, FALSE}
    BY <2>4 DEF Compute, Fail, Release
  <2> QED BY <2>1, <2>2, <2>3, <2>4
<1>4. Id(r) \in Chats \cup Threads
  BY Constants DEF Id, Requests
<1>5. PICK q, u : q = waiters /\ u = Tail(q)
  OBVIOUS
<1>6. /\ q \in Seq(Requests) /\ q # <<>> /\ IsInjective(q) /\ r = q[1]
      /\ \A i \in 1 .. Len(q) : pc[q[i]] = "waiting"
  BY <1>1, <1>5 DEF QueueInv
<1>7. PICK n \in Nat \ {0} : n = Len(q)
  BY <1>6
<1>8. u \in Seq(Requests) /\ Len(u) = n - 1 /\ \A i \in 1 .. n - 1 : u[i] = q[i + 1]
  BY <1>5, <1>6, <1>7
<1>9. DOMAIN u = 1 .. n - 1 /\ DOMAIN q = 1 .. n
  BY <1>6, <1>7, <1>8
<1>10. \A i \in 1 .. n - 1 : i + 1 \in 1 .. n /\ i + 1 # 1 /\ q[i + 1] \in Requests
  BY <1>6, <1>7
<1>11. 1 \in 1 .. n
  BY <1>7
<1>12. \A j, k \in 1 .. n : q[j] = q[k] => j = k
  BY <1>6, <1>9 DEF IsInjective
<1>13. IsInjective(u)
  <2> SUFFICES ASSUME NEW j \in 1 .. n - 1, NEW k \in 1 .. n - 1, u[j] = u[k] PROVE j = k
    BY <1>9 DEF IsInjective
  <2>1. j + 1 = k + 1
    BY <1>8, <1>10, <1>12
  <2> QED BY <2>1
<1>14. \A i \in 1 .. n - 1 : u[i] # r /\ pc[u[i]] = "waiting" /\ u[i] \in Requests
  BY <1>6, <1>7, <1>8, <1>10, <1>11, <1>12
<1>15. \A i \in 1 .. n - 1 : pc'[u[i]] = "waiting"
  BY <1>2, <1>14 DEF RInv, RecordTypes
<1>16. lock' \in Requests \cup {NoOne} /\ last' \in {NoOne} \cup Chats \cup Threads /\ killed' \in BOOLEAN
        /\ poisoned' \in BOOLEAN
  BY <1>3, <1>4 DEF QueueInv
<1> QED BY <1>1, <1>5, <1>8, <1>13, <1>15, <1>16 DEF QueueInv

LEMMA QueueStep ==
  ASSUME QueueInv, RInv, [Next]_vars
  PROVE  QueueInv'
<1>0. pc \in [Requests -> Places]
  BY DEF RInv, RecordTypes
<1>1. ASSUME NEW r \in Requests, InProgress(r) \/ CreateChat(r) PROVE QueueInv'
  BY <1>0, <1>1, QueueJoins DEF InProgress, CreateChat, Goto, session, records
<1>2. ASSUME NEW r \in Requests, Close(r) PROVE QueueInv'
  BY <1>2 DEF Close, Release, session, records, QueueInv
<1>3. ASSUME NEW r \in Requests, Sync(r) \/ Reason(r) \/ Return(r) PROVE QueueInv'
  <2>1. /\ \E place : pc' = [pc EXCEPT ![r] = place]
        /\ pc[r] # "waiting" /\ lock' \in {lock, NoOne}
        /\ UNCHANGED <<waiters, last, killed, poisoned, turn>>
    BY <1>3 DEF Sync, Reason, Return, Leave, Release, Goto, session, mutex
  <2>2. lock' \in Requests \cup {NoOne} /\ turn' \in [Threads -> BOOLEAN]
    BY <2>1 DEF QueueInv
  <2> QED BY <1>0, <2>1, <2>2, QueueStays
<1>4. ASSUME NEW r \in Requests, Exhausted(r) \/ Decode(r) PROVE QueueInv'
  <2>1. /\ \E place : pc' = [pc EXCEPT ![r] = place]
        /\ pc[r] # "waiting" /\ UNCHANGED <<lock, waiters, last, killed, poisoned, turn>>
    BY <1>4 DEF Exhausted, Decode, Deliver, Leave, Goto, notDecoding
  <2>2. lock' \in Requests \cup {NoOne} /\ turn' \in [Threads -> BOOLEAN]
    BY <2>1 DEF QueueInv
  <2> QED BY <1>0, <2>1, <2>2, QueueStays
<1>5. ASSUME NEW r \in Runs, CreateRun(r) PROVE QueueInv'
  <2>1. /\ \E place : pc' = [pc EXCEPT ![r] = place]
        /\ pc[r] # "waiting" /\ UNCHANGED <<lock, waiters, last, killed, poisoned>>
        /\ turn' = [turn EXCEPT ![ThreadOf[r]] = FALSE]
    BY <1>5 DEF CreateRun, Goto, session, mutex
  <2>2. lock' \in Requests \cup {NoOne} /\ turn' \in [Threads -> BOOLEAN] /\ r \in Requests
    BY <2>1, Constants DEF QueueInv
  <2> QED BY <1>0, <2>1, <2>2, QueueStays
<1>6. ASSUME NEW t \in Threads, Say(t) \/ CancelRun(t) PROVE QueueInv'
  BY <1>6 DEF Say, CancelRun, session, mutex, QueueInv
<1>7. CASE UNCHANGED vars
  BY <1>7 DEF vars, session, mutex, records, QueueInv
<1>8. \A r \in Chats : r \in Requests
  BY Constants
<1> QED BY <1>0, <1>1, <1>2, <1>3, <1>4, <1>5, <1>6, <1>7, <1>8, QueueServes, QueueLeaves
        DEF Next, Work

(* Whatever requests come, end, fail or are dropped, the queue of the lock *)
(* has each once, and only the holder of the lock has a closing generator. *)
THEOREM TypeCorrect == Spec => []TypeOK
<1>1. RInv /\ SInv /\ QueueInv => TypeOK
  <2> SUFFICES ASSUME RInv, SInv, QueueInv PROVE TypeOK
    OBVIOUS
  <2>1. \A r \in Requests : pc[r] = "decoding" => seq + left <= Len(ids)
    BY DEF SInv, LockInv
  <2> QED BY <2>1 DEF RInv, RecordTypes, Places, Statuses, SInv, SessionInv, SessionTypes, LockInv,
                  QueueInv, TypeOK
<1>2. Spec => [](RInv /\ SInv /\ QueueInv)
  <2>1. Init => RInv /\ SInv /\ QueueInv
    BY RecordsInit, SessionInit, QueueInit
  <2>2. RInv /\ SInv /\ QueueInv /\ [Next]_vars => (RInv /\ SInv /\ QueueInv)'
    BY RecordsStep, SessionStep, QueueStep
  <2> QED BY <2>1, <2>2, PTL DEF Spec
<1> QED BY <1>1, <1>2, PTL

=============================================================================
