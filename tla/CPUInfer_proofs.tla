--------------------------- MODULE CPUInfer_proofs ---------------------------
(***************************************************************************)
(* Proofs about the two components of CPUInfer, the thread pool and the    *)
(* queue before it, which share no state.                                  *)
(*                                                                         *)
(* WorkStealing, for any number of threads and any jobs: the inductive     *)
(* invariant IInv and what follows from it.  The argument: slice v of a    *)
(* job is the interval Bound(v) .. Bound(v+1)-1; the ids claimed so far    *)
(* are exactly the ids below curr[v] in the slices v handed out; a thread  *)
(* that left its own slice, or is not WORKING any more, left it with curr  *)
(* past the end; so when the caller has seen every worker not WORKING,     *)
(* every id of every slice has been claimed, and run.                      *)
(*                                                                         *)
(* TaskQueue, for any clients, any number of tasks and any initial memory  *)
(* of the flags.  The lock discipline (in QueueTypeOK) is what carries     *)
(* them: sync_flag can be true with a task in the queue only while that    *)
(* task's enqueue holds the mutex, so the worker cannot have taken it and  *)
(* the thread is not in sync().                                            *)
(***************************************************************************)
EXTENDS WorkStealing, TaskQueue, TLAPS


(* First id of slice k when n tasks are cut for m threads. *)
SliceBound(n, m, k) == k * (n \div m) + Min2(k, n % m)
Bound(k) == SliceBound(task_num, thread_num, k)

(* The slices whose end is set in the current job. *)
Cut == {v \in Threads :
          /\ ~Outside
          /\ v < thread_num
          /\ SettingUp => v < i \/ (pc[0] = "publish" /\ v <= i)}

(* Id k lies in slice v, below its curr. *)
Taken(k, v) == Bound(v) <= k /\ k < Bound(v + 1) /\ k < curr[v]

Claimed == ran \cup {task_id[t] : t \in {u \in Threads : pc[u] = "compute"}}

-----------------------------------------------------------------------------
(* The conjuncts of the inductive invariant. *)

(* Which program points a thread visits, and the range of the loop index. *)
ControlInv ==
  /\ pc[0] \notin {"poll"}
  /\ \A t \in Workers : pc[t] \in {"poll", "claim", "compute", "scan", "exited"}
  /\ ~Outside => thread_num >= 1
  /\ SettingUp => i \in 1 .. thread_num

(* Only a thread with a slice is WORKING, and only such a thread is inside *)
(* process_tasks.                                                          *)
StatusInv ==
  /\ \A t \in Threads : status[t] = "WORKING" => t \in Handed
  /\ \A t \in Threads : InPool(t) => status[t] = "WORKING"
  /\ pc[0] = "join" => \A t \in Threads : t < i => status[t] # "WORKING"
  /\ \A t \in Threads : status[t] = "EXIT" => pc[0] \in {"closing", "exited"}

(* The slices are the intervals between the bounds. *)
SliceInv ==
  /\ \A v \in Cut : end[v] = Bound(v + 1)
  /\ \A v \in Handed : curr[v] >= Bound(v)
  /\ pc[0] = "publish" => curr[Target] = Bound(Target)

(* A thread leaves its own slice, and its job, only when it is exhausted. *)
DrainInv ==
  /\ \A t \in Threads : pc[t] = "scan" => t_offset[t] >= 1
  /\ \A t \in Threads :
       pc[t] \in {"claim", "compute"} =>
         Victim(t) \in Handed /\ (t_offset[t] = 0 => Victim(t) = t)
  /\ \A v \in Handed :
       (status[v] # "WORKING" \/ (InPool(v) /\ t_offset[v] > 0)) =>
         curr[v] >= Bound(v + 1)

(* The ids claimed are those below curr in the slices handed out. *)
ClaimInv ==
  /\ ~Outside => \A k \in Nat :
       k \in Claimed <=> \E v \in Handed : Taken(k, v)
  /\ \A t \in Threads : pc[t] = "compute" => task_id[t] \notin ran
  /\ \A t, u \in Threads :
       pc[t] = "compute" /\ pc[u] = "compute" /\ t # u => task_id[t] # task_id[u]
  /\ Outside => ran = 0 .. task_num - 1

IInv ==
  TypeOK /\ ControlInv /\ StatusInv /\ SliceInv /\ DrainInv /\ ClaimInv

-----------------------------------------------------------------------------
(* Arithmetic of the slices. *)

(* The first id of the next slice, as the set-up loop computes it. *)
LEMMA BoundStep ==
  ASSUME NEW n \in Nat, NEW m \in Nat \ {0}, NEW k \in Nat
  PROVE  /\ SliceBound(n, m, k) \in Nat
         /\ SliceBound(n, m, k + 1) =
              SliceBound(n, m, k) + (n \div m) + Bit(k < n % m)
<1> DEFINE b == n \div m
           r == n % m
<1>1. b \in Nat /\ r \in Nat
  OBVIOUS
<1> HIDE DEF b, r
<1>2. (k + 1) * b = k * b + b /\ k * b \in Nat
  BY <1>1
<1>3. Min2(k + 1, r) = Min2(k, r) + Bit(k < r) /\ Min2(k, r) \in Nat
  BY <1>1 DEF Min2, Bit
<1>4. (k * b) + Min2(k, r) \in Nat
      /\ ((k + 1) * b) + Min2(k + 1, r) = (k * b) + Min2(k, r) + b + Bit(k < r)
  <2> DEFINE x == k * b
             y == Min2(k, r)
             z == Bit(k < r)
  <2>1. z \in Nat
    BY DEF Bit
  <2> HIDE DEF x, y, z
  <2> QED
    BY <1>1, <1>2, <1>3, <2>1 DEF x, y, z
<1> QED
  BY <1>4 DEF SliceBound, b, r

(* Later slices start later. *)
LEMMA BoundMono ==
  ASSUME NEW n \in Nat, NEW m \in Nat \ {0}, NEW j \in Nat, NEW k \in Nat, j <= k
  PROVE  SliceBound(n, m, j) <= SliceBound(n, m, k)
<1> DEFINE b == n \div m
           r == n % m
<1>1. b \in Nat /\ r \in Nat
  OBVIOUS
<1> HIDE DEF b, r
<1>2. j * b <= k * b /\ j * b \in Nat /\ k * b \in Nat
  <2>1. PICK d \in Nat : k = j + d
    <3>1. k - j \in Nat /\ k = j + (k - j)
      OBVIOUS
    <3> QED
      BY <3>1
  <2>2. k * b = j * b + d * b /\ d * b \in Nat /\ j * b \in Nat
    BY <1>1, <2>1
  <2> QED
    BY <2>2
<1>3. Min2(j, r) <= Min2(k, r) /\ Min2(j, r) \in Nat /\ Min2(k, r) \in Nat
  BY <1>1 DEF Min2
<1> QED
  BY <1>2, <1>3 DEF SliceBound, b, r

(* The slices start at 0 and end at n. *)
LEMMA BoundEnds ==
  ASSUME NEW n \in Nat, NEW m \in Nat \ {0}
  PROVE  SliceBound(n, m, 0) = 0 /\ SliceBound(n, m, m) = n
<1>1. n = m * (n \div m) + (n % m) /\ n % m < m /\ n % m \in Nat /\ n \div m \in Nat
  OBVIOUS
<1>2. Min2(0, n % m) = 0 /\ Min2(m, n % m) = n % m
  BY <1>1 DEF Min2
<1>3. 0 * (n \div m) = 0
  BY <1>1
<1> QED
  BY <1>1, <1>2, <1>3 DEF SliceBound

(* Every id lies in a slice: the first n % m slices are one longer. *)
LEMMA BoundCover ==
  ASSUME NEW n \in Nat, NEW m \in Nat \ {0}, NEW k \in Nat, k < n
  PROVE  \E v \in 0 .. m - 1 : SliceBound(n, m, v) <= k /\ k < SliceBound(n, m, v + 1)
<1> DEFINE b == n \div m
           r == n % m
<1>1. b \in Nat /\ r \in Nat /\ r < m /\ n = m * b + r
  OBVIOUS
<1> HIDE DEF b, r
<1>2. CASE k < r * (b + 1)
  <2> DEFINE v == k \div (b + 1)
  <2>1. v \in Nat /\ v * (b + 1) <= k /\ k < (v + 1) * (b + 1)
    BY <1>1
  <2> HIDE DEF v
  <2>2. v < r
    BY <1>1, <1>2, <2>1
  <2>3. Min2(v, r) = v /\ Min2(v + 1, r) = v + 1
    BY <1>1, <2>1, <2>2 DEF Min2
  <2>4. v * (b + 1) = v * b + v /\ (v + 1) * (b + 1) = (v + 1) * b + (v + 1)
    BY <1>1, <2>1
  <2>5. v * b + Min2(v, r) <= k /\ k < (v + 1) * b + Min2(v + 1, r)
    BY <2>1, <2>3, <2>4
  <2> QED
    BY <1>1, <2>1, <2>2, <2>5 DEF SliceBound, b, r
<1>3. CASE k >= r * (b + 1)
  <2> DEFINE d == k - r * (b + 1)
             w == d \div b
             v == r + w
  <2>1. r * (b + 1) = r * b + r /\ r * b \in Nat /\ (m - r) * b = m * b - r * b
    BY <1>1
  <2>2. d \in Nat /\ d < (m - r) * b
    BY <1>1, <1>3, <2>1
  <2>3. b > 0
    <3>1. b = 0 => (m - r) * b = 0
      BY <1>1
    <3> QED
      BY <1>1, <2>2, <3>1
  <2> HIDE DEF d
  <2>4. w \in Nat /\ w * b <= d /\ d < (w + 1) * b
    BY <1>1, <2>2, <2>3
  <2> HIDE DEF w
  <2>5. w < m - r
    BY <1>1, <2>2, <2>3, <2>4
  <2>6. v * b = r * b + w * b /\ (v + 1) * b = r * b + (w + 1) * b
    BY <1>1, <2>4
  <2>7. v \in 0 .. m - 1 /\ Min2(v, r) = r /\ Min2(v + 1, r) = r
    BY <1>1, <2>4, <2>5 DEF Min2
  <2>8. w * b \in Nat /\ (w + 1) * b \in Nat
    BY <1>1, <2>4
  <2> HIDE DEF v
  <2>9. v * b + Min2(v, r) <= k /\ k < (v + 1) * b + Min2(v + 1, r)
    BY <1>1, <2>1, <2>2, <2>4, <2>6, <2>7, <2>8 DEF d
  <2> QED
    BY <2>7, <2>9 DEF SliceBound, b, r
<1> QED
  <2>1. r * (b + 1) \in Nat
    BY <1>1
  <2> QED
    BY <1>2, <1>3, <2>1

-----------------------------------------------------------------------------
(* Facts about the states of one job. *)

(* The bounds of a job are natural numbers, ordered, from 0 to task_num. *)
LEMMA Bounds ==
  ASSUME TypeOK, thread_num >= 1
  PROVE  /\ \A k \in Nat : Bound(k) \in Nat
         /\ \A k \in Nat : Bound(k + 1) = Bound(k) + base + Extra(k)
         /\ \A j, k \in Nat : j <= k => Bound(j) <= Bound(k)
         /\ Bound(0) = 0 /\ Bound(thread_num) = task_num
         /\ base \in Nat /\ \A k \in Nat : Extra(k) \in Nat
         /\ \A v \in Threads : v \in Nat /\ Bound(v) \in Nat /\ Bound(v + 1) \in Nat
<1>1. task_num \in Nat /\ thread_num \in Nat \ {0}
  BY WorkStealingAssumption DEF TypeOK
<1>2. base \in Nat /\ \A k \in Nat : Extra(k) \in Nat
  BY <1>1 DEF base, Extra, Bit
<1>3. \A k \in Nat : Bound(k) \in Nat
  BY <1>1, BoundStep DEF Bound
<1>4. \A v \in Threads : v \in Nat /\ v + 1 \in Nat
  BY WorkStealingAssumption DEF Threads
<1> QED
  BY <1>1, <1>2, <1>3, <1>4, BoundStep, BoundMono, BoundEnds DEF Bound, base, Extra

(* An id lies in at most one slice. *)
LEMMA OneSlice ==
  ASSUME TypeOK, thread_num >= 1, NEW k \in Nat, NEW v \in Nat, NEW w \in Nat,
         Bound(v) <= k, k < Bound(v + 1), Bound(w) <= k, k < Bound(w + 1)
  PROVE  v = w
<1>1. \A j \in Nat : Bound(j) \in Nat
  BY Bounds
<1>2. v < w => Bound(v + 1) <= Bound(w)
  BY Bounds
<1>3. w < v => Bound(w + 1) <= Bound(v)
  BY Bounds
<1> QED
  BY <1>1, <1>2, <1>3

(* A slice handed out has its end set. *)
LEMMA HandedCut == TypeOK /\ ControlInv => Handed \subseteq Cut
  BY DEF TypeOK, ControlInv, Handed, Cut, SettingUp

-----------------------------------------------------------------------------
(* The initial state. *)
LEMMA InitIInv == Init => IInv
<1> SUFFICES ASSUME Init PROVE IInv
  OBVIOUS
<1> USE WorkStealingAssumption DEF Threads, Workers
<1>1. TypeOK
  BY DEF Init, TypeOK
<1>2. ControlInv /\ StatusInv
  BY DEF Init, ControlInv, StatusInv, Outside, SettingUp, InPool, Handed
<1>3. SliceInv /\ DrainInv
  BY DEF Init, SliceInv, DrainInv, Outside, Cut, Handed, InPool
<1>4. ClaimInv
  BY DEF Init, ClaimInv, Outside
<1> QED
  BY <1>1, <1>2, <1>3, <1>4 DEF IInv

-----------------------------------------------------------------------------
(* process_tasks: a thread inside it works for the current job, and moves  *)
(* without changing what the slices are.                                   *)
LEMMA InJob ==
  ASSUME IInv, NEW t \in Threads, InPool(t)
  PROVE  /\ t \in Handed /\ status[t] = "WORKING"
         /\ ~Outside /\ thread_num \in 1 .. N /\ t < thread_num
BY DEF IInv, TypeOK, ControlInv, StatusInv, Handed

LEMMA SameSlices ==
  ASSUME IInv, NEW t \in Threads, InPool(t), NEW where \in {"claim", "compute", "scan", "join"},
         Goto(t, where), UNCHANGED job, t = 0 \/ UNCHANGED i, t = 0 \/ where # "join"
  PROVE  /\ Handed' = Handed /\ Cut' = Cut
         /\ Outside' = Outside /\ SettingUp' = SettingUp
         /\ \A k : Bound(k)' = Bound(k)
         /\ ControlInv'
<1> USE WorkStealingAssumption DEF Threads, Workers, Goto
<1>1. pc \in [Threads -> {"idle", "slice", "publish", "claim", "compute",
                         "scan", "join", "poll", "closing", "exited"}]
  BY DEF IInv, TypeOK
<1>2. Outside' = Outside /\ SettingUp' = SettingUp /\ (t = 0 => ~SettingUp)
      /\ (pc'[0] = "publish") = (pc[0] = "publish")
  BY <1>1 DEF Outside, SettingUp, InPool
<1>3. Handed' = Handed
  BY <1>2 DEF Handed, job
<1>4. Cut' = Cut
  BY <1>2 DEF Cut, job
<1>5. \A k : Bound(k)' = Bound(k)
  BY DEF Bound, job
<1>6. ControlInv'
  BY <1>1, <1>2 DEF IInv, ControlInv, InPool, job
<1> QED
  BY <1>2, <1>3, <1>4, <1>5, <1>6

LEMMA ClaimStep == ASSUME IInv, NEW t \in Threads, Claim(t) PROVE IInv'
<1> DEFINE v == Victim(t)
<1>1. InPool(t) /\ pc[t] = "claim"
  BY DEF Claim, InPool
<1>2. /\ t \in Handed /\ ~Outside /\ thread_num \in 1 .. N
      /\ status[t] = "WORKING"
  BY <1>1, InJob
<1>3. v \in Handed /\ v \in Threads /\ (t_offset[t] = 0 => v = t)
  BY <1>1, <1>2 DEF IInv, DrainInv, Handed
<1>4. end[v] = Bound(v + 1) /\ curr[v] >= Bound(v)
  BY <1>3, HandedCut DEF IInv, SliceInv
<1>5. /\ \A k \in Nat : Bound(k) \in Nat
      /\ \A w \in Threads : w \in Nat /\ Bound(w) \in Nat /\ Bound(w + 1) \in Nat
  BY <1>2, Bounds DEF IInv
<1>t. TypeOK
  BY DEF IInv
<1>6. PICK where \in {"scan", "compute"} :
        /\ pc' = [pc EXCEPT ![t] = where]
        /\ where = "scan" <=> curr[v] >= end[v]
        /\ t_offset' = [t_offset EXCEPT ![t] =
                           IF where = "scan" THEN t_offset[t] + 1 ELSE t_offset[t]]
  <2>1. CASE curr[v] >= end[v]
    BY <2>1 DEF Claim, Exhausted, Goto
  <2>2. CASE ~(curr[v] >= end[v])
    <3>1. t_offset' = [t_offset EXCEPT ![t] = t_offset[t]]
      BY <2>2, <1>t DEF Claim, Exhausted, TypeOK
    <3> QED
      BY <2>2, <3>1 DEF Claim, Exhausted, Goto
  <2> QED
    BY <2>1, <2>2
<1>7. /\ curr' = [curr EXCEPT ![v] = curr[v] + 1]
      /\ task_id' = [task_id EXCEPT ![t] = curr[v]]
      /\ status' = status /\ end' = end /\ i' = i /\ ran' = ran /\ calls' = calls
      /\ thread_num' = thread_num /\ task_num' = task_num /\ jobs' = jobs
  BY DEF Claim, job, done
<1> HIDE DEF v
<1>8. /\ Handed' = Handed /\ Cut' = Cut /\ Outside' = Outside
      /\ SettingUp' = SettingUp /\ (\A k : Bound(k)' = Bound(k)) /\ ControlInv'
  BY <1>1, <1>6, <1>7, SameSlices DEF Goto, job
<1>9. TypeOK'
  <2>1. curr' \in [Threads -> Nat] /\ task_id' \in [Threads -> Nat]
    BY <1>t, <1>3, <1>7 DEF TypeOK
  <2>2. t_offset' \in [Threads -> Nat]
    BY <1>t, <1>6 DEF TypeOK
  <2>3. pc' \in [Threads -> {"idle", "slice", "publish", "claim", "compute",
                         "scan", "join", "poll", "closing", "exited"}]
    BY <1>t, <1>6 DEF TypeOK
  <2> QED
    BY <1>t, <1>7, <2>1, <2>2, <2>3 DEF TypeOK
<1>10. StatusInv'
  BY <1>t, <1>1, <1>2, <1>6, <1>7, <1>8 DEF IInv, TypeOK, StatusInv, InPool
<1>11. SliceInv'
  <2>1. \A w \in Cut' : end'[w] = Bound(w + 1)'
    BY <1>7, <1>8 DEF IInv, SliceInv
  <2>2. \A w \in Handed' : curr'[w] >= Bound(w)'
    <3>1. SUFFICES ASSUME NEW w \in Handed PROVE curr'[w] >= Bound(w)
      BY <1>8
    <3>2. w \in Threads /\ w \in Nat /\ curr[w] >= Bound(w) /\ curr[w] \in Nat /\ Bound(w) \in Nat
      BY <1>t, <1>5, <3>1 DEF IInv, SliceInv, TypeOK, Handed, Threads
    <3> QED
      BY <1>t, <1>7, <3>2 DEF TypeOK
  <2>3. pc'[0] = "publish" => pc[0] = "publish" /\ v # Target
    <3>1. pc'[0] = "publish" => pc[0] = "publish"
      BY <1>t, <1>6 DEF TypeOK
    <3>2. pc[0] = "publish" => 1 <= v /\ v < i /\ v < thread_num
      BY <1>3 DEF Handed, SettingUp
    <3>3. v \in Nat /\ i \in Nat /\ thread_num \in Nat
      BY <1>t, <1>3, WorkStealingAssumption DEF TypeOK, Threads
    <3> QED
      BY <3>1, <3>2, <3>3 DEF Target
  <2>4. Target \in Threads /\ Target' = Target
    BY <1>t, <1>7, WorkStealingAssumption DEF TypeOK, Target, Threads
  <2>5. pc'[0] = "publish" => curr'[Target'] = Bound(Target)'
    BY <1>t, <1>7, <1>8, <2>3, <2>4 DEF IInv, SliceInv, TypeOK
  <2> QED
    BY <2>1, <2>2, <2>5 DEF SliceInv
<1>12. DrainInv'
  <2>1. \A u \in Threads : pc'[u] = "scan" => t_offset'[u] >= 1
    BY <1>t, <1>6 DEF IInv, DrainInv, TypeOK
  <2>2. ASSUME NEW u \in Threads, pc'[u] \in {"claim", "compute"}
        PROVE  Victim(u)' \in Handed' /\ (t_offset'[u] = 0 => Victim(u)' = u)
    <3>1. t_offset'[u] = t_offset[u] /\ pc[u] \in {"claim", "compute"}
      BY <1>t, <1>1, <1>6, <2>2 DEF TypeOK
    <3>2. Victim(u)' = Victim(u)
      BY <1>7, <3>1 DEF Victim
    <3> QED
      BY <1>8, <3>1, <3>2 DEF IInv, DrainInv
  <2>3. ASSUME NEW w \in Handed,
               status'[w] # "WORKING" \/ (InPool(w)' /\ t_offset'[w] > 0)
        PROVE  curr'[w] >= Bound(w + 1)
    <3>1. w \in Threads /\ w \in Nat /\ curr[w] \in Nat /\ Bound(w + 1) \in Nat
      BY <1>t, <1>5 DEF TypeOK, Handed
    <3>2. curr'[w] >= curr[w] /\ curr'[w] \in Nat
      BY <1>t, <1>7, <3>1 DEF TypeOK
    <3>3. CASE status[w] # "WORKING" \/ (InPool(w) /\ t_offset[w] > 0)
      BY <3>1, <3>2, <3>3 DEF IInv, DrainInv
    <3>4. CASE ~(status[w] # "WORKING" \/ (InPool(w) /\ t_offset[w] > 0))
      <4>1. w = t /\ pc'[t] = "scan" /\ t_offset[t] = 0
        BY <1>t, <1>1, <1>6, <1>7, <2>3, <3>1, <3>4 DEF InPool, TypeOK
      <4>2. curr[w] >= Bound(w + 1)
        BY <1>t, <1>3, <1>4, <1>6, <4>1 DEF TypeOK
      <4> QED
        BY <3>1, <3>2, <4>2
    <3> QED
      BY <3>3, <3>4
  <2> QED
    BY <1>8, <2>1, <2>2, <2>3 DEF DrainInv
<1>13. ClaimInv'
  <2> DEFINE c == curr[v]
  <2>0. c \in Nat /\ v \in Nat /\ Bound(v) \in Nat /\ Bound(v + 1) \in Nat
    BY <1>t, <1>3, <1>5 DEF TypeOK
  <2>1. ASSUME where = "compute"
        PROVE  c \notin Claimed
    <3>1. c < Bound(v + 1)
      BY <1>4, <1>6, <2>0, <2>1
    <3>2. ASSUME NEW w \in Handed, Taken(c, w)
          PROVE  FALSE
      <4>1. w \in Nat
        BY DEF Handed, Threads
      <4>2. w = v
        BY <1>t, <1>2, <1>4, <2>0, <3>1, <3>2, <4>1, OneSlice DEF Taken
      <4> QED
        BY <2>0, <3>2, <4>2 DEF Taken
    <3> QED
      BY <1>2, <2>0, <3>2 DEF IInv, ClaimInv
  <2>2. \A k : k \in Claimed' <=> k \in Claimed \/ (where = "compute" /\ k = c)
    <3>1. \A u \in Threads \ {t} : pc'[u] = pc[u] /\ task_id'[u] = task_id[u]
      BY <1>t, <1>6, <1>7 DEF TypeOK
    <3>2. pc'[t] = where /\ task_id'[t] = c /\ pc[t] # "compute"
      BY <1>t, <1>1, <1>6, <1>7 DEF TypeOK
    <3> QED
      BY <1>7, <3>1, <3>2 DEF Claimed
  <2>3. ASSUME NEW k \in Nat, NEW w \in Handed
        PROVE  Taken(k, w)' <=> Taken(k, w) \/ (where = "compute" /\ k = c /\ w = v)
    <3>1. Taken(k, w)' <=> Bound(w) <= k /\ k < Bound(w + 1) /\ k < curr'[w]
      BY <1>8 DEF Taken
    <3>2. w \in Threads /\ curr[w] \in Nat
      BY <1>t DEF TypeOK, Handed
    <3>3. curr'[w] = IF w = v THEN c + 1 ELSE curr[w]
      BY <1>t, <1>7, <3>2 DEF TypeOK
    <3>4. w = v /\ where # "compute" => curr[w] >= Bound(w + 1)
      BY <1>4, <1>6
    <3>5. w = v /\ where = "compute" => Bound(w) <= c /\ c < Bound(w + 1)
      BY <1>4, <1>6, <2>0
    <3> QED
      BY <2>0, <3>1, <3>2, <3>3, <3>4, <3>5 DEF Taken
  <2>4. \A k \in Nat : k \in Claimed' <=> \E w \in Handed : Taken(k, w)'
    BY <1>2, <1>3, <2>2, <2>3 DEF IInv, ClaimInv
  <2>5. \A u \in Threads : pc'[u] = "compute" => task_id'[u] \notin ran'
    BY <1>t, <1>6, <1>7, <2>1 DEF IInv, ClaimInv, TypeOK, Claimed
  <2>6. ASSUME NEW u1 \in Threads, NEW u2 \in Threads, u1 # u2,
               pc'[u1] = "compute", pc'[u2] = "compute"
        PROVE  task_id'[u1] # task_id'[u2]
    BY <1>t, <1>6, <1>7, <2>1, <2>6 DEF IInv, ClaimInv, TypeOK, Claimed
  <2> QED
    BY <1>2, <1>8, <2>4, <2>5, <2>6 DEF ClaimInv
<1> QED
  BY <1>8, <1>9, <1>10, <1>11, <1>12, <1>13 DEF IInv

LEMMA ComputeStep == ASSUME IInv, NEW t \in Threads, Compute(t) PROVE IInv'
<1>1. InPool(t) /\ pc[t] = "compute" /\ pc' = [pc EXCEPT ![t] = "claim"]
  BY DEF Compute, InPool, Goto
<1>2. t \in Handed /\ ~Outside /\ status[t] = "WORKING"
  BY <1>1, InJob
<1>t. TypeOK
  BY DEF IInv
<1>3. /\ ran' = ran \cup {task_id[t]} /\ calls' = calls + 1
      /\ curr' = curr /\ task_id' = task_id /\ t_offset' = t_offset
      /\ status' = status /\ end' = end /\ i' = i
      /\ thread_num' = thread_num /\ task_num' = task_num /\ jobs' = jobs
  BY DEF Compute, job, slices, local, done
<1>4. /\ Handed' = Handed /\ Cut' = Cut /\ Outside' = Outside
      /\ SettingUp' = SettingUp /\ (\A k : Bound(k)' = Bound(k)) /\ ControlInv'
  BY <1>1, <1>3, SameSlices DEF Goto, job
<1>5. TypeOK'
  <2>1. calls' \in Nat
    BY <1>t, <1>3 DEF TypeOK
  <2> QED
    BY <1>t, <1>1, <1>3, <2>1 DEF TypeOK
<1>6. StatusInv'
  BY <1>t, <1>1, <1>2, <1>3, <1>4 DEF IInv, TypeOK, StatusInv, InPool
<1>7. SliceInv'
  BY <1>t, <1>1, <1>3, <1>4 DEF IInv, SliceInv, TypeOK, Target
<1>8. \A u \in Threads : Victim(u)' = Victim(u) /\ InPool(u)' = InPool(u)
  BY <1>t, <1>1, <1>3 DEF Victim, InPool, TypeOK
<1>9. DrainInv'
  <2>1. \A u \in Threads : pc'[u] \in {"claim", "compute"} => pc[u] \in {"claim", "compute"}
    BY <1>t, <1>1 DEF TypeOK
  <2>2. \A u \in Threads : pc'[u] = "scan" => pc[u] = "scan"
    BY <1>t, <1>1 DEF TypeOK
  <2>3. \A w \in Handed :
          status'[w] # "WORKING" \/ (InPool(w)' /\ t_offset'[w] > 0)
            => curr'[w] >= Bound(w + 1)'
    BY <1>3, <1>4, <1>8 DEF IInv, DrainInv, Handed
  <2> QED
    BY <1>3, <1>4, <1>8, <2>1, <2>2, <2>3 DEF IInv, DrainInv
<1>10. ClaimInv'
  <2>1. Claimed' = Claimed
    BY <1>t, <1>1, <1>3 DEF TypeOK, Claimed
  <2>2. \A k, w : Taken(k, w)' = Taken(k, w)
    BY <1>3, <1>4 DEF Taken
  <2> QED
    BY <1>t, <1>1, <1>2, <1>3, <1>4, <2>1, <2>2 DEF IInv, ClaimInv, TypeOK
<1> QED
  BY <1>4, <1>5, <1>6, <1>7, <1>9, <1>10 DEF IInv

LEMMA CheckVictimStep == ASSUME IInv, NEW t \in Threads, CheckVictim(t) PROVE IInv'
<1>t. TypeOK
  BY DEF IInv
<1>1. InPool(t) /\ pc[t] = "scan" /\ t_offset[t] < thread_num /\ t_offset[t] >= 1
  BY DEF CheckVictim, InPool, IInv, DrainInv
<1>2. PICK where \in {"scan", "claim"} :
        /\ pc' = [pc EXCEPT ![t] = where]
        /\ where = "claim" => status[Victim(t)] = "WORKING"
        /\ t_offset' = [t_offset EXCEPT ![t] =
                           IF where = "scan" THEN t_offset[t] + 1 ELSE t_offset[t]]
  <2>1. CASE Stealable(Victim(t))
    <3>1. t_offset' = [t_offset EXCEPT ![t] = t_offset[t]]
      BY <2>1, <1>t DEF CheckVictim, TypeOK
    <3> QED
      BY <2>1, <3>1 DEF CheckVictim, Stealable, Goto
  <2>2. CASE ~Stealable(Victim(t))
    <3>1. pc' = [pc EXCEPT ![t] = "scan"]
      BY <2>2, <1>t, <1>1 DEF CheckVictim, TypeOK
    <3> QED
      BY <2>2, <3>1 DEF CheckVictim
  <2> QED
    BY <2>1, <2>2
<1>3. /\ ran' = ran /\ calls' = calls /\ curr' = curr /\ task_id' = task_id
      /\ status' = status /\ end' = end /\ i' = i
      /\ thread_num' = thread_num /\ task_num' = task_num /\ jobs' = jobs
  BY DEF CheckVictim, job, done, slices
<1>4. t \in Handed /\ ~Outside /\ thread_num \in 1 .. N /\ status[t] = "WORKING"
  BY <1>1, InJob
<1>5. /\ Handed' = Handed /\ Cut' = Cut /\ Outside' = Outside
      /\ SettingUp' = SettingUp /\ (\A k : Bound(k)' = Bound(k)) /\ ControlInv'
  BY <1>1, <1>2, <1>3, SameSlices DEF Goto, job
<1>6. TypeOK'
  <2>1. t_offset' \in [Threads -> Nat]
    BY <1>t, <1>2 DEF TypeOK
  <2>2. pc' \in [Threads -> {"idle", "slice", "publish", "claim", "compute",
                         "scan", "join", "poll", "closing", "exited"}]
    BY <1>t, <1>2 DEF TypeOK
  <2> QED
    BY <1>t, <1>3, <2>1, <2>2 DEF TypeOK
<1>7. StatusInv'
  BY <1>t, <1>2, <1>3, <1>4, <1>5 DEF IInv, TypeOK, StatusInv, InPool, Outside
<1>8. SliceInv'
  BY <1>t, <1>2, <1>3, <1>5 DEF IInv, SliceInv, TypeOK, Target
<1>9. DrainInv'
  <2>1. \A u \in Threads : pc'[u] = "scan" => t_offset'[u] >= 1
    BY <1>t, <1>1, <1>2 DEF IInv, DrainInv, TypeOK
  <2>2. Victim(t) \in Threads
    <3>1. t + t_offset[t] \in Nat /\ thread_num \in Nat \ {0} /\ thread_num - 1 <= N - 1
      BY <1>t, <1>4, WorkStealingAssumption DEF TypeOK, Threads
    <3>2. (t + t_offset[t]) % thread_num \in 0 .. thread_num - 1
      BY <3>1
    <3> QED
      BY <3>1, <3>2, WorkStealingAssumption DEF Victim, Threads
  <2>3. ASSUME NEW u \in Threads, pc'[u] \in {"claim", "compute"}
        PROVE  Victim(u)' \in Handed' /\ (t_offset'[u] = 0 => Victim(u)' = u)
    <3>1. t_offset'[u] = t_offset[u]
      BY <1>t, <1>2, <2>3 DEF TypeOK
    <3>2. Victim(u)' = Victim(u)
      BY <1>3, <3>1 DEF Victim
    <3>3. CASE u = t
      BY <1>t, <1>1, <1>2, <1>5, <2>2, <2>3, <3>1, <3>2, <3>3 DEF IInv, StatusInv, TypeOK
    <3>4. CASE u # t
      BY <1>t, <1>2, <1>5, <2>3, <3>1, <3>2, <3>4 DEF IInv, DrainInv, TypeOK
    <3> QED
      BY <3>3, <3>4
  <2>4. ASSUME NEW w \in Handed,
               status'[w] # "WORKING" \/ (InPool(w)' /\ t_offset'[w] > 0)
        PROVE  curr'[w] >= Bound(w + 1)
    BY <1>t, <1>1, <1>2, <1>3, <2>4 DEF IInv, DrainInv, TypeOK, InPool, Handed
  <2> QED
    BY <1>5, <2>1, <2>3, <2>4 DEF DrainInv
<1>10. ClaimInv'
  <2>1. \A u \in Threads : pc'[u] = "compute" <=> pc[u] = "compute"
    BY <1>t, <1>1, <1>2 DEF TypeOK
  <2>2. Claimed' = Claimed
    BY <1>3, <2>1 DEF Claimed
  <2>3. \A k, w : Taken(k, w)' = Taken(k, w)
    BY <1>3, <1>5 DEF Taken
  <2> QED
    BY <1>3, <1>4, <1>5, <2>1, <2>2, <2>3 DEF IInv, ClaimInv
<1> QED
  BY <1>5, <1>6, <1>7, <1>8, <1>9, <1>10 DEF IInv

LEMMA FinishStep == ASSUME IInv, NEW t \in Threads, Finish(t) PROVE IInv'
<1>t. TypeOK
  BY DEF IInv
<1> DEFINE where == IF t = 0 THEN "join" ELSE "poll"
<1>1. InPool(t) /\ pc[t] = "scan" /\ t_offset[t] >= thread_num /\ t_offset[t] >= 1
  BY DEF Finish, InPool, IInv, DrainInv
<1>2. /\ pc' = [pc EXCEPT ![t] = where]
      /\ status' = [status EXCEPT ![t] = "WAITING"]
      /\ i' = IF t = 0 THEN 1 ELSE i
      /\ ran' = ran /\ calls' = calls /\ curr' = curr /\ task_id' = task_id
      /\ end' = end /\ t_offset' = t_offset
      /\ thread_num' = thread_num /\ task_num' = task_num /\ jobs' = jobs
  BY DEF Finish, job, slices, local, done, Goto, DoneStatus
<1>3. t \in Handed /\ ~Outside /\ thread_num \in 1 .. N /\ status[t] = "WORKING"
  BY <1>1, InJob
<1> HIDE DEF where
<1>4. /\ pc'[t] = where /\ \A u \in Threads \ {t} : pc'[u] = pc[u]
      /\ where \in {"join", "poll"} /\ (where = "join" <=> t = 0)
      /\ 0 \in Threads
  BY <1>t, <1>2, WorkStealingAssumption DEF TypeOK, where, Threads
<1>5. /\ Outside' = Outside /\ SettingUp' = SettingUp
      /\ (t = 0 => ~SettingUp) /\ (pc'[0] = "publish" <=> pc[0] = "publish")
  BY <1>1, <1>4 DEF Outside, SettingUp
<1>6. Handed' = Handed /\ Cut' = Cut /\ (\A k : Bound(k)' = Bound(k))
  BY <1>2, <1>5 DEF Handed, Cut, Bound
<1>7. TypeOK'
  <2>1. pc' \in [Threads -> {"idle", "slice", "publish", "claim", "compute",
                         "scan", "join", "poll", "closing", "exited"}]
    BY <1>t, <1>2, <1>4 DEF TypeOK
  <2>2. i' \in Nat
    BY <1>t, <1>2 DEF TypeOK
  <2> QED
    BY <1>t, <1>2, <2>1, <2>2 DEF TypeOK
<1>8. ControlInv'
  <2>1. SettingUp => i' = i
    BY <1>2, <1>5
  <2>2. Workers \subseteq Threads /\ 0 \notin Workers
    BY WorkStealingAssumption DEF Threads, Workers
  <2> QED
    BY <1>2, <1>4, <1>5, <2>1, <2>2 DEF IInv, ControlInv
<1>9. StatusInv'
  <2>1. status'[t] = "WAITING" /\ \A u \in Threads \ {t} : status'[u] = status[u]
    BY <1>t, <1>2 DEF TypeOK
  <2>2. t = 0 => \A u \in Threads : u < i' => u = 0
    BY <1>2, WorkStealingAssumption DEF Threads
  <2>3. t # 0 => i' = i
    BY <1>2
  <2>4. ~InPool(t)' /\ \A u \in Threads \ {t} : InPool(u)' = InPool(u)
    BY <1>4 DEF InPool
  <2> QED
    BY <1>3, <1>4, <1>5, <1>6, <2>1, <2>2, <2>3, <2>4 DEF IInv, StatusInv, Outside
<1>10. SliceInv'
  <2>1. pc'[0] = "publish" => Target' = Target
    BY <1>2, <1>4 DEF Target
  <2> QED
    BY <1>2, <1>5, <1>6, <2>1 DEF IInv, SliceInv
<1>11. DrainInv'
  <2>1. \A u \in Threads : Victim(u)' = Victim(u)
    BY <1>2 DEF Victim
  <2>2. curr[t] >= Bound(t + 1)
    BY <1>t, <1>1, <1>3 DEF IInv, DrainInv, TypeOK
  <2>3. ASSUME NEW w \in Handed,
               status'[w] # "WORKING" \/ (InPool(w)' /\ t_offset'[w] > 0)
        PROVE  curr'[w] >= Bound(w + 1)
    <3>1. CASE w = t
      BY <1>2, <2>2, <3>1
    <3>2. CASE w # t
      BY <1>t, <1>2, <1>4, <2>3, <3>2 DEF IInv, DrainInv, TypeOK, InPool, Handed
    <3> QED
      BY <3>1, <3>2
  <2> QED
    BY <1>2, <1>4, <1>6, <2>1, <2>3 DEF IInv, DrainInv
<1>12. ClaimInv'
  <2>1. \A u \in Threads : pc'[u] = "compute" <=> pc[u] = "compute"
    BY <1>1, <1>4
  <2>2. Claimed' = Claimed
    BY <1>2, <2>1 DEF Claimed
  <2>3. \A k, w : Taken(k, w)' = Taken(k, w)
    BY <1>2, <1>6 DEF Taken
  <2> QED
    BY <1>2, <1>3, <1>5, <1>6, <2>1, <2>2, <2>3 DEF IInv, ClaimInv
<1> QED
  BY <1>7, <1>8, <1>9, <1>10, <1>11, <1>12 DEF IInv

LEMMA WakeUpStep == ASSUME IInv, NEW t \in Workers, WakeUp(t) PROVE IInv'
<1>t. TypeOK
  BY DEF IInv
<1>0. t \in Threads /\ t # 0 /\ 0 \in Threads /\ Workers \subseteq Threads /\ t \in Nat
  BY WorkStealingAssumption DEF Threads, Workers
<1>1. PICK where \in {"claim", "exited"} :
        /\ pc' = [pc EXCEPT ![t] = where]
        /\ where = "claim" <=> status[t] = "WORKING"
  BY DEF WakeUp, Goto
<1>2. /\ pc[t] = "poll"
      /\ t_offset' = [t_offset EXCEPT ![t] = 0]
      /\ ran' = ran /\ calls' = calls /\ curr' = curr /\ task_id' = task_id
      /\ status' = status /\ end' = end /\ i' = i
      /\ thread_num' = thread_num /\ task_num' = task_num /\ jobs' = jobs
  BY DEF WakeUp, slices, job, done
<1>3. /\ pc'[t] = where /\ \A u \in Threads \ {t} : pc'[u] = pc[u]
      /\ t_offset'[t] = 0 /\ \A u \in Threads \ {t} : t_offset'[u] = t_offset[u]
  BY <1>t, <1>0, <1>1, <1>2 DEF TypeOK
<1>4. pc'[0] = pc[0] /\ Outside' = Outside /\ SettingUp' = SettingUp
  BY <1>0, <1>3 DEF Outside, SettingUp
<1>5. Handed' = Handed /\ Cut' = Cut /\ (\A k : Bound(k)' = Bound(k))
  BY <1>2, <1>4 DEF Handed, Cut, Bound
<1>6. TypeOK'
  <2>1. t_offset' \in [Threads -> Nat]
    BY <1>t, <1>2 DEF TypeOK
  <2>2. pc' \in [Threads -> {"idle", "slice", "publish", "claim", "compute",
                         "scan", "join", "poll", "closing", "exited"}]
    BY <1>t, <1>1 DEF TypeOK
  <2> QED
    BY <1>t, <1>2, <2>1, <2>2 DEF TypeOK
<1>7. ControlInv'
  BY <1>0, <1>2, <1>3, <1>4 DEF IInv, ControlInv
<1>8. StatusInv'
  BY <1>1, <1>2, <1>3, <1>4, <1>5 DEF IInv, StatusInv, InPool
<1>9. SliceInv'
  BY <1>2, <1>4, <1>5 DEF IInv, SliceInv, Target
<1>10. DrainInv'
  <2>1. \A u \in Threads \ {t} : Victim(u)' = Victim(u) /\ InPool(u)' = InPool(u)
    BY <1>2, <1>3 DEF Victim, InPool
  <2>2. where = "claim" => t \in Handed /\ Victim(t)' = t
    <3>1. where = "claim" => t \in Handed /\ t < thread_num
      BY <1>0, <1>1 DEF IInv, StatusInv, Handed
    <3>2. t < thread_num => (t + 0) % thread_num = t
      BY <1>t, <1>0, WorkStealingAssumption DEF TypeOK
    <3> QED
      BY <1>2, <1>3, <3>1, <3>2 DEF Victim
  <2>3. \A w \in Handed :
          status'[w] # "WORKING" \/ (InPool(w)' /\ t_offset'[w] > 0)
            => curr'[w] >= Bound(w + 1)'
    BY <1>2, <1>3, <1>5, <2>1 DEF IInv, DrainInv, Handed
  <2> QED
    BY <1>2, <1>3, <1>5, <2>1, <2>2, <2>3 DEF IInv, DrainInv
<1>11. ClaimInv'
  <2>1. \A u \in Threads : pc'[u] = "compute" <=> pc[u] = "compute"
    BY <1>2, <1>3
  <2>2. Claimed' = Claimed
    BY <1>2, <2>1 DEF Claimed
  <2>3. \A k, w : Taken(k, w)' = Taken(k, w)
    BY <1>2, <1>5 DEF Taken
  <2> QED
    BY <1>2, <1>4, <1>5, <2>1, <2>2, <2>3 DEF IInv, ClaimInv
<1> QED
  BY <1>6, <1>7, <1>8, <1>9, <1>10, <1>11 DEF IInv

-----------------------------------------------------------------------------
(* The caller, in set-up, join and destructor: no thread is outside the    *)
(* poll loop but those with a slice.                                       *)

(* A step of thread 0 that moves neither a claim nor a slice, and leaves   *)
(* it outside process_tasks.                                               *)
LEMMA CallerFrame ==
  ASSUME IInv, NEW where, ~InPool(0), where \notin {"claim", "compute", "scan"},
         pc' = [pc EXCEPT ![0] = where],
         UNCHANGED <<t_offset, task_id, thread_num>>
  PROVE  /\ pc'[0] = where /\ \A u \in Workers : pc'[u] = pc[u]
         /\ \A u \in Threads : InPool(u)' = InPool(u) /\ Victim(u)' = Victim(u)
         /\ \A u \in Threads : pc'[u] = "scan" <=> pc[u] = "scan"
         /\ \A u \in Threads : pc'[u] = "compute" <=> pc[u] = "compute"
         /\ \A u \in Threads : pc'[u] \in {"claim", "compute"} <=> pc[u] \in {"claim", "compute"}
         /\ ran' = ran => Claimed' = Claimed
         /\ 0 \in Threads /\ Workers \subseteq Threads /\ 0 \notin Workers
<1>1. 0 \in Threads /\ Workers \subseteq Threads /\ 0 \notin Workers
  BY WorkStealingAssumption DEF Threads, Workers
<1>2. pc'[0] = where /\ \A u \in Threads \ {0} : pc'[u] = pc[u]
  BY <1>1 DEF IInv, TypeOK
<1>3. \A u \in Threads : pc'[u] = "compute" <=> pc[u] = "compute"
  BY <1>1, <1>2 DEF InPool
<1>4. ran' = ran => Claimed' = Claimed
  BY <1>3 DEF Claimed
<1>5. \A u \in Threads : InPool(u)' = InPool(u) /\ Victim(u)' = Victim(u)
  BY <1>1, <1>2 DEF InPool, Victim
<1>6. \A u \in Threads : pc'[u] = "scan" <=> pc[u] = "scan"
  BY <1>1, <1>2 DEF InPool
<1>7. \A u \in Threads : pc'[u] \in {"claim", "compute"} <=> pc[u] \in {"claim", "compute"}
  BY <1>1, <1>2 DEF InPool
<1> QED
  BY <1>1, <1>2, <1>3, <1>4, <1>5, <1>6, <1>7

LEMMA JoinWorkerStep == ASSUME IInv, JoinWorker PROVE IInv'
<1>1. /\ pc[0] = "join" /\ i < thread_num /\ status[i] # "WORKING" /\ i' = i + 1
      /\ status' = status /\ curr' = curr /\ end' = end /\ pc' = pc
      /\ thread_num' = thread_num /\ task_num' = task_num /\ jobs' = jobs
      /\ t_offset' = t_offset /\ task_id' = task_id /\ ran' = ran /\ calls' = calls
  BY DEF JoinWorker, Joined, slices, job, local, done
<1>t. TypeOK
  BY DEF IInv
<1>2. Outside' = Outside /\ SettingUp' = SettingUp /\ ~SettingUp /\ ~Outside
  BY <1>1 DEF Outside, SettingUp
<1>3. Handed' = Handed /\ Cut' = Cut /\ (\A k : Bound(k)' = Bound(k))
  BY <1>1, <1>2 DEF Handed, Cut, Bound
<1>4. TypeOK'
  BY <1>t, <1>1 DEF TypeOK
<1>5. ControlInv'
  BY <1>1, <1>2 DEF IInv, ControlInv
<1>6. StatusInv'
  <2>1. \A u \in Threads : u < i' => u < i \/ u = i
    BY <1>t, <1>1, WorkStealingAssumption DEF TypeOK, Threads
  <2> QED
    BY <1>1, <1>2, <1>3, <2>1 DEF IInv, StatusInv, InPool
<1>7. SliceInv'
  BY <1>1, <1>3 DEF IInv, SliceInv
<1>8. DrainInv'
  BY <1>1, <1>3 DEF IInv, DrainInv, Victim, InPool
<1>9. ClaimInv'
  BY <1>1, <1>2, <1>3 DEF IInv, ClaimInv, Claimed, Taken
<1> QED
  BY <1>4, <1>5, <1>6, <1>7, <1>8, <1>9 DEF IInv

(* When the caller has seen every worker not WORKING, every id has run. *)
LEMMA JobDone ==
  ASSUME IInv, pc[0] = "join", i >= thread_num
  PROVE  /\ ran = 0 .. task_num - 1
         /\ \A t \in Threads : status[t] = "WAITING"
<1>t. TypeOK /\ thread_num \in 1 .. N /\ ~Outside /\ ~SettingUp
  BY DEF IInv, TypeOK, ControlInv, Outside, SettingUp
<1>1. \A t \in Threads : t < thread_num <=> t \in Handed
  BY <1>t DEF Handed
<1>2. \A t \in Threads : status[t] # "WORKING"
  BY <1>t, <1>1, WorkStealingAssumption DEF IInv, StatusInv, TypeOK, Threads
<1>3. \A t \in Threads : status[t] = "WAITING"
  BY <1>t, <1>2 DEF IInv, StatusInv, TypeOK
<1>4. \A v \in Handed : curr[v] >= Bound(v + 1) /\ curr[v] \in Nat
  BY <1>t, <1>2 DEF IInv, DrainInv, Handed, TypeOK
<1>5. Claimed = ran
  <2>1. \A t \in Threads : pc[t] # "compute"
    BY <1>2 DEF IInv, StatusInv, InPool
  <2> QED
    BY <2>1 DEF Claimed
<1>6. task_num \in Nat /\ thread_num \in Nat \ {0}
  BY <1>t, WorkStealingAssumption DEF TypeOK
<1>7. ASSUME NEW k \in Nat, k < task_num PROVE k \in ran
  <2>1. PICK v \in 0 .. thread_num - 1 : Bound(v) <= k /\ k < Bound(v + 1)
    BY <1>6, <1>7, BoundCover DEF Bound
  <2>2. v \in Handed
    BY <1>t, <1>1, WorkStealingAssumption DEF Threads
  <2>3. Bound(v + 1) \in Nat
    BY <1>t, <2>2, Bounds DEF Handed
  <2>4. Taken(k, v)
    BY <1>4, <2>1, <2>2, <2>3 DEF Taken
  <2> QED
    BY <1>t, <1>5, <2>2, <2>4 DEF IInv, ClaimInv
<1>8. ASSUME NEW k \in ran PROVE k \in Nat /\ k < task_num
  <2>1. k \in Nat
    BY <1>t DEF TypeOK
  <2>2. PICK v \in Handed : Taken(k, v)
    BY <1>t, <1>5, <2>1 DEF IInv, ClaimInv
  <2>3. v \in Nat /\ v + 1 \in Nat /\ v + 1 <= thread_num
    BY <1>6, <1>t, WorkStealingAssumption DEF Handed, Threads
  <2>4. Bound(v + 1) <= task_num /\ Bound(v + 1) \in Nat
    BY <1>t, <1>6, <2>3, Bounds
  <2> QED
    BY <1>6, <2>1, <2>2, <2>4 DEF Taken
<1>9. ran = 0 .. task_num - 1
  <2>1. \A k \in 0 .. task_num - 1 : k \in ran
    BY <1>6, <1>7
  <2>2. \A k \in ran : k \in 0 .. task_num - 1
    BY <1>6, <1>8
  <2> QED
    BY <2>1, <2>2
<1> QED
  BY <1>3, <1>9

LEMMA ReturnStep == ASSUME IInv, Return PROVE IInv'
<1>1. /\ pc[0] = "join" /\ i >= thread_num /\ pc' = [pc EXCEPT ![0] = "idle"]
      /\ status' = status /\ curr' = curr /\ end' = end /\ i' = i
      /\ thread_num' = thread_num /\ task_num' = task_num /\ jobs' = jobs
      /\ t_offset' = t_offset /\ task_id' = task_id /\ ran' = ran /\ calls' = calls
  BY DEF Return, slices, job, local, done, Goto
<1>t. TypeOK
  BY DEF IInv
<1>2. ran = 0 .. task_num - 1 /\ \A t \in Threads : status[t] = "WAITING"
  BY <1>1, JobDone
<1>3. /\ pc'[0] = "idle" /\ \A u \in Workers : pc'[u] = pc[u]
      /\ \A u \in Threads : InPool(u)' = InPool(u)
      /\ 0 \in Threads /\ Workers \subseteq Threads
  BY <1>1, CallerFrame DEF InPool
<1>4. Outside' /\ ~SettingUp' /\ Handed' = {} /\ Cut' = {}
  BY <1>3 DEF Outside, SettingUp, Handed, Cut
<1>5. \A u \in Threads : ~InPool(u)' /\ ~InPool(u)
  BY <1>2, <1>3 DEF IInv, StatusInv
<1>6. TypeOK'
  BY <1>t, <1>1 DEF TypeOK
<1>7. ControlInv'
  BY <1>3, <1>4 DEF IInv, ControlInv
<1>8. StatusInv'
  BY <1>1, <1>2, <1>3, <1>4, <1>5 DEF StatusInv
<1>9. SliceInv'
  BY <1>3, <1>4 DEF SliceInv
<1>10. DrainInv'
  BY <1>4, <1>5 DEF DrainInv, InPool
<1>11. ClaimInv'
  BY <1>1, <1>2, <1>4, <1>5 DEF ClaimInv, InPool
<1> QED
  BY <1>6, <1>7, <1>8, <1>9, <1>10, <1>11 DEF IInv

(* Outside a job nothing but the status of the exiting workers matters. *)
LEMMA OutsideStep ==
  ASSUME IInv, Outside, Outside', UNCHANGED <<curr, end, job, local, done>>,
         pc' \in [Threads -> {"idle", "slice", "publish", "claim", "compute",
                         "scan", "join", "poll", "closing", "exited"}],
         \A u \in Workers : pc'[u] = pc[u],
         status' \in [Threads -> {"WAITING", "EXIT"}], i' \in Nat,
         \A u \in Threads : status'[u] = "EXIT" => pc'[0] \in {"closing", "exited"}
  PROVE  IInv'
<1>t. TypeOK
  BY DEF IInv
<1>0. 0 \in Threads /\ Threads = Workers \cup {0}
  BY WorkStealingAssumption DEF Threads, Workers
<1>1. ~SettingUp' /\ Handed' = {} /\ Cut' = {} /\ Handed = {}
  BY DEF Outside, SettingUp, Handed, Cut
<1>2. \A u \in Threads : ~InPool(u) /\ ~InPool(u)'
  BY <1>0, <1>1 DEF IInv, StatusInv, InPool, Outside
<1>3. TypeOK'
  BY <1>t DEF TypeOK, job, local, done
<1>4. ControlInv'
  BY <1>1 DEF IInv, ControlInv, Outside
<1>5. StatusInv'
  BY <1>1, <1>2 DEF StatusInv, Outside
<1>6. SliceInv' /\ DrainInv'
  BY <1>1, <1>2 DEF SliceInv, DrainInv, InPool, Outside
<1>7. ClaimInv'
  BY <1>2 DEF IInv, ClaimInv, InPool, job, done
<1> QED
  BY <1>3, <1>4, <1>5, <1>6, <1>7 DEF IInv

LEMMA ClosingStep == ASSUME IInv, Destroy \/ StoreExit \/ JoinAll PROVE IInv'
<1>t. TypeOK
  BY DEF IInv
<1>0. 0 \in Threads /\ Workers \subseteq Threads /\ 0 \notin Workers
  BY WorkStealingAssumption DEF Threads, Workers
<1>1. Outside => status \in [Threads -> {"WAITING", "EXIT"}]
  <2>1. Outside => Handed = {}
    BY DEF Handed
  <2> QED
    BY <1>t, <2>1 DEF IInv, StatusInv, TypeOK
<1>2. CASE Destroy
  <2>1. pc'[0] = "closing"
    BY <1>t, <1>0, <1>2 DEF Destroy, Goto, TypeOK
  <2> QED
    BY <1>t, <1>0, <1>1, <1>2, <2>1, OutsideStep DEF Destroy, Outside, TypeOK, slices, done, Goto
<1>3. CASE StoreExit
  <2>1. status' \in [Threads -> {"WAITING", "EXIT"}]
    BY <1>1, <1>3 DEF StoreExit, Outside
  <2> QED
    BY <1>t, <1>0, <1>3, <2>1, OutsideStep DEF StoreExit, Outside, TypeOK, slices, done
<1>4. CASE JoinAll
  <2>1. pc'[0] = "exited"
    BY <1>t, <1>0, <1>4 DEF JoinAll, Goto, TypeOK
  <2> QED
    BY <1>t, <1>0, <1>1, <1>4, <2>1, OutsideStep DEF JoinAll, Outside, TypeOK, slices, done, Goto
<1> QED
  BY <1>2, <1>3, <1>4

-----------------------------------------------------------------------------
(* The set-up of a job. *)
LEMMA StartJobStep == ASSUME IInv, NEW n \in TaskCounts, StartJob(n) PROVE IInv'
<1>1. /\ pc[0] = "idle" /\ pc' = [pc EXCEPT ![0] = "slice"] /\ i' = 1
      /\ task_num' = n /\ thread_num' = ThreadNum(n) /\ jobs' = jobs + 1
      /\ end' = [end EXCEPT ![0] = base' + Extra(0)'] /\ ran' = {} /\ calls' = 0
      /\ status' = status /\ curr' = curr
      /\ t_offset' = t_offset /\ task_id' = task_id
  BY DEF StartJob, local, done, Goto
<1>t. TypeOK
  BY DEF IInv
<1>2. n \in Nat /\ thread_num' \in 1 .. N
  BY <1>1, WorkStealingAssumption DEF ThreadNum, Min2
<1>3. thread_num' \in Nat \ {0} /\ task_num' \in Nat
  BY <1>1, <1>2, WorkStealingAssumption
<1>4. /\ 0 \in Threads /\ Threads = Workers \cup {0} /\ 0 \notin Workers
      /\ \A v \in Threads : v \in Nat
  BY WorkStealingAssumption DEF Threads, Workers
<1>5. base' \in Nat /\ Extra(0)' \in Nat
  <2>1. base' \in Nat
    <3>1. \A a \in Nat : \A b \in Nat \ {0} : a \div b \in Nat
      OBVIOUS
    <3> QED
      BY <1>3, <3>1 DEF base
  <2>2. Extra(0)' \in Nat
    BY DEF Extra, Bit
  <2> QED
    BY <2>1, <2>2
<1>6. pc'[0] = "slice" /\ \A u \in Workers : pc'[u] = pc[u]
  BY <1>t, <1>1, <1>4 DEF TypeOK
<1>7. ~Outside' /\ SettingUp' /\ Outside
  BY <1>1, <1>6 DEF Outside, SettingUp
<1>8. Handed' = {} /\ Handed = {}
  BY <1>1, <1>4, <1>7 DEF Handed
<1>9. Cut' = {0}
  <2>1. \A v \in Threads : v \in Cut' <=> v = 0
    BY <1>1, <1>2, <1>4, <1>6, <1>7 DEF Cut
  <2> QED
    BY <1>4, <2>1 DEF Cut
<1>10. \A u \in Threads : ~InPool(u)' /\ ~InPool(u)
  BY <1>1, <1>4, <1>6, <1>8 DEF IInv, StatusInv, InPool
<1>11. TypeOK'
  <2>1. base' + Extra(0)' \in Nat
    BY <1>5
  <2>2. end' \in [Threads -> Nat]
    BY <1>t, <1>1, <2>1 DEF TypeOK
  <2>3. pc' \in [Threads -> {"idle", "slice", "publish", "claim", "compute",
                         "scan", "join", "poll", "closing", "exited"}]
    BY <1>t, <1>1 DEF TypeOK
  <2>4. jobs' \in Nat /\ thread_num' \in 0 .. N
    BY <1>t, <1>1, <1>2 DEF TypeOK
  <2> QED
    BY <1>t, <1>1, <1>3, <2>2, <2>3, <2>4 DEF TypeOK
<1>12. ControlInv'
  <2>1. thread_num' >= 1 /\ i' \in 1 .. thread_num'
    BY <1>1, <1>2, <1>3
  <2> QED
    BY <1>6, <1>7, <2>1 DEF IInv, ControlInv
<1>13. StatusInv'
  BY <1>1, <1>6, <1>7, <1>8, <1>10 DEF IInv, StatusInv
<1>14. SliceInv'
  <2>1. end'[0] = base' + Extra(0)'
    BY <1>t, <1>1, <1>4 DEF TypeOK
  <2>2. Bound(0 + 1)' = Bound(0)' + base' + Extra(0)' /\ Bound(0)' = 0
    BY <1>3, BoundStep, BoundEnds DEF Bound, base, Extra
  <2>3. end'[0] = Bound(0 + 1)'
    BY <1>5, <2>1, <2>2
  <2> QED
    BY <1>6, <1>8, <1>9, <2>3 DEF SliceInv
<1>15. DrainInv'
  BY <1>8, <1>10 DEF DrainInv, InPool
<1>16. ClaimInv'
  <2>1. Claimed' = {}
    BY <1>1, <1>10 DEF Claimed, InPool
  <2> QED
    BY <1>7, <1>8, <1>10, <2>1 DEF ClaimInv, InPool
<1> QED
  BY <1>11, <1>12, <1>13, <1>14, <1>15, <1>16 DEF IInv

LEMMA SetSliceStep == ASSUME IInv, SetSlice PROVE IInv'
<1>1. /\ pc[0] = "slice" /\ pc' = [pc EXCEPT ![0] = "publish"] /\ i' = i
      /\ task_num' = task_num /\ thread_num' = thread_num /\ jobs' = jobs
      /\ ran' = ran /\ calls' = calls /\ status' = status
      /\ t_offset' = t_offset /\ task_id' = task_id
  BY DEF SetSlice, local, job, done, Goto
<1>t. TypeOK
  BY DEF IInv
<1>2. /\ pc'[0] = "publish" /\ \A u \in Workers : pc'[u] = pc[u]
      /\ \A u \in Threads : InPool(u)' = InPool(u) /\ Victim(u)' = Victim(u)
      /\ \A u \in Threads : pc'[u] = "scan" <=> pc[u] = "scan"
      /\ \A u \in Threads : pc'[u] = "compute" <=> pc[u] = "compute"
      /\ \A u \in Threads : pc'[u] \in {"claim", "compute"} <=> pc[u] \in {"claim", "compute"}
      /\ Claimed' = Claimed
      /\ 0 \in Threads /\ Workers \subseteq Threads
  BY <1>1, CallerFrame DEF InPool
<1>3. ~Outside /\ ~Outside' /\ SettingUp /\ SettingUp'
  BY <1>1, <1>2 DEF Outside, SettingUp
<1>4. i \in 1 .. thread_num /\ thread_num \in 1 .. N /\ thread_num \in Nat /\ i \in Nat
  BY <1>t, <1>3, WorkStealingAssumption DEF IInv, ControlInv, TypeOK
<1>5. Handed' = Handed /\ \A k : Bound(k)' = Bound(k)
  BY <1>1, <1>3 DEF Handed, Bound
<1>6. /\ \A k \in Nat : Bound(k) \in Nat
      /\ \A k \in Nat : Bound(k + 1) = Bound(k) + base + Extra(k)
      /\ Bound(0) = 0 /\ base \in Nat /\ \A k \in Nat : Extra(k) \in Nat
  BY <1>t, <1>4, Bounds
<1>7. Target \in Threads /\ Target \notin Handed /\ Target' = Target /\ Target \in Nat
  BY <1>1, <1>3, <1>4, WorkStealingAssumption DEF Target, Threads, Handed
<1>8. /\ curr' = [curr EXCEPT ![Target] = Bound(Target)]
      /\ end' = [end EXCEPT ![Target] = Bound(Target + 1)]
  <2>1. CASE i < thread_num
    <3>1. i - 1 \in Cut /\ i - 1 \in Nat /\ (i - 1) + 1 = i
      BY <1>1, <1>3, <1>4, <2>1, WorkStealingAssumption DEF Cut, Threads
    <3>2. end[i - 1] = Bound(i)
      BY <3>1 DEF IInv, SliceInv
    <3>3. Target = i /\ i # 0
      BY <1>4, <2>1 DEF Target
    <3> QED
      BY <1>4, <1>6, <3>2, <3>3 DEF SetSlice, SliceStart
  <2>2. CASE ~(i < thread_num)
    <3>1. Target = 0
      BY <2>2 DEF Target
    <3>2. 0 \in Cut
      BY <1>1, <1>2, <1>3, <1>4 DEF Cut
    <3>3. end[0] = Bound(0 + 1)
      BY <3>2 DEF IInv, SliceInv
    <3>4. end' = [end EXCEPT ![0] = end[0]]
      BY <1>t, <3>1 DEF SetSlice, SliceStart, TypeOK
    <3> QED
      BY <1>6, <3>1, <3>3, <3>4 DEF SetSlice
  <2> QED
    BY <2>1, <2>2
<1>9. TypeOK'
  <2>1. Bound(Target) \in Nat /\ Bound(Target + 1) \in Nat
    BY <1>6, <1>7
  <2>2. curr' \in [Threads -> Nat] /\ end' \in [Threads -> Nat]
    BY <1>t, <1>8, <2>1 DEF TypeOK
  <2>3. pc' \in [Threads -> {"idle", "slice", "publish", "claim", "compute",
                         "scan", "join", "poll", "closing", "exited"}]
    BY <1>t, <1>1 DEF TypeOK
  <2> QED
    BY <1>t, <1>1, <2>2, <2>3 DEF TypeOK
<1>10. ControlInv'
  BY <1>1, <1>2, <1>3 DEF IInv, ControlInv
<1>11. StatusInv'
  BY <1>1, <1>2, <1>3, <1>5 DEF IInv, StatusInv
<1>12. \A v \in Handed : curr'[v] = curr[v] /\ end'[v] = end[v]
  BY <1>t, <1>7, <1>8 DEF TypeOK, Handed
<1>13. SliceInv'
  <2>1. Cut' \subseteq Cut \cup {Target}
    BY <1>1, <1>2, <1>3, <1>4, WorkStealingAssumption DEF Cut, Target, Threads
  <2>2. \A v \in Cut' : end'[v] = Bound(v + 1)
    BY <1>t, <1>7, <1>8, <2>1 DEF IInv, SliceInv, TypeOK, Cut
  <2>3. curr'[Target'] = Bound(Target)
    BY <1>t, <1>7, <1>8 DEF TypeOK
  <2> QED
    BY <1>5, <1>7, <1>12, <2>2, <2>3 DEF IInv, SliceInv
<1>14. DrainInv'
  <2>1. \A w \in Handed :
          status'[w] # "WORKING" \/ (InPool(w)' /\ t_offset'[w] > 0)
            => curr'[w] >= Bound(w + 1)'
    BY <1>1, <1>2, <1>5, <1>12 DEF IInv, DrainInv, Handed
  <2> QED
    BY <1>1, <1>2, <1>5, <2>1 DEF IInv, DrainInv
<1>15. ClaimInv'
  <2>1. \A k : \A v \in Handed : Taken(k, v)' = Taken(k, v)
    BY <1>5, <1>12 DEF Taken
  <2> QED
    BY <1>1, <1>2, <1>3, <1>5, <2>1 DEF IInv, ClaimInv
<1> QED
  BY <1>9, <1>10, <1>11, <1>13, <1>14, <1>15 DEF IInv

LEMMA PublishStep == ASSUME IInv, Publish PROVE IInv'
<1> DEFINE where == IF Target = 0 THEN "claim" ELSE "slice"
<1>1. /\ pc[0] = "publish" /\ pc' = [pc EXCEPT ![0] = where] /\ i' = i + 1
      /\ status' = [status EXCEPT ![Target] = "WORKING"]
      /\ t_offset' = [t_offset EXCEPT ![0] = 0]
      /\ task_num' = task_num /\ thread_num' = thread_num /\ jobs' = jobs
      /\ ran' = ran /\ calls' = calls /\ curr' = curr /\ end' = end /\ task_id' = task_id
  BY DEF Publish, slices, job, done, Goto
<1>t. TypeOK
  BY DEF IInv
<1>2. ~Outside /\ SettingUp /\ ~InPool(0)
  BY <1>1 DEF Outside, SettingUp, InPool
<1>3. i \in 1 .. thread_num /\ thread_num \in 1 .. N /\ thread_num \in Nat /\ i \in Nat
  BY <1>t, <1>2, WorkStealingAssumption DEF IInv, ControlInv, TypeOK
<1>4. /\ 0 \in Threads /\ Workers \subseteq Threads /\ 0 \notin Workers
      /\ Threads = Workers \cup {0} /\ \A v \in Threads : v \in Nat
  BY WorkStealingAssumption DEF Threads, Workers
<1>5. Target \in Threads /\ Target \notin Handed /\ (Target = 0 <=> ~(i < thread_num))
      /\ (Target # 0 => Target = i) /\ Target < thread_num
  BY <1>2, <1>3, WorkStealingAssumption DEF Target, Threads, Handed
<1> HIDE DEF where
<1>6. /\ pc'[0] = where /\ \A u \in Threads \ {0} : pc'[u] = pc[u]
      /\ t_offset'[0] = 0 /\ \A u \in Threads \ {0} : t_offset'[u] = t_offset[u]
      /\ status'[Target] = "WORKING" /\ \A u \in Threads \ {Target} : status'[u] = status[u]
      /\ where \in {"claim", "slice"} /\ (where = "claim" <=> Target = 0)
  BY <1>t, <1>1, <1>4, <1>5 DEF TypeOK, where
<1>7. ~Outside' /\ (SettingUp' <=> Target # 0)
  BY <1>6 DEF Outside, SettingUp
<1>8. Handed' = Handed \cup {Target}
  <2>1. \A v \in Threads : v \in Handed' <=> v \in Handed \/ v = Target
    BY <1>1, <1>2, <1>3, <1>4, <1>5, <1>7 DEF Handed
  <2> QED
    BY <1>5, <2>1 DEF Handed
<1>9. \A k : Bound(k)' = Bound(k)
  BY <1>1 DEF Bound
<1>10. TypeOK'
  <2>1. pc' \in [Threads -> {"idle", "slice", "publish", "claim", "compute",
                         "scan", "join", "poll", "closing", "exited"}]
    BY <1>t, <1>1, <1>6 DEF TypeOK
  <2>2. t_offset' \in [Threads -> Nat]
    BY <1>t, <1>1 DEF TypeOK
  <2>3. status' \in [Threads -> {"WAITING", "WORKING", "EXIT"}]
    BY <1>t, <1>1 DEF TypeOK
  <2> QED
    BY <1>t, <1>1, <2>1, <2>2, <2>3 DEF TypeOK
<1>11. ControlInv'
  <2>1. Target # 0 => i' \in 1 .. thread_num
    BY <1>1, <1>3, <1>5
  <2> QED
    BY <1>1, <1>4, <1>6, <1>7, <2>1, <1>2 DEF IInv, ControlInv
<1>12. ~InPool(Target) /\ status[Target] # "WORKING"
  BY <1>5 DEF IInv, StatusInv
<1>13. \A u \in Threads : InPool(u)' <=> InPool(u) \/ (u = 0 /\ Target = 0)
  BY <1>1, <1>2, <1>6 DEF InPool
<1>14. StatusInv'
  <2>1. \A u \in Threads : status[u] # "EXIT"
    BY <1>2 DEF IInv, StatusInv, Outside
  <2>2. pc'[0] # "join"
    BY <1>6
  <2>3. \A u \in Threads : status'[u] = "WORKING" => u \in Handed'
    BY <1>6, <1>8 DEF IInv, StatusInv
  <2>4. \A u \in Threads : InPool(u)' => status'[u] = "WORKING"
    BY <1>6, <1>12, <1>13 DEF IInv, StatusInv
  <2>5. \A u \in Threads : status'[u] # "EXIT"
    BY <1>6, <2>1
  <2> QED
    BY <2>2, <2>3, <2>4, <2>5 DEF StatusInv
<1>15. SliceInv'
  <2>1. Cut' \subseteq Cut
    BY <1>1, <1>2, <1>3, <1>4, <1>5, <1>6, <1>7 DEF Cut
  <2>2. curr[Target] >= Bound(Target)
    <3>1. curr[Target] = Bound(Target) /\ curr[Target] \in Nat
      BY <1>t, <1>1, <1>5 DEF IInv, SliceInv, TypeOK
    <3> QED
      BY <3>1
  <2>3. pc'[0] # "publish"
    BY <1>6
  <2> QED
    BY <1>1, <1>8, <1>9, <2>1, <2>2, <2>3 DEF IInv, SliceInv
<1>16. DrainInv'
  <2>1. \A u \in Threads \ {0} : Victim(u)' = Victim(u)
    BY <1>1, <1>6 DEF Victim
  <2>2. Target = 0 => Victim(0)' = 0
    <3>1. (0 + 0) % thread_num = 0
      BY <1>3
    <3> QED
      BY <1>1, <1>6, <3>1 DEF Victim
  <2>3. ASSUME NEW u \in Threads, pc'[u] \in {"claim", "compute"}
        PROVE  Victim(u)' \in Handed' /\ (t_offset'[u] = 0 => Victim(u)' = u)
    <3>1. CASE u = 0
      BY <1>6, <1>8, <2>2, <2>3, <3>1
    <3>2. CASE u # 0
      BY <1>6, <1>8, <2>1, <2>3, <3>2 DEF IInv, DrainInv
    <3> QED
      BY <3>1, <3>2
  <2>4. ASSUME NEW w \in Handed',
               status'[w] # "WORKING" \/ (InPool(w)' /\ t_offset'[w] > 0)
        PROVE  curr'[w] >= Bound(w + 1)'
    <3>1. w \in Threads /\ w # Target
      <4>1. w \in Threads
        BY DEF Handed
      <4> QED
        BY <1>6, <1>12, <1>13, <2>4, <4>1
    <3>2. w \in Handed /\ w # 0
      BY <1>2, <1>8, <3>1 DEF Handed
    <3>3. status[w] # "WORKING" \/ (InPool(w) /\ t_offset[w] > 0)
      BY <1>6, <1>13, <2>4, <3>1, <3>2
    <3> QED
      BY <1>1, <1>9, <3>2, <3>3 DEF IInv, DrainInv
  <2>5. \A u \in Threads : pc'[u] = "scan" => t_offset'[u] >= 1
    BY <1>1, <1>6 DEF IInv, DrainInv
  <2> QED
    BY <2>3, <2>4, <2>5 DEF DrainInv
<1>17. ClaimInv'
  <2>1. \A k, v : Taken(k, v)' = Taken(k, v)
    BY <1>1, <1>9 DEF Taken
  <2>2. \A k \in Nat : ~Taken(k, Target)
    <3>1. curr[Target] = Bound(Target) /\ curr[Target] \in Nat
      BY <1>t, <1>1, <1>5 DEF IInv, SliceInv, TypeOK
    <3> QED
      BY <3>1 DEF Taken
  <2>3. \A u \in Threads : pc'[u] = "compute" <=> pc[u] = "compute"
    BY <1>1, <1>6
  <2>4. Claimed' = Claimed
    BY <1>1, <2>3 DEF Claimed
  <2> QED
    BY <1>1, <1>2, <1>7, <1>8, <2>1, <2>2, <2>3, <2>4 DEF IInv, ClaimInv
<1> QED
  BY <1>10, <1>11, <1>14, <1>15, <1>16, <1>17 DEF IInv

-----------------------------------------------------------------------------
(* IInv is an invariant. *)
LEMMA StepIInv == IInv /\ [Next]_vars => IInv'
<1> SUFFICES ASSUME IInv, [Next]_vars PROVE IInv'
  OBVIOUS
<1>1. CASE UNCHANGED vars
  BY <1>1 DEF vars, slices, job, local, done, IInv, TypeOK, ControlInv, StatusInv, SliceInv,
     DrainInv, ClaimInv, Outside, SettingUp, InPool, Handed, Cut, Claimed, Taken,
     Bound, Victim, Target
<1>2. ASSUME NEW n \in TaskCounts, StartJob(n) PROVE IInv'
  BY <1>2, StartJobStep
<1>3. CASE Destroy
  BY <1>3, ClosingStep
<1>4. CASE Caller
  BY <1>4, SetSliceStep, PublishStep, JoinWorkerStep, ReturnStep, ClosingStep DEF Caller
<1>5. ASSUME NEW t \in Threads, ProcessTasks(t) PROVE IInv'
  BY <1>5, ClaimStep, ComputeStep, CheckVictimStep, FinishStep DEF ProcessTasks
<1>6. ASSUME NEW t \in Workers, WakeUp(t) PROVE IInv'
  BY <1>6, WakeUpStep
<1> QED
  BY <1>1, <1>2, <1>3, <1>4, <1>5, <1>6 DEF Next

(* The invariant on which every theorem of this module rests. *)
THEOREM Inductive == Spec => []IInv
BY InitIInv, StepIInv, PTL DEF Spec

(* Every variable keeps its type, with any number of threads and tasks. *)
THEOREM TypeCorrect == Spec => []TypeOK
BY Inductive, PTL DEF IInv

(* No task id is given to compute_func_ twice in one job.  It is what the  *)
(* kernels rely on: two threads with one id would write one output block.  *)
LEMMA IInvAtMostOnce == IInv => AtMostOnce
<1> SUFFICES ASSUME IInv, NEW t \in Threads, pc[t] = "compute"
             PROVE  /\ task_id[t] \in (0 .. task_num - 1) \ ran
                    /\ \A u \in Threads \ {t} :
                         pc[u] = "compute" => task_id[u] # task_id[t]
  BY DEF AtMostOnce
<1>1. t \in Handed /\ ~Outside /\ thread_num \in 1 .. N
  BY InJob DEF InPool
<1>2. task_id[t] \in Claimed /\ task_id[t] \in Nat
  BY DEF Claimed, IInv, TypeOK
<1>3. PICK v \in Handed : Taken(task_id[t], v)
  BY <1>1, <1>2 DEF IInv, ClaimInv
<1>4. /\ v \in Nat /\ v + 1 \in Nat /\ v + 1 <= thread_num
      /\ thread_num \in Nat /\ task_num \in Nat
  BY <1>1, WorkStealingAssumption DEF Handed, Threads, IInv, TypeOK
<1>5. Bound(v + 1) <= task_num /\ Bound(v + 1) \in Nat
  BY <1>1, <1>4, Bounds DEF IInv
<1>6. task_id[t] < task_num
  BY <1>2, <1>3, <1>4, <1>5 DEF Taken
<1> QED
  BY <1>2, <1>4, <1>6 DEF IInv, ClaimInv

(* do_work_stealing_job gives no task id to compute_func_ twice in one job,  *)
(* whoever steals from whom.                                               *)
THEOREM NoTaskTwice == Spec => []AtMostOnce
BY IInvAtMostOnce, Inductive, PTL

(* The plain fields of Backend are never written while a thread reads them. *)
THEOREM RaceFree == Spec => []NoRace
<1>1. IInv => NoRace
  BY WorkStealingAssumption
     DEF IInv, NoRace, StatusInv, DrainInv, Handed, Threads, Workers
<1> QED
  BY <1>1, Inductive, PTL

-----------------------------------------------------------------------------
(* The pool implements ParallelFor. *)
LEMMA InitPF == Init => PF!Init
BY WorkStealingAssumption DEF Init, PF!Init, Threads

LEMMA StepPF == ASSUME IInv, IInv', [Next]_vars PROVE [PF!Next]_(PF!vars)
<1> DEFINE phase == IF pc[0] = "idle" THEN "idle"
                    ELSE IF pc[0] \in {"closing", "exited"} THEN "closed"
                    ELSE "running"
           pending == (0 .. task_num - 1) \ ran
<1>0. 0 \in Threads /\ pc \in [Threads -> {"idle", "slice", "publish", "claim", "compute",
                         "scan", "join", "poll", "closing", "exited"}]
  BY WorkStealingAssumption DEF IInv, TypeOK, Threads
<1>1. CASE UNCHANGED vars
  BY <1>1 DEF vars, PF!vars, job, done
<1>2. ASSUME NEW n \in TaskCounts, StartJob(n) PROVE PF!Start
  <2>1. pc[0] = "idle" /\ pc'[0] = "slice" /\ task_num' = n /\ ran' = {} /\ calls' = 0
    BY <1>0, <1>2 DEF StartJob, Goto
  <2>2. pending' = 0 .. n - 1
    BY <2>1
  <2> QED
    BY <2>1, <2>2 DEF PF!Start
<1>3. CASE Destroy
  BY <1>0, <1>3 DEF Destroy, Goto, PF!Close, PF!Next, job, done
<1>4. CASE SetSlice \/ Publish \/ JoinWorker \/ StoreExit \/ JoinAll
  BY <1>0, <1>4 DEF SetSlice, Publish, JoinWorker, StoreExit, JoinAll, Goto, PF!vars, job, done
<1>5. CASE Return
  <2>1. ran = 0 .. task_num - 1
    BY <1>5, JobDone DEF Return
  <2>2. pc[0] = "join" /\ pc'[0] = "idle" /\ task_num' = task_num /\ ran' = ran /\ calls' = calls
    BY <1>0, <1>5 DEF Return, Goto, job, done
  <2>3. pending = {} /\ pending' = pending
    BY <2>1, <2>2
  <2> QED
    BY <2>2, <2>3 DEF PF!Return, PF!Next
<1>6. ASSUME NEW t \in Threads, ProcessTasks(t) PROVE [PF!Next]_(PF!vars)
  <2>1. InPool(t)
    BY <1>6 DEF ProcessTasks, Claim, Compute, CheckVictim, Finish, InPool
  <2>2. pc[0] \notin {"idle", "closing", "exited"}
    BY <2>1, InJob DEF Outside
  <2>3. CASE Compute(t)
    <3>1. /\ pc[t] = "compute" /\ pc' = [pc EXCEPT ![t] = "claim"]
          /\ ran' = ran \cup {task_id[t]} /\ calls' = calls + 1 /\ task_num' = task_num
      BY <2>3 DEF Compute, Goto, job, done
    <3>2. task_id[t] \in pending
      BY <3>1, IInvAtMostOnce DEF AtMostOnce
    <3>3. pending' = pending \ {task_id[t]}
      BY <3>1
    <3>4. phase = "running" /\ phase' = "running"
      BY <1>0, <2>2, <3>1
    <3> QED
      BY <3>1, <3>2, <3>3, <3>4 DEF PF!Run, PF!Next
  <2>4. CASE Claim(t) \/ CheckVictim(t) \/ Finish(t)
    <3>1. ran' = ran /\ calls' = calls /\ task_num' = task_num
      BY <2>4 DEF Claim, CheckVictim, Finish, job, done
    <3>2. pc'[0] \notin {"idle", "closing", "exited"}
      BY <1>0, <2>2, <2>4 DEF Claim, CheckVictim, Finish, Goto
    <3> QED
      BY <2>2, <3>1, <3>2 DEF PF!vars
  <2> QED
    BY <1>6, <2>3, <2>4 DEF ProcessTasks
<1>7. ASSUME NEW t \in Workers, WakeUp(t) PROVE UNCHANGED PF!vars
  <2>1. t # 0
    BY WorkStealingAssumption DEF Workers
  <2>2. pc'[0] = pc[0] /\ ran' = ran /\ calls' = calls /\ task_num' = task_num
    BY <1>0, <1>7, <2>1 DEF WakeUp, Goto, job, done
  <2> QED
    BY <2>2 DEF PF!vars
<1> QED
  BY <1>1, <1>2, <1>3, <1>4, <1>5, <1>6, <1>7 DEF Next, Caller, PF!Next

(* do_work_stealing_job keeps what ParallelFor promises, for every number  *)
(* of threads: each call of compute_func_ is for a task of the job that    *)
(* has not run, and all of them have run when the job returns.             *)
THEOREM Refinement == Spec => ImplementsParallelFor
BY InitPF, StepPF, Inductive, PTL DEF Spec, ImplementsParallelFor, PF!Spec

-----------------------------------------------------------------------------
(* TaskQueue *)


(* A task is taken and not completed exactly while the worker runs it. *)
RunInv == running # <<>> <=> wpc = "run"

(* Clients use the queue between its construction and its destruction. *)
LifeInv ==
  /\ \A c \in Clients : cpc[c] # "out" => life = "open"
  /\ life = "store_sync" => tasks = <<>> /\ running = <<>>

(* If the worker does not see stale flags, it passes the wait only with a  *)
(* task, or to exit.                                                       *)
TakeInv ==
  /\ exit_flag <=> life \in {"notify", "join", "gone"}
  /\ wpc = "take" => tasks # <<>> \/ exit_flag
  /\ wpc # "undefined"

QueueInv == QueueTypeOK /\ RunInv /\ LifeInv /\ FlagSound

(* What a step preserves: QueueInv, and TakeInv where it holds. *)
Preserved == QueueInv' /\ (TakeInv => TakeInv')

-----------------------------------------------------------------------------
(* Sequences *)

LEMMA AppendSeq ==
  ASSUME NEW S, NEW s \in Seq(S), NEW e \in S
  PROVE  Append(s, e) \in Seq(S) /\ Append(s, e) # <<>> /\ (s = <<>> => Append(s, e) = <<e>>)
<1>1. Append(s, e) \in Seq(S)
  OBVIOUS
<1>2. Append(s, e) # <<>>
  <2>1. Len(Append(s, e)) = Len(s) + 1 /\ Len(s) \in Nat
    OBVIOUS
  <2>2. Len(<<>>) = 0
    OBVIOUS
  <2> QED
    BY <2>1, <2>2
<1>3. s = <<>> => Append(s, e) = <<e>>
  OBVIOUS
<1> QED
  BY <1>1, <1>2, <1>3

LEMMA RemoveFront ==
  ASSUME NEW S, NEW s \in Seq(S), s # <<>>
  PROVE  LET rest == SubSeq(s, 1, Front - 1) \o SubSeq(s, Front + 1, Len(s))
         IN  /\ s[Front] \in S
             /\ rest \in Seq(S)
             /\ rest = Tail(s)
             /\ <<s[Front]>> \o rest = s
BY DEF Front

LEMMA ConcatAppend ==
  ASSUME NEW S, NEW r \in Seq(S), NEW s \in Seq(S), NEW e \in S
  PROVE  r \o Append(s, e) = Append(r \o s, e)
OBVIOUS

LEMMA TailConcat ==
  ASSUME NEW S, NEW e \in S, NEW s \in Seq(S)
  PROVE  <<e>> \o s # <<>> /\ Tail(<<e>> \o s) = s
OBVIOUS

-----------------------------------------------------------------------------
(* The inductive invariant *)

LEMMA InitQueueInv == QueueInit => QueueInv
<1> SUFFICES ASSUME QueueInit PROVE QueueInv
  OBVIOUS
<1>1. QueueTypeOK
  BY TaskQueueAssumption DEF QueueInit, QueueTypeOK, WorkerHolds, Holds
<1>2. RunInv /\ LifeInv /\ FlagSound
  BY DEF QueueInit, RunInv, LifeInv, FlagSound
<1> QED
  BY <1>1, <1>2 DEF QueueInv

LEMMA StutterQueueInv == ASSUME QueueInv, UNCHANGED queueVars PROVE Preserved
<1> USE DEF QueueInv, Preserved, queueVars, flags
<1>1. QueueTypeOK'
  BY DEF QueueTypeOK, WorkerHolds, Holds
<1>2. RunInv' /\ LifeInv' /\ FlagSound' /\ (TakeInv => TakeInv')
  BY DEF RunInv, LifeInv, FlagSound, TakeInv
<1> QED
  BY <1>1, <1>2

(* The thread that constructs and destroys the queue. *)
LEMMA OwnerQueueInv == ASSUME QueueInv, Owner \/ DestroyLock PROVE Preserved
<1> USE TaskQueueAssumption DEF QueueInv, Preserved, Acquire, Release, flags
<1>1. CASE StoreSyncFlag
  BY <1>1 DEF StoreSyncFlag, QueueTypeOK, RunInv, LifeInv, FlagSound, TakeInv, WorkerHolds, Holds
<1>2. CASE StoreExitFlag
  BY <1>2 DEF StoreExitFlag, QueueTypeOK, RunInv, LifeInv, FlagSound, TakeInv, WorkerHolds, Holds
<1>3. CASE DestroyLock
  BY <1>3 DEF DestroyLock, QueueTypeOK, RunInv, LifeInv, FlagSound, TakeInv, WorkerHolds, Holds
<1>4. CASE SetExit
  BY <1>4 DEF SetExit, QueueTypeOK, RunInv, LifeInv, FlagSound, TakeInv, WorkerHolds, Holds
<1>5. CASE NotifyAll
  BY <1>5 DEF NotifyAll, Woken, QueueTypeOK, RunInv, LifeInv, FlagSound, TakeInv, WorkerHolds, Holds
<1>6. CASE Join
  BY <1>6 DEF Join, QueueTypeOK, RunInv, LifeInv, FlagSound, TakeInv, WorkerHolds, Holds
<1> QED
  BY <1>1, <1>2, <1>3, <1>4, <1>5, <1>6 DEF Owner

LEMMA ClientQueueInv == ASSUME QueueInv, NEW c \in Clients, Client(c) PROVE Preserved
<1> USE TaskQueueAssumption DEF QueueInv, Preserved, Acquire, Release, flags
<1>1. CASE EnqueueCall(c)
  <2> USE <1>1 DEF EnqueueCall
  <2>1. QueueTypeOK'
    BY DEF QueueTypeOK, WorkerHolds, Holds, LifeInv
  <2>2. RunInv' /\ LifeInv'
    BY DEF RunInv, LifeInv, QueueTypeOK
  <2>3. TakeInv => TakeInv'
    BY DEF TakeInv
  <2>4. FlagSound'
    BY DEF FlagSound, QueueTypeOK, Holds, WorkerHolds
  <2> QED
    BY <2>1, <2>2, <2>3, <2>4
<1>2. CASE EnqueueLock(c)
  BY <1>2 DEF EnqueueLock, QueueTypeOK, RunInv, LifeInv, FlagSound, TakeInv, WorkerHolds, Holds
<1>3. CASE Push(c)
  <2> USE <1>3 DEF Push
  <2>1. QueueTypeOK'
    BY AppendSeq DEF QueueTypeOK, WorkerHolds, Holds, LifeInv
  <2>2. RunInv' /\ LifeInv'
    BY DEF RunInv, LifeInv, QueueTypeOK
  <2>3. TakeInv => TakeInv'
    <3>1. tasks' # <<>> /\ exit_flag' = exit_flag /\ wpc' = wpc /\ life' = life
      BY AppendSeq DEF QueueTypeOK
    <3> QED
      BY <3>1 DEF TakeInv
  <2>4. FlagSound'
    BY AppendSeq DEF FlagSound, QueueTypeOK, Holds, WorkerHolds
  <2> QED
    BY <2>1, <2>2, <2>3, <2>4
<1>4. CASE ClearFlag(c)
  BY <1>4 DEF ClearFlag, FlagOnEnqueue, QueueTypeOK, RunInv, LifeInv, FlagSound, TakeInv, WorkerHolds, Holds
<1>5. CASE NotifyOne(c)
  BY <1>5 DEF NotifyOne, Woken, QueueTypeOK, RunInv, LifeInv, FlagSound, TakeInv, WorkerHolds, Holds
<1>6. CASE SyncCall(c)
  BY <1>6 DEF SyncCall, QueueTypeOK, RunInv, LifeInv, FlagSound, TakeInv, WorkerHolds, Holds
<1>7. CASE SyncReturn(c)
  BY <1>7 DEF SyncReturn, QueueTypeOK, RunInv, LifeInv, FlagSound, TakeInv, WorkerHolds, Holds
<1> QED
  BY <1>1, <1>2, <1>3, <1>4, <1>5, <1>6, <1>7 DEF Client, Finishing

LEMMA WorkerQueueInv == ASSUME QueueInv, Worker \/ SpuriousWakeup PROVE Preserved
<1> USE TaskQueueAssumption DEF QueueInv, Preserved, Acquire, Release, flags
<1>1. CASE Lock
  BY <1>1 DEF Lock, QueueTypeOK, RunInv, LifeInv, FlagSound, TakeInv, WorkerHolds, Holds
<1>2. CASE Wait
  BY <1>2 DEF Wait, QueueTypeOK, RunInv, LifeInv, FlagSound, TakeInv, WorkerHolds, Holds
<1>3. CASE SpuriousWakeup
  BY <1>3 DEF SpuriousWakeup, QueueTypeOK, RunInv, LifeInv, FlagSound, TakeInv, WorkerHolds, Holds
<1>4. CASE LeaveLoop
  BY <1>4 DEF LeaveLoop, QueueTypeOK, RunInv, LifeInv, FlagSound, TakeInv, WorkerHolds, Holds
<1>5. CASE Take
  BY <1>5, RemoveFront DEF Take, QueueTypeOK, RunInv, LifeInv, FlagSound, TakeInv, WorkerHolds, Holds
<1>6. CASE TakeNothing
  BY <1>6 DEF TakeNothing, MustExit, QueueTypeOK, RunInv, LifeInv, FlagSound, TakeInv, WorkerHolds, Holds
<1>7. CASE Run
  BY <1>7 DEF Run, QueueTypeOK, RunInv, LifeInv, FlagSound, TakeInv, WorkerHolds, Holds
<1>8. CASE Done
  BY <1>8 DEF Done, NothingLeft, QueueTypeOK, RunInv, LifeInv, FlagSound, TakeInv, WorkerHolds, Holds
<1> QED
  BY <1>1, <1>2, <1>3, <1>4, <1>5, <1>6, <1>7, <1>8 DEF Worker

(* The invariant that carries every other proof of this module. *)
THEOREM QueueInductive == QueueSpec => []QueueInv
<1>1. QueueInv /\ [QueueNext]_queueVars => QueueInv'
  BY StutterQueueInv, OwnerQueueInv, ClientQueueInv, WorkerQueueInv DEF QueueNext, Preserved
<1> QED
  BY InitQueueInv, <1>1, PTL DEF QueueSpec

(* A thread between lock and unlock owns the mutex, constructor race or not. *)
THEOREM QueueTypeCorrect == QueueSpec => []QueueTypeOK
BY QueueInductive, PTL DEF QueueInv

(* sync_flag, which sync() reads without the lock, never claims too much. *)
THEOREM FlagIsSound == QueueSpec => []FlagSound
BY QueueInductive, PTL DEF QueueInv

(* The worker never takes the front of an empty queue, provided that the   *)
(* memory of exit_flag was FALSE when the constructor started it.          *)
THEOREM NothingTaken == QueueSpec => NeverTakesNothing
<1>1. QueueInit /\ ~exit_flag => TakeInv
  BY DEF QueueInit, TakeInv
<1>2. QueueInv /\ TakeInv /\ [QueueNext]_queueVars => TakeInv'
  BY StutterQueueInv, OwnerQueueInv, ClientQueueInv, WorkerQueueInv DEF QueueNext, Preserved
<1>3. TakeInv => wpc # "undefined"
  BY DEF TakeInv
<1> QED
  BY <1>1, <1>2, <1>3, QueueInductive, PTL DEF QueueSpec, NeverTakesNothing

-----------------------------------------------------------------------------
(* TaskQueue implements SerialExecutor. *)

Queued == running \o tasks
Syncing == {c \in Clients : cpc[c] = "sync"}
Phase == IF life \in {"store_sync", "store_exit"} THEN "new"
         ELSE IF life = "open" THEN "open" ELSE "closed"

LEMMA InitSE == QueueInit => SE!Init
BY DEF QueueInit, SE!Init

(* The steps of the constructor and the destructor. *)
LEMMA OwnerSE == ASSUME QueueInv, Owner \/ DestroyLock PROVE [SE!Next]_(SE!vars)
<1>1. CASE StoreExitFlag
  BY <1>1 DEF StoreExitFlag, flags, SE!Next, SE!Open
<1>2. CASE DestroyLock
  BY <1>2 DEF DestroyLock, flags, SE!Next, SE!Close
<1>3. CASE StoreSyncFlag \/ SetExit \/ NotifyAll \/ Join
  BY <1>3 DEF StoreSyncFlag, SetExit, NotifyAll, Join, flags, SE!vars
<1> QED
  BY <1>1, <1>2, <1>3 DEF Owner

(* A push is a submission; a task of the caller that is still queued keeps *)
(* sync_flag false, so that SyncReturn finds none.                         *)
LEMMA ClientSE == ASSUME QueueInv, NEW c \in Clients, Client(c) PROVE [SE!Next]_(SE!vars)
<1>0. /\ cpc \in [Clients -> {"out", "enter", "push", "flag", "notify", "sync"}]
      /\ tasks \in Seq(Clients) /\ running \in Seq(Clients)
      /\ cpc[c] # "out" => life = "open"
  <2>1. running = <<>> \/ \E d \in Clients : running = <<d>>
    BY DEF QueueInv, QueueTypeOK
  <2>2. running \in Seq(Clients)
    <3>1. <<>> \in Seq(Clients) /\ \A d \in Clients : <<d>> \in Seq(Clients)
      OBVIOUS
    <3> QED
      BY <2>1, <3>1
  <2> QED
    BY <2>2 DEF QueueInv, QueueTypeOK, LifeInv
<1>1. CASE Push(c)
  <2>1. /\ tasks' = Append(tasks, c) /\ running' = running /\ life' = life
        /\ cpc' = [cpc EXCEPT ![c] = "flag"] /\ cpc[c] = "push" /\ life = "open"
    BY <1>0, <1>1 DEF Push
  <2>2. Queued' = Append(Queued, c)
    BY <1>0, <2>1, ConcatAppend DEF Queued
  <2>3. Syncing' = Syncing /\ c \notin Syncing
    BY <1>0, <2>1 DEF Syncing
  <2> QED
    BY <2>1, <2>2, <2>3 DEF SE!Next, SE!Submit, Queued, Syncing
<1>2. CASE SyncCall(c)
  <2>1. /\ tasks' = tasks /\ running' = running /\ life' = life
        /\ cpc' = [cpc EXCEPT ![c] = "sync"] /\ cpc[c] = "out" /\ life = "open"
    BY <1>2 DEF SyncCall
  <2>2. Syncing' = Syncing \cup {c} /\ c \notin Syncing
    BY <1>0, <2>1 DEF Syncing
  <2> QED
    BY <2>1, <2>2 DEF SE!Next, SE!SyncBegin, Syncing
<1>3. CASE SyncReturn(c)
  <2>1. /\ tasks' = tasks /\ running' = running /\ life' = life /\ sync_flag
        /\ cpc' = [cpc EXCEPT ![c] = "out"] /\ cpc[c] = "sync" /\ life = "open"
    BY <1>0, <1>3 DEF SyncReturn
  <2>2. Syncing' = Syncing \ {c} /\ c \in Syncing
    BY <1>0, <2>1 DEF Syncing
  <2>3. ~SE!Pending(c)
    <3>1. running = <<>> /\ (tasks = <<>> \/ \E d \in Clients : cpc[d] = "flag" /\ tasks = <<d>>)
      BY <2>1 DEF QueueInv, FlagSound
    <3>2. Queued = tasks
      BY <1>0, <3>1 DEF Queued
    <3>3. CASE tasks = <<>>
      BY <3>2, <3>3 DEF SE!Pending, Queued
    <3>4. ASSUME NEW d \in Clients, cpc[d] = "flag", tasks = <<d>> PROVE ~SE!Pending(c)
      <4>1. c # d
        BY <2>1, <3>4
      <4> QED
        BY <3>2, <3>4, <4>1 DEF SE!Pending, Queued
    <3> QED
      BY <3>1, <3>3, <3>4
  <2> QED
    BY <2>1, <2>2, <2>3 DEF SE!Next, SE!SyncEnd, Syncing
<1>4. CASE EnqueueCall(c) \/ EnqueueLock(c) \/ ClearFlag(c) \/ NotifyOne(c)
  <2>1. /\ tasks' = tasks /\ running' = running /\ life' = life
        /\ \E where \in {"enter", "push", "notify", "out"} : cpc' = [cpc EXCEPT ![c] = where]
        /\ cpc[c] # "sync"
    BY <1>4 DEF EnqueueCall, EnqueueLock, ClearFlag, NotifyOne
  <2>2. Syncing' = Syncing
    BY <1>0, <2>1 DEF Syncing
  <2> QED
    BY <2>1, <2>2 DEF SE!vars, Syncing
<1> QED
  BY <1>1, <1>2, <1>3, <1>4 DEF Client, Finishing

(* Taking a task leaves the queue as it is; its end completes the oldest. *)
LEMMA WorkerSE == ASSUME QueueInv, Worker \/ SpuriousWakeup PROVE [SE!Next]_(SE!vars)
<1>0. tasks \in Seq(Clients) /\ (running = <<>> \/ \E c \in Clients : running = <<c>>)
  BY DEF QueueInv, QueueTypeOK
<1>1. CASE Take
  <2>1. running = <<>> /\ tasks # <<>>
    BY <1>1 DEF QueueInv, RunInv, Take
  <2>2. Queued' = <<tasks[Front]>> \o (SubSeq(tasks, 1, Front - 1) \o SubSeq(tasks, Front + 1, Len(tasks)))
    BY <1>1 DEF Take, Queued
  <2>3. Queued' = tasks
    BY <1>0, <2>1, <2>2, RemoveFront
  <2>4. Queued = tasks
    BY <1>0, <2>1 DEF Queued
  <2> QED
    BY <1>1, <2>3, <2>4 DEF Take, SE!vars, Queued
<1>2. CASE Run
  <2>1. PICK c \in Clients : running = <<c>>
    BY <1>0, <1>2 DEF QueueInv, RunInv, Run
  <2>2. <<c>> \o tasks # <<>> /\ Tail(<<c>> \o tasks) = tasks
    BY <1>0, TailConcat
  <2>3. Queued' = tasks
    BY <1>0, <1>2 DEF Run, Queued
  <2>4. Queued = <<c>> \o tasks
    BY <2>1 DEF Queued
  <2>5. Queued # <<>> /\ Queued' = Tail(Queued)
    BY <2>2, <2>3, <2>4
  <2> QED
    BY <1>2, <2>5 DEF Run, SE!Next, SE!Complete, Queued
<1>3. CASE Lock \/ Wait \/ LeaveLoop \/ TakeNothing \/ Done \/ SpuriousWakeup
  BY <1>3 DEF Lock, Wait, LeaveLoop, TakeNothing, Done, SpuriousWakeup, SE!vars
<1> QED
  BY <1>1, <1>2, <1>3 DEF Worker

LEMMA StepSE == ASSUME QueueInv, [QueueNext]_queueVars PROVE [SE!Next]_(SE!vars)
<1>1. CASE UNCHANGED queueVars
  BY <1>1 DEF queueVars, SE!vars
<1> QED
  BY <1>1, OwnerSE, ClientSE, WorkerSE DEF QueueNext

(* TaskQueue keeps what SerialExecutor promises, for any clients: tasks    *)
(* run in order, one at a time, and sync() waits for the caller's tasks.   *)
THEOREM QueueRefinement == QueueSpec => ImplementsSerialExecutor
BY InitSE, StepSE, QueueInductive, PTL DEF QueueSpec, ImplementsSerialExecutor, SE!Spec
=============================================================================
