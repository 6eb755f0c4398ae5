---------------------------- MODULE WorkStealing ----------------------------
(***************************************************************************)
(* The CPU thread pool of cpu_backend/backend.{h,cpp}.  A job of task_num  *)
(* tasks is cut into one slice per thread; a thread first empties its own  *)
(* slice, claiming task ids with fetch_add on curr, and then steals from   *)
(* the slices of the threads that are still WORKING.                       *)
(*                                                                         *)
(* Thread 0 is the caller of do_work_stealing_job; threads 1 .. N-1 run    *)
(* worker_thread and poll their status.  One action is one access to the   *)
(* shared state: status and curr are accessed with release/acquire order   *)
(* and interleave; end, thread_num_ and compute_func_ are plain, and       *)
(* NoRace is what makes reading them while others run well defined.        *)
(***************************************************************************)
EXTENDS Integers, FiniteSets

CONSTANTS N,            \* max_thread_num_
          TaskCounts,   \* the values of task_num the callers pass
          MaxJobs,      \* bound: jobs started in one behaviour
          USE_NUMA      \* the compile-time option of the same name

(* Without USE_NUMA a job of no task divides by thread_num_ = 0, and with  *)
(* no thread there is no thread_state_[0]: neither has a defined outcome.  *)
ASSUME WorkStealingAssumption ==
  /\ N \in Nat \ {0}
  /\ MaxJobs \in Nat
  /\ USE_NUMA \in BOOLEAN
  /\ TaskCounts \subseteq Nat
  /\ ~USE_NUMA => 0 \notin TaskCounts

VARIABLES
  status,       \* thread_state_[t].status
  curr,         \* thread_state_[t].curr: next task id of t's slice
  end,          \* thread_state_[t].end: first task id past t's slice
  thread_num,   \* thread_num_: how many threads the current job uses
  task_num,     \* the parameter of the current (or last) job
  i,            \* loop index of the caller: set-up, join and destructor
  pc,           \* where each thread is
  t_offset,     \* process_tasks: 0 = own slice, else the slice stolen from
  task_id,      \* process_tasks: the id claimed last
  ran,          \* history: ids compute_func_ was called with in this job
  calls,        \* history: how often compute_func_ was called in this job
  jobs          \* history: number of jobs started

slices == <<curr, end>>
job == <<thread_num, task_num, jobs>>
local == <<t_offset, task_id>>
done == <<ran, calls>>
vars == <<status, slices, job, i, pc, local, done>>

Threads == 0 .. N - 1
Workers == 1 .. N - 1

Min2(a, b) == IF a <= b THEN a ELSE b
Bit(b) == IF b THEN 1 ELSE 0

Goto(t, where) == pc' = [pc EXCEPT ![t] = where]

-----------------------------------------------------------------------------
(* Faulty variants of operators below, to show what each property detects. *)
UncappedThreadNum(n) == n
BlindStealable(v) == TRUE
OverlappingStart(v) == end[v - 1] - 1
ExitJoined(v) == status[v] = "EXIT"

-----------------------------------------------------------------------------
(* Backend::Backend *)
Init ==
  /\ status = [t \in Threads |-> "WAITING"]
  /\ curr = [t \in Threads |-> 0]
  /\ end = [t \in Threads |-> 0]
  /\ thread_num = 0
  /\ task_num = 0
  /\ jobs = 0
  /\ i = 0
  /\ pc = [t \in Threads |-> IF t = 0 THEN "idle" ELSE "poll"]
  /\ t_offset = [t \in Threads |-> 0]
  /\ task_id = [t \in Threads |-> 0]
  /\ ran = {}
  /\ calls = 0

-----------------------------------------------------------------------------
(* do_work_stealing_job, run by thread 0 *)

ThreadNum(n) == IF USE_NUMA THEN N ELSE Min2(N, n)

base == task_num \div thread_num
Extra(k) == Bit(k < task_num % thread_num)

(* The functions, thread_num_ and the end of slice 0 are set. *)
StartJob(n) ==
  /\ pc[0] = "idle"
  /\ jobs < MaxJobs
  /\ jobs' = jobs + 1
  /\ task_num' = n
  /\ thread_num' = ThreadNum(n)
  /\ end' = [end EXCEPT ![0] = base' + Extra(0)']
  /\ ran' = {}
  /\ calls' = 0
  /\ i' = 1
  /\ Goto(0, "slice")
  /\ UNCHANGED <<status, curr, local>>

(* The set-up loop visits 1 .. thread_num_-1, and then thread 0 itself. *)
Target == IF i < thread_num THEN i ELSE 0

(* A slice starts where the one before it ends. *)
SliceStart(v) == end[v - 1]

SetSlice ==
  /\ pc[0] = "slice"
  /\ IF Target = 0
       THEN /\ curr' = [curr EXCEPT ![0] = 0]
            /\ end' = end
       ELSE /\ curr' = [curr EXCEPT ![i] = SliceStart(i)]
            /\ end' = [end EXCEPT ![i] = end[i - 1] + base + Extra(i)]
  /\ Goto(0, "publish")
  /\ UNCHANGED <<status, job, i, local, done>>

(* The release store that hands the slice to its thread.  Thread 0 is the  *)
(* last, and enters process_tasks.                                         *)
Publish ==
  /\ pc[0] = "publish"
  /\ status' = [status EXCEPT ![Target] = "WORKING"]
  /\ i' = i + 1
  /\ Goto(0, IF Target = 0 THEN "claim" ELSE "slice")
  /\ t_offset' = [t_offset EXCEPT ![0] = 0]
  /\ UNCHANGED <<slices, job, task_id, done>>

Joined(v) == status[v] # "WORKING"

(* The spin on the status of each worker in turn. *)
JoinWorker ==
  /\ pc[0] = "join"
  /\ i < thread_num
  /\ Joined(i)
  /\ i' = i + 1
  /\ UNCHANGED <<status, slices, job, pc, local, done>>

Return ==
  /\ pc[0] = "join"
  /\ i >= thread_num
  /\ Goto(0, "idle")
  /\ UNCHANGED <<status, slices, job, i, local, done>>

-----------------------------------------------------------------------------
(* process_tasks(t); init_func_ and finalize_func_ act on the caller's data *)

Victim(t) == (t + t_offset[t]) % thread_num
Exhausted(v) == curr[v] >= end[v]
Stealable(v) == status[v] = "WORKING"

(* fetch_add on the victim's curr; past its end the slice is exhausted. *)
Claim(t) ==
  /\ pc[t] = "claim"
  /\ task_id' = [task_id EXCEPT ![t] = curr[Victim(t)]]
  /\ curr' = [curr EXCEPT ![Victim(t)] = @ + 1]
  /\ \/ /\ Exhausted(Victim(t))
        /\ t_offset' = [t_offset EXCEPT ![t] = @ + 1]
        /\ Goto(t, "scan")
     \/ /\ ~Exhausted(Victim(t))
        /\ t_offset' = t_offset
        /\ Goto(t, "compute")
  /\ UNCHANGED <<status, end, job, i, done>>

(* compute_func_(task_id) *)
Compute(t) ==
  /\ pc[t] = "compute"
  /\ ran' = ran \cup {task_id[t]}
  /\ calls' = calls + 1
  /\ Goto(t, "claim")
  /\ UNCHANGED <<status, slices, job, i, local>>

(* Only a thread that is WORKING is stolen from. *)
CheckVictim(t) ==
  /\ pc[t] = "scan"
  /\ t_offset[t] < thread_num
  /\ \/ /\ Stealable(Victim(t))
        /\ Goto(t, "claim")
        /\ t_offset' = t_offset
     \/ /\ ~Stealable(Victim(t))
        /\ t_offset' = [t_offset EXCEPT ![t] = @ + 1]
        /\ pc' = pc
  /\ UNCHANGED <<status, slices, job, i, task_id, done>>

DoneStatus == "WAITING"

(* The release store that ends this thread's part; the caller goes on to   *)
(* join the workers.                                                       *)
Finish(t) ==
  /\ pc[t] = "scan"
  /\ t_offset[t] >= thread_num
  /\ status' = [status EXCEPT ![t] = DoneStatus]
  /\ Goto(t, IF t = 0 THEN "join" ELSE "poll")
  /\ i' = IF t = 0 THEN 1 ELSE i
  /\ UNCHANGED <<slices, job, local, done>>

ProcessTasks(t) == Claim(t) \/ Compute(t) \/ CheckVictim(t) \/ Finish(t)

-----------------------------------------------------------------------------
(* worker_thread(t): the poll that leaves the loop, one way or the other *)
WakeUp(t) ==
  /\ pc[t] = "poll"
  /\ \/ status[t] = "WORKING" /\ Goto(t, "claim")
     \/ status[t] = "EXIT" /\ Goto(t, "exited")
  /\ t_offset' = [t_offset EXCEPT ![t] = 0]
  /\ UNCHANGED <<status, slices, job, i, task_id, done>>

-----------------------------------------------------------------------------
(* ~Backend, called when no job is running *)
Destroy ==
  /\ pc[0] = "idle"
  /\ Goto(0, "closing")
  /\ i' = 0
  /\ UNCHANGED <<status, slices, job, local, done>>

ExitLoop == N

StoreExit ==
  /\ pc[0] = "closing"
  /\ i < ExitLoop
  /\ status' = [status EXCEPT ![i] = "EXIT"]
  /\ i' = i + 1
  /\ UNCHANGED <<slices, job, pc, local, done>>

(* workers_[t].join() returns once the worker left worker_thread. *)
JoinAll ==
  /\ pc[0] = "closing"
  /\ i >= ExitLoop
  /\ \A t \in Workers : pc[t] = "exited"
  /\ Goto(0, "exited")
  /\ UNCHANGED <<status, slices, job, i, local, done>>

-----------------------------------------------------------------------------
Caller == SetSlice \/ Publish \/ JoinWorker \/ Return \/ StoreExit \/ JoinAll

Next ==
  \/ \E n \in TaskCounts : StartJob(n)
  \/ Destroy
  \/ Caller
  \/ \E t \in Threads : ProcessTasks(t)
  \/ \E t \in Workers : WakeUp(t)

(* Every thread is a kernel thread that spins or works: the scheduler lets *)
(* each of them run again and again.  Nobody has to start another job or   *)
(* to destroy the pool.                                                    *)
Fairness ==
  /\ WF_vars(Caller)
  /\ \A t \in Threads : WF_vars(ProcessTasks(t))
  /\ \A t \in Workers : WF_vars(WakeUp(t))

Spec == Init /\ [][Next]_vars

FairSpec == Spec /\ Fairness

-----------------------------------------------------------------------------
(* Properties *)

InPool(t) == pc[t] \in {"claim", "compute", "scan"}
SettingUp == pc[0] \in {"slice", "publish"}
Outside == pc[0] \in {"idle", "closing", "exited"}

(* The slices handed to their threads so far. *)
Handed == {v \in Threads :
             /\ ~Outside
             /\ v < thread_num
             /\ SettingUp => 1 <= v /\ v < i}

(* Type invariant; a job never uses more threads than the pool has. *)
TypeOK ==
  /\ status \in [Threads -> {"WAITING", "WORKING", "EXIT"}]
  /\ curr \in [Threads -> Nat]
  /\ end \in [Threads -> Nat]
  /\ thread_num \in 0 .. N
  /\ task_num \in Nat
  /\ jobs \in Nat
  /\ i \in Nat
  /\ pc \in [Threads -> {"idle", "slice", "publish", "claim", "compute",
                         "scan", "join", "poll", "closing", "exited"}]
  /\ t_offset \in [Threads -> Nat]
  /\ task_id \in [Threads -> Nat]
  /\ ran \in SUBSET Nat
  /\ calls \in Nat

(* compute_func_ is never called twice with one task id in a job, whoever  *)
(* claims it: own slice or stolen, at the border of two slices or not.     *)
AtMostOnce ==
  \A t \in Threads : pc[t] = "compute" =>
    /\ task_id[t] \in (0 .. task_num - 1) \ ran
    /\ \A u \in Threads \ {t} : pc[u] = "compute" => task_id[u] # task_id[t]

(* The plain fields are written while nobody reads them: outside a job no  *)
(* worker is in process_tasks or about to enter it (the next StartJob      *)
(* writes thread_num_, the functions and end[0]), and no thread works on a *)
(* slice that was not handed out (SetSlice writes it).                     *)
NoRace ==
  /\ Outside => \A t \in Workers : ~InPool(t) /\ status[t] # "WORKING"
  /\ \A t \in Threads : pc[t] \in {"claim", "compute"} => Victim(t) \in Handed

(* The pool implements ParallelFor: tasks that have not run are pending,   *)
(* and every call of compute_func_ counts, also one for a task that ran.   *)
PF == INSTANCE ParallelFor WITH
        phase <- IF pc[0] = "idle" THEN "idle"
                 ELSE IF pc[0] \in {"closing", "exited"} THEN "closed"
                 ELSE "running",
        pending <- (0 .. task_num - 1) \ ran,
        calls <- calls

(* A job runs each task exactly once: each call of compute_func_ is one    *)
(* for a task of the job that has not run (a second call for the same id,  *)
(* or one outside the job, is no step of ParallelFor), and the job returns *)
(* only when all have run; the pool is destroyed only between jobs.        *)
ImplementsParallelFor == PF!Spec

(* Every call of do_work_stealing_job returns: no thread spins for ever;   *)
(* and ~Backend terminates: every worker sees EXIT and can be joined.      *)
CallsReturn == PF!Returns /\ (pc[0] = "closing" ~> pc[0] = "exited")
=============================================================================
