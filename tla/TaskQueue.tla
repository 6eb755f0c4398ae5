------------------------------ MODULE TaskQueue ------------------------------
(***************************************************************************)
(* cpu_backend/task_queue.{h,cpp}: the queue that decouples the threads    *)
(* which submit CPU work (Python, and the host functions of CUDA streams)  *)
(* from the one worker that runs it.  One action is one critical step: a   *)
(* lock, an unlock, a store to an atomic flag, a notification.             *)
(*                                                                         *)
(* The constructor starts the worker before it stores the two flags, and   *)
(* C++17 leaves a std::atomic<bool> without initialiser indeterminate:     *)
(* Fresh is the set of values that memory can hold.                        *)
(***************************************************************************)
EXTENDS Naturals, Sequences

CONSTANTS Clients,    \* the threads that use the queue
          MaxTasks,   \* bound: tasks each of them submits
          Fresh       \* values of the flags before the constructor's stores

ASSUME TaskQueueAssumption ==
  /\ MaxTasks \in Nat
  /\ Fresh \subseteq BOOLEAN /\ Fresh # {}
  /\ {"free", "worker", "dtor"} \cap Clients = {}

VARIABLES
  tasks,       \* tasks; a task is represented by the client that submitted it
  running,     \* the task the worker took and has not completed, if any
  mutex,       \* the owner of mutex, or "free"
  sync_flag,
  exit_flag,
  wpc,         \* where the worker is in processTasks
  cpc,         \* where each client is: "out", in enqueue, or in sync
  life,        \* where the constructing / destroying thread is
  submitted    \* history: how many tasks each client submitted

flags == <<sync_flag, exit_flag>>
queueVars == <<tasks, running, mutex, flags, wpc, cpc, life, submitted>>

-----------------------------------------------------------------------------
(* Faulty variants of operators below, to show what each property detects. *)
BlindAcquire(who) == mutex' = who
NoRecheck == TRUE
NoWakeup == wpc
NeverExit == FALSE
PopBack == Len(tasks)

-----------------------------------------------------------------------------
(* The state in which the constructor has started the worker. *)
QueueInit ==
  /\ tasks = <<>>
  /\ running = <<>>
  /\ mutex = "free"
  /\ sync_flag \in Fresh
  /\ exit_flag \in Fresh
  /\ wpc = "lock"
  /\ cpc = [c \in Clients |-> "out"]
  /\ life = "store_sync"
  /\ submitted = [c \in Clients |-> 0]

Acquire(who) == mutex = "free" /\ mutex' = who
Release(who) == mutex = who /\ mutex' = "free"

(* notify_one and notify_all alike: only the worker ever waits. *)
Woken == IF wpc = "waiting" THEN "relock" ELSE wpc

-----------------------------------------------------------------------------
(* TaskQueue::TaskQueue, after the thread was created *)
StoreSyncFlag ==
  /\ life = "store_sync"
  /\ sync_flag' = TRUE
  /\ life' = "store_exit"
  /\ UNCHANGED <<tasks, running, mutex, exit_flag, wpc, cpc, submitted>>

StoreExitFlag ==
  /\ life = "store_exit"
  /\ exit_flag' = FALSE
  /\ life' = "open"
  /\ UNCHANGED <<tasks, running, mutex, sync_flag, wpc, cpc, submitted>>

-----------------------------------------------------------------------------
(* TaskQueue::enqueue *)
EnqueueCall(c) ==
  /\ life = "open" /\ cpc[c] = "out"
  /\ submitted[c] < MaxTasks
  /\ cpc' = [cpc EXCEPT ![c] = "enter"]
  /\ submitted' = [submitted EXCEPT ![c] = @ + 1]
  /\ UNCHANGED <<tasks, running, mutex, flags, wpc, life>>

EnqueueLock(c) ==
  /\ cpc[c] = "enter"
  /\ Acquire(c)
  /\ cpc' = [cpc EXCEPT ![c] = "push"]
  /\ UNCHANGED <<tasks, running, flags, wpc, life, submitted>>

Push(c) ==
  /\ cpc[c] = "push"
  /\ tasks' = Append(tasks, c)
  /\ cpc' = [cpc EXCEPT ![c] = "flag"]
  /\ UNCHANGED <<running, mutex, flags, wpc, life, submitted>>

FlagOnEnqueue == FALSE

ClearFlag(c) ==
  /\ cpc[c] = "flag"
  /\ sync_flag' = FlagOnEnqueue
  /\ Release(c)
  /\ cpc' = [cpc EXCEPT ![c] = "notify"]
  /\ UNCHANGED <<tasks, running, exit_flag, wpc, life, submitted>>

NotifyOne(c) ==
  /\ cpc[c] = "notify"
  /\ wpc' = Woken
  /\ cpc' = [cpc EXCEPT ![c] = "out"]
  /\ UNCHANGED <<tasks, running, mutex, flags, life, submitted>>

(* TaskQueue::sync, which spins until it reads true. *)
SyncCall(c) ==
  /\ life = "open" /\ cpc[c] = "out"
  /\ cpc' = [cpc EXCEPT ![c] = "sync"]
  /\ UNCHANGED <<tasks, running, mutex, flags, wpc, life, submitted>>

SyncReturn(c) ==
  /\ cpc[c] = "sync" /\ sync_flag
  /\ cpc' = [cpc EXCEPT ![c] = "out"]
  /\ UNCHANGED <<tasks, running, mutex, flags, wpc, life, submitted>>

-----------------------------------------------------------------------------
(* TaskQueue::processTasks *)
Lock ==
  /\ wpc \in {"lock", "relock"}
  /\ Acquire("worker")
  /\ wpc' = "wait"
  /\ UNCHANGED <<tasks, running, flags, cpc, life, submitted>>

(* cv.wait evaluates its predicate with the mutex held, and gives the      *)
(* mutex up in the same step as it begins to wait.                         *)
Wait ==
  /\ wpc = "wait"
  /\ \/ /\ tasks = <<>> /\ ~exit_flag
        /\ Release("worker")
        /\ wpc' = "waiting"
     \/ /\ tasks # <<>> \/ exit_flag
        /\ wpc' = "take"
        /\ mutex' = mutex
  /\ UNCHANGED <<tasks, running, flags, cpc, life, submitted>>

SpuriousWakeup ==
  /\ wpc = "waiting"
  /\ wpc' = "relock"
  /\ UNCHANGED <<tasks, running, mutex, flags, cpc, life, submitted>>

MustExit == exit_flag /\ tasks = <<>>

(* The early return leaves the mutex locked. *)
LeaveLoop ==
  /\ wpc = "take" /\ MustExit
  /\ wpc' = "returned"
  /\ UNCHANGED <<tasks, running, mutex, flags, cpc, life, submitted>>

Front == 1

Take ==
  /\ wpc = "take" /\ ~MustExit
  /\ tasks # <<>>
  /\ running' = <<tasks[Front]>>
  /\ tasks' = SubSeq(tasks, 1, Front - 1) \o SubSeq(tasks, Front + 1, Len(tasks))
  /\ Release("worker")
  /\ wpc' = "run"
  /\ UNCHANGED <<flags, cpc, life, submitted>>

(* tasks.front() of an empty queue is undefined: the worker is lost. *)
TakeNothing ==
  /\ wpc = "take" /\ ~MustExit
  /\ tasks = <<>>
  /\ wpc' = "undefined"
  /\ UNCHANGED <<tasks, running, mutex, flags, cpc, life, submitted>>

(* task() *)
Run ==
  /\ wpc = "run"
  /\ running' = <<>>
  /\ wpc' = "done"
  /\ UNCHANGED <<tasks, mutex, flags, cpc, life, submitted>>

NothingLeft == tasks = <<>>

(* The lock, the store and the unlock that follow a task: nobody can see   *)
(* between them but sync, which only reads the flag.                       *)
Done ==
  /\ wpc = "done" /\ mutex = "free"
  /\ sync_flag' = (NothingLeft \/ sync_flag)
  /\ wpc' = "lock"
  /\ UNCHANGED <<tasks, running, mutex, exit_flag, cpc, life, submitted>>

Worker == Lock \/ Wait \/ LeaveLoop \/ Take \/ TakeNothing \/ Run \/ Done

-----------------------------------------------------------------------------
(* TaskQueue::~TaskQueue, called when no client is inside a call *)
DestroyLock ==
  /\ life = "open" /\ \A c \in Clients : cpc[c] = "out"
  /\ Acquire("dtor")
  /\ life' = "set_exit"
  /\ UNCHANGED <<tasks, running, flags, wpc, cpc, submitted>>

SetExit ==
  /\ life = "set_exit"
  /\ exit_flag' = TRUE
  /\ Release("dtor")
  /\ life' = "notify"
  /\ UNCHANGED <<tasks, running, sync_flag, wpc, cpc, submitted>>

NotifyAll ==
  /\ life = "notify"
  /\ wpc' = Woken
  /\ life' = "join"
  /\ UNCHANGED <<tasks, running, mutex, flags, cpc, submitted>>

Join ==
  /\ life = "join" /\ wpc = "returned"
  /\ life' = "gone"
  /\ UNCHANGED <<tasks, running, mutex, flags, wpc, cpc, submitted>>

-----------------------------------------------------------------------------
Owner == StoreSyncFlag \/ StoreExitFlag \/ SetExit \/ NotifyAll \/ Join

Finishing(c) == EnqueueLock(c) \/ Push(c) \/ ClearFlag(c) \/ NotifyOne(c) \/ SyncReturn(c)

Client(c) == EnqueueCall(c) \/ SyncCall(c) \/ Finishing(c)

QueueNext ==
  \/ Owner \/ DestroyLock
  \/ Worker \/ SpuriousWakeup
  \/ \E c \in Clients : Client(c)

(* Threads are scheduled and tasks terminate.  A client that waits for the *)
(* mutex gets it although the worker may take it again and again (strong   *)
(* fairness: spurious wake-ups are not bounded); the worker competes only  *)
(* with calls, of which there are few.  A client need not make another     *)
(* call, nobody has to destroy the queue, and no spurious wake-up happens  *)
(* of necessity.                                                           *)
QueueFairness ==
  /\ WF_queueVars(Owner)
  /\ WF_queueVars(Worker)
  /\ \A c \in Clients : WF_queueVars(Finishing(c)) /\ SF_queueVars(EnqueueLock(c))

QueueSpec == QueueInit /\ [][QueueNext]_queueVars

FairQueueSpec == QueueSpec /\ QueueFairness

-----------------------------------------------------------------------------
(* Properties *)

WorkerHolds == wpc \in {"wait", "take", "returned", "undefined"}
Holds(c) == cpc[c] \in {"push", "flag"}

(* Types, and the lock discipline: a thread between its lock and its       *)
(* unlock owns the mutex, and nobody else is there.                        *)
QueueTypeOK ==
  /\ tasks \in Seq(Clients)
  /\ running = <<>> \/ \E c \in Clients : running = <<c>>
  /\ sync_flag \in BOOLEAN /\ exit_flag \in BOOLEAN
  /\ wpc \in {"lock", "wait", "waiting", "relock", "take", "run", "done",
              "returned", "undefined"}
  /\ cpc \in [Clients -> {"out", "enter", "push", "flag", "notify", "sync"}]
  /\ life \in {"store_sync", "store_exit", "open", "set_exit", "notify", "join", "gone"}
  /\ submitted \in [Clients -> Nat]
  /\ mutex \in {"free", "worker", "dtor"} \cup Clients
  /\ WorkerHolds <=> mutex = "worker"
  /\ \A c \in Clients : Holds(c) <=> mutex = c
  /\ life = "set_exit" <=> mutex = "dtor"

(* sync_flag is a summary of the queue that is read without the lock: it   *)
(* is true only when nothing runs and nothing is queued, but for the one   *)
(* task whose enqueue holds the lock between its push and its store.       *)
FlagSound ==
  sync_flag /\ life # "store_sync" =>
    /\ running = <<>>
    /\ tasks = <<>> \/ \E c \in Clients : cpc[c] = "flag" /\ tasks = <<c>>

(* processTasks never takes the front of an empty queue, if the memory of  *)
(* exit_flag was FALSE when the constructor started the worker.            *)
NeverTakesNothing == ~exit_flag => [](wpc # "undefined")

SE == INSTANCE SerialExecutor WITH
        queue <- running \o tasks,
        syncing <- {c \in Clients : cpc[c] = "sync"},
        phase <- IF life \in {"store_sync", "store_exit"} THEN "new"
                 ELSE IF life = "open" THEN "open" ELSE "closed"

(* Tasks run in order and one at a time, and sync() returns to a thread    *)
(* only when all that this thread enqueued has run, whatever others do.    *)
ImplementsSerialExecutor == SE!Spec

(* A call of enqueue() returns: whoever holds the mutex gives it back. *)
EnqueueReturns == \A c \in Clients : cpc[c] = "enter" ~> cpc[c] = "out"

(* With that memory FALSE, nothing waits for ever.  No wake-up is lost:    *)
(* what is in the queue runs, synced or not; a thread in sync() gets out,  *)
(* since the flag misses no completion; and the destructor can join the    *)
(* worker, which has drained the queue.                                    *)
QueueDrains ==
  ~exit_flag =>
    /\ tasks # <<>> ~> tasks = <<>> /\ running = <<>>
    /\ SE!SyncReturns
    /\ life = "set_exit" ~> life = "gone" /\ tasks = <<>> /\ running = <<>>
=============================================================================
