--------------------------- MODULE SerialExecutor ---------------------------
(***************************************************************************)
(* What TaskQueue promises to the threads that submit CPU work: the tasks  *)
(* run one at a time, in the order they were submitted, each once; sync()  *)
(* returns to a thread only when all it submitted has run; the destructor  *)
(* runs what is left and then nothing more.  A task is represented by the  *)
(* thread that submitted it.                                               *)
(***************************************************************************)
EXTENDS Sequences

CONSTANT Clients         \* the threads that use the queue

VARIABLES queue,         \* submitted and not completed, oldest first
          syncing,       \* the threads inside sync()
          phase          \* "new", "open" (accepts calls) or "closed"

vars == <<queue, syncing, phase>>

Pending(c) == \E k \in DOMAIN queue : queue[k] = c

Init == queue = <<>> /\ syncing = {} /\ phase = "new"

(* The constructor returns. *)
Open ==
  /\ phase = "new"
  /\ phase' = "open"
  /\ UNCHANGED <<queue, syncing>>

Submit(c) ==
  /\ phase = "open" /\ c \notin syncing
  /\ queue' = Append(queue, c)
  /\ UNCHANGED <<syncing, phase>>

(* The oldest task completes. *)
Complete ==
  /\ queue # <<>>
  /\ queue' = Tail(queue)
  /\ UNCHANGED <<syncing, phase>>

SyncBegin(c) ==
  /\ phase = "open" /\ c \notin syncing
  /\ syncing' = syncing \cup {c}
  /\ UNCHANGED <<queue, phase>>

SyncEnd(c) ==
  /\ c \in syncing /\ ~Pending(c)
  /\ syncing' = syncing \ {c}
  /\ UNCHANGED <<queue, phase>>

Close ==
  /\ phase = "open" /\ syncing = {}
  /\ phase' = "closed"
  /\ UNCHANGED <<queue, syncing>>

Next ==
  \/ Open \/ Complete \/ Close
  \/ \E c \in Clients : Submit(c) \/ SyncBegin(c) \/ SyncEnd(c)

Spec == Init /\ [][Next]_vars

(* Every call of sync() returns. *)
SyncReturns == \A c \in Clients : c \in syncing ~> c \notin syncing
=============================================================================
