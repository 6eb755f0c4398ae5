----------------------------- MODULE ParallelFor -----------------------------
(***************************************************************************)
(* What Backend::do_work_stealing_job promises its caller (the CPU kernels *)
(* of llamafile/ and kvcache/): a job of n tasks runs each of the tasks    *)
(* 0 .. n-1 exactly once, in any order, and the call returns only after    *)
(* the last of them ran; jobs follow one another; a backend that was       *)
(* destroyed runs nothing more.  How threads share the tasks is the        *)
(* business of WorkStealing, which implements this module.                 *)
(***************************************************************************)
EXTENDS Integers

CONSTANT TaskCounts      \* the values of task_num the callers pass

VARIABLES phase,         \* where the caller is: outside, inside, past ~Backend
          pending,       \* the tasks of the current job that have not run
          calls          \* how many calls of compute_func_ the job has made

vars == <<phase, pending, calls>>

Init == phase = "idle" /\ pending = {} /\ calls = 0

(* The caller enters do_work_stealing_job(n, ...). *)
Start ==
  /\ phase = "idle"
  /\ phase' = "running"
  /\ \E n \in TaskCounts : pending' = 0 .. n - 1
  /\ calls' = 0

(* compute_func_(k) runs, for a task that has not run yet: each call uses  *)
(* up one task, so a call for a task that already ran is no step of this   *)
(* module (calls would grow and pending stay).                             *)
Run ==
  /\ phase = "running"
  /\ \E k \in pending : pending' = pending \ {k}
  /\ calls' = calls + 1
  /\ phase' = phase

(* The call returns: nothing is left to run. *)
Return ==
  /\ phase = "running"
  /\ pending = {}
  /\ phase' = "idle"
  /\ UNCHANGED <<pending, calls>>

(* The backend is destroyed between two jobs. *)
Close ==
  /\ phase = "idle"
  /\ phase' = "closed"
  /\ UNCHANGED <<pending, calls>>

Next == Start \/ Run \/ Return \/ Close

Spec == Init /\ [][Next]_vars

(* Every call of do_work_stealing_job returns. *)
Returns == phase = "running" ~> phase = "idle"
=============================================================================
