---------------------------- MODULE DagExecution ----------------------------
(***************************************************************************)
(* What RelayFlow promises about the execution of one workflow run,        *)
(* whatever the interleaving of workers, crashes, lapsed leases and        *)
(* cancellations: an attempt at a task starts only while the run is open   *)
(* and only after every dependency of the task has produced its output; an *)
(* output, once produced, is never lost; a run that was closed is never    *)
(* opened again.  Execution is at-least-once: a task may be attempted and  *)
(* may finish any number of times.                                         *)
(*                                                                         *)
(* Module TaskEngine, the translation of the orchestrator and the worker,  *)
(* is shown to implement this specification.                               *)
(***************************************************************************)
EXTENDS Naturals

CONSTANTS Tasks,   \* the task keys of the workflow definition
          Deps     \* Deps[t] is the depends_on set of task t

VARIABLES attempts,  \* attempts[t]: how often an attempt at t was started
          produced,  \* the tasks that have an output
          closed     \* the run has ended

vars == <<attempts, produced, closed>>

Init ==
  /\ attempts = [t \in Tasks |-> 0]
  /\ produced = {}
  /\ closed = FALSE

\* A worker takes t: dependencies first, and never in a run that has ended.
Start(t) ==
  /\ ~closed
  /\ Deps[t] \subseteq produced
  /\ attempts' = [attempts EXCEPT ![t] = @ + 1]
  /\ UNCHANGED <<produced, closed>>

\* Some attempt at t, perhaps one of several, yields its output.
Finish(t) ==
  /\ attempts[t] > 0
  /\ produced' = produced \cup {t}
  /\ UNCHANGED <<attempts, closed>>

Close ==
  /\ closed' = TRUE
  /\ UNCHANGED <<attempts, produced>>

Next ==
  \/ \E t \in Tasks : Start(t) \/ Finish(t)
  \/ Close

Spec == Init /\ [][Next]_vars
=============================================================================
