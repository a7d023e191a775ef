----------------------------- MODULE Scheduler ------------------------------
(***************************************************************************)
(* The scheduler that RelayFlow's workers make up together, as seen by     *)
(* somebody who reads workflow_runs and task_runs only: one that decides   *)
(* on the tables as they are, in a single step, with neither sessions nor  *)
(* leases.                                                                 *)
(*                                                                         *)
(* Module TaskEngine implements it where no lease is outrun, no            *)
(* publication raises, nobody cancels and the workflow is layered.  The    *)
(* stale sessions of its workers are then no more than an incomplete pass: *)
(* advance_run may miss what it could have released, doomed or closed, but *)
(* what it writes is what a look at the tables would have told it.         *)
(***************************************************************************)
EXTENDS Naturals

CONSTANTS Tasks,        \* the task keys of the workflow definition
          Deps,         \* Deps[t] is the depends_on set of task t
          MaxAttempts   \* MaxAttempts[t] is t's retry.max_attempts

VARIABLES status,       \* status[t]: the status of task t
          attempts,     \* attempts[t]: how often an attempt at t was started
          run           \* the status of the run

vars == <<status, attempts, run>>

Init ==
  /\ status = [t \in Tasks |-> IF Deps[t] = {} THEN "ready" ELSE "blocked"]
  /\ attempts = [t \in Tasks |-> 0]
  /\ run = "running"

\* An attempt at t, which is due or was abandoned while it was running.
Start(t) ==
  /\ status[t] \in {"ready", "retrying", "running"}
  /\ status' = [status EXCEPT ![t] = "running"]
  /\ attempts' = [attempts EXCEPT ![t] = @ + 1]
  /\ UNCHANGED run

\* The attempt at t succeeds, or fails and is retried as long as t's policy
\* allows it.
Outcomes(t) ==
  {"succeeded"} \cup (IF attempts[t] < MaxAttempts[t] THEN {"retrying"}
                                                      ELSE {"failed"})

Finish(t) ==
  /\ status[t] = "running"
  /\ \E s \in Outcomes(t) : status' = [status EXCEPT ![t] = s]
  /\ UNCHANGED <<attempts, run>>

Waiting == {t \in Tasks : status[t] = "blocked"}

\* The waiting tasks that have lost a dependency, and those that have all.
Lost == {t \in Waiting : \E d \in Deps[t] : status[d] \in {"failed", "cancelled"}}
Due  == {t \in Waiting : \A d \in Deps[t] : status[d] = "succeeded"}

\* Some tasks that have lost a dependency are cancelled, and some that have
\* all of theirs are made ready.
Advance ==
  /\ \E cancelled \in SUBSET Lost, released \in SUBSET Due :
       status' = [t \in Tasks |-> IF t \in cancelled THEN "cancelled"
                                  ELSE IF t \in released THEN "ready"
                                  ELSE status[t]]
  /\ UNCHANGED attempts

\* The run stays open, or is closed with the verdict on tasks that have all
\* ended.
Ended == \A t \in Tasks : status[t] \in {"succeeded", "failed", "cancelled"}

Close ==
  \/ UNCHANGED run
  \/ /\ Ended'
     /\ run' = IF \E t \in Tasks : status'[t] = "failed" THEN "failed"
               ELSE "succeeded"

\* In a run that was closed nothing happens any more.
Next ==
  /\ run = "running"
  /\ \/ \E t \in Tasks : Start(t) \/ Finish(t)
     \/ Advance /\ Close

Spec == Init /\ [][Next]_vars
=============================================================================
