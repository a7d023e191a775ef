-------------------------- MODULE MC_TaskDelivery ---------------------------
(***************************************************************************)
(* Instances of TaskDelivery for TLC.                                      *)
(***************************************************************************)
EXTENDS TaskDelivery

\* the first task may be retried, the second one may not
TwoTasks == {"a", "b"}
RetryOne == [a |-> 2, b |-> 1]
=============================================================================
