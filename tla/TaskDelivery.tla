---------------------------- MODULE TaskDelivery ----------------------------
(***************************************************************************)
(* How a task that is ready reaches a worker: broker.py and the two        *)
(* asyncio tasks of a worker process, the polling loop of worker_loop and  *)
(* consume_broker, which both end in claim_task and process.               *)
(*                                                                         *)
(* A message only says that a task may be claimed.  It is published after  *)
(* the commit that makes the task ready and may be lost (AMQPError is      *)
(* swallowed); it comes back if its consumer dies before acknowledging it; *)
(* and it is dropped when its task cannot be claimed at that moment.       *)
(*                                                                         *)
(* What happens inside an attempt, and among the tasks of one run, is      *)
(* TaskEngine.  Here each task has a run of its own, no run is cancelled,  *)
(* and no attempt outlasts its lease.                                      *)
(***************************************************************************)
EXTENDS Naturals

CONSTANTS Tasks, Workers,
          MaxAttempts,   \* max_attempts of each task
          MaxCrashes,    \* bound on worker processes that die
          NoTask

ASSUME DeliveryAssumption ==
  /\ MaxAttempts \in [Tasks -> Nat \ {0}]
  /\ MaxCrashes \in Nat
  /\ NoTask \notin Tasks

VARIABLES
  status, attempt,  \* columns of task_runs
  due,              \* whether available_at has passed
  leased,           \* whether lease_expires_at lies ahead
  queue,            \* messages in relayflow.tasks, per task
  dead,             \* messages in the dead-letter queue: notices of
                    \* publish_dead_letter and rejected deliveries
  pc, job,          \* per actor: what it is doing and with which task
  crashes

row == <<status, attempt, due, leased>>
vars == <<status, attempt, due, leased, queue, dead, pc, job, crashes>>

-----------------------------------------------------------------------------

\* The asyncio tasks of the worker processes.
Poller(w) == <<w, "poll">>
Consumer(w) == <<w, "consumer">>
Actors == Workers \X {"poll", "consumer"}

Settled == {"succeeded", "failed"}
Busy == {"executing", "failing", "noticed"}

TypeOK ==
  /\ status \in [Tasks -> {"blocked", "ready", "running", "retrying"}
                            \cup Settled]
  /\ attempt \in [Tasks -> Nat]
  /\ due \in [Tasks -> BOOLEAN]
  /\ leased \in [Tasks -> BOOLEAN]
  /\ queue \in [Tasks -> Nat]
  /\ dead \subseteq {"notice", "rejected"} \X Tasks
  /\ pc \in [Actors -> {"idle", "delivered", "republishing", "gone"}
                         \cup Busy]
  /\ job \in [Actors -> Tasks \cup {NoTask}]
  /\ crashes \in 0 .. MaxCrashes

Init ==
  /\ status = [t \in Tasks |-> "blocked"]
  /\ attempt = [t \in Tasks |-> 0]
  /\ due = [t \in Tasks |-> TRUE]
  /\ leased = [t \in Tasks |-> FALSE]
  /\ queue = [t \in Tasks |-> 0]
  /\ dead = {}
  /\ pc = [a \in Actors |-> "idle"]
  /\ job = [a \in Actors |-> NoTask]
  /\ crashes = 0

-----------------------------------------------------------------------------
(* Publishing                                                              *)

\* basic_publish, or an AMQPError that publish_task swallows.
Published(t) ==
  \/ queue' = [queue EXCEPT ![t] = @ + 1]
  \/ UNCHANGED queue

\* start_run or advance_run commits a ready task and then publishes it.  A
\* message published late is like one delivered late, and one never published
\* since the process died is like one lost, so this is one step.
Release(t) ==
  /\ status[t] = "blocked"
  /\ status' = [status EXCEPT ![t] = "ready"]
  /\ Published(t)
  /\ UNCHANGED <<attempt, due, leased, dead, pc, job, crashes>>

-----------------------------------------------------------------------------
(* claim_task                                                              *)

\* Slips: a task that has a message is ready; a lease is for ever; leases are
\* not looked at.
ClaimableByName(t) == status[t] # "blocked"
ClaimableOnce(t) == status[t] \in {"ready", "retrying"} /\ due[t]
ClaimableUnleased(t) ==
  due[t] /\ status[t] \in {"ready", "retrying", "running"}

Claimable(t) ==
  /\ due[t]
  /\ \/ status[t] \in {"ready", "retrying"}
     \/ status[t] = "running" /\ ~leased[t]

Claim(a, t) ==
  /\ Claimable(t)
  /\ status' = [status EXCEPT ![t] = "running"]
  /\ attempt' = [attempt EXCEPT ![t] = @ + 1]
  /\ leased' = [leased EXCEPT ![t] = TRUE]
  /\ pc' = [pc EXCEPT ![a] = "executing"]
  /\ job' = [job EXCEPT ![a] = t]
  /\ UNCHANGED due

Finish(a) ==
  /\ pc' = [pc EXCEPT ![a] = "idle"]
  /\ job' = [job EXCEPT ![a] = NoTask]

\* An iteration of worker_loop that finds a task.
Poll(w) ==
  /\ pc[Poller(w)] = "idle"
  /\ \E t \in Tasks : Claim(Poller(w), t)
  /\ UNCHANGED <<queue, dead, crashes>>

\* The broker hands one message to a consumer: prefetch_count is 1.
Deliver(w) ==
  /\ pc[Consumer(w)] = "idle"
  /\ \E t \in Tasks :
       /\ queue[t] > 0
       /\ queue' = [queue EXCEPT ![t] = @ - 1]
       /\ job' = [job EXCEPT ![Consumer(w)] = t]
  /\ pc' = [pc EXCEPT ![Consumer(w)] = "delivered"]
  /\ UNCHANGED <<row, dead, crashes>>

\* claim_task(body["task_id"]); without a task the message is acknowledged.
\* The header retry_after_seconds is never read.
ClaimDelivered(w) ==
  LET c == Consumer(w) IN
  /\ pc[c] = "delivered"
  /\ \/ Claim(c, job[c])
     \/ ~Claimable(job[c]) /\ Finish(c) /\ UNCHANGED row
  /\ UNCHANGED <<queue, dead, crashes>>

-----------------------------------------------------------------------------
(* process                                                                 *)

Succeed(a) ==
  /\ pc[a] = "executing"
  /\ status' = [status EXCEPT ![job[a]] = "succeeded"]
  /\ leased' = [leased EXCEPT ![job[a]] = FALSE]
  /\ Finish(a)
  /\ UNCHANGED <<attempt, due, queue, dead, crashes>>

\* execute raises, and the attempt's row is committed as failed.
Fail(a) ==
  /\ pc[a] = "executing"
  /\ pc' = [pc EXCEPT ![a] = "failing"]
  /\ UNCHANGED <<row, queue, dead, job, crashes>>

\* A slip: an attempt too few.
ExhaustedEarly(t) == attempt[t] + 1 >= MaxAttempts[t]

Exhausted(t) == attempt[t] >= MaxAttempts[t]

\* retry_task with attempts left: committed before its message is published.
RetryTask(a) ==
  /\ pc[a] = "failing" /\ ~Exhausted(job[a])
  /\ status' = [status EXCEPT ![job[a]] = "retrying"]
  /\ due' = [due EXCEPT ![job[a]] = FALSE]
  /\ leased' = [leased EXCEPT ![job[a]] = FALSE]
  /\ pc' = [pc EXCEPT ![a] = "republishing"]
  /\ UNCHANGED <<attempt, queue, dead, job, crashes>>

Republish(a) ==
  /\ pc[a] = "republishing"
  /\ Published(job[a])
  /\ Finish(a)
  /\ UNCHANGED <<row, dead, crashes>>

\* publish_dead_letter, before the commit it announces; it may fail as well.
PublishDeadLetter(a) ==
  /\ pc[a] = "failing" /\ Exhausted(job[a])
  /\ \/ dead' = dead \cup {<<"notice", job[a]>>}
     \/ UNCHANGED dead
  /\ pc' = [pc EXCEPT ![a] = "noticed"]
  /\ UNCHANGED <<row, queue, job, crashes>>

CommitFailure(a) ==
  /\ pc[a] = "noticed"
  /\ status' = [status EXCEPT ![job[a]] = "failed"]
  /\ leased' = [leased EXCEPT ![job[a]] = FALSE]
  /\ Finish(a)
  /\ UNCHANGED <<attempt, due, queue, dead, crashes>>

-----------------------------------------------------------------------------
(* Failures and time                                                       *)

\* An exception other than those of the task and AMQPError, such as one of
\* the database, leaves message.process: the message is rejected into the
\* dead-letter queue and the asyncio task ends, unnoticed.
ConsumerRaises(w) ==
  LET c == Consumer(w) IN
  /\ pc[c] \notin {"idle", "gone"}
  /\ dead' = dead \cup {<<"rejected", job[c]>>}
  /\ pc' = [pc EXCEPT ![c] = "gone"]
  /\ job' = [job EXCEPT ![c] = NoTask]
  /\ UNCHANGED <<row, queue, crashes>>

\* The process dies, or an exception leaves worker_loop.  What its consumer
\* had not acknowledged goes back to the queue.
Crash(w) ==
  /\ crashes < MaxCrashes
  /\ pc[Poller(w)] # "gone"
  /\ crashes' = crashes + 1
  /\ pc' = [pc EXCEPT ![Poller(w)] = "gone", ![Consumer(w)] = "gone"]
  /\ job' = [job EXCEPT ![Poller(w)] = NoTask, ![Consumer(w)] = NoTask]
  /\ queue' = IF job[Consumer(w)] = NoTask THEN queue
              ELSE [queue EXCEPT ![job[Consumer(w)]] = @ + 1]
  /\ UNCHANGED <<row, dead>>

\* The container starts the process again.  Without a broker to connect to,
\* consume_broker ends at once.
Restart(w) ==
  /\ pc[Poller(w)] = "gone"
  /\ \E c \in {"idle", "gone"} :
       pc' = [pc EXCEPT ![Poller(w)] = "idle", ![Consumer(w)] = c]
  /\ UNCHANGED <<row, queue, dead, job, crashes>>

\* An attempt under way is never outlasted by its lease in this module.
LeaseExpires(t) ==
  /\ status[t] = "running" /\ leased[t]
  /\ \A a \in Actors : ~(pc[a] \in Busy /\ job[a] = t)
  /\ leased' = [leased EXCEPT ![t] = FALSE]
  /\ UNCHANGED <<status, attempt, due, queue, dead, pc, job, crashes>>

\* available_at passes.
BackoffElapses(t) ==
  /\ ~due[t]
  /\ due' = [due EXCEPT ![t] = TRUE]
  /\ UNCHANGED <<status, attempt, leased, queue, dead, pc, job, crashes>>

-----------------------------------------------------------------------------

Process(a) ==
  \/ Succeed(a) \/ Fail(a) \/ RetryTask(a) \/ Republish(a)
  \/ PublishDeadLetter(a) \/ CommitFailure(a)

Consume(w) == Deliver(w) \/ ClaimDelivered(w)

Next ==
  \/ \E t \in Tasks :
       Release(t) \/ LeaseExpires(t) \/ BackoffElapses(t)
  \/ \E a \in Actors : Process(a)
  \/ \E w \in Workers :
       Poll(w) \/ Consume(w) \/ ConsumerRaises(w) \/ Crash(w) \/ Restart(w)

Spec == Init /\ [][Next]_vars

\* Workers poll, consume and work, their containers are restarted, and time
\* passes.  Nothing is assumed of the broker's or the publishers' luck.
Fairness ==
  /\ \A w \in Workers :
       WF_vars(Poll(w)) /\ WF_vars(Consume(w)) /\ WF_vars(Restart(w))
  /\ \A a \in Actors : WF_vars(Process(a))
  /\ \A t \in Tasks : WF_vars(LeaseExpires(t)) /\ WF_vars(BackoffElapses(t))

FairSpec == Spec /\ Fairness

-----------------------------------------------------------------------------
(* Properties                                                              *)

\* However polls, messages, redeliveries and restarts meet, a task is worked
\* on by one actor at a time, in its own attempt and under a live lease.
SingleExecution ==
  \A a \in Actors : pc[a] \in Busy =>
    /\ status[job[a]] = "running" /\ leased[job[a]]
    /\ \A b \in Actors : pc[b] \in Busy /\ job[b] = job[a] => a = b

\* A dead-letter notice is only sent for a task that has used up its
\* attempts, even though it is sent before the failure is committed, and a
\* task that failed did use them up.
NoticeIsEarned ==
  \A t \in Tasks :
    <<"notice", t>> \in dead \/ status[t] = "failed"
      => attempt[t] >= MaxAttempts[t]

\* No late or repeated message brings a finished task back to work.
SettledIsFinal ==
  [][\A t \in Tasks : status[t] \in Settled =>
       status'[t] = status[t] /\ attempt'[t] = attempt[t]]_vars

\* Messages are hints: a task that is ready is worked off even if every
\* message is lost, dropped or rejected and no consumer is left.
ReleasedIsSettled ==
  \A t \in Tasks : status[t] = "ready" ~> status[t] \in Settled

=============================================================================
