----------------------------- MODULE TaskEngine -----------------------------
(***************************************************************************)
(* One workflow run of RelayFlow, executed by several polling workers      *)
(* while users cancel it, workers crash and leases run out.                *)
(*                                                                         *)
(* The state is what PostgreSQL holds about the run (workflow_runs,        *)
(* task_runs, task_attempts, dead_letter_tasks), plus, for every worker,   *)
(* how far its handler has come and what its SQLAlchemy session holds.     *)
(* An action ends where the code commits, or where it reads.  Sessions     *)
(* read at READ COMMITTED, never refresh a row they have loaded, and an    *)
(* UPDATE writes only the columns whose value the session has changed:     *)
(* see Flush.                                                              *)
(*                                                                         *)
(* Left out: the contents of inputs, outputs and errors, run_events        *)
(* (written in the same commits), and what the broker delivers (module     *)
(* TaskDelivery): a worker finds its tasks by polling.  With the broker    *)
(* switched on publishing may raise, and that matters here: see            *)
(* AdvanceRaises.                                                          *)
(***************************************************************************)
EXTENDS Naturals, FiniteSets

CONSTANTS Tasks,        \* the task keys of the workflow definition
          Deps,         \* Deps[t] is the depends_on set of task t
          MaxAttempts,  \* MaxAttempts[t] is t's retry.max_attempts
          Workers,      \* worker processes, each one poll loop
          Cancellers,   \* concurrent cancel requests, {} for none
          MaxCrashes,   \* bound on worker crashes
          MaxLapses,    \* bound on leases that end under a live execution
          MaxOutages,   \* bound on publications that raise, 0 for no broker
          NoTask

\* WorkflowCreate rejects unknown dependencies and cycles; of the latter the
\* proofs need only that no task depends on itself.
ASSUME EngineAssumption ==
  /\ Tasks # {} /\ IsFiniteSet(Tasks)
  /\ Deps \in [Tasks -> SUBSET Tasks]
  /\ \A t \in Tasks : t \notin Deps[t]
  /\ MaxAttempts \in [Tasks -> Nat \ {0}]
  /\ MaxCrashes \in Nat
  /\ MaxLapses \in Nat
  /\ MaxOutages \in Nat
  /\ NoTask \notin Tasks

VARIABLES
  runStatus,    \* workflow_runs.status
  runOutput,    \* the tasks whose output is in workflow_runs.output
  status,       \* task_runs.status
  attempt,      \* task_runs.attempt
  outputs,      \* the tasks with a task_runs.output
  lease,        \* lease_owner and lease_expires_at: none, held or lapsed
  available,    \* the tasks whose available_at has come
  attemptRows,  \* task_attempts, as records
  deadLetters,  \* dead_letter_tasks, as <<task, attempt>>
  pc, job,      \* per worker: position in claim_task/process, task claimed
  view,         \* per worker: what the session of process has loaded
  stage, cview, \* per cancel request: position and task statuses loaded
  crashes, lapses, outages

db   == <<runStatus, runOutput, status, attempt, outputs, lease, available,
          attemptRows, deadLetters>>
worker == <<pc, job, view>>
cancel == <<stage, cview>>
budget == <<crashes, lapses, outages>>
vars == <<db, worker, cancel, budget>>

-----------------------------------------------------------------------------
(* Types                                                                   *)

RunStatus  == {"running", "succeeded", "failed", "cancelled"}
TaskStatus == {"blocked", "ready", "running", "retrying", "succeeded",
               "failed", "cancelled"}
RowStatus  == {"running", "succeeded", "failed"}
Terminal   == {"succeeded", "failed", "cancelled"}

\* Between the claim's commit and the end of the failure commits a worker
\* is working on its job; "advancing" it has given the task up, and "raised"
\* it takes it up again.
Executing == {"claimed", "loadRun", "loadSiblings", "executing", "raised",
              "failing"}
Positions == Executing \cup {"down", "idle", "advancing"}

View == [status    : [Tasks -> TaskStatus],
         outputs   : SUBSET Tasks,
         attempt   : Nat,
         leased    : BOOLEAN,
         row       : RowStatus,
         run       : RunStatus,
         runOutput : SUBSET Tasks]

EmptyView == [status    |-> [t \in Tasks |-> "blocked"],
              outputs   |-> {},
              attempt   |-> 0,
              leased    |-> FALSE,
              row       |-> "running",
              run       |-> "running",
              runOutput |-> {}]

DatabaseOK ==
  /\ runStatus \in RunStatus
  /\ runOutput \subseteq Tasks
  /\ status \in [Tasks -> TaskStatus]
  /\ attempt \in [Tasks -> Nat]
  /\ outputs \subseteq Tasks
  /\ lease \in [Tasks -> {"none", "held", "lapsed"}]
  /\ available \subseteq Tasks
  /\ attemptRows \subseteq [task : Tasks, attempt : Nat, status : RowStatus]
  /\ deadLetters \subseteq Tasks \X Nat

WorkersOK ==
  /\ pc \in [Workers -> Positions]
  /\ job \in [Workers -> Tasks \cup {NoTask}]
  /\ \A w \in Workers : job[w] = NoTask <=> pc[w] \in {"idle", "down"}
  /\ view \in [Workers -> View]

RequestsOK ==
  /\ stage \in [Cancellers -> {"none", "checked", "flushed", "done"}]
  /\ cview \in [Cancellers -> [Tasks -> TaskStatus]]
  /\ crashes \in 0 .. MaxCrashes
  /\ lapses \in 0 .. MaxLapses
  /\ outages \in 0 .. MaxOutages

TypeOK == DatabaseOK /\ WorkersOK /\ RequestsOK

-----------------------------------------------------------------------------
(* Helpers                                                                 *)

\* The workers that are at work on t, whether or not t is still theirs.
Working(t) == {w \in Workers : pc[w] \in Executing /\ job[w] = t}

\* cancel_run has updated the run row and not yet committed: claims skip the
\* row, and another UPDATE of it waits.
RunRowLocked == \E c \in Cancellers : stage[c] = "flushed"

\* A slip: a flush writes back every row the session has loaded.
FlushAll(cur, loaded, new) == new

\* What the UPDATEs of a flush leave in a column that held cur: only the
\* rows are written whose value the session changed since it loaded them.
Flush(cur, loaded, new) ==
  [t \in Tasks |-> IF new[t] # loaded[t] THEN new[t] ELSE cur[t]]

\* Slips in claim_task's WHERE clause: a run of any status; no look at the
\* lease; no retry; no reclaim.
ClaimableInAnyRun(t) ==
  /\ t \in available
  /\ \/ status[t] \in {"ready", "retrying"}
     \/ status[t] = "running" /\ lease[t] = "lapsed"
ClaimableWhileLeased(t) ==
  /\ runStatus = "running" /\ t \in available
  /\ status[t] \in {"ready", "retrying", "running"}
ClaimableUnlessRetrying(t) ==
  /\ runStatus = "running" /\ t \in available
  /\ status[t] = "ready" \/ (status[t] = "running" /\ lease[t] = "lapsed")
ClaimableUnlessOrphaned(t) ==
  /\ runStatus = "running" /\ t \in available
  /\ status[t] \in {"ready", "retrying"}

\* The rows claim_task may take.
Claimable(t) ==
  /\ runStatus = "running"
  /\ t \in available
  /\ \/ status[t] \in {"ready", "retrying"}
     \/ status[t] = "running" /\ lease[t] = "lapsed"

NextAttempt(t) == attempt[t] + 1

\* A slip in retry_task: one attempt more than the policy allows.
ExhaustedLate(t, n) == n > MaxAttempts[t]

\* Attempt n at t was the last its retry policy allows.
Exhausted(t, n) == n >= MaxAttempts[t]

\* A slip: the last allowed attempt is failed but leaves no dead letter.
DeadLetterLate(t, n) == IF n > MaxAttempts[t] THEN {<<t, n>>} ELSE {}

\* What the failure of attempt n at t adds to dead_letter_tasks.
DeadLetter(t, n) == IF Exhausted(t, n) THEN {<<t, n>>} ELSE {}

\* Slips in advance_run: a failed dependency dooms nothing; one dependency
\* is enough; tasks that are not blocked are released too.
DoomedByCancelled(st) ==
  {t \in Tasks : /\ st[t] = "blocked"
                 /\ \E d \in Deps[t] : st[d] = "cancelled"}
ReleasedByAny(st) ==
  {t \in Tasks : /\ st[t] = "blocked"
                 /\ \E d \in Deps[t] : st[d] = "succeeded"}
ReleasedUnguarded(st) ==
  {t \in Tasks : \A d \in Deps[t] : st[d] = "succeeded"}

\* The blocked tasks that advance_run cancels, and those it makes ready.
Doomed(st) ==
  {t \in Tasks : /\ st[t] = "blocked"
                 /\ \E d \in Deps[t] : st[d] \in {"failed", "cancelled"}}
Released(st) ==
  {t \in Tasks : /\ st[t] = "blocked"
                 /\ \A d \in Deps[t] : st[d] = "succeeded"}

\* The task statuses after advance_run's single pass over the snapshot st.
Advanced(st) ==
  [t \in Tasks |-> IF t \in Doomed(st) THEN "cancelled"
                   ELSE IF t \in Released(st) THEN "ready"
                   ELSE st[t]]

AllTerminal(st) == \A t \in Tasks : st[t] \in Terminal

\* The verdict on a run all of whose tasks are terminal.
Verdict(st, run) ==
  IF \E t \in Tasks : st[t] = "failed" THEN "failed"
  ELSE IF run = "cancelled" THEN "cancelled"
  ELSE "succeeded"

\* A slip: the attempt rows are looked up by task alone.
SetRowOfTask(rows, t, n, loaded, new) ==
  {IF r.task = t THEN [r EXCEPT !.status = new] ELSE r : r \in rows}

\* attemptRows after the session that loaded status loaded for the row
\* (t, n) flushes status new.
SetRow(rows, t, n, loaded, new) ==
  IF new = loaded THEN rows
  ELSE {r \in rows : ~(r.task = t /\ r.attempt = n)}
         \cup {[task |-> t, attempt |-> n, status |-> new]}

-----------------------------------------------------------------------------
(* The run as start_run commits it                                         *)

Init ==
  /\ runStatus = "running"
  /\ runOutput = {}
  /\ status = [t \in Tasks |-> IF Deps[t] = {} THEN "ready" ELSE "blocked"]
  /\ attempt = [t \in Tasks |-> 0]
  /\ outputs = {}
  /\ lease = [t \in Tasks |-> "none"]
  /\ available = Tasks
  /\ attemptRows = {}
  /\ deadLetters = {}
  /\ pc = [w \in Workers |-> "idle"]
  /\ job = [w \in Workers |-> NoTask]
  /\ view = [w \in Workers |-> EmptyView]
  /\ stage = [c \in Cancellers |-> "none"]
  /\ cview = [c \in Cancellers |-> EmptyView.status]
  /\ crashes = 0
  /\ lapses = 0
  /\ outages = 0

-----------------------------------------------------------------------------
(* The worker                                                              *)

\* claim_task: one transaction under FOR UPDATE SKIP LOCKED on the task and
\* the run row.  A worker reclaims a lapsed task whatever its attempt number.
Claim(w, t) ==
  /\ pc[w] = "idle"
  /\ Claimable(t)
  /\ ~RunRowLocked
  /\ status' = [status EXCEPT ![t] = "running"]
  /\ attempt' = [attempt EXCEPT ![t] = NextAttempt(t)]
  /\ lease' = [lease EXCEPT ![t] = "held"]
  /\ attemptRows' = attemptRows \cup
       {[task |-> t, attempt |-> NextAttempt(t), status |-> "running"]}
  /\ pc' = [pc EXCEPT ![w] = "claimed"]
  /\ job' = [job EXCEPT ![w] = t]
  /\ UNCHANGED <<runStatus, runOutput, outputs, available, deadLetters, view,
                 cancel, budget>>

\* process opens a new session and loads its own task row ...
LoadTask(w) ==
  /\ pc[w] = "claimed"
  /\ LET t == job[w] IN
     view' = [view EXCEPT ![w].status[t] = status[t],
                          ![w].outputs = outputs \cap {t},
                          ![w].attempt = attempt[t],
                          ![w].leased = (lease[t] # "none")]
  /\ pc' = [pc EXCEPT ![w] = "loadRun"]
  /\ UNCHANGED <<db, job, cancel, budget>>

\* ... then the run row ...
LoadRun(w) ==
  /\ pc[w] = "loadRun"
  /\ view' = [view EXCEPT ![w].run = runStatus, ![w].runOutput = runOutput]
  /\ pc' = [pc EXCEPT ![w] = "loadSiblings"]
  /\ UNCHANGED <<db, job, cancel, budget>>

\* A slip: the outputs of the other tasks are not loaded.
LoadSiblingsOwnOutput(w) ==
  /\ pc[w] = "loadSiblings"
  /\ LET t == job[w] IN
     \E r \in attemptRows :
       /\ r.task = t /\ r.attempt = view[w].attempt
       /\ view' = [view EXCEPT
            ![w].status = [status EXCEPT ![t] = view[w].status[t]],
            ![w].row = r.status]
  /\ pc' = [pc EXCEPT ![w] = "executing"]
  /\ UNCHANGED <<db, job, cancel, budget>>

\* ... then every task of the run, of which its own keeps the values loaded
\* before, and the attempt row.  The outputs become the task's context.
LoadSiblings(w) ==
  /\ pc[w] = "loadSiblings"
  /\ LET t == job[w] IN
     \E r \in attemptRows :
       /\ r.task = t /\ r.attempt = view[w].attempt
       /\ view' = [view EXCEPT
            ![w].status = [status EXCEPT ![t] = view[w].status[t]],
            ![w].outputs = (outputs \ {t}) \cup view[w].outputs,
            ![w].row = r.status]
  /\ pc' = [pc EXCEPT ![w] = "executing"]
  /\ UNCHANGED <<db, job, cancel, budget>>

\* The executor returned: the output, the status and the attempt row are
\* committed; advance_run follows in a transaction of its own.
Succeed(w) ==
  /\ pc[w] = "executing"
  /\ LET t == job[w]
         v == view[w]
         new == [v.status EXCEPT ![t] = "succeeded"]
     IN /\ status' = Flush(status, v.status, new)
        /\ outputs' = outputs \cup {t}
        /\ lease' = IF v.leased THEN [lease EXCEPT ![t] = "none"] ELSE lease
        /\ attemptRows' =
             SetRow(attemptRows, t, v.attempt, v.row, "succeeded")
        /\ view' = [view EXCEPT ![w].status = new,
                                ![w].outputs = @ \cup {t},
                                ![w].leased = FALSE,
                                ![w].row = "succeeded"]
  /\ pc' = [pc EXCEPT ![w] = "advancing"]
  /\ UNCHANGED <<runStatus, runOutput, attempt, available, deadLetters, job,
                 cancel, budget>>

\* The executor raised, or advance_run did: first the attempt row is
\* committed ...
Fail(w) ==
  /\ pc[w] \in {"executing", "raised"}
  /\ attemptRows' =
       SetRow(attemptRows, job[w], view[w].attempt, view[w].row, "failed")
  /\ view' = [view EXCEPT ![w].row = "failed"]
  /\ pc' = [pc EXCEPT ![w] = "failing"]
  /\ UNCHANGED <<runStatus, runOutput, status, attempt, outputs, lease,
                 available, deadLetters, job, cancel, budget>>

\* ... then retry_task commits a retry in the future, or the dead letter.
RetryTask(w) ==
  /\ pc[w] = "failing"
  /\ LET t == job[w]
         v == view[w]
         last == Exhausted(t, v.attempt)
         new == [v.status EXCEPT ![t] = IF last THEN "failed" ELSE "retrying"]
     IN /\ status' = Flush(status, v.status, new)
        /\ lease' = IF v.leased THEN [lease EXCEPT ![t] = "none"] ELSE lease
        /\ available' = IF last THEN available ELSE available \ {t}
        /\ deadLetters' = deadLetters \cup DeadLetter(t, v.attempt)
        /\ view' = [view EXCEPT ![w].status = new, ![w].leased = FALSE]
  /\ pc' = [pc EXCEPT ![w] = "advancing"]
  /\ UNCHANGED <<runStatus, runOutput, attempt, outputs, attemptRows, job,
                 cancel, budget>>

\* The commit of advance_run, in the session of process: what it decides on
\* is the view, loaded before the executor ran.
AdvanceCommit(w) ==
  LET v == view[w]
      new == Advanced(v.status)
      over == AllTerminal(new)
      verdict == Verdict(new, v.run)
  IN /\ over => ~RunRowLocked
     /\ status' = Flush(status, v.status, new)
     /\ runStatus' = IF over /\ verdict # v.run THEN verdict ELSE runStatus
     /\ runOutput' = IF over /\ verdict = "succeeded"
                          /\ v.outputs # v.runOutput
                     THEN v.outputs ELSE runOutput

AdvanceRun(w) ==
  /\ pc[w] = "advancing"
  /\ AdvanceCommit(w)
  /\ pc' = [pc EXCEPT ![w] = "idle"]
  /\ job' = [job EXCEPT ![w] = NoTask]
  /\ view' = [view EXCEPT ![w] = EmptyView]
  /\ UNCHANGED <<attempt, outputs, lease, available, attemptRows, deadLetters,
                 cancel, budget>>

\* After the commit, advance_run publishes the tasks it released.  That may
\* raise what publish_task does not catch, such as a name that does not
\* resolve: process takes it for a failure of the task that has succeeded.
\* (After a failure nothing catches it, and the worker dies: Crash.)
AdvanceRaises(w) ==
  /\ pc[w] = "advancing"
  /\ outages < MaxOutages
  /\ outages' = outages + 1
  /\ view[w].row = "succeeded"
  /\ Released(view[w].status) # {}
  /\ AdvanceCommit(w)
  /\ pc' = [pc EXCEPT ![w] = "raised"]
  /\ view' = [view EXCEPT ![w].status = Advanced(@)]
  /\ UNCHANGED <<attempt, outputs, lease, available, attemptRows, deadLetters,
                 job, cancel, crashes, lapses>>

-----------------------------------------------------------------------------
(* The environment: crashes and time                                       *)

\* The process dies: what it had not committed is rolled back.
Crash(w) ==
  /\ pc[w] # "down"
  /\ crashes < MaxCrashes
  /\ crashes' = crashes + 1
  /\ pc' = [pc EXCEPT ![w] = "down"]
  /\ job' = [job EXCEPT ![w] = NoTask]
  /\ view' = [view EXCEPT ![w] = EmptyView]
  /\ UNCHANGED <<db, cancel, lapses, outages>>

Restart(w) ==
  /\ pc[w] = "down"
  /\ pc' = [pc EXCEPT ![w] = "idle"]
  /\ UNCHANGED <<db, job, view, cancel, budget>>

\* lease_seconds pass over a running task nobody is at work on ...
LeaseExpires(t) ==
  /\ status[t] = "running" /\ lease[t] = "held"
  /\ Working(t) = {}
  /\ lease' = [lease EXCEPT ![t] = "lapsed"]
  /\ UNCHANGED <<runStatus, runOutput, status, attempt, outputs, available,
                 attemptRows, deadLetters, worker, cancel, budget>>

\* ... or over one whose execution takes longer: nothing renews a lease.
LeaseOutrun(t) ==
  /\ status[t] = "running" /\ lease[t] = "held"
  /\ Working(t) # {}
  /\ lapses < MaxLapses
  /\ lapses' = lapses + 1
  /\ lease' = [lease EXCEPT ![t] = "lapsed"]
  /\ UNCHANGED <<runStatus, runOutput, status, attempt, outputs, available,
                 attemptRows, deadLetters, worker, cancel, crashes,
                 outages>>

BackoffElapses(t) ==
  /\ t \in Tasks \ available
  /\ available' = available \cup {t}
  /\ UNCHANGED <<runStatus, runOutput, status, attempt, outputs, lease,
                 attemptRows, deadLetters, worker, cancel, budget>>

-----------------------------------------------------------------------------
(* POST /runs/{id}/cancel                                                  *)

\* The run row is read; anything but a pending or running run is refused.
CancelCheck(c) ==
  /\ stage[c] = "none"
  /\ runStatus = "running"
  /\ stage' = [stage EXCEPT ![c] = "checked"]
  /\ UNCHANGED <<db, worker, cview, budget>>

\* Selecting the tasks flushes the UPDATE of the run row, which stays locked.
CancelFlush(c) ==
  /\ stage[c] = "checked"
  /\ ~RunRowLocked
  /\ stage' = [stage EXCEPT ![c] = "flushed"]
  /\ cview' = [cview EXCEPT ![c] = status]
  /\ UNCHANGED <<db, worker, budget>>

\* The commit: every task seen unfinished is cancelled, its lease untouched.
CancelCommit(c) ==
  /\ stage[c] = "flushed"
  /\ runStatus' = "cancelled"
  /\ LET new == [t \in Tasks |-> IF cview[c][t] \in {"succeeded", "failed"}
                                 THEN cview[c][t] ELSE "cancelled"]
     IN status' = Flush(status, cview[c], new)
  /\ stage' = [stage EXCEPT ![c] = "done"]
  /\ cview' = [cview EXCEPT ![c] = EmptyView.status]
  /\ UNCHANGED <<runOutput, attempt, outputs, lease, available, attemptRows,
                 deadLetters, worker, budget>>

\* The API process dies before the commit and PostgreSQL rolls back; the
\* client may send the request again.
CancelDies(c) ==
  /\ stage[c] \in {"checked", "flushed"}
  /\ stage' = [stage EXCEPT ![c] = "none"]
  /\ cview' = [cview EXCEPT ![c] = EmptyView.status]
  /\ UNCHANGED <<db, worker, budget>>

-----------------------------------------------------------------------------
(* The specification                                                       *)

Proceed(w) == \/ LoadTask(w) \/ LoadRun(w) \/ LoadSiblings(w)
              \/ Succeed(w) \/ Fail(w) \/ RetryTask(w)
              \/ AdvanceRun(w) \/ AdvanceRaises(w)

Poll(w) == \E t \in Tasks : Claim(w, t)

Cancel(c) == CancelCheck(c) \/ CancelFlush(c) \/ CancelCommit(c)

Next ==
  \/ \E w \in Workers : Poll(w) \/ Proceed(w) \/ Crash(w) \/ Restart(w)
  \/ \E t \in Tasks : LeaseExpires(t) \/ LeaseOutrun(t) \/ BackoffElapses(t)
  \/ \E c \in Cancellers : Cancel(c) \/ CancelDies(c)

Spec == Init /\ [][Next]_vars

\* Every live worker keeps polling and finishes what it starts, time passes,
\* and a cancel request that was begun is carried through.  No crash, no
\* restart, no outrun lease and no cancel request has to happen.
Fairness ==
  /\ \A w \in Workers : WF_vars(Poll(w)) /\ WF_vars(Proceed(w))
  /\ \A t \in Tasks : WF_vars(LeaseExpires(t)) /\ WF_vars(BackoffElapses(t))
  /\ \A c \in Cancellers : WF_vars(CancelFlush(c)) /\ WF_vars(CancelCommit(c))

FairSpec == Spec /\ Fairness

-----------------------------------------------------------------------------
(* Safety in every environment: any crash, outrun lease or cancellation    *)

\* A task that was ever attempted, or that is anything but blocked or
\* cancelled, has the outputs of all its dependencies in the database: no
\* stale session of advance_run releases a task too early.
DependencySafety ==
  \A t \in Tasks :
    attempt[t] > 0 \/ status[t] \notin {"blocked", "cancelled"}
      => Deps[t] \subseteq outputs

\* The context process hands to an executor holds the outputs of all the
\* dependencies, although its session reads other rows later than its own.
ContextComplete ==
  \A w \in Workers :
    pc[w] = "executing" => Deps[job[w]] \subseteq view[w].outputs

\* A failed task has a dead letter written by an attempt that was its last
\* allowed one, and a failed run has a dead letter: retry_task's single
\* commit keeps them together however sessions overwrite each other.
FailureIsRecorded ==
  /\ \A t \in Tasks : status[t] = "failed" =>
       \E d \in deadLetters : d[1] = t /\ d[2] >= MaxAttempts[t]
  /\ runStatus = "failed" => deadLetters # {}

\* task_attempts has exactly one row for each attempt that was ever started:
\* no claim, not even one of a lapsed or released-again task, meets the
\* constraint uq_task_attempt.
AttemptLogComplete ==
  \A t \in Tasks :
    /\ {r.attempt : r \in {q \in attemptRows : q.task = t}} = 1 .. attempt[t]
    /\ \A q, r \in attemptRows :
         q.task = r.task /\ q.attempt = r.attempt => q = r

\* What the run promises (module DagExecution), implemented by the engine.
Abstract == INSTANCE DagExecution WITH attempts <- attempt,
                                       produced <- outputs,
                                       closed <- (runStatus # "running")
ImplementsDagExecution == Abstract!Spec

\* A run reported succeeded has the output of every task, in the task rows
\* and in the run row, whichever of several stale sessions closed it.  Only
\* a committed cancel request or a dead letter can make it otherwise: an
\* execution that outlives its lease may call a failed run succeeded.
SuccessIsComplete ==
  /\ runStatus = "succeeded"
  /\ deadLetters = {}
  /\ \A c \in Cancellers : stage[c] # "done"
  => outputs = Tasks /\ runOutput = Tasks

-----------------------------------------------------------------------------
(* Where leases are never outrun, and no task is released twice            *)

\* No lease ends under a live execution, and no publication raises.
Calm == MaxLapses = 0 /\ MaxOutages = 0

\* A task depends on all tasks of the level below its own, and otherwise on
\* tasks of lower levels only: a fan-in, a fan-out, a chain, a diamond.  While
\* such a task is released, nothing but its dependencies can be executed.
\* Elsewhere a session that still sees it blocked writes READY over RUNNING.
LayeredBy(level) ==
  \A t \in Tasks :
    /\ \A d \in Deps[t] : level[d] < level[t]
    /\ \A d \in Tasks : level[d] + 1 = level[t] => d \in Deps[t]
    /\ level[t] > 0 => \E d \in Tasks : level[d] + 1 = level[t]
Layered == \E level \in [Tasks -> 0 .. Cardinality(Tasks)] : LayeredBy(level)

\* At most one worker is at work on a task.
SingleOwner ==
  \A t \in Tasks : Cardinality(Working(t)) <= 1

\* The log tells the task's story: at most one attempt succeeded, it is the
\* last one, and a task that succeeded, failed or waits for a retry has its
\* last attempt recorded accordingly.
LogAgreesWithStatus ==
  \A r \in attemptRows :
    /\ r.attempt < attempt[r.task] => r.status # "succeeded"
    /\ r.attempt = attempt[r.task] =>
         CASE status[r.task] = "succeeded" -> r.status = "succeeded"
           [] status[r.task] \in {"failed", "retrying"} -> r.status = "failed"
           [] status[r.task] = "running" -> r.status # "succeeded"
           [] OTHER -> TRUE

\* A crash, and nothing else here, lets a task be attempted more often than
\* its retry policy allows, and each crash only once.
RetryBudget == \A t \in Tasks : attempt[t] <= MaxAttempts[t] + crashes

\* A terminal task and a closed run keep their status: no late session
\* takes a verdict back.
TerminalIsFinal ==
  [][/\ \A t \in Tasks : status[t] \in Terminal => status'[t] = status[t]
     /\ runStatus # "running" => runStatus' = runStatus]_vars

\* Who looks at the tables alone cannot tell the workers, their sessions and
\* their leases from a scheduler that decides on the tables (module
\* Scheduler): what stale sessions write, it would write too.
Sched == INSTANCE Scheduler WITH attempts <- attempt, run <- runStatus
ImplementsScheduler == Sched!Spec

-----------------------------------------------------------------------------
(* Cancellation                                                            *)

\* A cancelled run stays cancelled, whoever is still executing its tasks.
CancelledIsFinal == [][runStatus = "cancelled" => runStatus' = "cancelled"]_vars

-----------------------------------------------------------------------------
(* Liveness                                                                *)

\* Unless a task fails for good, every task succeeds and so does the run.
SucceedsUnlessDeadLettered ==
  <>(deadLetters # {} \/ runStatus = "succeeded")

\* As long as no worker crashes and one task at a time is worked on, by
\* whichever worker, the run ends: with success, or because a task has used
\* up its attempts.  Sessions are never stale then.  (No task may depend on
\* a task that has dependencies itself: a failure cancels one level only.)
OneAtATime == /\ crashes = 0
              /\ \A u, w \in Workers : pc[u] # "idle" /\ pc[w] # "idle" => u = w
SequentialRunEnds ==
  []OneAtATime => <>\/ runStatus = "succeeded"
                    \/ runStatus = "failed" /\ deadLetters # {}

\* A task abandoned by a crashed worker is attempted again as long as one
\* other worker lives; the crashed one need not come back.
Orphaned(t) == status[t] = "running" /\ Working(t) = {}
OrphanIsReclaimed ==
  \A t \in Tasks : Orphaned(t) ~> \/ Working(t) # {}
                                  \/ runStatus # "running"
                                  \/ \A w \in Workers : pc[w] = "down"
=============================================================================
