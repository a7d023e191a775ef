------------------------- MODULE TaskEngine_proofs --------------------------
(***************************************************************************)
(* Theorems about TaskEngine, for every workflow, every number of workers  *)
(* and of cancel requests, and every bound on crashes and outrun leases:   *)
(* types, then dependencies, then what is recorded (failures leave a dead  *)
(* letter, the engine implements DagExecution, a reported success is       *)
(* complete, the attempt log is exact).  The last sections are about runs  *)
(* in which no lease is outrun and no publication raises, for every        *)
(* workflow in layers: one owner per task, an honest log, bounded retries, *)
(* final verdicts, and the tables as a scheduler without sessions and      *)
(* leases would leave them (module Scheduler).                             *)
(***************************************************************************)
EXTENDS TaskEngine, FiniteSetTheorems, TLAPS

-----------------------------------------------------------------------------
(* Lemmas about the operators                                              *)

Statuses == [Tasks -> TaskStatus]

\* A flush and advance_run's pass turn task statuses into task statuses.
LEMMA FlushType ==
  ASSUME NEW cur \in Statuses, NEW loaded \in Statuses, NEW new \in Statuses
  PROVE  Flush(cur, loaded, new) \in Statuses
  BY DEF Flush, Statuses

LEMMA AdvancedType ==
  ASSUME NEW st \in Statuses
  PROVE  Advanced(st) \in Statuses
  BY DEF Advanced, Statuses, TaskStatus

\* A session that has loaded nothing is a session.
LEMMA EmptyViewType == EmptyView \in View
  BY DEF EmptyView, View, TaskStatus, RowStatus, RunStatus

\* advance_run never gives a run the status running.
LEMMA VerdictType ==
  ASSUME NEW st, NEW run
  PROVE  Verdict(st, run) \in RunStatus \ {"running"}
  BY DEF Verdict, RunStatus

\* A flush writes only what the session changed.
LEMMA FlushWrites ==
  ASSUME NEW cur \in Statuses, NEW loaded, NEW new, NEW t \in Tasks
  PROVE  /\ new[t] = loaded[t] => Flush(cur, loaded, new)[t] = cur[t]
         /\ new[t] # loaded[t] => Flush(cur, loaded, new)[t] = new[t]
  BY DEF Flush

\* Changing one column of a row flushes at most that row.
LEMMA FlushOne ==
  ASSUME NEW cur \in Statuses, NEW loaded \in Statuses,
         NEW u \in Tasks, NEW s \in TaskStatus, NEW t \in Tasks
  PROVE  LET f == Flush(cur, loaded, [loaded EXCEPT ![u] = s])
         IN  \/ f[t] = cur[t]
             \/ t = u /\ f[t] = s
  BY DEF Flush, Statuses

\* What advance_run changes: a blocked task is cancelled on account of a
\* dependency, or made ready when all of them have succeeded.
LEMMA AdvancedWrites ==
  ASSUME NEW st \in Statuses, NEW t \in Tasks, Advanced(st)[t] # st[t]
  PROVE  \/ Advanced(st)[t] = "cancelled" /\ t \in Doomed(st)
         \/ Advanced(st)[t] = "ready" /\ t \in Released(st)
  BY DEF Advanced

\* It makes no task succeeded or failed.
LEMMA AdvancedKeeps ==
  ASSUME NEW st \in Statuses, NEW t \in Tasks,
         Advanced(st)[t] \in {"succeeded", "failed"}
  PROVE  st[t] = Advanced(st)[t]
  BY DEF Advanced

\* A flush of an attempt row keeps the log a set of attempt rows.
LEMMA SetRowType ==
  ASSUME NEW rows \in SUBSET [task : Tasks, attempt : Nat, status : RowStatus],
         NEW t \in Tasks, NEW n \in Nat, NEW loaded, NEW new \in RowStatus
  PROVE  SetRow(rows, t, n, loaded, new)
           \subseteq [task : Tasks, attempt : Nat, status : RowStatus]
  BY DEF SetRow

-----------------------------------------------------------------------------
(* Type correctness                                                        *)

\* The database, every session and every handler's position keep their types.
THEOREM TypeCorrect == Spec => []TypeOK
<1>1. Init => TypeOK
  <2> SUFFICES ASSUME Init PROVE TypeOK
    OBVIOUS
  <2>1. EmptyView \in View
    BY EmptyViewType
  <2>2. DatabaseOK
    BY EngineAssumption DEF Init, DatabaseOK, RunStatus, TaskStatus
  <2>3. WorkersOK
    BY <2>1, EngineAssumption DEF Init, WorkersOK, Positions, Executing
  <2>4. RequestsOK
    BY EngineAssumption DEF Init, RequestsOK, EmptyView, TaskStatus
  <2> QED
    BY <2>2, <2>3, <2>4 DEF TypeOK
<1>2. TypeOK /\ [Next]_vars => TypeOK'
  <2> SUFFICES ASSUME TypeOK, [Next]_vars PROVE TypeOK'
    OBVIOUS
  <2> USE DEF TypeOK
  <2>1. ASSUME NEW w \in Workers, NEW t \in Tasks, Claim(w, t) PROVE TypeOK'
    <3>1. DatabaseOK'
      BY <2>1 DEF DatabaseOK, Claim, NextAttempt, TaskStatus, RowStatus
    <3>2. WorkersOK'
      BY <2>1, EngineAssumption DEF WorkersOK, Claim, Positions, Executing
    <3> QED
      BY <2>1, <3>1, <3>2 DEF Claim, RequestsOK, cancel, budget
  <2>2. ASSUME NEW w \in Workers, LoadTask(w) PROVE TypeOK'
    <3>1. job[w] \in Tasks /\ view[w] \in View
      BY <2>2 DEF LoadTask, WorkersOK
    <3>2. view' \in [Workers -> View]
      <4>1. [view[w].status EXCEPT ![job[w]] = status[job[w]]] \in Statuses
        BY <3>1 DEF View, DatabaseOK, Statuses
      <4>2. /\ outputs \cap {job[w]} \in SUBSET Tasks
            /\ attempt[job[w]] \in Nat
            /\ (lease[job[w]] # "none") \in BOOLEAN
        BY <3>1 DEF DatabaseOK
      <4>3. view'[w] = [view[w] EXCEPT
                          !.status = [@ EXCEPT ![job[w]] = status[job[w]]],
                          !.outputs = outputs \cap {job[w]},
                          !.attempt = attempt[job[w]],
                          !.leased = (lease[job[w]] # "none")]
        BY <2>2, <3>1 DEF LoadTask, WorkersOK
      <4>4. view'[w] \in View
        BY <3>1, <4>1, <4>2, <4>3 DEF View, Statuses
      <4>5. view' = [view EXCEPT ![w] = view'[w]]
        BY <2>2 DEF LoadTask, WorkersOK
      <4> QED
        BY <4>4, <4>5 DEF WorkersOK
    <3>3. WorkersOK'
      BY <2>2, <3>1, <3>2 DEF LoadTask, WorkersOK, Positions, Executing
    <3> QED
      BY <2>2, <3>3 DEF LoadTask, DatabaseOK, RequestsOK, db, cancel, budget
  <2>3. ASSUME NEW w \in Workers, LoadRun(w) PROVE TypeOK'
    <3> view[w] \in View
      BY DEF WorkersOK
    <3>1. view' \in [Workers -> View]
      BY <2>3 DEF LoadRun, View, WorkersOK, DatabaseOK
    <3>2. WorkersOK'
      BY <2>3, <3>1 DEF LoadRun, WorkersOK, Positions, Executing
    <3> QED
      BY <2>3, <3>2 DEF LoadRun, DatabaseOK, RequestsOK, db, cancel, budget
  <2>4. ASSUME NEW w \in Workers, LoadSiblings(w) PROVE TypeOK'
    <3>1. job[w] \in Tasks /\ view[w] \in View
      BY <2>4 DEF LoadSiblings, WorkersOK
    <3>2. view' \in [Workers -> View]
      <4>1. [status EXCEPT ![job[w]] = view[w].status[job[w]]] \in Statuses
        BY <3>1 DEF View, DatabaseOK, Statuses
      <4>2. (outputs \ {job[w]}) \cup view[w].outputs \in SUBSET Tasks
        BY <3>1 DEF DatabaseOK, View
      <4>3. PICK r \in attemptRows :
              view' = [view EXCEPT
                ![w].status = [status EXCEPT ![job[w]] = view[w].status[job[w]]],
                ![w].outputs = (outputs \ {job[w]}) \cup view[w].outputs,
                ![w].row = r.status]
        BY <2>4 DEF LoadSiblings
      <4>4. r.status \in RowStatus
        BY DEF DatabaseOK
      <4> QED
        BY <3>1, <4>1, <4>2, <4>3, <4>4 DEF View, WorkersOK, Statuses
    <3>3. WorkersOK'
      BY <2>4, <3>1, <3>2 DEF LoadSiblings, WorkersOK, Positions, Executing
    <3> QED
      BY <2>4, <3>3 DEF LoadSiblings, DatabaseOK, RequestsOK, db, cancel, budget
  <2>5. ASSUME NEW w \in Workers, Succeed(w) PROVE TypeOK'
    <3>1. job[w] \in Tasks /\ view[w] \in View
      BY <2>5 DEF Succeed, WorkersOK
    <3>2. [view[w].status EXCEPT ![job[w]] = "succeeded"] \in Statuses
      BY <3>1 DEF View, Statuses, TaskStatus
    <3>3. status' \in Statuses
      BY <2>5, <3>1, <3>2, FlushType DEF Succeed, View, DatabaseOK, Statuses
    <3>4. attemptRows' \subseteq [task : Tasks, attempt : Nat, status : RowStatus]
      BY <2>5, <3>1, SetRowType DEF Succeed, View, DatabaseOK, RowStatus
    <3>5. DatabaseOK'
      BY <2>5, <3>1, <3>3, <3>4 DEF Succeed, DatabaseOK, Statuses
    <3>6. view' \in [Workers -> View]
      <4>1. view'[w] = [view[w] EXCEPT
                          !.status = [@ EXCEPT ![job[w]] = "succeeded"],
                          !.outputs = @ \cup {job[w]},
                          !.leased = FALSE,
                          !.row = "succeeded"]
        BY <2>5 DEF Succeed, WorkersOK
      <4>2. view'[w] \in View
        <5>1. view[w].outputs \cup {job[w]} \in SUBSET Tasks
          BY <3>1 DEF View
        <5>2. "succeeded" \in RowStatus
          BY DEF RowStatus
        <5> QED
          BY <3>1, <3>2, <4>1, <5>1, <5>2 DEF View, Statuses
      <4>3. view' = [view EXCEPT ![w] = view'[w]]
        BY <2>5 DEF Succeed, WorkersOK
      <4> QED
        BY <4>2, <4>3 DEF WorkersOK
    <3>7. WorkersOK'
      BY <2>5, <3>1, <3>6 DEF Succeed, WorkersOK, Positions, Executing
    <3> QED
      BY <2>5, <3>5, <3>7 DEF Succeed, RequestsOK, cancel, budget
  <2>6. ASSUME NEW w \in Workers, Fail(w) PROVE TypeOK'
    <3>1. job[w] \in Tasks /\ view[w] \in View
      BY <2>6 DEF Fail, WorkersOK
    <3>2. attemptRows' \subseteq [task : Tasks, attempt : Nat, status : RowStatus]
      BY <2>6, <3>1, SetRowType DEF Fail, View, DatabaseOK, RowStatus
    <3>3. view' \in [Workers -> View]
      BY <2>6, <3>1 DEF Fail, View, WorkersOK, RowStatus
    <3>4. WorkersOK'
      BY <2>6, <3>1, <3>3 DEF Fail, WorkersOK, Positions, Executing
    <3> QED
      BY <2>6, <3>2, <3>4 DEF Fail, DatabaseOK, RequestsOK, cancel, budget
  <2>7. ASSUME NEW w \in Workers, RetryTask(w) PROVE TypeOK'
    <3>1. job[w] \in Tasks /\ view[w] \in View
      BY <2>7 DEF RetryTask, WorkersOK
    <3> DEFINE last == Exhausted(job[w], view[w].attempt)
               new == [view[w].status EXCEPT
                         ![job[w]] = IF last THEN "failed" ELSE "retrying"]
    <3>2. new \in Statuses
      BY <3>1 DEF View, Statuses, TaskStatus
    <3>3. status' \in Statuses
      BY <2>7, <3>1, <3>2, FlushType DEF RetryTask, View, DatabaseOK, Statuses
    <3>4. DatabaseOK'
      BY <2>7, <3>1, <3>3
         DEF RetryTask, DatabaseOK, Statuses, DeadLetter, View
    <3>5. view' \in [Workers -> View]
      BY <2>7, <3>1, <3>2 DEF RetryTask, View, WorkersOK, Statuses
    <3>6. WorkersOK'
      BY <2>7, <3>1, <3>5 DEF RetryTask, WorkersOK, Positions, Executing
    <3> QED
      BY <2>7, <3>4, <3>6 DEF RetryTask, RequestsOK, cancel, budget
  <2>8. ASSUME NEW w \in Workers, AdvanceRun(w) \/ AdvanceRaises(w) PROVE TypeOK'
    <3>1. view[w] \in View /\ view[w].status \in Statuses
      BY DEF WorkersOK, View, Statuses
    <3>2. AdvanceCommit(w)
      BY <2>8 DEF AdvanceRun, AdvanceRaises
    <3>3. status' \in Statuses
      BY <3>1, <3>2, FlushType, AdvancedType DEF AdvanceCommit, DatabaseOK, Statuses
    <3>4. runStatus' \in RunStatus /\ runOutput' \subseteq Tasks
      BY <3>1, <3>2, VerdictType DEF AdvanceCommit, DatabaseOK, View
    <3>5. DatabaseOK'
      BY <2>8, <3>3, <3>4 DEF AdvanceRun, AdvanceRaises, DatabaseOK, Statuses
    <3>6. CASE AdvanceRun(w)
      <4>1. WorkersOK'
        BY <3>6, EmptyViewType DEF AdvanceRun, WorkersOK, Positions, Executing
      <4> QED
        BY <3>5, <3>6, <4>1 DEF AdvanceRun, RequestsOK, cancel, budget
    <3>7. CASE AdvanceRaises(w)
      <4>1. Advanced(view[w].status) \in Statuses
        BY <3>1, AdvancedType
      <4>2. view' \in [Workers -> View]
        BY <3>1, <3>7, <4>1 DEF AdvanceRaises, View, WorkersOK, Statuses
      <4>3. WorkersOK'
        BY <3>7, <4>2 DEF AdvanceRaises, WorkersOK, Positions, Executing
      <4>4. RequestsOK'
        BY <3>7, EngineAssumption DEF AdvanceRaises, RequestsOK, cancel
      <4> QED
        BY <3>5, <4>3, <4>4
    <3> QED
      BY <2>8, <3>6, <3>7
  <2>9. ASSUME NEW w \in Workers, Crash(w) \/ Restart(w) PROVE TypeOK'
    <3>1. WorkersOK'
      BY <2>9, EmptyViewType DEF Crash, Restart, WorkersOK, Positions
    <3>2. RequestsOK'
      BY <2>9, EngineAssumption DEF Crash, Restart, RequestsOK, cancel, budget
    <3> QED
      BY <2>9, <3>1, <3>2 DEF Crash, Restart, DatabaseOK, db
  <2>10. ASSUME NEW t \in Tasks, LeaseExpires(t) \/ LeaseOutrun(t) \/ BackoffElapses(t)
         PROVE TypeOK'
    <3>1. DatabaseOK'
      BY <2>10 DEF LeaseExpires, LeaseOutrun, BackoffElapses, DatabaseOK
    <3>2. RequestsOK'
      BY <2>10, EngineAssumption
         DEF LeaseExpires, LeaseOutrun, BackoffElapses, RequestsOK, cancel, budget
    <3> QED
      BY <2>10, <3>1, <3>2
         DEF LeaseExpires, LeaseOutrun, BackoffElapses, WorkersOK, worker
  <2>11. ASSUME NEW c \in Cancellers, Cancel(c) \/ CancelDies(c) PROVE TypeOK'
    <3> USE <2>11 DEF Cancel
    <3>1. RequestsOK'
      <4>1. EmptyView.status \in [Tasks -> TaskStatus]
        BY DEF EmptyView, TaskStatus
      <4>2. CASE CancelCheck(c)
        BY <4>2 DEF CancelCheck, RequestsOK, budget
      <4>3. CASE CancelFlush(c)
        BY <4>3 DEF CancelFlush, RequestsOK, DatabaseOK, budget
      <4>4. CASE CancelCommit(c)
        BY <4>1, <4>4 DEF CancelCommit, RequestsOK, budget
      <4>5. CASE CancelDies(c)
        BY <4>1, <4>5 DEF CancelDies, RequestsOK, budget
      <4> QED
        BY <4>2, <4>3, <4>4, <4>5
    <3>2. CASE CancelCommit(c)
      <4> DEFINE new == [t \in Tasks |->
                           IF cview[c][t] \in {"succeeded", "failed"}
                           THEN cview[c][t] ELSE "cancelled"]
      <4>1. new \in Statuses /\ cview[c] \in Statuses
        BY DEF RequestsOK, Statuses, TaskStatus
      <4>2. status' \in Statuses
        BY <3>2, <4>1, FlushType DEF CancelCommit, DatabaseOK, Statuses
      <4> QED
        BY <3>1, <3>2, <4>2
           DEF CancelCommit, DatabaseOK, WorkersOK, worker, Statuses, RunStatus
    <3> QED
      BY <3>1, <3>2 DEF CancelCheck, CancelFlush, CancelDies, DatabaseOK, WorkersOK,
                        db, worker
  <2>12. CASE UNCHANGED vars
    BY <2>12 DEF vars, db, worker, cancel, budget, DatabaseOK, WorkersOK, RequestsOK
  <2> QED
    BY <2>1, <2>2, <2>3, <2>4, <2>5, <2>6, <2>7, <2>8, <2>9, <2>10, <2>11,
       <2>12 DEF Next, Poll, Proceed
<1> QED
  BY <1>1, <1>2, PTL DEF Spec

-----------------------------------------------------------------------------
(* What the steps of process read and write                                *)

Untouched(w) ==
  \A x \in Workers \ {w} : view'[x] = view[x] /\ pc'[x] = pc[x] /\ job'[x] = job[x]

LoadTaskEffect(w) ==
  /\ job[w] \in Tasks /\ job' = job /\ UNCHANGED <<db, cancel>>
  /\ \A t \in Tasks : view'[w].status[t] = IF t = job[w] THEN status[t]
                                          ELSE view[w].status[t]
  /\ view'[w].outputs = outputs \cap {job[w]}
  /\ view'[w].attempt = attempt[job[w]]
  /\ view'[w].run = view[w].run
  /\ view'[w].runOutput = view[w].runOutput
  /\ Untouched(w)
  /\ pc'[w] = "loadRun"

\* LoadTask touches its own session only.
LEMMA LoadTaskReads ==
  ASSUME TypeOK, NEW w \in Workers, LoadTask(w)
  PROVE  LoadTaskEffect(w)
<1>1. job[w] \in Tasks /\ view[w] \in View
  BY DEF LoadTask, TypeOK, WorkersOK
<1>2. view'[w] = [view[w] EXCEPT
                    !.status = [@ EXCEPT ![job[w]] = status[job[w]]],
                    !.outputs = outputs \cap {job[w]},
                    !.attempt = attempt[job[w]],
                    !.leased = (lease[job[w]] # "none")]
  BY <1>1 DEF LoadTask, TypeOK, WorkersOK
<1>3. /\ \A t \in Tasks : view'[w].status[t] = IF t = job[w] THEN status[t]
                                              ELSE view[w].status[t]
      /\ view'[w].outputs = outputs \cap {job[w]}
      /\ view'[w].attempt = attempt[job[w]]
      /\ view'[w].run = view[w].run
      /\ view'[w].runOutput = view[w].runOutput
  BY <1>1, <1>2 DEF View
<1>4. Untouched(w) /\ pc'[w] = "loadRun" /\ job' = job /\ UNCHANGED <<db, cancel>>
  BY DEF LoadTask, Untouched, TypeOK, WorkersOK
<1> QED
  BY <1>1, <1>3, <1>4 DEF LoadTaskEffect

LoadRunEffect(w) ==
  /\ job[w] \in Tasks /\ job' = job /\ UNCHANGED <<db, cancel>>
  /\ view'[w].status = view[w].status
  /\ view'[w].outputs = view[w].outputs
  /\ view'[w].attempt = view[w].attempt
  /\ view'[w].run = runStatus
  /\ view'[w].runOutput = runOutput
  /\ Untouched(w)
  /\ pc'[w] = "loadSiblings"

\* LoadRun touches its own session only.
LEMMA LoadRunReads ==
  ASSUME TypeOK, NEW w \in Workers, LoadRun(w)
  PROVE  LoadRunEffect(w)
  BY DEF LoadRunEffect, Untouched, LoadRun, TypeOK, WorkersOK, View, db

LoadSiblingsEffect(w) ==
  /\ job[w] \in Tasks /\ job' = job /\ UNCHANGED <<db, cancel>>
  /\ \A t \in Tasks : view'[w].status[t] = IF t = job[w] THEN view[w].status[t]
                                          ELSE status[t]
  /\ view'[w].outputs = (outputs \ {job[w]}) \cup view[w].outputs
  /\ view'[w].attempt = view[w].attempt
  /\ view'[w].run = view[w].run
  /\ view'[w].runOutput = view[w].runOutput
  /\ Untouched(w)
  /\ pc'[w] = "executing"

\* LoadSiblings touches its own session only.
LEMMA LoadSiblingsReads ==
  ASSUME TypeOK, NEW w \in Workers, LoadSiblings(w)
  PROVE  LoadSiblingsEffect(w)
  BY DEF LoadSiblingsEffect, Untouched, LoadSiblings, TypeOK, DatabaseOK, WorkersOK,
         View, db

FailEffect(w) ==
  /\ job[w] \in Tasks /\ job' = job
  /\ UNCHANGED <<runStatus, runOutput, status, attempt, outputs, deadLetters, cancel>>
  /\ view'[w].status = view[w].status
  /\ view'[w].outputs = view[w].outputs
  /\ view'[w].attempt = view[w].attempt
  /\ view'[w].run = view[w].run
  /\ view'[w].runOutput = view[w].runOutput
  /\ Untouched(w)
  /\ pc'[w] = "failing"

\* Apart from the attempt row, Fail changes nothing.
LEMMA FailWrites ==
  ASSUME TypeOK, NEW w \in Workers, Fail(w)
  PROVE  FailEffect(w)
  BY DEF FailEffect, Untouched, Fail, TypeOK, WorkersOK, View

SucceedEffect(w) ==
  /\ job[w] \in Tasks /\ job' = job
  /\ UNCHANGED <<runStatus, runOutput, attempt, deadLetters, cancel>>
  /\ \A t \in Tasks : \/ status'[t] = status[t]
                      \/ t = job[w] /\ status'[t] = "succeeded"
  /\ outputs' = outputs \cup {job[w]}
  /\ \A t \in Tasks : view'[w].status[t] = IF t = job[w] THEN "succeeded"
                                          ELSE view[w].status[t]
  /\ view'[w].outputs = view[w].outputs \cup {job[w]}
  /\ view'[w].attempt = view[w].attempt
  /\ view'[w].run = view[w].run
  /\ view'[w].runOutput = view[w].runOutput
  /\ Untouched(w)
  /\ pc'[w] = "advancing"

\* Of the statuses, Succeed writes its own task's at most.
LEMMA SucceedWrites ==
  ASSUME TypeOK, NEW w \in Workers, Succeed(w)
  PROVE  SucceedEffect(w)
<1>1. /\ job[w] \in Tasks /\ view[w] \in View
      /\ status \in Statuses /\ view[w].status \in Statuses
      /\ "succeeded" \in TaskStatus
  BY DEF Succeed, TypeOK, DatabaseOK, WorkersOK, View, Statuses, TaskStatus
<1>2. status' = Flush(status, view[w].status,
                      [view[w].status EXCEPT ![job[w]] = "succeeded"])
  BY DEF Succeed
<1>3. \A t \in Tasks : \/ status'[t] = status[t]
                       \/ t = job[w] /\ status'[t] = "succeeded"
  BY <1>1, <1>2, FlushOne
<1>4. /\ Untouched(w) /\ pc'[w] = "advancing" /\ job' = job
      /\ outputs' = outputs \cup {job[w]}
      /\ UNCHANGED <<runStatus, runOutput, attempt, deadLetters, cancel>>
  BY DEF Succeed, Untouched, TypeOK, WorkersOK
<1>5. view'[w] = [view[w] EXCEPT !.status = [@ EXCEPT ![job[w]] = "succeeded"],
                                 !.outputs = @ \cup {job[w]},
                                 !.leased = FALSE,
                                 !.row = "succeeded"]
  BY DEF Succeed, TypeOK, WorkersOK
<1>6. /\ \A t \in Tasks : view'[w].status[t] = IF t = job[w] THEN "succeeded"
                                              ELSE view[w].status[t]
      /\ view'[w].outputs = view[w].outputs \cup {job[w]}
      /\ view'[w].attempt = view[w].attempt
      /\ view'[w].run = view[w].run
      /\ view'[w].runOutput = view[w].runOutput
  BY <1>1, <1>5 DEF View, Statuses
<1> QED
  BY <1>1, <1>3, <1>4, <1>6 DEF SucceedEffect

\* The status retry_task gives the task.
RetryStatus(w) ==
  IF Exhausted(job[w], view[w].attempt) THEN "failed" ELSE "retrying"

RetryEffect(w) ==
  /\ job[w] \in Tasks /\ job' = job /\ view[w].attempt \in Nat
  /\ UNCHANGED <<runStatus, runOutput, attempt, outputs, cancel>>
  /\ \A t \in Tasks : \/ status'[t] = status[t]
                      \/ t = job[w] /\ status'[t] = RetryStatus(w)
  /\ deadLetters' = deadLetters \cup DeadLetter(job[w], view[w].attempt)
  /\ \A t \in Tasks : view'[w].status[t] = IF t = job[w] THEN RetryStatus(w)
                                          ELSE view[w].status[t]
  /\ view'[w].outputs = view[w].outputs
  /\ view'[w].attempt = view[w].attempt
  /\ view'[w].run = view[w].run
  /\ view'[w].runOutput = view[w].runOutput
  /\ Untouched(w)
  /\ pc'[w] = "advancing"

\* Of the statuses, RetryTask writes its own task's at most.
LEMMA RetryWrites ==
  ASSUME TypeOK, NEW w \in Workers, RetryTask(w)
  PROVE  RetryEffect(w)
<1>1. /\ job[w] \in Tasks /\ view[w] \in View /\ view[w].attempt \in Nat
      /\ status \in Statuses /\ view[w].status \in Statuses
      /\ RetryStatus(w) \in TaskStatus
  BY DEF RetryTask, RetryStatus, TypeOK, DatabaseOK, WorkersOK, View, Statuses,
         TaskStatus
<1>2. status' = Flush(status, view[w].status,
                      [view[w].status EXCEPT ![job[w]] = RetryStatus(w)])
  BY DEF RetryTask, RetryStatus
<1>3. \A t \in Tasks : \/ status'[t] = status[t]
                       \/ t = job[w] /\ status'[t] = RetryStatus(w)
  BY <1>1, <1>2, FlushOne
<1>4. /\ Untouched(w) /\ pc'[w] = "advancing" /\ job' = job
      /\ deadLetters' = deadLetters \cup DeadLetter(job[w], view[w].attempt)
      /\ UNCHANGED <<runStatus, runOutput, attempt, outputs, cancel>>
  BY DEF RetryTask, Untouched, TypeOK, WorkersOK
<1>5. view'[w] = [view[w] EXCEPT !.status = [@ EXCEPT ![job[w]] = RetryStatus(w)],
                                 !.leased = FALSE]
  BY DEF RetryTask, RetryStatus, TypeOK, WorkersOK
<1>6. /\ \A t \in Tasks : view'[w].status[t] = IF t = job[w] THEN RetryStatus(w)
                                              ELSE view[w].status[t]
      /\ view'[w].outputs = view[w].outputs
      /\ view'[w].attempt = view[w].attempt
      /\ view'[w].run = view[w].run
      /\ view'[w].runOutput = view[w].runOutput
  BY <1>1, <1>5 DEF View, Statuses
<1> QED
  BY <1>1, <1>3, <1>4, <1>6 DEF RetryEffect

AdvanceEffect(w) ==
  /\ view[w].status \in Statuses
  /\ UNCHANGED <<attempt, outputs, deadLetters, cancel>>
  /\ \A t \in Tasks : \/ status'[t] = status[t]
                      \/ status'[t] = "cancelled" /\ t \in Doomed(view[w].status)
                      \/ status'[t] = "ready" /\ t \in Released(view[w].status)
  /\ \/ runStatus' = runStatus
     \/ /\ AllTerminal(Advanced(view[w].status))
        /\ runStatus' = Verdict(Advanced(view[w].status), view[w].run)
        /\ runStatus' = "succeeded" =>
             \/ runOutput' = view[w].outputs
             \/ runOutput' = runOutput /\ view[w].outputs = view[w].runOutput
  /\ \/ runOutput' = runOutput
     \/ /\ AllTerminal(Advanced(view[w].status))
        /\ Verdict(Advanced(view[w].status), view[w].run) = "succeeded"
        /\ runOutput' = view[w].outputs
  /\ Untouched(w)
  /\ \/ pc'[w] = "idle" /\ job'[w] = NoTask /\ view'[w] = EmptyView
     \/ /\ pc'[w] = "raised" /\ job'[w] = job[w] /\ job[w] \in Tasks
        /\ view'[w].status = Advanced(view[w].status)
        /\ view'[w].outputs = view[w].outputs
        /\ view'[w].attempt = view[w].attempt
        /\ view'[w].run = view[w].run
        /\ view'[w].runOutput = view[w].runOutput

\* What advance_run can do to tasks and run, and on what grounds.
LEMMA AdvanceWrites ==
  ASSUME TypeOK, NEW w \in Workers, AdvanceRun(w) \/ AdvanceRaises(w)
  PROVE  AdvanceEffect(w)
<1>1. view[w].status \in Statuses /\ Advanced(view[w].status) \in Statuses
  BY AdvancedType DEF TypeOK, WorkersOK, View, Statuses
<1>2. AdvanceCommit(w)
  BY DEF AdvanceRun, AdvanceRaises
<1>3. /\ status \in Statuses
      /\ status' = Flush(status, view[w].status, Advanced(view[w].status))
  BY <1>2 DEF AdvanceCommit, TypeOK, DatabaseOK, Statuses
<1>4. \A t \in Tasks : \/ status'[t] = status[t]
                       \/ status'[t] = "cancelled" /\ t \in Doomed(view[w].status)
                       \/ status'[t] = "ready" /\ t \in Released(view[w].status)
  BY <1>1, <1>3, FlushWrites, AdvancedWrites
<1>5. Untouched(w) /\ UNCHANGED <<attempt, outputs, deadLetters, cancel>>
  BY DEF AdvanceRun, AdvanceRaises, Untouched, TypeOK, WorkersOK
<1>6. /\ \/ runStatus' = runStatus
         \/ /\ AllTerminal(Advanced(view[w].status))
            /\ runStatus' = Verdict(Advanced(view[w].status), view[w].run)
            /\ runStatus' = "succeeded" =>
                 \/ runOutput' = view[w].outputs
                 \/ runOutput' = runOutput /\ view[w].outputs = view[w].runOutput
      /\ \/ runOutput' = runOutput
         \/ /\ AllTerminal(Advanced(view[w].status))
            /\ Verdict(Advanced(view[w].status), view[w].run) = "succeeded"
            /\ runOutput' = view[w].outputs
  BY <1>2 DEF AdvanceCommit
<1>7. CASE AdvanceRun(w)
  <2>1. pc'[w] = "idle" /\ job'[w] = NoTask /\ view'[w] = EmptyView
    BY <1>7 DEF AdvanceRun, TypeOK, WorkersOK
  <2> QED
    BY <1>1, <1>4, <1>5, <1>6, <2>1 DEF AdvanceEffect
<1>8. CASE AdvanceRaises(w)
  <2>1. /\ view[w] \in View
        /\ view'[w] = [view[w] EXCEPT !.status = Advanced(@)]
    BY <1>8 DEF AdvanceRaises, TypeOK, WorkersOK
  <2>2. pc'[w] = "raised" /\ job'[w] = job[w] /\ job[w] \in Tasks
    BY <1>8 DEF AdvanceRaises, TypeOK, WorkersOK
  <2>3. /\ view'[w].status = Advanced(view[w].status)
        /\ view'[w].outputs = view[w].outputs
        /\ view'[w].attempt = view[w].attempt
        /\ view'[w].run = view[w].run
        /\ view'[w].runOutput = view[w].runOutput
    BY <2>1 DEF View
  <2> QED
    BY <1>1, <1>4, <1>5, <1>6, <2>2, <2>3 DEF AdvanceEffect
<1> QED
  BY <1>7, <1>8

CrashEffect(w) ==
  /\ UNCHANGED <<db, cancel>>
  /\ \A x \in Workers :
       \/ pc'[x] = pc[x] /\ job'[x] = job[x] /\ view'[x] = view[x]
       \/ /\ pc'[x] \in {"idle", "down"}
          /\ view'[x] \in {view[x], EmptyView} /\ job'[x] = NoTask

\* A crash and a restart leave the database alone.
LEMMA CrashWrites ==
  ASSUME TypeOK, NEW w \in Workers, Crash(w) \/ Restart(w)
  PROVE  CrashEffect(w)
  BY DEF CrashEffect, Crash, Restart, TypeOK, WorkersOK, cancel

CancelEffect(c) ==
  /\ UNCHANGED <<worker, budget, runOutput, attempt, outputs, lease, available,
                 attemptRows, deadLetters>>
  /\ \A t \in Tasks : status'[t] \in {status[t], "cancelled"}
  /\ runStatus' \in {runStatus, "cancelled"}
  /\ \A x \in Cancellers \ {c} : stage'[x] = stage[x]
  /\ \/ stage'[c] = "done"
     \/ stage[c] # "done" /\ UNCHANGED db

\* cancel_run writes no status but cancelled.
LEMMA CancelWrites ==
  ASSUME TypeOK, NEW c \in Cancellers, Cancel(c) \/ CancelDies(c)
  PROVE  CancelEffect(c)
<1>1. ASSUME CancelCommit(c), NEW t \in Tasks
      PROVE  status'[t] \in {status[t], "cancelled"}
  BY <1>1 DEF CancelCommit, Flush, TypeOK, RequestsOK
<1> QED
  BY <1>1 DEF CancelEffect, Cancel, CancelCheck, CancelFlush, CancelCommit,
              CancelDies, TypeOK, RequestsOK, db, worker, budget

-----------------------------------------------------------------------------
(* Dependencies first                                                      *)

\* DependencySafety is not inductive: advance_run releases a task on what its
\* session saw.  It is with these: what is or was seen succeeded has its
\* output, no session has seen an output that is not there, and a worker's
\* job was claimed.
SucceededHasOutput ==
  \A t \in Tasks : status[t] = "succeeded" => t \in outputs

ViewsAreFacts ==
  \A w \in Workers :
    /\ view[w].outputs \subseteq outputs
    /\ \A t \in Tasks : view[w].status[t] = "succeeded" => t \in outputs

JobsWereClaimed ==
  \A w \in Workers : job[w] # NoTask => attempt[job[w]] > 0

DependencyInv ==
  /\ SucceededHasOutput
  /\ ViewsAreFacts
  /\ JobsWereClaimed
  /\ DependencySafety
  /\ ContextComplete

\* The steps that leave the outputs, the attempts and the sessions alone
\* keep the invariant if a status changes to cancelled at most.
LEMMA OnlyCancelled ==
  ASSUME TypeOK, DependencyInv,
         UNCHANGED <<attempt, outputs, worker>>,
         \A t \in Tasks : status'[t] \in {status[t], "cancelled"}
  PROVE  DependencyInv'
  BY DEF DependencyInv, SucceededHasOutput, ViewsAreFacts, JobsWereClaimed,
         DependencySafety, ContextComplete, worker

\* The strengthening holds in every reachable state.
THEOREM DependencyInvariant == Spec => []DependencyInv
<1>1. Init => DependencyInv
  BY EngineAssumption
     DEF Init, DependencyInv, SucceededHasOutput, ViewsAreFacts, EmptyView,
         JobsWereClaimed, DependencySafety, ContextComplete
<1>2. TypeOK /\ DependencyInv /\ [Next]_vars => DependencyInv'
  <2> SUFFICES ASSUME TypeOK, DependencyInv, [Next]_vars PROVE DependencyInv'
    OBVIOUS
  <2> USE DEF DependencyInv
  <2>1. ASSUME NEW w \in Workers, NEW t \in Tasks, Claim(w, t)
        PROVE DependencyInv'
    <3>1. /\ status' = [status EXCEPT ![t] = "running"]
          /\ attempt' = [attempt EXCEPT ![t] = attempt[t] + 1]
          /\ status \in [Tasks -> TaskStatus] /\ attempt \in [Tasks -> Nat]
      BY <2>1 DEF Claim, NextAttempt, TypeOK, DatabaseOK
    <3>2. /\ \A x \in Workers : job'[x] = IF x = w THEN t ELSE job[x]
          /\ \A x \in Workers : pc'[x] = "executing" => pc[x] = "executing" /\ x # w
          /\ UNCHANGED <<outputs, view>>
      BY <2>1 DEF Claim, TypeOK, WorkersOK
    <3>3. Deps[t] \subseteq outputs
      BY <2>1 DEF Claim, Claimable, DependencySafety
    <3>4. SucceededHasOutput'
      BY <3>1, <3>2 DEF SucceededHasOutput
    <3>5. DependencySafety'
      BY <3>1, <3>2, <3>3 DEF DependencySafety
    <3>6. JobsWereClaimed'
      BY <3>1, <3>2 DEF JobsWereClaimed, TypeOK, WorkersOK
    <3> QED
      BY <3>2, <3>4, <3>5, <3>6 DEF ViewsAreFacts, ContextComplete
  <2>2. ASSUME NEW w \in Workers, LoadTask(w) PROVE DependencyInv'
    <3>0. LoadTaskEffect(w)
      BY <2>2, LoadTaskReads
    <3>1. UNCHANGED <<status, attempt, outputs, job>>
      BY <3>0 DEF LoadTaskEffect, Untouched, db
    <3>2. ViewsAreFacts'
      BY <3>0, <3>1 DEF LoadTaskEffect, Untouched, ViewsAreFacts, SucceededHasOutput
    <3>3. ContextComplete'
      BY <3>0, <3>1 DEF LoadTaskEffect, Untouched, ContextComplete
    <3> QED
      BY <3>1, <3>2, <3>3 DEF SucceededHasOutput, JobsWereClaimed, DependencySafety
  <2>3. ASSUME NEW w \in Workers, LoadRun(w) \/ Fail(w) PROVE DependencyInv'
    <3>0. LoadRunEffect(w) \/ FailEffect(w)
      BY <2>3, LoadRunReads, FailWrites
    <3>1. /\ \A x \in Workers : /\ view'[x].status = view[x].status
                                /\ view'[x].outputs = view[x].outputs
          /\ \A x \in Workers : pc'[x] = "executing" => pc[x] = "executing"
          /\ UNCHANGED <<status, attempt, outputs, job>>
      BY <3>0 DEF LoadRunEffect, FailEffect, Untouched, db
    <3> QED
      BY <3>1 DEF ViewsAreFacts, SucceededHasOutput, JobsWereClaimed,
                  DependencySafety, ContextComplete
  <2>4. ASSUME NEW w \in Workers, LoadSiblings(w) PROVE DependencyInv'
    <3>0. LoadSiblingsEffect(w)
      BY <2>4, LoadSiblingsReads
    <3>1. UNCHANGED <<status, attempt, outputs, job>> /\ job[w] # NoTask
      BY <3>0, EngineAssumption DEF LoadSiblingsEffect, Untouched, db
    <3>2. ViewsAreFacts'
      BY <3>0, <3>1 DEF LoadSiblingsEffect, Untouched, ViewsAreFacts, SucceededHasOutput
    <3>3. Deps[job[w]] \subseteq outputs \ {job[w]}
      BY <3>0, <3>1, EngineAssumption
         DEF LoadSiblingsEffect, Untouched, JobsWereClaimed, DependencySafety
    <3>4. ContextComplete'
      BY <3>0, <3>1, <3>3 DEF LoadSiblingsEffect, Untouched, ContextComplete
    <3> QED
      BY <3>1, <3>2, <3>4 DEF SucceededHasOutput, JobsWereClaimed, DependencySafety
  <2>5. ASSUME NEW w \in Workers, Succeed(w) PROVE DependencyInv'
    <3>0. SucceedEffect(w)
      BY <2>5, SucceedWrites
    <3>1. UNCHANGED <<attempt, job>>
      BY <3>0 DEF SucceedEffect
    <3>2. SucceededHasOutput' /\ ViewsAreFacts'
      BY <3>0, <3>1 DEF SucceedEffect, Untouched, SucceededHasOutput, ViewsAreFacts
    <3>3. job[w] \in Tasks /\ attempt[job[w]] > 0
      BY <3>0, EngineAssumption DEF SucceedEffect, Untouched, JobsWereClaimed
    <3>4. DependencySafety'
      BY <3>0, <3>1, <3>3 DEF SucceedEffect, Untouched, DependencySafety
    <3>5. ContextComplete'
      BY <3>0, <3>1 DEF SucceedEffect, Untouched, ContextComplete
    <3> QED
      BY <3>1, <3>2, <3>4, <3>5 DEF JobsWereClaimed
  <2>6. ASSUME NEW w \in Workers, RetryTask(w) PROVE DependencyInv'
    <3>0. RetryEffect(w)
      BY <2>6, RetryWrites
    <3>1. UNCHANGED <<attempt, job, outputs>>
      BY <3>0 DEF RetryEffect
    <3>2. SucceededHasOutput' /\ ViewsAreFacts'
      BY <3>0, <3>1 DEF RetryEffect, RetryStatus, Untouched, SucceededHasOutput, ViewsAreFacts
    <3>3. job[w] \in Tasks /\ attempt[job[w]] > 0
      BY <3>0, EngineAssumption DEF RetryEffect, Untouched, JobsWereClaimed
    <3>4. DependencySafety'
      BY <3>0, <3>1, <3>3 DEF RetryEffect, Untouched, DependencySafety
    <3>5. ContextComplete'
      BY <3>0, <3>1 DEF RetryEffect, Untouched, ContextComplete
    <3> QED
      BY <3>1, <3>2, <3>4, <3>5 DEF JobsWereClaimed
  <2>7. ASSUME NEW w \in Workers, AdvanceRun(w) \/ AdvanceRaises(w)
        PROVE DependencyInv'
    <3>0. AdvanceEffect(w)
      BY <2>7, AdvanceWrites
    <3>1. UNCHANGED <<attempt, outputs>>
      BY <3>0 DEF AdvanceEffect
    <3>2. SucceededHasOutput' /\ ViewsAreFacts'
      <4>1. \A t \in Tasks : view'[w].status[t] = "succeeded"
              => view[w].status[t] = "succeeded"
        BY <3>0, AdvancedKeeps DEF AdvanceEffect, EmptyView
      <4> QED
        BY <3>0, <3>1, <4>1
           DEF AdvanceEffect, Untouched, SucceededHasOutput, ViewsAreFacts, EmptyView
    <3>3. \A t \in Released(view[w].status) : Deps[t] \subseteq outputs
      BY <3>0, EngineAssumption DEF AdvanceEffect, Untouched, Released, ViewsAreFacts
    <3>4. DependencySafety'
      BY <3>0, <3>1, <3>3 DEF AdvanceEffect, Untouched, DependencySafety
    <3>5. ContextComplete' /\ JobsWereClaimed'
      BY <3>0, <3>1 DEF AdvanceEffect, Untouched, ContextComplete, JobsWereClaimed
    <3> QED
      BY <3>2, <3>4, <3>5
  <2>8. ASSUME NEW w \in Workers, Crash(w) \/ Restart(w) PROVE DependencyInv'
    <3>0. CrashEffect(w)
      BY <2>8, CrashWrites
    <3>1. UNCHANGED <<status, attempt, outputs>>
      BY <3>0 DEF CrashEffect, db
    <3>2. ViewsAreFacts' /\ JobsWereClaimed' /\ ContextComplete'
      BY <3>0, <3>1
         DEF CrashEffect, ViewsAreFacts, EmptyView, JobsWereClaimed, ContextComplete
    <3> QED
      BY <3>1, <3>2 DEF SucceededHasOutput, DependencySafety
  <2>9. ASSUME NEW t \in Tasks, LeaseExpires(t) \/ LeaseOutrun(t) \/ BackoffElapses(t)
        PROVE DependencyInv'
    BY <2>9, OnlyCancelled DEF LeaseExpires, LeaseOutrun, BackoffElapses
  <2>10. ASSUME NEW c \in Cancellers, Cancel(c) \/ CancelDies(c)
         PROVE DependencyInv'
    <3>1. CancelEffect(c)
      BY <2>10, CancelWrites
    <3> QED
      BY <3>1, OnlyCancelled DEF CancelEffect
  <2>11. CASE UNCHANGED vars
    BY <2>11, OnlyCancelled DEF vars, db, worker
  <2> QED
    BY <2>1, <2>2, <2>3, <2>4, <2>5, <2>6, <2>7, <2>8, <2>9, <2>10, <2>11
       DEF Next, Poll, Proceed
<1> QED
  BY <1>1, <1>2, TypeCorrect, PTL DEF Spec

\* No task is released, claimed or executed before its dependencies have
\* produced their outputs.
THEOREM DependenciesFirst == Spec => []DependencySafety
<1>1. DependencyInv => DependencySafety
  BY DEF DependencyInv
<1> QED
  BY <1>1, DependencyInvariant, PTL

\* The context process hands to an executor holds the outputs of all the
\* dependencies, although process reads the siblings last and its own row
\* first.
THEOREM ContextsAreComplete == Spec => []ContextComplete
<1>1. DependencyInv => ContextComplete
  BY DEF DependencyInv
<1> QED
  BY <1>1, DependencyInvariant, PTL

-----------------------------------------------------------------------------
(* Failures                                                                *)

\* An attempt that was the last allowed one left a dead letter for t.
Recorded(t) == \E d \in deadLetters : d[1] = t /\ d[2] >= MaxAttempts[t]

\* FailureIsRecorded is inductive once the sessions are held to it too.
FailureInv ==
  /\ \A t \in Tasks : status[t] = "failed" => Recorded(t)
  /\ \A w \in Workers, t \in Tasks : view[w].status[t] = "failed" => Recorded(t)
  /\ runStatus = "failed" => deadLetters # {}

\* Dead letters are never removed.
LEMMA RecordedForEver ==
  ASSUME deadLetters \subseteq deadLetters'
  PROVE  \A t \in Tasks : Recorded(t) => Recorded(t)'
  BY DEF Recorded

\* Only a failed task makes a run failed.
LEMMA VerdictOfFailure ==
  ASSUME NEW st \in Statuses, NEW run, Verdict(Advanced(st), run) = "failed"
  PROVE  \E t \in Tasks : st[t] = "failed"
  BY DEF Verdict, Advanced

\* Every step keeps failures recorded.
LEMMA FailureStep == TypeOK /\ FailureInv /\ [Next]_vars => FailureInv'
<1> SUFFICES ASSUME TypeOK, FailureInv, [Next]_vars PROVE FailureInv'
  OBVIOUS
<1> USE DEF FailureInv
<1>1. ASSUME NEW w \in Workers, NEW t \in Tasks, Claim(w, t) PROVE FailureInv'
  <2>1. /\ UNCHANGED <<runStatus, deadLetters, view>>
        /\ \A u \in Tasks : status'[u] \in {status[u], "running"}
    BY <1>1 DEF Claim, TypeOK, DatabaseOK
  <2> QED
    BY <2>1 DEF Recorded
<1>2. ASSUME NEW w \in Workers, LoadTask(w) PROVE FailureInv'
  <2>1. LoadTaskEffect(w)
    BY <1>2, LoadTaskReads
  <2> QED
    BY <2>1 DEF LoadTaskEffect, Untouched, Recorded, db
<1>3. ASSUME NEW w \in Workers, LoadRun(w) \/ Fail(w) PROVE FailureInv'
  <2>1. LoadRunEffect(w) \/ FailEffect(w)
    BY <1>3, LoadRunReads, FailWrites
  <2> QED
    BY <2>1 DEF LoadRunEffect, FailEffect, Untouched, Recorded, db
<1>4. ASSUME NEW w \in Workers, LoadSiblings(w) PROVE FailureInv'
  <2>1. LoadSiblingsEffect(w)
    BY <1>4, LoadSiblingsReads
  <2> QED
    BY <2>1 DEF LoadSiblingsEffect, Untouched, Recorded, db
<1>5. ASSUME NEW w \in Workers, Succeed(w) PROVE FailureInv'
  <2>1. SucceedEffect(w)
    BY <1>5, SucceedWrites
  <2> QED
    BY <2>1 DEF SucceedEffect, Untouched, Recorded
<1>6. ASSUME NEW w \in Workers, RetryTask(w) PROVE FailureInv'
  <2>1. RetryEffect(w)
    BY <1>6, RetryWrites
  <2>2. deadLetters \subseteq deadLetters'
    BY <2>1 DEF RetryEffect
  <2>3. RetryStatus(w) = "failed" => Recorded(job[w])'
    <3> SUFFICES ASSUME RetryStatus(w) = "failed" PROVE Recorded(job[w])'
      OBVIOUS
    <3>1. Exhausted(job[w], view[w].attempt)
      BY DEF RetryStatus
    <3>2. <<job[w], view[w].attempt>> \in deadLetters'
      BY <2>1, <3>1 DEF RetryEffect, DeadLetter
    <3>3. job' = job /\ view'[w].attempt = view[w].attempt
      BY <2>1 DEF RetryEffect
    <3> QED
      BY <3>1, <3>2, <3>3 DEF Exhausted, Recorded
  <2>4. \A t \in Tasks : Recorded(t) => Recorded(t)'
    BY <2>2, RecordedForEver
  <2>5. job' = job /\ job[w] \in Tasks /\ runStatus' = runStatus
    BY <2>1 DEF RetryEffect
  <2>6. \A t \in Tasks : status'[t] = "failed" => Recorded(t)'
    BY <2>1, <2>3, <2>4, <2>5 DEF RetryEffect
  <2>7. ASSUME NEW x \in Workers, NEW t \in Tasks, view'[x].status[t] = "failed"
        PROVE Recorded(t)'
    <3>1. CASE x = w
      BY <2>1, <2>3, <2>4, <2>5, <2>7, <3>1 DEF RetryEffect
    <3>2. CASE x # w
      BY <2>1, <2>4, <2>7, <3>2 DEF RetryEffect, Untouched
    <3> QED
      BY <3>1, <3>2
  <2> QED
    BY <2>2, <2>5, <2>6, <2>7
<1>7. ASSUME NEW w \in Workers, AdvanceRun(w) \/ AdvanceRaises(w)
      PROVE FailureInv'
  <2>1. AdvanceEffect(w)
    BY <1>7, AdvanceWrites
  <2>2. UNCHANGED deadLetters
    BY <2>1 DEF AdvanceEffect
  <2>3. runStatus' = "failed" => deadLetters # {}
    <3> SUFFICES ASSUME runStatus' = "failed", runStatus # "failed"
                 PROVE  deadLetters # {}
      OBVIOUS
    <3>1. PICK t \in Tasks : view[w].status[t] = "failed"
      BY <2>1, VerdictOfFailure DEF AdvanceEffect
    <3> QED
      BY <3>1 DEF Recorded
  <2>4. \A t \in Tasks : view'[w].status[t] = "failed" => view[w].status[t] = "failed"
    BY <2>1, AdvancedKeeps DEF AdvanceEffect, EmptyView
  <2> QED
    BY <2>1, <2>2, <2>3, <2>4 DEF AdvanceEffect, Untouched, Recorded
<1>8. ASSUME NEW w \in Workers, Crash(w) \/ Restart(w) PROVE FailureInv'
  <2>1. CrashEffect(w)
    BY <1>8, CrashWrites
  <2> QED
    BY <2>1 DEF CrashEffect, EmptyView, Recorded, db
<1>9. ASSUME NEW t \in Tasks, LeaseExpires(t) \/ LeaseOutrun(t) \/ BackoffElapses(t)
      PROVE FailureInv'
  BY <1>9 DEF LeaseExpires, LeaseOutrun, BackoffElapses, worker, Recorded
<1>10. ASSUME NEW c \in Cancellers, Cancel(c) \/ CancelDies(c) PROVE FailureInv'
  <2>1. CancelEffect(c)
    BY <1>10, CancelWrites
  <2> QED
    BY <2>1 DEF CancelEffect, worker, Recorded
<1>11. CASE UNCHANGED vars
  BY <1>11 DEF vars, db, worker, Recorded
<1> QED
  BY <1>1, <1>2, <1>3, <1>4, <1>5, <1>6, <1>7, <1>8, <1>9, <1>10, <1>11
     DEF Next, Poll, Proceed

\* A task is failed, and a run is failed, only with the dead letter of an
\* exhausted attempt beside it, however stale sessions overwrite each other.
THEOREM FailuresAreRecorded == Spec => []FailureIsRecorded
<1>1. Init => FailureInv
  BY DEF Init, FailureInv, EmptyView
<1>2. FailureInv => FailureIsRecorded
  BY DEF FailureInv, FailureIsRecorded, Recorded
<1> QED
  BY <1>1, <1>2, FailureStep, TypeCorrect, PTL DEF Spec

-----------------------------------------------------------------------------
(* Refinement                                                              *)

\* A claim starts an attempt whose dependencies have all produced.
LEMMA ClaimStarts ==
  ASSUME TypeOK, DependencyInv, NEW w \in Workers, NEW t \in Tasks, Claim(w, t)
  PROVE  Abstract!Start(t)
<1>1. Deps[t] \subseteq outputs
  BY DEF Claim, Claimable, DependencyInv, DependencySafety
<1> QED
  BY <1>1 DEF Claim, Claimable, NextAttempt, Abstract!Start

\* The success commit yields the output of a task that was attempted.
LEMMA SuccessFinishes ==
  ASSUME TypeOK, DependencyInv, NEW w \in Workers, Succeed(w)
  PROVE  \E t \in Tasks : Abstract!Finish(t)
<1>1. SucceedEffect(w)
  BY SucceedWrites
<1>2. job[w] \in Tasks /\ attempt[job[w]] > 0
  BY <1>1, EngineAssumption DEF SucceedEffect, DependencyInv, JobsWereClaimed
<1> QED
  BY <1>1, <1>2 DEF SucceedEffect, Abstract!Finish

\* Closing the run is the only thing advance_run and cancel_run do to it.
LEMMA RunClosesOrStays ==
  ASSUME TypeOK, \/ \E w \in Workers : AdvanceRun(w) \/ AdvanceRaises(w)
                 \/ \E c \in Cancellers : Cancel(c) \/ CancelDies(c)
  PROVE  Abstract!Close \/ UNCHANGED Abstract!vars
<1>1. /\ runStatus' = runStatus \/ runStatus' # "running"
      /\ UNCHANGED <<attempt, outputs>>
  <2>1. ASSUME NEW w \in Workers, AdvanceRun(w) \/ AdvanceRaises(w) PROVE <1>1!:
    <3>1. AdvanceEffect(w)
      BY <2>1, AdvanceWrites
    <3> QED
      BY <3>1, VerdictType DEF AdvanceEffect
  <2>2. ASSUME NEW c \in Cancellers, Cancel(c) \/ CancelDies(c) PROVE <1>1!:
    <3>1. CancelEffect(c)
      BY <2>2, CancelWrites
    <3> QED
      BY <3>1 DEF CancelEffect
  <2> QED
    BY <2>1, <2>2
<1> QED
  BY <1>1 DEF Abstract!Close, Abstract!vars

\* The engine implements its promise: attempts only in an open run and only
\* after the dependencies, outputs never lost, a closed run never reopened.
THEOREM EngineImplementsDagExecution == Spec => ImplementsDagExecution
<1>1. Init => Abstract!Init
  BY DEF Init, Abstract!Init
<1>2. TypeOK /\ DependencyInv /\ [Next]_vars => [Abstract!Next]_(Abstract!vars)
  <2> SUFFICES ASSUME TypeOK, DependencyInv, [Next]_vars
               PROVE  Abstract!Next \/ UNCHANGED Abstract!vars
    OBVIOUS
  <2>1. ASSUME NEW w \in Workers, Poll(w) \/ Succeed(w) PROVE Abstract!Next
    BY <2>1, ClaimStarts, SuccessFinishes DEF Poll, Abstract!Next
  <2>2. ASSUME NEW w \in Workers,
               \/ LoadTask(w) \/ LoadRun(w) \/ LoadSiblings(w) \/ Fail(w)
               \/ RetryTask(w) \/ Crash(w) \/ Restart(w)
        PROVE  UNCHANGED Abstract!vars
    BY <2>2 DEF LoadTask, LoadRun, LoadSiblings, Fail, RetryTask, Crash, Restart, db,
                Abstract!vars
  <2>3. CASE \/ \E w \in Workers : AdvanceRun(w) \/ AdvanceRaises(w)
             \/ \E c \in Cancellers : Cancel(c) \/ CancelDies(c)
    BY <2>3, RunClosesOrStays DEF Abstract!Next
  <2>4. ASSUME NEW t \in Tasks, LeaseExpires(t) \/ LeaseOutrun(t) \/ BackoffElapses(t)
        PROVE  UNCHANGED Abstract!vars
    BY <2>4 DEF LeaseExpires, LeaseOutrun, BackoffElapses, Abstract!vars
  <2>5. CASE UNCHANGED vars
    BY <2>5 DEF vars, db, Abstract!vars
  <2> QED
    BY <2>1, <2>2, <2>3, <2>4, <2>5 DEF Next, Proceed
<1> QED
  BY <1>1, <1>2, TypeCorrect, DependencyInvariant, PTL
     DEF Spec, ImplementsDagExecution, Abstract!Spec

-----------------------------------------------------------------------------
(* Success                                                                 *)

\* What the database and the sessions know when no request has cancelled and
\* no attempt has failed for good: nothing but success closed the run, and
\* whoever believes a task succeeded has seen its output.
Undisturbed == deadLetters = {} /\ \A c \in Cancellers : stage[c] # "done"

Clean(st) == \A t \in Tasks : st[t] \notin {"failed", "cancelled"}

CleanState ==
  /\ Clean(status)
  /\ \A w \in Workers : Clean(view[w].status)
  /\ \A w \in Workers : view[w].runOutput = Tasks => runOutput = Tasks
  /\ runStatus = "succeeded" => outputs = Tasks /\ runOutput = Tasks

SessionsSawOutputs ==
  \A w \in Workers, t \in Tasks :
    view[w].status[t] = "succeeded" => t \in view[w].outputs

FreshSessions ==
  \A w \in Workers : pc[w] \in {"idle", "down", "claimed"} => view[w] = EmptyView

SuccessInv ==
  /\ FreshSessions
  /\ SessionsSawOutputs
  /\ Undisturbed => CleanState

\* A disturbed run stays disturbed.
LEMMA Disturbance ==
  ASSUME TypeOK, [Next]_vars, Undisturbed'
  PROVE  Undisturbed
<1>1. \/ \E w \in Workers : RetryTask(w)
      \/ \E c \in Cancellers : Cancel(c) \/ CancelDies(c)
      \/ UNCHANGED <<deadLetters, stage>>
  <2>1. ASSUME NEW w \in Workers,
               \/ Poll(w) \/ LoadTask(w) \/ LoadRun(w) \/ LoadSiblings(w)
               \/ Succeed(w) \/ Fail(w) \/ AdvanceRun(w) \/ AdvanceRaises(w)
               \/ Crash(w) \/ Restart(w)
        PROVE  UNCHANGED <<deadLetters, stage>>
    BY <2>1 DEF Poll, Claim, LoadTask, LoadRun, LoadSiblings, Succeed, Fail, AdvanceRun,
                AdvanceRaises, Crash, Restart, db, cancel
  <2>2. ASSUME NEW t \in Tasks, LeaseExpires(t) \/ LeaseOutrun(t) \/ BackoffElapses(t)
        PROVE  UNCHANGED <<deadLetters, stage>>
    BY <2>2 DEF LeaseExpires, LeaseOutrun, BackoffElapses, cancel
  <2>3. CASE UNCHANGED vars
    BY <2>3 DEF vars, db, cancel
  <2> QED
    BY <2>1, <2>2, <2>3 DEF Next, Proceed
<1>2. ASSUME NEW w \in Workers, RetryTask(w)
      PROVE  deadLetters \subseteq deadLetters' /\ UNCHANGED stage
  BY <1>2 DEF RetryTask, cancel
<1>3. ASSUME NEW c \in Cancellers, Cancel(c) \/ CancelDies(c)
      PROVE  /\ UNCHANGED deadLetters
             /\ \A x \in Cancellers : stage[x] = "done" => stage'[x] = "done"
  <2>1. CancelEffect(c)
    BY <1>3, CancelWrites
  <2> QED
    BY <1>3, <2>1 DEF CancelEffect, Cancel, CancelCheck, CancelFlush, CancelCommit,
                      CancelDies
<1> QED
  BY <1>1, <1>2, <1>3 DEF Undisturbed

\* Nothing is doomed where nothing failed, so an ended pass saw only success.
LEMMA CleanEnd ==
  ASSUME NEW st \in Statuses, Clean(st), AllTerminal(Advanced(st))
  PROVE  \A t \in Tasks : st[t] = "succeeded"
<1>1. Doomed(st) = {}
  BY EngineAssumption DEF Clean, Doomed
<1> QED
  BY <1>1 DEF Clean, AllTerminal, Terminal, Advanced

\* A worker begins each job with a session that has loaded nothing.
LEMMA FreshStep == TypeOK /\ FreshSessions /\ [Next]_vars => FreshSessions'
<1> SUFFICES ASSUME TypeOK, FreshSessions, [Next]_vars PROVE FreshSessions'
  OBVIOUS
<1> USE DEF FreshSessions
<1>1. ASSUME NEW w \in Workers, Poll(w) \/ Crash(w) \/ Restart(w)
      PROVE FreshSessions'
  BY <1>1 DEF Poll, Claim, Crash, Restart, TypeOK, WorkersOK
<1>2. ASSUME NEW w \in Workers, Proceed(w) PROVE FreshSessions'
  <2>1. \/ pc'[w] \notin {"idle", "down", "claimed"}
        \/ view'[w] = EmptyView
    BY <1>2 DEF Proceed, LoadTask, LoadRun, LoadSiblings, Succeed, Fail, RetryTask,
                AdvanceRun, AdvanceRaises, TypeOK, WorkersOK
  <2>2. Untouched(w)
    BY <1>2 DEF Proceed, LoadTask, LoadRun, LoadSiblings, Succeed, Fail, RetryTask,
                AdvanceRun, AdvanceRaises, TypeOK, WorkersOK, Untouched
  <2> QED
    BY <2>1, <2>2 DEF Untouched
<1>3. CASE UNCHANGED worker
  BY <1>3 DEF worker
<1> QED
  BY <1>1, <1>2, <1>3
     DEF Next, LeaseExpires, LeaseOutrun, BackoffElapses, Cancel, CancelCheck,
         CancelFlush, CancelCommit, CancelDies, vars

\* Every step keeps what sessions believe backed by outputs seen.
LEMMA SessionsStep ==
  /\ TypeOK /\ DependencyInv /\ FreshSessions /\ SessionsSawOutputs
  /\ [Next]_vars
  => SessionsSawOutputs'
<1> SUFFICES ASSUME TypeOK, DependencyInv, FreshSessions, SessionsSawOutputs,
                    [Next]_vars
             PROVE  SessionsSawOutputs'
  OBVIOUS
<1> USE DEF SessionsSawOutputs
<1>1. ASSUME NEW w \in Workers, LoadTask(w) PROVE SessionsSawOutputs'
  <2>1. LoadTaskEffect(w)
    BY <1>1, LoadTaskReads
  <2>2. \A t \in Tasks : view[w].status[t] # "succeeded"
    BY <1>1 DEF LoadTask, FreshSessions, EmptyView
  <2> QED
    BY <2>1, <2>2 DEF LoadTaskEffect, Untouched, DependencyInv, SucceededHasOutput
<1>2. ASSUME NEW w \in Workers, LoadRun(w) \/ Fail(w) PROVE SessionsSawOutputs'
  <2>1. LoadRunEffect(w) \/ FailEffect(w)
    BY <1>2, LoadRunReads, FailWrites
  <2> QED
    BY <2>1 DEF LoadRunEffect, FailEffect, Untouched
<1>3. ASSUME NEW w \in Workers, LoadSiblings(w) PROVE SessionsSawOutputs'
  <2>1. LoadSiblingsEffect(w)
    BY <1>3, LoadSiblingsReads
  <2> QED
    BY <2>1 DEF LoadSiblingsEffect, Untouched, DependencyInv, SucceededHasOutput
<1>4. ASSUME NEW w \in Workers, Succeed(w) \/ RetryTask(w) PROVE SessionsSawOutputs'
  <2>1. SucceedEffect(w) \/ RetryEffect(w)
    BY <1>4, SucceedWrites, RetryWrites
  <2> QED
    BY <2>1 DEF SucceedEffect, RetryEffect, RetryStatus, Untouched
<1>5. ASSUME NEW w \in Workers, AdvanceRun(w) \/ AdvanceRaises(w)
      PROVE SessionsSawOutputs'
  <2>1. AdvanceEffect(w)
    BY <1>5, AdvanceWrites
  <2>2. \A t \in Tasks : view'[w].status[t] = "succeeded"
          => view[w].status[t] = "succeeded" /\ view'[w].outputs = view[w].outputs
    BY <2>1, AdvancedKeeps DEF AdvanceEffect, EmptyView
  <2> QED
    BY <2>1, <2>2 DEF AdvanceEffect, Untouched
<1>6. ASSUME NEW w \in Workers, Crash(w) \/ Restart(w) PROVE SessionsSawOutputs'
  <2>1. CrashEffect(w)
    BY <1>6, CrashWrites
  <2> QED
    BY <2>1 DEF CrashEffect, EmptyView
<1>7. CASE UNCHANGED view
  BY <1>7
<1> QED
  BY <1>1, <1>2, <1>3, <1>4, <1>5, <1>6, <1>7
     DEF Next, Poll, Proceed, Claim, LeaseExpires, LeaseOutrun, BackoffElapses, Cancel,
         CancelCheck, CancelFlush, CancelCommit, CancelDies, vars, worker

\* Every step that leaves the run undisturbed keeps its state clean.
LEMMA CleanStep ==
  TypeOK /\ DependencyInv /\ SuccessInv /\ [Next]_vars => (Undisturbed => CleanState)'
<1> SUFFICES ASSUME TypeOK, DependencyInv, SuccessInv, [Next]_vars, Undisturbed',
                    Undisturbed
             PROVE  CleanState'
  BY Disturbance
<1>0. CleanState
  BY DEF SuccessInv
<1> USE <1>0 DEF CleanState, Clean
<1>1. ASSUME NEW w \in Workers, NEW t \in Tasks, Claim(w, t) PROVE CleanState'
  BY <1>1 DEF Claim, TypeOK, DatabaseOK
<1>2. ASSUME NEW w \in Workers, LoadTask(w) PROVE CleanState'
  <2>1. LoadTaskEffect(w)
    BY <1>2, LoadTaskReads
  <2> QED
    BY <2>1 DEF LoadTaskEffect, Untouched, db
<1>3. ASSUME NEW w \in Workers, LoadRun(w) \/ Fail(w) PROVE CleanState'
  <2>1. LoadRunEffect(w) \/ FailEffect(w)
    BY <1>3, LoadRunReads, FailWrites
  <2> QED
    BY <2>1 DEF LoadRunEffect, FailEffect, Untouched, db
<1>4. ASSUME NEW w \in Workers, LoadSiblings(w) PROVE CleanState'
  <2>1. LoadSiblingsEffect(w)
    BY <1>4, LoadSiblingsReads
  <2> QED
    BY <2>1 DEF LoadSiblingsEffect, Untouched, db
<1>5. ASSUME NEW w \in Workers, Succeed(w) PROVE CleanState'
  <2>1. SucceedEffect(w)
    BY <1>5, SucceedWrites
  <2>2. outputs' \subseteq Tasks
    BY <2>1 DEF SucceedEffect, TypeOK, DatabaseOK
  <2> QED
    BY <2>1, <2>2 DEF SucceedEffect, Untouched
<1>6. ASSUME NEW w \in Workers, RetryTask(w) PROVE CleanState'
  <2>1. RetryEffect(w)
    BY <1>6, RetryWrites
  <2>2. RetryStatus(w) = "retrying"
    BY <2>1 DEF RetryEffect, RetryStatus, DeadLetter, Undisturbed
  <2> QED
    BY <2>1, <2>2 DEF RetryEffect, Untouched
<1>7. ASSUME NEW w \in Workers, AdvanceRun(w) \/ AdvanceRaises(w)
      PROVE CleanState'
  <2>1. AdvanceEffect(w)
    BY <1>7, AdvanceWrites
  <2>2. Doomed(view[w].status) = {}
    BY EngineAssumption DEF Doomed
  <2>3. ASSUME AllTerminal(Advanced(view[w].status))
        PROVE  view[w].outputs = Tasks /\ outputs = Tasks
    <3>1. view[w].outputs \subseteq Tasks /\ outputs \subseteq Tasks
      BY DEF TypeOK, DatabaseOK, WorkersOK, View
    <3>2. \A t \in Tasks : view[w].status[t] = "succeeded"
      BY <2>1, <2>3, CleanEnd DEF AdvanceEffect
    <3> QED
      BY <3>1, <3>2 DEF SuccessInv, SessionsSawOutputs, DependencyInv, ViewsAreFacts
  <2>4. runOutput' = runOutput \/ runOutput' = Tasks
    BY <2>1, <2>3 DEF AdvanceEffect
  <2>5. runStatus' = "succeeded" => outputs' = Tasks /\ runOutput' = Tasks
    <3>1. CASE runStatus' = runStatus
      BY <2>1, <2>4, <3>1 DEF AdvanceEffect
    <3>2. CASE runStatus' # runStatus
      BY <2>1, <2>3, <3>2 DEF AdvanceEffect
    <3> QED
      BY <3>1, <3>2
  <2>6. EmptyView.runOutput # Tasks /\ Clean(EmptyView.status)
    BY EngineAssumption DEF EmptyView
  <2>7. Clean(Advanced(view[w].status))
    BY <2>2 DEF Advanced
  <2>8. Clean(status')
    BY <2>1, <2>2 DEF AdvanceEffect
  <2>9. \A x \in Workers :
          /\ Clean(view'[x].status)
          /\ view'[x].runOutput = Tasks => view[x].runOutput = Tasks
    BY <2>1, <2>6, <2>7 DEF AdvanceEffect, Untouched
  <2> QED
    BY <2>4, <2>5, <2>8, <2>9
<1>8. ASSUME NEW w \in Workers, Crash(w) \/ Restart(w) PROVE CleanState'
  <2>1. CrashEffect(w)
    BY <1>8, CrashWrites
  <2>2. EmptyView.runOutput # Tasks /\ Clean(EmptyView.status)
    BY EngineAssumption DEF EmptyView
  <2> QED
    BY <2>1, <2>2 DEF CrashEffect, db
<1>9. ASSUME NEW t \in Tasks, LeaseExpires(t) \/ LeaseOutrun(t) \/ BackoffElapses(t)
      PROVE CleanState'
  BY <1>9 DEF LeaseExpires, LeaseOutrun, BackoffElapses, worker
<1>10. ASSUME NEW c \in Cancellers, Cancel(c) \/ CancelDies(c) PROVE CleanState'
  <2>1. CancelEffect(c)
    BY <1>10, CancelWrites
  <2> QED
    BY <2>1 DEF CancelEffect, Undisturbed, worker, db
<1>11. CASE UNCHANGED vars
  BY <1>11 DEF vars, db, worker
<1> QED
  BY <1>1, <1>2, <1>3, <1>4, <1>5, <1>6, <1>7, <1>8, <1>9, <1>10, <1>11
     DEF Next, Poll, Proceed

\* A run reported succeeded is complete, whichever stale session closed it,
\* unless a cancel request or a dead letter came in between.
THEOREM SuccessesAreComplete == Spec => []SuccessIsComplete
<1>1. Init => SuccessInv
  BY EngineAssumption
     DEF Init, SuccessInv, FreshSessions, SessionsSawOutputs, CleanState, Clean,
         EmptyView
<1>2. TypeOK /\ DependencyInv /\ SuccessInv /\ [Next]_vars => SuccessInv'
  BY FreshStep, SessionsStep, CleanStep DEF SuccessInv
<1>3. SuccessInv => SuccessIsComplete
  BY DEF SuccessInv, Undisturbed, CleanState, SuccessIsComplete
<1> QED
  BY <1>1, <1>2, <1>3, TypeCorrect, DependencyInvariant, PTL DEF Spec

-----------------------------------------------------------------------------
(* The attempt log                                                         *)

HasRow(rows, t, n) == \E r \in rows : r.task = t /\ r.attempt = n

Keyed(rows) ==
  \A q, r \in rows : q.task = r.task /\ q.attempt = r.attempt => q = r

\* Past the first read of process.
LookedUp == (Executing \ {"claimed"}) \cup {"advancing"}

\* The log has the rows it should, at most one of each, and every session
\* past its first read works on an attempt that has one.
LogInv ==
  /\ \A t \in Tasks, n \in Nat : HasRow(attemptRows, t, n) <=> n \in 1 .. attempt[t]
  /\ Keyed(attemptRows)
  /\ \A w \in Workers : pc[w] \in LookedUp => view[w].attempt \in 1 .. attempt[job[w]]

\* Setting the status of an existing row neither adds nor removes one.
LEMMA SetRowKeepsLog ==
  ASSUME NEW rows, NEW t, NEW n, NEW loaded, NEW new, HasRow(rows, t, n), Keyed(rows)
  PROVE  /\ \A u, m : HasRow(SetRow(rows, t, n, loaded, new), u, m)
                        <=> HasRow(rows, u, m)
         /\ Keyed(SetRow(rows, t, n, loaded, new))
<1> DEFINE row == [task |-> t, attempt |-> n, status |-> new]
           others == {r \in rows : ~(r.task = t /\ r.attempt = n)}
<1>1. CASE new = loaded
  BY <1>1 DEF SetRow
<1>2. CASE new # loaded
  <2>1. SetRow(rows, t, n, loaded, new) = others \cup {row}
    BY <1>2 DEF SetRow
  <2>2. row.task = t /\ row.attempt = n
    OBVIOUS
  <2>3. \A u, m : HasRow(others \cup {row}, u, m) <=> HasRow(rows, u, m)
    <3> HIDE DEF row
    <3> QED
      BY <2>2 DEF HasRow
  <2>4. Keyed(others \cup {row})
    <3> HIDE DEF row
    <3> QED
      BY <2>2 DEF Keyed
  <2> QED
    BY <2>1, <2>3, <2>4
<1> QED
  BY <1>1, <1>2

\* Every step keeps the log exact.
LEMMA LogStep == TypeOK /\ DependencyInv /\ LogInv /\ [Next]_vars => LogInv'
<1> SUFFICES ASSUME TypeOK, DependencyInv, LogInv, [Next]_vars PROVE LogInv'
  OBVIOUS
<1> USE DEF LogInv
<1>1. ASSUME NEW w \in Workers, NEW t \in Tasks, Claim(w, t) PROVE LogInv'
  <2> DEFINE row == [task |-> t, attempt |-> attempt[t] + 1, status |-> "running"]
  <2>1. /\ attemptRows' = attemptRows \cup {row}
        /\ attempt[t] \in Nat
        /\ \A u \in Tasks : attempt'[u] = IF u = t THEN attempt[t] + 1 ELSE attempt[u]
        /\ view' = view
        /\ \A x \in Workers : /\ pc'[x] = IF x = w THEN "claimed" ELSE pc[x]
                              /\ job'[x] = IF x = w THEN t ELSE job[x]
    BY <1>1 DEF Claim, NextAttempt, TypeOK, DatabaseOK, WorkersOK
  <2>2. row.task = t /\ row.attempt = attempt[t] + 1
    OBVIOUS
  <2>3. /\ \A u \in Tasks : attempt[u] \in Nat
        /\ \A r \in attemptRows : r.task \in Tasks /\ r.attempt \in Nat
        /\ \A x \in Workers : pc[x] \in LookedUp => job[x] \in Tasks
    BY DEF TypeOK, DatabaseOK, WorkersOK, LookedUp, Executing
  <2> HIDE DEF row
  <2>4. \A r \in attemptRows : ~(r.task = t /\ r.attempt = attempt[t] + 1)
    BY <2>3 DEF HasRow
  <2>5. \A u \in Tasks, n \in Nat :
          HasRow(attemptRows', u, n) <=> n \in 1 .. attempt'[u]
    <3> SUFFICES ASSUME NEW u \in Tasks, NEW n \in Nat
                 PROVE  HasRow(attemptRows', u, n) <=> n \in 1 .. attempt'[u]
      OBVIOUS
    <3>1. HasRow(attemptRows', u, n)
            <=> HasRow(attemptRows, u, n) \/ (u = t /\ n = attempt[t] + 1)
      BY <2>1, <2>2 DEF HasRow
    <3> QED
      BY <2>1, <2>3, <3>1
  <2>6. Keyed(attemptRows)'
    BY <2>1, <2>2, <2>4 DEF Keyed
  <2>7. \A x \in Workers : pc'[x] \in LookedUp
          => view'[x].attempt \in 1 .. attempt'[job'[x]]
    BY <2>1, <2>3 DEF LookedUp, Executing
  <2> QED
    BY <2>5, <2>6, <2>7
<1>2. ASSUME NEW w \in Workers, LoadTask(w) PROVE LogInv'
  <2>1. LoadTaskEffect(w)
    BY <1>2, LoadTaskReads
  <2>2. attempt[job[w]] \in Nat /\ attempt[job[w]] > 0
    BY <2>1, EngineAssumption
       DEF LoadTaskEffect, TypeOK, DatabaseOK, DependencyInv, JobsWereClaimed
  <2> QED
    BY <2>1, <2>2 DEF LoadTaskEffect, Untouched, db
<1>3. ASSUME NEW w \in Workers, LoadRun(w) \/ LoadSiblings(w) PROVE LogInv'
  <2>1. LoadRunEffect(w) \/ LoadSiblingsEffect(w)
    BY <1>3, LoadRunReads, LoadSiblingsReads
  <2>2. pc[w] \in LookedUp
    BY <1>3 DEF LoadRun, LoadSiblings, LookedUp, Executing
  <2> QED
    BY <2>1, <2>2 DEF LoadRunEffect, LoadSiblingsEffect, Untouched, db
<1>4. ASSUME NEW w \in Workers, Succeed(w) \/ Fail(w) PROVE LogInv'
  <2>1. SucceedEffect(w) \/ FailEffect(w)
    BY <1>4, SucceedWrites, FailWrites
  <2>2. /\ pc[w] \in LookedUp
        /\ \E new : attemptRows' = SetRow(attemptRows, job[w], view[w].attempt,
                                          view[w].row, new)
    BY <1>4 DEF Succeed, Fail, LookedUp, Executing
  <2>3. job[w] \in Tasks /\ attempt[job[w]] \in Nat
    BY <2>1 DEF SucceedEffect, FailEffect, TypeOK, DatabaseOK
  <2>4. HasRow(attemptRows, job[w], view[w].attempt)
    BY <2>2, <2>3
  <2>5. /\ \A u, m : HasRow(attemptRows', u, m) <=> HasRow(attemptRows, u, m)
        /\ Keyed(attemptRows')
    BY <2>2, <2>4, SetRowKeepsLog
  <2>6. /\ attempt' = attempt /\ job' = job /\ view'[w].attempt = view[w].attempt
        /\ Untouched(w)
    BY <2>1 DEF SucceedEffect, FailEffect
  <2>7. \A x \in Workers : pc'[x] \in LookedUp
          => view'[x].attempt \in 1 .. attempt'[job'[x]]
    BY <2>2, <2>6 DEF Untouched
  <2>8. \A u \in Tasks, n \in Nat :
          HasRow(attemptRows', u, n) <=> n \in 1 .. attempt'[u]
    BY <2>5, <2>6
  <2> QED
    BY <2>5, <2>7, <2>8
<1>5. ASSUME NEW w \in Workers, RetryTask(w) \/ AdvanceRaises(w) PROVE LogInv'
  <2>1. UNCHANGED <<attempt, attemptRows>>
    BY <1>5 DEF RetryTask, AdvanceRaises
  <2>2. pc[w] \in LookedUp
    BY <1>5 DEF RetryTask, AdvanceRaises, LookedUp, Executing
  <2>3. RetryEffect(w) \/ (AdvanceEffect(w) /\ pc'[w] = "raised")
    BY <1>5, RetryWrites, AdvanceWrites DEF AdvanceRaises, TypeOK, WorkersOK
  <2>4. Untouched(w) /\ job'[w] = job[w] /\ view'[w].attempt = view[w].attempt
    BY <2>3 DEF RetryEffect, AdvanceEffect
  <2>5. \A x \in Workers : pc'[x] \in LookedUp
          => view'[x].attempt \in 1 .. attempt'[job'[x]]
    BY <2>1, <2>2, <2>4 DEF Untouched
  <2> QED
    BY <2>1, <2>5
<1>6. ASSUME NEW w \in Workers, AdvanceRun(w) \/ Crash(w) \/ Restart(w)
      PROVE LogInv'
  <2>1. UNCHANGED <<attempt, attemptRows>>
    BY <1>6 DEF AdvanceRun, Crash, Restart, db
  <2>2. Untouched(w) /\ pc'[w] \in {"idle", "down"}
    BY <1>6 DEF AdvanceRun, Crash, Restart, Untouched, TypeOK, WorkersOK
  <2> QED
    BY <2>1, <2>2 DEF Untouched, LookedUp, Executing
<1>7. CASE UNCHANGED <<attempt, attemptRows, pc, job, view>>
  BY <1>7
<1> QED
  BY <1>1, <1>2, <1>3, <1>4, <1>5, <1>6, <1>7
     DEF Next, Poll, Proceed, LeaseExpires, LeaseOutrun, BackoffElapses, Cancel,
         CancelCheck, CancelFlush, CancelCommit, CancelDies, vars, db, worker

\* The log has the rows it should in every reachable state.
LEMMA LogInvariant == Spec => []LogInv
<1>1. Init => LogInv
  BY DEF Init, LogInv, HasRow, Keyed, LookedUp, Executing
<1> QED
  BY <1>1, LogStep, TypeCorrect, DependencyInvariant, PTL DEF Spec

\* task_attempts holds exactly one row for every attempt ever started: the
\* unique constraint uq_task_attempt is never in a claim's way.
THEOREM AttemptLogIsComplete == Spec => []AttemptLogComplete
<1>1. TypeOK /\ LogInv => AttemptLogComplete
  <2> SUFFICES ASSUME TypeOK, LogInv, NEW t \in Tasks
               PROVE  {r.attempt : r \in {q \in attemptRows : q.task = t}}
                        = 1 .. attempt[t]
    BY DEF AttemptLogComplete, LogInv, Keyed
  <2>1. attempt[t] \in Nat /\ \A r \in attemptRows : r.attempt \in Nat
    BY DEF TypeOK, DatabaseOK
  <2>2. \A n \in Nat : HasRow(attemptRows, t, n) <=> n \in 1 .. attempt[t]
    BY DEF LogInv
  <2> QED
    BY <2>1, <2>2 DEF HasRow
<1> QED
  BY <1>1, LogInvariant, TypeCorrect, PTL

-----------------------------------------------------------------------------
(***************************************************************************)
(* Calm and layered.                                                       *)
(*                                                                         *)
(* That a task has one owner at a time rests on two facts about releases.  *)
(* They are stated with MayRelease, the tasks whose release a session      *)
(* would write if it went on now:                                          *)
(*   - what a session may release is still blocked (OneRelease), so that   *)
(*     its READY overwrites nothing;                                       *)
(*   - no other session may release it too.                                *)
(* Both need the workflow to be layered: what is under way beside the      *)
(* release of a task is then one of its dependencies, and a session that   *)
(* has not seen this dependency succeed does not release.                  *)
(*                                                                         *)
(* A committed cancellation takes statuses away from under sessions, and   *)
(* closes the run to claims.  So the invariant has a part that holds       *)
(* always and a part, OpenInv, that holds until a cancellation commits.    *)
(***************************************************************************)

\* A numbering of the levels of a layered workflow.
Level == CHOOSE level \in [Tasks -> 0 .. Cardinality(Tasks)] : LayeredBy(level)

\* No cancel request has committed.
Uncancelled == \A c \in Cancellers : stage[c] # "done"

\* Past the first read, and not yet done with the task.
OwnRowLoaded == {"loadRun", "loadSiblings", "executing", "failing"}
\* Past the last read.
Loaded == {"executing", "failing", "advancing"}

\* The session of w still sees t blocked, and all of its dependencies succeeded
\* but perhaps the task that w itself is executing.
MayRelease(w, t) ==
  /\ pc[w] \in Loaded
  /\ view[w].status[t] = "blocked"
  /\ \A d \in Deps[t] : \/ view[w].status[d] = "succeeded"
                        \/ d = job[w] /\ pc[w] # "advancing"

\* The row of the last attempt at t, if there is one, has the status s.
LastRow(t, s) ==
  \A r \in attemptRows : r.task = t /\ r.attempt = attempt[t] => r.status = s

\* One owner: a run with a committed cancellation is closed; a task being worked
\* on is running or was cancelled, its session has its current attempt, and no
\* other worker has it.
Owners ==
  /\ \A c \in Cancellers : stage[c] = "done" => runStatus # "running"
  /\ \A w \in Workers :
       /\ pc[w] # "raised"
       /\ pc[w] \in Executing => status[job[w]] \in {"running", "cancelled"}
       /\ pc[w] \in OwnRowLoaded =>
            /\ view[w].attempt = attempt[job[w]]
            /\ view[w].status[job[w]] \in {"running", "cancelled"}
  /\ \A u, w \in Workers :
       pc[u] \in Executing /\ pc[w] \in Executing /\ job[u] = job[w] => u = w

\* What is blocked or ready, and what a session may still make ready, was never
\* attempted: its task has no owner to be robbed.
Unattempted ==
  /\ \A t \in Tasks : status[t] \in {"blocked", "ready"} => attempt[t] = 0
  /\ \A w \in Workers, t \in Tasks : MayRelease(w, t) => attempt[t] = 0

\* The status of the row of the last attempt that goes with a task's status.
RowFits(s, row) ==
  /\ s = "succeeded" => row = "succeeded"
  /\ s \in {"failed", "retrying"} => row = "failed"
  /\ s = "running" => row # "succeeded"

\* The rows of earlier attempts are no successes, those of the last one fit.
LogFits ==
  \A r \in attemptRows :
    /\ r.attempt < attempt[r.task] => r.status # "succeeded"
    /\ r.attempt = attempt[r.task] => RowFits(status[r.task], r.status)

\* Besides, the rows of attempts under way are as their workers left them.
LogTells ==
  /\ LogFits
  /\ \A w \in Workers :
       /\ pc[w] \in {"claimed", "loadRun", "loadSiblings", "executing"}
            => LastRow(job[w], "running")
       /\ pc[w] = "executing" => view[w].row = "running"
       /\ pc[w] = "failing" => LastRow(job[w], "failed")

\* A task being worked on is running under its lease, in the session too.
Leased ==
  \A w \in Workers :
    /\ pc[w] \in Executing => status[job[w]] = "running" /\ lease[job[w]] = "held"
    /\ pc[w] \in OwnRowLoaded => view[w].status[job[w]] = "running"

\* What a session saw ended has ended so; what is blocked, it sees blocked.
TrueViews ==
  \A w \in Workers : pc[w] \in Loaded =>
    \A t \in Tasks :
      /\ view[w].status[t] \in Terminal => status[t] = view[w].status[t]
      /\ status[t] = "blocked" => view[w].status[t] = "blocked"

\* Statuses of tasks that have been released.
Reached == {"ready", "running", "retrying", "succeeded", "failed"}

\* All levels below that of a released task have succeeded.
LowerSucceeded(st) ==
  \A d, u \in Tasks : st[u] \in Reached /\ Level[d] < Level[u] => st[d] = "succeeded"

\* A level is released as a whole and after the levels below it, in the database
\* and as far as a session can tell.
Layers ==
  /\ \A t \in Tasks : status[t] = "blocked" => Deps[t] # {}
  /\ \A t, u \in Tasks : Level[t] = Level[u] /\ status[u] \in Reached
       => status[t] # "blocked"
  /\ LowerSucceeded(status)
  /\ \A w \in Workers : pc[w] \in Loaded => LowerSucceeded(view[w].status)

\* What a session may release is blocked, and no other session may release it.
OneRelease ==
  /\ \A w \in Workers, t \in Tasks : MayRelease(w, t) => status[t] = "blocked"
  /\ \A u, w \in Workers, t \in Tasks : MayRelease(u, t) /\ MayRelease(w, t) => u = w

\* A retry is awaited only if the policy allows one, and an orphan that has used
\* up its attempts is on the account of a crash.
Budgets ==
  \A t \in Tasks :
    /\ status[t] = "retrying" => attempt[t] < MaxAttempts[t]
    /\ status[t] = "running" /\ Working(t) = {} => attempt[t] < MaxAttempts[t] + crashes

\* The part that holds until a cancellation commits.
OpenInv == Leased /\ TrueViews /\ Layers /\ OneRelease /\ Budgets

\* The inductive invariant.
CalmInv == Owners /\ Unattempted /\ LogTells /\ RetryBudget /\ (Uncancelled => OpenInv)

\* Without cancel requests: a closed run has all its tasks ended, with the verdict
\* they stand for, and no session has seen it cancelled.
RunInv ==
  /\ \A w \in Workers : view[w].run # "cancelled"
  /\ runStatus = "running" \/ (AllTerminal(status) /\ runStatus = Verdict(status, "running"))

-----------------------------------------------------------------------------
(* What the steps do where it is calm                                      *)

\* The steps that remain where no lease is outrun and no publication raises.
CalmNext ==
  \/ \E w \in Workers :
       \/ \E t \in Tasks : Claim(w, t)
       \/ LoadTask(w) \/ LoadRun(w) \/ LoadSiblings(w)
       \/ Succeed(w) \/ Fail(w) \/ RetryTask(w) \/ AdvanceRun(w)
       \/ Crash(w) \/ Restart(w)
  \/ \E t \in Tasks : LeaseExpires(t) \/ BackoffElapses(t)
  \/ \E c \in Cancellers : Cancel(c) \/ CancelDies(c)
  \/ UNCHANGED vars

\* No other step is possible.
LEMMA CalmSteps ==
  ASSUME Calm, TypeOK, [Next]_vars
  PROVE  CalmNext
<1>1. \A t \in Tasks : ~LeaseOutrun(t)
  BY DEF Calm, LeaseOutrun, TypeOK, RequestsOK
<1>2. \A w \in Workers : ~AdvanceRaises(w)
  BY DEF Calm, AdvanceRaises, TypeOK, RequestsOK
<1> QED
  BY <1>1, <1>2 DEF CalmNext, Next, Poll, Proceed

\* The levels of a layered workflow are numbers.
LEMMA LevelsExist ==
  ASSUME Layered
  PROVE  Level \in [Tasks -> Nat] /\ LayeredBy(Level)
<1>1. Cardinality(Tasks) \in Nat
  BY EngineAssumption, FS_CardinalityType
<1>2. Level \in [Tasks -> 0 .. Cardinality(Tasks)] /\ LayeredBy(Level)
  BY DEF Layered, Level
<1> QED
  BY <1>1, <1>2

\* A claim, on each task and each worker.
ClaimEffect(w, t) ==
  /\ pc[w] = "idle" /\ runStatus = "running"
  /\ \/ status[t] \in {"ready", "retrying"}
     \/ status[t] = "running" /\ lease[t] = "lapsed"
  /\ attempt[t] \in Nat
  /\ UNCHANGED <<runStatus, view, stage, crashes>>
  /\ \A s \in Tasks : /\ status'[s] = IF s = t THEN "running" ELSE status[s]
                      /\ attempt'[s] = IF s = t THEN attempt[t] + 1 ELSE attempt[s]
                      /\ lease'[s] = IF s = t THEN "held" ELSE lease[s]
  /\ attemptRows' = attemptRows \cup
       {[task |-> t, attempt |-> attempt[t] + 1, status |-> "running"]}
  /\ \A x \in Workers : /\ pc'[x] = IF x = w THEN "claimed" ELSE pc[x]
                        /\ job'[x] = IF x = w THEN t ELSE job[x]

\* A claim takes a task nobody has, or one whose lease has lapsed.
LEMMA ClaimWrites ==
  ASSUME TypeOK, NEW w \in Workers, NEW t \in Tasks, Claim(w, t)
  PROVE  ClaimEffect(w, t)
  BY DEF Claim, Claimable, NextAttempt, ClaimEffect, TypeOK, DatabaseOK, WorkersOK,
         cancel, budget

\* What the loads add to LoadTaskEffect, LoadRunEffect, LoadSiblingsEffect.
LEMMA LoadsMore ==
  ASSUME TypeOK, NEW w \in Workers
  PROVE  /\ LoadTask(w) => pc[w] = "claimed" /\ view'[w].row = view[w].row
                           /\ UNCHANGED crashes
         /\ LoadRun(w) => pc[w] = "loadRun" /\ view'[w].row = view[w].row
                          /\ UNCHANGED crashes
         /\ LoadSiblings(w) =>
              /\ pc[w] = "loadSiblings" /\ UNCHANGED crashes
              /\ \E r \in attemptRows :
                   /\ r.task = job[w] /\ r.attempt = view[w].attempt
                   /\ view'[w].row = r.status
  BY DEF LoadTask, LoadRun, LoadSiblings, TypeOK, WorkersOK, View, budget

\* The row of the worker's own attempt, in the log after the session's flush.
OwnRow(w, s) ==
  attemptRows' = SetRow(attemptRows, job[w], view[w].attempt, view[w].row, s)

\* What Succeed, Fail and RetryTask do to the rows of their own attempt.
LEMMA CommitsMore ==
  ASSUME TypeOK, Owners, NEW w \in Workers
  PROVE  /\ Succeed(w) =>
              /\ pc[w] = "executing" /\ status'[job[w]] = "succeeded"
              /\ OwnRow(w, "succeeded") /\ UNCHANGED crashes
              /\ \A t \in Tasks \ {job[w]} : lease'[t] = lease[t]
         /\ Fail(w) =>
              /\ pc[w] = "executing"
              /\ OwnRow(w, "failed") /\ UNCHANGED <<crashes, lease>>
         /\ RetryTask(w) =>
              /\ pc[w] = "failing" /\ status'[job[w]] = RetryStatus(w)
              /\ UNCHANGED <<attemptRows, crashes>>
              /\ \A t \in Tasks \ {job[w]} : lease'[t] = lease[t]
<1>1. ASSUME Succeed(w)
      PROVE  /\ pc[w] = "executing" /\ status'[job[w]] = "succeeded"
             /\ OwnRow(w, "succeeded") /\ UNCHANGED crashes
             /\ \A t \in Tasks \ {job[w]} : lease'[t] = lease[t]
  <2>1. /\ pc[w] = "executing" /\ job[w] \in Tasks
        /\ view[w].status \in Statuses /\ status \in Statuses
    BY <1>1 DEF Succeed, TypeOK, WorkersOK, DatabaseOK, View, Statuses
  <2>2. view[w].status[job[w]] # "succeeded"
    BY <2>1 DEF Owners, OwnRowLoaded
  <2>3. status' = Flush(status, view[w].status,
                        [view[w].status EXCEPT ![job[w]] = "succeeded"])
    BY <1>1 DEF Succeed
  <2>4. status'[job[w]] = "succeeded"
    BY <2>1, <2>2, <2>3 DEF Flush, Statuses
  <2>5. OwnRow(w, "succeeded") /\ UNCHANGED crashes
    BY <1>1 DEF Succeed, OwnRow, budget
  <2>6. \A t \in Tasks \ {job[w]} : lease'[t] = lease[t]
    BY <1>1 DEF Succeed, TypeOK, DatabaseOK
  <2> QED
    BY <2>1, <2>4, <2>5, <2>6
<1>2. ASSUME Fail(w)
      PROVE  /\ pc[w] = "executing"
             /\ OwnRow(w, "failed") /\ UNCHANGED <<crashes, lease>>
  BY <1>2 DEF Fail, OwnRow, Owners, budget
<1>3. ASSUME RetryTask(w)
      PROVE  /\ pc[w] = "failing" /\ status'[job[w]] = RetryStatus(w)
             /\ UNCHANGED <<attemptRows, crashes>>
             /\ \A t \in Tasks \ {job[w]} : lease'[t] = lease[t]
  <2>1. /\ pc[w] = "failing" /\ job[w] \in Tasks
        /\ view[w].status \in Statuses /\ status \in Statuses
    BY <1>3 DEF RetryTask, TypeOK, WorkersOK, DatabaseOK, View, Statuses
  <2>2. view[w].status[job[w]] \notin {"failed", "retrying"}
    BY <2>1 DEF Owners, OwnRowLoaded
  <2>3. status' = Flush(status, view[w].status,
                        [view[w].status EXCEPT ![job[w]] = RetryStatus(w)])
    BY <1>3 DEF RetryTask, RetryStatus
  <2>4. status'[job[w]] = RetryStatus(w)
    BY <2>1, <2>2, <2>3 DEF Flush, Statuses, RetryStatus
  <2>5. UNCHANGED <<attemptRows, crashes>>
    BY <1>3 DEF RetryTask, budget
  <2>6. \A t \in Tasks \ {job[w]} : lease'[t] = lease[t]
    BY <1>3 DEF RetryTask, TypeOK, DatabaseOK
  <2> QED
    BY <2>1, <2>4, <2>5, <2>6
<1> QED
  BY <1>1, <1>2, <1>3

\* AdvanceEffect for the one way in which advance_run can end here.
PassEffect(w) ==
  /\ pc[w] = "advancing" /\ view[w].status \in Statuses
  /\ UNCHANGED <<attempt, attemptRows, lease, stage, crashes>>
  /\ \A t \in Tasks :
       \/ status'[t] = status[t]
       \/ status'[t] = "cancelled" /\ t \in Doomed(view[w].status)
       \/ status'[t] = "ready" /\ MayRelease(w, t)
  /\ \A t \in Released(view[w].status) : status'[t] = "ready"
  /\ runStatus' = runStatus \/ runStatus' # "running"
  /\ Untouched(w)
  /\ pc'[w] = "idle" /\ job'[w] = NoTask /\ view'[w] = EmptyView

\* advance_run releases exactly what its session lets it release.
LEMMA PassWrites ==
  ASSUME TypeOK, NEW w \in Workers, AdvanceRun(w)
  PROVE  PassEffect(w)
<1>1. AdvanceEffect(w)
  BY AdvanceWrites
<1>2. /\ pc[w] = "advancing" /\ status \in Statuses
      /\ status' = Flush(status, view[w].status, Advanced(view[w].status))
      /\ UNCHANGED <<attempt, attemptRows, lease, stage, crashes>>
      /\ pc'[w] = "idle" /\ job'[w] = NoTask /\ view'[w] = EmptyView
  BY DEF AdvanceRun, AdvanceCommit, TypeOK, DatabaseOK, WorkersOK, Statuses, cancel,
         budget
<1>3. \A t \in Released(view[w].status) : MayRelease(w, t)
  BY <1>2 DEF Released, MayRelease, Loaded
<1>4. ASSUME NEW t \in Released(view[w].status) PROVE status'[t] = "ready"
  <2>1. t \in Tasks /\ view[w].status[t] = "blocked" /\ t \notin Doomed(view[w].status)
    BY <1>4 DEF Released, Doomed
  <2>2. Advanced(view[w].status)[t] = "ready"
    BY <1>4, <2>1 DEF Advanced
  <2> QED
    BY <1>2, <2>1, <2>2 DEF Flush
<1>5. runStatus' = runStatus \/ runStatus' # "running"
  BY <1>1, VerdictType DEF AdvanceEffect
<1> QED
  BY <1>1, <1>2, <1>3, <1>4, <1>5 DEF AdvanceEffect, PassEffect

\* Whose position, job and session are as before may release what it could.
LEMMA ReleaseKept ==
  ASSUME NEW x, pc'[x] = pc[x], job'[x] = job[x], view'[x] = view[x]
  PROVE  \A t : MayRelease(x, t)' <=> MayRelease(x, t)
  BY DEF MayRelease

\* The end of an execution lets its session release what it could, or less.
LEMMA CommitsReleaseNoMore ==
  ASSUME TypeOK, Owners, NEW w \in Workers, Succeed(w) \/ Fail(w) \/ RetryTask(w)
  PROVE  \A x \in Workers, s \in Tasks : MayRelease(x, s)' => MayRelease(x, s)
<1>1. \/ SucceedEffect(w) /\ pc[w] = "executing"
      \/ FailEffect(w) /\ pc[w] = "executing"
      \/ RetryEffect(w) /\ pc[w] = "failing"
  BY SucceedWrites, FailWrites, RetryWrites, CommitsMore
<1> QED
  BY <1>1, EngineAssumption
     DEF SucceedEffect, FailEffect, RetryEffect, RetryStatus, Untouched, MayRelease,
         Loaded

-----------------------------------------------------------------------------
(* One owner                                                               *)

\* A run in which a cancel request has committed is not running.
LEMMA RunningIsUncancelled ==
  Owners /\ runStatus = "running" => Uncancelled
  BY DEF Owners, Uncancelled

\* Whoever may be claimed while the run is open has no owner.
LEMMA ClaimsAreFree ==
  ASSUME TypeOK, Owners, Uncancelled => OpenInv,
         NEW w \in Workers, NEW t \in Tasks, ClaimEffect(w, t)
  PROVE  /\ Uncancelled
         /\ \A x \in Workers : pc[x] \in Executing => job[x] # t
         /\ \A x \in Workers : ~MayRelease(x, t)
<1>1. Uncancelled
  BY RunningIsUncancelled DEF ClaimEffect
<1> QED
  BY <1>1 DEF ClaimEffect, OpenInv, Leased, OneRelease

\* Every step keeps at most one worker at work on a task.
LEMMA OwnersStep ==
  ASSUME TypeOK, DependencyInv, Owners, Unattempted, Uncancelled => OpenInv, CalmNext
  PROVE  Owners'
<1> USE DEF Owners
<1>0. \A x \in Workers : pc[x] \in Executing => job[x] \in Tasks /\ attempt[job[x]] > 0
  BY EngineAssumption DEF TypeOK, WorkersOK, DependencyInv, JobsWereClaimed, Executing
<1>1. ASSUME NEW w \in Workers, NEW t \in Tasks, Claim(w, t) PROVE Owners'
  <2>1. ClaimEffect(w, t)
    BY <1>1, ClaimWrites
  <2>2. \A x \in Workers : pc[x] \in Executing => job[x] # t
    BY <2>1, ClaimsAreFree
  <2>3. OwnRowLoaded \subseteq Executing /\ "claimed" \notin OwnRowLoaded
    BY DEF OwnRowLoaded, Executing
  <2> QED
    BY <1>0, <2>1, <2>2, <2>3 DEF ClaimEffect
<1>2. ASSUME NEW w \in Workers, LoadTask(w) PROVE Owners'
  <2>1. LoadTaskEffect(w) /\ pc[w] = "claimed"
    BY <1>2, LoadTaskReads, LoadsMore
  <2> QED
    BY <2>1 DEF LoadTaskEffect, Untouched, db, cancel, Executing, OwnRowLoaded
<1>3. ASSUME NEW w \in Workers, LoadRun(w) \/ LoadSiblings(w) PROVE Owners'
  <2>1. /\ LoadRunEffect(w) \/ LoadSiblingsEffect(w)
        /\ pc[w] \in {"loadRun", "loadSiblings"}
    BY <1>3, LoadRunReads, LoadSiblingsReads, LoadsMore
  <2> QED
    BY <2>1 DEF LoadRunEffect, LoadSiblingsEffect, Untouched, db, cancel, Executing,
                OwnRowLoaded
<1>4. ASSUME NEW w \in Workers, Succeed(w) \/ RetryTask(w) PROVE Owners'
  <2>1. /\ SucceedEffect(w) \/ RetryEffect(w)
        /\ pc[w] \in {"executing", "failing"}
    BY <1>4, SucceedWrites, RetryWrites, CommitsMore
  <2>2. \A x \in Workers : pc'[x] \in Executing
          => x # w /\ pc[x] \in Executing /\ job[x] # job[w]
    BY <2>1 DEF SucceedEffect, RetryEffect, Untouched, Executing
  <2>3. OwnRowLoaded \subseteq Executing
    BY DEF OwnRowLoaded, Executing
  <2> QED
    BY <1>0, <2>1, <2>2, <2>3 DEF SucceedEffect, RetryEffect, Untouched, cancel
<1>5. ASSUME NEW w \in Workers, Fail(w) PROVE Owners'
  <2>1. FailEffect(w) /\ pc[w] = "executing"
    BY <1>5, FailWrites, CommitsMore
  <2> QED
    BY <2>1 DEF FailEffect, Untouched, cancel, Executing, OwnRowLoaded
<1>6. ASSUME NEW w \in Workers, AdvanceRun(w) PROVE Owners'
  <2>1. PassEffect(w)
    BY <1>6, PassWrites
  <2>2. \A x \in Workers : pc[x] \in Executing => ~MayRelease(w, job[x])
    BY <1>0 DEF Unattempted
  <2>3. \A x \in Workers : pc'[x] \in Executing => pc[x] \in Executing /\ x # w
    BY <2>1 DEF PassEffect, Untouched, Executing
  <2>4. OwnRowLoaded \subseteq Executing
    BY DEF OwnRowLoaded, Executing
  <2> QED
    BY <1>0, <2>1, <2>2, <2>3, <2>4 DEF PassEffect, Untouched
<1>7. ASSUME NEW w \in Workers, Crash(w) \/ Restart(w) PROVE Owners'
  <2>1. CrashEffect(w)
    BY <1>7, CrashWrites
  <2> QED
    BY <2>1 DEF CrashEffect, db, cancel, Executing, OwnRowLoaded
<1>8. ASSUME NEW t \in Tasks, LeaseExpires(t) \/ BackoffElapses(t) PROVE Owners'
  BY <1>8 DEF LeaseExpires, BackoffElapses, worker, cancel
<1>9. ASSUME NEW c \in Cancellers, Cancel(c) \/ CancelDies(c) PROVE Owners'
  <2>1. CancelEffect(c)
    BY <1>9, CancelWrites
  <2>2. stage'[c] = "done" => runStatus' # "running"
    BY <1>9 DEF Cancel, CancelCheck, CancelFlush, CancelCommit, CancelDies, TypeOK,
                RequestsOK
  <2>3. OwnRowLoaded \subseteq Executing
    BY DEF OwnRowLoaded, Executing
  <2>4. runStatus # "running" => runStatus' # "running"
    BY <2>1 DEF CancelEffect
  <2> QED
    BY <1>0, <2>1, <2>2, <2>3, <2>4 DEF CancelEffect, worker
<1>10. CASE UNCHANGED vars
  BY <1>10 DEF vars, db, worker, cancel
<1> QED
  BY <1>1, <1>2, <1>3, <1>4, <1>5, <1>6, <1>7, <1>8, <1>9, <1>10 DEF CalmNext

\* No attempt has been made at what is blocked, ready or yet to be released.
LEMMA UnattemptedStep ==
  ASSUME TypeOK, Owners, Unattempted, Uncancelled => OpenInv, CalmNext
  PROVE  Unattempted'
<1> USE DEF Unattempted
<1>1. ASSUME NEW w \in Workers, NEW t \in Tasks, Claim(w, t) PROVE Unattempted'
  <2>1. ClaimEffect(w, t)
    BY <1>1, ClaimWrites
  <2>2. \A x \in Workers : ~MayRelease(x, t)
    BY <2>1, ClaimsAreFree
  <2>3. \A x \in Workers, s \in Tasks : MayRelease(x, s)' => MayRelease(x, s)
    BY <2>1 DEF ClaimEffect, MayRelease, Loaded
  <2> QED
    BY <2>1, <2>2, <2>3 DEF ClaimEffect
<1>2. ASSUME NEW w \in Workers, LoadTask(w) \/ LoadRun(w) \/ Crash(w) \/ Restart(w)
      PROVE Unattempted'
  <2>1. LoadTaskEffect(w) \/ LoadRunEffect(w) \/ CrashEffect(w)
    BY <1>2, LoadTaskReads, LoadRunReads, CrashWrites
  <2>2. \A x \in Workers, s \in Tasks : MayRelease(x, s)' => MayRelease(x, s)
    BY <2>1 DEF LoadTaskEffect, LoadRunEffect, CrashEffect, Untouched, MayRelease,
                Loaded
  <2> QED
    BY <2>1, <2>2 DEF LoadTaskEffect, LoadRunEffect, CrashEffect, db
<1>3. ASSUME NEW w \in Workers, LoadSiblings(w) PROVE Unattempted'
  <2>1. LoadSiblingsEffect(w) /\ pc[w] = "loadSiblings"
    BY <1>3, LoadSiblingsReads, LoadsMore
  <2>2. view[w].status[job[w]] # "blocked"
    BY <2>1 DEF Owners, OwnRowLoaded
  <2>3. \A s \in Tasks : MayRelease(w, s)' => status[s] = "blocked"
    BY <2>1, <2>2 DEF LoadSiblingsEffect, MayRelease
  <2>4. \A x \in Workers \ {w}, s \in Tasks : MayRelease(x, s)' => MayRelease(x, s)
    BY <2>1, ReleaseKept DEF LoadSiblingsEffect, Untouched
  <2> QED
    BY <2>1, <2>3, <2>4 DEF LoadSiblingsEffect, db
<1>4. ASSUME NEW w \in Workers, Succeed(w) \/ Fail(w) \/ RetryTask(w)
      PROVE Unattempted'
  <2>1. SucceedEffect(w) \/ FailEffect(w) \/ RetryEffect(w)
    BY <1>4, SucceedWrites, FailWrites, RetryWrites
  <2>2. \A x \in Workers, s \in Tasks : MayRelease(x, s)' => MayRelease(x, s)
    BY <1>4, CommitsReleaseNoMore
  <2> QED
    BY <2>1, <2>2 DEF SucceedEffect, FailEffect, RetryEffect, RetryStatus
<1>5. ASSUME NEW w \in Workers, AdvanceRun(w) PROVE Unattempted'
  <2>1. PassEffect(w)
    BY <1>5, PassWrites
  <2>2. \A x \in Workers, s \in Tasks : MayRelease(x, s)' => MayRelease(x, s)
    BY <2>1 DEF PassEffect, Untouched, MayRelease, Loaded
  <2> QED
    BY <2>1, <2>2 DEF PassEffect
<1>6. ASSUME NEW t \in Tasks, LeaseExpires(t) \/ BackoffElapses(t) PROVE Unattempted'
  BY <1>6 DEF LeaseExpires, BackoffElapses, worker, MayRelease
<1>7. ASSUME NEW c \in Cancellers, Cancel(c) \/ CancelDies(c) PROVE Unattempted'
  <2>1. CancelEffect(c)
    BY <1>7, CancelWrites
  <2> QED
    BY <2>1 DEF CancelEffect, worker, MayRelease
<1>8. CASE UNCHANGED vars
  BY <1>8 DEF vars, db, worker, MayRelease
<1> QED
  BY <1>1, <1>2, <1>3, <1>4, <1>5, <1>6, <1>7, <1>8 DEF CalmNext

-----------------------------------------------------------------------------
(* The log                                                                 *)

\* The same without CASE.
LEMMA FittingLog == LogAgreesWithStatus <=> LogFits
<1>1. ASSUME NEW s, NEW q
      PROVE  (CASE s = "succeeded" -> q = "succeeded"
                [] s \in {"failed", "retrying"} -> q = "failed"
                [] s = "running" -> q # "succeeded"
                [] OTHER -> TRUE) <=> RowFits(s, q)
  BY DEF RowFits
<1> QED
  BY <1>1 DEF LogAgreesWithStatus, LogFits

\* A flush of the row of the last attempt leaves the other rows alone.
LEMMA OwnRowWritten ==
  ASSUME NEW w \in Workers, NEW s, OwnRow(w, s), view[w].row # s,
         view[w].attempt = attempt[job[w]]
  PROVE  \A r \in attemptRows' :
           \/ r.task = job[w] /\ r.attempt = attempt[job[w]] /\ r.status = s
           \/ r \in attemptRows /\ ~(r.task = job[w] /\ r.attempt = attempt[job[w]])
  BY DEF OwnRow, SetRow

\* Every step keeps the log in agreement with the statuses.
LEMMA LogTellsStep ==
  ASSUME TypeOK, Owners, Unattempted, LogInv, LogTells, Uncancelled => OpenInv, CalmNext
  PROVE  LogTells'
<1>0. \A r \in attemptRows : /\ r.task \in Tasks /\ attempt[r.task] \in Nat
                             /\ r.attempt \in 1 .. attempt[r.task]
  BY DEF TypeOK, DatabaseOK, LogInv, HasRow
<1> USE DEF LogTells
<1>1. ASSUME NEW w \in Workers, NEW t \in Tasks, Claim(w, t) PROVE LogTells'
  <2> DEFINE row == [task |-> t, attempt |-> attempt[t] + 1, status |-> "running"]
  <2>1. ClaimEffect(w, t)
    BY <1>1, ClaimWrites
  <2>2. \A x \in Workers : pc[x] \in Executing => job[x] # t
    BY <2>1, ClaimsAreFree
  <2>3. /\ attemptRows' = attemptRows \cup {row}
        /\ row.task = t /\ row.attempt = attempt[t] + 1 /\ row.status = "running"
    BY <2>1 DEF ClaimEffect
  <2> HIDE DEF row
  <2>4. \A r \in attemptRows : r.task = t => r.status # "succeeded"
    <3> SUFFICES ASSUME NEW r \in attemptRows, r.task = t PROVE r.status # "succeeded"
      OBVIOUS
    <3>1. r.attempt \in Nat /\ attempt[t] \in Nat /\ r.attempt \in 1 .. attempt[t]
      BY <1>0
    <3>2. status[t] # "ready"
      BY <3>1 DEF Unattempted
    <3> QED
      BY <2>1, <3>1, <3>2 DEF ClaimEffect, LogFits, RowFits
  <2>5. LogFits'
    <3> SUFFICES ASSUME NEW r \in attemptRows'
                 PROVE  /\ r.attempt < attempt'[r.task] => r.status # "succeeded"
                        /\ r.attempt = attempt'[r.task]
                             => RowFits(status'[r.task], r.status)
      BY DEF LogFits, RowFits
    <3>1. CASE r = row
      BY <2>1, <2>3, <3>1 DEF ClaimEffect, RowFits
    <3>2. CASE r \in attemptRows /\ r.task = t
      BY <1>0, <2>1, <2>4, <3>2 DEF ClaimEffect
    <3>3. CASE r \in attemptRows /\ r.task # t
      BY <1>0, <2>1, <3>3 DEF ClaimEffect, LogFits
    <3> QED
      BY <2>3, <3>1, <3>2, <3>3
  <2>6. LastRow(t, "running")'
    BY <1>0, <2>1, <2>3 DEF ClaimEffect, LastRow
  <2>7. ASSUME NEW x \in Workers \ {w}, NEW s, pc[x] \in Executing, LastRow(job[x], s)
        PROVE  LastRow(job[x], s)'
    <3>1. job[x] # t /\ job'[x] = job[x] /\ job[x] \in Tasks
      BY <2>1, <2>2, <2>7 DEF ClaimEffect, TypeOK, WorkersOK, Executing
    <3> QED
      BY <2>1, <2>3, <2>7, <3>1 DEF ClaimEffect, LastRow
  <2>8. /\ job'[w] = t /\ pc'[w] = "claimed" /\ view' = view
        /\ \A x \in Workers \ {w} : pc'[x] = pc[x]
    BY <2>1 DEF ClaimEffect
  <2> QED
    BY <2>5, <2>6, <2>7, <2>8 DEF Executing
<1>2. ASSUME NEW w \in Workers, LoadTask(w) \/ LoadRun(w) PROVE LogTells'
  <2>1. \/ LoadTaskEffect(w) /\ pc[w] = "claimed"
        \/ LoadRunEffect(w) /\ pc[w] = "loadRun"
    BY <1>2, LoadTaskReads, LoadRunReads, LoadsMore
  <2> QED
    BY <2>1 DEF LoadTaskEffect, LoadRunEffect, Untouched, db, LogFits, LastRow
<1>3. ASSUME NEW w \in Workers, LoadSiblings(w) PROVE LogTells'
  <2>1. LoadSiblingsEffect(w) /\ pc[w] = "loadSiblings"
    BY <1>3, LoadSiblingsReads, LoadsMore
  <2>2. PICK r \in attemptRows : /\ r.task = job[w] /\ r.attempt = view[w].attempt
                                 /\ view'[w].row = r.status
    BY <1>3, LoadsMore
  <2>3. view'[w].row = "running"
    BY <2>1, <2>2 DEF Owners, OwnRowLoaded, LastRow
  <2> QED
    BY <2>1, <2>3 DEF LoadSiblingsEffect, Untouched, db, LogFits, LastRow
<1>4. ASSUME NEW w \in Workers, Succeed(w) \/ Fail(w) PROVE LogTells'
  <2>1. /\ SucceedEffect(w) \/ FailEffect(w)
        /\ pc[w] = "executing"
    BY <1>4, SucceedWrites, FailWrites, CommitsMore
  <2>2. /\ view[w].row = "running" /\ view[w].attempt = attempt[job[w]]
        /\ job[w] \in Tasks /\ attempt' = attempt /\ job' = job /\ Untouched(w)
        /\ \A t \in Tasks \ {job[w]} : status'[t] = status[t]
    BY <2>1 DEF Owners, OwnRowLoaded, SucceedEffect, FailEffect
  <2>3. PICK s \in {"succeeded", "failed"} :
          /\ OwnRow(w, s)
          /\ s = "succeeded" => status'[job[w]] = "succeeded" /\ pc'[w] = "advancing"
          /\ s = "failed" => status'[job[w]] = status[job[w]] /\ pc'[w] = "failing"
    <3>1. CASE Succeed(w)
      BY <3>1, SucceedWrites, CommitsMore DEF SucceedEffect
    <3>2. CASE Fail(w)
      BY <3>2, FailWrites, CommitsMore DEF FailEffect
    <3> QED
      BY <1>4, <3>1, <3>2
  <2>4. \A r \in attemptRows' :
          \/ r.task = job[w] /\ r.attempt = attempt[job[w]] /\ r.status = s
          \/ r \in attemptRows /\ ~(r.task = job[w] /\ r.attempt = attempt[job[w]])
    BY <2>2, <2>3, OwnRowWritten
  <2>5. status[job[w]] \in {"running", "cancelled"} /\ attempt[job[w]] \in Nat
    BY <2>1, <2>2 DEF Owners, Executing, TypeOK, DatabaseOK
  <2>6. LogFits'
    <3> SUFFICES ASSUME NEW r \in attemptRows'
                 PROVE  /\ r.attempt < attempt[r.task] => r.status # "succeeded"
                        /\ r.attempt = attempt[r.task]
                             => RowFits(status'[r.task], r.status)
      BY <2>2 DEF LogFits, RowFits
    <3>1. CASE r.task = job[w] /\ r.attempt = attempt[job[w]] /\ r.status = s
      BY <2>3, <2>5, <3>1 DEF RowFits
    <3>2. CASE r \in attemptRows /\ ~(r.task = job[w] /\ r.attempt = attempt[job[w]])
      BY <1>0, <2>2, <3>2 DEF LogFits
    <3> QED
      BY <2>4, <3>1, <3>2
  <2>7. s = "failed" => LastRow(job[w], "failed")'
    BY <2>2, <2>4 DEF LastRow
  <2>8. ASSUME NEW x \in Workers \ {w}, NEW q, pc[x] \in Executing, LastRow(job[x], q)
        PROVE  LastRow(job[x], q)'
    <3>1. job[x] # job[w]
      BY <2>1, <2>8 DEF Owners, Executing
    <3> QED
      BY <2>2, <2>4, <2>8, <3>1 DEF LastRow
  <2> QED
    BY <2>2, <2>3, <2>6, <2>7, <2>8 DEF Untouched, Executing
<1>5. ASSUME NEW w \in Workers, RetryTask(w) PROVE LogTells'
  <2>1. /\ RetryEffect(w) /\ pc[w] = "failing" /\ attemptRows' = attemptRows
        /\ status'[job[w]] = RetryStatus(w)
    BY <1>5, RetryWrites, CommitsMore
  <2>2. LogFits'
    <3> SUFFICES ASSUME NEW r \in attemptRows, r.attempt = attempt[r.task]
                 PROVE  RowFits(status'[r.task], r.status)
      BY <2>1 DEF RetryEffect, LogFits, RowFits
    <3>1. CASE r.task = job[w]
      BY <2>1, <3>1 DEF LastRow, RowFits, RetryStatus
    <3>2. CASE r.task # job[w]
      BY <1>0, <2>1, <3>2 DEF RetryEffect, LogFits
    <3> QED
      BY <3>1, <3>2
  <2> QED
    BY <2>1, <2>2 DEF RetryEffect, Untouched, LastRow
<1>6. ASSUME NEW w \in Workers, AdvanceRun(w) PROVE LogTells'
  <2>1. PassEffect(w)
    BY <1>6, PassWrites
  <2>2. LogFits'
    BY <1>0, <2>1 DEF PassEffect, LogFits, RowFits
  <2> QED
    BY <2>1, <2>2 DEF PassEffect, Untouched, LastRow
<1>7. ASSUME NEW w \in Workers, Crash(w) \/ Restart(w) PROVE LogTells'
  <2>1. CrashEffect(w)
    BY <1>7, CrashWrites
  <2> QED
    BY <2>1 DEF CrashEffect, db, LogFits, LastRow
<1>8. ASSUME NEW t \in Tasks, LeaseExpires(t) \/ BackoffElapses(t) PROVE LogTells'
  BY <1>8 DEF LeaseExpires, BackoffElapses, worker, LogFits, LastRow
<1>9. ASSUME NEW c \in Cancellers, Cancel(c) \/ CancelDies(c) PROVE LogTells'
  <2>1. CancelEffect(c)
    BY <1>9, CancelWrites
  <2>2. LogFits'
    BY <1>0, <2>1 DEF CancelEffect, LogFits, RowFits
  <2> QED
    BY <2>1, <2>2 DEF CancelEffect, worker, LastRow
<1>10. CASE UNCHANGED vars
  BY <1>10 DEF vars, db, worker, LogFits, LastRow
<1> QED
  BY <1>1, <1>2, <1>3, <1>4, <1>5, <1>6, <1>7, <1>8, <1>9, <1>10 DEF CalmNext

-----------------------------------------------------------------------------
(* Until a cancellation commits                                            *)

\* A cancellation that has committed stays committed, and a step of a cancel
\* request after which none has leaves database and workers alone.
LEMMA StillUncancelled ==
  ASSUME TypeOK, CalmNext, Uncancelled'
  PROVE  /\ Uncancelled
         /\ \A c \in Cancellers : Cancel(c) \/ CancelDies(c) => UNCHANGED <<db, worker, crashes>>
<1>1. ASSUME NEW c \in Cancellers, Cancel(c) \/ CancelDies(c)
      PROVE  UNCHANGED <<db, worker, crashes>> /\ Uncancelled
  <2>1. CancelEffect(c)
    BY <1>1, CancelWrites
  <2>2. UNCHANGED db /\ stage[c] # "done"
    BY <2>1 DEF CancelEffect, Uncancelled
  <2> QED
    BY <2>1, <2>2 DEF CancelEffect, budget, Uncancelled
<1>2. CASE \A c \in Cancellers : ~(Cancel(c) \/ CancelDies(c))
  <2>1. stage' = stage
    <3>1. ASSUME NEW w \in Workers,
                 \/ \E t \in Tasks : Claim(w, t)
                 \/ LoadTask(w) \/ LoadRun(w) \/ LoadSiblings(w) \/ Succeed(w)
                 \/ Fail(w) \/ RetryTask(w) \/ AdvanceRun(w) \/ Crash(w) \/ Restart(w)
          PROVE  stage' = stage
      BY <3>1 DEF Claim, LoadTask, LoadRun, LoadSiblings, Succeed, Fail, RetryTask,
                  AdvanceRun, Crash, Restart, cancel
    <3>2. ASSUME NEW t \in Tasks, LeaseExpires(t) \/ BackoffElapses(t)
          PROVE  stage' = stage
      BY <3>2 DEF LeaseExpires, BackoffElapses, cancel
    <3> QED
      BY <1>2, <3>1, <3>2 DEF CalmNext, vars, cancel
  <2> QED
    BY <1>2, <2>1 DEF Uncancelled
<1> QED
  BY <1>1, <1>2

\* advance_run changes blocked tasks only, whatever its session has missed.
LEMMA PassChangesBlocked ==
  ASSUME Layered, TypeOK, OpenInv, NEW w \in Workers, PassEffect(w), NEW t \in Tasks,
         status'[t] # status[t]
  PROVE  /\ status[t] = "blocked"
         /\ \/ status'[t] = "cancelled" /\ \E d \in Deps[t] : status[d] \in {"failed", "cancelled"}
            \/ /\ status'[t] = "ready" /\ MayRelease(w, t)
               /\ \A d \in Deps[t] : status[d] = "succeeded" /\ view[w].status[d] = "succeeded"
<1> USE DEF OpenInv
<1>1. Level \in [Tasks -> Nat] /\ LayeredBy(Level) /\ Deps[t] \subseteq Tasks
  BY LevelsExist, EngineAssumption
<1>2. pc[w] = "advancing" /\ pc[w] \in Loaded
  BY DEF PassEffect, Loaded
<1>3. CASE status'[t] = "cancelled" /\ t \in Doomed(view[w].status)
  <2>1. PICK d \in Deps[t] : view[w].status[d] \in {"failed", "cancelled"}
    BY <1>3 DEF Doomed
  <2>2. status[d] \in {"failed", "cancelled"} /\ Level[d] < Level[t]
    BY <1>1, <1>2, <2>1 DEF TrueViews, Terminal, LayeredBy
  <2>3. status[t] \notin Reached
    BY <1>1, <2>1, <2>2 DEF Layers, LowerSucceeded
  <2>4. status[t] = "blocked"
    BY <1>3, <2>3 DEF Reached, TypeOK, DatabaseOK, TaskStatus
  <2> QED
    BY <1>3, <2>1, <2>2, <2>4
<1>4. CASE status'[t] = "ready" /\ MayRelease(w, t)
  <2>1. status[t] = "blocked"
    BY <1>4 DEF OneRelease
  <2>2. \A d \in Deps[t] : view[w].status[d] = "succeeded"
    BY <1>2, <1>4 DEF MayRelease
  <2>3. \A d \in Deps[t] : status[d] = "succeeded"
    BY <1>1, <1>2, <2>2 DEF TrueViews, Terminal
  <2> QED
    BY <1>4, <2>1, <2>2, <2>3
<1> QED
  BY <1>3, <1>4 DEF PassEffect

\* Every step leaves a working owner its status and its lease.
LEMMA LeasedStep ==
  ASSUME Layered, TypeOK, Owners, OpenInv, CalmNext, Uncancelled'
  PROVE  Leased'
<1> USE DEF OpenInv, Leased
<1>0. /\ \A x \in Workers : pc[x] \in Executing => job[x] \in Tasks
      /\ OwnRowLoaded \subseteq Executing /\ "claimed" \notin OwnRowLoaded
  BY DEF TypeOK, WorkersOK, Executing, OwnRowLoaded
<1>1. ASSUME NEW w \in Workers, NEW t \in Tasks, Claim(w, t) PROVE Leased'
  <2>1. ClaimEffect(w, t)
    BY <1>1, ClaimWrites
  <2>2. \A x \in Workers : pc[x] \in Executing => job[x] # t
    BY <2>1 DEF ClaimEffect
  <2> QED
    BY <1>0, <2>1, <2>2 DEF ClaimEffect
<1>2. ASSUME NEW w \in Workers, LoadTask(w) \/ LoadRun(w) \/ LoadSiblings(w)
      PROVE Leased'
  <2>1. \/ LoadTaskEffect(w) /\ pc[w] = "claimed"
        \/ LoadRunEffect(w) /\ pc[w] = "loadRun"
        \/ LoadSiblingsEffect(w) /\ pc[w] = "loadSiblings"
    BY <1>2, LoadTaskReads, LoadRunReads, LoadSiblingsReads, LoadsMore
  <2> QED
    BY <2>1 DEF LoadTaskEffect, LoadRunEffect, LoadSiblingsEffect, Untouched, db,
                Executing, OwnRowLoaded
<1>3. ASSUME NEW w \in Workers, Succeed(w) \/ RetryTask(w) PROVE Leased'
  <2>1. /\ SucceedEffect(w) \/ RetryEffect(w)
        /\ pc[w] \in {"executing", "failing"}
        /\ \A t \in Tasks \ {job[w]} : lease'[t] = lease[t]
    BY <1>3, SucceedWrites, RetryWrites, CommitsMore
  <2>2. \A x \in Workers : pc'[x] \in Executing
          => x # w /\ pc[x] \in Executing /\ job[x] # job[w]
    BY <2>1 DEF SucceedEffect, RetryEffect, Untouched, Executing, Owners
  <2> QED
    BY <1>0, <2>1, <2>2 DEF SucceedEffect, RetryEffect, Untouched
<1>4. ASSUME NEW w \in Workers, Fail(w) PROVE Leased'
  <2>1. FailEffect(w) /\ pc[w] = "executing" /\ lease' = lease
    BY <1>4, FailWrites, CommitsMore
  <2> QED
    BY <2>1 DEF FailEffect, Untouched, Executing, OwnRowLoaded
<1>5. ASSUME NEW w \in Workers, AdvanceRun(w) PROVE Leased'
  <2>1. PassEffect(w)
    BY <1>5, PassWrites
  <2>2. \A x \in Workers : pc[x] \in Executing => status'[job[x]] = status[job[x]]
    BY <1>0, <2>1, PassChangesBlocked
  <2> QED
    BY <1>0, <2>1, <2>2 DEF PassEffect, Untouched, Executing
<1>6. ASSUME NEW w \in Workers, Crash(w) \/ Restart(w) PROVE Leased'
  <2>1. CrashEffect(w)
    BY <1>6, CrashWrites
  <2> QED
    BY <2>1 DEF CrashEffect, db, Executing, OwnRowLoaded
<1>7. ASSUME NEW t \in Tasks, LeaseExpires(t) \/ BackoffElapses(t) PROVE Leased'
  <2>1. UNCHANGED <<status, worker>>
    BY <1>7 DEF LeaseExpires, BackoffElapses
  <2>2. \A x \in Workers : pc[x] \in Executing => lease'[job[x]] = lease[job[x]]
    BY <1>0, <1>7 DEF LeaseExpires, BackoffElapses, Working, TypeOK, DatabaseOK
  <2> QED
    BY <2>1, <2>2 DEF worker
<1>8. ASSUME NEW c \in Cancellers, Cancel(c) \/ CancelDies(c) PROVE Leased'
  BY <1>8, StillUncancelled DEF db, worker
<1>9. CASE UNCHANGED vars
  BY <1>9 DEF vars, db, worker
<1> QED
  BY <1>1, <1>2, <1>3, <1>4, <1>5, <1>6, <1>7, <1>8, <1>9 DEF CalmNext

\* What a step may do to the status of a task in an uncancelled run.
Moves(t) ==
  \/ status[t] \in {"ready", "retrying"} /\ status'[t] = "running"
  \/ status[t] = "running" /\ status'[t] \in {"succeeded", "failed", "retrying"}
  \/ status[t] = "blocked" /\ status'[t] = "cancelled"
  \/ /\ status[t] = "blocked" /\ status'[t] = "ready"
     /\ \A d \in Deps[t] : status[d] = "succeeded"

\* The moves a task can make; no other session's flush takes one back.
LEMMA StatusMoves ==
  ASSUME Layered, TypeOK, Owners, OpenInv, CalmNext, Uncancelled'
  PROVE  \A t \in Tasks : status'[t] = status[t] \/ Moves(t)
<1> SUFFICES ASSUME NEW t \in Tasks, status'[t] # status[t] PROVE Moves(t)
  OBVIOUS
<1>1. ASSUME NEW w \in Workers, NEW u \in Tasks, Claim(w, u) PROVE Moves(t)
  <2>1. ClaimEffect(w, u)
    BY <1>1, ClaimWrites
  <2> QED
    BY <2>1 DEF ClaimEffect, Moves
<1>2. ASSUME NEW w \in Workers, Succeed(w) \/ RetryTask(w) PROVE Moves(t)
  <2>1. /\ SucceedEffect(w) \/ RetryEffect(w)
        /\ pc[w] \in {"executing", "failing"}
    BY <1>2, SucceedWrites, RetryWrites, CommitsMore
  <2>2. status[job[w]] = "running"
    BY <2>1 DEF OpenInv, Leased, Executing
  <2> QED
    BY <2>1, <2>2 DEF SucceedEffect, RetryEffect, RetryStatus, Moves
<1>3. ASSUME NEW w \in Workers, AdvanceRun(w) PROVE Moves(t)
  BY <1>3, PassWrites, PassChangesBlocked DEF Moves
<1>4. ASSUME NEW c \in Cancellers, Cancel(c) \/ CancelDies(c) PROVE Moves(t)
  BY <1>4, StillUncancelled DEF db
<1>5. CASE status' = status
  BY <1>5
<1> QED
  BY <1>1, <1>2, <1>3, <1>4, <1>5
     DEF CalmNext, LoadTask, LoadRun, LoadSiblings, Fail, Crash, Restart,
         LeaseExpires, BackoffElapses, vars, db

\* No step falsifies what a session has seen ended or sees blocked.
LEMMA TrueViewsStep ==
  ASSUME Layered, TypeOK, Owners, OpenInv, CalmNext, Uncancelled'
  PROVE  TrueViews'
<1>0. \A t \in Tasks : /\ status[t] \in Terminal => status'[t] = status[t]
                       /\ status'[t] = "blocked" => status[t] = "blocked"
  BY StatusMoves DEF Moves, Terminal
<1> USE DEF TrueViews
<1>1. ASSUME NEW x \in Workers, pc'[x] \in Loaded, view'[x].status = view[x].status,
             pc[x] \in Loaded, NEW t \in Tasks
      PROVE  /\ view'[x].status[t] \in Terminal => status'[t] = view'[x].status[t]
             /\ status'[t] = "blocked" => view'[x].status[t] = "blocked"
  BY <1>0, <1>1 DEF OpenInv
<1>2. ASSUME NEW w \in Workers, LoadSiblings(w) PROVE TrueViews'
  <2>1. LoadSiblingsEffect(w) /\ pc[w] = "loadSiblings"
    BY <1>2, LoadSiblingsReads, LoadsMore
  <2>2. status[job[w]] = "running" /\ view[w].status[job[w]] = "running"
    BY <2>1 DEF OpenInv, Leased, Executing, OwnRowLoaded
  <2>3. \A t \in Tasks : view'[w].status[t] = status[t]
    BY <2>1, <2>2 DEF LoadSiblingsEffect
  <2>4. UNCHANGED status /\ Untouched(w)
    BY <2>1 DEF LoadSiblingsEffect, db
  <2> QED
    BY <1>1, <2>3, <2>4 DEF Untouched
<1>3. ASSUME NEW w \in Workers, Succeed(w) \/ RetryTask(w) PROVE TrueViews'
  <2>1. /\ SucceedEffect(w) \/ RetryEffect(w)
        /\ pc[w] \in {"executing", "failing"}
        /\ status'[job[w]] = view'[w].status[job[w]]
        /\ status'[job[w]] # "blocked"
    BY <1>3, SucceedWrites, RetryWrites, CommitsMore
       DEF SucceedEffect, RetryEffect, RetryStatus
  <2>2. \A t \in Tasks \ {job[w]} : view'[w].status[t] = view[w].status[t]
    BY <2>1 DEF SucceedEffect, RetryEffect
  <2>3. pc[w] \in Loaded /\ Untouched(w)
    BY <2>1 DEF SucceedEffect, RetryEffect, Loaded
  <2> QED
    BY <1>0, <1>1, <2>1, <2>2, <2>3 DEF Untouched, OpenInv
<1>4. CASE \A x \in Workers : pc'[x] \in Loaded
             => pc[x] \in Loaded /\ view'[x].status = view[x].status
  BY <1>1, <1>4
<1>5. ASSUME NEW w \in Workers,
             \/ \E t \in Tasks : Claim(w, t)
             \/ LoadTask(w) \/ LoadRun(w) \/ Fail(w) \/ AdvanceRun(w)
             \/ Crash(w) \/ Restart(w)
      PROVE  TrueViews'
  <2>1. \/ \E t \in Tasks : ClaimEffect(w, t)
        \/ LoadTaskEffect(w) \/ LoadRunEffect(w) \/ PassEffect(w) \/ CrashEffect(w)
        \/ FailEffect(w) /\ pc[w] = "executing"
    BY <1>5, ClaimWrites, LoadTaskReads, LoadRunReads, FailWrites, CommitsMore,
       PassWrites, CrashWrites
  <2> QED
    BY <1>4, <2>1 DEF ClaimEffect, LoadTaskEffect, LoadRunEffect, FailEffect, PassEffect,
                      CrashEffect, Untouched, Loaded
<1>6. CASE UNCHANGED worker
  BY <1>4, <1>6 DEF worker
<1>7. ASSUME NEW c \in Cancellers, Cancel(c) \/ CancelDies(c) PROVE TrueViews'
  BY <1>6, <1>7, StillUncancelled
<1> QED
  BY <1>2, <1>3, <1>5, <1>6, <1>7 DEF CalmNext, LeaseExpires, BackoffElapses, vars

\* A task that runs while another is released is one of its dependencies.
LEMMA RunsBesideRelease ==
  ASSUME Layered, TypeOK, Layers, NEW a \in Tasks, NEW t \in Tasks,
         status[a] = "running", status[t] = "blocked",
         \A d \in Deps[t] : status[d] = "succeeded" \/ d = a
  PROVE  a \in Deps[t]
<1>1. Level \in [Tasks -> Nat] /\ LayeredBy(Level) /\ Deps[t] \subseteq Tasks
  BY LevelsExist, EngineAssumption
<1>2. Level[a] <= Level[t] /\ Level[a] # Level[t]
  BY <1>1 DEF Layers, LowerSucceeded, Reached
<1>3. PICK e \in Tasks : Level[e] + 1 = Level[t]
  BY <1>1, <1>2 DEF LayeredBy
<1>4. e \in Deps[t]
  BY <1>1, <1>3 DEF LayeredBy
<1>5. SUFFICES ASSUME a \notin Deps[t] PROVE FALSE
  OBVIOUS
<1>6. status[e] = "succeeded"
  BY <1>4, <1>5
<1>7. Level[a] < Level[e] \/ Level[a] + 1 = Level[t]
  BY <1>1, <1>2, <1>3
<1> QED
  BY <1>1, <1>5, <1>6, <1>7 DEF Layers, LowerSucceeded, Reached, LayeredBy

\* No step lets a second session release a task.
LEMMA OneReleaseStep ==
  ASSUME Layered, TypeOK, Owners, OpenInv, CalmNext, Uncancelled'
  PROVE  OneRelease'
<1> USE DEF OpenInv, OneRelease
<1>1. ASSUME NEW w \in Workers, NEW t \in Tasks, Claim(w, t) PROVE OneRelease'
  <2>1. ClaimEffect(w, t)
    BY <1>1, ClaimWrites
  <2>2. \A x \in Workers, s \in Tasks : MayRelease(x, s)' => MayRelease(x, s) /\ s # t
    BY <2>1 DEF ClaimEffect, MayRelease, Loaded
  <2> QED
    BY <2>1, <2>2 DEF ClaimEffect
<1>2. ASSUME NEW w \in Workers, LoadTask(w) \/ LoadRun(w) \/ Crash(w) \/ Restart(w)
      PROVE OneRelease'
  <2>1. LoadTaskEffect(w) \/ LoadRunEffect(w) \/ CrashEffect(w)
    BY <1>2, LoadTaskReads, LoadRunReads, CrashWrites
  <2>2. \A x \in Workers, s \in Tasks : MayRelease(x, s)' => MayRelease(x, s)
    BY <2>1 DEF LoadTaskEffect, LoadRunEffect, CrashEffect, Untouched, MayRelease,
                Loaded
  <2> QED
    BY <2>1, <2>2 DEF LoadTaskEffect, LoadRunEffect, CrashEffect, db
<1>3. ASSUME NEW w \in Workers, LoadSiblings(w) PROVE OneRelease'
  <2>1. LoadSiblingsEffect(w) /\ pc[w] = "loadSiblings" /\ job[w] \in Tasks
    BY <1>3, LoadSiblingsReads, LoadsMore DEF LoadSiblingsEffect
  <2>2. status[job[w]] = "running" /\ view[w].status[job[w]] = "running"
    BY <2>1 DEF Leased, Executing, OwnRowLoaded
  <2>3. \A t \in Tasks : view'[w].status[t] = status[t]
    BY <2>1, <2>2 DEF LoadSiblingsEffect
  <2>4. \A x \in Workers \ {w}, s \in Tasks : MayRelease(x, s)' <=> MayRelease(x, s)
    BY <2>1, ReleaseKept DEF LoadSiblingsEffect, Untouched
  <2>5. \A s \in Tasks : MayRelease(w, s)' => status[s] = "blocked"
    BY <2>3 DEF MayRelease
  <2>6. ASSUME NEW s \in Tasks, MayRelease(w, s)',
               NEW x \in Workers \ {w}, MayRelease(x, s)
        PROVE  FALSE
    <3>1. \A d \in Deps[s] : status[d] = "succeeded" \/ d = job[w]
      BY <2>1, <2>3, <2>6, EngineAssumption DEF MayRelease, LoadSiblingsEffect
    <3>2. job[w] \in Deps[s]
      BY <2>1, <2>2, <2>5, <2>6, <3>1, RunsBesideRelease
    <3>3. view[x].status[job[w]] # "succeeded"
      BY <2>1, <2>2, <2>6 DEF TrueViews, Terminal, MayRelease
    <3>4. job[x] = job[w] /\ pc[x] \in {"executing", "failing"}
      BY <2>6, <3>2, <3>3 DEF MayRelease, Loaded
    <3> QED
      BY <2>1, <3>4 DEF Owners, Executing
  <2> QED
    BY <2>1, <2>4, <2>5, <2>6 DEF LoadSiblingsEffect, db
<1>4. ASSUME NEW w \in Workers, Succeed(w) \/ Fail(w) \/ RetryTask(w) PROVE OneRelease'
  <2>1. /\ SucceedEffect(w) \/ FailEffect(w) \/ RetryEffect(w)
        /\ pc[w] \in {"executing", "failing"}
    BY <1>4, SucceedWrites, FailWrites, RetryWrites, CommitsMore
  <2>2. \A x \in Workers, s \in Tasks : MayRelease(x, s)' => MayRelease(x, s)
    BY <1>4, CommitsReleaseNoMore
  <2>3. status[job[w]] = "running"
    BY <2>1 DEF Leased, Executing
  <2> QED
    BY <2>1, <2>2, <2>3 DEF SucceedEffect, FailEffect, RetryEffect
<1>5. ASSUME NEW w \in Workers, AdvanceRun(w) PROVE OneRelease'
  <2>1. PassEffect(w)
    BY <1>5, PassWrites
  <2>2. \A x \in Workers, s \in Tasks : MayRelease(x, s)' => MayRelease(x, s) /\ x # w
    BY <2>1 DEF PassEffect, Untouched, MayRelease, Loaded
  <2>3. ASSUME NEW x \in Workers \ {w}, NEW s \in Tasks, MayRelease(x, s)
        PROVE  status'[s] = status[s]
    <3>1. ~MayRelease(w, s)
      BY <2>3
    <3>2. \A d \in Deps[s] : status[d] \notin {"failed", "cancelled"}
      <4>1. pc[x] \in Loaded /\ Deps[s] \subseteq Tasks
        BY <2>3, EngineAssumption DEF MayRelease
      <4>2. ASSUME NEW d \in Deps[s], view[x].status[d] = "succeeded"
            PROVE  status[d] = "succeeded"
        BY <4>1, <4>2 DEF TrueViews, Terminal
      <4>3. ASSUME NEW d \in Deps[s], d = job[x], pc[x] # "advancing"
            PROVE  status[d] = "running"
        BY <4>1, <4>3 DEF Leased, Loaded, Executing
      <4> QED
        BY <2>3, <4>2, <4>3 DEF MayRelease
    <3> QED
      BY <2>1, <3>1, <3>2, PassChangesBlocked
  <2> QED
    BY <2>2, <2>3
<1>6. CASE UNCHANGED <<status, worker>>
  BY <1>6 DEF worker, MayRelease
<1>7. ASSUME NEW c \in Cancellers, Cancel(c) \/ CancelDies(c) PROVE OneRelease'
  BY <1>6, <1>7, StillUncancelled DEF db
<1> QED
  BY <1>1, <1>2, <1>3, <1>4, <1>5, <1>6, <1>7
     DEF CalmNext, LeaseExpires, BackoffElapses, vars, db

\* A released task has all lower levels behind it.
LEMMA LowerLevels ==
  ASSUME Layered, NEW st, LowerSucceeded(st), NEW u \in Tasks,
         \A d \in Deps[u] : st[d] = "succeeded"
  PROVE  \A d \in Tasks : Level[d] < Level[u] => st[d] = "succeeded"
<1>1. Level \in [Tasks -> Nat] /\ LayeredBy(Level)
  BY LevelsExist
<1> SUFFICES ASSUME NEW d \in Tasks, Level[d] < Level[u] PROVE st[d] = "succeeded"
  OBVIOUS
<1>2. PICK e \in Tasks : Level[e] + 1 = Level[u]
  BY <1>1 DEF LayeredBy
<1>3. st[e] = "succeeded"
  BY <1>1, <1>2 DEF LayeredBy
<1>4. Level[d] < Level[e] \/ Level[d] + 1 = Level[u]
  BY <1>1, <1>2
<1> QED
  BY <1>1, <1>3, <1>4 DEF LowerSucceeded, Reached, LayeredBy

\* Every step keeps the levels apart, in the database and in the sessions.
LEMMA LayersStep ==
  ASSUME Layered, TypeOK, Owners, OpenInv, CalmNext, Uncancelled'
  PROVE  Layers'
<1>0. /\ Level \in [Tasks -> Nat] /\ LayeredBy(Level)
      /\ \A t \in Tasks : Deps[t] \subseteq Tasks
      /\ LowerSucceeded(status)
  BY LevelsExist, EngineAssumption DEF OpenInv, Layers
<1>1. \A t \in Tasks : status'[t] = status[t] \/ Moves(t)
  BY StatusMoves
<1>2. \A t \in Tasks : status'[t] = "blocked" => Deps[t] # {}
  BY <1>1 DEF Moves, OpenInv, Layers
<1>3. ASSUME NEW u \in Tasks, status'[u] \in Reached, NEW d \in Tasks,
             Level[d] < Level[u]
      PROVE  status[d] = "succeeded"
  <2>1. CASE status[u] \in Reached
    BY <1>0, <1>3, <2>1 DEF LowerSucceeded
  <2>2. CASE status[u] \notin Reached
    <3>1. \A e \in Deps[u] : status[e] = "succeeded"
      BY <1>1, <1>3, <2>2 DEF Moves, Reached
    <3> QED
      BY <1>0, <1>3, <3>1, LowerLevels
  <2> QED
    BY <2>1, <2>2
<1>4. LowerSucceeded(status')
  BY <1>1, <1>3 DEF LowerSucceeded, Moves
<1>5. \A x \in Workers : pc'[x] \in Loaded => LowerSucceeded(view'[x].status)
  <2>0. \A x \in Workers : pc[x] \in Loaded => LowerSucceeded(view[x].status)
    BY DEF OpenInv, Layers
  <2>1. ASSUME NEW w \in Workers, LoadSiblings(w) PROVE <1>5!:
    <3>1. LoadSiblingsEffect(w) /\ pc[w] = "loadSiblings"
      BY <2>1, LoadSiblingsReads, LoadsMore
    <3>2. status[job[w]] = "running" /\ view[w].status[job[w]] = "running"
      BY <3>1 DEF OpenInv, Leased, Executing, OwnRowLoaded
    <3>3. \A t \in Tasks : view'[w].status[t] = status[t]
      BY <3>1, <3>2 DEF LoadSiblingsEffect
    <3>4. LowerSucceeded(view'[w].status)
      BY <1>0, <3>3 DEF LowerSucceeded
    <3> QED
      BY <2>0, <3>1, <3>4 DEF LoadSiblingsEffect, Untouched
  <2>2. ASSUME NEW w \in Workers, Succeed(w) \/ RetryTask(w) PROVE <1>5!:
    <3>1. /\ SucceedEffect(w) \/ RetryEffect(w)
          /\ pc[w] \in {"executing", "failing"} /\ job[w] \in Tasks
      BY <2>2, SucceedWrites, RetryWrites, CommitsMore DEF SucceedEffect, RetryEffect
    <3>2. /\ view[w].status[job[w]] = "running"
          /\ view'[w].status[job[w]] \in Reached
          /\ \A t \in Tasks \ {job[w]} : view'[w].status[t] = view[w].status[t]
          /\ LowerSucceeded(view[w].status)
      BY <2>0, <3>1 DEF OpenInv, Leased, OwnRowLoaded, Loaded, SucceedEffect,
                        RetryEffect, RetryStatus, Reached
    <3>3. LowerSucceeded(view'[w].status)
      BY <1>0, <3>1, <3>2 DEF LowerSucceeded, Reached
    <3> QED
      BY <2>0, <3>1, <3>3 DEF SucceedEffect, RetryEffect, Untouched
  <2>3. CASE \A x \in Workers : pc'[x] \in Loaded
               => pc[x] \in Loaded /\ view'[x].status = view[x].status
    BY <2>0, <2>3
  <2>4. ASSUME NEW w \in Workers,
               \/ \E t \in Tasks : Claim(w, t)
               \/ LoadTask(w) \/ LoadRun(w) \/ Fail(w) \/ AdvanceRun(w)
               \/ Crash(w) \/ Restart(w)
        PROVE  <1>5!:
    <3>1. \/ \E t \in Tasks : ClaimEffect(w, t)
          \/ LoadTaskEffect(w) \/ LoadRunEffect(w) \/ PassEffect(w) \/ CrashEffect(w)
          \/ FailEffect(w) /\ pc[w] = "executing"
      BY <2>4, ClaimWrites, LoadTaskReads, LoadRunReads, FailWrites, CommitsMore,
         PassWrites, CrashWrites
    <3> QED
      BY <2>3, <3>1 DEF ClaimEffect, LoadTaskEffect, LoadRunEffect, FailEffect,
                        PassEffect, CrashEffect, Untouched, Loaded
  <2>5. CASE UNCHANGED worker
    BY <2>3, <2>5 DEF worker
  <2>6. ASSUME NEW c \in Cancellers, Cancel(c) \/ CancelDies(c) PROVE UNCHANGED worker
    BY <2>6, StillUncancelled
  <2> QED
    BY <2>1, <2>2, <2>4, <2>5, <2>6 DEF CalmNext, LeaseExpires, BackoffElapses, vars
<1>6. ASSUME NEW t \in Tasks, NEW u \in Tasks, Level[t] = Level[u],
             status'[u] \in Reached, status'[t] = "blocked"
      PROVE  FALSE
  <2>1. status[t] = "blocked"
    BY <1>1, <1>6 DEF Moves
  <2>2. status[u] \notin Reached
    BY <1>6, <2>1 DEF OpenInv, Layers
  <2>3. status'[u] = "ready" /\ status[u] = "blocked"
    BY <1>1, <1>6, <2>2 DEF Moves, Reached
  <2>4. PICK w \in Workers : AdvanceRun(w)
    <3>1. ASSUME NEW w \in Workers, NEW s \in Tasks, Claim(w, s) PROVE FALSE
      BY <2>3, <3>1, ClaimWrites DEF ClaimEffect
    <3>2. ASSUME NEW w \in Workers, Succeed(w) \/ RetryTask(w) PROVE FALSE
      BY <2>3, <3>2, SucceedWrites, RetryWrites DEF SucceedEffect, RetryEffect, RetryStatus
    <3>3. ASSUME NEW c \in Cancellers, Cancel(c) \/ CancelDies(c) PROVE FALSE
      BY <2>3, <3>3, StillUncancelled DEF db
    <3>4. status' # status
      BY <2>3
    <3> QED
      BY <3>1, <3>2, <3>3, <3>4
         DEF CalmNext, LoadTask, LoadRun, LoadSiblings, Fail, Crash, Restart,
             LeaseExpires, BackoffElapses, vars, db
  <2>5. PassEffect(w)
    BY <2>4, PassWrites
  <2>6. \A d \in Deps[u] : view[w].status[d] = "succeeded"
    BY <2>3, <2>5, PassChangesBlocked
  <2>7. pc[w] \in Loaded /\ LowerSucceeded(view[w].status)
    BY <2>5 DEF PassEffect, Loaded, OpenInv, Layers
  <2>8. \A d \in Deps[t] : view[w].status[d] = "succeeded"
    BY <1>0, <1>6, <2>6, <2>7, LowerLevels DEF LayeredBy
  <2>9. t \in Released(view[w].status)
    BY <2>1, <2>7, <2>8 DEF Released, OpenInv, TrueViews
  <2> QED
    BY <1>6, <2>5, <2>9 DEF PassEffect
<1> QED
  BY <1>2, <1>4, <1>5, <1>6 DEF Layers

\* Every step leaves a retry where one is awaited, and a crash to account for
\* the attempt of an orphan.
LEMMA BudgetsStep ==
  ASSUME Layered, TypeOK, Owners, OpenInv, RetryBudget, CalmNext, Uncancelled'
  PROVE  Budgets'
<1> DEFINE Owned(t) == \E x \in Workers : pc[x] \in Executing /\ job[x] = t
<1>0. /\ \A t \in Tasks : Working(t) = {} <=> ~Owned(t)
      /\ \A t \in Tasks : (Working(t) = {})' <=> ~Owned(t)'
  BY DEF Working
<1> SUFFICES ASSUME NEW t \in Tasks
             PROVE  /\ status'[t] = "retrying" => attempt'[t] < MaxAttempts[t]
                    /\ status'[t] = "running" /\ ~Owned(t)'
                         => attempt'[t] < MaxAttempts[t] + crashes'
  BY <1>0 DEF Budgets
<1>a. /\ status[t] = "retrying" => attempt[t] < MaxAttempts[t]
      /\ status[t] = "running" /\ ~Owned(t) => attempt[t] < MaxAttempts[t] + crashes
      /\ attempt[t] <= MaxAttempts[t] + crashes
      /\ attempt[t] \in Nat /\ MaxAttempts[t] \in Nat /\ crashes \in Nat
  BY <1>0, EngineAssumption DEF OpenInv, Budgets, RetryBudget, TypeOK, DatabaseOK,
                                RequestsOK
<1> DEFINE Goal == /\ status'[t] = "retrying" => attempt'[t] < MaxAttempts[t]
                   /\ status'[t] = "running" /\ ~Owned(t)'
                        => attempt'[t] < MaxAttempts[t] + crashes'
<1>1. ASSUME NEW w \in Workers, NEW u \in Tasks, Claim(w, u) PROVE Goal
  <2>1. ClaimEffect(w, u)
    BY <1>1, ClaimWrites
  <2>2. Owned(u)'
    BY <2>1 DEF ClaimEffect, Executing
  <2>3. u # t => (Owned(t) => Owned(t)')
    BY <2>1 DEF ClaimEffect, Executing
  <2> QED
    BY <1>a, <2>1, <2>2, <2>3 DEF ClaimEffect
<1>2. ASSUME NEW w \in Workers, LoadTask(w) \/ LoadRun(w) \/ LoadSiblings(w) \/ Fail(w)
      PROVE Goal
  <2>1. /\ UNCHANGED <<status, attempt, job, crashes>> /\ Untouched(w)
        /\ pc'[w] \in Executing
    BY <1>2, LoadTaskReads, LoadRunReads, LoadSiblingsReads, FailWrites, LoadsMore,
       CommitsMore
       DEF LoadTaskEffect, LoadRunEffect, LoadSiblingsEffect, FailEffect, db, Executing
  <2>2. Owned(t) => Owned(t)'
    BY <2>1 DEF Untouched
  <2> QED
    BY <1>a, <2>1, <2>2
<1>3. ASSUME NEW w \in Workers, Succeed(w) \/ RetryTask(w) PROVE Goal
  <2>1. /\ SucceedEffect(w) \/ RetryEffect(w)
        /\ pc[w] \in {"executing", "failing"} /\ crashes' = crashes
        /\ attempt' = attempt /\ Untouched(w)
        /\ Succeed(w) => status'[job[w]] = "succeeded"
        /\ RetryTask(w) => status'[job[w]] = RetryStatus(w)
    BY <1>3, SucceedWrites, RetryWrites, CommitsMore DEF SucceedEffect, RetryEffect
  <2>2. CASE t = job[w]
    <3>1. view[w].attempt = attempt[job[w]]
      BY <2>1 DEF Owners, OwnRowLoaded
    <3> QED
      BY <1>3, <1>a, <2>1, <2>2, <3>1 DEF RetryStatus, Exhausted
  <2>3. CASE t # job[w]
    <3>1. status'[t] = status[t]
      BY <2>1, <2>3 DEF SucceedEffect, RetryEffect
    <3>2. Owned(t) => Owned(t)'
      BY <2>1, <2>3 DEF SucceedEffect, RetryEffect, Untouched
    <3> QED
      BY <1>a, <2>1, <3>1, <3>2
  <2> QED
    BY <2>2, <2>3
<1>4. ASSUME NEW w \in Workers, AdvanceRun(w) PROVE Goal
  <2>1. PassEffect(w)
    BY <1>4, PassWrites
  <2>2. Owned(t) => Owned(t)'
    BY <2>1 DEF PassEffect, Untouched, Executing
  <2> QED
    BY <1>a, <2>1, <2>2 DEF PassEffect
<1>5. ASSUME NEW w \in Workers, Crash(w) PROVE Goal
  <2>1. UNCHANGED <<status, attempt>> /\ crashes' = crashes + 1
    BY <1>5 DEF Crash, db
  <2> QED
    BY <1>a, <2>1
<1>6. ASSUME NEW w \in Workers, Restart(w) PROVE Goal
  <2>1. UNCHANGED <<status, attempt, crashes>>
    BY <1>6 DEF Restart, db, budget
  <2>2. Owned(t) => Owned(t)'
    BY <1>6 DEF Restart, TypeOK, WorkersOK, Executing
  <2> QED
    BY <1>a, <2>1, <2>2
<1>7. CASE UNCHANGED <<status, attempt, pc, job, crashes>>
  <2>1. Owned(t) => Owned(t)'
    BY <1>7
  <2> QED
    BY <1>a, <1>7, <2>1
<1>8. ASSUME NEW c \in Cancellers, Cancel(c) \/ CancelDies(c) PROVE Goal
  BY <1>7, <1>8, StillUncancelled DEF db, worker
<1> QED
  BY <1>1, <1>2, <1>3, <1>4, <1>5, <1>6, <1>7, <1>8
     DEF CalmNext, LeaseExpires, BackoffElapses, vars, db, worker, budget

\* Only a claim starts an attempt, and it starts none over budget.
LEMMA RetryBudgetStep ==
  ASSUME TypeOK, Owners, Unattempted, RetryBudget, Uncancelled => OpenInv, CalmNext
  PROVE  RetryBudget'
<1>0. \A t \in Tasks : /\ attempt[t] \in Nat /\ MaxAttempts[t] \in Nat \ {0}
                       /\ attempt[t] <= MaxAttempts[t] + crashes
  BY EngineAssumption DEF RetryBudget, TypeOK, DatabaseOK
<1>1. crashes \in Nat
  BY EngineAssumption DEF TypeOK, RequestsOK
<1>2. ASSUME NEW w \in Workers, NEW t \in Tasks, Claim(w, t) PROVE RetryBudget'
  <2>1. ClaimEffect(w, t)
    BY <1>2, ClaimWrites
  <2>2. Uncancelled /\ Working(t) = {}
    BY <2>1, ClaimsAreFree DEF Working
  <2>3. attempt[t] + 1 <= MaxAttempts[t] + crashes
    BY <1>0, <1>1, <2>1, <2>2 DEF ClaimEffect, Unattempted, OpenInv, Budgets
  <2> QED
    BY <1>0, <2>1, <2>3 DEF ClaimEffect, RetryBudget
<1>3. CASE UNCHANGED attempt /\ crashes' \in {crashes, crashes + 1}
  BY <1>0, <1>1, <1>3 DEF RetryBudget
<1>4. ASSUME NEW w \in Workers,
             \/ LoadTask(w) \/ LoadRun(w) \/ LoadSiblings(w) \/ Succeed(w)
             \/ Fail(w) \/ RetryTask(w) \/ AdvanceRun(w) \/ Crash(w) \/ Restart(w)
      PROVE  UNCHANGED attempt /\ crashes' \in {crashes, crashes + 1}
  BY <1>4 DEF LoadTask, LoadRun, LoadSiblings, Succeed, Fail, RetryTask, AdvanceRun,
              Crash, Restart, db, budget
<1>5. ASSUME NEW t \in Tasks, LeaseExpires(t) \/ BackoffElapses(t)
      PROVE  UNCHANGED attempt /\ crashes' = crashes
  BY <1>5 DEF LeaseExpires, BackoffElapses, budget
<1>6. ASSUME NEW c \in Cancellers, Cancel(c) \/ CancelDies(c)
      PROVE  UNCHANGED attempt /\ crashes' = crashes
  BY <1>6 DEF Cancel, CancelCheck, CancelFlush, CancelCommit, CancelDies, db, budget
<1>7. CASE UNCHANGED vars
  BY <1>3, <1>7 DEF vars, db, budget
<1> QED
  BY <1>2, <1>3, <1>4, <1>5, <1>6, <1>7 DEF CalmNext

-----------------------------------------------------------------------------
(* The theorems                                                            *)

\* A run as start_run commits it is calm.
LEMMA CalmInit == ASSUME Layered, Init PROVE CalmInv
<1>1. Owners
  BY DEF Owners, Init, Executing, OwnRowLoaded
<1>2. Unattempted /\ LogTells /\ RetryBudget
  BY EngineAssumption
     DEF Init, Unattempted, MayRelease, Loaded, LogTells, LogFits, RetryBudget
<1>3. Leased /\ TrueViews /\ OneRelease /\ Budgets
  BY EngineAssumption
     DEF Init, Leased, TrueViews, OneRelease, Budgets, MayRelease, Loaded, Executing,
         OwnRowLoaded
<1>4. Layers
  <2>1. /\ Level \in [Tasks -> Nat] /\ LayeredBy(Level)
        /\ \A t \in Tasks : Deps[t] \subseteq Tasks
    BY LevelsExist, EngineAssumption
  <2>2. \A t \in Tasks : Deps[t] = {} <=> Level[t] = 0
    BY <2>1 DEF LayeredBy
  <2>3. \A t \in Tasks : status[t] = IF Level[t] = 0 THEN "ready" ELSE "blocked"
    BY <2>2 DEF Init
  <2>4. \A w \in Workers : pc[w] \notin Loaded
    BY DEF Init, Loaded
  <2> QED
    BY <2>1, <2>2, <2>3, <2>4 DEF Layers, LowerSucceeded, Reached
<1> QED
  BY <1>1, <1>2, <1>3, <1>4 DEF CalmInv, OpenInv

\* Every step keeps it calm.
LEMMA CalmStep ==
  ASSUME Calm, Layered
  PROVE  TypeOK /\ DependencyInv /\ LogInv /\ CalmInv /\ [Next]_vars => CalmInv'
<1> SUFFICES ASSUME TypeOK, DependencyInv, LogInv, CalmInv, [Next]_vars PROVE CalmInv'
  OBVIOUS
<1>1. CalmNext
  BY CalmSteps
<1>2. Owners' /\ Unattempted' /\ LogTells' /\ RetryBudget'
  BY <1>1, OwnersStep, UnattemptedStep, LogTellsStep, RetryBudgetStep DEF CalmInv
<1>3. Uncancelled' => OpenInv'
  <2> SUFFICES ASSUME Uncancelled' PROVE OpenInv'
    OBVIOUS
  <2>1. OpenInv
    BY <1>1, StillUncancelled DEF CalmInv
  <2> QED
    BY <1>1, <2>1, LeasedStep, TrueViewsStep, LayersStep, OneReleaseStep, BudgetsStep
       DEF CalmInv, OpenInv
<1> QED
  BY <1>2, <1>3 DEF CalmInv

\* The strengthening holds in every reachable state.
THEOREM CalmInvariant == ASSUME Calm, Layered PROVE Spec => []CalmInv
<1>1. Init => CalmInv
  BY CalmInit
<1>2. TypeOK /\ DependencyInv /\ LogInv /\ CalmInv /\ [Next]_vars => CalmInv'
  BY CalmStep
<1> QED
  BY <1>1, <1>2, TypeCorrect, DependencyInvariant, LogInvariant, PTL DEF Spec

\* SingleOwner: no task is worked on by two workers at a time, since what
\* claim_task may claim has no owner.
THEOREM OwnersAreSingle == ASSUME Calm, Layered PROVE Spec => []SingleOwner
<1>1. CalmInv => SingleOwner
  <2> SUFFICES ASSUME CalmInv, NEW t \in Tasks PROVE Cardinality(Working(t)) <= 1
    BY DEF SingleOwner
  <2>1. CASE Working(t) = {}
    BY <2>1, FS_EmptySet
  <2>2. CASE Working(t) # {}
    <3>1. PICK w \in Working(t) : TRUE
      BY <2>2
    <3>2. Working(t) = {w}
      BY <3>1 DEF Working, CalmInv, Owners
    <3> QED
      BY <3>2, FS_Singleton
  <2> QED
    BY <2>1, <2>2
<1> QED
  BY <1>1, CalmInvariant, PTL

\* RetryBudget: attempts stay within max_attempts, and a crash adds at most one,
\* because a worker that dies while executing never calls retry_task.
THEOREM RetriesAreBounded == ASSUME Calm, Layered PROVE Spec => []RetryBudget
<1>1. CalmInv => RetryBudget
  BY DEF CalmInv
<1> QED
  BY <1>1, CalmInvariant, PTL

\* LogAgreesWithStatus: process and retry_task leave the attempt log and the task
\* statuses telling the same story, though they write them in two transactions.
THEOREM LogAndStatusAgree == ASSUME Calm, Layered PROVE Spec => []LogAgreesWithStatus
<1>1. CalmInv => LogAgreesWithStatus
  BY FittingLog DEF CalmInv, LogTells
<1> QED
  BY <1>1, CalmInvariant, PTL

\* Without cancel requests no step changes how a task or the run has ended.
LEMMA RunStep ==
  ASSUME Calm, Layered, Cancellers = {}
  PROVE  TypeOK /\ CalmInv /\ RunInv /\ [Next]_vars
           => /\ RunInv'
              /\ \A t \in Tasks : status[t] \in Terminal => status'[t] = status[t]
              /\ runStatus # "running" => runStatus' = runStatus
<1> SUFFICES ASSUME TypeOK, CalmInv, RunInv, [Next]_vars
             PROVE  /\ RunInv'
                    /\ \A t \in Tasks : status[t] \in Terminal => status'[t] = status[t]
                    /\ runStatus # "running" => runStatus' = runStatus
  OBVIOUS
<1>1. /\ CalmNext /\ Owners /\ OpenInv /\ Uncancelled'
      /\ \A w \in Workers : view[w].run # "cancelled"
      /\ runStatus = "running" \/ (AllTerminal(status) /\ runStatus = Verdict(status, "running"))
  BY CalmSteps DEF CalmInv, Uncancelled, RunInv
<1>2. \A t \in Tasks : status[t] \in Terminal => status'[t] = status[t]
  BY <1>1, StatusMoves DEF Moves, Terminal
<1>3. AllTerminal(status) => \A t \in Tasks : status'[t] = status[t]
  BY <1>2 DEF AllTerminal
<1>4. \A st, run : run # "cancelled" => Verdict(st, run) = Verdict(st, "running")
  BY DEF Verdict
<1>5. \A st, new : (\A t \in Tasks : st[t] = new[t])
         => Verdict(st, "running") = Verdict(new, "running")
  BY DEF Verdict
<1>6. runStatus # "cancelled"
  BY <1>1 DEF Verdict
<1>7. \A w \in Workers : view'[w].run # "cancelled"
  <2>1. ASSUME NEW w \in Workers,
               \/ \E t \in Tasks : Claim(w, t)
               \/ LoadTask(w) \/ LoadRun(w) \/ LoadSiblings(w) \/ Succeed(w)
               \/ Fail(w) \/ RetryTask(w) \/ AdvanceRun(w) \/ Crash(w) \/ Restart(w)
        PROVE  <1>7!:
    <3>1. \/ \E t \in Tasks : ClaimEffect(w, t)
          \/ LoadTaskEffect(w) \/ LoadRunEffect(w) \/ LoadSiblingsEffect(w)
          \/ SucceedEffect(w) \/ FailEffect(w) \/ RetryEffect(w) \/ PassEffect(w)
          \/ CrashEffect(w)
      BY <2>1, ClaimWrites, LoadTaskReads, LoadRunReads, LoadSiblingsReads,
         SucceedWrites, FailWrites, RetryWrites, PassWrites, CrashWrites
    <3> QED
      BY <1>1, <1>6, <3>1
         DEF ClaimEffect, LoadTaskEffect, LoadRunEffect, LoadSiblingsEffect,
             SucceedEffect, FailEffect, RetryEffect, PassEffect, CrashEffect,
             Untouched, EmptyView
  <2>2. CASE UNCHANGED worker
    BY <1>1, <2>2 DEF worker
  <2> QED
    BY <1>1, <2>1, <2>2 DEF CalmNext, LeaseExpires, BackoffElapses, vars
<1>8. CASE runStatus' = runStatus
  <2>1. runStatus' = "running"
          \/ (AllTerminal(status') /\ runStatus' = Verdict(status', "running"))
    BY <1>1, <1>3, <1>5, <1>8 DEF AllTerminal
  <2> QED
    BY <1>2, <1>7, <1>8, <2>1 DEF RunInv
<1>9. CASE runStatus' # runStatus
  <2>1. PICK w \in Workers : AdvanceRun(w)
    BY <1>1, <1>9
       DEF CalmNext, Claim, LoadTask, LoadRun, LoadSiblings, Succeed, Fail, RetryTask,
           Crash, Restart, LeaseExpires, BackoffElapses, vars, db
  <2> DEFINE new == Advanced(view[w].status)
  <2>2. /\ AllTerminal(new) /\ runStatus' = Verdict(new, view[w].run)
        /\ status' = Flush(status, view[w].status, new)
        /\ pc[w] = "advancing"
    BY <1>9, <2>1 DEF AdvanceRun, AdvanceCommit
  <2>3. \A t \in Tasks : status'[t] = new[t]
    BY <1>1, <2>2 DEF Flush, OpenInv, TrueViews, Loaded, AllTerminal
  <2>4. runStatus' = Verdict(status', "running")
    BY <1>1, <1>4, <1>5, <2>2, <2>3
  <2>5. AllTerminal(status')
    BY <2>2, <2>3 DEF AllTerminal
  <2>6. runStatus # "running" => runStatus' = runStatus
    BY <1>1, <1>3, <1>5, <2>4
  <2> QED
    BY <1>2, <1>7, <2>4, <2>5, <2>6 DEF RunInv
<1> QED
  BY <1>8, <1>9

\* TerminalIsFinal: no session, however stale, takes back how a task or the run
\* has ended.  A cancel request may do so (CancelRace), hence the assumption.
THEOREM VerdictsAreFinal ==
  ASSUME Calm, Layered, Cancellers = {}
  PROVE  Spec => TerminalIsFinal
<1>1. Init => RunInv
  BY DEF Init, RunInv, EmptyView
<1>2. TypeOK /\ CalmInv /\ RunInv /\ [Next]_vars
        => /\ RunInv'
           /\ \A t \in Tasks : status[t] \in Terminal => status'[t] = status[t]
           /\ runStatus # "running" => runStatus' = runStatus
  BY RunStep
<1>3. TypeOK /\ CalmInv /\ RunInv /\ [Next]_vars
        => [/\ \A t \in Tasks : status[t] \in Terminal => status'[t] = status[t]
            /\ runStatus # "running" => runStatus' = runStatus]_vars
  BY <1>2
<1> QED
  BY <1>1, <1>2, <1>3, TypeCorrect, CalmInvariant, PTL DEF Spec, TerminalIsFinal

-----------------------------------------------------------------------------
(* The scheduler                                                           *)

\* As long as a task is not ended the run is open.
LEMMA OpenWhileUnended ==
  ASSUME RunInv, NEW t \in Tasks, status[t] \notin Terminal
  PROVE  runStatus = "running"
  BY DEF RunInv, AllTerminal

\* A claim, of a due or an abandoned task, starts an attempt.
LEMMA ClaimSchedules ==
  ASSUME TypeOK, NEW w \in Workers, NEW t \in Tasks, Claim(w, t)
  PROVE  Sched!Next
<1>1. Sched!Start(t)
  BY DEF Claim, Claimable, NextAttempt, Sched!Start
<1> QED
  BY <1>1 DEF Claim, Claimable, Sched!Next

\* The commit that ends an attempt finds the task as its session left it.
LEMMA CommitSchedules ==
  ASSUME TypeOK, Owners, Leased, RunInv, NEW w \in Workers, Succeed(w) \/ RetryTask(w)
  PROVE  Sched!Next
<1> DEFINE t == job[w]
           s == IF Succeed(w) THEN "succeeded" ELSE RetryStatus(w)
<1>1. /\ t \in Tasks /\ status'[t] = s
      /\ \A u \in Tasks \ {t} : status'[u] = status[u]
      /\ UNCHANGED <<attempt, runStatus>>
      /\ pc[w] \in {"executing", "failing"}
  BY SucceedWrites, RetryWrites, CommitsMore DEF SucceedEffect, RetryEffect
<1>2. status[t] = "running" /\ view[w].attempt = attempt[t]
  BY <1>1 DEF Leased, Owners, Executing, OwnRowLoaded
<1>3. runStatus = "running"
  BY <1>1, <1>2, OpenWhileUnended DEF Terminal
<1>4. status' = [status EXCEPT ![t] = s]
  <2>1. status \in Statuses /\ DOMAIN status' = Tasks /\ status' = [u \in Tasks |-> status'[u]]
    BY DEF Succeed, RetryTask, Flush, TypeOK, DatabaseOK, Statuses
  <2> QED
    BY <1>1, <2>1 DEF Statuses
<1>5. s \in Sched!Outcomes(t)
  <2>1. attempt[t] \in Nat /\ MaxAttempts[t] \in Nat
    BY <1>1, EngineAssumption DEF TypeOK, DatabaseOK
  <2> QED
    BY <1>2, <2>1 DEF RetryStatus, Exhausted, Sched!Outcomes
<1>6. Sched!Finish(t)
  BY <1>1, <1>2, <1>4, <1>5 DEF Sched!Finish
<1> QED
  BY <1>1, <1>3, <1>6 DEF Sched!Next

\* What advance_run writes on the strength of its session, the tables support.
LEMMA PassSchedules ==
  ASSUME Layered, TypeOK, OpenInv, RunInv, RunInv', NEW w \in Workers, AdvanceRun(w),
         runStatus = "running"
  PROVE  Sched!Next
<1> DEFINE changed   == {t \in Tasks : status'[t] # status[t]}
           cancelled == {t \in changed : status'[t] = "cancelled"}
           released  == {t \in changed : status'[t] = "ready"}
<1>1. PassEffect(w)
  BY PassWrites
<1>2. /\ changed = cancelled \cup released
      /\ cancelled \subseteq Sched!Lost /\ released \subseteq Sched!Due
  BY <1>1, PassChangesBlocked DEF Sched!Lost, Sched!Due, Sched!Waiting
<1>3. status' = [t \in Tasks |-> IF t \in cancelled THEN "cancelled"
                                 ELSE IF t \in released THEN "ready"
                                 ELSE status[t]]
  <2>1. status' = [t \in Tasks |-> status'[t]]
    BY DEF AdvanceRun, AdvanceCommit, Flush
  <2> QED
    BY <1>2, <2>1
<1>4. Sched!Advance
  <2>1. UNCHANGED attempt
    BY <1>1 DEF PassEffect
  <2> QED
    BY <1>2, <1>3, <2>1 DEF Sched!Advance
<1>5. Sched!Close
  BY DEF RunInv, AllTerminal, Verdict, Terminal, Sched!Close, Sched!Ended
<1> QED
  BY <1>4, <1>5 DEF Sched!Next

\* Every step is one of the scheduler, or changes nothing it has.
LEMMA SchedulerStep ==
  ASSUME Calm, Layered, Cancellers = {}
  PROVE  TypeOK /\ CalmInv /\ RunInv /\ [Next]_vars => [Sched!Next]_(Sched!vars)
<1> SUFFICES ASSUME TypeOK, CalmInv, RunInv, [Next]_vars
             PROVE  Sched!Next \/ UNCHANGED Sched!vars
  OBVIOUS
<1>1. CalmNext /\ Owners /\ OpenInv /\ Leased
  BY CalmSteps DEF CalmInv, OpenInv, Uncancelled
<1>2. /\ RunInv'
      /\ \A t \in Tasks : status[t] \in Terminal => status'[t] = status[t]
      /\ runStatus # "running" => runStatus' = runStatus
  BY RunStep
<1>3. ASSUME NEW w \in Workers, NEW t \in Tasks, Claim(w, t) PROVE Sched!Next
  BY <1>3, ClaimSchedules
<1>4. ASSUME NEW w \in Workers, Succeed(w) \/ RetryTask(w) PROVE Sched!Next
  BY <1>1, <1>4, CommitSchedules
<1>5. ASSUME NEW w \in Workers, AdvanceRun(w) PROVE Sched!Next \/ UNCHANGED Sched!vars
  <2>1. CASE runStatus = "running"
    BY <1>1, <1>2, <1>5, <2>1, PassSchedules
  <2>2. CASE runStatus # "running"
    <3>1. status' = [t \in Tasks |-> status'[t]] /\ UNCHANGED attempt
      BY <1>5 DEF AdvanceRun, AdvanceCommit, Flush
    <3>2. \A t \in Tasks : status'[t] = status[t]
      BY <1>2, <2>2, OpenWhileUnended
    <3>3. UNCHANGED status
      BY <3>1, <3>2 DEF TypeOK, DatabaseOK
    <3> QED
      BY <1>2, <2>2, <3>1, <3>3 DEF Sched!vars
  <2> QED
    BY <2>1, <2>2
<1>6. CASE UNCHANGED <<status, attempt, runStatus>>
  BY <1>6 DEF Sched!vars
<1>7. ASSUME NEW w \in Workers,
             \/ LoadTask(w) \/ LoadRun(w) \/ LoadSiblings(w) \/ Fail(w)
             \/ Crash(w) \/ Restart(w)
      PROVE  UNCHANGED <<status, attempt, runStatus>>
  BY <1>7 DEF LoadTask, LoadRun, LoadSiblings, Fail, Crash, Restart, db
<1>8. ASSUME NEW t \in Tasks, LeaseExpires(t) \/ BackoffElapses(t)
      PROVE  UNCHANGED <<status, attempt, runStatus>>
  BY <1>8 DEF LeaseExpires, BackoffElapses
<1>9. CASE UNCHANGED vars
  BY <1>6, <1>9 DEF vars, db
<1> QED
  BY <1>1, <1>3, <1>4, <1>5, <1>6, <1>7, <1>8, <1>9 DEF CalmNext

\* ImplementsScheduler: of the sessions of process, stale as they are by the time of
\* advance_run, the tables show nothing but that a pass may do less than it could.
THEOREM EngineImplementsScheduler ==
  ASSUME Calm, Layered, Cancellers = {}
  PROVE  Spec => ImplementsScheduler
<1>1. Init => RunInv /\ Sched!Init
  BY DEF Init, RunInv, EmptyView, Sched!Init
<1>2. TypeOK /\ CalmInv /\ RunInv /\ [Next]_vars => RunInv'
  BY RunStep
<1>3. TypeOK /\ CalmInv /\ RunInv /\ [Next]_vars => [Sched!Next]_(Sched!vars)
  BY SchedulerStep
<1> QED
  BY <1>1, <1>2, <1>3, TypeCorrect, CalmInvariant, PTL
     DEF Spec, ImplementsScheduler, Sched!Spec
=============================================================================
