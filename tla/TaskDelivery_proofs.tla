------------------------ MODULE TaskDelivery_proofs -------------------------
(***************************************************************************)
(* Proofs about TaskDelivery, for any number of tasks, workers, attempts   *)
(* and crashes.                                                            *)
(***************************************************************************)
EXTENDS TaskDelivery, TLAPS

\* Who works on a task has it, alone, and has its lease.
Owns(a) ==
  /\ job[a] \in Tasks
  /\ status[job[a]] = "running"
  /\ leased[job[a]]
  /\ \A b \in Actors : pc[b] \in Busy /\ job[b] = job[a] => a = b

Ownership == \A a \in Actors : pc[a] \in Busy => Owns(a)

\* Actors with a message or a retry to publish have a task as well.
Jobs ==
  \A a \in Actors : pc[a] \in {"delivered", "republishing"} => job[a] \in Tasks

Budget ==
  /\ \A a \in Actors : pc[a] = "noticed" => Exhausted(job[a])
  /\ \A t \in Tasks : <<"notice", t>> \in dead \/ status[t] = "failed"
       => Exhausted(t)

Inv == TypeOK /\ Ownership /\ Jobs /\ Budget

-----------------------------------------------------------------------------
(* Types                                                                   *)

\* An actor of a worker is an actor.
LEMMA ActorsOf ==
  \A w \in Workers : Poller(w) \in Actors /\ Consumer(w) \in Actors
                     /\ Poller(w) # Consumer(w)
  BY DEF Poller, Consumer, Actors

\* Every step keeps the types.
LEMMA TypePreserved ==
  ASSUME TypeOK, Jobs, Ownership, [Next]_vars, DeliveryAssumption
  PROVE  TypeOK'
  <1>1. ASSUME NEW t \in Tasks,
               Release(t) \/ LeaseExpires(t) \/ BackoffElapses(t)
        PROVE  TypeOK'
    <2>1. CASE Release(t)
      BY <2>1 DEF TypeOK, Release, Published
    <2>2. CASE LeaseExpires(t) \/ BackoffElapses(t)
      BY <2>2 DEF TypeOK, LeaseExpires, BackoffElapses
    <2> QED
      BY <1>1, <2>1, <2>2
  <1>2. ASSUME NEW a \in Actors, Process(a)
        PROVE  TypeOK'
    <2>1. job[a] \in Tasks
      BY <1>2 DEF Process, Succeed, Fail, RetryTask, Republish,
                  PublishDeadLetter, CommitFailure, Jobs, Ownership, Owns, Busy
    <2>2. CASE Succeed(a) \/ CommitFailure(a)
      BY <2>1, <2>2 DEF TypeOK, Succeed, CommitFailure, Finish, Settled
    <2>3. CASE Fail(a) \/ RetryTask(a)
      BY <2>1, <2>3 DEF TypeOK, Fail, RetryTask, Busy, row
    <2>4. CASE Republish(a)
      BY <2>1, <2>4 DEF TypeOK, Republish, Published, Finish, row
    <2>5. CASE PublishDeadLetter(a)
      BY <2>1, <2>5 DEF TypeOK, PublishDeadLetter, Busy, row
    <2> QED
      BY <1>2, <2>2, <2>3, <2>4, <2>5 DEF Process
  <1>3. ASSUME NEW a \in Actors, NEW t \in Tasks, Claim(a, t),
               UNCHANGED <<queue, dead, crashes>>
        PROVE  TypeOK'
    BY <1>3 DEF TypeOK, Claim, Busy
  <1>4. ASSUME NEW w \in Workers, Poll(w)
        PROVE  TypeOK'
    BY <1>3, <1>4, ActorsOf DEF Poll
  <1>5. ASSUME NEW w \in Workers, Deliver(w)
        PROVE  TypeOK'
    BY <1>5, ActorsOf DEF TypeOK, Deliver, row
  <1>6. ASSUME NEW w \in Workers, ClaimDelivered(w)
        PROVE  TypeOK'
    <2>1. Consumer(w) \in Actors /\ job[Consumer(w)] \in Tasks
      BY <1>6, ActorsOf DEF ClaimDelivered, Jobs
    <2>2. CASE Claim(Consumer(w), job[Consumer(w)])
      BY <1>3, <1>6, <2>1, <2>2 DEF ClaimDelivered
    <2>3. CASE Finish(Consumer(w)) /\ UNCHANGED row
      BY <1>6, <2>1, <2>3 DEF ClaimDelivered, Finish, row, TypeOK
    <2> QED
      BY <1>6, <2>2, <2>3 DEF ClaimDelivered
  <1>7. ASSUME NEW w \in Workers, ConsumerRaises(w)
        PROVE  TypeOK'
    <2>1. Consumer(w) \in Actors /\ job[Consumer(w)] \in Tasks
      BY <1>7, ActorsOf DEF ConsumerRaises, Jobs, Ownership, Owns, TypeOK
    <2> QED
      BY <1>7, <2>1 DEF ConsumerRaises, row, TypeOK
  <1>8. ASSUME NEW w \in Workers, Crash(w)
        PROVE  TypeOK'
    <2>1. crashes' \in 0 .. MaxCrashes
      BY <1>8 DEF Crash, TypeOK, DeliveryAssumption
    <2>2. queue' \in [Tasks -> Nat]
      <3>1. job[Consumer(w)] \in Tasks \cup {NoTask}
        BY ActorsOf DEF TypeOK
      <3> QED
        BY <1>8, <3>1 DEF Crash, TypeOK
    <2> QED
      BY <1>8, <2>1, <2>2, ActorsOf DEF Crash, TypeOK, row
  <1>9. ASSUME NEW w \in Workers, Restart(w)
        PROVE  TypeOK'
    BY <1>9, ActorsOf DEF Restart, TypeOK, row
  <1>10. CASE UNCHANGED vars
    BY <1>10 DEF vars, TypeOK
  <1> QED
    BY <1>1, <1>2, <1>4, <1>5, <1>6, <1>7, <1>8, <1>9, <1>10
       DEF Next, Consume

-----------------------------------------------------------------------------
(* Ownership                                                               *)

\* A claim takes a task that nobody works on: whoever did would have it
\* running under a lease, and then it could not be claimed.
LEMMA ClaimOwns ==
  ASSUME TypeOK, Ownership, Jobs,
         NEW a \in Actors, pc[a] \notin Busy, NEW t \in Tasks, Claim(a, t)
  PROVE  Ownership' /\ Jobs'
  <1>1. \A b \in Actors : pc[b] \in Busy => job[b] # t
    BY DEF Claim, Claimable, Ownership, Owns
  <1>2. /\ \A b \in Actors : b # a => pc'[b] = pc[b] /\ job'[b] = job[b]
        /\ pc'[a] = "executing" /\ job'[a] = t
    BY DEF Claim, TypeOK
  <1>3. /\ \A u \in Tasks : u # t => status'[u] = status[u]
                                     /\ leased'[u] = leased[u]
        /\ status'[t] = "running" /\ leased'[t] = TRUE
    BY DEF Claim, TypeOK
  <1>4. Jobs'
    BY <1>2 DEF Jobs
  <1>5. ASSUME NEW b \in Actors, pc'[b] \in Busy
        PROVE  Owns(b)'
    <2>1. CASE b = a
      BY <1>1, <1>2, <1>3, <2>1 DEF Owns
    <2>2. CASE b # a
      <3>1. Owns(b) /\ job[b] # t
        BY <1>1, <1>2, <1>5, <2>2 DEF Ownership
      <3> QED
        BY <1>2, <1>3, <2>2, <3>1 DEF Owns
    <2> QED
      BY <2>1, <2>2
  <1> QED
    BY <1>4, <1>5 DEF Ownership

\* An actor that stops working on its task takes nothing from the others.
LEMMA LeaveOwns ==
  ASSUME TypeOK, Ownership,
         NEW a \in Actors, pc'[a] \notin Busy, job[a] \in Tasks,
         \A b \in Actors : b # a => pc'[b] = pc[b] /\ job'[b] = job[b],
         \A b \in Actors : b # a /\ pc[b] \in Busy => job[b] # job[a],
         \A u \in Tasks : u # job[a] => status'[u] = status[u]
                                        /\ leased'[u] = leased[u]
  PROVE  Ownership'
  <1> SUFFICES ASSUME NEW b \in Actors, pc'[b] \in Busy
               PROVE  Owns(b)'
    BY DEF Ownership
  <1>1. b # a /\ Owns(b) /\ job[b] # job[a]
    BY DEF Ownership
  <1> QED
    BY <1>1 DEF Owns

\* Losing actors, or going on with the same task, keeps ownership.
LEMMA FewerOwn ==
  ASSUME TypeOK, Ownership, UNCHANGED <<status, leased>>,
         \A b \in Actors : pc'[b] \in Busy =>
           pc[b] \in Busy /\ job'[b] = job[b]
  PROVE  Ownership'
  BY DEF Ownership, Owns

\* Every step keeps ownership.
LEMMA OwnershipPreserved ==
  ASSUME TypeOK, Ownership, Jobs, [Next]_vars
  PROVE  Ownership' /\ Jobs'
  <1>1. ASSUME NEW t \in Tasks,
               Release(t) \/ LeaseExpires(t) \/ BackoffElapses(t)
        PROVE  Ownership' /\ Jobs'
    <2>1. pc' = pc /\ job' = job
      BY <1>1 DEF Release, LeaseExpires, BackoffElapses
    <2>2. Jobs'
      BY <2>1 DEF Jobs
    <2>3. CASE Release(t)
      <3>1. \A u \in Tasks : status[u] = "running" => status'[u] = "running"
        BY <2>3 DEF Release, TypeOK
      <3> QED
        BY <2>1, <2>2, <2>3, <3>1 DEF Release, Ownership, Owns
    <2>4. CASE LeaseExpires(t)
      <3>1. \A u \in Tasks : u # t => leased'[u] = leased[u]
        BY <2>4 DEF LeaseExpires, TypeOK
      <3>2. \A a \in Actors : pc[a] \in Busy => job[a] # t
        BY <2>4 DEF LeaseExpires
      <3> QED
        BY <2>1, <2>2, <2>4, <3>1, <3>2 DEF LeaseExpires, Ownership, Owns
    <2>5. CASE BackoffElapses(t)
      BY <2>1, <2>2, <2>5 DEF BackoffElapses, Ownership, Owns
    <2> QED
      BY <1>1, <2>3, <2>4, <2>5
  <1>2. ASSUME NEW a \in Actors, Process(a)
        PROVE  Ownership' /\ Jobs'
    <2>1. job[a] \in Tasks
      BY <1>2 DEF Process, Succeed, Fail, RetryTask, Republish,
                  PublishDeadLetter, CommitFailure, Jobs, Ownership, Owns, Busy
    <2>2. \A b \in Actors : b # a => pc'[b] = pc[b] /\ job'[b] = job[b]
      BY <1>2 DEF Process, Succeed, Fail, RetryTask, Republish,
                  PublishDeadLetter, CommitFailure, Finish, TypeOK
    <2>3. pc'[a] \in {"delivered", "republishing"} => job'[a] \in Tasks
      BY <1>2, <2>1 DEF Process, Succeed, Fail, RetryTask, Republish,
                  PublishDeadLetter, CommitFailure, Finish, TypeOK
    <2>4. Jobs'
      BY <2>2, <2>3 DEF Jobs
    <2>5. CASE Succeed(a) \/ RetryTask(a) \/ CommitFailure(a)
      <3>1. \A b \in Actors : b # a /\ pc[b] \in Busy => job[b] # job[a]
        BY <2>5 DEF Succeed, RetryTask, CommitFailure, Ownership, Owns, Busy
      <3>2. pc'[a] \notin Busy
        BY <2>5 DEF Succeed, RetryTask, CommitFailure, Finish, TypeOK, Busy
      <3>3. \A u \in Tasks : u # job[a] => status'[u] = status[u]
                                           /\ leased'[u] = leased[u]
        BY <2>5 DEF Succeed, RetryTask, CommitFailure, TypeOK
      <3> QED
        BY <2>1, <2>2, <2>4, <3>1, <3>2, <3>3, LeaveOwns
    <2>6. CASE Fail(a) \/ PublishDeadLetter(a)
      <3>1. job' = job /\ UNCHANGED <<status, leased>> /\ pc[a] \in Busy
        BY <2>6 DEF Fail, PublishDeadLetter, row, Busy
      <3> QED
        BY <2>2, <2>4, <3>1, FewerOwn
    <2>7. CASE Republish(a)
      <3>1. UNCHANGED <<status, leased>> /\ pc'[a] \notin Busy
        BY <2>7 DEF Republish, Finish, row, TypeOK, Busy
      <3> QED
        BY <2>2, <2>4, <3>1, FewerOwn
    <2> QED
      BY <1>2, <2>5, <2>6, <2>7 DEF Process
  <1>3. ASSUME NEW w \in Workers, Poll(w)
        PROVE  Ownership' /\ Jobs'
    <2>1. Poller(w) \in Actors /\ pc[Poller(w)] \notin Busy
      BY <1>3, ActorsOf DEF Poll, Busy
    <2> QED
      BY <1>3, <2>1, ClaimOwns DEF Poll
  <1>4. ASSUME NEW w \in Workers, Deliver(w)
        PROVE  Ownership' /\ Jobs'
    <2> DEFINE c == Consumer(w)
    <2>1. c \in Actors /\ UNCHANGED <<status, leased>>
      BY <1>4, ActorsOf DEF Deliver, row
    <2>2. \A b \in Actors : b # c => pc'[b] = pc[b] /\ job'[b] = job[b]
      BY <1>4, <2>1 DEF Deliver, TypeOK
    <2>3. pc'[c] = "delivered" /\ job'[c] \in Tasks
      BY <1>4, <2>1 DEF Deliver, TypeOK
    <2> HIDE DEF c
    <2>4. Jobs'
      BY <2>2, <2>3 DEF Jobs
    <2> QED
      BY <2>1, <2>2, <2>3, <2>4, FewerOwn DEF Busy
  <1>5. ASSUME NEW w \in Workers, ClaimDelivered(w)
        PROVE  Ownership' /\ Jobs'
    <2> DEFINE c == Consumer(w)
    <2>1. c \in Actors /\ job[c] \in Tasks /\ pc[c] \notin Busy
      BY <1>5, ActorsOf DEF ClaimDelivered, Jobs, Busy
    <2>2. CASE Claim(c, job[c])
      BY <2>1, <2>2, ClaimOwns
    <2>3. CASE Finish(c) /\ UNCHANGED row
      <3>1. UNCHANGED <<status, leased>> /\ pc'[c] = "idle"
        BY <2>1, <2>3 DEF Finish, row, TypeOK
      <3>2. \A b \in Actors : b # c => pc'[b] = pc[b] /\ job'[b] = job[b]
        BY <2>1, <2>3 DEF Finish, TypeOK
      <3> HIDE DEF c
      <3>3. Jobs'
        BY <3>1, <3>2 DEF Jobs
      <3> QED
        BY <3>1, <3>2, <3>3, FewerOwn DEF Busy
    <2> QED
      BY <1>5, <2>2, <2>3 DEF ClaimDelivered
  <1>6. ASSUME NEW w \in Workers, ConsumerRaises(w) \/ Crash(w) \/ Restart(w)
        PROVE  Ownership' /\ Jobs'
    <2>1. UNCHANGED <<status, leased>>
      BY <1>6 DEF ConsumerRaises, Crash, Restart, row
    <2>2. \A b \in Actors : pc'[b] \in Busy \cup {"delivered", "republishing"} =>
            pc'[b] = pc[b] /\ job'[b] = job[b]
      BY <1>6, ActorsOf DEF ConsumerRaises, Crash, Restart, TypeOK, Busy
    <2>3. Jobs'
      BY <2>2 DEF Jobs
    <2> QED
      BY <2>1, <2>2, <2>3, FewerOwn
  <1>7. CASE UNCHANGED vars
    BY <1>7 DEF vars, Ownership, Owns, Jobs
  <1> QED
    BY <1>1, <1>2, <1>3, <1>4, <1>5, <1>6, <1>7 DEF Next, Consume

-----------------------------------------------------------------------------
(* The attempt budget, and finished tasks                                  *)

\* Attempts are only ever added.
LEMMA AttemptsGrow ==
  ASSUME TypeOK, [Next]_vars
  PROVE  \A t \in Tasks : Exhausted(t) => Exhausted(t)'
  <1>1. \A t \in Tasks : attempt'[t] = attempt[t] \/ attempt'[t] = attempt[t] + 1
    <2>1. ASSUME NEW a, NEW t, Claim(a, t)
          PROVE  \A u \in Tasks : attempt'[u] = attempt[u]
                                  \/ attempt'[u] = attempt[u] + 1
      BY <2>1 DEF Claim, TypeOK
    <2>2. CASE attempt' = attempt
      BY <2>2
    <2>3. CASE \E w \in Workers : Poll(w) \/ ClaimDelivered(w)
      BY <2>1, <2>3 DEF Poll, ClaimDelivered, row
    <2> QED
      BY <2>2, <2>3 DEF Next, Consume, Process, Release, LeaseExpires,
           BackoffElapses, Succeed, Fail, RetryTask, Republish, CommitFailure,
           PublishDeadLetter, Deliver, ConsumerRaises, Crash, Restart, row, vars
  <1>2. \A t \in Tasks : attempt[t] \in Nat
    BY DEF TypeOK
  <1>3. \A t \in Tasks : attempt[t] >= MaxAttempts[t] =>
          attempt'[t] >= MaxAttempts[t]
    <2> SUFFICES ASSUME NEW t \in Tasks, DeliveryAssumption,
                        attempt[t] >= MaxAttempts[t]
                 PROVE  attempt'[t] >= MaxAttempts[t]
      BY DeliveryAssumption
    <2>1. MaxAttempts[t] \in Nat
      BY DEF DeliveryAssumption
    <2> QED
      BY <1>1, <1>2, <2>1
  <1> QED
    BY <1>3 DEF Exhausted

\* Notices and failures come from actors that checked the budget.
LEMMA BudgetPreserved ==
  ASSUME TypeOK, Ownership, Budget, [Next]_vars
  PROVE  Budget'
  <1>1. ASSUME NEW a \in Actors, pc'[a] = "noticed"
        PROVE  Exhausted(job[a])' /\ job'[a] = job[a] /\ job[a] \in Tasks
    <2>1. job'[a] = job[a] /\ pc[a] \in Busy /\ Exhausted(job[a])
      <3>1. CASE pc[a] = "noticed" /\ job'[a] = job[a]
        BY <3>1 DEF Budget, Busy
      <3>2. CASE PublishDeadLetter(a)
        BY <3>2 DEF PublishDeadLetter, Busy
      <3>3. (pc[a] = "noticed" /\ job'[a] = job[a]) \/ PublishDeadLetter(a)
        BY <1>1, ActorsOf DEF Next, Consume, Process, Release, LeaseExpires,
             BackoffElapses, Succeed, Fail, RetryTask, Republish, CommitFailure,
             PublishDeadLetter, Deliver, ClaimDelivered, Poll, Claim, Finish,
             ConsumerRaises, Crash, Restart, TypeOK, vars
      <3> QED
        BY <3>1, <3>2, <3>3
    <2>2. job[a] \in Tasks
      BY <2>1 DEF Ownership, Owns
    <2> QED
      BY <2>1, <2>2, AttemptsGrow
  <1>2. ASSUME NEW t \in Tasks, <<"notice", t>> \in dead' \/ status'[t] = "failed"
        PROVE  Exhausted(t)'
    <2> DEFINE Origin ==
          \/ <<"notice", t>> \in dead \/ status[t] = "failed"
          \/ \E a \in Actors : PublishDeadLetter(a) /\ job[a] = t
          \/ \E a \in Actors : CommitFailure(a) /\ job[a] = t
    <2>1. CASE <<"notice", t>> \in dead \/ status[t] = "failed"
      BY <2>1, AttemptsGrow DEF Budget
    <2>2. CASE \E a \in Actors : PublishDeadLetter(a) /\ job[a] = t
      BY <2>2, AttemptsGrow DEF PublishDeadLetter
    <2>3. CASE \E a \in Actors : CommitFailure(a) /\ job[a] = t
      BY <2>3, AttemptsGrow DEF CommitFailure, Budget
    <2>4. Origin
      <3>1. CASE dead' = dead /\ status' = status
        BY <1>2, <3>1
      <3>2. CASE \E u \in Tasks : Release(u)
        BY <1>2, <3>2 DEF Release, TypeOK
      <3>3. ASSUME NEW a \in Actors,
                   Succeed(a) \/ RetryTask(a) \/ CommitFailure(a)
                   \/ PublishDeadLetter(a)
            PROVE  Origin
        BY <1>2, <3>3 DEF Succeed, RetryTask, CommitFailure, PublishDeadLetter,
                          TypeOK, row
      <3>4. ASSUME NEW a, NEW u \in Tasks, Claim(a, u), dead' = dead
            PROVE  status[t] = "failed" \/ <<"notice", t>> \in dead
        BY <1>2, <3>4 DEF Claim, TypeOK
      <3>5. ASSUME NEW w \in Workers, Poll(w)
            PROVE  Origin
        BY <3>4, <3>5 DEF Poll
      <3>6. ASSUME NEW w \in Workers, ClaimDelivered(w)
            PROVE  Origin
        <4>1. dead' = dead
          BY <3>6 DEF ClaimDelivered
        <4>2. CASE status' = status
          BY <1>2, <4>1, <4>2
        <4>3. CASE Claim(Consumer(w), job[Consumer(w)])
          BY <1>2, <4>1, <4>3 DEF Claim, TypeOK
        <4> QED
          BY <3>6, <4>2, <4>3 DEF ClaimDelivered, row
      <3>7. ASSUME NEW w \in Workers, ConsumerRaises(w)
            PROVE  Origin
        BY <1>2, <3>7 DEF ConsumerRaises, row
      <3> QED
        BY <3>1, <3>2, <3>3, <3>5, <3>6, <3>7 DEF Next, Consume, Process,
             LeaseExpires, BackoffElapses, Fail, Republish, Deliver, Crash,
             Restart, row, vars
    <2> QED
      BY <2>1, <2>2, <2>3, <2>4
  <1> QED
    BY <1>1, <1>2 DEF Budget

\* A finished task has no owner and cannot be claimed.
LEMMA SettledStays ==
  ASSUME TypeOK, Ownership, [Next]_vars, NEW t \in Tasks, status[t] \in Settled
  PROVE  status'[t] = status[t] /\ attempt'[t] = attempt[t]
  <1>1. ASSUME NEW a, NEW u, Claim(a, u)
        PROVE  status'[t] = status[t] /\ attempt'[t] = attempt[t]
    BY <1>1 DEF Claim, Claimable, Settled, TypeOK
  <1>2. ASSUME NEW a \in Actors,
               Succeed(a) \/ RetryTask(a) \/ CommitFailure(a)
        PROVE  status'[t] = status[t] /\ attempt'[t] = attempt[t]
    <2>1. job[a] # t
      BY <1>2 DEF Succeed, RetryTask, CommitFailure, Ownership, Owns, Busy,
                  Settled
    <2> QED
      BY <1>2, <2>1 DEF Succeed, RetryTask, CommitFailure, TypeOK
  <1>3. ASSUME NEW u \in Tasks, Release(u)
        PROVE  status'[t] = status[t] /\ attempt'[t] = attempt[t]
    BY <1>3 DEF Release, Settled, TypeOK
  <1>4. CASE \E w \in Workers : Poll(w) \/ ClaimDelivered(w)
    BY <1>1, <1>4 DEF Poll, ClaimDelivered, row
  <1>5. CASE status' = status /\ attempt' = attempt
    BY <1>5
  <1> QED
    BY <1>2, <1>3, <1>4, <1>5 DEF Next, Consume, Process, LeaseExpires,
         BackoffElapses, Fail, Republish, PublishDeadLetter, Deliver,
         ConsumerRaises, Crash, Restart, row, vars

-----------------------------------------------------------------------------
(* Theorems                                                                *)

\* The inductive invariant.
LEMMA InvHolds == Spec => []Inv
  <1>1. Init => Inv
    BY DeliveryAssumption DEF Init, Inv, TypeOK, Ownership, Jobs, Budget, Busy,
                              Settled
  <1>2. Inv /\ [Next]_vars => Inv'
    BY TypePreserved, OwnershipPreserved, BudgetPreserved, DeliveryAssumption
       DEF Inv
  <1> QED
    BY <1>1, <1>2, PTL DEF Spec

\* The types hold for any tasks, workers and bounds.
THEOREM DeliveryTypeCorrect == Spec => []TypeOK
  <1>1. Inv => TypeOK
    BY DEF Inv
  <1> QED
    BY <1>1, InvHolds, PTL

\* Polling and messages never give one task to two actors, in any deployment.
THEOREM DeliveryIsSafe == Spec => []SingleExecution
  <1>1. Inv => SingleExecution
    BY DEF Inv, Ownership, Owns, SingleExecution
  <1> QED
    BY <1>1, InvHolds, PTL

\* A dead-letter notice is published for tasks that used up their attempts
\* only, although it is sent before the commit that fails the task.
THEOREM NoticesAreEarned == Spec => []NoticeIsEarned
  <1>1. Inv => NoticeIsEarned
    BY DEF Inv, Budget, Exhausted, NoticeIsEarned
  <1> QED
    BY <1>1, InvHolds, PTL

\* Whatever is delivered late or again, a finished task stays finished.
THEOREM FinishedStaysFinished == Spec => SettledIsFinal
  <1>1. Inv /\ [Next]_vars =>
          [\A t \in Tasks : status[t] \in Settled =>
             status'[t] = status[t] /\ attempt'[t] = attempt[t]]_vars
    BY SettledStays DEF Inv
  <1> QED
    BY <1>1, InvHolds, PTL DEF Spec, SettledIsFinal
=============================================================================
