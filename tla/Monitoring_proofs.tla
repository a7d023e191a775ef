------------------------- MODULE Monitoring_proofs --------------------------
(***************************************************************************)
(* Theorems about Monitoring, for any number of workers and runs, and any  *)
(* time to live that the delays leave room for.                            *)
(***************************************************************************)
EXTENDS Monitoring, TLAPS

-----------------------------------------------------------------------------
(* The constants                                                           *)

\* heartbeat_loop sleeps at least two seconds.
LEMMA IntervalType == Interval \in Nat /\ Interval >= 2
<1>1. TTL \div 3 \in Nat
  BY MonitoringAssumption
<1> QED
  BY <1>1 DEF Interval

\* The statements and the order they come in.
LEMMA InFourStatements ==
  /\ DOMAIN Statements = 1 .. 4 /\ Answered = 5
  /\ Statements[1] = "failed" /\ Statements[2] = "queue"
  /\ Statements[3] = "workers" /\ Statements[4] = "letters"
  BY DEF Statements, Answered

-----------------------------------------------------------------------------
(* Type correctness                                                        *)

\* The actions are those of the fleet, of the runs and of the request.
FleetStep == \/ Tick
             \/ \E w \in Workers : Beat(w) \/ BeatLost(w) \/ Die(w) \/ Restart(w)
RunsStep ==
  \/ \E r \in Runs : Trigger(r) \/ Advance(r) \/ Cancel(r)
  \/ \E t \in Tasks : Execute(t)
RequestStep ==
  Begin \/ Count \/ (\E w \in Workers : Look(w)) \/ LookOver \/ LookFails

\* Next is made of them.
LEMMA NextIsOneOfThree ==
  ASSUME TypeOK, Next
  PROVE  FleetStep \/ RunsStep \/ RequestStep
<1>1. site.workers \subseteq Workers /\ site.runs \subseteq Runs
  BY MonitoringAssumption DEF TypeOK
<1>2. \A r \in site.runs : TasksOf(r) \subseteq Tasks
  BY DEF TasksOf
<1> QED
  BY <1>1, <1>2 DEF Next, FleetStep, RunsStep, RequestStep, Heartbeat, Answer

\* A step of the fleet leaves the rest alone.
LEMMA FleetStepType ==
  ASSUME TypeOK, FleetStep
  PROVE  /\ UNCHANGED <<site, runs, request>>
         /\ health' \in [Workers -> {"down", "starting", "beating"}]
         /\ next' \in [Workers -> -MaxLate .. Interval]
         /\ missed' \in [Workers -> 0 .. MaxMissed]
         /\ key' \in [Workers -> 0 .. TTL]
         /\ steady' \subseteq steady
         /\ deaths' \in 0 .. MaxDeaths
<1>1. CASE Tick
  <2>1. \A w \in Workers : Aged(key[w]) \in 0 .. TTL
    BY MonitoringAssumption DEF TypeOK, Aged
  <2>2. \A w \in Workers : health[w] # "down" => next[w] - 1 \in -MaxLate .. Interval
    BY <1>1, MonitoringAssumption, IntervalType DEF Tick, TypeOK
  <2>3. 0 \in -MaxLate .. Interval
    BY MonitoringAssumption, IntervalType
  <2>4. next' \in [Workers -> -MaxLate .. Interval]
    BY <1>1, <2>2, <2>3 DEF Tick
  <2>5. key' \in [Workers -> 0 .. TTL]
    BY <1>1, <2>1 DEF Tick
  <2> QED
    BY <1>1, <2>4, <2>5 DEF Tick, TypeOK
<1>2. ASSUME NEW w \in Workers, Beat(w) \/ BeatLost(w)
      PROVE  /\ UNCHANGED <<site, runs, request, steady, deaths>>
             /\ health' \in [Workers -> {"down", "starting", "beating"}]
             /\ next' \in [Workers -> -MaxLate .. Interval]
             /\ missed' \in [Workers -> 0 .. MaxMissed]
             /\ key' \in [Workers -> 0 .. TTL]
  BY <1>2, MonitoringAssumption, IntervalType DEF Beat, BeatLost, TypeOK
<1>3. ASSUME NEW w \in Workers, Die(w) \/ Restart(w)
      PROVE  /\ UNCHANGED <<site, runs, request, key>>
             /\ health' \in [Workers -> {"down", "starting", "beating"}]
             /\ next' \in [Workers -> -MaxLate .. Interval]
             /\ missed' \in [Workers -> 0 .. MaxMissed]
             /\ steady' \subseteq steady
             /\ deaths' \in 0 .. MaxDeaths
  BY <1>3, MonitoringAssumption, IntervalType DEF Die, Restart, TypeOK
<1> QED
  BY <1>1, <1>2, <1>3 DEF FleetStep, TypeOK

TaskStatus == Waiting \cup {"none", "succeeded", "failed", "cancelled"}

\* A step of the runs keeps the types of what is counted.
LEMMA RunsStepType ==
  ASSUME TypeOK, RunsStep
  PROVE  /\ UNCHANGED <<site, fleet, request, steady, deaths>>
         /\ run' \in [Runs -> {"none", "running", "succeeded", "failed", "cancelled"}]
         /\ task' \in [Tasks -> TaskStatus]
         /\ under' \in [Tasks -> 0 .. MaxAtOnce]
         /\ outputs' \subseteq Tasks /\ letters' \subseteq Tasks
         /\ dropped' \subseteq Tasks
<1> USE DEF TypeOK, TaskStatus, Waiting, runs, records
<1>1. ASSUME NEW r \in Runs, Trigger(r)
      PROVE  /\ UNCHANGED <<site, fleet, request, steady, deaths, under, records>>
             /\ run' \in [Runs -> {"none", "running", "succeeded", "failed", "cancelled"}]
             /\ task' \in [Tasks -> TaskStatus]
  BY <1>1 DEF Trigger
<1>2. ASSUME NEW r \in Runs, Advance(r)
      PROVE  /\ UNCHANGED <<site, fleet, request, steady, deaths, under, outputs, letters>>
             /\ run' \in [Runs -> {"none", "running", "succeeded", "failed", "cancelled"}]
             /\ task' \in [Tasks -> TaskStatus]
             /\ dropped' \subseteq Tasks
  BY <1>2 DEF Advance, Verdict, TasksOf
<1>3. ASSUME NEW r \in Runs, Cancel(r)
      PROVE  /\ UNCHANGED <<site, fleet, request, steady, deaths, under, outputs, letters>>
             /\ run' \in [Runs -> {"none", "running", "succeeded", "failed", "cancelled"}]
             /\ task' \in [Tasks -> TaskStatus]
             /\ dropped' \subseteq Tasks
  BY <1>3 DEF Cancel, TasksOf
<1>4. ASSUME NEW t \in Tasks, Claim(t) \/ Leave(t)
      PROVE  /\ UNCHANGED <<site, fleet, request, steady, deaths, run, records>>
             /\ task' \in [Tasks -> TaskStatus]
             /\ under' \in [Tasks -> 0 .. MaxAtOnce]
  BY <1>4, MonitoringAssumption DEF Claim, Leave
<1>5. ASSUME NEW t \in Tasks, Succeed(t) \/ RetryTask(t)
      PROVE  /\ UNCHANGED <<site, fleet, request, steady, deaths, run, under, dropped>>
             /\ task' \in [Tasks -> TaskStatus]
             /\ outputs' \subseteq Tasks /\ letters' \subseteq Tasks
  BY <1>5 DEF Succeed, RetryTask, Write
<1> QED
  BY <1>1, <1>2, <1>3, <1>4, <1>5 DEF RunsStep, Execute

Answers == [failed : SUBSET Runs, tasks : SUBSET Tasks, queue : SUBSET Tasks,
            workers : SUBSET Workers, letters : SUBSET Tasks]

\* What each statement of the request does to what is shown.
CountsFailed ==
  /\ at = 1 /\ at' = 2
  /\ shown' = [shown EXCEPT !.failed = {r \in Runs : run[r] = "failed"}]
CountsQueue ==
  /\ at = 2 /\ at' = 3
  /\ shown' = [shown EXCEPT
       !.tasks = {t \in Tasks : task[t] # "none"},
       !.queue = {t \in Tasks : task[t] \in Waiting}]
CountsLetters ==
  /\ at = 4 /\ at' = 5
  /\ shown' = [shown EXCEPT !.letters = letters]

\* Count is one of the three.
LEMMA CountCases ==
  ASSUME TypeOK, Count
  PROVE  /\ CountsFailed \/ CountsQueue \/ CountsLetters
         /\ UNCHANGED <<site, fleet, runs, left, steady, deaths>>
<1>1. at \in 1 .. 4
  BY InFourStatements DEF Count
<1>2. at = 1 \/ at = 2 \/ at = 3 \/ at = 4
  BY <1>1
<1> QED
  BY <1>2, InFourStatements
     DEF Count, CountsFailed, CountsQueue, CountsLetters

\* Looking for a worker's key finds it or does not.
LEMMA LookCases ==
  ASSUME TypeOK, NEW w \in Workers, Look(w)
  PROVE  /\ at = 3 /\ at' = 3 /\ w \in left /\ left' = left \ {w}
         /\ \/ /\ key[w] > 0
               /\ shown' = [shown EXCEPT !.workers = shown.workers \cup {w}]
            \/ key[w] = 0 /\ shown' = shown
         /\ UNCHANGED <<site, fleet, runs, steady, deaths>>
<1>1. at = 1 \/ at = 2 \/ at = 3 \/ at = 4
  BY InFourStatements DEF Look
<1>2. at = 3
  BY <1>1, InFourStatements DEF Look
<1> QED
  BY <1>2 DEF Look

\* The keys are gone through, or a RedisError is met, at the same place.
LEMMA LookEndsThere ==
  ASSUME TypeOK, LookOver \/ LookFails
  PROVE  at = 3 /\ at' = 4
<1>1. at = 1 \/ at = 2 \/ at = 3 \/ at = 4
  BY InFourStatements DEF LookOver, LookFails
<1> QED
  BY <1>1, InFourStatements DEF LookOver, LookFails

\* A step of the request leaves fleet and runs alone.
LEMMA RequestStepType ==
  ASSUME TypeOK, RequestStep
  PROVE  /\ UNCHANGED <<site, fleet, runs, deaths>>
         /\ at' \in 0 .. 5 /\ left' \subseteq Workers
         /\ shown' \in Answers /\ steady' \subseteq Workers
<1>0. shown \in Answers
  BY DEF TypeOK, Answers
<1>1. CASE Begin
  BY <1>1, MonitoringAssumption DEF Begin, Nothing, Answers, TypeOK
<1>2. CASE Count
  <2>1. letters \subseteq Tasks
    BY DEF TypeOK
  <2>2. shown' \in Answers
    <3>1. CASE CountsFailed
      BY <1>0, <3>1 DEF CountsFailed, Answers
    <3>2. CASE CountsQueue
      <4>1. PICK counted \in SUBSET Tasks, waiting \in SUBSET Tasks :
              shown' = [shown EXCEPT !.tasks = counted, !.queue = waiting]
        BY <3>2 DEF CountsQueue
      <4> QED
        BY <1>0, <4>1 DEF Answers
    <3>3. CASE CountsLetters
      BY <1>0, <2>1, <3>3 DEF CountsLetters, Answers
    <3> QED
      BY <1>2, <3>1, <3>2, <3>3, CountCases
  <2> QED
    BY <1>2, <2>2, CountCases DEF CountsFailed, CountsQueue, CountsLetters, TypeOK
<1>3. ASSUME NEW w \in Workers, Look(w)
      PROVE  /\ UNCHANGED <<site, fleet, runs, steady, deaths>>
             /\ at' \in 0 .. 5 /\ left' \subseteq Workers
             /\ shown' \in Answers
  <2>1. shown' \in Answers
    BY <1>0, <1>3, LookCases DEF Answers
  <2> QED
    BY <1>3, <2>1, LookCases DEF TypeOK
<1>4. CASE LookOver \/ LookFails
  <2>1. shown' \in Answers
    BY <1>0, <1>4 DEF LookOver, LookFails, Answers
  <2> QED
    BY <1>4, <2>1, LookEndsThere DEF LookOver, LookFails, TypeOK
<1> QED
  BY <1>1, <1>2, <1>3, <1>4 DEF RequestStep, TypeOK

\* Keys, tasks and answers keep their types.
THEOREM MonitoringTypeCorrect == Spec => []TypeOK
<1>1. Init => TypeOK
  BY MonitoringAssumption, IntervalType, InFourStatements
     DEF Init, TypeOK, Nothing, Waiting
<1>2. TypeOK /\ [Next]_vars => TypeOK'
  <2> SUFFICES ASSUME TypeOK, [Next]_vars PROVE TypeOK'
    OBVIOUS
  <2>1. CASE FleetStep
    BY <2>1, FleetStepType DEF TypeOK, runs, records, request
  <2>2. CASE RunsStep
    BY <2>2, RunsStepType DEF TypeOK, TaskStatus, fleet, request
  <2>3. CASE RequestStep
    BY <2>3, RequestStepType, InFourStatements DEF TypeOK, fleet, runs, records, Answers
  <2>4. CASE UNCHANGED vars
    BY <2>4 DEF TypeOK, vars, fleet, runs, records, request
  <2> QED
    BY <2>1, <2>2, <2>3, <2>4, NextIsOneOfThree
<1> QED
  BY <1>1, <1>2, PTL DEF Spec

-----------------------------------------------------------------------------
(* The counts                                                              *)

\* What a status says was recorded with it.
RecordsInv ==
  /\ \A t \in Tasks : /\ task[t] = "succeeded" => t \in outputs
                      /\ task[t] = "failed" => t \in letters
                      /\ task[t] = "cancelled" => t \in dropped
  /\ \A r \in Runs : run[r] = "failed" => letters \cap TasksOf(r) # {}

\* Records are kept, and every commit that writes a status has its record.
LEMMA RecordsStep ==
  ASSUME TypeOK, RecordsInv, RunsStep
  PROVE  /\ RecordsInv'
         /\ outputs \subseteq outputs' /\ letters \subseteq letters'
         /\ dropped \subseteq dropped'
<1> USE DEF TypeOK, RecordsInv, records
<1>1. ASSUME NEW r \in Runs, Trigger(r) PROVE RecordsInv' /\ UNCHANGED records
  BY <1>1 DEF Trigger, TasksOf
<1>2. ASSUME NEW r \in Runs, Advance(r)
      PROVE  RecordsInv' /\ UNCHANGED <<outputs, letters>> /\ dropped \subseteq dropped'
  <2>1. UNCHANGED <<outputs, letters>> /\ dropped \subseteq dropped'
    BY <1>2 DEF Advance
  <2>2. \A t \in Tasks : \/ task'[t] = task[t]
                         \/ task'[t] = "ready"
                         \/ task'[t] = "cancelled" /\ t \in dropped'
    BY <1>2 DEF Advance
  <2>3. \A q \in Runs : run'[q] = "failed" => letters \cap TasksOf(q) # {}
    BY <1>2 DEF Advance, Verdict, TasksOf
  <2> QED
    BY <2>1, <2>2, <2>3 DEF TasksOf
<1>3. ASSUME NEW r \in Runs, Cancel(r)
      PROVE  RecordsInv' /\ UNCHANGED <<outputs, letters>> /\ dropped \subseteq dropped'
  BY <1>3 DEF Cancel, TasksOf
<1>4. ASSUME NEW t \in Tasks, Claim(t) \/ Leave(t)
      PROVE  RecordsInv' /\ UNCHANGED records
  BY <1>4 DEF Claim, Leave, TasksOf
<1>5. ASSUME NEW t \in Tasks, Succeed(t) \/ RetryTask(t)
      PROVE  /\ RecordsInv'
             /\ outputs \subseteq outputs' /\ letters \subseteq letters'
             /\ dropped' = dropped
  BY <1>5 DEF Succeed, RetryTask, Write, TasksOf
<1> QED
  BY <1>1, <1>2, <1>3, <1>4, <1>5 DEF RunsStep, Execute

\* From each statement on, what it has counted bounds what there is on
\* record, which grows only.
CountsInv ==
  /\ RecordsInv
  /\ at \in 2 .. 5 => \A r \in shown.failed : letters \cap TasksOf(r) # {}
  /\ at \in 3 .. 5 => shown.tasks \ shown.queue \subseteq Ended
  /\ FailuresAreShown

\* The counts keep agreeing.
LEMMA CountsStep == TypeOK /\ CountsInv /\ [Next]_vars => CountsInv'
<1> SUFFICES ASSUME TypeOK, CountsInv, [Next]_vars PROVE CountsInv'
  OBVIOUS
<1> USE InFourStatements
<1>1. CASE UNCHANGED <<runs, request>>
  BY <1>1 DEF CountsInv, RecordsInv, FailuresAreShown, Ended, TasksOf, runs,
              records, request
<1>2. CASE RunsStep
  <2>1. UNCHANGED request
    BY <1>2, RunsStepType
  <2>2. /\ RecordsInv'
        /\ outputs \subseteq outputs' /\ letters \subseteq letters'
        /\ dropped \subseteq dropped'
    BY <1>2, RecordsStep DEF CountsInv
  <2> QED
    BY <2>1, <2>2 DEF CountsInv, FailuresAreShown, Ended, TasksOf, request
<1>3. CASE RequestStep
  <2>1. UNCHANGED runs
    BY <1>3, RequestStepType
  <2>2. RecordsInv'
    BY <2>1 DEF CountsInv, RecordsInv, TasksOf, runs, records
  <2>3. CASE Begin
    BY <2>2, <2>3 DEF Begin, CountsInv, FailuresAreShown
  <2>4. CASE Count
    <3>1. CASE CountsFailed
      <4>1. shown'.failed = {r \in Runs : run[r] = "failed"}
        BY <3>1 DEF CountsFailed, TypeOK
      <4> QED
        BY <2>1, <2>2, <3>1, <4>1
           DEF CountsFailed, CountsInv, RecordsInv, FailuresAreShown, TasksOf,
               runs, records
    <3>2. CASE CountsQueue
      <4>1. /\ shown'.tasks = {t \in Tasks : task[t] # "none"}
            /\ shown'.queue = {t \in Tasks : task[t] \in Waiting}
            /\ shown'.failed = shown.failed
        BY <3>2 DEF CountsQueue, TypeOK
      <4>2. shown'.tasks \ shown'.queue \subseteq Ended
        <5>1. \A t \in Tasks : task[t] \in TaskStatus
          BY DEF TypeOK, TaskStatus
        <5> QED
          BY <4>1, <5>1 DEF CountsInv, RecordsInv, Ended, TaskStatus
      <4> QED
        BY <2>1, <2>2, <3>2, <4>1, <4>2
           DEF CountsQueue, CountsInv, FailuresAreShown, Ended, TasksOf, runs,
               records
    <3>3. CASE CountsLetters
      <4>1. /\ shown'.letters = letters /\ shown'.failed = shown.failed
            /\ shown'.queue = shown.queue /\ shown'.tasks = shown.tasks
        BY <3>3 DEF CountsLetters, TypeOK
      <4> QED
        BY <2>1, <2>2, <3>3, <4>1
           DEF CountsLetters, CountsInv, FailuresAreShown, Ended, TasksOf, runs,
               records
    <3> QED
      BY <2>4, <3>1, <3>2, <3>3, CountCases
  <2>5. ASSUME NEW w \in Workers, Look(w) PROVE CountsInv'
    <3>1. /\ shown'.failed = shown.failed /\ shown'.queue = shown.queue
          /\ shown'.tasks = shown.tasks /\ at = 3 /\ at' = 3
      BY <2>5, LookCases DEF TypeOK
    <3> QED
      BY <2>1, <2>2, <3>1
         DEF CountsInv, FailuresAreShown, Ended, TasksOf, runs, records
  <2>6. CASE LookOver \/ LookFails
    <3>1. /\ shown'.failed = shown.failed /\ shown'.queue = shown.queue
          /\ shown'.tasks = shown.tasks /\ at = 3 /\ at' = 4
      BY <2>6, LookEndsThere DEF LookOver, LookFails, TypeOK
    <3> QED
      BY <2>1, <2>2, <3>1
         DEF CountsInv, FailuresAreShown, Ended, TasksOf, runs, records
  <2> QED
    BY <1>3, <2>3, <2>4, <2>5, <2>6 DEF RequestStep
<1>4. CASE FleetStep
  BY <1>1, <1>4, FleetStepType
<1>5. CASE UNCHANGED vars
  BY <1>1, <1>5 DEF vars
<1> QED
  BY <1>2, <1>3, <1>4, <1>5, NextIsOneOfThree

\* The dashboard's numbers, counted at different moments, agree on what went
\* wrong, for any number of runs that go on, fail or are cancelled meanwhile.
THEOREM CountsAgree == Spec => []FailuresAreShown
<1>1. Init => CountsInv
  BY InFourStatements DEF Init, CountsInv, RecordsInv, FailuresAreShown
<1>2. CountsInv => FailuresAreShown
  BY DEF CountsInv
<1> QED
  BY <1>1, <1>2, CountsStep, MonitoringTypeCorrect, PTL DEF Spec

-----------------------------------------------------------------------------
(* The heartbeats                                                          *)

\* The most seconds from one beat to the next.
Period == Interval + MaxLate

\* What a key has lost of its time to live is the time of the beats lost, and
\* of the current sleep so far.
KeyAge(w) == TTL - key[w] <= missed[w] * Period + Interval - next[w]

FleetInv ==
  /\ \A w \in Workers : health[w] = "beating" => KeyAge(w) /\ key[w] > 0
  /\ \A w \in steady : health[w] = "beating"

\* Losing beats stays within the time to live.
LEMMA LostTime ==
  ASSUME Punctual, NEW m \in 0 .. MaxMissed
  PROVE  /\ Period \in Nat
         /\ m * Period \in Nat
         /\ m * Period + Period < TTL
         /\ (m + 1) * Period = m * Period + Period
<1>1. Period \in Nat /\ m \in Nat
  BY MonitoringAssumption, IntervalType DEF Period
<1>2. \A i, j, k \in Nat : i <= j => i * k <= j * k /\ i * k \in Nat
  OBVIOUS
<1>3. \A i, k \in Nat : (i + 1) * k = i * k + k
  OBVIOUS
<1>4. m * Period <= MaxMissed * Period /\ m * Period \in Nat
  BY <1>1, <1>2, MonitoringAssumption
<1>5. MaxMissed * Period + Period < TTL
  BY <1>1, <1>3, MonitoringAssumption DEF Punctual, Period
<1>6. MaxMissed * Period \in Nat
  BY <1>1, <1>2, MonitoringAssumption
<1>7. (m + 1) * Period = m * Period + Period
  BY <1>1, <1>3
<1> QED
  BY <1>1, <1>4, <1>5, <1>6, <1>7, MonitoringAssumption

\* The keys of living workers outlast their beats.
LEMMA FleetInvStep ==
  ASSUME Punctual, TypeOK, FleetInv, [Next]_vars
  PROVE  FleetInv'
<1> USE MonitoringAssumption, IntervalType
<1>1. CASE Tick
  <2>1. ASSUME NEW w \in Workers, health[w] = "beating"
        PROVE  KeyAge(w)' /\ key'[w] > 0
    <3> DEFINE lost == missed[w] * Period
    <3>1. /\ next'[w] = next[w] - 1 /\ key'[w] = key[w] - 1
          /\ missed'[w] = missed[w] /\ next[w] > -MaxLate
      BY <1>1, <2>1 DEF Tick, Aged, FleetInv
    <3>2. lost \in Nat /\ lost + Period < TTL /\ Period = Interval + MaxLate
      BY LostTime DEF TypeOK, Period
    <3>3. TTL - key[w] <= lost + Interval - next[w]
      BY <2>1 DEF FleetInv, KeyAge
    <3>4. next[w] \in Int /\ key[w] \in Int
      BY DEF TypeOK
    <3>5. KeyAge(w)' <=> TTL - key'[w] <= lost + Interval - next'[w]
      BY <3>1 DEF KeyAge, Period
    <3> HIDE DEF lost
    <3> QED
      BY <3>1, <3>2, <3>3, <3>4, <3>5
  <2> QED
    BY <1>1, <2>1 DEF Tick, FleetInv
<1>2. ASSUME NEW v \in Workers, Beat(v) PROVE FleetInv'
  <2>1. ASSUME NEW w \in Workers, health'[w] = "beating"
        PROVE  KeyAge(w)' /\ key'[w] > 0
    <3>1. CASE w = v
      <4>1. key'[w] = TTL /\ next'[w] = Interval /\ missed'[w] = 0
        BY <1>2, <3>1 DEF Beat, TypeOK
      <4>2. 0 * Period = 0
        BY DEF Period
      <4> QED
        BY <4>1, <4>2 DEF KeyAge, Period
    <3>2. CASE w # v
      <4>1. /\ key'[w] = key[w] /\ next'[w] = next[w] /\ missed'[w] = missed[w]
            /\ health'[w] = health[w]
        BY <1>2, <3>2 DEF Beat, TypeOK
      <4> QED
        BY <2>1, <4>1 DEF FleetInv, KeyAge, Period
    <3> QED
      BY <3>1, <3>2
  <2>2. \A w \in steady' : health'[w] = "beating"
    BY <1>2 DEF Beat, FleetInv, TypeOK
  <2> QED
    BY <2>1, <2>2 DEF FleetInv
<1>3. ASSUME NEW v \in Workers, BeatLost(v) PROVE FleetInv'
  <2>1. ASSUME NEW w \in Workers, health[w] = "beating"
        PROVE  KeyAge(w)' /\ key'[w] > 0
    <3>1. CASE w = v
      <4> DEFINE lost == missed[w] * Period
      <4>1. /\ key'[w] = key[w] /\ next'[w] = Interval
            /\ missed'[w] = missed[w] + 1
        BY <1>3, <3>1 DEF BeatLost, TypeOK
      <4>2. /\ lost \in Nat /\ (missed[w] + 1) * Period = lost + Period
            /\ Period = Interval + MaxLate
        BY LostTime DEF TypeOK, Period
      <4>3. /\ TTL - key[w] <= lost + Interval - next[w] /\ key[w] > 0
            /\ next[w] \in Int /\ key[w] \in Int /\ next[w] >= -MaxLate
        BY <2>1 DEF FleetInv, KeyAge, TypeOK
      <4>4. KeyAge(w)' <=>
              TTL - key[w] <= (missed[w] + 1) * Period + Interval - Interval
        BY <4>1 DEF KeyAge, Period
      <4> HIDE DEF lost
      <4> QED
        BY <4>1, <4>2, <4>3, <4>4
    <3>2. CASE w # v
      <4>1. key'[w] = key[w] /\ next'[w] = next[w] /\ missed'[w] = missed[w]
        BY <1>3, <3>2 DEF BeatLost, TypeOK
      <4> QED
        BY <2>1, <4>1 DEF FleetInv, KeyAge, Period
    <3> QED
      BY <3>1, <3>2
  <2> QED
    BY <1>3, <2>1 DEF BeatLost, FleetInv
<1>4. ASSUME NEW v \in Workers, Die(v) \/ Restart(v) PROVE FleetInv'
  <2>1. /\ health'[v] # "beating" /\ v \notin steady'
        /\ \A w \in Workers \ {v} :
             /\ key'[w] = key[w] /\ next'[w] = next[w]
             /\ missed'[w] = missed[w] /\ health'[w] = health[w]
        /\ steady' \subseteq steady
    BY <1>4 DEF Die, Restart, TypeOK, FleetInv
  <2> QED
    BY <2>1 DEF FleetInv, KeyAge, Period, TypeOK
<1>5. CASE RunsStep
  BY <1>5, RunsStepType DEF FleetInv, KeyAge, Period, fleet
<1>6. CASE RequestStep
  <2>1. UNCHANGED fleet
    BY <1>6, RequestStepType
  <2>2. \A w \in steady' : health[w] = "beating"
    BY <1>6, CountCases, LookCases
       DEF RequestStep, Begin, LookOver, LookFails, FleetInv
  <2> QED
    BY <2>1, <2>2 DEF FleetInv, KeyAge, Period, fleet
<1>7. CASE UNCHANGED vars
  BY <1>7 DEF FleetInv, KeyAge, Period, vars, fleet
<1> QED
  BY <1>1, <1>2, <1>3, <1>4, <1>5, <1>6, <1>7, NextIsOneOfThree DEF FleetStep

\* At all times, if beats are punctual.
LEMMA FleetInvariant ==
  ASSUME Punctual
  PROVE  Spec => [](TypeOK /\ FleetInv)
<1>1. Init => FleetInv
  BY DEF Init, FleetInv
<1>2. TypeOK /\ FleetInv /\ [Next]_vars => FleetInv'
  BY FleetInvStep
<1> QED
  BY <1>1, <1>2, MonitoringTypeCorrect, PTL DEF Spec

\* Redis knows every worker that lives, for every time to live that is longer
\* than the beats that may be lost in a row, each as late as can be.
THEOREM WorkersAreKnown ==
  ASSUME Punctual
  PROVE  Spec => []KnownWhileAlive
<1>1. FleetInv => KnownWhileAlive
  BY DEF FleetInv, KnownWhileAlive
<1> QED
  BY <1>1, FleetInvariant, PTL

\* What is still to be looked for, and what was found, cover the workers that
\* have been there all the time.
LookInv ==
  /\ at = 0 => steady = {}
  /\ at \in 1 .. 3 => steady \subseteq left \cup shown.workers
  /\ at \in 4 .. 5 => steady \subseteq shown.workers

\* The dashboard shows every worker that lives as long as the request takes.
THEOREM LivingAreShown ==
  ASSUME Punctual
  PROVE  Spec => []FleetIsShown
<1>1. Init => LookInv
  BY DEF Init, LookInv
<1>2. TypeOK /\ FleetInv /\ LookInv /\ [Next]_vars => LookInv'
  <2> SUFFICES ASSUME TypeOK, FleetInv, LookInv, [Next]_vars PROVE LookInv'
    OBVIOUS
  <2>1. CASE FleetStep
    BY <2>1, FleetStepType DEF LookInv, request
  <2>2. CASE RunsStep
    BY <2>2, RunsStepType DEF LookInv, request
  <2>3. CASE Begin
    BY <2>3 DEF Begin, LookInv
  <2>4. CASE Count
    <3>1. /\ shown'.workers = shown.workers
          /\ at \in {1, 2, 4} /\ at' = at + 1
          /\ UNCHANGED <<left, steady>>
      <4>1. UNCHANGED <<left, steady>>
        BY <2>4, CountCases
      <4>2. shown'.workers = shown.workers /\ at \in {1, 2, 4} /\ at' = at + 1
        <5>1. shown \in Answers
          BY DEF TypeOK, Answers
        <5>2. CountsFailed \/ CountsQueue \/ CountsLetters
          BY <2>4, CountCases
        <5>3. CASE CountsFailed
          BY <5>1, <5>3 DEF CountsFailed, Answers
        <5>4. CASE CountsQueue
          BY <5>1, <5>4 DEF CountsQueue, Answers
        <5>5. CASE CountsLetters
          BY <5>1, <5>5 DEF CountsLetters, Answers
        <5> QED
          BY <5>2, <5>3, <5>4, <5>5
      <4> QED
        BY <4>1, <4>2
    <3> QED
      BY <3>1 DEF LookInv
  <2>5. ASSUME NEW w \in Workers, Look(w) PROVE LookInv'
    <3>1. w \in steady => key[w] > 0
      BY DEF FleetInv, TypeOK
    <3>2. /\ at = 3 /\ at' = 3
          /\ left' = left \ {w} /\ steady' = steady
          /\ shown.workers \subseteq shown'.workers
      BY <2>5, LookCases DEF TypeOK
    <3>3. w \in steady => w \in shown'.workers
      BY <2>5, <3>1, LookCases DEF TypeOK
    <3> QED
      BY <3>2, <3>3 DEF LookInv
  <2>6. CASE LookOver \/ LookFails
    BY <2>6, LookEndsThere DEF LookOver, LookFails, LookInv
  <2>7. CASE UNCHANGED vars
    BY <2>7 DEF LookInv, vars, request
  <2> QED
    BY <2>1, <2>2, <2>3, <2>4, <2>5, <2>6, <2>7, NextIsOneOfThree DEF RequestStep
<1>3. LookInv => FleetIsShown
  BY InFourStatements DEF LookInv, FleetIsShown
<1> QED
  BY <1>1, <1>2, <1>3, FleetInvariant, PTL DEF Spec
=============================================================================
