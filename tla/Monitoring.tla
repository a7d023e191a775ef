----------------------------- MODULE Monitoring -----------------------------
(***************************************************************************)
(* What an operator sees of RelayFlow: GET /dashboard, and the heartbeats  *)
(* of the workers, which it reads from Redis.                              *)
(*                                                                         *)
(* A worker sets a key that expires after TTL seconds, and sleeps.  The    *)
(* heartbeat shares the event loop with process, whose database and broker *)
(* calls are synchronous, as the call to Redis is: a beat may be late.  It *)
(* may be lost, too: heartbeat passes over a RedisError.                   *)
(*                                                                         *)
(* The dashboard's statements see different moments.  Of the runs, this    *)
(* module has what they count, and the commits of TaskEngine as those look *)
(* from here: sessions are stale, executions may outlive their lease, so a *)
(* commit may write over whatever a row says by then.                      *)
(***************************************************************************)
EXTENDS Integers, Sequences

CONSTANTS Workers, Runs,
          Keys,       \* the task keys of the workflow
          Later,      \* those with depends_on
          MaxAtOnce,  \* bound on executions of a task at once
          Sites,      \* what is looked at together: the heartbeats of some
                      \* workers and the commits of some runs
          TTL,        \* heartbeat_ttl_seconds
          MaxLate,    \* bound on the seconds a beat is late
          MaxMissed,  \* bound on beats lost in a row
          MaxDeaths   \* bound on workers dying

ASSUME MonitoringAssumption ==
  /\ Later \subseteq Keys
  /\ MaxAtOnce \in Nat
  /\ Sites \subseteq [workers : SUBSET Workers, runs : SUBSET Runs]
  /\ TTL \in Nat \ {0}
  /\ MaxLate \in Nat
  /\ MaxMissed \in Nat
  /\ MaxDeaths \in Nat

VARIABLES
  site,    \* what is looked at, [workers, runs]; it stays as it is
  health,  \* per worker: down, starting, or beating since a first heartbeat
  next,    \* per worker: the seconds until its next beat, negative when late
  missed,  \* per worker: the beats lost in a row
  key,     \* per worker: the seconds its key has left, 0 for no key
  run,     \* per run: its status, or none before it is triggered
  task,    \* per task: its status
  under,   \* per task: its executions under way, up to the end of process
  outputs, \* the tasks with an output
  letters, \* the tasks with a dead letter
  dropped, \* the tasks that were ever cancelled
  at,      \* the statement the dashboard request has come to
  left,    \* the workers whose keys it has still to look for
  shown,   \* what it has read
  steady,  \* the workers beating ever since it began
  deaths

fleet == <<health, next, missed, key>>
records == <<outputs, letters, dropped>>
runs == <<run, task, under, records>>
request == <<at, left, shown>>
vars == <<site, fleet, runs, request, steady, deaths>>

-----------------------------------------------------------------------------
(* Types                                                                   *)

\* A slip: two beats in the time to live, not three.
IntervalHalf == IF TTL \div 2 > 2 THEN TTL \div 2 ELSE 2

\* The seconds heartbeat_loop sleeps.
Interval == IF TTL \div 3 > 2 THEN TTL \div 3 ELSE 2

\* A slip: the dead letters first, the runs last.
LettersFirst == <<"letters", "queue", "workers", "failed">>

\* What the dashboard reads, in this order: the runs counted as FAILED, the
\* tasks counted as waiting, the workers, the dead letters.
Statements == <<"failed", "queue", "workers", "letters">>
Answered == Len(Statements) + 1

Tasks == Runs \X Keys

\* Counted as pending, running or retrying.
Waiting == {"blocked", "ready", "running", "retrying"}

TypeOK ==
  /\ site \in Sites
  /\ health \in [Workers -> {"down", "starting", "beating"}]
  /\ next \in [Workers -> -MaxLate .. Interval]
  /\ missed \in [Workers -> 0 .. MaxMissed]
  /\ key \in [Workers -> 0 .. TTL]
  /\ run \in [Runs -> {"none", "running", "succeeded", "failed", "cancelled"}]
  /\ task \in [Tasks -> Waiting \cup {"none", "succeeded", "failed", "cancelled"}]
  /\ under \in [Tasks -> 0 .. MaxAtOnce]
  /\ outputs \subseteq Tasks /\ letters \subseteq Tasks /\ dropped \subseteq Tasks
  /\ at \in 0 .. Answered
  /\ left \subseteq Workers
  /\ shown \in [failed : SUBSET Runs, tasks : SUBSET Tasks,
                queue : SUBSET Tasks, workers : SUBSET Workers,
                letters : SUBSET Tasks]
  /\ steady \subseteq Workers
  /\ deaths \in 0 .. MaxDeaths

Nothing == [failed |-> {}, tasks |-> {}, queue |-> {}, workers |-> {},
            letters |-> {}]

Init ==
  /\ site \in Sites
  /\ health = [w \in Workers |-> IF w \in site.workers THEN "starting" ELSE "down"]
  /\ next = [w \in Workers |-> 0]
  /\ missed = [w \in Workers |-> 0]
  /\ key = [w \in Workers |-> 0]
  /\ run = [r \in Runs |-> "none"]
  /\ task = [t \in Tasks |-> "none"]
  /\ under = [t \in Tasks |-> 0]
  /\ outputs = {} /\ letters = {} /\ dropped = {}
  /\ at = 0
  /\ left = {}
  /\ shown = Nothing
  /\ steady = {}
  /\ deaths = 0

-----------------------------------------------------------------------------
(* Time and the workers                                                    *)

\* A slip: SET, which sets no time to live.
AgedNever(n) == n

\* The time a key has left a second later.
Aged(n) == IF n = 0 THEN 0 ELSE n - 1

Tick ==
  /\ \A w \in Workers : health[w] # "down" => next[w] > -MaxLate
  /\ next' = [w \in Workers |-> IF health[w] = "down" THEN 0 ELSE next[w] - 1]
  /\ key' = [w \in Workers |-> Aged(key[w])]
  /\ UNCHANGED <<site, health, missed, runs, request, steady, deaths>>

\* A heartbeat; how late it is depends on the other coroutines.
Beat(w) ==
  /\ health[w] # "down" /\ next[w] <= 0
  /\ health' = [health EXCEPT ![w] = "beating"]
  /\ next' = [next EXCEPT ![w] = Interval]
  /\ key' = [key EXCEPT ![w] = TTL]
  /\ missed' = [missed EXCEPT ![w] = 0]
  /\ UNCHANGED <<site, runs, request, steady, deaths>>

BeatLost(w) ==
  /\ health[w] # "down" /\ next[w] <= 0
  /\ missed[w] < MaxMissed
  /\ next' = [next EXCEPT ![w] = Interval]
  /\ missed' = [missed EXCEPT ![w] = @ + 1]
  /\ UNCHANGED <<site, health, key, runs, request, steady, deaths>>

Die(w) ==
  /\ health[w] # "down"
  /\ deaths < MaxDeaths
  /\ deaths' = deaths + 1
  /\ health' = [health EXCEPT ![w] = "down"]
  /\ next' = [next EXCEPT ![w] = 0]
  /\ missed' = [missed EXCEPT ![w] = 0]
  /\ steady' = steady \ {w}
  /\ UNCHANGED <<site, key, runs, request>>

\* worker_loop starts with the heartbeat.
Restart(w) ==
  /\ health[w] = "down"
  /\ health' = [health EXCEPT ![w] = "starting"]
  /\ UNCHANGED <<site, next, missed, key, runs, request, steady, deaths>>

-----------------------------------------------------------------------------
(* What is counted: the commits of TaskEngine                              *)

TasksOf(r) == {t \in Tasks : t[1] = r}

\* What has ever ended, which a session may have seen.
Ended == outputs \cup letters \cup dropped

\* start_run.
Trigger(r) ==
  /\ run[r] = "none"
  /\ run' = [run EXCEPT ![r] = "running"]
  /\ task' = [t \in Tasks |-> IF t[1] # r THEN task[t]
                              ELSE IF t[2] \in Later THEN "blocked" ELSE "ready"]
  /\ UNCHANGED <<site, fleet, under, records, request, steady, deaths>>

\* claim_task; a running task when its lease is over.
Claim(t) ==
  /\ run[t[1]] = "running"
  /\ task[t] \in {"ready", "retrying", "running"}
  /\ under[t] < MaxAtOnce
  /\ task' = [task EXCEPT ![t] = "running"]
  /\ under' = [under EXCEPT ![t] = @ + 1]
  /\ UNCHANGED <<site, fleet, run, records, request, steady, deaths>>

\* A session writes a status, unless it is the one it has loaded.
Write(t, status) == UNCHANGED task \/ task' = [task EXCEPT ![t] = status]

Succeed(t) ==
  /\ under[t] > 0
  /\ Write(t, "succeeded")
  /\ outputs' = outputs \cup {t}
  /\ UNCHANGED <<site, fleet, run, under, letters, dropped, request, steady, deaths>>

\* retry_task, also of a task that has succeeded when advance_run raises.
\* FAILED and the dead letter are committed together.
RetryTask(t) ==
  /\ under[t] > 0
  /\ \/ Write(t, "retrying") /\ UNCHANGED letters
     \/ Write(t, "failed") /\ letters' = letters \cup {t}
  /\ UNCHANGED <<site, fleet, run, under, outputs, dropped, request, steady, deaths>>

\* process ends, or its worker dies.
Leave(t) ==
  /\ under[t] > 0
  /\ under' = [under EXCEPT ![t] = @ - 1]
  /\ UNCHANGED <<site, fleet, run, task, records, request, steady, deaths>>

\* The verdict of a session in which all tasks have ended, over whatever has
\* become of the run; one that has read a cancelled run leaves it so.
Verdict(r) ==
  /\ TasksOf(r) \subseteq Ended'
  /\ \/ run' = [run EXCEPT ![r] = "succeeded"]
     \/ letters \cap TasksOf(r) # {} /\ run' = [run EXCEPT ![r] = "failed"]

\* advance_run, from an execution of one of the tasks: of those that were
\* blocked when they were read, it releases some whose dependencies have
\* outputs and cancels some that lost one, or it closes the run.
Advance(r) ==
  /\ \E t \in TasksOf(r) : under[t] > 0
  /\ \E due, lost \in SUBSET {t \in TasksOf(r) : t[2] \in Later} :
       /\ due \cap lost = {}
       /\ due # {} => outputs \cap TasksOf(r) # {}
       /\ lost # {} => (letters \cup dropped) \cap TasksOf(r) # {}
       /\ task' = [t \in Tasks |-> IF t \in due THEN "ready"
                                   ELSE IF t \in lost THEN "cancelled" ELSE task[t]]
       /\ dropped' = dropped \cup lost
       /\ UNCHANGED <<outputs, letters>>
       /\ UNCHANGED run \/ (due = {} /\ Verdict(r))
  /\ UNCHANGED <<site, fleet, under, request, steady, deaths>>

\* cancel_run, which has read a running run and its tasks; it leaves alone
\* only those that had ended.
Cancel(r) ==
  /\ run[r] # "none"
  /\ run' = [run EXCEPT ![r] = "cancelled"]
  /\ \E lost \in SUBSET TasksOf(r) :
       /\ TasksOf(r) \ lost \subseteq Ended
       /\ task' = [t \in Tasks |-> IF t \in lost THEN "cancelled" ELSE task[t]]
       /\ dropped' = dropped \cup lost
  /\ UNCHANGED <<site, fleet, under, outputs, letters, request, steady, deaths>>

-----------------------------------------------------------------------------
(* GET /dashboard                                                          *)

Begin ==
  /\ at \in {0, Answered}
  /\ at' = 1
  /\ left' = site.workers
  /\ shown' = Nothing
  /\ steady' = {w \in site.workers : health[w] = "beating"}
  /\ UNCHANGED <<site, fleet, runs, deaths>>

\* A count in the database.
Count ==
  /\ at \in DOMAIN Statements
  /\ \/ /\ Statements[at] = "failed"
        /\ shown' = [shown EXCEPT !.failed = {r \in Runs : run[r] = "failed"}]
     \/ /\ Statements[at] = "queue"
        /\ shown' = [shown EXCEPT
             !.tasks = {t \in Tasks : task[t] # "none"},
             !.queue = {t \in Tasks : task[t] \in Waiting}]
     \/ /\ Statements[at] = "letters"
        /\ shown' = [shown EXCEPT !.letters = letters]
  /\ at' = at + 1
  /\ UNCHANGED <<site, fleet, runs, left, steady, deaths>>

\* A slip: the first key that has expired since the scan ends the loop.
LookUntilGone(w) ==
  /\ at \in DOMAIN Statements /\ Statements[at] = "workers"
  /\ w \in left
  /\ \/ /\ key[w] > 0
        /\ left' = left \ {w}
        /\ shown' = [shown EXCEPT !.workers = @ \cup {w}]
     \/ /\ key[w] = 0
        /\ left' = {}
        /\ UNCHANGED shown
  /\ UNCHANGED <<site, at, fleet, runs, steady, deaths>>

\* live_workers finds a key that is there both for the scan and for the get.
Look(w) ==
  /\ at \in DOMAIN Statements /\ Statements[at] = "workers"
  /\ w \in left
  /\ left' = left \ {w}
  /\ \/ key[w] > 0 /\ shown' = [shown EXCEPT !.workers = @ \cup {w}]
     \/ key[w] = 0 /\ UNCHANGED shown
  /\ UNCHANGED <<site, at, fleet, runs, steady, deaths>>

LookOver ==
  /\ at \in DOMAIN Statements /\ Statements[at] = "workers"
  /\ left = {}
  /\ at' = at + 1
  /\ UNCHANGED <<site, left, shown, fleet, runs, steady, deaths>>

\* A RedisError takes back what was found: an operator cannot tell a Redis
\* that does not answer from a fleet that is down.
LookFails ==
  /\ at \in DOMAIN Statements /\ Statements[at] = "workers"
  /\ left' = {}
  /\ shown' = [shown EXCEPT !.workers = {}]
  /\ steady' = {}
  /\ at' = at + 1
  /\ UNCHANGED <<site, fleet, runs, deaths>>

-----------------------------------------------------------------------------
(* The specification                                                       *)

Heartbeat(w) == Beat(w) \/ BeatLost(w)
Execute(t) == Claim(t) \/ Succeed(t) \/ RetryTask(t) \/ Leave(t)
Answer == \/ Begin \/ Count \/ LookOver \/ LookFails
          \/ \E w \in site.workers : Look(w)

Next ==
  \/ Tick
  \/ \E w \in site.workers : Heartbeat(w) \/ Die(w) \/ Restart(w)
  \/ \E r \in site.runs : \/ Trigger(r) \/ Advance(r) \/ Cancel(r)
                          \/ \E t \in TasksOf(r) : Execute(t)
  \/ Answer

Spec == Init /\ [][Next]_vars

\* Time passes, a worker that lives beats at last, and the page asks for the
\* dashboard again and again.
FairSpec == /\ Spec
            /\ WF_vars(Tick) /\ WF_vars(Answer)
            /\ \A w \in Workers : WF_vars(Heartbeat(w))

-----------------------------------------------------------------------------
(* Properties                                                              *)

\* Beats lost in a row and late beats do not add up to the time to live.
\* With a time to live of 20 seconds this is one lost beat, each three
\* seconds late, or two lost beats if none is late at all.
Punctual == (MaxMissed + 1) * (Interval + MaxLate) < TTL

\* A worker that lives is known to Redis from its first heartbeat on, unless
\* its event loop is held, or Redis away, for longer than that.
KnownWhileAlive ==
  \A w \in Workers : health[w] = "beating" => key[w] > 0

\* The answer shows every worker that lived as long as the request took,
\* whatever other keys expire meanwhile, or Redis has failed.
FleetIsShown == at = Answered => steady \subseteq shown.workers

\* Counted in separate statements, the numbers still agree on what went
\* wrong: a failed run has a dead letter, and a task that is counted neither
\* as waiting nor as a dead letter has its output or was cancelled.
FailuresAreShown ==
  at = Answered =>
    /\ \A r \in shown.failed : shown.letters \cap TasksOf(r) # {}
    /\ shown.tasks \ (shown.queue \cup shown.letters) \subseteq outputs \cup dropped

\* A worker that stays down is shown no more, whether or not it could say
\* good-bye.
DeadWorkersVanish ==
  \A w \in Workers :
    <>[](health[w] = "down") => <>[](w \notin shown.workers)
=============================================================================
