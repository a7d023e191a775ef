# RelayFlow: TLA+ models and proofs

RelayFlow runs workflows: directed acyclic graphs of tasks, registered through
an HTTP API, triggered with an optional idempotency key, executed by worker
processes that share a PostgreSQL database, and watched from a browser. This
directory holds TLA+ modules for the parts of it in which several actors meet
(`*.tla`), TLC configurations that check them on small instances (`*.cfg`),
proofs for any size (`*_proofs.tla`), and
`PROJECT.json`, which relates every definition to the lines it models, every
property to a run, and every hazard of the code to the properties that guard it.

To check a run: `tlc -config Hostile.cfg MC_TaskEngine`. To check a proof:
`tlapm TaskEngine_proofs.tla`.

Paths below are relative to `src/backend/relayflow` unless they start with
`src/`.

## 1. The system

| Part | State | Operations | Model |
|---|---|---|---|
| Task engine (`worker.py`, `orchestrator.py`, `main.py` cancel) | `workflow_runs`, `task_runs`, `task_attempts`, `dead_letter_tasks`; per worker the session of `process` | `claim_task`, `process`, `advance_run`, `retry_task`, `cancel_run` | `TaskEngine`, `DagExecution`, `Scheduler` |
| Idempotent trigger (`main.py` trigger_run, `orchestrator.py` start_run, `coordination.py` distributed_lock) | `workflow_runs` with `uq_run_idempotency`; a Redis lock | `POST /workflows/{id}/runs` | `IdempotentTrigger` |
| Workflow registration (`schemas.py`, `main.py` add_workflow, `orchestrator.py` create_workflow) | `workflows` with its unique name; the search's stack and sets | `POST /workflows` | `DagValidation` |
| Task delivery (`broker.py`, `worker.py` consume_broker and worker_loop) | queues `relayflow.tasks` and dead letters; per worker two asyncio tasks | `publish_task`, `publish_dead_letter`, consuming, polling | `TaskDelivery` |
| Event stream (`main.py` stream_events, `orchestrator.py` emit) | `run_events`; per connection a cursor | `GET /runs/{id}/events` | `EventStream` |
| Browser session (`src/frontend/app/page.tsx`, `security.py`) | sessionStorage, React state, refreshes under way; token expiry | restore, sign-in, refresh, sign-out, reload | `BrowserSession` |
| Accounts and access (`security.py`, `main.py` lifespan, login, refresh, add_user) | the tables, `users`; tokens with their clients | coming up, first administrator, sign-in, renewal, `require_roles`, `POST /users` | `Accounts` |
| Worker liveness and dashboard (`coordination.py`, `worker.py` heartbeat_loop, `main.py` dashboard) | Redis keys with a time to live | heartbeat, `live_workers`, `GET /dashboard` | `Monitoring` |
| Executors (`executors.py`) | requests under way to other services | template resolution, delay, transform, HTTP | `Executors` |
| Read endpoints, metrics, configuration, other UI, deployment | none of their own | | not modelled |

How the parts meet. The API and the workers never call each other. They share
the database: the trigger commits a run with its first tasks READY; a worker
claims a task by an UPDATE under `FOR UPDATE SKIP LOCKED`, executes it, commits
the outcome, and in a further transaction advances the run (releases dependents
or closes the run); cancellation writes the same rows. If the broker is
enabled (off by default in `config.py`, on in `docker-compose.yml`), every
transition to READY or RETRYING is followed by a message, which only hints that
a task may be claimed. Redis holds the trigger lock and heartbeats and may fail
at any time. The browser and other clients poll the API or follow the event
stream.

What is hard:

- `process` keeps one SQLAlchemy session from before the execution until after
  `advance_run`; with `expire_on_commit=False` it never refreshes what it has
  loaded, so decisions rest on rows as they were before the task ran.
- One logical step is several transactions: success, then advance; failed
  attempt, then retry or dead letter, then advance. A process may die between.
- A lease is granted once and may be outlived by the execution it covers.
- The trigger lock covers the search but not the insert, and may expire or be
  unavailable; a constraint has to do the rest.
- Messages are lost, repeated, rejected and late; a consumer may end unnoticed.
- Event ids follow the order of inserts, visibility follows that of commits.
- Refreshes of the page outlive the session they were started in.
- Processes start at once on an empty database, look first and create later.
- Tokens carry a role and live on when it is taken away.
- Heartbeats share an event loop with blocking calls, and are lost silently.
- A request that timed out may have had its effect, or may yet have it.
- A commit is not an answer: what was done is asked for again.

`PROJECT.json` lists each of these and some more as hazards, at their lines.

## 2. The modules

**`DagExecution`**, abstract: the promise about one run. An attempt starts only
in an open run and after all dependencies produced their outputs; outputs are
never lost; a closed run never opens again. Execution is at-least-once.

**`Scheduler`**, abstract: what the workers amount to for somebody who reads
`workflow_runs` and `task_runs` alone. It has no workers, sessions, leases or
backoff and decides on the tables as they are: `Start` an attempt that is due or
was abandoned, `Finish` it with success, or with a retry or a failure as the policy
says, `Advance` some tasks that are due or have lost a dependency, and `Close` the
run with the verdict on tasks that have all ended, after which nothing happens.
That `Advance` takes *some* tasks, and that `Close` is not compelled, is all that is
left of stale sessions; `StaleSiblings` is the run that needs it.

**`TaskEngine`**, detailed. An action ends where the code commits or where it
reads: `Claim` (claim_task), `LoadTask`, `LoadRun`, `LoadSiblings` (the three
reads of `process`), `Succeed`, `Fail`, `RetryTask` (its commits), `AdvanceRun`
(the pass over the tasks, the verdict and the commit), `AdvanceRaises` (the
same, and then a publication raises what `publish_task` does not catch, so that
`process` goes on as if the execution had failed), `CancelCheck`,
`CancelFlush`, `CancelCommit`, and `Crash`, `Restart`, `CancelDies`,
`LeaseExpires` (of a task nobody works on), `LeaseOutrun` (under a live
execution), `BackoffElapses`. `view[w]` is the session of worker `w`, and
`Flush` is the unit of work: an UPDATE writes only the columns whose value
differs from what the session loaded. Contents of inputs and outputs are left
out: what matters is which tasks have one. Times are flags (a lease is held or
lapsed, a task available or not).

**`IdempotentTrigger`**: requests with equal, different, no or empty keys, each
at its own place in `start_run`: the lock (granted, timed out, Redis down,
expired under its holder), the search, the release, the insert (which waits for
an uncommitted row of the same key and fails on a committed one), the commit and
the answer, which may be lost and then the request is repeated.

**`DagValidation`**: `validate_dag` with the recursion of `visit` as an explicit
stack, a step per call, then `create_workflow` against the unique name, another
client that takes the name, and a request repeated after a lost answer.

**`TaskDelivery`**: the two ways from READY to a claim, polling and consuming,
with what is left when a publication fails, a consumer raises, a process dies
with an unacknowledged message, or a retry's message comes before its time. One
run per task, no cancellation, and no execution longer than its lease: those are
the engine's. `Release` merges a commit and the publication behind it, since a
message published late or never behaves like one delivered late or lost.
`RetryTask` and `Republish`, `PublishDeadLetter` and `CommitFailure` are
separate, since the order matters there.

**`EventStream`**: writers that insert and commit in any order; the query, the
inner loop, the connection and the client; breaks and reconnection with `after`
0 (what a browser's EventSource does with this URL: `Last-Event-ID` is not
read) or the last id the client knows.

**`BrowserSession`**: handlers run up to their next await; rendering, and with
it the end of the old effect (`active = false`) and the start of the new one,
comes later. Tokens are numbers, and state that shows data is the token whose
answer it shows. A refresh that `failed` does so for any reason: an expired
token, a network error, an answer that is not JSON.

**`Accounts`**: API and worker processes that come up (`create_all` looks and
creates, `bootstrap_admin` looks and inserts; who comes second raises and is
started again), requests to guarded endpoints from their sending over
`current_user` and `require_roles` to the answer, `POST /users` with its search,
its insert and commit, and its answer, which may be lost and the request be sent
again, sign-in, renewal and expiry, and an operator who lowers a role
or deactivates a user in the database, since no endpoint does. A row's id is the
process or request that inserted it; tokens with equal claims are one.

**`Monitoring`**: a clock, beats that are up to `MaxLate` seconds late and up to
`MaxMissed` times lost in a row, keys that expire, deaths and restarts; beside
them what the dashboard counts, the statuses of runs and tasks, changed as the
commits of `TaskEngine` change them (`Trigger`, `Claim`, `Succeed`, `RetryTask`,
`Advance` with its releases, cancellations of dependents and verdict, `Cancel`),
where a stale session may write over anything; and a dashboard request that
reads all of these in the order of its statements, workers one by one. A sleep, a
second and the time to live are the code's: `Interval` is `max(2, ttl // 3)`.

**`Executors`**: executions of tasks as `TaskEngine` allows them, again and at
the same time, here with what they send: a request travels, may arrive after its
sender has timed out or died, and is carried out by a service that honours the
`Idempotency-Key`. That service is an assumption taken from
`src/docs/ARCHITECTURE.md:24`; the module says what the code makes of it. The
timeout is httpx's: one for each wait for the connection, so `Timeout` raises only
if nothing has moved (`Trickle`) since the wait began. A template's references are
of two kinds: one *into* an output raises while that is not there, one to the
*whole* of it puts the text None (`holes`); `after` says which outputs belong to
tasks this one depends on, and it is claimed only when they are there.

In all modules a name ending in what goes wrong (`ClaimableOnce`, `DeadLetterLate`,
`VisitUnguarded`, …), introduced by a comment "A slip", is a mutated copy of the
definition below it. It is not part of the specification: putting it in the
place of the original must violate the property `PROJECT.json` names, which
shows that the property can fail.

## 3. The runs

| Run | Instance | Distinct states | Shows |
|---|---|---|---|
| `Hostile` | fan-in of 3, 2 workers, 1 cancel request, 1 crash, 1 outrun lease, 1 publication that raises | 2,114,958 | what holds in every environment, and the refinement of `DagExecution` |
| `Timely` | fan-in of 3, two attempts each, 2 workers, 2 crashes | 164,827 | single ownership, attempt log, retry budget, final verdicts, the refinement of `Scheduler`, reclaim of orphans, an end of runs worked on by one at a time |
| `Trigger` | 2 requests of one key, 1 of none, Redis failing, 1 crash | 40,167 | one run per key, agreeing answers, repeats, liveness |
| `Validation` | all graphs on 3 tasks with at most 2 dependencies each, repeated keys, 1 lost answer | 33,880 | verdict right both ways, termination, answer against table |
| `Delivery` | 2 tasks (2 and 1 attempts), 2 workers, 1 crash | 351,945 | one execution, honest notices, finality, progress without messages |
| `Events` | 2 writers of up to 3 events, 2 breaks | 102,110 | no gaps but by overtaking, eventual delivery |
| `Session` | 2 sign-ins, 1 reload, 2 refreshes at once | 35,526 | no session ended by another's failure, expired ones end, own data in the end |
| `Accounts` | 2 API processes, 1 worker, 2 requests, 1 sign-in, 1 failure (crash or lost answer) | 1,311,270 | unique accounts, true answers, no stale rights, all come up |
| `Monitoring` | 2 workers, time to live 7, 1 second late, 1 beat lost, 1 death; or a run of 2 tasks, one after the other, with cancellation | 274,329 | living workers known and shown, dead ones vanish, counts agree |
| `Executors` | 2 tasks, at least one of them http, 2 executions each | 396,069 | effects once, success only with effect, nothing unresolved, no execution without an end unless kept waiting |
| `StaleSiblings`, `CancelRace` | smallest instances | | expected violations, section 6 |

Type invariants, `AttemptLogComplete` and `InOrder` are proved and left out of the
runs; what the runs check is what relates several actors or stale state.

Bounds, and why they suffice for what they are meant to show:

- `MaxCrashes`, `MaxFailures`, `MaxLapses`, `MaxLost`, `MaxBreaks`, `MaxLogins`,
  `MaxReloads` cap what the environment may do; each effect named above needs one, and a
  second one where two must meet (`Timely`: a worker dies, and so does the one
  that reclaimed its task; `Events`: a client reconnects twice, with either
  cursor). Attempt counters are bounded by the retry policy and the crashes.
- Three tasks: fan-out, fan-in, a release that waits for the later of
  two, and independent tasks side by side all occur (in `Timely`, whose second
  attempts let a task fail late; `Hostile` has one attempt each and stays
  tractable with all disturbances together). Two workers: every race in
  `process` is between one session and the commits of others.
- Three keys in `Validation`: self-loops, cycles of two and three, diamonds with
  a repeated dependency, a dependency on an unknown key, and keys repeated as
  neighbours and apart.
- Three events of a writer against those of another: a batch of several, ids
  interleaved, and commits overtaking inserts.
- In `Accounts` three processes start on nothing, so that each look falls before,
  between and after another's insert; two requests ask for the same address, one
  of them perhaps with the first administrator's rights being taken away.
  Longer chains of renewals add no claims: a token stands for its like. One
  failure: a process dies at any point of start-up or of a request, or an answer is
  lost.
- In `Monitoring` the time to live of 7 seconds gives `Interval` 2, one lost and
  late beat exactly fits (`Punctual`: 2 * (2 + 1) < 7), and `IntervalHalf`, one
  second more, does not. The theorem covers the real 20 seconds. Fleet and runs meet only
  in the dashboard, so an instance looks at one of them at a time (`Sites`).
  One execution of a task at a time (`MaxAtOnce`), since sessions are stale in this
  module whatever runs beside them; the theorem has no such bound.
- Two executions per task in `Executors`: one that timed out or died and the one
  after it, or both at the same time; two tasks, to share a configured key. The
  pairs of configurations have each type, and each kind of reference with and
  without a dependency.
- `WorkerSymmetry` is used in `Hostile` only, which checks no liveness.

`CHECK_DEADLOCK FALSE` is set everywhere because each instance may come to
rest: runs end, requests are answered, bounds are used up.

Fairness. Weak fairness for each worker's poll and for its handler: the loops of
`worker_loop` and the handlers run as long as the process lives. For
`LeaseExpires` and `BackoffElapses`: time passes. For a cancel request that was
begun: the handler has no wait. `TaskDelivery` also assumes restarts (`restart:
unless-stopped` in `docker-compose.yml`) but no luck of a publisher or of the
broker. `Trigger` assumes that a client repeats a request that failed and that
Redis drops a lock after its time; `Validation` only that the handler runs.
`Accounts` assumes that a process which ended is started again, likewise
`restart: unless-stopped`, but not that tokens expire or that anybody signs in
or asks for anything. `Monitoring` assumes time, beats (of any lateness or fate)
and a page that keeps asking; `Executors` that the event loop goes on with each
execution, timers included, and nothing of the network or the service. `Events`
assumes that clients reconnect. `Session` assumes that effects, renders and
timers run and requests come to an end, with any outcome. Crashes, outrun
leases, cancellations, failures of Redis or AMQP, breaks, expiries, sign-ins and
sign-outs are never assumed to happen.

## 4. What the passing runs say

Engine, in every environment (`Hostile`): no task is released, claimed or run
before its dependencies' outputs are in the database, and its context contains
them although the session reads rows at different moments; a failed task has the
dead letter of an exhausted attempt; `task_attempts` has one row per attempt (a
theorem, section 5), so a claim never meets its unique constraint; a run reported
succeeded is complete unless a cancellation or a dead letter intervened.

Engine, where leases are not outrun (`Timely`): one worker at a time, the
attempt log agrees with the status, the retry policy is exceeded by crashes
only, verdicts are final, the tables change as under a `Scheduler`, orphans are
reclaimed. **This depends on the shape of the workflow.** On the fan-in (and on
every other workflow that is `Layered`: each task depends on the whole level
below its own, and otherwise on lower levels only), all that can be under way
when a task is released are its own dependencies. All of these properties but
the last are proved for all such workflows (section 5). Where something else can
be under way (`Branches`: `a` beside `b -> c`), a session of `a` that loaded its
siblings between the success of `b` and the release of `c` still sees `c`
BLOCKED and writes READY over a RUNNING `c`: `SingleOwner` fails (section 6).

`SequentialRunEnds` shows the logic of releasing and closing to be right as long
as one task at a time is worked on and nobody crashes. It says nothing about two
at a time: `StaleSiblings` does.

A publication that raises after the commit (`AdvanceRaises`) sends a task that
has succeeded back to `retry_task`. `Hostile` shows that the damage is bounded:
dependencies, dead letters, the attempt log and the refinement hold all the same,
because the output stays. Finality does not (section 6).

Trigger: with Redis up, down or slow, the constraint alone guarantees one run
per key; all answers on a key name the same committed run; a request sent when
the run exists finds it; a client that keeps asking is answered. The empty key
is the exception to the last two (section 6). The price is that a concurrent
request may see status 500.

Registration: the verdict is right in both directions and the search ends on
every graph. A 409 may be the answer to a repeat of one's own request.

Delivery: messages are hints. Safety rests on `claim_task`, progress on polling;
both hold without a single message arriving.

Events: what a connection delivers is increasing and above `after`; every
committed event reaches the client or was *overtaken*, that is, uncommitted when
a query answered with a later id. Overtaken events are below the cursor for
good; only a reconnection from 0 shows them. The properties except exactly those.

Session: a late failure of a refresh from an earlier session ends nothing; but a
late success may write old data into the page after a sign-out, and stays there
until the next session's refresh replaces it (`OwnDataInTheEnd` says no more).

Accounts: the unique constraint does the work that the look-first code does not.
Two processes or two requests that both looked in vain cannot both insert, an
answer never claims an account that is not there, and an uncaught
`IntegrityError` (status 500) still means that the address is somebody else's. So
does a 409, unless the answer to an earlier copy of the request was lost after the
commit: then it refuses the request's own account.
Processes that fail each other by starting at once come up in the end, but only
because they are restarted. Rights are read from the row at each request, so a
role in an old token is worth nothing; `POST /auth/login` gives tokens to a
deactivated user, who can do nothing with them. Renewal gives access tokens only.

Monitoring: with a time to live of 20 seconds a beat comes every 6. One beat may
be lost if no beat is more than 3 seconds late, or two if none is late; a Redis
call that does not answer blocks the loop for 2. Under that condition the
dashboard shows all living workers, except when Redis fails during the request:
then it shows none. The order of its statements (failed runs before dead letters)
keeps a failure from being counted nowhere: a run counted as failed has a dead
letter in the same answer, and a task counted neither as waiting nor as a dead
letter has its output or was cancelled, at some time. It may have been both: the
statuses are those of whoever wrote last.

Executors: the key is the task's id, equal for all its attempts, so a service
that honours it applies an effect once even when two workers execute the task at
the same time. A configured `Idempotency-Key` replaces the id: tasks that share
one share the effect, and all of them succeed. A template is resolved before
anything is sent. It may name a task that its own does not wait for: then a
reference into the output fails or not depending on who is faster, and one to the
whole output silently becomes `None` if it is early, and the request is sent; with a
dependency neither happens. An execution ends if its service answers, breaks off or
is silent for the length of the timeout. A service that sends bit after bit holds
it, and its worker's slot, for ever: `ExecutionsEnd` excepts exactly that.

## 5. What is proved

All theorems hold for every value of the constants that satisfies the module's
named assumption; TLAPS checks them with SMT, Zenon and LS4.

| Module | Theorem | Says |
|---|---|---|
| `TaskEngine_proofs` | `TypeCorrect` | `[]TypeOK` |
| | `DependencyInvariant`, `DependenciesFirst` | `DependencySafety` |
| | `ContextsAreComplete` | `ContextComplete` |
| | `FailuresAreRecorded` | `FailureIsRecorded` |
| | `EngineImplementsDagExecution` | `Spec => ImplementsDagExecution` |
| | `SuccessesAreComplete` | `SuccessIsComplete` |
| | `AttemptLogIsComplete` | `AttemptLogComplete` |
| | `OwnersAreSingle`, `LogAndStatusAgree` | `SingleOwner`; `LogAgreesWithStatus`, both if `Calm` and `Layered` |
| | `RetriesAreBounded` | `RetryBudget`, if `Calm` and `Layered` |
| | `VerdictsAreFinal` | `TerminalIsFinal`, if `Calm`, `Layered` and without cancel requests |
| | `EngineImplementsScheduler` | `Spec => ImplementsScheduler`, under the same conditions |
| `IdempotentTrigger_proofs` | `TriggerTypeCorrect`, `TriggerIsIdempotent` | types; `OneRunPerKey` |
| | `TriggerAnswersAgree`, `RepeatsFindTheRun` | `AnswersAgree`; `RepeatFindsTheRun` |
| `DagValidation_proofs` | `ValidationTypeCorrect`, `ValidationIsRight` | types; `VerdictIsRight` |
| | `AnswersMatchTheTable` | `AnswerMatchesTable` |
| `TaskDelivery_proofs` | `DeliveryTypeCorrect`, `DeliveryIsSafe` | types; `SingleExecution` |
| | `NoticesAreEarned`, `FinishedStaysFinished` | `NoticeIsEarned`; `SettledIsFinal` |
| `Clients_proofs` | `StreamTypeCorrect`, `StreamIsInOrder`, `StreamHasNoGap` | `EventStream`: types; `InOrder`; `NoGap` |
| | `SessionTypeCorrect`, `SessionsEndForAReason` | `BrowserSession`: `TypeOK`; `OnlyItsOwnCallsEndASession` |
| `Accounts_proofs` | `AccountsTypeCorrect`, `AccountsAreUnique` | types; `OneAccountEach` |
| | `AnswersAreTrue`, `RightsAreCurrent` | `UserAnswersAgree`; `NoStaleRights` |
| `Monitoring_proofs` | `MonitoringTypeCorrect`, `CountsAgree` | types; `FailuresAreShown` |
| | `WorkersAreKnown`, `LivingAreShown` | `KnownWhileAlive`, `FleetIsShown`, both if `Punctual` |
| `Executors_proofs` | `ExecutorsTypeCorrect`, `EffectsAreUnique` | types; `EffectOnce` |
| | `SuccessesAreReal`, `ReferencesAreResolved` | `SuccessIsReal`; `NothingUnresolved` |

The arguments.

*Engine.* Sessions are stale, so an invariant about the database alone is not
inductive. `DependencyInv` adds that a session's view contains only facts that
are still true in the sense that matters: a task it saw succeeded has an output
in the database, outputs it saw are there, and a job was claimed. Outputs are
never removed, so staleness cannot make these false; releases, which are decided
on views, are then as safe as if decided on the database. `FailureInv` relates
statuses in views to dead letters in the same way. For success, `SuccessInv`
follows the undisturbed case (no dead letter, no cancel request committed):
nothing is cancelled or failed anywhere, not in any view, so a session that
finds all tasks terminal has seen all outputs. The refinement needs that a closed
run stays closed (`RunClosesOrStays`) and that claims happen in open runs.
`EngineAssumption` demands of the graph only that no task depends on itself;
acyclicity is what `DagValidation` is about.

*Engine, calm and layered.* `Calm` says that no lease is outrun and no
publication raises; crashes are unlimited, and so are cancel requests but for
`VerdictsAreFinal` and `EngineImplementsScheduler`. `Calm` and `Layered` are
hypotheses of the theorems, not of the module, and each is needed: without the
first an execution is claimed twice or a success taken back, without the second
a stale session writes READY over RUNNING (section 6). The module
`MC_TaskEngine` lets TLC confirm that the fan-in of `Timely` is layered and that
`Branches` is not.

The inductive invariant `CalmInv` rests on `MayRelease(w, t)`: if the session of
`w` went on now, its pass would write READY into `t`. `OneRelease` says that such a
`t` is still blocked and that no other session may release it as well. To show it,
`Layers` keeps the levels apart in the database and in every session's view, and
`TrueViews` keeps what a session saw ended, and what it does not see blocked, true.
So a task running beside a release belongs to the level below
(`RunsBesideRelease`), is therefore a dependency, and its worker is the only one
whose session can take it for succeeded. From this, no flush changes the status of
a task other than along `Moves`, whoever works on a task keeps its lease
(`Leased`), and what can be claimed has no owner (`ClaimsAreFree`). A committed
cancellation breaks these parts, since it takes a running task away from its
worker, but it closes the run to claims; hence `CalmInv` has them only until then
(`OpenInv`), while single ownership (`Owners`), the log (`LogTells`) and the budget
go on. `Unattempted` carries the argument over: whatever may be released was never
attempted, so even a pass after a cancellation gives nobody's task away.
`Budgets` charges the attempt of an orphan to the crash that left it.

*The scheduler.* Without cancel requests `RunInv` adds that a closed run has all its
tasks ended, with the verdict they stand for. The mapping is the identity on the
tables, so each step has to be justified by the tables alone: the commit that ends an
attempt finds the task RUNNING with the attempt the session knows (`Leased`,
`Owners`), so it writes what `Outcomes` allows (`CommitSchedules`); the pass changes
only tasks that are blocked, and for reasons found in the database as well
(`PassChangesBlocked`, from `OneRelease` and `TrueViews`), and when its session sees
all tasks ended they have ended so (`PassSchedules`). All other steps stutter.

*Trigger.* `InsertedAlone`: the row being inserted under a key is the only one
inserted, and no committed row has that key. The lock is not used.

*Registration.* `Calls` describes the stack (distinct nodes, each but the first
a dependency of the one below, `visiting` exactly the stack's nodes); `Search`
says that everything visited is a key, that dependencies of a visited node are
visited, that dependencies already gone through are visited, and that no visited
set contains a knot. A *knot* is a non-empty set of keys each of which depends
on a member: the definition of cyclic that needs no paths, hence no recursion
and no induction over data. A cycle found is a knot (the stack from the repeated
node up); when the loop ends, all keys are visited, so there is none.

*Delivery.* `Ownership`: a busy actor's task is running under a live lease and no
other actor is busy with it. `Budget` adds that an attempt under way whose
failure was announced has used up its budget, and that a failed task has.

*Events.* `Covered`: every id up to the cursor, visible or not, has been seen, is on
the wire or was overtaken, and every id between the cursor and a member of the
batch is in the batch or was overtaken; `Stream`: received and travelling ids
are increasing and end at the cursor. It has to speak of rows that are not
committed yet, since they may be committed at any later time.

*Session.* `Clients_proofs` has `BrowserSession` as its instance `Tab`. `PageTells`
relates what is stored, believed and shown: nobody can sign in while a token is
stored, and an effect runs exactly while a session is shown. So an effect belongs to
one token, and `CallsAreOwn` follows: a refresh whose effect is still running was
sent with the token stored now. `EffectsAreCaused` counts effects against sign-ins and
reloads, those that have yet to start included.

*Accounts.* `IdsTell`: an id says where its row came from, so an inserted id is
new, and rows keep id and address; with the unique constraint this gives
`OneAccountEach`. `OwnAddress`: a request that has a row asks for its address,
so when it is sent again it finds that row and stops; with `IdsTell`, which says
that a row nobody was told of belongs to a lost answer, this gives the answers.
For the rights, `TokensHaveUsers` and `CallsHaveUsers` say that nothing names a
user who is yet to come, and `RightsShrink` that a call which would be admitted
now was entitled when it was sent: rows lose rights, and each role list that has
a role has all above it (the part of `AccountsAssumption` about `RoleLists`).

*Monitoring.* `KeyAge`: what a key has lost of its time to live is at most
`missed * (Interval + MaxLate) + Interval - next`, the time of the beats lost and
of the current sleep. With `Punctual` that is less than the time to live.
`RecordsInv`: every status that ends a task leaves a record which no later write
takes away (an output, a dead letter, a cancellation), and a failed run has a dead
letter. `CountsInv` says the same of what the request has read so far: statuses
may be written over between two statements, records are not.

*Executors.* `KeysApplyOnce`: no two requests with one key were carried out; all
executions of a task have the same key (`SameTaskSameKey`). `EffectInv` follows an
effect back to the caller: a good answer on its way, an http execution that is
done and a task that has succeeded each stand for a request carried out, and keys
never change. `ResolvedInv`: what has come past the templates had its references
resolved, what was begun had waited for its dependencies, and outputs stay.

Every invariant and every safety action property of the passing runs is a theorem.
Model-checked only: liveness and `ENABLED`, which are out of TLAPS's reach
(`OrphanIsReclaimed`, `SequentialRunEnds`, `EventuallyAnswered`, `ReleasedIsSettled`,
`EventuallySeen`, `ExpiredSessionEnds`, `OwnDataInTheEnd`, `EveryProcessComesUp`,
`DeadWorkersVanish`, `ExecutionsEnd`), and the expected violations.

## 6. Where the code and its documents disagree

Two expected violations are runs; TLC finds the counterexample.

- `StaleSiblings`: two tasks side by side, two workers, nothing fails. Both load
  their siblings before either finishes, so neither sees the other succeed and
  nobody closes the run (or releases a common dependent).
- `CancelRace`: the cancellation commits while the last task executes;
  `advance_run` sees the run status loaded before and writes `succeeded`.

More were found with the same modules and are kept as instructions, to keep the
set of runs small. Instances are in `MC_TaskEngine` and `MC_IdempotentTrigger`;
bounds not mentioned are 0, `Cancellers` is `{}`, workers are two, and the
specification is `FairSpec` for temporal properties and `Spec` for others:

- The lease is not renewed, contrary to `src/README.md:357` and, with line 104,
  to what leases are for: `SingleOwner` on `Pair`/`PairOnce` with
  `MaxLapses = 1`. An execution longer than its lease is claimed a second time.
- The trigger lock is released before the insert: `NoRequestConflicts` with
  `TwoRequests`/`TwoOfOneKey`, `RedisFails = FALSE`. Two concurrent requests with
  one key both search in vain, the second insert raises `IntegrityError`, and
  status 500 is answered where `src/backend/tests/test_workflows.py:70-77` expects
  the first one's run.
- A succeeded task is attempted again, and may end as failed: `TerminalIsFinal` on
  `Sequence`/`SequenceOnce` with `MaxOutages = 1`. `publish_task` catches
  `AMQPError` only, and `advance_run` is called inside the `try` of `process`.
  `src/README.md:456` calls messages mere notifications.
- A failure cancels one level of dependents only: `SequentialRunEnds` on
  `Chain`/`ChainOnce` with one worker. Nobody repeats the pass, and the run stays
  open.
- A worker dies between the success commit and `advance_run`:
  `SucceedsUnlessDeadLettered` on `Sequence`/`SequenceOnce` with `MaxCrashes = 1`.
  Nobody advances the run.
- A stale session writes READY over RUNNING, see section 4: `SingleOwner` on
  `Branches`/`BranchesOnce`.
- The empty key skips the search and still is unique in the table:
  `EmptyKeyFindsTheRun` with `EmptyRequests`/`TwoEmptyKeys`. A request with it that
  is repeated fails each time.
- A cancelled run may keep a task RETRYING: `retry_task` writes over CANCELLED.
  The task is never claimed, since its run is not RUNNING.

## 7. Not modelled

Read endpoints, metrics and configuration keep no state of their own. The rest
of the front end edits local state, but for the workflow builder
(`src/frontend/app/page.tsx:278`), which sends its form to `POST /workflows`: what
the server makes of that is `DagValidation`, the form is not modelled. Deployment, build and
install scripts, tests and examples are not part of the running system. Not
modelled in what is: contents of payloads and the text templates make, passwords
and signatures, arithmetic on time except for heartbeats, the connection pool
(which a slow client of the event stream may exhaust, `main.py:250`), results that
the database refuses to store, and SQLite, which the tests use and which
serialises writers.

## 8. Plan

Written so far, in this order: `DagExecution`, `TaskEngine`, their proofs,
`IdempotentTrigger`, `DagValidation`, `TaskDelivery`, `EventStream`,
`BrowserSession`, with proofs for all but the last; then `AdvanceRaises` in `TaskEngine`,
`Accounts`, `Monitoring`, `Executors`, their proofs; then the theorems about calm runs
of layered workflows and about `BrowserSession`, and `Scheduler` with the second
refinement. Next, in the order of value:

1. `EventStream`: a composition with `TaskEngine` in which each commit emits its
   events, to say when a client has seen a run's end.
2. `GET /runs/{id}`, which reads the run and its tasks in two statements.
