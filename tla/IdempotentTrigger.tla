------------------------- MODULE IdempotentTrigger --------------------------
(***************************************************************************)
(* POST /workflows/{id}/runs on one workflow: trigger_run and start_run,   *)
(* run concurrently by the API's threads and processes, with the Redis     *)
(* lock they take, the unique constraint they rely on, and the clients     *)
(* that repeat a request whose answer they did not get.                    *)
(*                                                                         *)
(* The lock covers the search for an existing run and is released before   *)
(* the new run is inserted.  The constraint uq_run_idempotency makes an    *)
(* insert wait for an uncommitted one with the same key, and fails it once *)
(* that is committed.                                                      *)
(***************************************************************************)
EXTENDS Naturals, FiniteSets

CONSTANTS Requests,      \* what clients ask for; each is repeated until done
          Keys,          \* the idempotency keys, NoKey and EmptyKey included
          KeyOf,         \* KeyOf[r] is the key request r carries
          NoKey,         \* no key: NULL in workflow_runs.idempotency_key
          EmptyKey,      \* "": false in Python, a value to PostgreSQL
          RedisFails,    \* whether calls to Redis may fail
          MaxCrashes,    \* bound on API processes dying under a request
          Nobody

ASSUME TriggerAssumption ==
  /\ KeyOf \in [Requests -> Keys]
  /\ NoKey # EmptyKey
  /\ RedisFails \in BOOLEAN
  /\ MaxCrashes \in Nat
  /\ Nobody \notin Requests

VARIABLES
  runs,     \* committed rows of workflow_runs
  lock,     \* per lock name: the request holding it in Redis, or Nobody
  held,     \* the requests whose thread believes it holds its lock
  stage,    \* per request: where start_run stands
  found,    \* per request: the runs its search returned, at most one
  repeated, \* the requests that arrived when a run with their key existed
  answers,  \* what clients were told: [request, run, created]
  crashes

vars == <<runs, lock, held, stage, found, repeated, answers, crashes>>

-----------------------------------------------------------------------------

\* A run is named by the request that created it and a number, since a
\* request without a key creates one run each time it is repeated.
Run == [by : Requests, n : Nat, key : Keys]

Stages == {"new", "searching", "releasing", "inserting", "inserted",
           "answering", "failed", "conflict", "done"}

TypeOK ==
  /\ runs \subseteq Run
  /\ lock \in [Keys -> Requests \cup {Nobody}]
  /\ held \subseteq Requests
  /\ stage \in [Requests -> Stages]
  /\ found \in [Requests -> SUBSET Run]
  /\ repeated \subseteq Requests
  /\ answers \subseteq [request : Requests, run : Run, created : BOOLEAN]
  /\ crashes \in 0 .. MaxCrashes

\* Requests without a key, or with an empty one, share a lock.
LockOf(r) == IF KeyOf[r] = EmptyKey THEN NoKey ELSE KeyOf[r]

RunsFor(k) == {x \in runs : x.key = k}

\* A slip: no uq_run_idempotency.
ConflictsNever(r) == FALSE

\* The constraint: NULLs are distinct, every other key is unique.
Conflicts(r) == KeyOf[r] # NoKey /\ RunsFor(KeyOf[r]) # {}
MustWait(r) ==
  /\ KeyOf[r] # NoKey
  /\ \E q \in Requests \ {r} : stage[q] = "inserted" /\ KeyOf[q] = KeyOf[r]

\* Slips in the search: the key is forgotten in the WHERE clause; it never
\* finds anything.
ExistingOfAnyKey(r) == IF KeyOf[r] \in {NoKey, EmptyKey} THEN {} ELSE runs
ExistingNever(r) == {}

\* The existence check is skipped when the key is false in Python.
Existing(r) ==
  IF KeyOf[r] \in {NoKey, EmptyKey} THEN {} ELSE RunsFor(KeyOf[r])

NewRun(r) ==
  [by |-> r, n |-> Cardinality({x \in runs : x.by = r}), key |-> KeyOf[r]]

Move(r, from, to) == stage[r] = from /\ stage' = [stage EXCEPT ![r] = to]

Init ==
  /\ runs = {}
  /\ lock = [k \in Keys |-> Nobody]
  /\ held = {}
  /\ stage = [r \in Requests |-> "new"]
  /\ found = [r \in Requests |-> {}]
  /\ repeated = {}
  /\ answers = {}
  /\ crashes = 0

-----------------------------------------------------------------------------
(* The lock                                                                *)

\* A request arrives; from here on it counts as repeated or not.
Arrive(r) ==
  repeated' = IF RunsFor(KeyOf[r]) # {} THEN repeated \cup {r}
              ELSE repeated \ {r}

Acquire(r) ==
  /\ Move(r, "new", "searching")
  /\ Arrive(r)
  /\ lock[LockOf(r)] = Nobody
  /\ lock' = [lock EXCEPT ![LockOf(r)] = r]
  /\ held' = held \cup {r}
  /\ UNCHANGED <<runs, found, answers, crashes>>

\* Redis raises: the request goes on without the lock, which the server may
\* have granted all the same.
AcquireRaises(r) ==
  /\ RedisFails
  /\ Move(r, "new", "searching")
  /\ Arrive(r)
  /\ \/ UNCHANGED lock
     \/ /\ lock[LockOf(r)] = Nobody
        /\ lock' = [lock EXCEPT ![LockOf(r)] = r]
  /\ UNCHANGED <<runs, held, found, answers, crashes>>

\* The lock stays taken for two seconds: RuntimeError, status 500.
AcquireTimesOut(r) ==
  /\ Move(r, "new", "failed")
  /\ Arrive(r)
  /\ lock[LockOf(r)] # Nobody
  /\ UNCHANGED <<runs, lock, held, found, answers, crashes>>

\* A slip: only a lock whose holder is alive goes away.
LockExpiresIfHeld(k) ==
  /\ lock[k] \in held
  /\ lock' = [lock EXCEPT ![k] = Nobody]
  /\ UNCHANGED <<runs, held, stage, found, repeated, answers, crashes>>

\* Ten seconds after it was taken the lock is free, whatever its holder does.
LockExpires(k) ==
  /\ lock[k] # Nobody
  /\ lock' = [lock EXCEPT ![k] = Nobody]
  /\ UNCHANGED <<runs, held, stage, found, repeated, answers, crashes>>

-----------------------------------------------------------------------------
(* start_run                                                               *)

Search(r) ==
  /\ Move(r, "searching", "releasing")
  /\ found' = [found EXCEPT ![r] = Existing(r)]
  /\ UNCHANGED <<runs, lock, held, repeated, answers, crashes>>

\* The with block ends; a failing release is ignored.
Release(r) ==
  /\ Move(r, "releasing", IF found[r] = {} THEN "inserting" ELSE "answering")
  /\ \/ /\ r \in held /\ lock[LockOf(r)] = r
        /\ lock' = [lock EXCEPT ![LockOf(r)] = Nobody]
     \/ /\ RedisFails \/ r \notin held \/ lock[LockOf(r)] # r
        /\ UNCHANGED lock
  /\ held' = held \ {r}
  /\ UNCHANGED <<runs, found, repeated, answers, crashes>>

\* db.flush() sends the INSERT; IntegrityError ends the request.
Insert(r) ==
  /\ ~MustWait(r)
  /\ Move(r, "inserting", IF Conflicts(r) THEN "conflict" ELSE "inserted")
  /\ UNCHANGED <<runs, lock, held, found, repeated, answers, crashes>>

\* The run, its tasks and run.started are committed together.
Commit(r) ==
  /\ Move(r, "inserted", "answering")
  /\ runs' = runs \cup {NewRun(r)}
  /\ UNCHANGED <<lock, held, found, repeated, answers, crashes>>

\* The run whose id the response carries: the one found, or the one made.
Told(r) ==
  IF found[r] # {} THEN found[r]
  ELSE {x \in runs : x.by = r /\ x.n + 1 = NewRun(r).n}

Answer(r) ==
  /\ Move(r, "answering", "done")
  /\ answers' = answers \cup
       {[request |-> r, run |-> x, created |-> found[r] = {}] : x \in Told(r)}
  /\ UNCHANGED <<runs, lock, held, found, repeated, crashes>>

-----------------------------------------------------------------------------
(* Clients and crashes                                                     *)

\* A client that got an error sends the request again.
Repeat(r) ==
  /\ stage[r] \in {"failed", "conflict"}
  /\ stage' = [stage EXCEPT ![r] = "new"]
  /\ found' = [found EXCEPT ![r] = {}]
  /\ UNCHANGED <<runs, lock, held, repeated, answers, crashes>>

\* The API process dies under the request, or the answer is lost; what was
\* not committed is rolled back and the client sends the request again.
Crash(r) ==
  /\ stage[r] \notin {"new", "failed", "conflict", "done"}
  /\ crashes < MaxCrashes
  /\ crashes' = crashes + 1
  /\ stage' = [stage EXCEPT ![r] = "new"]
  /\ found' = [found EXCEPT ![r] = {}]
  /\ held' = held \ {r}
  /\ UNCHANGED <<runs, lock, repeated, answers>>

-----------------------------------------------------------------------------

Serve(r) ==
  \/ Acquire(r) \/ AcquireRaises(r) \/ AcquireTimesOut(r)
  \/ Search(r) \/ Release(r) \/ Insert(r) \/ Commit(r) \/ Answer(r)

Next ==
  \/ \E r \in Requests : Serve(r) \/ Repeat(r) \/ Crash(r)
  \/ \E k \in Keys : LockExpires(k)

Spec == Init /\ [][Next]_vars

\* The API serves every request it got, Redis drops a lock after its time,
\* and a client repeats a request until it is answered.
Fairness ==
  /\ \A r \in Requests : WF_vars(Serve(r)) /\ WF_vars(Repeat(r))
  /\ \A k \in Keys : WF_vars(LockExpires(k))

FairSpec == Spec /\ Fairness

-----------------------------------------------------------------------------
(* Properties                                                              *)

\* However requests with one key race, fail and are repeated, whether or not
\* Redis works, at most one run is made for it.
OneRunPerKey ==
  \A x, y \in runs : x.key = y.key /\ x.key # NoKey => x = y

\* All who are answered on one key are told the same run, it is committed,
\* and only the requests of its maker are told that they created it.
AnswersAgree ==
  \A a, b \in answers :
    /\ a.run \in runs
    /\ a.created => a.run.by = a.request
    /\ KeyOf[a.request] = KeyOf[b.request] /\ KeyOf[a.request] # NoKey
         => a.run = b.run

\* A request that is sent when the run for its key exists does not collide
\* with it: it is told the run, as when an answer was lost after the commit.
\* The empty key is the exception: the search passes over it.
RepeatFindsTheRun ==
  \A r \in repeated :
    KeyOf[r] \notin {NoKey, EmptyKey} => stage[r] # "conflict"

\* The same with the empty key, of which it is false.
EmptyKeyFindsTheRun ==
  \A r \in repeated : KeyOf[r] # NoKey => stage[r] # "conflict"

\* No request collides with another one of the same key.
NoRequestConflicts == \A r \in Requests : stage[r] # "conflict"

\* A client that keeps asking is told a run in the end, unless its key is the
\* empty one: that may fail on the constraint for ever.
EventuallyAnswered ==
  \A r \in Requests :
    KeyOf[r] # EmptyKey => <>(\E a \in answers : a.request = r)
=============================================================================
