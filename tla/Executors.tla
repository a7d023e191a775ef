----------------------------- MODULE Executors ------------------------------
(***************************************************************************)
(* What the executors do between a claim and its verdict, and what the     *)
(* service at the other end of an http task sees of it.                    *)
(*                                                                         *)
(* A task is executed again when an execution failed, when its worker died *)
(* (TaskEngine: the lease lapses), and while it is still going on, if that *)
(* takes longer than the lease.  A request that timed out may yet arrive.  *)
(* The service honours the Idempotency-Key, as docs/ARCHITECTURE.md wants: *)
(* it carries a request out unless it did so for an earlier one with that  *)
(* key, and then answers as it did before.                                 *)
(*                                                                         *)
(* Of a configuration this module keeps the type, an Idempotency-Key among *)
(* the headers, and the references of its templates: into outputs of the   *)
(* run, and to outputs as a whole; of the context, which outputs there     *)
(* are.  A configuration that always raises is one with a reference into   *)
(* an output that never comes.  The shape of values is abstracted.         *)
(***************************************************************************)
EXTENDS Naturals

CONSTANTS Tasks,
          Refs,         \* references {{ ... }} of templates to outputs
          Configs,      \* what the tasks may be: functions from Tasks to
                        \* configurations [type, key, refs, whole, after];
                        \* refs lead into outputs, whole to outputs as a
                        \* whole, after to those of tasks it depends on
          NoKey,        \* no Idempotency-Key is configured
          MaxAttempts,
          MaxClaims     \* bound on the executions of a task

ASSUME ExecutorsAssumption ==
  /\ \A cs \in Configs : \A t \in Tasks :
       /\ cs[t].type \in {"http", "delay", "transform"}
       /\ cs[t].refs \cup cs[t].whole \cup cs[t].after \subseteq Refs
       /\ cs[t].key \notin Tasks
  /\ MaxAttempts \in Nat \ {0} /\ MaxClaims \in Nat

VARIABLES
  config,   \* per task: its configuration
  known,    \* the references to outputs there are
  status,   \* per task: its row's status
  claims,   \* per task: the executions begun so far; numbered like attempts
  step,     \* per execution: how far it is
  wire,     \* the executions whose request is on its way
  replies,  \* the answers on their way, [to, ok]
  heard,    \* the executions whose connection has moved since httpx began to
            \* wait anew
  holes,    \* the outputs an execution has put the text None for
  applied   \* the executions whose request the service has carried out

wait == <<wire, replies, heard>>
vars == <<config, known, status, claims, step, wait, holes, applied>>

Executions == Tasks \X (1 .. MaxClaims)
Under == {"begun", "asleep", "waiting"}
Ended == {"done", "raised"}

TypeOK ==
  /\ config \in Configs
  /\ known \subseteq Refs
  /\ status \in [Tasks -> {"ready", "running", "retrying", "succeeded", "failed"}]
  /\ claims \in [Tasks -> 0 .. MaxClaims]
  /\ step \in [Executions -> Under \cup Ended \cup {"none", "over"}]
  /\ wire \subseteq Executions
  /\ replies \subseteq [to : Executions, ok : BOOLEAN]
  /\ heard \subseteq Executions
  /\ holes \subseteq Executions \X Refs
  /\ applied \subseteq Executions
  /\ \A x \in Executions : step[x] = "none" <=> x[2] > claims[x[1]]

Init ==
  /\ config \in Configs
  /\ known = {}
  /\ status = [t \in Tasks |-> "ready"]
  /\ claims = [t \in Tasks |-> 0]
  /\ step = [x \in Executions |-> "none"]
  /\ wire = {}
  /\ replies = {}
  /\ heard = {}
  /\ holes = {}
  /\ applied = {}

-----------------------------------------------------------------------------
(* Around the executor                                                     *)

\* Another task of the run ends.  Nothing keeps a template from naming one
\* that its own task does not wait for.
Finish(ref) ==
  /\ ref \notin known
  /\ known' = known \cup {ref}
  /\ UNCHANGED <<config, status, claims, step, wait, holes, applied>>

\* claim_task; a running task is claimed when its lease is over.  No task is
\* ready before those it depends on have succeeded.
Claim(t) ==
  /\ status[t] \in {"ready", "retrying", "running"}
  /\ config[t].after \subseteq known
  /\ claims[t] < MaxClaims
  /\ claims' = [claims EXCEPT ![t] = @ + 1]
  /\ status' = [status EXCEPT ![t] = "running"]
  /\ step' = [step EXCEPT ![<<t, claims[t] + 1>>] = "begun"]
  /\ UNCHANGED <<config, known, wait, holes, applied>>

\* Nobody waits for this execution's answer any more.
HangUp(x) ==
  /\ replies' = {r \in replies : r.to # x}
  /\ heard' = heard \ {x}
  /\ UNCHANGED wire

\* The worker dies.
Die(x) ==
  /\ step[x] \in Under \cup Ended
  /\ step' = [step EXCEPT ![x] = "over"]
  /\ HangUp(x)
  /\ UNCHANGED <<config, known, status, claims, holes, applied>>

\* process writes the verdict over whatever the row says meanwhile.
Settle(x) ==
  /\ step[x] \in Ended
  /\ status' = [status EXCEPT ![x[1]] =
                  IF step[x] = "done" THEN "succeeded"
                  ELSE IF x[2] < MaxAttempts THEN "retrying" ELSE "failed"]
  /\ step' = [step EXCEPT ![x] = "over"]
  /\ UNCHANGED <<config, known, claims, wait, holes, applied>>

-----------------------------------------------------------------------------
(* resolve and execute                                                     *)

\* A slip: a reference that leads nowhere is left as it is.
ResolvesLeniently(c) == TRUE

\* A reference into an output that is not there raises, before anything is
\* sent.
Resolves(c) == c.refs \subseteq known

\* One to the whole of it does not: it becomes the text None.
Missing(c) == c.whole \ known

\* A slip: each execution has a key of its own.
KeyOfItsOwn(x) == x

\* A key that is configured comes last, and counts.
Key(x) == LET c == config[x[1]] IN IF c.key = NoKey THEN x[1] ELSE c.key

Goto(x, where) == step' = [step EXCEPT ![x] = where]

Execute(x) ==
  /\ step[x] = "begun"
  /\ LET c == config[x[1]]
     IN \/ /\ ~Resolves(c)
           /\ Goto(x, "raised") /\ UNCHANGED <<wire, holes>>
        \/ /\ Resolves(c)
           /\ holes' = holes \cup ({x} \X Missing(c))
           /\ \/ c.type = "transform" /\ Goto(x, "done") /\ UNCHANGED wire
              \/ c.type = "delay" /\ Goto(x, "asleep") /\ UNCHANGED wire
              \/ c.type = "http" /\ Goto(x, "waiting") /\ wire' = wire \cup {x}
  /\ UNCHANGED <<config, known, status, claims, replies, heard, applied>>

\* After an hour at most.
Wake(x) ==
  /\ step[x] = "asleep"
  /\ Goto(x, "done")
  /\ UNCHANGED <<config, known, status, claims, wait, holes, applied>>

\* A slip: raise_for_status is not called.
ReceiveAny(x) ==
  /\ step[x] = "waiting"
  /\ \E r \in replies : r.to = x
  /\ Goto(x, "done")
  /\ HangUp(x)
  /\ UNCHANGED <<config, known, status, claims, holes, applied>>

\* An answer; raise_for_status decides what it is worth.
Receive(x) ==
  /\ step[x] = "waiting"
  /\ \E r \in replies : r.to = x /\ Goto(x, IF r.ok THEN "done" ELSE "raised")
  /\ HangUp(x)
  /\ UNCHANGED <<config, known, status, claims, holes, applied>>

\* A slip: httpx is told to wait as long as it takes.
TimeoutNever(x) == FALSE /\ UNCHANGED vars

\* The timeout is one for each wait for the connection, not for the whole
\* exchange: it raises if nothing has moved meanwhile, and else runs anew.
Timeout(x) ==
  /\ step[x] = "waiting"
  /\ \/ /\ x \in heard
        /\ heard' = heard \ {x}
        /\ UNCHANGED <<step, wire, replies>>
     \/ /\ x \notin heard
        /\ Goto(x, "raised")
        /\ HangUp(x)
  /\ UNCHANGED <<config, known, status, claims, holes, applied>>

\* The connection breaks.
Break(x) ==
  /\ step[x] = "waiting"
  /\ Goto(x, "raised")
  /\ HangUp(x)
  /\ UNCHANGED <<config, known, status, claims, holes, applied>>

-----------------------------------------------------------------------------
(* The service                                                             *)

\* Some bytes go to and fro, or come from the service, but no whole answer.
Trickle(x) ==
  /\ step[x] = "waiting"
  /\ heard' = heard \cup {x}
  /\ UNCHANGED <<config, known, status, claims, step, wire, replies, holes, applied>>

Repeated(x) == \E y \in applied : Key(y) = Key(x)

\* An answer finds nobody when the execution is over.
Reply(x, ok) ==
  replies' = replies \cup
    (IF step[x] = "waiting" THEN {[to |-> x, ok |-> ok]} ELSE {})

\* A request arrives: it is carried out, refused, or known already.
Arrive(x) ==
  /\ x \in wire
  /\ wire' = wire \ {x}
  /\ \/ Repeated(x) /\ Reply(x, TRUE) /\ UNCHANGED applied
     \/ ~Repeated(x) /\ Reply(x, TRUE) /\ applied' = applied \cup {x}
     \/ ~Repeated(x) /\ Reply(x, FALSE) /\ UNCHANGED applied
  /\ UNCHANGED <<config, known, status, claims, step, heard, holes>>

-----------------------------------------------------------------------------
(* The specification                                                       *)

Run(x) == Execute(x) \/ Wake(x) \/ Receive(x) \/ Timeout(x) \/ Settle(x)

Next ==
  \/ \E ref \in Refs : Finish(ref)
  \/ \E t \in Tasks : Claim(t)
  \/ \E x \in Executions : Run(x) \/ Die(x)
                           \/ Arrive(x) \/ Trickle(x) \/ Break(x)

Spec == Init /\ [][Next]_vars

\* The event loop goes on with every execution.  The network and the service
\* owe nothing, other tasks need not end, and nobody has to claim a task.
FairSpec == Spec /\ \A x \in Executions : WF_vars(Run(x))

-----------------------------------------------------------------------------
(* Properties                                                              *)

\* The effect of an http task happens at most once, however often and however
\* concurrently it is executed: docs/ARCHITECTURE.md:24.
EffectOnce == \A x, y \in applied : x[1] = y[1] => x = y

\* An http task that has succeeded has had its effect, for itself or, if a key
\* is configured that others have too, for one of those.
SuccessIsReal ==
  \A t \in Tasks :
    status[t] = "succeeded" /\ config[t].type = "http" =>
      \E x \in applied : Key(x) = Key(<<t, 1>>)

\* A reference into an output costs an attempt and nothing else while the
\* output is not there: no request is carried out and no task has succeeded
\* without it.  A reference to an output as a whole does not: the task runs,
\* and may succeed, with None for it; but never for an output of a task that
\* it depends on.
NothingUnresolved ==
  /\ \A x \in applied : config[x[1]].refs \subseteq known
  /\ \A t \in Tasks :
       status[t] = "succeeded" => config[t].refs \subseteq known
  /\ \A h \in holes : h[2] \notin config[h[1][1]].after

\* An execution holds its worker for ever only if the service keeps it waiting
\* with bit after bit, as no limit is set on the whole exchange: again and
\* again it is over or has heard something, and no wait is without an end.
ExecutionsEnd ==
  \A x \in Executions : /\ []<>(step[x] \in {"none", "over"} \/ x \in heard)
                        /\ []<>(x \notin heard)
=============================================================================
