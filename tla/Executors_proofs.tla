-------------------------- MODULE Executors_proofs --------------------------
(***************************************************************************)
(* Theorems about Executors, for any number of tasks and of executions, of *)
(* any configurations, and whatever the network and the service do.        *)
(***************************************************************************)
EXTENDS Executors, TLAPS

-----------------------------------------------------------------------------
(* Types                                                                   *)

\* Executors, its configurations, executions and answers keep their types,
\* and an execution is numbered by the claim that began it.
THEOREM ExecutorsTypeCorrect == Spec => []TypeOK
<1>1. Init => TypeOK
  BY ExecutorsAssumption DEF Init, TypeOK, Executions
<1>2. TypeOK /\ [Next]_vars => TypeOK'
  <2> SUFFICES ASSUME TypeOK, [Next]_vars
               PROVE  TypeOK'
    OBVIOUS
  <2> USE DEF TypeOK
  <2>1. CASE UNCHANGED vars
    BY <2>1 DEF vars, wait
  <2>2. ASSUME NEW ref \in Refs, Finish(ref)
        PROVE  TypeOK'
    BY <2>2 DEF Finish, wait
  <2>3. ASSUME NEW t \in Tasks, Claim(t)
        PROVE  TypeOK'
    <3> DEFINE n == claims[t] + 1
    <3>1. claims[t] \in 0 .. MaxClaims /\ claims[t] < MaxClaims /\ MaxClaims \in Nat
      BY <2>3, ExecutorsAssumption DEF Claim
    <3>2. n \in 1 .. MaxClaims /\ claims' \in [Tasks -> 0 .. MaxClaims]
      BY <2>3, <3>1 DEF Claim
    <3>3. <<t, n>> \in Executions
      BY <3>2 DEF Executions
    <3>4. step' = [step EXCEPT ![<<t, n>>] = "begun"]
      BY <2>3 DEF Claim
    <3>5. \A x \in Executions : step'[x] = "none" <=> x[2] > claims'[x[1]]
      <4> SUFFICES ASSUME NEW x \in Executions
                   PROVE  step'[x] = "none" <=> x[2] > claims'[x[1]]
        OBVIOUS
      <4>1. x[1] \in Tasks /\ x[2] \in 1 .. MaxClaims /\ x = <<x[1], x[2]>>
        BY DEF Executions
      <4>2. claims' = [claims EXCEPT ![t] = n]
        BY <2>3 DEF Claim
      <4>3. CASE x = <<t, n>>
        <5>1. step'[x] = "begun" /\ x[1] = t /\ x[2] = n
          BY <3>3, <3>4, <4>3
        <5>2. claims'[x[1]] = n
          BY <4>2, <5>1
        <5> QED
          BY <3>1, <5>1, <5>2
      <4>4. CASE x # <<t, n>> /\ x[1] = t
        <5>1. step'[x] = step[x] /\ claims'[x[1]] = n /\ x[2] # n
          BY <3>3, <3>4, <4>1, <4>2, <4>4
        <5>2. x[2] > claims[t] <=> x[2] > n
          BY <3>1, <4>1, <5>1
        <5> QED
          BY <4>4, <5>1, <5>2
      <4>5. CASE x[1] # t
        <5>1. step'[x] = step[x] /\ claims'[x[1]] = claims[x[1]]
          BY <3>3, <3>4, <4>1, <4>2, <4>5
        <5> QED
          BY <5>1
      <4> QED
        BY <4>3, <4>4, <4>5
    <3> QED
      BY <2>3, <3>2, <3>3, <3>4, <3>5 DEF Claim, Under, wait
  <2>4. ASSUME NEW x \in Executions,
               Run(x) \/ Die(x) \/ Arrive(x) \/ Trickle(x) \/ Break(x)
        PROVE  TypeOK'
    <3>1. x[1] \in Tasks
      BY DEF Executions
    <3>2. CASE Execute(x)
      <4>1. {x} \X Missing(config[x[1]]) \subseteq Executions \X Refs
        BY <3>1, ExecutorsAssumption DEF Missing
      <4>2. holes' \subseteq Executions \X Refs
        BY <3>2, <4>1 DEF Execute
      <4> QED
        BY <3>2, <4>2 DEF Execute, Goto, Under, Ended
    <3>3. CASE Wake(x)
      BY <3>3 DEF Wake, Goto, Under, Ended, wait
    <3>4. CASE Receive(x)
      BY <3>4 DEF Receive, HangUp, Goto, Under, Ended
    <3>5. CASE Timeout(x)
      BY <3>5 DEF Timeout, HangUp, Goto, Under, Ended
    <3>6. CASE Settle(x)
      BY <3>1, <3>6 DEF Settle, Under, Ended, wait
    <3>7. CASE Die(x)
      BY <3>7 DEF Die, HangUp, Under, Ended
    <3>9. CASE Trickle(x)
      BY <3>9 DEF Trickle
    <3>10. CASE Break(x)
      BY <3>10 DEF Break, HangUp, Goto, Under, Ended
    <3>8. CASE Arrive(x)
      <4>1. replies' \subseteq [to : Executions, ok : BOOLEAN]
        <5>1. \A b \in BOOLEAN : [to |-> x, ok |-> b] \in [to : Executions, ok : BOOLEAN]
          OBVIOUS
        <5>2. \E b \in BOOLEAN : replies' \subseteq replies \cup {[to |-> x, ok |-> b]}
          <6>1. \/ Reply(x, TRUE)
                \/ Reply(x, FALSE)
            BY <3>8 DEF Arrive
          <6> QED
            BY <6>1 DEF Reply
        <5> QED
          BY <5>1, <5>2
      <4>2. applied' \subseteq applied \cup {x}
        BY <3>8 DEF Arrive
      <4> QED
        BY <3>8, <4>1, <4>2 DEF Arrive
    <3> QED
      BY <2>4, <3>2, <3>3, <3>4, <3>5, <3>6, <3>7, <3>8, <3>9, <3>10 DEF Run
  <2> QED
    BY <2>1, <2>2, <2>3, <2>4 DEF Next
<1> QED
  BY <1>1, <1>2, PTL DEF Spec

-----------------------------------------------------------------------------
(* Effects                                                                 *)

\* The service does not carry out two requests with one key.
KeysApplyOnce == \A x, y \in applied : Key(x) = Key(y) => x = y

\* Some request with the key of x has been carried out.
Effective(x) == \E y \in applied : Key(y) = Key(x)

\* A good answer, a finished request and a succeeded http task stand for an
\* effect; who sleeps is no request.
EffectInv ==
  /\ \A r \in replies : r.ok => Effective(r.to)
  /\ \A x \in Executions :
       /\ step[x] = "asleep" => config[x[1]].type = "delay"
       /\ step[x] = "done" /\ config[x[1]].type = "http" => Effective(x)
  /\ SuccessIsReal

\* All executions of a task have the same key.
LEMMA SameTaskSameKey ==
  ASSUME NEW x, NEW y, x[1] = y[1]
  PROVE  Key(x) = Key(y)
  BY DEF Key

\* Keys stay, so what has had an effect has had it for ever.
LEMMA EffectsStay ==
  ASSUME UNCHANGED config, applied \subseteq applied', NEW x, Effective(x)
  PROVE  Effective(x)'
  BY DEF Effective, Key

\* No step changes a configuration or takes an effect back.
LEMMA OnlyArriveApplies ==
  ASSUME [Next]_vars
  PROVE  /\ UNCHANGED config
         /\ \/ UNCHANGED applied
            \/ \E x \in Executions : ~Repeated(x) /\ applied' = applied \cup {x}
  BY DEF Next, vars, Finish, Claim, Run, Execute, Wake, Receive, Timeout, Settle,
         Die, Arrive, Trickle, Break

\* The effect of a task happens at most once: the service drops what has a
\* key it knows, and all executions of a task have the same.
THEOREM EffectsAreUnique == Spec => []EffectOnce
<1>1. Init => KeysApplyOnce
  BY DEF Init, KeysApplyOnce
<1>2. KeysApplyOnce /\ [Next]_vars => KeysApplyOnce'
  <2> SUFFICES ASSUME KeysApplyOnce, [Next]_vars
               PROVE  KeysApplyOnce'
    OBVIOUS
  <2>1. CASE UNCHANGED <<config, applied>>
    BY <2>1 DEF KeysApplyOnce, Key
  <2>2. ASSUME UNCHANGED config, NEW x \in Executions, ~Repeated(x),
               applied' = applied \cup {x}
        PROVE  KeysApplyOnce'
    BY <2>2 DEF KeysApplyOnce, Key, Repeated
  <2> QED
    BY <2>1, <2>2, OnlyArriveApplies
<1>3. KeysApplyOnce => EffectOnce
  BY SameTaskSameKey DEF KeysApplyOnce, EffectOnce
<1> QED
  BY <1>1, <1>2, <1>3, PTL DEF Spec

\* Every step keeps EffectInv; <1>4 to <1>6 say what is to be shown of each.
LEMMA EffectsOfStep ==
  ASSUME TypeOK, EffectInv, [Next]_vars
  PROVE  EffectInv'
<1>1. UNCHANGED config /\ applied \subseteq applied'
  BY OnlyArriveApplies
<1>2. \A x : Effective(x) => Effective(x)'
  BY <1>1, EffectsStay
<1>3. \A x : UNCHANGED Key(x)
  BY <1>1 DEF Key
<1>4. ASSUME \A r \in replies' : r.ok => r \in replies \/ Effective(r.to)'
      PROVE  \A r \in replies' : r.ok => Effective(r.to)'
  BY <1>2, <1>4 DEF EffectInv
<1>5. ASSUME \A x \in Executions : step'[x] \in {"asleep", "done"} => step'[x] = step[x]
      PROVE  \A x \in Executions :
               /\ step'[x] = "asleep" => config'[x[1]].type = "delay"
               /\ step'[x] = "done" /\ config'[x[1]].type = "http" => Effective(x)'
  BY <1>1, <1>2, <1>5 DEF EffectInv
<1>6. ASSUME \A t \in Tasks : status'[t] = "succeeded" => status[t] = "succeeded"
      PROVE  SuccessIsReal'
  <2> SUFFICES ASSUME NEW t \in Tasks, status'[t] = "succeeded", config'[t].type = "http"
               PROVE  Effective(<<t, 1>>)'
    BY DEF SuccessIsReal, Effective
  <2>1. Effective(<<t, 1>>)
    BY <1>1, <1>6 DEF EffectInv, SuccessIsReal, Effective
  <2> QED
    BY <1>2, <2>1
<1>7. CASE UNCHANGED <<status, step, replies>>
  BY <1>4, <1>5, <1>6, <1>7 DEF EffectInv
<1>8. ASSUME NEW t \in Tasks, Claim(t)
      PROVE  EffectInv'
  <2>1. \A x \in Executions : step'[x] \in {"asleep", "done"} => step'[x] = step[x]
    BY <1>8 DEF Claim, TypeOK
  <2>2. \A u \in Tasks : status'[u] = "succeeded" => status[u] = "succeeded"
    BY <1>8 DEF Claim, TypeOK
  <2> QED
    BY <1>4, <1>5, <1>6, <1>8, <2>1, <2>2 DEF Claim, EffectInv, wait
<1>9. ASSUME NEW x \in Executions, Execute(x) \/ Wake(x)
      PROVE  EffectInv'
  <2>1. UNCHANGED <<status, replies>>
    BY <1>9 DEF Execute, Wake, wait
  <2>2. ASSUME NEW y \in Executions
        PROVE  /\ step'[y] = "asleep" => config'[y[1]].type = "delay"
               /\ step'[y] = "done" /\ config'[y[1]].type = "http" => Effective(y)'
    <3>1. CASE y = x
      BY <1>1, <1>9, <3>1 DEF Execute, Wake, Goto, TypeOK, EffectInv
    <3>2. CASE y # x
      <4>1. step'[y] = step[y]
        BY <1>9, <3>2 DEF Execute, Wake, Goto, TypeOK
      <4> QED
        BY <1>1, <1>2, <4>1 DEF EffectInv
    <3> QED
      BY <3>1, <3>2
  <2> QED
    BY <1>4, <1>6, <2>1, <2>2 DEF EffectInv
<1>10. ASSUME NEW x \in Executions, Receive(x)
       PROVE  EffectInv'
  <2>1. replies' \subseteq replies /\ UNCHANGED status
    BY <1>10 DEF Receive, HangUp
  <2>2. ASSUME NEW y \in Executions
        PROVE  /\ step'[y] = "asleep" => config'[y[1]].type = "delay"
               /\ step'[y] = "done" /\ config'[y[1]].type = "http" => Effective(y)'
    <3>1. CASE y = x
      <4>1. PICK r \in replies : r.to = x /\ Goto(x, IF r.ok THEN "done" ELSE "raised")
        BY <1>10 DEF Receive
      <4>2. step'[x] = IF r.ok THEN "done" ELSE "raised"
        BY <4>1 DEF Goto, TypeOK
      <4>3. r.ok => Effective(x)
        BY <4>1 DEF EffectInv
      <4> QED
        BY <1>2, <3>1, <4>2, <4>3
    <3>2. CASE y # x
      <4>1. step'[y] = step[y]
        BY <1>10, <3>2 DEF Receive, Goto, TypeOK
      <4> QED
        BY <1>1, <1>2, <4>1 DEF EffectInv
    <3> QED
      BY <3>1, <3>2
  <2> QED
    BY <1>4, <1>6, <2>1, <2>2 DEF EffectInv
<1>11. ASSUME NEW x \in Executions,
              Timeout(x) \/ Die(x) \/ Trickle(x) \/ Break(x)
       PROVE  EffectInv'
  <2>1. replies' \subseteq replies /\ UNCHANGED status
    BY <1>11 DEF Timeout, Die, Trickle, Break, HangUp
  <2>2. \A y \in Executions : step'[y] \in {"asleep", "done"} => step'[y] = step[y]
    BY <1>11 DEF Timeout, Die, Trickle, Break, Goto, TypeOK
  <2> QED
    BY <1>4, <1>5, <1>6, <2>1, <2>2 DEF EffectInv
<1>12. ASSUME NEW x \in Executions, Settle(x)
       PROVE  EffectInv'
  <2>1. \A y \in Executions : step'[y] \in {"asleep", "done"} => step'[y] = step[y]
    BY <1>12 DEF Settle, TypeOK
  <2>2. SuccessIsReal'
    <3> SUFFICES ASSUME NEW t \in Tasks, status'[t] = "succeeded",
                        config'[t].type = "http"
                 PROVE  Effective(<<t, 1>>)'
      BY DEF SuccessIsReal, Effective
    <3>1. CASE status[t] = "succeeded"
      <4>1. Effective(<<t, 1>>)
        BY <1>1, <3>1 DEF EffectInv, SuccessIsReal, Effective
      <4> QED
        BY <1>2, <4>1
    <3>2. CASE status[t] # "succeeded"
      <4>1. x[1] = t /\ step[x] = "done"
        BY <1>12, <3>2 DEF Settle, TypeOK
      <4>2. Effective(x)
        BY <1>1, <4>1 DEF EffectInv
      <4>3. Key(x) = Key(<<t, 1>>)
        BY <4>1, SameTaskSameKey
      <4>4. Effective(<<t, 1>>)
        BY <4>2, <4>3 DEF Effective
      <4> QED
        BY <1>2, <4>4
    <3> QED
      BY <3>1, <3>2
  <2> QED
    BY <1>4, <1>5, <1>12, <2>1, <2>2 DEF Settle, EffectInv, wait
<1>13. ASSUME NEW x \in Executions, Arrive(x)
       PROVE  EffectInv'
  <2>1. UNCHANGED <<status, step>>
    BY <1>13 DEF Arrive
  <2>2. ASSUME NEW r \in replies', r.ok
        PROVE  r \in replies \/ Effective(r.to)'
    <3>1. CASE r \notin replies
      <4>1. r.to = x /\ Reply(x, TRUE)
        BY <1>13, <2>2, <3>1 DEF Arrive, Reply
      <4>2. CASE Repeated(x)
        <5>1. Effective(x)
          BY <4>2 DEF Repeated, Effective
        <5> QED
          BY <1>2, <4>1, <5>1
      <4>3. CASE ~Repeated(x)
        <5>1. x \in applied'
          BY <1>13, <2>2, <3>1, <4>3 DEF Arrive, Reply
        <5> QED
          BY <4>1, <5>1 DEF Effective
      <4> QED
        BY <4>2, <4>3
    <3> QED
      BY <3>1
  <2> QED
    BY <1>4, <1>5, <1>6, <2>1, <2>2 DEF EffectInv
<1>14. CASE \E ref \in Refs : Finish(ref)
  BY <1>7, <1>14 DEF Finish, wait
<1>15. CASE UNCHANGED vars
  BY <1>7, <1>15 DEF vars, wait
<1> QED
  BY <1>8, <1>9, <1>10, <1>11, <1>12, <1>13, <1>14, <1>15 DEF Next, Run

\* An http task that has succeeded has had its effect: a request that timed
\* out, was refused or never arrived makes no success.
THEOREM SuccessesAreReal == Spec => []SuccessIsReal
<1>1. Init => EffectInv
  BY DEF Init, EffectInv, SuccessIsReal
<1>2. EffectInv => SuccessIsReal
  BY DEF EffectInv
<1> QED
  BY <1>1, <1>2, EffectsOfStep, ExecutorsTypeCorrect, PTL DEF Spec

-----------------------------------------------------------------------------
(* References                                                              *)

\* The references of the templates of x lead to outputs that are there.
Resolved(x) == config[x[1]].refs \subseteq known

\* The outputs of the tasks it depends on are there.
Waited(x) == config[x[1]].after \subseteq known

\* Whatever has come past the templates had its references resolved, and
\* whatever was begun had waited.
ResolvedInv ==
  /\ \A x \in Executions : step[x] \in {"asleep", "waiting", "done"} => Resolved(x)
  /\ \A x \in wire : Resolved(x)
  /\ \A x \in Executions : step[x] # "none" => Waited(x)
  /\ NothingUnresolved

\* Outputs stay, so what was resolved once is.
LEMMA ResolvedForEver ==
  ASSUME [Next]_vars
  PROVE  /\ UNCHANGED config
         /\ \A x : Resolved(x) => Resolved(x)'
         /\ \A x : Waited(x) => Waited(x)'
<1>1. UNCHANGED config /\ known \subseteq known'
  BY DEF Next, vars, Finish, Claim, Run, Execute, Wake, Receive, Timeout, Settle,
         Die, Arrive, Trickle, Break
<1> QED
  BY <1>1 DEF Resolved, Waited

\* Only a claim begins an execution, of a task that need not wait any more.
LEMMA ClaimsWait ==
  ASSUME TypeOK, [Next]_vars, NEW x \in Executions, step[x] = "none",
         step'[x] # "none"
  PROVE  Waited(x)
<1>1. ASSUME NEW t \in Tasks, Claim(t)
      PROVE  Waited(x)
  <2>1. x = <<t, claims[t] + 1>>
    BY <1>1 DEF Claim, TypeOK
  <2> QED
    BY <1>1, <2>1 DEF Claim, Waited
<1>2. ASSUME NEW y \in Executions, Run(y) \/ Die(y) \/ Break(y)
      PROVE  step'[x] = step[x]
  <2>1. step[y] # "none" \/ step' = step
    BY <1>2 DEF Run, Execute, Wake, Receive, Timeout, Settle, Die, Break,
                Under, Ended
  <2>2. y # x => step'[x] = step[x]
    BY <1>2 DEF Run, Execute, Wake, Receive, Timeout, Settle, Die, Break, Goto,
                TypeOK
  <2> QED
    BY <2>1, <2>2
<1>3. CASE UNCHANGED step
  BY <1>3
<1> QED
  BY <1>1, <1>2, <1>3 DEF Next, Finish, Arrive, Trickle, vars

\* A hole is made for an output that is not there, by an execution under way.
LEMMA HolesAreMade ==
  ASSUME [Next]_vars, NEW h \in holes', h \notin holes
  PROVE  h[2] \notin known /\ step[h[1]] = "begun" /\ h[1] \in Executions
<1>1. ASSUME NEW x \in Executions, Execute(x)
      PROVE  h[2] \notin known /\ step[h[1]] = "begun" /\ h[1] \in Executions
  <2>1. h \in {x} \X Missing(config[x[1]]) /\ step[x] = "begun"
    BY <1>1 DEF Execute
  <2> QED
    BY <2>1 DEF Missing
<1>2. holes' # holes => \E x \in Executions : Execute(x)
  BY DEF Next, vars, wait, Finish, Claim, Run, Wake, Receive, Timeout, Settle,
         Die, Arrive, Trickle, Break
<1> QED
  BY <1>1, <1>2

\* Every step keeps ResolvedInv.
LEMMA ResolvedByStep ==
  ASSUME TypeOK, ResolvedInv, [Next]_vars
  PROVE  ResolvedInv'
<1>1. \A x : /\ Resolved(x) => Resolved(x)'
             /\ Waited(x) => Waited(x)'
  BY ResolvedForEver
<1>2. \A x \in Executions : step'[x] # "none" => Waited(x)'
  <2> SUFFICES ASSUME NEW x \in Executions, step'[x] # "none"
               PROVE  Waited(x)'
    OBVIOUS
  <2>1. CASE step[x] = "none"
    BY <1>1, <2>1, ClaimsWait
  <2>2. CASE step[x] # "none"
    BY <1>1, <2>2 DEF ResolvedInv
  <2> QED
    BY <2>1, <2>2
<1>3. \A h \in holes' : h[2] \notin config'[h[1][1]].after
  <2> SUFFICES ASSUME NEW h \in holes'
               PROVE  h[2] \notin config[h[1][1]].after
    BY ResolvedForEver
  <2>1. CASE h \in holes
    BY <2>1 DEF ResolvedInv, NothingUnresolved
  <2>2. CASE h \notin holes
    <3>1. h[2] \notin known /\ step[h[1]] = "begun" /\ h[1] \in Executions
      BY <2>2, HolesAreMade
    <3>2. Waited(h[1])
      BY <3>1 DEF ResolvedInv
    <3> QED
      BY <3>1, <3>2 DEF Waited
  <2> QED
    BY <2>1, <2>2
<1>4. ASSUME \A x \in Executions : /\ step'[x] \in {"asleep", "waiting", "done"}
                                   /\ step'[x] # step[x]
                                   => Resolved(x)',
             wire' \subseteq wire \/ \A x \in wire' \ wire : Resolved(x)',
             applied' \subseteq applied \cup wire,
             \A t \in Tasks : status'[t] = "succeeded" =>
               status[t] = "succeeded" \/ Resolved(<<t, 1>>)
      PROVE  ResolvedInv'
  <2>1. \A x \in Executions :
          step'[x] \in {"asleep", "waiting", "done"} => Resolved(x)'
    BY <1>1, <1>4 DEF ResolvedInv
  <2>2. \A x \in wire' : Resolved(x)'
    BY <1>1, <1>4 DEF ResolvedInv
  <2>3. \A x \in applied' : Resolved(x)'
    <3>1. \A x \in applied : Resolved(x)
      BY DEF ResolvedInv, NothingUnresolved, Resolved
    <3> QED
      BY <1>1, <1>4, <3>1 DEF ResolvedInv
  <2>4. \A t \in Tasks : status'[t] = "succeeded" => Resolved(<<t, 1>>)'
    <3>1. \A t \in Tasks : status[t] = "succeeded" => Resolved(<<t, 1>>)
      BY DEF ResolvedInv, NothingUnresolved, Resolved
    <3> QED
      BY <1>1, <1>4, <3>1
  <2>5. NothingUnresolved'
    BY <1>3, <2>3, <2>4 DEF NothingUnresolved, Resolved
  <2> QED
    BY <1>2, <2>1, <2>2, <2>5 DEF ResolvedInv
<1>5. ASSUME NEW t \in Tasks, Claim(t)
      PROVE  ResolvedInv'
  <2>1. \A u \in Tasks : status'[u] = "succeeded" => status[u] = "succeeded"
    BY <1>5 DEF Claim, TypeOK
  <2>2. \A x \in Executions : step'[x] # step[x] => step'[x] = "begun"
    BY <1>5 DEF Claim, TypeOK
  <2> QED
    BY <1>4, <1>5, <2>1, <2>2 DEF Claim, wait
<1>6. ASSUME NEW x \in Executions, Execute(x)
      PROVE  ResolvedInv'
  <2>1. \A y \in Executions : y # x => step'[y] = step[y]
    BY <1>6 DEF Execute, Goto, TypeOK
  <2>2. Resolved(x) \/ (step'[x] = "raised" /\ wire' = wire)
    BY <1>6 DEF Execute, Goto, TypeOK, Resolves, Resolved
  <2>3. wire' \subseteq wire \cup {x} /\ UNCHANGED <<applied, status>>
    BY <1>6 DEF Execute
  <2>4. \A y \in Executions : /\ step'[y] \in {"asleep", "waiting", "done"}
                              /\ step'[y] # step[y]
                              => Resolved(y)'
    <3>1. step'[x] \in {"asleep", "waiting", "done"} => Resolved(x)'
      BY <1>1, <2>2
    <3> QED
      BY <2>1, <3>1
  <2>5. \A y \in wire' \ wire : Resolved(y)'
    BY <1>1, <2>2, <2>3
  <2> QED
    BY <1>4, <2>3, <2>4, <2>5
<1>7. ASSUME NEW x \in Executions,
             Wake(x) \/ Receive(x) \/ Timeout(x) \/ Die(x) \/ Break(x)
      PROVE  ResolvedInv'
  <2>1. \A y \in Executions : y # x => step'[y] = step[y]
    BY <1>7 DEF Wake, Receive, Timeout, Die, Break, Goto, TypeOK
  <2>2. step[x] \in {"asleep", "waiting"} \/ step'[x] = "over"
    BY <1>7 DEF Wake, Receive, Timeout, Die, Break, TypeOK
  <2>3. UNCHANGED <<wire, applied, status>>
    BY <1>7 DEF Wake, Receive, Timeout, Die, Break, HangUp, wait
  <2>4. step'[x] \in {"asleep", "waiting", "done"} => Resolved(x)'
    BY <1>1, <2>2 DEF ResolvedInv
  <2> QED
    BY <1>4, <2>1, <2>3, <2>4
<1>8. ASSUME NEW x \in Executions, Settle(x)
      PROVE  ResolvedInv'
  <2>1. \A y \in Executions : step'[y] # step[y] => step'[y] = "over"
    BY <1>8 DEF Settle, TypeOK
  <2>2. UNCHANGED <<wire, applied>>
    BY <1>8 DEF Settle, wait
  <2>3. ASSUME NEW t \in Tasks, status'[t] = "succeeded", status[t] # "succeeded"
        PROVE  Resolved(<<t, 1>>)
    <3>1. x[1] = t /\ step[x] = "done"
      BY <1>8, <2>3 DEF Settle, TypeOK
    <3> QED
      BY <3>1 DEF ResolvedInv, Resolved
  <2> QED
    BY <1>4, <2>1, <2>2, <2>3
<1>9. ASSUME NEW x \in Executions, Arrive(x)
      PROVE  ResolvedInv'
  BY <1>4, <1>9 DEF Arrive
<1>10. CASE UNCHANGED <<status, step, wire, applied>>
  BY <1>4, <1>10
<1> QED
  BY <1>5, <1>6, <1>7, <1>8, <1>9, <1>10 DEF Next, Run, Finish, Trickle, vars, wait

\* No request is carried out and no task succeeds without the outputs its
\* templates lead into, although nothing makes it wait for them; and None
\* stands only for an output that the task does not depend on.
THEOREM ReferencesAreResolved == Spec => []NothingUnresolved
<1>1. Init => ResolvedInv
  BY DEF Init, ResolvedInv, NothingUnresolved
<1>2. ResolvedInv => NothingUnresolved
  BY DEF ResolvedInv
<1> QED
  BY <1>1, <1>2, ResolvedByStep, ExecutorsTypeCorrect, PTL DEF Spec
=============================================================================
