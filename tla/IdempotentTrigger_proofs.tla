---------------------- MODULE IdempotentTrigger_proofs ----------------------
(***************************************************************************)
(* Theorems about IdempotentTrigger, for any number of requests and keys,  *)
(* with or without Redis outages, crashes and repeated requests.           *)
(***************************************************************************)
EXTENDS IdempotentTrigger, FiniteSetTheorems, TLAPS

-----------------------------------------------------------------------------
(* Type correctness                                                        *)

\* Runs are numbered by counting, so their set has to stay finite.
TypeInv == TypeOK /\ IsFiniteSet(runs)

\* The row that start_run inserts is a row of workflow_runs.
LEMMA NewRunType ==
  ASSUME TypeInv, NEW r \in Requests
  PROVE  NewRun(r) \in Run
<1>1. IsFiniteSet({x \in runs : x.by = r})
  BY FS_Subset DEF TypeInv
<1>2. Cardinality({x \in runs : x.by = r}) \in Nat
  BY <1>1, FS_CardinalityType
<1> QED
  BY <1>2, TriggerAssumption DEF NewRun, Run

\* Every step keeps the types.
LEMMA TypeStep == TypeInv /\ [Next]_vars => TypeInv'
<1> SUFFICES ASSUME TypeInv, [Next]_vars PROVE TypeInv'
  OBVIOUS
<1> USE DEF TypeInv, TypeOK, Move, Stages
<1>1. ASSUME NEW r \in Requests, \/ Acquire(r) \/ AcquireRaises(r)
                                 \/ AcquireTimesOut(r)
      PROVE  TypeInv'
  <2>1. LockOf(r) \in Keys => lock' \in [Keys -> Requests \cup {Nobody}]
    BY <1>1 DEF Acquire, AcquireRaises, AcquireTimesOut
  <2>2. lock' \in [Keys -> Requests \cup {Nobody}]
    BY <1>1, <2>1 DEF Acquire, AcquireRaises, AcquireTimesOut
  <2>3. repeated' \subseteq Requests
    BY <1>1 DEF Acquire, AcquireRaises, AcquireTimesOut, Arrive
  <2> QED
    BY <1>1, <2>2, <2>3 DEF Acquire, AcquireRaises, AcquireTimesOut
<1>2. ASSUME NEW r \in Requests, Search(r) PROVE TypeInv'
  <2>1. Existing(r) \subseteq Run
    BY DEF Existing, RunsFor
  <2> QED
    BY <1>2, <2>1 DEF Search
<1>3. ASSUME NEW r \in Requests, Release(r) PROVE TypeInv'
  <2>1. lock' \in [Keys -> Requests \cup {Nobody}]
    BY <1>3 DEF Release
  <2> QED
    BY <1>3, <2>1 DEF Release
<1>4. ASSUME NEW r \in Requests, Insert(r) \/ Repeat(r) PROVE TypeInv'
  BY <1>4 DEF Insert, Repeat
<1>5. ASSUME NEW r \in Requests, Commit(r) PROVE TypeInv'
  <2>1. runs' \subseteq Run
    BY <1>5, NewRunType DEF Commit
  <2>2. IsFiniteSet(runs')
    BY <1>5, FS_AddElement DEF Commit
  <2> QED
    BY <1>5, <2>1, <2>2 DEF Commit
<1>6. ASSUME NEW r \in Requests, Answer(r) PROVE TypeInv'
  <2>1. Told(r) \subseteq Run
    BY DEF Told
  <2>2. answers' \subseteq [request : Requests, run : Run, created : BOOLEAN]
    <3>1. ASSUME NEW created \in BOOLEAN
          PROVE  {[request |-> r, run |-> x, created |-> created] : x \in Told(r)}
                   \subseteq [request : Requests, run : Run, created : BOOLEAN]
      BY <2>1
    <3>2. (found[r] = {}) \in BOOLEAN
      OBVIOUS
    <3>3. {[request |-> r, run |-> x, created |-> found[r] = {}] : x \in Told(r)}
            \subseteq [request : Requests, run : Run, created : BOOLEAN]
      BY <3>1, <3>2
    <3> QED
      BY <1>6, <3>3 DEF Answer
  <2> QED
    BY <1>6, <2>2 DEF Answer
<1>7. ASSUME NEW r \in Requests, Crash(r) PROVE TypeInv'
  BY <1>7, TriggerAssumption DEF Crash
<1>8. ASSUME NEW k \in Keys, LockExpires(k) PROVE TypeInv'
  BY <1>8 DEF LockExpires
<1>9. CASE UNCHANGED vars
  BY <1>9 DEF vars
<1> QED
  BY <1>1, <1>2, <1>3, <1>4, <1>5, <1>6, <1>7, <1>8, <1>9 DEF Next, Serve

\* The tables, the lock and every request's position keep their types.
THEOREM TriggerTypeCorrect == Spec => [](TypeOK /\ IsFiniteSet(runs))
<1>1. Init => TypeInv
  BY FS_EmptySet, TriggerAssumption DEF Init, TypeInv, TypeOK, Stages
<1>2. TypeInv <=> TypeOK /\ IsFiniteSet(runs)
  BY DEF TypeInv
<1> QED
  BY <1>1, <1>2, TypeStep, PTL DEF Spec

-----------------------------------------------------------------------------
(* One run per key                                                         *)

\* OneRunPerKey is inductive with what the constraint guarantees while a
\* request has inserted its row and not committed it; AnswersAgree with the
\* fact that a search and an answer are about the request's own key.
InsertedAlone ==
  \A r \in Requests : stage[r] = "inserted" /\ KeyOf[r] # NoKey =>
    /\ RunsFor(KeyOf[r]) = {}
    /\ \A q \in Requests \ {r} :
         ~(stage[q] = "inserted" /\ KeyOf[q] = KeyOf[r])

OwnKey ==
  /\ \A x \in runs : x.key = KeyOf[x.by]
  /\ \A r \in Requests : found[r] \subseteq RunsFor(KeyOf[r])
  /\ \A a \in answers : /\ a.run \in RunsFor(KeyOf[a.request])
                        /\ a.created => a.run.by = a.request

TriggerInv == InsertedAlone /\ OwnKey /\ OneRunPerKey

\* Every step keeps the strengthening.
LEMMA TriggerStep == TypeInv /\ TriggerInv /\ [Next]_vars => TriggerInv'
<1> SUFFICES ASSUME TypeInv, TriggerInv, [Next]_vars PROVE TriggerInv'
  OBVIOUS
<1> USE DEF TypeInv, TypeOK, TriggerInv, Move
<1>1. ASSUME UNCHANGED <<runs, answers>>,
             \A r \in Requests : found'[r] \subseteq RunsFor(KeyOf[r]),
             \A r \in Requests : stage'[r] = "inserted" => stage[r] = "inserted"
      PROVE  TriggerInv'
  BY <1>1 DEF InsertedAlone, OwnKey, OneRunPerKey, RunsFor
<1>2. ASSUME NEW r \in Requests,
             \/ Acquire(r) \/ AcquireRaises(r) \/ AcquireTimesOut(r)
             \/ Release(r) \/ Repeat(r) \/ Crash(r)
      PROVE  TriggerInv'
  <2>1. /\ UNCHANGED <<runs, answers>>
        /\ \A q \in Requests : found'[q] \in {found[q], {}}
        /\ \A q \in Requests : stage'[q] = "inserted" => stage[q] = "inserted"
    BY <1>2 DEF Acquire, AcquireRaises, AcquireTimesOut, Release, Repeat, Crash
  <2> QED
    BY <1>1, <2>1 DEF OwnKey
<1>3. ASSUME NEW r \in Requests, Search(r) PROVE TriggerInv'
  <2>1. Existing(r) \subseteq RunsFor(KeyOf[r])
    BY DEF Existing
  <2> QED
    BY <1>1, <1>3, <2>1 DEF Search, OwnKey
<1>4. ASSUME NEW r \in Requests, Insert(r) PROVE TriggerInv'
  <2>1. UNCHANGED <<runs, found, answers>>
    BY <1>4 DEF Insert
  <2>2. InsertedAlone'
    BY <1>4, <2>1 DEF Insert, InsertedAlone, MustWait, Conflicts, RunsFor
  <2> QED
    BY <2>1, <2>2 DEF OwnKey, OneRunPerKey, RunsFor
<1>5. ASSUME NEW r \in Requests, Commit(r) PROVE TriggerInv'
  <2> DEFINE x == NewRun(r)
  <2>1. x.by = r /\ x.key = KeyOf[r]
    BY DEF NewRun
  <2>2. /\ runs' = runs \cup {x}
        /\ UNCHANGED <<found, answers>>
        /\ stage[r] = "inserted"
        /\ \A q \in Requests : stage'[q] = "inserted" => stage[q] = "inserted" /\ q # r
    BY <1>5 DEF Commit
  <2> HIDE DEF x
  <2>3. InsertedAlone'
    BY <2>1, <2>2 DEF InsertedAlone, RunsFor
  <2>4. OwnKey'
    BY <2>1, <2>2 DEF OwnKey, RunsFor
  <2>5. OneRunPerKey'
    BY <2>1, <2>2 DEF InsertedAlone, OneRunPerKey, RunsFor
  <2> QED
    BY <2>3, <2>4, <2>5
<1>6. ASSUME NEW r \in Requests, Answer(r) PROVE TriggerInv'
  <2>1. /\ Told(r) \subseteq RunsFor(KeyOf[r])
        /\ found[r] = {} => \A x \in Told(r) : x.by = r
    BY DEF Told, OwnKey, RunsFor
  <2>2. /\ UNCHANGED <<runs, found>>
        /\ \A q \in Requests : stage'[q] = "inserted" => stage[q] = "inserted"
    BY <1>6 DEF Answer
  <2>3. \A a \in answers' :
          \/ a \in answers
          \/ a.request = r /\ a.run \in Told(r) /\ a.created = (found[r] = {})
    BY <1>6 DEF Answer
  <2>4. \A a \in answers' : /\ a.run \in RunsFor(KeyOf[a.request])
                            /\ a.created => a.run.by = a.request
    BY <2>1, <2>3 DEF OwnKey
  <2>5. OwnKey'
    BY <2>2, <2>4 DEF OwnKey, RunsFor
  <2>6. InsertedAlone'
    BY <2>2 DEF InsertedAlone, RunsFor
  <2> QED
    BY <2>2, <2>5, <2>6 DEF OneRunPerKey
<1>7. ASSUME NEW k \in Keys, LockExpires(k) PROVE TriggerInv'
  BY <1>1, <1>7 DEF LockExpires, OwnKey
<1>8. CASE UNCHANGED vars
  BY <1>1, <1>8 DEF vars, OwnKey
<1> QED
  BY <1>2, <1>3, <1>4, <1>5, <1>6, <1>7, <1>8 DEF Next, Serve

\* The strengthening holds in every reachable state.
THEOREM TriggerInvariant == Spec => []TriggerInv
<1>1. Init => TriggerInv
  BY DEF Init, TriggerInv, InsertedAlone, OwnKey, OneRunPerKey
<1>2. TypeInv <=> TypeOK /\ IsFiniteSet(runs)
  BY DEF TypeInv
<1> QED
  BY <1>1, <1>2, TriggerStep, TriggerTypeCorrect, PTL DEF Spec

\* One run per idempotency key, by the unique constraint alone: nowhere does
\* the proof need the lock to exclude.
THEOREM TriggerIsIdempotent == Spec => []OneRunPerKey
<1>1. TriggerInv => OneRunPerKey
  BY DEF TriggerInv
<1> QED
  BY <1>1, TriggerInvariant, PTL

\* All who carry a key are told the same committed run, and only its maker
\* that it was created, however often requests fail and are repeated.
THEOREM TriggerAnswersAgree == Spec => []AnswersAgree
<1>1. TypeInv /\ TriggerInv => AnswersAgree
  BY DEF TypeInv, TypeOK, TriggerInv, OwnKey, OneRunPerKey, AnswersAgree, RunsFor
<1>2. TypeInv <=> TypeOK /\ IsFiniteSet(runs)
  BY DEF TypeInv
<1> QED
  BY <1>1, <1>2, TriggerInvariant, TriggerTypeCorrect, PTL

-----------------------------------------------------------------------------
(* Repeated requests                                                       *)

\* A request that arrived after the run was committed finds it in its search,
\* so that it never gets as far as the insert.
RepeatInv ==
  \A r \in repeated : KeyOf[r] \notin {NoKey, EmptyKey} =>
    /\ RunsFor(KeyOf[r]) # {}
    /\ stage[r] = "releasing" => found[r] # {}
    /\ stage[r] \notin {"inserting", "inserted", "conflict"}

\* Every step keeps the invariant.
LEMMA RepeatStep == TypeOK /\ RepeatInv /\ [Next]_vars => RepeatInv'
<1> SUFFICES ASSUME TypeOK, RepeatInv, [Next]_vars PROVE RepeatInv'
  OBVIOUS
<1> USE DEF TypeOK, RepeatInv, RunsFor, Move
<1>1. ASSUME NEW r \in Requests, \/ Acquire(r) \/ AcquireRaises(r)
                                 \/ AcquireTimesOut(r)
      PROVE  RepeatInv'
  BY <1>1 DEF Acquire, AcquireRaises, AcquireTimesOut, Arrive
<1>2. ASSUME NEW r \in Requests, Search(r) PROVE RepeatInv'
  BY <1>2 DEF Search, Existing
<1>3. ASSUME NEW r \in Requests, Release(r) \/ Insert(r) PROVE RepeatInv'
  BY <1>3 DEF Release, Insert
<1>4. ASSUME NEW r \in Requests, Commit(r) PROVE RepeatInv'
  BY <1>4 DEF Commit
<1>5. ASSUME NEW r \in Requests, Answer(r) \/ Repeat(r) \/ Crash(r)
      PROVE  RepeatInv'
  BY <1>5 DEF Answer, Repeat, Crash
<1>6. CASE UNCHANGED <<runs, stage, found, repeated>>
  BY <1>6
<1> QED
  BY <1>1, <1>2, <1>3, <1>4, <1>5, <1>6 DEF Next, Serve, LockExpires, vars

\* A request sent again when the run for its key exists is told the run and
\* does not fail on the constraint, whatever other requests do.  Of those
\* with the empty key this would be false: see Existing.
THEOREM RepeatsFindTheRun == Spec => []RepeatFindsTheRun
<1>1. Init => RepeatInv
  BY DEF Init, RepeatInv
<1>2. RepeatInv => RepeatFindsTheRun
  BY DEF RepeatInv, RepeatFindsTheRun
<1>3. TypeOK /\ RepeatInv /\ [Next]_vars => RepeatInv'
  BY RepeatStep
<1> QED
  BY <1>1, <1>2, <1>3, TriggerTypeCorrect, PTL DEF Spec
=============================================================================
