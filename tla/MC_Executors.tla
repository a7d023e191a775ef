---------------------------- MODULE MC_Executors ----------------------------
(***************************************************************************)
(* An instance of Executors for TLC.                                       *)
(***************************************************************************)
EXTENDS Executors

\* A request with the task's own key, one with a key that may be shared and a
\* reference into the output, one that names the output as a whole; and one
\* task of each of the other types, the delay after the task whose output it
\* names.
FiveConfigs ==
  << [type |-> "http", key |-> NoKey,
      refs |-> {}, whole |-> {}, after |-> {}],
     [type |-> "http", key |-> "order",
      refs |-> Refs, whole |-> {}, after |-> {}],
     [type |-> "http", key |-> NoKey,
      refs |-> {}, whole |-> Refs, after |-> {}],
     [type |-> "delay", key |-> NoKey,
      refs |-> {}, whole |-> Refs, after |-> Refs],
     [type |-> "transform", key |-> NoKey,
      refs |-> {}, whole |-> Refs, after |-> {}] >>

\* Pairs of them of which at least one sends requests; two only with a key
\* that the other might have.
CONSTANTS t1, t2
Pairs ==
  { [t \in {t1, t2} |-> FiveConfigs[p[IF t = t1 THEN 1 ELSE 2]]] :
      p \in ({2} \X {1, 2, 4, 5}) \cup ({1} \X {4, 5}) \cup ({3} \X {4, 5}) }
=============================================================================
