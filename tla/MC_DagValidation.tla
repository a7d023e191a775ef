-------------------------- MODULE MC_DagValidation --------------------------
(***************************************************************************)
(* Instances of DagValidation for TLC: every workflow of three tasks whose *)
(* dependencies are at most two each, and a list that repeats a key.       *)
(***************************************************************************)
EXTENDS DagValidation

TaskKeys == {"a", "b", "c"}
AllKeys == TaskKeys \cup {"unknown"}

Lists == {<<>>} \cup {<<k>> : k \in AllKeys} \cup (TaskKeys \X TaskKeys)

Graphs3 == [TaskKeys -> Lists]
Lone(list) == [a |-> list, b |-> <<>>, c |-> <<>>]

WithUnknown(g) == [k \in AllKeys |-> IF k \in TaskKeys THEN g[k] ELSE <<>>]

AllBodies ==
  {[keys |-> <<"a", "b", "c">>, depends_on |-> WithUnknown(g)] :
      g \in Graphs3}
  \cup {[keys |-> ks, depends_on |-> WithUnknown(Lone(l))] :
          ks \in {<<"a">>, <<"a", "b", "a">>, <<"a", "a", "b">>}, l \in Lists}
=============================================================================
