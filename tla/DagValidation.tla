--------------------------- MODULE DagValidation ----------------------------
(***************************************************************************)
(* POST /workflows: WorkflowCreate.validate_dag and, for a body it         *)
(* accepts, add_workflow and create_workflow.                              *)
(*                                                                         *)
(* visit is a recursive depth-first search; its call stack is the variable *)
(* stack, and a step is one call, one return or one verdict.  The answer   *)
(* to a request may be lost, and then the client sends it again.           *)
(***************************************************************************)
EXTENDS Naturals, Sequences

CONSTANTS Key,       \* task keys, those that name no task included
          Bodies,    \* request bodies: [keys, depends_on]
          MaxLost    \* bound on the answers that are lost

\* depends_on lists the dependencies of the task with a given key.  It says
\* nothing where two tasks share the key: it is only read when none do.
Body == [keys : Seq(Key), depends_on : [Key -> Seq(Key)]]

ASSUME ValidationAssumption == Bodies \subseteq Body /\ MaxLost \in Nat

VARIABLES
  body,      \* the request
  phase,     \* where the request stands, or how it was answered
  at,        \* the index of the next key the outer loop visits
  stack,     \* the calls of visit: the node and the index of its next
             \* dependency
  visiting, visited,
  stored,    \* who stored the workflow of this name: none, ours or theirs
  lost

vars == <<body, phase, at, stack, visiting, visited, stored, lost>>

-----------------------------------------------------------------------------

Phases == {"keys", "dependencies", "visit", "accepted",
           "registered", "conflict", "rejected"}

Frame == [node : Key, next : Nat \ {0}]

TypeOK ==
  /\ body \in Body
  /\ phase \in Phases
  /\ at \in Nat \ {0}
  /\ stack \in Seq(Frame)
  /\ visiting \subseteq Key
  /\ visited \subseteq Key
  /\ stored \in {"none", "ours", "theirs"}
  /\ lost \in 0 .. MaxLost

keys == body.keys
graph == body.depends_on

KeySet == {keys[i] : i \in DOMAIN keys}
DependenciesOf(k) == {graph[k][i] : i \in DOMAIN graph[k]}

\* What a workflow must be for its runs to be able to end.
UniqueKeys == \A i, j \in DOMAIN keys : keys[i] = keys[j] => i = j
KnownDependencies == \A k \in KeySet : DependenciesOf(k) \subseteq KeySet

\* Tasks that wait for one another, in a circle or behind one.
Knot(S) == S # {} /\ \A k \in S : DependenciesOf(k) \cap S # {}
Acyclic == \A S \in SUBSET KeySet : ~Knot(S)

Runnable == UniqueKeys /\ KnownDependencies /\ Acyclic

Init ==
  /\ body \in Bodies
  /\ phase = "keys"
  /\ at = 1
  /\ stack = <<>>
  /\ visiting = {}
  /\ visited = {}
  /\ stored = "none"
  /\ lost = 0

-----------------------------------------------------------------------------
(* validate_dag                                                            *)

CheckKeys ==
  /\ phase = "keys"
  /\ phase' = IF UniqueKeys THEN "dependencies" ELSE "rejected"
  /\ UNCHANGED <<body, at, stack, visiting, visited, stored, lost>>

CheckDependencies ==
  /\ phase = "dependencies"
  /\ phase' = IF KnownDependencies THEN "visit" ELSE "rejected"
  /\ UNCHANGED <<body, at, stack, visiting, visited, stored, lost>>

\* A slip: visit looks at visited first and forgets visiting.
VisitUnguarded(node, calls) ==
  \/ /\ node \in visited \cup visiting
     /\ stack' = calls
     /\ UNCHANGED <<phase, visiting>>
  \/ /\ node \notin visited \cup visiting
     /\ visiting' = visiting \cup {node}
     /\ stack' = Append(calls, [node |-> node, next |-> 1])
     /\ UNCHANGED phase

\* visit(node), called with calls below it on the stack.
Visit(node, calls) ==
  \/ /\ node \in visiting
     /\ phase' = "rejected"
     /\ stack' = calls
     /\ UNCHANGED visiting
  \/ /\ node \in visited \ visiting
     /\ stack' = calls
     /\ UNCHANGED <<phase, visiting>>
  \/ /\ node \notin visited \cup visiting
     /\ visiting' = visiting \cup {node}
     /\ stack' = Append(calls, [node |-> node, next |-> 1])
     /\ UNCHANGED phase

\* The loop over the keys calls visit.
VisitKey ==
  /\ phase = "visit" /\ stack = <<>> /\ at \in DOMAIN keys
  /\ Visit(keys[at], stack)
  /\ at' = at + 1
  /\ UNCHANGED <<body, visited, stored, lost>>

Top == stack[Len(stack)]

\* A slip: the loop does not advance.
VisitDependencyAgain ==
  /\ phase = "visit" /\ stack # <<>> /\ Top.next \in DOMAIN graph[Top.node]
  /\ Visit(graph[Top.node][Top.next], stack)
  /\ UNCHANGED <<body, at, visited, stored, lost>>

\* The loop over the dependencies of the innermost call calls visit.
VisitDependency ==
  /\ phase = "visit" /\ stack # <<>> /\ Top.next \in DOMAIN graph[Top.node]
  /\ Visit(graph[Top.node][Top.next],
           [stack EXCEPT ![Len(stack)] = [node |-> Top.node,
                                          next |-> Top.next + 1]])
  /\ UNCHANGED <<body, at, visited, stored, lost>>

\* The innermost call ends.
Leave ==
  /\ phase = "visit" /\ stack # <<>> /\ Top.next \notin DOMAIN graph[Top.node]
  /\ visiting' = visiting \ {Top.node}
  /\ visited' = visited \cup {Top.node}
  /\ stack' = SubSeq(stack, 1, Len(stack) - 1)
  /\ UNCHANGED <<body, phase, at, stored, lost>>

Accept ==
  /\ phase = "visit" /\ stack = <<>> /\ at \notin DOMAIN keys
  /\ phase' = "accepted"
  /\ UNCHANGED <<body, at, stack, visiting, visited, stored, lost>>

-----------------------------------------------------------------------------
(* add_workflow                                                            *)

\* A slip: an IntegrityError is taken for success.
RegisterAnyway ==
  /\ phase = "accepted"
  /\ phase' = "registered"
  /\ stored' = IF stored = "none" THEN "ours" ELSE stored
  /\ UNCHANGED <<body, at, stack, visiting, visited, lost>>

\* The commit, or the IntegrityError of the unique name and status 409.
Register ==
  /\ phase = "accepted"
  /\ phase' = IF stored = "none" THEN "registered" ELSE "conflict"
  /\ stored' = IF stored = "none" THEN "ours" ELSE stored
  /\ UNCHANGED <<body, at, stack, visiting, visited, lost>>

\* Another client registers a workflow of the same name.
NameTaken ==
  /\ stored = "none"
  /\ phase = "accepted"
  /\ stored' = "theirs"
  /\ UNCHANGED <<body, phase, at, stack, visiting, visited, lost>>

\* The answer is lost, or the process dies at any time: the request is sent
\* again and validated from the start.
Resend ==
  /\ phase # "keys"
  /\ lost < MaxLost
  /\ lost' = lost + 1
  /\ phase' = "keys"
  /\ at' = 1
  /\ stack' = <<>>
  /\ visiting' = {}
  /\ visited' = {}
  /\ UNCHANGED <<body, stored>>

Validate ==
  \/ CheckKeys \/ CheckDependencies
  \/ VisitKey \/ VisitDependency \/ Leave \/ Accept

Next == Validate \/ Register \/ NameTaken \/ Resend

Spec == Init /\ [][Next]_vars

\* The handler runs to its end.
FairSpec == Spec /\ WF_vars(Validate) /\ WF_vars(Register)

-----------------------------------------------------------------------------
(* Properties                                                              *)

Answered == phase \in {"registered", "conflict", "rejected"}

\* validate_dag is right both ways: what it accepts has unique keys, known
\* dependencies and no tasks waiting for one another, and what it rejects
\* lacks one of these.
VerdictIsRight ==
  /\ phase \in {"accepted", "registered", "conflict"} => Runnable
  /\ phase = "rejected" => ~Runnable

\* A 201 means this workflow is the stored one.  Whoever is told 409 has lost
\* to another client, or to an earlier copy of the same request; and nothing
\* that cannot run is ever stored.
AnswerMatchesTable ==
  /\ phase = "registered" => stored = "ours"
  /\ phase = "conflict" => stored = "theirs" \/ (stored = "ours" /\ lost > 0)
  /\ stored = "ours" => Runnable

\* Every request is answered: the search of any graph, cyclic or not, ends.
EventuallyAnswered == <>[]Answered
=============================================================================
