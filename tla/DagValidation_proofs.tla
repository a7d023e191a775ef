------------------------ MODULE DagValidation_proofs ------------------------
(***************************************************************************)
(* Proofs about DagValidation: the depth-first search decides, for every   *)
(* list of tasks, whether a run of the workflow can end.                   *)
(***************************************************************************)
EXTENDS DagValidation, SequenceTheorems, TLAPS

\* The calls of visit form a path: each waits for the next one, and what it
\* has visited before lies in visited.
Calls ==
  /\ visiting = {stack[i].node : i \in DOMAIN stack}
  /\ \A i, j \in DOMAIN stack : stack[i].node = stack[j].node => i = j
  /\ \A i \in DOMAIN stack : \A j \in DOMAIN graph[stack[i].node] :
       j < stack[i].next =>
         \/ graph[stack[i].node][j] \in visited
         \/ i < Len(stack) /\ j = stack[i].next - 1
  /\ \A i \in 1 .. (Len(stack) - 1) :
       /\ stack[i].next - 1 \in DOMAIN graph[stack[i].node]
       /\ graph[stack[i].node][stack[i].next - 1] = stack[i + 1].node

\* What is visited is closed and has no knot; the keys before at are visited
\* or about to be.
Search ==
  /\ KnownDependencies
  /\ UniqueKeys
  /\ visiting \cup visited \subseteq KeySet
  /\ visiting \cap visited = {}
  /\ \A k \in visited : DependenciesOf(k) \subseteq visited
  /\ \A S \in SUBSET visited : ~Knot(S)
  /\ \A i \in DOMAIN keys : i < at =>
       keys[i] \in visited \/ (stack # <<>> /\ keys[i] = stack[1].node)

Fresh == stack = <<>> /\ visiting = {} /\ visited = {} /\ at = 1

\* What the invariant says beyond types.
Rest ==
  /\ VerdictIsRight
  /\ AnswerMatchesTable
  /\ stored = "ours" /\ phase # "registered" => lost > 0
  /\ phase \in {"keys", "dependencies"} => Fresh
  /\ phase = "dependencies" => UniqueKeys
  /\ phase = "visit" => Calls /\ Search

-----------------------------------------------------------------------------
(* Sequences                                                               *)

\* The indices below the last one.
LEMMA Below ==
  ASSUME NEW n \in Nat \ {0}
  PROVE  /\ \A i \in 1 .. n : i = n \/ i \in 1 .. (n - 1)
         /\ \A i \in 1 .. (n - 1) : i \in 1 .. n /\ i # n /\ i + 1 \in 1 .. n
         /\ \A i \in 1 .. n : i # n => i \in 1 .. (n - 1)
         /\ \A p \in 1 .. n : \A i \in p .. n :
              i # n => i \in 1 .. (n - 1) /\ i + 1 \in p .. n
         /\ \A i \in 1 .. (n - 1) : i + 1 # n => i < n - 1
  OBVIOUS

\* Append(stack, frame) keeps the calls and adds one.
LEMMA Pushed ==
  ASSUME NEW s \in Seq(Frame), NEW f \in Frame
  PROVE  /\ Append(s, f) \in Seq(Frame)
         /\ Len(Append(s, f)) = Len(s) + 1
         /\ DOMAIN Append(s, f) = 1 .. (Len(s) + 1)
         /\ \A i \in DOMAIN s : Append(s, f)[i] = s[i]
         /\ Append(s, f)[Len(s) + 1] = f
  BY AppendProperties

\* A call that goes on to its next dependency changes only its own frame.
LEMMA Advanced ==
  ASSUME NEW s \in Seq(Frame), s # <<>>
  PROVE  LET n == Len(s)
             f == [node |-> s[n].node, next |-> s[n].next + 1]
             c == [s EXCEPT ![n] = f]
         IN  /\ c \in Seq(Frame) /\ Len(c) = n /\ DOMAIN c = DOMAIN s
             /\ n \in Nat \ {0} /\ DOMAIN s = 1 .. n
             /\ \A i \in DOMAIN s : i # n => c[i] = s[i]
             /\ c[n] = f
  <1> DEFINE n == Len(s)
             f == [node |-> s[n].node, next |-> s[n].next + 1]
             c == [s EXCEPT ![n] = f]
  <1>1. n \in Nat \ {0} /\ DOMAIN s = 1 .. n /\ n \in DOMAIN s
    BY LenProperties, EmptySeq
  <1>2. s[n] \in Frame
    BY <1>1, ElementOfSeq
  <1>3. f \in Frame
    BY <1>2 DEF Frame
  <1>4. c \in Seq(Frame) /\ Len(c) = n
    BY <1>1, <1>3, ExceptSeq
  <1> QED
    BY <1>1, <1>4, LenProperties

\* A call that ends leaves the calls below it as they are.
LEMMA Popped ==
  ASSUME NEW s \in Seq(Frame), s # <<>>
  PROVE  LET n == Len(s)
             c == SubSeq(s, 1, n - 1)
         IN  /\ c \in Seq(Frame) /\ Len(c) = n - 1 /\ DOMAIN c = 1 .. (n - 1)
             /\ n \in Nat \ {0} /\ DOMAIN s = 1 .. n
             /\ \A i \in 1 .. (n - 1) : c[i] = s[i]
  <1>1. Len(s) \in Nat \ {0} /\ DOMAIN s = 1 .. Len(s)
    BY LenProperties, EmptySeq
  <1> QED
    BY <1>1, SubSeqProperties

-----------------------------------------------------------------------------
(* The search                                                              *)

\* The request is not changed while it is served.
LEMMA BodyFixed ==
  ASSUME [Next]_vars
  PROVE  /\ body' = body
         /\ keys' = keys /\ graph' = graph /\ KeySet' = KeySet
         /\ \A k : DependenciesOf(k)' = DependenciesOf(k)
         /\ \A S : Knot(S)' <=> Knot(S)
         /\ UniqueKeys' <=> UniqueKeys
         /\ KnownDependencies' <=> KnownDependencies
         /\ Runnable' <=> Runnable
  <1>1. body' = body
    BY DEF Next, Validate, CheckKeys, CheckDependencies, VisitKey,
           VisitDependency, Leave, Accept, Register, NameTaken, Resend, vars
  <1>2. keys' = keys /\ graph' = graph
    BY <1>1 DEF keys, graph
  <1>3. KeySet' = KeySet
    BY <1>2 DEF KeySet
  <1>4. \A k : DependenciesOf(k)' = DependenciesOf(k)
    BY <1>2 DEF DependenciesOf
  <1>5. \A S : Knot(S)' <=> Knot(S)
    BY <1>4 DEF Knot
  <1>6. UniqueKeys' <=> UniqueKeys
    BY <1>2 DEF UniqueKeys
  <1>7. KnownDependencies' <=> KnownDependencies
    BY <1>3, <1>4 DEF KnownDependencies
  <1>8. Acyclic' <=> Acyclic
    BY <1>3, <1>5 DEF Acyclic
  <1> QED
    BY <1>1, <1>2, <1>3, <1>4, <1>5, <1>6, <1>7, <1>8 DEF Runnable

\* The dependencies of a key are keys.
LEMMA GraphType ==
  ASSUME TypeOK
  PROVE  /\ keys \in Seq(Key) /\ graph \in [Key -> Seq(Key)]
         /\ KeySet \subseteq Key
         /\ \A k \in Key : DependenciesOf(k) \subseteq Key
         /\ \A k \in Key : DOMAIN graph[k] = 1 .. Len(graph[k])
         /\ \A k \in Key : Len(graph[k]) \in Nat
  <1>1. keys \in Seq(Key) /\ graph \in [Key -> Seq(Key)]
    BY DEF TypeOK, Body, keys, graph
  <1>2. KeySet \subseteq Key
    BY <1>1, ElementOfSeq, LenProperties DEF KeySet
  <1>3. \A k \in Key : graph[k] \in Seq(Key)
    BY <1>1
  <1>4. \A k \in Key : DOMAIN graph[k] = 1 .. Len(graph[k])
                       /\ Len(graph[k]) \in Nat
    BY <1>3, LenProperties
  <1>5. \A k \in Key : DependenciesOf(k) \subseteq Key
    BY <1>3, <1>4, ElementOfSeq DEF DependenciesOf
  <1> QED
    BY <1>1, <1>2, <1>4, <1>5

\* Calling visit on the next key keeps the search invariant: with no call
\* under way no node is being visited, so this call never finds a cycle.
LEMMA VisitKeySearch ==
  ASSUME TypeOK, Calls, Search, VisitKey, [Next]_vars
  PROVE  phase' = "visit" /\ Calls' /\ Search'
  <1> USE BodyFixed, GraphType
  <1>1. visiting = {} /\ stack = <<>> /\ at \in DOMAIN keys /\ phase = "visit"
    BY EmptySeq DEF Calls, VisitKey
  <1>2. visited' = visited /\ at' = at + 1
    BY DEF VisitKey
  <1>3. keys[at] \in KeySet /\ at \in Nat
    BY <1>1 DEF KeySet, TypeOK
  <1>4. CASE keys[at] \in visited
    <2>1. stack' = <<>> /\ visiting' = {} /\ phase' = "visit"
      BY <1>1, <1>4 DEF VisitKey, Visit
    <2>2. Calls'
      BY <2>1, EmptySeq DEF Calls
    <2>3. \A i \in DOMAIN keys : i < at + 1 => keys[i] \in visited
      <3>1. \A i \in DOMAIN keys : i < at + 1 => i < at \/ i = at
        BY <1>3, LenProperties
      <3> QED
        BY <1>1, <1>4, <3>1 DEF Search
    <2>4. Search'
      BY <1>2, <2>1, <2>3 DEF Search
    <2> QED
      BY <2>1, <2>2, <2>4
  <1>5. CASE keys[at] \notin visited
    <2> DEFINE f == [node |-> keys[at], next |-> 1]
    <2>1. stack' = Append(<<>>, f) /\ visiting' = {keys[at]} /\ phase' = "visit"
      BY <1>1, <1>5 DEF VisitKey, Visit
    <2>2. f \in Frame /\ <<>> \in Seq(Frame)
      BY <1>3 DEF Frame
    <2>3. /\ Len(stack') = 1 /\ DOMAIN stack' = {1} /\ stack'[1] = f
          /\ stack' # <<>>
      BY <2>1, <2>2, Pushed, EmptySeq
    <2>4. Calls'
      <3>1. f.node = keys[at] /\ f.next = 1
        OBVIOUS
      <3>2. \A i \in 1 .. (Len(stack') - 1) : FALSE
        BY <2>3
      <3>3. \A j \in DOMAIN graph[keys[at]] : ~(j < 1)
        BY <1>3
      <3> QED
        BY <2>1, <2>3, <3>1, <3>2, <3>3 DEF Calls
    <2>5. \A i \in DOMAIN keys : i < at + 1 =>
            keys[i] \in visited \/ keys[i] = stack'[1].node
      <3>1. \A i \in DOMAIN keys : i < at + 1 => i < at \/ i = at
        BY <1>3, LenProperties
      <3> QED
        BY <1>1, <2>3, <3>1 DEF Search
    <2>6. Search'
      BY <1>2, <1>3, <1>5, <2>1, <2>3, <2>5 DEF Search
    <2> QED
      BY <2>1, <2>4, <2>6
  <1> QED
    BY <1>4, <1>5

\* The call that ends has visited all its dependencies, and since none of
\* them leads back to it, no knot is closed by adding it to visited.
LEMMA LeaveSearch ==
  ASSUME TypeOK, Calls, Search, Leave, [Next]_vars
  PROVE  phase' = "visit" /\ Calls' /\ Search'
  <1>b. /\ keys' = keys /\ graph' = graph /\ KeySet' = KeySet
        /\ \A k : DependenciesOf(k)' = DependenciesOf(k)
        /\ \A S : Knot(S)' <=> Knot(S)
        /\ UniqueKeys' <=> UniqueKeys
        /\ KnownDependencies' <=> KnownDependencies
    BY BodyFixed
  <1> DEFINE n == Len(stack)
             node == stack[n].node
  <1>1. /\ phase' = "visit" /\ at' = at /\ stack # <<>>
        /\ visiting' = visiting \ {node} /\ visited' = visited \cup {node}
        /\ stack' = SubSeq(stack, 1, n - 1)
        /\ stack[n].next \notin DOMAIN graph[node]
    BY DEF Leave, Top
  <1>2. stack \in Seq(Frame)
    BY DEF TypeOK
  <1>3. /\ n \in Nat \ {0} /\ DOMAIN stack = 1 .. n
        /\ Len(stack') = n - 1 /\ DOMAIN stack' = 1 .. (n - 1)
        /\ \A i \in 1 .. (n - 1) : stack'[i] = stack[i]
    BY <1>1, <1>2, Popped
  <1>4. \A i \in 1 .. n : stack[i].node \in Key /\ stack[i].next \in Nat \ {0}
    <2>1. \A i \in 1 .. n : stack[i] \in Frame
      BY <1>2, <1>3, ElementOfSeq
    <2> QED
      BY <2>1 DEF Frame
  <1>5. node \in visiting /\ node \in KeySet /\ node \notin visited
    BY <1>3 DEF Calls, Search
  <1>6. DependenciesOf(node) \subseteq visited
    <2>1. \A j \in DOMAIN graph[node] : j < stack[n].next
      <3>1. stack[n].next \notin 1 .. Len(graph[node])
        BY <1>1, <1>3, <1>4, GraphType
      <3> QED
        BY <1>3, <1>4, <3>1, GraphType
    <2>2. \A j \in DOMAIN graph[node] : graph[node][j] \in visited
      BY <1>3, <2>1 DEF Calls
    <2> QED
      BY <2>2 DEF DependenciesOf
  <1>7. visiting' = {stack'[i].node : i \in DOMAIN stack'}
    <2>1. visiting = {stack[i].node : i \in 1 .. n}
      BY <1>3 DEF Calls
    <2>2. \A i \in 1 .. n : i = n \/ i \in 1 .. (n - 1)
      BY <1>3, Below
    <2>3. \A i \in 1 .. (n - 1) : i \in 1 .. n /\ i # n
      BY <1>3, Below
    <2>4. \A i \in 1 .. (n - 1) : stack[i].node # node
      <3>1. n \in 1 .. n
        BY <1>3
      <3> QED
        BY <1>3, <2>3, <3>1 DEF Calls
    <2>5. visiting \ {node} = {stack[i].node : i \in 1 .. (n - 1)}
      BY <2>1, <2>2, <2>3, <2>4
    <2>6. {stack'[i].node : i \in 1 .. (n - 1)}
            = {stack[i].node : i \in 1 .. (n - 1)}
      BY <1>3
    <2> QED
      BY <1>1, <1>3, <2>5, <2>6
  <1>8. \A i, j \in DOMAIN stack' : stack'[i].node = stack'[j].node => i = j
    <2>1. \A i \in 1 .. (n - 1) : i \in DOMAIN stack
      BY <1>3
    <2> QED
      BY <1>3, <2>1 DEF Calls
  <1>9. \A i \in DOMAIN stack' : \A j \in DOMAIN graph[stack'[i].node] :
          j < stack'[i].next =>
            \/ graph[stack'[i].node][j] \in visited'
            \/ i < Len(stack') /\ j = stack'[i].next - 1
    <2> SUFFICES ASSUME NEW i \in 1 .. (n - 1),
                        NEW j \in DOMAIN graph[stack[i].node],
                        j < stack[i].next,
                        graph[stack[i].node][j] \notin visited'
                 PROVE  i < n - 1 /\ j = stack[i].next - 1
      BY <1>3
    <2>1. i \in DOMAIN stack /\ graph[stack[i].node][j] \notin visited
      BY <1>1, <1>3
    <2>2. j = stack[i].next - 1
      BY <2>1 DEF Calls
    <2>3. graph[stack[i].node][j] = stack[i + 1].node
      BY <1>3, <2>2 DEF Calls
    <2>4. i + 1 # n
      BY <1>1, <2>3
    <2>5. n \in Nat \ {0} /\ i \in 1 .. (n - 1)
      BY <1>3
    <2>6. i < n - 1
      BY <2>4, <2>5, Below
    <2> QED
      BY <2>2, <2>6
  <1>10. \A i \in 1 .. (Len(stack') - 1) :
           /\ stack'[i].next - 1 \in DOMAIN graph[stack'[i].node]
           /\ graph[stack'[i].node][stack'[i].next - 1] = stack'[i + 1].node
    <2>1. \A i \in 1 .. (Len(stack') - 1) :
            i \in 1 .. (n - 1) /\ i + 1 \in 1 .. (n - 1)
      BY <1>3
    <2> QED
      BY <1>3, <2>1 DEF Calls
  <1>11. Calls'
    BY <1>b, <1>7, <1>8, <1>9, <1>10 DEF Calls
  <1>12. \A k \in visited' : DependenciesOf(k) \subseteq visited'
    BY <1>1, <1>6 DEF Search
  <1>13. \A S \in SUBSET visited' : ~Knot(S)
    <2> SUFFICES ASSUME NEW S \in SUBSET visited', Knot(S)
                 PROVE  FALSE
      OBVIOUS
    <2> DEFINE R == S \ {node}
    <2>1. R \in SUBSET visited /\ ~Knot(R)
      BY <1>1 DEF Search
    <2>2. \A k \in R : DependenciesOf(k) \cap R # {}
      <3> SUFFICES ASSUME NEW k \in R
                   PROVE  DependenciesOf(k) \cap R # {}
        OBVIOUS
      <3>1. DependenciesOf(k) \subseteq visited
        BY <2>1 DEF Search
      <3>2. node \notin DependenciesOf(k)
        BY <1>5, <3>1
      <3> QED
        <4>1. DependenciesOf(k) \cap S # {}
          BY DEF Knot
        <4> QED
          BY <3>2, <4>1
    <2>3. S = {node}
      BY <2>1, <2>2 DEF Knot
    <2>4. DependenciesOf(node) \cap {node} # {}
      BY <2>3 DEF Knot
    <2> QED
      BY <1>5, <1>6, <2>4
  <1>14. \A i \in DOMAIN keys : i < at =>
           keys[i] \in visited' \/ (stack' # <<>> /\ keys[i] = stack'[1].node)
    <2>1. CASE n = 1
      BY <1>1, <2>1 DEF Search
    <2>2. CASE n # 1
      <3>1. 1 \in 1 .. (n - 1) /\ stack' # <<>>
        BY <1>3, <2>2, EmptySeq
      <3> QED
        BY <1>1, <1>3, <3>1 DEF Search
    <2> QED
      BY <2>1, <2>2
  <1>15. Search'
    BY <1>b, <1>1, <1>5, <1>12, <1>13, <1>14 DEF Search
  <1> QED
    BY <1>1, <1>11, <1>15

\* Calls' from the next stack, called c here.
LEMMA CallsNext ==
  ASSUME NEW c, NEW m, stack' = c, Len(c) = m, DOMAIN c = 1 .. m,
         graph' = graph,
         visiting' = {c[i].node : i \in 1 .. m},
         \A i, j \in 1 .. m : c[i].node = c[j].node => i = j,
         \A i \in 1 .. m : \A j \in DOMAIN graph[c[i].node] :
           j < c[i].next =>
             \/ graph[c[i].node][j] \in visited'
             \/ i < m /\ j = c[i].next - 1,
         \A i \in 1 .. (m - 1) :
           /\ c[i].next - 1 \in DOMAIN graph[c[i].node]
           /\ graph[c[i].node][c[i].next - 1] = c[i + 1].node
  PROVE  Calls'
  BY DEF Calls

\* A dependency that is being visited waits, through the calls above it, for
\* itself: these calls are a knot.  Any other dependency is visited already
\* or becomes the innermost call.
LEMMA VisitDependencySearch ==
  ASSUME TypeOK, Calls, Search, phase = "visit", VisitDependency, [Next]_vars
  PROVE  \/ phase' = "visit" /\ Calls' /\ Search'
         \/ phase' = "rejected" /\ ~Runnable
  <1>b. /\ keys' = keys /\ graph' = graph /\ KeySet' = KeySet
        /\ \A k : DependenciesOf(k)' = DependenciesOf(k)
        /\ \A S : Knot(S)' <=> Knot(S)
        /\ UniqueKeys' <=> UniqueKeys
        /\ KnownDependencies' <=> KnownDependencies
    BY BodyFixed
  <1> DEFINE n == Len(stack)
             node == stack[n].node
             next == stack[n].next
             dep == graph[node][next]
             f == [node |-> node, next |-> next + 1]
             calls == [stack EXCEPT ![n] = f]
  <1>1. /\ stack # <<>> /\ next \in DOMAIN graph[node] /\ Visit(dep, calls)
        /\ at' = at /\ visited' = visited
    BY DEF VisitDependency, Top
  <1>2. stack \in Seq(Frame)
    BY DEF TypeOK
  <1>c. /\ calls \in Seq(Frame) /\ Len(calls) = n /\ DOMAIN calls = 1 .. n
        /\ n \in Nat \ {0} /\ DOMAIN stack = 1 .. n
        /\ \A i \in 1 .. n : i # n => calls[i] = stack[i]
        /\ calls[n] = f
    BY <1>1, <1>2, Advanced
  <1>3. n \in Nat \ {0} /\ DOMAIN stack = 1 .. n
    BY <1>c
  <1>4. \A i \in 1 .. n : stack[i].node \in Key /\ stack[i].next \in Nat \ {0}
    <2>1. \A i \in 1 .. n : stack[i] \in Frame
      BY <1>2, <1>3, ElementOfSeq
    <2> QED
      BY <2>1 DEF Frame
  <1>5. n \in 1 .. n /\ node \in Key /\ next \in Nat \ {0}
    BY <1>3, <1>4
  <1>6. \A i \in 1 .. n : calls[i].node = stack[i].node
    BY <1>c
  <1>7. \A i \in 1 .. n : i # n => calls[i].next = stack[i].next
    BY <1>c
  <1>8. calls[n].next = next + 1 /\ (next + 1) - 1 = next
    BY <1>c, <1>5
  <1>d. /\ calls \in Seq(Frame) /\ Len(calls) = n /\ DOMAIN calls = 1 .. n
        /\ \A i \in 1 .. n : i # n => calls[i] = stack[i]
    BY <1>c
  <1> HIDE DEF calls
  <1>9. \A i \in 1 .. n : stack[i].node \in KeySet
    BY <1>3 DEF Calls, Search
  <1>10. dep \in DependenciesOf(node) /\ dep \in KeySet
    <2>1. dep \in DependenciesOf(node)
      BY <1>1 DEF DependenciesOf
    <2> QED
      BY <1>5, <1>9, <2>1 DEF Search, KnownDependencies
  <1>11. CASE dep \in visiting
    <2>1. phase' = "rejected"
      BY <1>1, <1>11 DEF Visit, Search
    <2>2. PICK p \in 1 .. n : stack[p].node = dep
      BY <1>3, <1>11 DEF Calls
    <2> DEFINE S == {stack[i].node : i \in p .. n}
    <2>3. S # {} /\ S \subseteq KeySet
      <3>1. \A i \in p .. n : i \in 1 .. n
        BY <1>3
      <3>2. p \in p .. n
        BY <1>3
      <3> QED
        BY <1>9, <3>1, <3>2
    <2>4. dep \in S
      <3>1. p \in p .. n
        BY <1>3
      <3> QED
        BY <2>2, <3>1
    <2>5. \A i \in p .. n : DependenciesOf(stack[i].node) \cap S # {}
      <3> SUFFICES ASSUME NEW i \in p .. n
                   PROVE  DependenciesOf(stack[i].node) \cap S # {}
        OBVIOUS
      <3>1. CASE i = n
        BY <1>10, <2>4, <3>1
      <3>2. CASE i # n
        <4>1. i \in 1 .. (n - 1) /\ i + 1 \in p .. n
          BY <1>3, <3>2, Below
        <4>2. /\ stack[i].next - 1 \in DOMAIN graph[stack[i].node]
              /\ graph[stack[i].node][stack[i].next - 1] = stack[i + 1].node
          BY <4>1 DEF Calls
        <4>3. stack[i + 1].node \in DependenciesOf(stack[i].node)
          BY <4>2 DEF DependenciesOf
        <4>4. stack[i + 1].node \in S
          BY <4>1
        <4> QED
          BY <4>3, <4>4
      <3> QED
        BY <3>1, <3>2
    <2>6. Knot(S)
      BY <2>3, <2>5 DEF Knot
    <2>7. ~Acyclic
      BY <2>3, <2>6 DEF Acyclic
    <2> QED
      BY <2>1, <2>7 DEF Runnable
  <1>12. CASE dep \in visited
    <2>1. stack' = calls /\ visiting' = visiting /\ phase' = "visit"
      BY <1>1, <1>12 DEF Visit, Search
    <2>2. visiting' = {calls[i].node : i \in 1 .. n}
      BY <1>3, <1>6, <2>1 DEF Calls
    <2>3. \A i, j \in 1 .. n : calls[i].node = calls[j].node => i = j
      BY <1>3, <1>6 DEF Calls
    <2>4. \A i \in 1 .. n : \A j \in DOMAIN graph[calls[i].node] :
            j < calls[i].next =>
              \/ graph[calls[i].node][j] \in visited
              \/ i < n /\ j = calls[i].next - 1
      <3> SUFFICES ASSUME NEW i \in 1 .. n,
                          NEW j \in DOMAIN graph[stack[i].node],
                          j < calls[i].next
                   PROVE  \/ graph[stack[i].node][j] \in visited
                          \/ i < n /\ j = calls[i].next - 1
        BY <1>6
      <3>1. CASE i # n
        BY <1>3, <1>7, <3>1 DEF Calls
      <3>2. CASE i = n
        <4>1. j < next \/ j = next
          <5>1. j \in 1 .. Len(graph[node]) /\ Len(graph[node]) \in Nat
            BY <1>5, <3>2, GraphType
          <5> QED
            BY <1>5, <1>8, <3>2, <5>1
        <4>2. CASE j = next
          BY <1>12, <3>2, <4>2
        <4>3. CASE j < next
          BY <1>3, <3>2, <4>3 DEF Calls
        <4> QED
          BY <4>1, <4>2, <4>3
      <3> QED
        BY <3>1, <3>2
    <2>5. \A i \in 1 .. (n - 1) :
            /\ calls[i].next - 1 \in DOMAIN graph[calls[i].node]
            /\ graph[calls[i].node][calls[i].next - 1] = calls[i + 1].node
      <3>1. \A i \in 1 .. (n - 1) : i \in 1 .. n /\ i # n /\ i + 1 \in 1 .. n
        BY <1>3, Below
      <3>2. \A i \in 1 .. (n - 1) :
              /\ stack[i].next - 1 \in DOMAIN graph[stack[i].node]
              /\ graph[stack[i].node][stack[i].next - 1] = stack[i + 1].node
        BY DEF Calls
      <3>3. \A i \in 1 .. (n - 1) :
              /\ calls[i].node = stack[i].node /\ calls[i].next = stack[i].next
              /\ calls[i + 1].node = stack[i + 1].node
        BY <1>6, <1>7, <3>1
      <3> QED
        BY <3>2, <3>3
    <2>6. Calls'
      <3>1. PICK m : m = n
        OBVIOUS
      <3>2. graph' = graph /\ visited' = visited /\ stack' = calls
        BY <1>b, <1>1, <2>1
      <3>3. Len(calls) = m /\ DOMAIN calls = 1 .. m
        BY <1>d, <3>1
      <3>4. visiting' = {calls[i].node : i \in 1 .. m}
        BY <2>2, <3>1
      <3>5. \A i, j \in 1 .. m : calls[i].node = calls[j].node => i = j
        BY <2>3, <3>1
      <3>6. \A i \in 1 .. m : \A j \in DOMAIN graph[calls[i].node] :
              j < calls[i].next =>
                \/ graph[calls[i].node][j] \in visited'
                \/ i < m /\ j = calls[i].next - 1
        BY <2>4, <3>1, <3>2
      <3>7. \A i \in 1 .. (m - 1) :
              /\ calls[i].next - 1 \in DOMAIN graph[calls[i].node]
              /\ graph[calls[i].node][calls[i].next - 1] = calls[i + 1].node
        BY <2>5, <3>1
      <3> QED
        BY <3>2, <3>3, <3>4, <3>5, <3>6, <3>7, CallsNext
    <2>7. stack' # <<>> /\ stack'[1].node = stack[1].node
      <3>1. 1 \in 1 .. n
        BY <1>3
      <3>2. calls # <<>>
        BY <1>3, <1>d, EmptySeq
      <3> QED
        BY <1>6, <2>1, <3>1, <3>2
    <2>8. Search'
      BY <1>b, <1>1, <2>1, <2>7 DEF Search
    <2> QED
      BY <2>1, <2>6, <2>8
  <1>13. CASE dep \notin visiting \cup visited
    <2> DEFINE g == [node |-> dep, next |-> 1]
               deeper == Append(calls, g)
    <2>1. stack' = deeper /\ visiting' = visiting \cup {dep} /\ phase' = "visit"
      BY <1>1, <1>13 DEF Visit
    <2>2. g \in Frame
      BY <1>10, GraphType DEF Frame
    <2> HIDE DEF dep
    <2>a. g.node = dep /\ g.next = 1
      OBVIOUS
    <2> HIDE DEF g
    <2>3. /\ Len(deeper) = n + 1 /\ DOMAIN deeper = 1 .. (n + 1)
          /\ \A i \in 1 .. n : deeper[i] = calls[i]
          /\ deeper[n + 1] = g /\ g.node = dep /\ g.next = 1
          /\ deeper \in Seq(Frame)
      <3>1. Len(calls) = n /\ DOMAIN calls = 1 .. n /\ calls \in Seq(Frame)
        BY <1>d
      <3> QED
        BY <2>2, <2>a, <3>1, Pushed
    <2> HIDE DEF deeper
    <2>4. /\ \A i \in 1 .. (n + 1) : i = n + 1 \/ i \in 1 .. n
          /\ \A i \in 1 .. n : i \in 1 .. (n + 1) /\ i # n + 1
          /\ n + 1 \in 1 .. (n + 1) /\ (n + 1) - 1 = n
      BY <1>3
    <2>5. \A i \in 1 .. n : deeper[i].node = stack[i].node
      BY <1>6, <2>3
    <2>6. \A i \in 1 .. n : stack[i].node # dep
      BY <1>3, <1>13 DEF Calls
    <2>7. visiting' = {deeper[i].node : i \in 1 .. (n + 1)}
      <3>1. visiting = {stack[i].node : i \in 1 .. n}
        BY <1>3 DEF Calls
      <3> QED
        BY <2>1, <2>3, <2>4, <2>5, <3>1
    <2>8. \A i, j \in 1 .. (n + 1) : deeper[i].node = deeper[j].node => i = j
      <3>1. \A i, j \in 1 .. n : stack[i].node = stack[j].node => i = j
        BY <1>3 DEF Calls
      <3> QED
        BY <2>3, <2>4, <2>5, <2>6, <3>1
    <2>9. \A i \in 1 .. (n + 1) : \A j \in DOMAIN graph[deeper[i].node] :
            j < deeper[i].next =>
              \/ graph[deeper[i].node][j] \in visited
              \/ i < n + 1 /\ j = deeper[i].next - 1
      <3> SUFFICES ASSUME NEW i \in 1 .. (n + 1),
                          NEW j \in DOMAIN graph[deeper[i].node],
                          j < deeper[i].next
                   PROVE  \/ graph[deeper[i].node][j] \in visited
                          \/ i < n + 1 /\ j = deeper[i].next - 1
        OBVIOUS
      <3>1. CASE i = n + 1
        <4>1. dep \in Key
          BY <1>10, GraphType
        <4>2. j \in 1 .. Len(graph[dep]) /\ Len(graph[dep]) \in Nat
          BY <2>3, <3>1, <4>1, GraphType
        <4>3. j < 1
          BY <2>3, <3>1
        <4> QED
          BY <4>2, <4>3
      <3>2. CASE i = n
        <4>1. deeper[i].next = next + 1 /\ deeper[i].node = node
          BY <1>3, <1>5, <1>6, <1>8, <2>3, <3>2
        <4>2. j \in 1 .. Len(graph[node]) /\ Len(graph[node]) \in Nat
          BY <1>5, <4>1, GraphType
        <4>3. j < next \/ j = next
          BY <1>5, <4>1, <4>2
        <4>4. CASE j = next
          BY <1>3, <1>8, <3>2, <4>1, <4>4
        <4>5. CASE j < next
          BY <1>3, <3>2, <4>1, <4>5 DEF Calls
        <4> QED
          BY <4>3, <4>4, <4>5
      <3>3. CASE i # n + 1 /\ i # n
        <4>1. i \in 1 .. n /\ i < n
          BY <1>3, <3>3
        <4>2. deeper[i] = stack[i]
          BY <1>3, <1>d, <2>3, <4>1, <3>3
        <4>3. \/ graph[stack[i].node][j] \in visited
              \/ i < n /\ j = stack[i].next - 1
          BY <1>3, <4>1, <4>2 DEF Calls
        <4> QED
          BY <1>3, <4>1, <4>2, <4>3
      <3> QED
        BY <3>1, <3>2, <3>3
    <2>10. \A i \in 1 .. n :
             /\ deeper[i].next - 1 \in DOMAIN graph[deeper[i].node]
             /\ graph[deeper[i].node][deeper[i].next - 1] = deeper[i + 1].node
      <3> SUFFICES ASSUME NEW i \in 1 .. n
                   PROVE
             /\ deeper[i].next - 1 \in DOMAIN graph[deeper[i].node]
             /\ graph[deeper[i].node][deeper[i].next - 1] = deeper[i + 1].node
        OBVIOUS
      <3>1. CASE i = n
        <4>1. deeper[i].next = next + 1 /\ deeper[i].node = node
          BY <1>3, <1>5, <1>6, <1>8, <2>3, <3>1
        <4> QED
          BY <1>1, <1>8, <2>3, <3>1, <4>1 DEF dep
      <3>2. CASE i # n
        <4>1. i \in 1 .. (n - 1) /\ i + 1 \in 1 .. n
          BY <1>3, <3>2, Below
        <4>2. deeper[i] = stack[i] /\ deeper[i + 1].node = stack[i + 1].node
          BY <1>3, <1>d, <2>3, <2>5, <3>2, <4>1
        <4> QED
          BY <4>1, <4>2 DEF Calls
      <3> QED
        BY <3>1, <3>2
    <2>11. Calls'
      <3>1. PICK m : m = n + 1
        OBVIOUS
      <3>2. m - 1 = n
        BY <2>4, <3>1
      <3>3. graph' = graph /\ visited' = visited /\ stack' = deeper
        BY <1>b, <1>1, <2>1
      <3>4. Len(deeper) = m /\ DOMAIN deeper = 1 .. m
        BY <2>3, <3>1
      <3>5. visiting' = {deeper[i].node : i \in 1 .. m}
        BY <2>7, <3>1
      <3>6. \A i, j \in 1 .. m : deeper[i].node = deeper[j].node => i = j
        BY <2>8, <3>1
      <3>7. \A i \in 1 .. m : \A j \in DOMAIN graph[deeper[i].node] :
              j < deeper[i].next =>
                \/ graph[deeper[i].node][j] \in visited'
                \/ i < m /\ j = deeper[i].next - 1
        BY <2>9, <3>1, <3>3
      <3>8. \A i \in 1 .. (m - 1) :
              /\ deeper[i].next - 1 \in DOMAIN graph[deeper[i].node]
              /\ graph[deeper[i].node][deeper[i].next - 1] = deeper[i + 1].node
        BY <2>10, <3>2
      <3> QED
        BY <3>3, <3>4, <3>5, <3>6, <3>7, <3>8, CallsNext
    <2>12. stack' # <<>> /\ stack'[1].node = stack[1].node
      <3>1. 1 \in 1 .. n
        BY <1>3
      <3>2. Len(deeper) # 0
        BY <1>3, <2>3
      <3> QED
        BY <2>1, <2>5, <3>1, <3>2, EmptySeq
    <2>13. Search'
      BY <1>b, <1>1, <1>10, <1>13, <2>1, <2>12 DEF Search
    <2> QED
      BY <2>1, <2>11, <2>13
  <1> QED
    BY <1>11, <1>12, <1>13

-----------------------------------------------------------------------------
(* The invariant                                                           *)

\* When the outer loop ends everything is visited, and visited has no knot.
LEMMA AcceptedIsRunnable ==
  ASSUME TypeOK, Search, stack = <<>>, at \notin DOMAIN keys
  PROVE  Runnable
  <1>1. \A i \in DOMAIN keys : i < at
    BY GraphType, LenProperties DEF TypeOK
  <1>2. KeySet \subseteq visited
    BY <1>1 DEF Search, KeySet
  <1>3. Acyclic
    BY <1>2 DEF Search, Acyclic
  <1> QED
    BY <1>3 DEF Search, Runnable

\* Every step keeps the types.
LEMMA TypePreserved ==
  ASSUME TypeOK, [Next]_vars, MaxLost \in Nat
  PROVE  TypeOK'
  <1>1. body' \in Body
    BY BodyFixed DEF TypeOK
  <1>2. ASSUME NEW node \in Key, NEW calls \in Seq(Frame), Visit(node, calls)
        PROVE  stack' \in Seq(Frame) /\ phase' \in Phases
               /\ visiting' \in SUBSET Key
    <2>1. [node |-> node, next |-> 1] \in Frame
      BY DEF Frame
    <2> QED
      BY <1>2, <2>1, Pushed DEF Visit, TypeOK, Phases
  <1>3. CASE CheckKeys \/ CheckDependencies \/ Accept \/ Register \/ NameTaken
    BY <1>1, <1>3 DEF TypeOK, Phases, CheckKeys, CheckDependencies, Accept,
                      Register, NameTaken
  <1>4. CASE VisitKey
    <2>1. keys[at] \in Key
      BY <1>4, GraphType DEF VisitKey, KeySet
    <2>2. Visit(keys[at], stack) /\ stack \in Seq(Frame)
      BY <1>4 DEF VisitKey, TypeOK
    <2>3. stack' \in Seq(Frame) /\ phase' \in Phases /\ visiting' \in SUBSET Key
      BY <1>2, <2>1, <2>2
    <2>4. at' \in Nat \ {0} /\ UNCHANGED <<visited, stored, lost>>
      BY <1>4 DEF VisitKey, TypeOK
    <2> QED
      BY <1>1, <2>3, <2>4 DEF TypeOK
  <1>5. CASE VisitDependency
    <2> DEFINE n == Len(stack)
               node == stack[n].node
               next == stack[n].next
               calls == [stack EXCEPT ![n] = [node |-> node, next |-> next + 1]]
    <2>1. /\ stack # <<>> /\ next \in DOMAIN graph[node]
          /\ Visit(graph[node][next], calls)
          /\ at' = at /\ visited' = visited /\ stored' = stored /\ lost' = lost
      BY <1>5 DEF VisitDependency, Top
    <2>2. stack \in Seq(Frame)
      BY DEF TypeOK
    <2>3. calls \in Seq(Frame) /\ n \in DOMAIN stack /\ DOMAIN stack = 1 .. n
      BY <2>1, <2>2, Advanced
    <2>4. node \in Key
      BY <2>2, <2>3, ElementOfSeq DEF Frame
    <2>5. graph[node][next] \in Key
      BY <2>1, <2>4, GraphType DEF DependenciesOf
    <2> HIDE DEF calls
    <2>6. stack' \in Seq(Frame) /\ phase' \in Phases /\ visiting' \in SUBSET Key
      BY <1>2, <2>1, <2>3, <2>5
    <2> QED
      BY <1>1, <2>1, <2>6 DEF TypeOK
  <1>6. CASE Leave
    <2>1. stack \in Seq(Frame) /\ stack # <<>>
      BY <1>6 DEF Leave, TypeOK
    <2>2. SubSeq(stack, 1, Len(stack) - 1) \in Seq(Frame)
          /\ Len(stack) \in 1 .. Len(stack)
      BY <2>1, Popped
    <2>3. Top.node \in Key
      <3>1. Top \in Frame
        BY <2>1, <2>2, ElementOfSeq DEF Top
      <3> QED
        BY <3>1 DEF Frame
    <2> QED
      BY <1>1, <1>6, <2>2, <2>3 DEF Leave, TypeOK
  <1>7. CASE Resend
    <2>1. <<>> \in Seq(Frame)
      BY EmptySeq
    <2> QED
      BY <1>1, <1>7, <2>1 DEF Resend, TypeOK, Phases
  <1>8. CASE UNCHANGED vars
    BY <1>8 DEF vars, TypeOK
  <1> QED
    BY <1>3, <1>4, <1>5, <1>6, <1>7, <1>8 DEF Next, Validate

\* A step that stores nothing keeps Rest if it keeps the facts about the
\* search and answers, if at all, rightly.
LEMMA RestFromPhase ==
  ASSUME Rest, [Next]_vars, stored' = stored, lost' = lost,
         phase \notin {"registered", "conflict", "rejected", "accepted"},
         \/ phase' = "dependencies" /\ Fresh' /\ UniqueKeys
         \/ phase' = "visit" /\ Calls' /\ Search'
         \/ phase' = "accepted" /\ Runnable
         \/ phase' = "rejected" /\ ~Runnable
  PROVE  Rest'
  BY BodyFixed DEF Rest, VerdictIsRight, AnswerMatchesTable

\* Every step keeps the rest of the invariant.
LEMMA RestPreserved ==
  ASSUME TypeOK, Rest, [Next]_vars, MaxLost \in Nat
  PROVE  Rest'
  <1>1. CASE CheckKeys
    <2>1. /\ stored' = stored /\ lost' = lost /\ phase = "keys" /\ Fresh
          /\ UNCHANGED <<at, stack, visiting, visited>>
      BY <1>1 DEF CheckKeys, Rest
    <2>2. Fresh'
      BY <2>1 DEF Fresh
    <2>3. \/ phase' = "dependencies" /\ UniqueKeys
          \/ phase' = "rejected" /\ ~Runnable
      BY <1>1 DEF CheckKeys, Runnable
    <2> QED
      BY <2>1, <2>2, <2>3, RestFromPhase
  <1>2. CASE CheckDependencies
    <2>1. /\ stored' = stored /\ lost' = lost /\ phase = "dependencies"
          /\ Fresh /\ UniqueKeys
          /\ UNCHANGED <<at, stack, visiting, visited>>
      BY <1>2 DEF CheckDependencies, Rest
    <2>2. CASE KnownDependencies
      <3>1. phase' = "visit"
        BY <1>2, <2>2 DEF CheckDependencies
      <3>2. /\ stack' = <<>> /\ visiting' = {} /\ visited' = {} /\ at' = 1
        BY <2>1 DEF Fresh
      <3>3. Calls'
        BY <3>2, EmptySeq DEF Calls
      <3>4. \A i \in DOMAIN keys : ~(i < 1)
        BY GraphType, LenProperties
      <3>5. UniqueKeys' /\ KnownDependencies' /\ keys' = keys
        BY <2>1, <2>2, BodyFixed
      <3>6. \A S \in SUBSET {} : ~Knot(S)
        BY DEF Knot
      <3>7. \A S \in SUBSET visited' : ~Knot(S)'
        BY <3>2, <3>6, BodyFixed
      <3>8. Search'
        BY <3>2, <3>4, <3>5, <3>7 DEF Search
      <3> QED
        BY <2>1, <3>1, <3>3, <3>8, RestFromPhase
    <2>3. CASE ~KnownDependencies
      BY <1>2, <2>1, <2>3, RestFromPhase DEF CheckDependencies, Runnable
    <2> QED
      BY <2>2, <2>3
  <1>3. CASE VisitKey
    <2>1. phase = "visit" /\ stored' = stored /\ lost' = lost
      BY <1>3 DEF VisitKey
    <2>2. phase' = "visit" /\ Calls' /\ Search'
      BY <1>3, <2>1, VisitKeySearch DEF Rest
    <2> QED
      BY <2>1, <2>2, RestFromPhase
  <1>4. CASE VisitDependency
    <2>1. phase = "visit" /\ stored' = stored /\ lost' = lost
      BY <1>4 DEF VisitDependency
    <2>2. \/ phase' = "visit" /\ Calls' /\ Search'
          \/ phase' = "rejected" /\ ~Runnable
      BY <1>4, <2>1, VisitDependencySearch DEF Rest
    <2> QED
      BY <2>1, <2>2, RestFromPhase
  <1>5. CASE Leave
    <2>1. phase = "visit" /\ stored' = stored /\ lost' = lost
      BY <1>5 DEF Leave
    <2>2. phase' = "visit" /\ Calls' /\ Search'
      BY <1>5, <2>1, LeaveSearch DEF Rest
    <2> QED
      BY <2>1, <2>2, RestFromPhase
  <1>6. CASE Accept
    <2>1. /\ phase = "visit" /\ phase' = "accepted"
          /\ stored' = stored /\ lost' = lost
          /\ stack = <<>> /\ at \notin DOMAIN keys
      BY <1>6 DEF Accept
    <2>2. Runnable
      BY <2>1, AcceptedIsRunnable DEF Rest
    <2> QED
      BY <2>1, <2>2, RestFromPhase
  <1>7. CASE Register
    <2>1. /\ phase = "accepted" /\ lost' = lost
          /\ \/ stored = "none" /\ stored' = "ours" /\ phase' = "registered"
             \/ stored # "none" /\ stored' = stored /\ phase' = "conflict"
      BY <1>7 DEF Register
    <2>2. Runnable /\ Runnable'
      BY <2>1, BodyFixed DEF Rest, VerdictIsRight
    <2>3. stored \in {"none", "ours", "theirs"}
      BY DEF TypeOK
    <2> QED
      BY <2>1, <2>2, <2>3 DEF Rest, VerdictIsRight, AnswerMatchesTable
  <1>8. CASE NameTaken
    <2>1. /\ phase' = phase /\ phase = "accepted" /\ lost' = lost
          /\ stored = "none" /\ stored' = "theirs"
      BY <1>8 DEF NameTaken
    <2> QED
      BY <2>1, BodyFixed DEF Rest, VerdictIsRight, AnswerMatchesTable
  <1>9. CASE Resend
    <2>1. phase' = "keys" /\ stored' = stored /\ lost' = lost + 1 /\ Fresh'
      BY <1>9 DEF Resend, Fresh
    <2>2. lost' > 0
      BY <2>1 DEF TypeOK
    <2> QED
      BY <2>1, <2>2, BodyFixed DEF Rest, VerdictIsRight, AnswerMatchesTable
  <1>10. CASE UNCHANGED vars
    <2>1. /\ phase' = phase /\ at' = at /\ stack' = stack /\ stored' = stored
          /\ visiting' = visiting /\ visited' = visited /\ lost' = lost
      BY <1>10 DEF vars
    <2>2. Calls' <=> Calls
      BY <2>1, BodyFixed DEF Calls
    <2>3. Search' <=> Search
      BY <2>1, BodyFixed DEF Search
    <2>4. Fresh' <=> Fresh
      BY <2>1 DEF Fresh
    <2>5. /\ VerdictIsRight' <=> VerdictIsRight
          /\ AnswerMatchesTable' <=> AnswerMatchesTable
      BY <2>1, BodyFixed DEF VerdictIsRight, AnswerMatchesTable
    <2> QED
      BY <2>1, <2>2, <2>3, <2>4, <2>5, BodyFixed DEF Rest
  <1> QED
    BY <1>1, <1>2, <1>3, <1>4, <1>5, <1>6, <1>7, <1>8, <1>9, <1>10
       DEF Next, Validate

\* The types hold, for every set of keys and every list of tasks.
THEOREM ValidationTypeCorrect == Spec => []TypeOK
  <1> USE ValidationAssumption
  <1>1. Init => TypeOK
    <2>1. <<>> \in Seq(Frame)
      BY EmptySeq
    <2> QED
      BY <2>1 DEF Init, TypeOK, Phases
  <1>2. TypeOK /\ [Next]_vars => TypeOK'
    BY TypePreserved
  <1> QED
    BY <1>1, <1>2, PTL DEF Spec

\* The invariant of the search and of the requests, in every state.
LEMMA RestHolds == Spec => []Rest
  <1> USE ValidationAssumption
  <1>1. Init => Rest
    BY DEF Init, Rest, VerdictIsRight, AnswerMatchesTable, Fresh
  <1>2. TypeOK /\ Rest /\ [Next]_vars => Rest'
    BY RestPreserved
  <1> QED
    BY <1>1, <1>2, ValidationTypeCorrect, PTL DEF Spec

\* validate_dag accepts exactly the workflows that can run, whatever tasks
\* they list: the depth-first search finds every cycle and nothing else.
THEOREM ValidationIsRight == Spec => []VerdictIsRight
  <1>1. Rest => VerdictIsRight
    BY DEF Rest
  <1> QED
    BY <1>1, RestHolds, PTL

\* Whoever is told 201 finds the own workflow stored, whoever is told 409 has
\* lost to another one, and nothing that cannot run is ever stored.
THEOREM AnswersMatchTheTable == Spec => []AnswerMatchesTable
  <1>1. Rest => AnswerMatchesTable
    BY DEF Rest
  <1> QED
    BY <1>1, RestHolds, PTL
=============================================================================
