--------------------------- MODULE Clients_proofs ---------------------------
(***************************************************************************)
(* Theorems about what a client of the API is shown.                       *)
(*                                                                         *)
(* EventStream: its types, and that a connection is ordered and leaves no  *)
(* gap but by overtaking, for any number of writers, events and broken     *)
(* connections.                                                            *)
(*                                                                         *)
(* BrowserSession, as the instance Tab: its types, and that a session ends *)
(* for a reason of its own, for any number of sign-ins, reloads and        *)
(* refreshes under way.                                                    *)
(***************************************************************************)
EXTENDS EventStream, TLAPS

-----------------------------------------------------------------------------
(* The invariant                                                           *)

OnWire == {wire[i] : i \in DOMAIN wire}

\* What was received and what is on the wire is increasing, up to the cursor.
Stream ==
  /\ InOrder
  /\ \A i, j \in DOMAIN wire : i < j => wire[i] < wire[j]
  /\ \A i \in DOMAIN wire : LastId < wire[i] /\ wire[i] <= cursor
  /\ phase = "closed" => wire = <<>> /\ batch = {}
  /\ phase # "closed" => LastId <= cursor

\* Every id up to the cursor, of a committed row or not, has been seen, is on
\* the wire or was overtaken; and so will be those up to the ids of the batch.
Covered ==
  /\ \A i \in Ids : i <= LastId => i \in seen \cup overtaken
  /\ phase # "closed" =>
       \A i \in Ids : i <= cursor => i \in seen \cup overtaken \cup OnWire
  /\ \A j \in batch : j > cursor /\ \A i \in Ids :
       cursor < i /\ i < j => i \in batch \cup overtaken

Inv == TypeOK /\ Stream /\ Covered

-----------------------------------------------------------------------------
(* Sequences                                                               *)

\* What Append, Head and Tail do to positions.
LEMMA Appended ==
  ASSUME NEW S, NEW s \in Seq(S), NEW e \in S
  PROVE  /\ Append(s, e) \in Seq(S)
         /\ Append(s, e) # <<>>
         /\ DOMAIN s = 1 .. Len(s) /\ Len(s) \in Nat
         /\ DOMAIN Append(s, e) = 1 .. (Len(s) + 1)
         /\ Len(Append(s, e)) = Len(s) + 1
         /\ \A i \in 1 .. Len(s) : Append(s, e)[i] = s[i]
         /\ Append(s, e)[Len(s) + 1] = e
  OBVIOUS

LEMMA Rest ==
  ASSUME NEW S, NEW s \in Seq(S), s # <<>>
  PROVE  /\ Head(s) \in S /\ Head(s) = s[1]
         /\ Tail(s) \in Seq(S)
         /\ Len(s) \in Nat \ {0}
         /\ DOMAIN s = 1 .. Len(s)
         /\ DOMAIN Tail(s) = 1 .. (Len(s) - 1)
         /\ \A i \in 1 .. (Len(s) - 1) : Tail(s)[i] = s[i + 1]
  OBVIOUS

\* More ids make more sequences of ids.
LEMMA MoreIds ==
  ASSUME NEW m \in Nat, NEW n \in Nat, m <= n
  PROVE  /\ 1 .. m \subseteq 1 .. n
         /\ Seq(1 .. m) \subseteq Seq(1 .. n)
  <1>1. 1 .. m \subseteq 1 .. n
    OBVIOUS
  <1>2. ASSUME NEW s \in Seq(1 .. m)
        PROVE  s \in Seq(1 .. n)
    BY <1>1
  <1> QED
    BY <1>1, <1>2

LEMMA LastIdType == TypeOK => LastId \in {0} \cup Ids
  BY DEF TypeOK, LastId, Ids

-----------------------------------------------------------------------------
(* Types                                                                   *)

\* A row whose id is new widens the types; no other step changes them.
LEMMA InsertType ==
  ASSUME TypeOK, NEW w \in Writers, Insert(w)
  PROVE  /\ TypeOK'
         /\ nextId' = nextId + 1
         /\ UNCHANGED <<committed, phase, after, cursor, batch, wire, got,
                        seen, overtaken>>
  <1>1. nextId' = nextId + 1 /\ nextId' \in Nat \ {0}
    BY DEF Insert, TypeOK
  <1>2. Ids \subseteq Ids' /\ nextId \in Ids' /\ Seq(Ids) \subseteq Seq(Ids')
    BY <1>1, MoreIds DEF TypeOK, Ids
  <1>3. rows' \in [Writers -> SUBSET Ids']
    <2>1. /\ rows' = [rows EXCEPT ![w] = rows[w] \cup {nextId}]
          /\ rows \in [Writers -> SUBSET Ids]
      BY DEF Insert, TypeOK
    <2> QED
      BY <1>2, <2>1
  <1>4. state' \in [Writers -> {"new", "open", "over"}]
    BY DEF Insert, TypeOK
  <1>5. UNCHANGED <<committed, phase, after, cursor, batch, wire, got, seen,
                    overtaken, breaks>>
    BY DEF Insert
  <1> QED
    BY <1>1, <1>2, <1>3, <1>4, <1>5 DEF TypeOK

LEMMA TypePreserved == TypeOK /\ [Next]_vars => TypeOK'
<1> SUFFICES ASSUME TypeOK, [Next]_vars
             PROVE  TypeOK'
  OBVIOUS
<1>1. ASSUME NEW w \in Writers, Insert(w)
      PROVE  TypeOK'
  BY <1>1, InsertType
<1>2. ASSUME NEW w \in Writers, Commit(w) \/ Rollback(w)
      PROVE  TypeOK'
  BY <1>2 DEF Commit, Rollback, TypeOK, Ids
<1>3. CASE Connect
  <2>1. after' \in {0} \cup Ids /\ cursor' = after'
    BY <1>3, LastIdType DEF Connect
  <2>2. got' \in Seq(Ids) /\ overtaken' \subseteq Ids
    BY <1>3 DEF Connect, TypeOK
  <2> QED
    BY <1>3, <2>1, <2>2 DEF Connect, TypeOK, Ids, writerVars
<1>4. CASE Query
  BY <1>4 DEF Query, Selected, TypeOK, Ids, writerVars
<1>5. CASE Send
  <2>1. PICK e \in batch : /\ cursor' = e
                          /\ wire' = Append(wire, e)
                          /\ batch' = batch \ {e}
    BY <1>5 DEF Send, CursorAt
  <2>2. e \in Ids /\ wire' \in Seq(Ids)
    BY <2>1, Appended DEF TypeOK
  <2> QED
    BY <1>5, <2>1, <2>2 DEF Send, TypeOK, Ids, writerVars
<1>6. CASE Receive
  <2>1. /\ wire' \in Seq(Ids)
        /\ got' \in Seq(Ids)
        /\ Head(wire) \in Ids
    BY <1>6, Rest, Appended DEF Receive, TypeOK
  <2> QED
    BY <1>6, <2>1 DEF Receive, TypeOK, Ids, writerVars
<1>7. CASE Break
  <2>1. wire' \in Seq(Ids)
    BY <1>7 DEF Break
  <2> QED
    BY <1>7, <2>1, StreamAssumption DEF Break, TypeOK, Ids, writerVars
<1>8. CASE UNCHANGED vars
  BY <1>8 DEF vars, TypeOK, Ids
<1> QED
  BY <1>1, <1>2, <1>3, <1>4, <1>5, <1>6, <1>7, <1>8 DEF Next

-----------------------------------------------------------------------------
(* Order                                                                   *)

\* What the client has received ends with the last id it knows.
LEMMA UpToLastId ==
  ASSUME TypeOK, InOrder
  PROVE  /\ after \in Nat /\ cursor \in Nat /\ LastId \in Nat
         /\ after <= LastId
         /\ \A i \in DOMAIN got : got[i] \in Nat /\ got[i] <= LastId
         /\ \A i \in DOMAIN wire : wire[i] \in Nat
  <1>1. after \in Nat /\ cursor \in Nat /\ LastId \in Nat
    BY LastIdType DEF TypeOK, Ids
  <1>2. /\ \A i \in DOMAIN got : got[i] \in Nat
        /\ \A i \in DOMAIN wire : wire[i] \in Nat
    BY DEF TypeOK, Ids
  <1>3. CASE got = <<>>
    BY <1>1, <1>2, <1>3 DEF LastId
  <1>4. CASE got # <<>>
    <2>1. Len(got) \in DOMAIN got /\ \A i \in DOMAIN got : i <= Len(got)
      BY <1>4, Rest DEF TypeOK
    <2>2. LastId = got[Len(got)]
      BY <1>4 DEF LastId
    <2>3. after <= LastId
      BY <1>1, <2>1, <2>2 DEF InOrder
    <2>4. ASSUME NEW i \in DOMAIN got
          PROVE  got[i] <= LastId
      <3>1. CASE i = Len(got)
        BY <1>1, <2>2, <3>1
      <3>2. CASE i < Len(got)
        BY <1>1, <1>2, <2>1, <2>2, <3>2 DEF InOrder
      <3> QED
        BY <2>1, <3>1, <3>2 DEF TypeOK
    <2> QED
      BY <1>1, <1>2, <2>3, <2>4
  <1> QED
    BY <1>3, <1>4

LEMMA StreamPreserved ==
  ASSUME TypeOK, TypeOK', Stream, Covered, [Next]_vars
  PROVE  Stream'
<1>0. /\ after \in Nat /\ cursor \in Nat /\ LastId \in Nat
      /\ after <= LastId
      /\ \A i \in DOMAIN got : got[i] \in Nat /\ got[i] <= LastId
      /\ \A i \in DOMAIN wire : wire[i] \in Nat
  BY UpToLastId DEF Stream
<1>1. CASE UNCHANGED <<phase, after, cursor, batch, wire, got>>
  BY <1>1 DEF Stream, InOrder, LastId
<1>2. CASE Connect
  <2>1. wire' = <<>> /\ batch' = {} /\ got' = <<>> /\ cursor' = after'
        /\ phase' # "closed"
    BY <1>2 DEF Connect, Stream
  <2>2. LastId' = after' /\ after' \in Nat
    <3>1. after' \in {0, LastId}
      BY <1>2 DEF Connect
    <3>2. LastId' = after'
      BY <2>1 DEF LastId
    <3> QED
      BY <1>0, <3>1, <3>2
  <2>3. DOMAIN wire' = {} /\ DOMAIN got' = {}
    BY <2>1
  <2>4. InOrder'
    BY <2>3 DEF InOrder
  <2>5. LastId' <= cursor'
    BY <2>1, <2>2
  <2> QED
    BY <2>1, <2>3, <2>4, <2>5 DEF Stream
<1>3. CASE Query
  BY <1>3 DEF Query, Stream, InOrder, LastId
<1>4. CASE Send
  <2>1. PICK e \in batch : /\ cursor' = e
                          /\ wire' = Append(wire, e)
                          /\ batch' = batch \ {e}
    BY <1>4 DEF Send, CursorAt
  <2>2. /\ phase' # "closed" /\ phase # "closed"
        /\ got' = got /\ after' = after /\ LastId' = LastId
    BY <1>4 DEF Send, LastId
  <2>3. e \in Ids /\ e \in Nat /\ cursor < e
    BY <2>1 DEF Covered, TypeOK, Ids
  <2>4. /\ LastId <= cursor
        /\ \A i \in DOMAIN wire : LastId < wire[i] /\ wire[i] <= cursor
    BY <2>2 DEF Stream
  <2>5. wire \in Seq(Ids)
    BY DEF TypeOK
  <2>6. \A i, j \in DOMAIN wire' : i < j => wire'[i] < wire'[j]
    <3> SUFFICES ASSUME NEW i \in DOMAIN wire', NEW j \in DOMAIN wire', i < j
                 PROVE  wire'[i] < wire'[j]
      OBVIOUS
    <3>1. i \in DOMAIN wire /\ wire'[i] = wire[i]
      BY <2>1, <2>3, <2>5, Appended
    <3>2. CASE j \in DOMAIN wire
      <4>1. wire'[j] = wire[j]
        BY <2>1, <2>3, <2>5, <3>2, Appended
      <4> QED
        BY <3>1, <3>2, <4>1 DEF Stream
    <3>3. CASE j = Len(wire) + 1
      <4>1. wire'[j] = e
        BY <2>1, <2>3, <2>5, <3>3, Appended
      <4> QED
        BY <1>0, <2>3, <2>4, <3>1, <4>1
    <3> QED
      BY <2>1, <2>3, <2>5, <3>2, <3>3, Appended
  <2>7. \A i \in DOMAIN wire' : LastId' < wire'[i] /\ wire'[i] <= cursor'
    <3> SUFFICES ASSUME NEW i \in DOMAIN wire'
                 PROVE  LastId < wire'[i] /\ wire'[i] <= e
      BY <2>1, <2>2
    <3>1. CASE i \in DOMAIN wire
      <4>1. wire'[i] = wire[i]
        BY <2>1, <2>3, <2>5, <3>1, Appended
      <4> QED
        BY <1>0, <2>3, <2>4, <3>1, <4>1
    <3>2. CASE i = Len(wire) + 1
      <4>1. wire'[i] = e
        BY <2>1, <2>3, <2>5, <3>2, Appended
      <4> QED
        BY <1>0, <2>3, <2>4, <4>1
    <3> QED
      BY <2>1, <2>3, <2>5, <3>1, <3>2, Appended
  <2>8. LastId' <= cursor'
    BY <1>0, <2>1, <2>2, <2>3, <2>4
  <2> QED
    BY <2>2, <2>6, <2>7, <2>8 DEF Stream, InOrder
<1>5. CASE Receive
  <2> DEFINE e == Head(wire)
  <2>1. /\ wire # <<>> /\ wire \in Seq(Ids) /\ got \in Seq(Ids)
        /\ wire' = Tail(wire) /\ got' = Append(got, e)
        /\ UNCHANGED <<after, cursor, phase, batch>>
    BY <1>5 DEF Receive, TypeOK
  <2>2. /\ e = wire[1] /\ 1 \in DOMAIN wire /\ e \in Ids /\ e \in Nat
        /\ \A i \in DOMAIN wire' : /\ i + 1 \in DOMAIN wire
                                   /\ wire'[i] = wire[i + 1]
                                   /\ i \in Nat /\ 1 < i + 1
    <3>1. /\ e \in Ids /\ e = wire[1] /\ Len(wire) \in Nat \ {0}
          /\ DOMAIN wire = 1 .. Len(wire)
          /\ DOMAIN wire' = 1 .. (Len(wire) - 1)
          /\ \A i \in 1 .. (Len(wire) - 1) : wire'[i] = wire[i + 1]
      BY <2>1, Rest
    <3>2. e \in Nat /\ 1 \in DOMAIN wire
      BY <3>1 DEF Ids, TypeOK
    <3> HIDE DEF e
    <3> QED
      BY <3>1, <3>2
  <2>3. /\ phase # "closed"
        /\ LastId < e /\ e <= cursor
    BY <2>1, <2>2 DEF Stream
  <2>4. LastId' = e
    BY <2>1, <2>2, Appended DEF LastId
  <2>5. \A i \in DOMAIN got' : \/ i \in DOMAIN got /\ got'[i] = got[i]
                               \/ i = Len(got) + 1 /\ got'[i] = e
    BY <2>1, <2>2, Appended
  <2>6. InOrder'
    <3>1. ASSUME NEW i \in DOMAIN got'
          PROVE  got'[i] > after'
      BY <1>0, <2>1, <2>2, <2>3, <2>5 DEF Stream, InOrder
    <3>2. ASSUME NEW i \in DOMAIN got', NEW j \in DOMAIN got', i < j
          PROVE  got'[i] < got'[j]
      <4>1. DOMAIN got = 1 .. Len(got) /\ Len(got) \in Nat
        BY <2>1
      <4>2. CASE j \in DOMAIN got
        BY <2>5, <3>2, <4>1, <4>2 DEF Stream, InOrder
      <4>3. CASE j = Len(got) + 1
        <5>1. i \in DOMAIN got /\ got'[i] = got[i] /\ got'[j] = e
          BY <2>5, <3>2, <4>1, <4>3
        <5> QED
          BY <1>0, <2>2, <2>3, <5>1 DEF Stream
      <4> QED
        BY <2>5, <4>2, <4>3
    <3> QED
      BY <3>1, <3>2 DEF InOrder
  <2>7. \A i, j \in DOMAIN wire' : i < j => wire'[i] < wire'[j]
    BY <2>2 DEF Stream
  <2>8. \A i \in DOMAIN wire' : LastId' < wire'[i] /\ wire'[i] <= cursor'
    BY <2>1, <2>2, <2>4 DEF Stream
  <2> QED
    BY <2>1, <2>3, <2>4, <2>6, <2>7, <2>8 DEF Stream
<1>6. CASE Break
  BY <1>6 DEF Break, Stream, InOrder, LastId
<1> QED
  BY <1>1, <1>2, <1>3, <1>4, <1>5, <1>6
     DEF Next, Insert, Commit, Rollback, vars

-----------------------------------------------------------------------------
(* Coverage                                                                *)

LEMMA CoveredPreserved ==
  ASSUME TypeOK, TypeOK', Stream, Covered, [Next]_vars
  PROVE  Covered'
<1>0. /\ after \in Nat /\ cursor \in Nat /\ LastId \in Nat
      /\ \A i \in Ids : i \in Nat
      /\ batch \subseteq Ids
  <2>1. \A i \in Ids : i \in Nat
    BY DEF Ids
  <2>2. after \in {0} \cup Ids /\ cursor \in {0} \cup Ids /\ batch \subseteq Ids
    BY DEF TypeOK
  <2>3. LastId \in {0} \cup Ids
    BY LastIdType
  <2> QED
    BY <2>1, <2>2, <2>3
<1>1. ASSUME NEW w \in Writers, Insert(w)
      PROVE  Covered'
  <2>1. /\ nextId' = nextId + 1
        /\ UNCHANGED <<phase, after, cursor, batch, wire, got, seen, overtaken>>
    BY <1>1, InsertType
  <2>2. OnWire' = OnWire /\ LastId' = LastId
    BY <2>1 DEF OnWire, LastId
  <2>3. LastId < nextId /\ cursor < nextId /\ \A j \in batch : j < nextId
    <3>1. nextId \in Nat \ {0} /\ \A i \in Ids : i \in Nat /\ i < nextId
      BY DEF TypeOK, Ids
    <3>2. cursor \in {0} \cup Ids /\ batch \subseteq Ids
      BY DEF TypeOK
    <3>3. LastId \in {0} \cup Ids
      BY LastIdType
    <3> QED
      BY <3>1, <3>2, <3>3
  <2>4. \A i \in Ids' : i \in Ids \/ i = nextId
    BY <2>1 DEF Ids, TypeOK
  <2>5. /\ nextId \in Nat
        /\ \A j \in batch : j \in Nat
    BY <1>0 DEF TypeOK
  <2>6. \A i \in Ids' : i <= LastId => i \in Ids
    BY <1>0, <2>3, <2>4, <2>5
  <2>7. \A i \in Ids' : i <= cursor => i \in Ids
    BY <1>0, <2>3, <2>4, <2>5
  <2>8. \A i \in Ids', j \in batch : i < j => i \in Ids
    BY <2>3, <2>4, <2>5
  <2> QED
    BY <2>1, <2>2, <2>6, <2>7, <2>8 DEF Covered
<1>2. CASE UNCHANGED <<nextId, phase, after, cursor, batch, wire, got, seen,
                       overtaken>>
  BY <1>2 DEF Covered, Ids, LastId, OnWire
<1>3. CASE Connect
  <2>1. /\ nextId' = nextId /\ batch' = {} /\ got' = <<>> /\ cursor' = after'
        /\ seen' = seen /\ overtaken' = {i \in overtaken : i <= after'}
        /\ after' \in {0, LastId}
    BY <1>3 DEF Connect, Stream, writerVars
  <2>2. LastId' = after'
    BY <2>1 DEF LastId
  <2>3. ASSUME NEW i \in Ids, i <= after'
        PROVE  i \in seen \cup overtaken'
    <3>1. after' = LastId
      BY <2>1, <2>3 DEF Ids, TypeOK
    <3> QED
      BY <2>1, <2>3, <3>1 DEF Covered
  <2> QED
    BY <2>1, <2>2, <2>3 DEF Covered, Ids
<1>4. CASE Query
  <2>1. /\ UNCHANGED <<nextId, after, cursor, wire, got, seen>>
        /\ phase # "closed"
        /\ batch' = Selected
        /\ overtaken' = overtaken \cup
             {i \in Ids \ committed : i > cursor /\ \E j \in Selected : j > i}
    BY <1>4 DEF Query, writerVars
  <2>2. /\ Ids' = Ids /\ LastId' = LastId /\ OnWire' = OnWire
    BY <2>1 DEF Ids, LastId, OnWire
  <2>3. ASSUME NEW j \in batch'
        PROVE  j > cursor' /\ \A i \in Ids' :
                 cursor' < i /\ i < j => i \in batch' \cup overtaken'
    <3>1. j \in Selected /\ j > cursor
      BY <2>1, <2>3 DEF Selected
    <3>2. ASSUME NEW i \in Ids, cursor < i, i < j
          PROVE  i \in batch' \cup overtaken'
      <4>1. CASE i \in committed
        BY <1>0, <2>1, <3>2, <4>1 DEF Selected
      <4>2. CASE i \notin committed
        <5>1. j \in Nat /\ i \in Nat /\ i > cursor /\ j > i
          BY <1>0, <3>1, <3>2 DEF Selected, TypeOK
        <5> QED
          BY <2>1, <3>1, <4>2, <5>1
      <4> QED
        BY <4>1, <4>2
    <3> QED
      BY <2>1, <2>2, <3>1, <3>2
  <2> QED
    BY <2>1, <2>2, <2>3 DEF Covered
<1>5. CASE Send
  <2>1. PICK e \in batch : /\ NextToSend(e)
                          /\ cursor' = e
                          /\ wire' = Append(wire, e)
                          /\ batch' = batch \ {e}
    BY <1>5 DEF Send, CursorAt
  <2>2. /\ UNCHANGED <<nextId, after, got, seen, overtaken>>
        /\ phase # "closed"
    BY <1>5 DEF Send, writerVars
  <2>3. Ids' = Ids /\ LastId' = LastId
    BY <2>2 DEF Ids, LastId
  <2>4. e \in Ids /\ e \in Nat /\ cursor < e
    BY <1>0, <2>1 DEF Covered
  <2>5. OnWire \cup {e} \subseteq OnWire'
    <3>1. wire \in Seq(Ids)
      BY DEF TypeOK
    <3>2. Len(wire) \in Nat /\ DOMAIN wire' = 1 .. (Len(wire) + 1)
          /\ wire'[Len(wire) + 1] = e
          /\ \A i \in DOMAIN wire : i \in DOMAIN wire' /\ wire'[i] = wire[i]
      BY <2>1, <2>4, <3>1, Appended
    <3>3. Len(wire) + 1 \in DOMAIN wire'
      BY <3>2
    <3> QED
      BY <3>2, <3>3 DEF OnWire
  <2>6. ASSUME NEW i \in Ids, i <= e
        PROVE  i \in seen \cup overtaken \cup OnWire'
    <3>1. CASE i <= cursor
      BY <2>2, <2>5, <3>1 DEF Covered
    <3>2. CASE cursor < i /\ i < e
      BY <1>0, <2>1, <2>4, <3>2 DEF Covered, NextToSend
    <3>3. CASE i = e
      BY <2>5, <3>3
    <3> QED
      BY <1>0, <2>4, <2>6, <3>1, <3>2, <3>3
  <2>7. ASSUME NEW j \in batch'
        PROVE  j > e /\ \A i \in Ids : e < i /\ i < j => i \in batch' \cup overtaken
    <3>1. j \in batch /\ j # e /\ j \in Nat /\ j > e
      BY <1>0, <2>1, <2>4, <2>7 DEF NextToSend
    <3>2. ASSUME NEW i \in Ids, e < i, i < j
          PROVE  i \in batch' \cup overtaken
      <4>1. i \in batch \cup overtaken /\ i # e
        BY <1>0, <2>4, <3>1, <3>2 DEF Covered
      <4> QED
        BY <2>1, <4>1
    <3> QED
      BY <3>1, <3>2
  <2> QED
    BY <2>1, <2>2, <2>3, <2>6, <2>7 DEF Covered
<1>6. CASE Receive
  <2> DEFINE e == Head(wire)
  <2>1. /\ wire # <<>> /\ wire \in Seq(Ids) /\ got \in Seq(Ids)
        /\ wire' = Tail(wire) /\ got' = Append(got, e)
        /\ seen' = seen \cup {e}
        /\ UNCHANGED <<nextId, after, cursor, phase, batch, overtaken>>
    BY <1>6 DEF Receive, TypeOK, writerVars
  <2>2. /\ e = wire[1] /\ e \in Ids /\ e \in Nat /\ 1 \in DOMAIN wire
        /\ \A i \in DOMAIN wire : i # 1 => wire[i] \in OnWire'
    <3>1. /\ e \in Ids /\ e = wire[1] /\ Len(wire) \in Nat \ {0}
          /\ DOMAIN wire = 1 .. Len(wire)
          /\ DOMAIN wire' = 1 .. (Len(wire) - 1)
          /\ \A i \in 1 .. (Len(wire) - 1) : wire'[i] = wire[i + 1]
      BY <2>1, Rest
    <3>2. e \in Nat
      BY <1>0, <3>1
    <3> HIDE DEF e
    <3>3. ASSUME NEW i \in DOMAIN wire, i # 1
          PROVE  wire[i] \in OnWire'
      <4>1. i - 1 \in DOMAIN wire' /\ (i - 1) + 1 = i
        BY <3>1, <3>3
      <4>2. wire'[i - 1] = wire[i]
        BY <3>1, <4>1
      <4> QED
        BY <4>1, <4>2 DEF OnWire
    <3> QED
      BY <3>1, <3>2, <3>3
  <2>3. OnWire \subseteq OnWire' \cup {e}
    BY <2>2 DEF OnWire
  <2>4. LastId' = e /\ Ids' = Ids
    BY <2>1, <2>2, Appended DEF LastId, Ids
  <2>5. phase # "closed" /\ e <= cursor
    BY <2>1, <2>2 DEF Stream
  <2>6. ASSUME NEW i \in Ids, i <= cursor
        PROVE  i \in seen' \cup overtaken \cup OnWire'
    BY <2>1, <2>3, <2>5, <2>6 DEF Covered
  <2>7. ASSUME NEW i \in Ids, i <= e
        PROVE  i \in seen' \cup overtaken
    <3>1. i <= cursor
      BY <1>0, <2>2, <2>5, <2>7
    <3>2. CASE i \in OnWire
      <4>1. PICK n \in DOMAIN wire : i = wire[n]
        BY <3>2 DEF OnWire
      <4>2. n = 1
        <5>1. n \in Nat /\ n >= 1
          BY <2>1
        <5>2. 1 < n => e < i
          BY <2>2, <4>1 DEF Stream
        <5> QED
          BY <1>0, <2>2, <2>7, <5>1, <5>2
      <4> QED
        BY <2>1, <2>2, <4>1, <4>2
    <3> QED
      BY <2>1, <2>5, <3>1, <3>2 DEF Covered
  <2> QED
    BY <2>1, <2>4, <2>6, <2>7 DEF Covered
<1>7. CASE Break
  <2>1. /\ UNCHANGED <<nextId, after, got, seen, overtaken>>
        /\ phase' = "closed" /\ batch' = {}
    BY <1>7 DEF Break, writerVars
  <2>2. Ids' = Ids /\ LastId' = LastId
    BY <2>1 DEF Ids, LastId
  <2> QED
    BY <2>1, <2>2 DEF Covered
<1> QED
  BY <1>1, <1>2, <1>3, <1>4, <1>5, <1>6, <1>7
     DEF Next, Commit, Rollback, vars, writerVars

-----------------------------------------------------------------------------
(* The theorems                                                            *)

LEMMA InvHolds == Spec => []Inv
<1>1. Init => Inv
  <2> SUFFICES ASSUME Init
               PROVE  Inv
    OBVIOUS
  <2>1. TypeOK
    BY StreamAssumption DEF Init, TypeOK, Ids
  <2>2. LastId = 0 /\ DOMAIN got = {} /\ DOMAIN wire = {} /\ Ids = {}
    BY DEF Init, LastId, Ids
  <2>3. Stream
    BY <2>2 DEF Init, Stream, InOrder
  <2>4. Covered
    BY <2>2 DEF Init, Covered
  <2> QED
    BY <2>1, <2>3, <2>4 DEF Inv
<1>2. Inv /\ [Next]_vars => Inv'
  BY TypePreserved, StreamPreserved, CoveredPreserved DEF Inv
<1> QED
  BY <1>1, <1>2, PTL DEF Spec

\* Ids, rows, the batch and what travels keep their types: in particular
\* the cursor of a connection is always 0 or the id of a row.
THEOREM StreamTypeCorrect == Spec => []TypeOK
<1>1. Inv => TypeOK
  BY DEF Inv
<1> QED
  BY <1>1, InvHolds, PTL

\* A connection delivers in order and without repeats.
THEOREM StreamIsInOrder == Spec => []InOrder
<1>1. Inv => InOrder
  BY DEF Inv, Stream, Covered, TypeOK
<1> QED
  BY <1>1, InvHolds, PTL

\* A client that remembers an id has seen every earlier committed event, over
\* whatever connections, unless it was overtaken.
THEOREM StreamHasNoGap == Spec => []NoGap
<1>1. Inv => NoGap
  BY DEF Inv, Stream, Covered, NoGap, TypeOK
<1> QED
  BY <1>1, InvHolds, PTL

-----------------------------------------------------------------------------
(* The tab                                                                 *)

\* BrowserSession as it is, under constants and variables of the same names.
CONSTANTS Calls, MaxLogins, MaxReloads
VARIABLES token, issued, expired, authChecked, authenticated, shown, login, effect,
          effects, calls, dashboard, apiRuns, reloads

Tab == INSTANCE BrowserSession

\* The assumption that BrowserSession makes on its constants.
TabAssumption == MaxLogins \in Nat /\ MaxReloads \in Nat

\* 1 if an effect has yet to start: that of a sign-in, or of a reload which will
\* find a token.
Pending ==
  IF (authenticated /\ ~shown) \/ (~authChecked /\ token # 0) THEN 1 ELSE 0

\* What page.tsx has stored, believes and shows goes together.
PageTells ==
  /\ ~authChecked => ~authenticated /\ ~shown
  /\ authChecked => (authenticated <=> token # 0)
  /\ shown <=> effect # 0
  /\ login => authChecked /\ ~shown /\ ~authenticated

\* A refresh of the running effect has the token of the session that is open.
CallsAreOwn ==
  \A c \in Calls :
    /\ calls[c].effect <= effects
    /\ calls[c].effect = effect /\ effect # 0 /\ token # 0 => calls[c].token = token

\* Each effect was started by a sign-in or a reload of its own.
EffectsAreCaused == effect <= effects /\ effects + Pending <= issued + reloads

\* The inductive invariant, beside the types.
SessionInv == PageTells /\ CallsAreOwn /\ EffectsAreCaused

\* The types in two parts, for one prover each.
Flags ==
  /\ authChecked \in BOOLEAN /\ authenticated \in BOOLEAN
  /\ shown \in BOOLEAN /\ login \in BOOLEAN
Numbers ==
  /\ token \in 0 .. MaxLogins /\ issued \in 0 .. MaxLogins
  /\ expired \subseteq 0 .. MaxLogins
  /\ effect \in 0 .. MaxLogins + MaxReloads /\ effects \in 0 .. MaxLogins + MaxReloads
  /\ calls \in [Calls -> [effect : 0 .. MaxLogins + MaxReloads, token : 0 .. MaxLogins,
                          stage : Tab!Stages]]
  /\ dashboard \in 0 .. MaxLogins /\ apiRuns \in 0 .. MaxLogins
  /\ reloads \in 0 .. MaxReloads
TabTypes == Flags /\ Numbers

\* These are the types of the module.
LEMMA TabTypesMean == Tab!TypeOK <=> TabTypes
  BY DEF Tab!TypeOK, TabTypes, Flags, Numbers, Tab!Tokens, Tab!Effects

\* Every step of the page or of a refresh keeps types and strengthening.
LEMMA TabStep ==
  ASSUME TabAssumption, TabTypes, SessionInv, [Tab!Next]_(Tab!vars)
  PROVE  TabTypes' /\ SessionInv'
<1> USE DEF TabAssumption, TabTypes, Flags, Numbers, SessionInv, PageTells, CallsAreOwn,
            EffectsAreCaused, Pending, Tab!None, Tab!pageVars, Tab!dataVars
<1>1. CASE Tab!Restore
  <2>1. Flags' /\ SessionInv'
    BY <1>1 DEF Tab!Restore
  <2>2. Numbers'
    BY <1>1 DEF Tab!Restore
  <2> QED
    BY <2>1, <2>2
<1>2. CASE Tab!Render
  <2>1. Flags' /\ SessionInv'
    BY <1>2 DEF Tab!Render
  <2>2. Numbers'
    BY <1>2 DEF Tab!Render
  <2> QED
    BY <2>1, <2>2
<1>3. CASE Tab!Login
  <2>1. Flags' /\ SessionInv'
    BY <1>3 DEF Tab!Login
  <2>2. Numbers'
    BY <1>3 DEF Tab!Login
  <2> QED
    BY <2>1, <2>2
<1>4. CASE Tab!LoginAnswered
  <2>1. PageTells'
    BY <1>4 DEF Tab!LoginAnswered
  <2>2. Numbers'
    BY <1>4 DEF Tab!LoginAnswered
  <2>3. CallsAreOwn'
    BY <1>4 DEF Tab!LoginAnswered
  <2>4. EffectsAreCaused'
    BY <1>4 DEF Tab!LoginAnswered
  <2>5. Flags'
    BY <1>4 DEF Tab!LoginAnswered
  <2> QED
    BY <2>1, <2>2, <2>3, <2>4, <2>5
<1>5. CASE Tab!Logout
  <2>1. Flags' /\ SessionInv'
    BY <1>5 DEF Tab!Logout
  <2>2. Numbers'
    BY <1>5 DEF Tab!Logout
  <2> QED
    BY <2>1, <2>2
<1>6. CASE Tab!Reload
  <2>1. Flags' /\ PageTells'
    BY <1>6 DEF Tab!Reload
  <2>2. Numbers'
    BY <1>6 DEF Tab!Reload, Tab!NoCall, Tab!Stages
  <2>3. CallsAreOwn'
    BY <1>6 DEF Tab!Reload, Tab!NoCall
  <2>4. EffectsAreCaused'
    BY <1>6 DEF Tab!Reload
  <2> QED
    BY <2>1, <2>2, <2>3, <2>4
<1>7. ASSUME NEW c \in Calls, Tab!Refresh(c) PROVE TabTypes' /\ SessionInv'
  <2>1. Flags' /\ SessionInv'
    BY <1>7 DEF Tab!Refresh
  <2>2. Numbers'
    BY <1>7 DEF Tab!Refresh, Tab!Stages
  <2> QED
    BY <2>1, <2>2
<1>8. ASSUME NEW c \in Calls,
             Tab!Respond(c) \/ Tab!Accept(c) \/ Tab!SetDashboard(c) \/ Tab!SetApiRuns(c)
      PROVE  TabTypes' /\ SessionInv'
  BY <1>8 DEF Tab!Respond, Tab!Accept, Tab!SetDashboard, Tab!SetApiRuns, Tab!Goto,
              Tab!End, Tab!NoCall, Tab!Stages
<1>9. ASSUME NEW c \in Calls, Tab!Catch(c) PROVE TabTypes' /\ SessionInv'
  <2>1. Flags' /\ PageTells'
    BY <1>9 DEF Tab!Catch, Tab!EndSession, Tab!Active
  <2>2. Numbers'
    BY <1>9 DEF Tab!Catch, Tab!End, Tab!EndSession, Tab!NoCall, Tab!Stages
  <2>3. CallsAreOwn'
    BY <1>9 DEF Tab!Catch, Tab!End, Tab!EndSession, Tab!NoCall
  <2>4. EffectsAreCaused'
    BY <1>9 DEF Tab!Catch, Tab!End, Tab!EndSession, Tab!Active, Tab!NoCall
  <2> QED
    BY <2>1, <2>2, <2>3, <2>4
<1>10. ASSUME NEW k \in Tab!Tokens, Tab!Expire(k) PROVE TabTypes' /\ SessionInv'
  BY <1>10 DEF Tab!Expire, Tab!Tokens
<1>11. CASE UNCHANGED Tab!vars
  BY <1>11 DEF Tab!vars
<1> QED
  BY <1>1, <1>2, <1>3, <1>4, <1>5, <1>6, <1>7, <1>8, <1>9, <1>10, <1>11
     DEF Tab!Next, Tab!Work

\* Types and strengthening together: the latter bounds the number of effects.
LEMMA SessionInvariant ==
  ASSUME TabAssumption PROVE Tab!Spec => [](Tab!TypeOK /\ SessionInv)
<1>1. Tab!Init => TabTypes /\ SessionInv
  <2> SUFFICES ASSUME Tab!Init PROVE TabTypes /\ SessionInv
    OBVIOUS
  <2>1. Flags /\ PageTells
    BY DEF Tab!Init, Flags, PageTells, Tab!None
  <2>2. Numbers /\ CallsAreOwn
    BY DEF TabAssumption, Tab!Init, Numbers, CallsAreOwn, Tab!None, Tab!Stages, Tab!NoCall
  <2>3. EffectsAreCaused
    BY DEF Tab!Init, EffectsAreCaused, Pending, Tab!None
  <2> QED
    BY <2>1, <2>2, <2>3 DEF TabTypes, SessionInv
<1>2. TabTypes /\ SessionInv /\ [Tab!Next]_(Tab!vars) => TabTypes' /\ SessionInv'
  BY TabStep
<1> QED
  BY <1>1, <1>2, TabTypesMean, PTL DEF Tab!Spec

\* TypeOK: page.tsx, its refreshes and the tokens keep their types, and a page
\* starts no more effects than it has sign-ins and reloads.
THEOREM SessionTypeCorrect == ASSUME TabAssumption PROVE Tab!Spec => []Tab!TypeOK
  BY SessionInvariant, PTL

\* OnlyItsOwnCallsEndASession: the catch clause of refresh ends a session only on
\* account of a call that was sent with its token.
THEOREM SessionsEndForAReason ==
  ASSUME TabAssumption PROVE Tab!Spec => Tab!OnlyItsOwnCallsEndASession
<1>1. Tab!TypeOK /\ SessionInv /\ [Tab!Next]_(Tab!vars)
        => [token # 0 /\ token' # token =>
              \/ Tab!Logout
              \/ \E c \in Calls :
                   calls[c].token = token /\ Tab!At(c, "failed") /\ Tab!Catch(c)]_(Tab!vars)
  <2> SUFFICES ASSUME Tab!TypeOK, SessionInv, Tab!Next, token # 0, token' # token
               PROVE  \/ Tab!Logout
                      \/ \E c \in Calls : /\ calls[c].token = token
                                          /\ Tab!At(c, "failed") /\ Tab!Catch(c)
    OBVIOUS
  <2>1. Tab!Logout \/ \E c \in Calls : Tab!Catch(c) /\ Tab!Active(c)
    BY DEF SessionInv, PageTells, Tab!Next, Tab!Restore, Tab!Render, Tab!Login,
           Tab!LoginAnswered, Tab!Reload, Tab!Refresh, Tab!Work, Tab!Respond,
           Tab!Accept, Tab!SetDashboard, Tab!SetApiRuns, Tab!Catch, Tab!Expire
  <2> QED
    BY <2>1 DEF SessionInv, CallsAreOwn, Tab!Active, Tab!Catch, Tab!None
<1> QED
  BY <1>1, SessionInvariant, PTL DEF Tab!Spec, Tab!OnlyItsOwnCallsEndASession, Tab!None
=============================================================================
