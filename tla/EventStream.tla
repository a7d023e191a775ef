---------------------------- MODULE EventStream -----------------------------
(***************************************************************************)
(* GET /runs/{id}/events: stream_events reads the run's rows of run_events *)
(* above a cursor, in the order of their ids, and sends them as            *)
(* server-sent events, while transactions of workers and of the API add    *)
(* rows.                                                                   *)
(*                                                                         *)
(* The database numbers a row when it is inserted, and readers see it when *)
(* its transaction commits; transactions that overlap may commit in        *)
(* another order than the one in which they inserted.                      *)
(***************************************************************************)
EXTENDS Naturals, Sequences, FiniteSets

CONSTANTS Writers,    \* transactions that emit events of the run
          MaxEmits,   \* bound on the events of one transaction
          MaxBreaks   \* bound on connections that break

ASSUME StreamAssumption ==
  /\ IsFiniteSet(Writers)
  /\ MaxEmits \in Nat \ {0}
  /\ MaxBreaks \in Nat

VARIABLES
  nextId,     \* the id of the next row inserted
  state,      \* per writer: new, open or over
  rows,       \* per writer: the ids of the rows it inserted
  committed,  \* the ids readers can see
  phase,      \* the handler: closed, querying or sending
  after,      \* the query parameter of the connection
  cursor,     \* cursor, and batch: the events read and not sent yet
  batch,
  wire,       \* sent and not received
  got,        \* what the client received over this connection
  seen,       \* what it received over all connections
  overtaken,  \* events invisible to a query whose answer went beyond them
  breaks

writerVars == <<nextId, state, rows, committed>>
vars == <<nextId, state, rows, committed, phase, after, cursor, batch, wire,
          got, seen, overtaken, breaks>>

-----------------------------------------------------------------------------

Ids == 1 .. (nextId - 1)

TypeOK ==
  /\ nextId \in Nat \ {0}
  /\ state \in [Writers -> {"new", "open", "over"}]
  /\ rows \in [Writers -> SUBSET Ids]
  /\ committed \subseteq Ids
  /\ phase \in {"closed", "querying", "sending"}
  /\ after \in {0} \cup Ids
  /\ cursor \in {0} \cup Ids
  /\ batch \subseteq Ids
  /\ wire \in Seq(Ids)
  /\ got \in Seq(Ids)
  /\ seen \subseteq Ids
  /\ overtaken \subseteq Ids
  /\ breaks \in 0 .. MaxBreaks

\* The last id the client knows of.
LastId == IF got = <<>> THEN after ELSE got[Len(got)]

Init ==
  /\ nextId = 1
  /\ state = [w \in Writers |-> "new"]
  /\ rows = [w \in Writers |-> {}]
  /\ committed = {}
  /\ phase = "closed"
  /\ after = 0
  /\ cursor = 0
  /\ batch = {}
  /\ wire = <<>>
  /\ got = <<>>
  /\ seen = {}
  /\ overtaken = {}
  /\ breaks = 0

-----------------------------------------------------------------------------
(* The writers                                                             *)

\* A flush of the session inserts an event that emit added to it.
Insert(w) ==
  /\ state[w] # "over"
  /\ Cardinality(rows[w]) < MaxEmits
  /\ rows' = [rows EXCEPT ![w] = @ \cup {nextId}]
  /\ nextId' = nextId + 1
  /\ state' = [state EXCEPT ![w] = "open"]
  /\ UNCHANGED <<committed, phase, after, cursor, batch, wire, got, seen,
                 overtaken, breaks>>

Commit(w) ==
  /\ state[w] = "open"
  /\ state' = [state EXCEPT ![w] = "over"]
  /\ committed' = committed \cup rows[w]
  /\ UNCHANGED <<nextId, rows, phase, after, cursor, batch, wire, got, seen,
                 overtaken, breaks>>

\* The process dies or the commit fails; the ids are not used again.
Rollback(w) ==
  /\ state[w] = "open"
  /\ state' = [state EXCEPT ![w] = "over"]
  /\ UNCHANGED <<nextId, rows, committed, phase, after, cursor, batch, wire,
                 got, seen, overtaken, breaks>>

-----------------------------------------------------------------------------
(* stream_events                                                           *)

\* The client connects, from the start (the browser's EventSource repeats
\* its URL) or from the last id it knows of.
Connect ==
  /\ phase = "closed"
  /\ phase' = "querying"
  /\ after' \in {0, LastId}
  /\ cursor' = after'
  /\ got' = <<>>
  /\ overtaken' = {i \in overtaken : i <= after'}
  /\ UNCHANGED <<writerVars, batch, wire, seen, breaks>>

\* WHERE id > cursor.
Selected == {i \in committed : i > cursor}

\* The session of one turn of the loop reads what is committed now.
Query ==
  /\ phase = "querying"
  /\ Selected # {}
  /\ phase' = "sending"
  /\ batch' = Selected
  /\ overtaken' = overtaken \cup
       {i \in Ids \ committed : i > cursor /\ \E j \in Selected : j > i}
  /\ UNCHANGED <<writerVars, after, cursor, wire, got, seen, breaks>>

\* A slip: the cursor is the highest id of the table.
CursorAtTop(e) == nextId - 1

\* ORDER BY id.
NextToSend(e) == e \in batch /\ \A i \in batch : e <= i

\* cursor = event.id
CursorAt(e) == e

\* One turn of the inner loop; after the last one the handler queries again.
Send ==
  /\ phase = "sending"
  /\ \E e \in batch :
       /\ NextToSend(e)
       /\ cursor' = CursorAt(e)
       /\ wire' = Append(wire, e)
       /\ batch' = batch \ {e}
  /\ phase' = IF batch' = {} THEN "querying" ELSE "sending"
  /\ UNCHANGED <<writerVars, after, got, seen, overtaken, breaks>>

Receive ==
  /\ wire # <<>>
  /\ wire' = Tail(wire)
  /\ got' = Append(got, Head(wire))
  /\ seen' = seen \cup {Head(wire)}
  /\ UNCHANGED <<writerVars, phase, after, cursor, batch, overtaken, breaks>>

\* The connection breaks or the handler raises: what is on the wire is lost.
Break ==
  /\ phase # "closed"
  /\ breaks < MaxBreaks
  /\ breaks' = breaks + 1
  /\ phase' = "closed"
  /\ batch' = {}
  /\ wire' = <<>>
  /\ UNCHANGED <<writerVars, after, cursor, got, seen, overtaken>>

-----------------------------------------------------------------------------

Next ==
  \/ \E w \in Writers : Insert(w) \/ Commit(w) \/ Rollback(w)
  \/ Connect \/ Query \/ Send \/ Receive \/ Break

Spec == Init /\ [][Next]_vars

\* The client reconnects, and the handler and the network make progress.
Fairness ==
  WF_vars(Connect) /\ WF_vars(Query) /\ WF_vars(Send) /\ WF_vars(Receive)

FairSpec == Spec /\ Fairness

-----------------------------------------------------------------------------
(* Properties                                                              *)

\* One connection delivers every event at most once and in the order of the
\* ids, beginning above what the client asked for.
InOrder ==
  /\ \A i, j \in DOMAIN got : i < j => got[i] < got[j]
  /\ \A i \in DOMAIN got : got[i] > after

\* A client that remembers an id has seen every earlier event, over this or
\* an earlier connection, except those that were not committed yet when a
\* query answered with later ones.
NoGap ==
  \A i \in committed : i <= LastId => i \in seen \cup overtaken

\* Every committed event reaches the client or was overtaken.
EventuallySeen ==
  \A n \in 1 .. (MaxEmits * Cardinality(Writers)) :
    n \in committed ~> n \in seen \cup overtaken
=============================================================================
