-------------------------- MODULE Accounts_proofs ---------------------------
(***************************************************************************)
(* Theorems about Accounts, for any number of API processes, workers and   *)
(* requests, and any bounds on failures and sign-ins.                       *)
(***************************************************************************)
EXTENDS Accounts, TLAPS

-----------------------------------------------------------------------------
(* What a step does to the table                                           *)

\* The three ways the table of users changes: not at all, by a row for an
\* address that has none, by taking rights from one row.
Inserts(id, email) ==
  /\ Rows(email) = {}
  /\ \E u \in User : /\ u.id = id /\ u.email = email
                     /\ users' = users \cup {u}

Demotes(u) ==
  \E v \in User :
    /\ v.id = u.id /\ v.email = u.email
    /\ v.active => u.active
    /\ v.role = "viewer" \/ v.role = u.role
    /\ users' = (users \ {u}) \cup {v}

\* InsertAdmin adds the first administrator or nobody.
LEMMA InsertAdminAdds ==
  ASSUME NEW p \in Apis, InsertAdmin(p)
  PROVE  \/ Inserts(p, Root) /\ phase[p] = "missing"
         \/ UNCHANGED users /\ Rows(Root) # {}
  BY AccountsAssumption
     DEF InsertAdmin, Insert, Inserts, Unique, User, UserRole, UserId

\* InsertUser adds an account for the address asked for, or nothing.
LEMMA InsertUserAdds ==
  ASSUME TypeOK, NEW r \in Requests, InsertUser(r)
  PROVE  \/ Inserts(r, call[r].email) /\ at'[r] = "inserted"
         \/ /\ UNCHANGED users /\ Rows(call[r].email) # {}
            /\ at'[r] = "error"
<1>1. call[r] \in Bodies /\ at[r] = "absent"
  BY DEF InsertUser, TypeOK, CallOK, Adding
<1>2. call[r].email \in Emails /\ call[r].role \in UserRole
  BY <1>1, AccountsAssumption DEF UserRole
<1> QED
  BY <1>1, <1>2
     DEF InsertUser, Insert, Inserts, Unique, User, UserId, Answer, TypeOK

\* An operator's demotion takes one row's rights away.
LEMMA DemoteTakes ==
  ASSUME TypeOK, NEW u \in users, Demote(u)
  PROVE  Demotes(u)
<1>1. u \in User
  BY DEF TypeOK
<1>2. /\ [u EXCEPT !.active = FALSE] \in User
      /\ [u EXCEPT !.role = "viewer"] \in User
  BY <1>1 DEF User, UserRole
<1>3. CASE users' = (users \ {u}) \cup {[u EXCEPT !.active = FALSE]}
  BY <1>1, <1>2, <1>3 DEF Demotes, User
<1>4. CASE users' = (users \ {u}) \cup {[u EXCEPT !.role = "viewer"]}
  BY <1>1, <1>2, <1>4 DEF Demotes, User
<1> QED
  BY <1>3, <1>4 DEF Demote

-----------------------------------------------------------------------------
(* Type correctness                                                        *)

\* Moving a request on keeps its type when the new position fits what is
\* left of the call.
LEMMA AnswerType ==
  ASSUME TypeOK, NEW r \in Requests, NEW what, Answer(r, what),
         \/ what \in {"new", "served"}
         \/ what = "adding" /\ at[r] = "sent"
         \/ what \in Adding /\ at[r] \in Adding
  PROVE  /\ at' \in [Requests -> Granted \cup {"new", "sent"}]
         /\ call' \in [Requests -> Call \cup Bodies \cup {NoCall}]
         /\ \A q \in Requests : CallOK(at'[q], call'[q])
         /\ lost' \subseteq Requests
<1>1. /\ at' = [at EXCEPT ![r] = what]
      /\ what \in Granted \cup {"new"}
  BY DEF Answer, Granted, Adding
<1>2. ASSUME at[r] = "sent" PROVE call[r].body \in Bodies
  <2>1. CallOK(at[r], call[r])
    BY DEF TypeOK
  <2>2. call[r] \in Call
    BY <1>2, <2>1 DEF CallOK, Adding
  <2> QED
    BY <2>2 DEF Call
<1>3. at[r] \in Adding => call[r] \in Bodies
  BY DEF TypeOK, CallOK, Adding
<1>4. call'[r] \in IF what \in Adding THEN Bodies ELSE {NoCall}
  BY <1>2, <1>3 DEF Answer, TypeOK, Adding
<1>5. /\ call' \in [Requests -> Call \cup Bodies \cup {NoCall}]
      /\ \A q \in Requests \ {r} : call'[q] = call[q] /\ at'[q] = at[q]
  BY <1>4 DEF Answer, TypeOK
<1>6. \A q \in Requests : CallOK(at'[q], call'[q])
  <2>1. CallOK(at'[r], call'[r])
    <3>1. at'[r] = what /\ what # "sent"
      BY <1>1 DEF TypeOK, Granted, Adding
    <3> QED
      BY <1>4, <3>1 DEF CallOK
  <2> QED
    BY <1>5, <2>1 DEF TypeOK
<1> QED
  BY <1>1, <1>5, <1>6 DEF Answer, TypeOK

\* Requests that are forgotten are as good as new.
LEMMA ForgetType ==
  ASSUME TypeOK, NEW forgotten \in SUBSET Requests, Forget(forgotten)
  PROVE  /\ at' \in [Requests -> Granted \cup {"new", "sent"}]
         /\ call' \in [Requests -> Call \cup Bodies \cup {NoCall}]
         /\ \A r \in Requests : CallOK(at'[r], call'[r])
         /\ lost' \subseteq Requests
<1>1. /\ at' \in [Requests -> Granted \cup {"new", "sent"}]
      /\ call' \in [Requests -> Call \cup Bodies \cup {NoCall}]
      /\ lost' \subseteq Requests
  BY DEF Forget, TypeOK
<1>2. \A r \in Requests : CallOK(at'[r], call'[r])
  BY DEF Forget, TypeOK, CallOK, Adding
<1> QED
  BY <1>1, <1>2

\* Every step keeps the types.
LEMMA TypeStep == TypeOK /\ [Next]_vars => TypeOK'
<1> SUFFICES ASSUME TypeOK, [Next]_vars PROVE TypeOK'
  OBVIOUS
<1>1. ASSUME NEW p \in Processes, Start(p) PROVE TypeOK'
  <2>1. users' \subseteq User
    <3>1. CASE InsertAdmin(p) /\ p \in Apis
      BY <3>1, InsertAdminAdds DEF Inserts, TypeOK
    <3>2. CASE UNCHANGED users
      BY <3>2 DEF TypeOK
    <3> QED
      BY <1>1, <3>1, <3>2
         DEF Start, LookForTables, CreateTables, LookForAdmin, InsertAdmin, TypeOK,
             Processes, accounts
  <2>2. /\ tables' \in BOOLEAN
        /\ phase' \in [Processes -> {"down", "creating", "created", "missing", "up"}]
        /\ \A w \in Workers : phase'[w] \notin {"created", "missing"}
        /\ UNCHANGED <<tokens, requests, signIns, failures>>
    BY <1>1 DEF Start, LookForTables, CreateTables, LookForAdmin, InsertAdmin,
                Goto, Ready, TypeOK, Processes, accounts
  <2> QED
    BY <2>1, <2>2 DEF TypeOK, requests
<1>2. ASSUME NEW a \in Apis, Crash(a) PROVE TypeOK'
  <2>1. /\ UNCHANGED <<accounts, tokens, signIns>>
        /\ failures' \in 0 .. MaxFailures
        /\ phase' \in [Processes -> {"down", "creating", "created", "missing", "up"}]
        /\ \A w \in Workers : phase'[w] \notin {"created", "missing"}
    BY <1>2, AccountsAssumption DEF Crash, Goto, TypeOK, Processes
  <2>2. \E served \in SUBSET Requests : Forget(served)
    BY <1>2 DEF Crash
  <2> QED
    BY <2>1, <2>2, ForgetType DEF TypeOK, accounts
<1>3. ASSUME NEW u \in users, SignIn(u) PROVE TypeOK'
  <2>1. Claims(u, "access") \in Token /\ Claims(u, "refresh") \in Token
    BY DEF Claims, Token, TypeOK, User
  <2> QED
    BY <1>3, <2>1, AccountsAssumption DEF SignIn, TypeOK, accounts, requests
<1>4. ASSUME NEW u \in users, Demote(u) PROVE TypeOK'
  BY <1>4, DemoteTakes DEF Demotes, Demote, TypeOK, requests
<1>5. ASSUME NEW t \in tokens, Renew(t) PROVE TypeOK'
  <2>1. \A u \in Holder(t) : Claims(u, "access") \in Token
    BY DEF Holder, Claims, Token, TypeOK, User
  <2> QED
    BY <1>5, <2>1 DEF Renew, TypeOK, accounts, requests
<1>6. ASSUME NEW type, Expire(type) PROVE TypeOK'
  BY <1>6 DEF Expire, TypeOK, accounts, requests
<1>7. ASSUME NEW r \in Requests, Send(r) PROVE TypeOK'
  <2>1. /\ UNCHANGED <<accounts, phase, tokens, lost, signIns, failures>>
        /\ at' = [at EXCEPT ![r] = "sent"]
        /\ \E c \in Call : call' = [call EXCEPT ![r] = c]
    BY <1>7 DEF Send, Call, Entitled, TypeOK
  <2> QED
    BY <2>1 DEF TypeOK, CallOK, accounts, Adding
<1>8. ASSUME NEW r \in Requests, Serve(r) PROVE TypeOK'
  <2>1. PICK what : /\ Answer(r, what)
                    /\ \/ what \in {"new", "served"}
                       \/ what = "adding" /\ at[r] = "sent"
                       \/ what \in Adding /\ at[r] \in Adding
    BY <1>8 DEF Serve, Authorize, LookForUser, InsertUser, AnswerUser, Adding
  <2>2. users' \subseteq User
    BY <1>8, InsertUserAdds
       DEF Serve, Authorize, LookForUser, AnswerUser, Inserts, TypeOK, accounts
  <2>3. UNCHANGED <<tables, phase, tokens, signIns, failures>>
    BY <1>8 DEF Serve, Authorize, LookForUser, InsertUser, AnswerUser, accounts
  <2> QED
    BY <2>1, <2>2, <2>3, AnswerType DEF TypeOK
<1>9. ASSUME NEW r \in Requests, AnswerLost(r) PROVE TypeOK'
  BY <1>9, ForgetType, AccountsAssumption DEF AnswerLost, TypeOK, accounts
<1>10. CASE UNCHANGED vars
  BY <1>10 DEF vars, accounts, requests, TypeOK
<1> QED
  BY <1>1, <1>2, <1>3, <1>4, <1>5, <1>6, <1>7, <1>8, <1>9, <1>10 DEF Next

\* Accounts, processes, tokens and requests keep their types.
THEOREM AccountsTypeCorrect == Spec => []TypeOK
<1>1. Init => TypeOK
  <2> SUFFICES ASSUME Init PROVE TypeOK
    OBVIOUS
  <2>1. \A r \in Requests : at[r] = "new" /\ call[r] = NoCall
    BY DEF Init
  <2>2. \A r \in Requests : CallOK(at[r], call[r])
    BY <2>1 DEF CallOK, Adding
  <2>3. /\ at \in [Requests -> Granted \cup {"new", "sent"}]
        /\ call \in [Requests -> Call \cup Bodies \cup {NoCall}]
    BY DEF Init
  <2>4. /\ phase \in [Processes -> {"down", "creating", "created", "missing", "up"}]
        /\ \A w \in Workers : phase[w] \notin {"created", "missing"}
    BY DEF Init, Processes
  <2>5. signIns \in 0 .. MaxSignIns /\ failures \in 0 .. MaxFailures
    BY AccountsAssumption DEF Init
  <2> QED
    BY <2>2, <2>3, <2>4, <2>5 DEF Init, TypeOK
<1> QED
  BY <1>1, TypeStep, PTL DEF Spec

-----------------------------------------------------------------------------
(* What a step does to one request                                         *)

\* A request stays where it is, is forgotten, or makes one of the steps of
\* the endpoint; only one of them changes the table.  A forgotten request
\* leaves a trace if its account had been added.
Moves(r) ==
  /\ lost \subseteq lost'
  /\ \/ at'[r] = at[r] /\ call'[r] = call[r]
     \/ at[r] \in Open /\ at'[r] = "new" /\ (at[r] = "inserted" => r \in lost')
     \/ /\ at[r] = "new" /\ at'[r] = "sent" /\ users' = users
        /\ \E t \in tokens, roles \in RoleLists, body \in Bodies :
             /\ \A u \in users : u.id = r => u.email = body.email
             /\ call'[r] = [token |-> t, roles |-> roles, body |-> body,
                            entitled |-> Entitled(t, roles)]
     \/ /\ at[r] = "sent" /\ at'[r] \in {"adding", "served"} /\ users' = users
        /\ at'[r] = "adding" => call'[r] = call[r].body
        /\ Permitted(call[r].token, call[r].roles)
     \/ /\ at[r] = "adding" /\ at'[r] = "absent"
        /\ call'[r] = call[r] /\ Rows(call[r].email) = {} /\ users' = users
     \/ /\ at[r] = "adding" /\ at'[r] = "exists"
        /\ call'[r] = call[r] /\ Rows(call[r].email) # {} /\ users' = users
     \/ /\ at[r] = "absent" /\ at'[r] = "error"
        /\ call'[r] = call[r] /\ Rows(call[r].email) # {} /\ users' = users
     \/ /\ at[r] = "absent" /\ at'[r] = "inserted" /\ call'[r] = call[r]
        /\ Inserts(r, call[r].email)
     \/ /\ at[r] = "inserted" /\ at'[r] = "created"
        /\ call'[r] = call[r] /\ users' = users

\* Answering one request leaves the others alone.
LEMMA AnswerMoves ==
  ASSUME TypeOK, NEW r \in Requests, NEW what, Answer(r, what)
  PROVE  /\ at'[r] = what /\ lost' = lost
         /\ what \in Adding /\ at[r] # "sent" => call'[r] = call[r]
         /\ what \in Adding /\ at[r] = "sent" => call'[r] = call[r].body
         /\ \A q \in Requests \ {r} : at'[q] = at[q] /\ call'[q] = call[q]
  BY DEF Answer, TypeOK

\* So does losing requests.
LEMMA ForgetMoves ==
  ASSUME TypeOK, NEW forgotten \in SUBSET {r \in Requests : at[r] \in Open},
         Forget(forgotten), NEW q \in Requests
  PROVE  Moves(q)
<1>1. lost \subseteq lost' /\ (q \in forgotten => at[q] \in Open)
  BY DEF Forget
<1>2. CASE q \in forgotten
  <2>1. at'[q] = "new" /\ (at[q] = "inserted" => q \in lost')
    BY <1>2 DEF Forget
  <2> QED
    BY <1>1, <1>2, <2>1 DEF Moves
<1>3. CASE q \notin forgotten
  <2>1. at'[q] = at[q] /\ call'[q] = call[q]
    BY <1>3 DEF Forget
  <2> QED
    BY <1>1, <2>1 DEF Moves
<1> QED
  BY <1>2, <1>3

\* Every step moves each request in one of these ways.
LEMMA RequestsMove ==
  ASSUME TypeOK, [Next]_vars, NEW q \in Requests
  PROVE  Moves(q)
<1>1. CASE UNCHANGED requests
  BY <1>1 DEF requests, Moves
<1>2. ASSUME NEW a \in Apis, Crash(a) PROVE Moves(q)
  BY <1>2, ForgetMoves DEF Crash
<1>3. ASSUME NEW r \in Requests, Send(r) PROVE Moves(q)
  <2>1. /\ users' = users /\ lost' = lost
        /\ at[r] = "new" /\ at' = [at EXCEPT ![r] = "sent"]
    BY <1>3 DEF Send, accounts
  <2>2. PICK t \in tokens, roles \in RoleLists, body \in Bodies :
          /\ \A u \in users : u.id = r => u.email = body.email
          /\ call' = [call EXCEPT ![r] = [token |-> t, roles |-> roles, body |-> body,
                                          entitled |-> Entitled(t, roles)]]
    BY <1>3 DEF Send
  <2>3. CASE q = r
    <3>1. /\ at'[q] = "sent"
          /\ call'[q] = [token |-> t, roles |-> roles, body |-> body,
                         entitled |-> Entitled(t, roles)]
      BY <2>1, <2>2, <2>3 DEF TypeOK
    <3> QED
      BY <2>1, <2>2, <2>3, <3>1 DEF Moves
  <2>4. CASE q # r
    BY <2>1, <2>2, <2>4 DEF Moves, TypeOK
  <2> QED
    BY <2>3, <2>4
<1>4. ASSUME NEW r \in Requests, Serve(r) PROVE Moves(q)
  <2>1. CASE q # r
    <3>1. \E what : Answer(r, what)
      BY <1>4 DEF Serve, Authorize, LookForUser, InsertUser, AnswerUser
    <3> QED
      BY <2>1, <3>1, AnswerMoves DEF Moves
  <2>2. CASE q = r
    <3>1. CASE Authorize(r)
      <4>1. at[r] = "sent" /\ users' = users
        BY <3>1 DEF Authorize, accounts
      <4>2. \/ Answer(r, "new")
            \/ /\ Answer(r, "adding") \/ Answer(r, "served")
               /\ Permitted(call[r].token, call[r].roles)
        BY <3>1 DEF Authorize
      <4> QED
        BY <2>2, <4>1, <4>2, AnswerMoves DEF Moves, Open, Adding
    <3>2. CASE LookForUser(r)
      <4>1. at[r] = "adding" /\ users' = users
        BY <3>2 DEF LookForUser, accounts
      <4>2. \/ Answer(r, "exists") /\ Rows(call[r].email) # {}
            \/ Answer(r, "absent") /\ Rows(call[r].email) = {}
        BY <3>2 DEF LookForUser
      <4> QED
        BY <2>2, <4>1, <4>2, AnswerMoves DEF Moves, Adding
    <3>3. CASE InsertUser(r)
      <4>1. at[r] = "absent" /\ (Answer(r, "inserted") \/ Answer(r, "error"))
        BY <3>3 DEF InsertUser
      <4>2. call'[r] = call[r] /\ lost' = lost
        BY <4>1, AnswerMoves DEF Adding
      <4>3. \/ at'[r] = "inserted" /\ Inserts(r, call[r].email)
            \/ at'[r] = "error" /\ Rows(call[r].email) # {} /\ users' = users
        BY <3>3, InsertUserAdds
      <4> QED
        BY <2>2, <4>1, <4>2, <4>3 DEF Moves
    <3>4. CASE AnswerUser(r)
      <4>1. at[r] = "inserted" /\ Answer(r, "created") /\ users' = users
        BY <3>4 DEF AnswerUser, accounts
      <4> QED
        BY <2>2, <4>1, AnswerMoves DEF Moves, Adding
    <3> QED
      BY <1>4, <3>1, <3>2, <3>3, <3>4 DEF Serve
  <2> QED
    BY <2>1, <2>2
<1>5. ASSUME NEW p \in Processes, Start(p) PROVE UNCHANGED requests
  BY <1>5 DEF Start, LookForTables, CreateTables, LookForAdmin, InsertAdmin
<1>6. ASSUME NEW u \in users, SignIn(u) \/ Demote(u) PROVE UNCHANGED requests
  BY <1>6 DEF SignIn, Demote
<1>7. ASSUME NEW t \in tokens, Renew(t) PROVE UNCHANGED requests
  BY <1>7 DEF Renew
<1>8. ASSUME NEW type, Expire(type) PROVE UNCHANGED requests
  BY <1>8 DEF Expire
<1>9. ASSUME NEW r \in Requests, AnswerLost(r) PROVE Moves(q)
  BY <1>9, ForgetMoves DEF AnswerLost, Open
<1>10. UNCHANGED vars => UNCHANGED requests
  BY DEF vars
<1> QED
  BY <1>1, <1>2, <1>3, <1>4, <1>5, <1>6, <1>7, <1>8, <1>9, <1>10 DEF Next

-----------------------------------------------------------------------------
(* The inductive invariant                                                 *)

\* An id tells where its row comes from: a request that has not been told so
\* does not have a row unless it lost the answer.
IdsTell ==
  \A u \in users :
    /\ u.id \in Requests => at[u.id] \in {"inserted", "created"} \/ u.id \in lost
    /\ u.id \in Apis => u.email = Root

\* A request that has a row asks for that row's address, so it finds the row
\* when it looks and does not come to insert another.
OwnAddress ==
  \A u \in users, r \in Requests :
    u.id = r => /\ at[r] = "sent" => u.email = call[r].body.email
                /\ at[r] \in Adding => u.email = call[r].email
                /\ at[r] # "absent"

\* What was added is in the table until it is answered.
InsertedIsThere ==
  \A r \in Requests : at[r] = "inserted" => \E u \in users : u.id = r

\* No token, and no call that waits for its check, is of a user who is yet
\* to come.
TokensHaveUsers == \A t \in tokens : \E u \in users : u.id = t.sub

CallsHaveUsers ==
  \A r \in Requests :
    at[r] = "sent" => \E u \in users : u.id = call[r].token.sub

\* A call that would be let in was entitled when it was sent: rights shrink.
Admits(r) == Entitled(call[r].token, call[r].roles)

RightsShrink ==
  \A r \in Requests : at[r] = "sent" /\ Admits(r) => call[r].entitled

AccountsInv ==
  /\ OneAccountEach
  /\ UserAnswersAgree
  /\ IdsTell
  /\ OwnAddress
  /\ InsertedIsThere
  /\ TokensHaveUsers
  /\ CallsHaveUsers
  /\ RightsShrink

\* The row of an id and an address that no row has yet.
Adds(id, email) ==
  /\ Inserts(id, email)
  /\ \A u \in users : u.id # id
  /\ id \in Requests => at'[id] = "inserted" /\ email = call'[id].email
  /\ id \in Apis => email = Root

\* The table as a whole changes in these ways only.
TableStep ==
  \/ UNCHANGED users
  \/ \E id, email : Adds(id, email)
  \/ \E u \in users : Demotes(u)

\* Every step is a step of the table.
LEMMA TableSteps ==
  ASSUME TypeOK, AccountsInv, [Next]_vars
  PROVE  TableStep
<1>1. ASSUME NEW p \in Processes, Start(p) PROVE TableStep
  <2>1. CASE InsertAdmin(p) /\ p \in Apis
    <3>1. ASSUME Inserts(p, Root) PROVE Adds(p, Root)
      BY <2>1, <3>1, AccountsAssumption
         DEF Adds, Inserts, Rows, AccountsInv, IdsTell
    <3> QED
      BY <2>1, <3>1, InsertAdminAdds DEF TableStep
  <2>2. CASE UNCHANGED users
    BY <2>2 DEF TableStep
  <2> QED
    BY <1>1, <2>1, <2>2
       DEF Start, LookForTables, CreateTables, LookForAdmin, InsertAdmin, TypeOK,
           Processes, accounts
<1>2. ASSUME NEW r \in Requests, Serve(r) PROVE TableStep
  <2>1. CASE InsertUser(r)
    <3>1. at[r] = "absent"
      BY <2>1 DEF InsertUser
    <3>2. ASSUME Inserts(r, call[r].email), at'[r] = "inserted"
          PROVE  Adds(r, call[r].email)
      <4>1. call'[r] = call[r]
        BY <3>1, <3>2, RequestsMove DEF Moves
      <4> QED
        BY <3>1, <3>2, <4>1, AccountsAssumption DEF Adds, AccountsInv, OwnAddress
    <3> QED
      BY <2>1, <3>2, InsertUserAdds DEF TableStep
  <2>2. CASE UNCHANGED users
    BY <2>2 DEF TableStep
  <2> QED
    BY <1>2, <2>1, <2>2 DEF Serve, Authorize, LookForUser, AnswerUser, accounts
<1>3. ASSUME NEW u \in users, Demote(u) PROVE TableStep
  BY <1>3, DemoteTakes DEF TableStep
<1>4. CASE UNCHANGED users
  BY <1>4 DEF TableStep
<1> QED
  BY <1>1, <1>2, <1>3, <1>4
     DEF Next, Crash, SignIn, Renew, Expire, Send, AnswerLost, vars, accounts

\* A row keeps its id and address.
LEMMA RowsStay ==
  ASSUME TableStep, NEW u \in users
  PROVE  \E v \in users' : v.id = u.id /\ v.email = u.email
  BY DEF TableStep, Adds, Inserts, Demotes

\* A row was there before, with no fewer rights, or is a new one.
LEMMA RowsCome ==
  ASSUME TypeOK, TableStep, NEW v \in users'
  PROVE  \/ \E u \in users : /\ u.id = v.id /\ u.email = v.email
                             /\ v.active => u.active
                             /\ v.role = "viewer" \/ v.role = u.role
         \/ Adds(v.id, v.email)
<1>1. CASE UNCHANGED users
  BY <1>1
<1>2. CASE \E id, email : Adds(id, email)
  <2>1. PICK id, email : Adds(id, email)
    BY <1>2
  <2>2. PICK u \in User : u.id = id /\ u.email = email /\ users' = users \cup {u}
    BY <2>1 DEF Adds, Inserts
  <2>3. CASE v \in users
    BY <2>3
  <2>4. CASE v = u
    BY <2>1, <2>2, <2>4
  <2> QED
    BY <2>2, <2>3, <2>4
<1>3. CASE \E u \in users : Demotes(u)
  BY <1>3 DEF Demotes
<1> QED
  BY <1>1, <1>2, <1>3 DEF TableStep

\* Processes come up only with the first administrator there.
LEMMA UpMeansAdministered ==
  ASSUME TypeOK, [Next]_vars, NEW a \in Apis, phase'[a] = "up"
  PROVE  phase[a] = "up" \/ \E u \in users' : u.email = Root
<1>1. ASSUME NEW p \in Processes, Start(p)
      PROVE  phase[a] = "up" \/ \E u \in users' : u.email = Root
  <2>1. CASE InsertAdmin(p) /\ p = a
    <3>1. InsertAdmin(a)
      BY <2>1
    <3>2. \/ Inserts(a, Root)
          \/ UNCHANGED users /\ Rows(Root) # {}
      BY <3>1, InsertAdminAdds
    <3> QED
      BY <3>2 DEF Inserts, Rows
  <2>2. CASE LookForAdmin(p) /\ p = a
    <3>1. users' = users
      BY <2>2 DEF LookForAdmin, accounts
    <3>2. Rows(Root) # {}
      BY <2>2, <3>1 DEF LookForAdmin, Goto, TypeOK, Processes
    <3> QED
      BY <3>1, <3>2 DEF Rows
  <2> QED
    BY <1>1, <2>1, <2>2, AccountsAssumption
                        DEF Start, LookForTables, CreateTables, LookForAdmin,
                            InsertAdmin, Goto, Ready, TypeOK, Processes
<1>2. ASSUME NEW b \in Apis, Crash(b) PROVE phase[a] = "up"
  BY <1>2 DEF Crash, Goto, TypeOK, Processes
<1>3. CASE UNCHANGED phase
  BY <1>3
<1> QED
  BY <1>1, <1>2, <1>3
     DEF Next, SignIn, Demote, Renew, Expire, Send, Serve, Authorize,
         LookForUser, InsertUser, AnswerUser, AnswerLost, vars

\* Tokens are issued to users there are.
LEMMA TokensAreIssued ==
  ASSUME [Next]_vars, NEW t \in tokens'
  PROVE  t \in tokens \/ \E u \in users : u.id = t.sub
<1>1. ASSUME NEW u \in users, SignIn(u)
      PROVE  t \in tokens \/ \E w \in users : w.id = t.sub
  BY <1>1 DEF SignIn, Claims
<1>2. ASSUME NEW s \in tokens, Renew(s)
      PROVE  t \in tokens \/ \E w \in users : w.id = t.sub
  BY <1>2 DEF Renew, Claims, Holder
<1>3. CASE tokens' \subseteq tokens
  BY <1>3
<1> QED
  BY <1>1, <1>2, <1>3
     DEF Next, Start, LookForTables, CreateTables, LookForAdmin, InsertAdmin,
         Crash, Demote, Expire, Send, Serve, Authorize, LookForUser,
         InsertUser, AnswerUser, AnswerLost, vars

\* Rights only shrink: who would be let in after the step would have been
\* before it.
LEMMA NobodyGains ==
  ASSUME TypeOK, TableStep, NEW t \in Token, NEW roles \in RoleLists,
         \E u \in users : u.id = t.sub, Entitled(t, roles)'
  PROVE  Entitled(t, roles)
<1>1. PICK v \in users' : v.id = t.sub /\ v.active /\ v.role \in roles
  BY DEF Entitled
<1>2. ~ Adds(v.id, v.email)
  BY <1>1 DEF Adds
<1>3. PICK u \in users : /\ u.id = v.id /\ u.active
                         /\ v.role = "viewer" \/ v.role = u.role
  BY <1>1, <1>2, RowsCome
<1>4. u.role \in UserRole
  BY <1>3 DEF TypeOK, User
<1>5. u.role \in roles
  BY <1>1, <1>3, <1>4, AccountsAssumption DEF UserRole
<1> QED
  BY <1>1, <1>3, <1>5 DEF Entitled

\* Every step keeps the invariant.
LEMMA AccountsStep ==
  TypeOK /\ AccountsInv /\ [Next]_vars => AccountsInv'
<1> SUFFICES ASSUME TypeOK, AccountsInv, [Next]_vars PROVE AccountsInv'
  OBVIOUS
<1>1. TableStep
  BY TableSteps
<1>2. \A r \in Requests : Moves(r)
  BY RequestsMove
<1>3. OneAccountEach'
  <2>1. \A u, v \in users' : u.email = v.email => u = v
    <3>1. CASE UNCHANGED users
      BY <3>1 DEF AccountsInv, OneAccountEach
    <3>2. CASE \E id, email : Adds(id, email)
      BY <3>2 DEF Adds, Inserts, Rows, AccountsInv, OneAccountEach
    <3>3. CASE \E u \in users : Demotes(u)
      BY <3>3 DEF Demotes, AccountsInv, OneAccountEach
    <3> QED
      BY <1>1, <3>1, <3>2, <3>3 DEF TableStep
  <2>2. ASSUME NEW a \in Apis, phase'[a] = "up"
        PROVE  \E u \in users' : u.email = Root
    BY <1>1, <2>2, UpMeansAdministered, RowsStay
       DEF AccountsInv, OneAccountEach, Rows
  <2> QED
    BY <2>1, <2>2 DEF OneAccountEach, Rows
<1>4. IdsTell'
  <2> SUFFICES ASSUME NEW v \in users'
               PROVE  /\ v.id \in Requests =>
                           at'[v.id] \in {"inserted", "created"} \/ v.id \in lost'
                      /\ v.id \in Apis => v.email = Root
    BY DEF IdsTell
  <2>1. CASE Adds(v.id, v.email)
    BY <2>1 DEF Adds
  <2>2. CASE \E u \in users : u.id = v.id /\ u.email = v.email
    BY <1>2, <2>2 DEF AccountsInv, IdsTell, Moves, Open
  <2> QED
    BY <1>1, <2>1, <2>2, RowsCome
<1>5. OwnAddress'
  <2> SUFFICES ASSUME NEW v \in users', NEW r \in Requests, v.id = r
               PROVE  /\ at'[r] = "sent" => v.email = call'[r].body.email
                      /\ at'[r] \in Adding => v.email = call'[r].email
                      /\ at'[r] # "absent"
    BY DEF OwnAddress
  <2>1. CASE Adds(v.id, v.email)
    BY <2>1 DEF Adds
  <2>2. CASE \E u \in users : u.id = v.id /\ u.email = v.email
    <3>1. PICK u \in users : u.id = r /\ u.email = v.email
      BY <2>2
    <3>2. /\ at[r] = "sent" => u.email = call[r].body.email
          /\ at[r] \in Adding => u.email = call[r].email
          /\ at[r] # "absent"
      BY <3>1 DEF AccountsInv, OwnAddress
    <3>3. at[r] = "adding" => Rows(call[r].email) # {}
      BY <3>1, <3>2 DEF Rows, Adding
    <3>4. Moves(r)
      BY <1>2
    <3>5. ASSUME at'[r] = "sent" PROVE v.email = call'[r].body.email
      <4>1. CASE at[r] = "sent"
        <5>1. call'[r] = call[r]
          BY <3>4, <3>5, <4>1 DEF Moves
        <5> QED
          BY <3>1, <3>2, <4>1, <5>1
      <4>2. CASE at[r] # "sent"
        <5>1. PICK t \in tokens, roles \in RoleLists, body \in Bodies :
                /\ \A w \in users : w.id = r => w.email = body.email
                /\ call'[r] = [token |-> t, roles |-> roles, body |-> body,
                               entitled |-> Entitled(t, roles)]
          BY <3>4, <3>5, <4>2 DEF Moves
        <5>2. call'[r].body = body
          BY <5>1
        <5> QED
          BY <3>1, <5>1, <5>2
      <4> QED
        BY <4>1, <4>2
    <3>6. at'[r] # "absent"
      BY <3>2, <3>3, <3>4 DEF Moves
    <3>7. at'[r] \in Adding => v.email = call'[r].email
      BY <3>1, <3>2, <3>3, <3>4 DEF Moves, Adding
    <3> QED
      BY <3>5, <3>6, <3>7
  <2> QED
    BY <1>1, <2>1, <2>2, RowsCome
<1>6. InsertedIsThere'
  <2> SUFFICES ASSUME NEW r \in Requests, at'[r] = "inserted"
               PROVE  \E u \in users' : u.id = r
    BY DEF InsertedIsThere
  <2>1. CASE at[r] = "inserted"
    BY <1>1, <2>1, RowsStay DEF AccountsInv, InsertedIsThere
  <2>2. CASE at[r] # "inserted"
    BY <1>2, <2>2 DEF Moves, Inserts
  <2> QED
    BY <2>1, <2>2
<1>7. UserAnswersAgree'
  <2> SUFFICES
        ASSUME NEW r \in Requests
        PROVE  /\ at'[r] = "created" =>
                    \E u \in users' : u.email = call'[r].email /\ u.id = r
               /\ at'[r] = "error" =>
                    \E u \in users' : u.email = call'[r].email /\ u.id # r
               /\ at'[r] = "exists" =>
                    \E u \in users' : /\ u.email = call'[r].email
                                      /\ u.id # r \/ r \in lost'
    BY DEF UserAnswersAgree, Rows
  <2>1. ASSUME at'[r] = "created"
        PROVE  \E u \in users' : u.email = call'[r].email /\ u.id = r
    <3>1. \E u \in users' : u.id = r
      BY <1>1, <1>2, <2>1, RowsStay
         DEF AccountsInv, UserAnswersAgree, InsertedIsThere, Moves, Rows
    <3> QED
      BY <1>5, <2>1, <3>1 DEF OwnAddress, Adding
  <2>2. ASSUME at'[r] = "error"
        PROVE  \E u \in users' : u.email = call'[r].email /\ u.id # r
    <3>1. call'[r] = call[r]
      BY <1>2, <2>2 DEF Moves
    <3>2. \E u \in users : u.email = call[r].email /\ u.id # r
      BY <1>2, <2>2
         DEF AccountsInv, UserAnswersAgree, OwnAddress, Moves, Rows
    <3> QED
      BY <1>1, <3>1, <3>2, RowsStay
  <2>3. ASSUME at'[r] = "exists"
        PROVE  \E u \in users' : /\ u.email = call'[r].email
                                 /\ u.id # r \/ r \in lost'
    <3>1. call'[r] = call[r] /\ lost \subseteq lost'
      BY <1>2, <2>3 DEF Moves
    <3>2. \E u \in users : u.email = call[r].email /\ (u.id # r \/ r \in lost)
      <4>1. CASE at[r] = "exists"
        BY <4>1 DEF AccountsInv, UserAnswersAgree, Rows
      <4>2. CASE at[r] = "adding" /\ Rows(call[r].email) # {}
        BY <4>2 DEF AccountsInv, IdsTell, Rows
      <4> QED
        BY <1>2, <2>3, <4>1, <4>2 DEF Moves
    <3> QED
      BY <1>1, <3>1, <3>2, RowsStay
  <2> QED
    BY <2>1, <2>2, <2>3
<1>8. TokensHaveUsers'
  BY <1>1, TokensAreIssued, RowsStay DEF AccountsInv, TokensHaveUsers
<1>9. ASSUME NEW r \in Requests, at'[r] = "sent", at[r] # "sent"
      PROVE  /\ \E u \in users' : u.id = call'[r].token.sub
             /\ Admits(r)' => call'[r].entitled
  <2>1. users' = users
    BY <1>2, <1>9 DEF Moves
  <2>2. PICK t \in tokens, roles \in RoleLists, body \in Bodies :
          call'[r] = [token |-> t, roles |-> roles, body |-> body,
                      entitled |-> Entitled(t, roles)]
    BY <1>2, <1>9 DEF Moves
  <2> QED
    BY <2>1, <2>2 DEF AccountsInv, TokensHaveUsers, Admits, Entitled
<1>10. ASSUME NEW r \in Requests, at'[r] = "sent", at[r] = "sent"
      PROVE  /\ \E u \in users' : u.id = call'[r].token.sub
             /\ Admits(r)' => call'[r].entitled
  <2>1. call'[r] = call[r]
    BY <1>2, <1>10 DEF Moves
  <2>2. call[r] \in Call
    BY <1>10 DEF TypeOK, CallOK, Adding
  <2>3. call[r].token \in Token /\ call[r].roles \in RoleLists
    BY <2>2 DEF Call
  <2>4. \E u \in users : u.id = call[r].token.sub
    BY <1>10 DEF AccountsInv, CallsHaveUsers
  <2>5. PICK t \in Token, roles \in RoleLists :
          t = call[r].token /\ roles = call[r].roles
    BY <2>3
  <2>6. Entitled(t, roles)' => call'[r].entitled
    BY <1>1, <1>10, <2>1, <2>4, <2>5, NobodyGains
       DEF AccountsInv, RightsShrink, Admits
  <2>7. Admits(r)' => Entitled(t, roles)'
    BY <2>1, <2>5 DEF Admits, Entitled
  <2> QED
    BY <1>1, <2>1, <2>4, <2>6, <2>7, RowsStay
<1>11. CallsHaveUsers' /\ RightsShrink'
  BY <1>9, <1>10 DEF CallsHaveUsers, RightsShrink
<1> QED
  BY <1>3, <1>4, <1>5, <1>6, <1>7, <1>8, <1>11 DEF AccountsInv

\* The invariant holds at all times.
LEMMA AccountsInvariant == Spec => [](TypeOK /\ AccountsInv)
<1>1. Init => AccountsInv
  BY DEF Init, AccountsInv, OneAccountEach, UserAnswersAgree, IdsTell,
         OwnAddress, InsertedIsThere, TokensHaveUsers, CallsHaveUsers,
         RightsShrink, Processes
<1> QED
  BY <1>1, AccountsStep, AccountsTypeCorrect, PTL DEF Spec

-----------------------------------------------------------------------------
(* Results                                                                 *)

\* An address has one account, and who is up can be signed in to: for any
\* number of processes that bootstrap and requests that add at once.
THEOREM AccountsAreUnique == Spec => []OneAccountEach
<1>1. AccountsInv => OneAccountEach
  BY DEF AccountsInv
<1> QED
  BY <1>1, AccountsInvariant, PTL

\* What POST /users answers agrees with the table of users, the repetition
\* after a lost answer included.
THEOREM AnswersAreTrue == Spec => []UserAnswersAgree
<1>1. AccountsInv => UserAnswersAgree
  BY DEF AccountsInv
<1> QED
  BY <1>1, AccountsInvariant, PTL

\* Nobody is let in who had lost the right when the request was sent.
THEOREM RightsAreCurrent == Spec => NoStaleRights
<1>1. ASSUME TypeOK, AccountsInv, [Next]_vars, NEW r \in Requests,
             at[r] = "sent", at'[r] \in Granted
      PROVE  call[r].entitled
  <2>1. Permitted(call[r].token, call[r].roles)
    BY <1>1, RequestsMove DEF Moves, Granted, Adding
  <2>2. Entitled(call[r].token, call[r].roles)
    BY <2>1 DEF Permitted, Holder, Entitled
  <2> QED
    BY <1>1, <2>2 DEF AccountsInv, RightsShrink, Admits
<1>2. TypeOK /\ AccountsInv /\ [Next]_vars =>
        [\A r \in Requests :
           at[r] = "sent" /\ at'[r] \in Granted => call[r].entitled]_vars
  BY <1>1
<1> QED
  BY <1>2, AccountsInvariant, PTL DEF Spec, NoStaleRights
=============================================================================
