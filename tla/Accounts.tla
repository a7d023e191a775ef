------------------------------ MODULE Accounts ------------------------------
(***************************************************************************)
(* How RelayFlow's processes come up on an empty database, and who may     *)
(* then do what: the tables, the first administrator, sign-in, renewal,    *)
(* the check before each endpoint, and POST /users.                        *)
(*                                                                         *)
(* Processes and requests interleave at their database statements.  No     *)
(* endpoint changes a role or deactivates a user: an operator does that    *)
(* in the database, at any time.  A token stands for all tokens with the   *)
(* same claims; it is signed, so nobody else can make one, and jwt.decode  *)
(* refuses it once it has expired.  Passwords are always right.            *)
(***************************************************************************)
EXTENDS Naturals

CONSTANTS Apis,          \* API processes
          Workers,       \* worker processes
          Requests,      \* calls of guarded endpoints
          Emails, Root,  \* addresses; the first administrator's
          RoleLists,     \* what endpoints hand to require_roles
          Bodies,        \* what POST /users asks for, [email, role]
          MaxSignIns,    \* bound on sign-ins
          MaxFailures,   \* bound on API processes dying and answers lost
          NoCall

\* The role lists are those the endpoints have; the proofs need that a list
\* with the least of the roles has all of them.
ASSUME AccountsAssumption ==
  /\ RoleLists \subseteq {{"admin"}, {"admin", "developer"},
                          {"admin", "developer", "viewer"}}
  /\ Root \in Emails
  /\ Bodies \subseteq [email : Emails, role : {"admin", "developer", "viewer"}]
  /\ Apis \cap (Workers \cup Requests) = {}
  /\ MaxSignIns \in Nat
  /\ MaxFailures \in Nat

VARIABLES
  tables,    \* whether the tables exist
  users,     \* the rows of users; id is the process or request that added it
  phase,     \* per process: how far it has started
  tokens,    \* the tokens issued that have not expired
  at, call,  \* per request: how far it is; what is left to look at of what
             \* was sent: all of it, then the body, then nothing
  lost,      \* the requests whose account was added and whose answer was not
             \* received
  signIns, failures

accounts == <<tables, users>>
requests == <<at, call, lost>>
vars == <<accounts, phase, tokens, requests, signIns, failures>>

-----------------------------------------------------------------------------
(* Types                                                                   *)

Processes == Apis \cup Workers
UserRole == {"admin", "developer", "viewer"}
UserId == Apis \cup Requests
User  == [id : UserId, email : Emails, role : UserRole, active : BOOLEAN]
Token == [sub : UserId, type : {"access", "refresh"}, role : UserRole]

Managing == {"admin"}  \* the role list of POST /users

\* entitled is not part of the call: it says whether, when it was sent, the
\* token's user was active and had one of the roles.
Call == [token : Token, roles : RoleLists, body : Bodies, entitled : BOOLEAN]

Adding  == {"adding", "absent", "inserted", "created", "exists", "error"}
Granted == Adding \cup {"served"}
Open    == {"sent", "adding", "absent", "inserted"}

\* A request keeps of its call what it has still to look at.
CallOK(where, c) == CASE where = "sent" -> c \in Call
                      [] where \in Adding -> c \in Bodies
                      [] OTHER -> c = NoCall

TypeOK ==
  /\ tables \in BOOLEAN
  /\ users \subseteq User
  /\ phase \in [Processes -> {"down", "creating", "created", "missing", "up"}]
  /\ \A w \in Workers : phase[w] \notin {"created", "missing"}
  /\ tokens \subseteq Token
  /\ at \in [Requests -> Granted \cup {"new", "sent"}]
  /\ call \in [Requests -> Call \cup Bodies \cup {NoCall}]
  /\ \A r \in Requests : CallOK(at[r], call[r])
  /\ lost \subseteq Requests
  /\ signIns \in 0 .. MaxSignIns
  /\ failures \in 0 .. MaxFailures

-----------------------------------------------------------------------------
(* Helpers                                                                 *)

Rows(email) == {u \in users : u.email = email}

Claims(u, type) == [sub |-> u.id, type |-> type, role |-> u.role]

\* The token is accepted where one of this type is expected.
Valid(t, type) == t \in tokens /\ t.type = type

\* The user behind a token: the row as it is now, if it is active.
Holder(t) == {u \in users : u.id = t.sub /\ u.active}

\* A slip: the role is taken from the token, which carries one.
PermittedByClaim(t, roles) == Holder(t) # {} /\ t.role \in roles

Permitted(t, roles) == \E u \in Holder(t) : u.role \in roles

\* What require_roles is for, said without its code.
Entitled(t, roles) ==
  \E u \in users : u.id = t.sub /\ u.active /\ u.role \in roles

\* A slip: the column is not unique.
UniqueForgotten(email) == TRUE

\* The unique constraint on users.email lets an INSERT pass.
Unique(email) == Rows(email) = {}

Insert(id, email, role) ==
  users' = users \cup
    {[id |-> id, email |-> email, role |-> role, active |-> TRUE]}

SomeApiUp == \E a \in Apis : phase[a] = "up"

Goto(p, where) == phase' = [phase EXCEPT ![p] = where]

Answer(r, what) ==
  /\ at' = [at EXCEPT ![r] = what]
  /\ call' = [call EXCEPT ![r] = IF what \notin Adding THEN NoCall
                                 ELSE IF at[r] = "sent" THEN @.body ELSE @]
  /\ UNCHANGED lost

\* No answer arrives: the client may send these requests again.
Forget(forgotten) ==
  /\ at' = [r \in Requests |-> IF r \in forgotten THEN "new" ELSE at[r]]
  /\ call' = [r \in Requests |-> IF r \in forgotten THEN NoCall ELSE call[r]]
  /\ lost' = lost \cup {r \in forgotten : at[r] = "inserted"}

Init ==
  /\ tables = FALSE
  /\ users = {}
  /\ phase = [p \in Processes |-> "down"]
  /\ tokens = {}
  /\ at = [r \in Requests |-> "new"]
  /\ call = [r \in Requests |-> NoCall]
  /\ lost = {}
  /\ signIns = 0
  /\ failures = 0

-----------------------------------------------------------------------------
(* Coming up: lifespan of the API, the first line of worker_loop           *)

\* With the tables there, a worker is up; an API process goes on.
Ready(p) == IF p \in Workers THEN "up" ELSE "created"

\* create_all looks which tables are there ...
LookForTables(p) ==
  /\ phase[p] = "down"
  /\ Goto(p, IF tables THEN Ready(p) ELSE "creating")
  /\ UNCHANGED <<accounts, tokens, requests, signIns, failures>>

\* ... and creates the others in one transaction.  The second of two that
\* found none raises, and its process ends.
CreateTables(p) ==
  /\ phase[p] = "creating"
  /\ tables' = TRUE
  /\ Goto(p, IF tables THEN "down" ELSE Ready(p))
  /\ UNCHANGED <<users, tokens, requests, signIns, failures>>

\* A slip: bootstrap_admin does not look first.
LookForAdminNever(p) ==
  /\ phase[p] = "created"
  /\ Goto(p, "missing")
  /\ UNCHANGED <<accounts, tokens, requests, signIns, failures>>

\* bootstrap_admin looks for the administrator ...
LookForAdmin(p) ==
  /\ phase[p] = "created"
  /\ Goto(p, IF Rows(Root) # {} THEN "up" ELSE "missing")
  /\ UNCHANGED <<accounts, tokens, requests, signIns, failures>>

\* ... and inserts one; IntegrityError ends the process.
InsertAdmin(p) ==
  /\ phase[p] = "missing"
  /\ \/ /\ Unique(Root)
        /\ Insert(p, Root, "admin")
        /\ Goto(p, "up")
     \/ /\ Rows(Root) # {}
        /\ Goto(p, "down")
        /\ UNCHANGED users
  /\ UNCHANGED <<tables, tokens, requests, signIns, failures>>

\* An API process dies and leaves the requests it was serving, all of them
\* if no other is up, without an answer; they may be sent again.  (For
\* workers, see TaskEngine.)
Crash(a) ==
  /\ phase[a] # "down"
  /\ failures < MaxFailures
  /\ failures' = failures + 1
  /\ Goto(a, "down")
  /\ \E served \in SUBSET {r \in Requests : at[r] \in Open} :
       /\ phase[a] # "up" => served = {}
       /\ \/ \E b \in Apis \ {a} : phase[b] = "up"
          \/ \A r \in Requests \ served : at[r] \notin Open
       /\ Forget(served)
  /\ UNCHANGED <<accounts, tokens, signIns>>

-----------------------------------------------------------------------------
(* Tokens                                                                  *)

\* POST /auth/login does not look at is_active.
SignIn(u) ==
  /\ SomeApiUp
  /\ signIns < MaxSignIns
  /\ signIns' = signIns + 1
  /\ tokens' = tokens \cup {Claims(u, "access"), Claims(u, "refresh")}
  /\ UNCHANGED <<accounts, phase, requests, failures>>

\* POST /auth/refresh issues an access token for the user as it is now.
Renew(t) ==
  /\ SomeApiUp
  /\ Valid(t, "refresh")
  /\ \E u \in Holder(t) : tokens' = tokens \cup {Claims(u, "access")}
  /\ UNCHANGED <<accounts, phase, requests, signIns, failures>>

\* The time of some token of this type is over.
Expire(type) ==
  /\ \E t \in tokens : t.type = type /\ tokens' = tokens \ {t}
  /\ UNCHANGED <<accounts, phase, requests, signIns, failures>>

\* An operator takes rights away.
Demote(u) ==
  /\ \/ u.active /\ users' = (users \ {u}) \cup {[u EXCEPT !.active = FALSE]}
     \/ /\ u.role # "viewer"
        /\ users' = (users \ {u}) \cup {[u EXCEPT !.role = "viewer"]}
  /\ UNCHANGED <<tables, phase, tokens, requests, signIns, failures>>

-----------------------------------------------------------------------------
(* A request to a guarded endpoint                                         *)

\* A request that is sent again asks for the same address.
Send(r) ==
  /\ at[r] = "new"
  /\ SomeApiUp
  /\ \E t \in tokens, roles \in RoleLists, body \in Bodies :
       /\ \A u \in users : u.id = r => u.email = body.email
       /\ call' = [call EXCEPT ![r] = [token |-> t, roles |-> roles, body |-> body,
                                       entitled |-> Entitled(t, roles)]]
  /\ at' = [at EXCEPT ![r] = "sent"]
  /\ UNCHANGED <<accounts, phase, tokens, lost, signIns, failures>>

\* require_roles and current_user.  A call answered 401 or 403 leaves no
\* trace and may be sent again; of those admitted, POST /users goes on here.
Authorize(r) ==
  /\ at[r] = "sent"
  /\ LET t == call[r].token
     IN Answer(r, IF ~Valid(t, "access") \/ ~Permitted(t, call[r].roles)
                  THEN "new"
                  ELSE IF call[r].roles = Managing THEN "adding"
                  ELSE "served")
  /\ UNCHANGED <<accounts, phase, tokens, signIns, failures>>

\* add_user looks for the address and answers 409, or goes on ...
LookForUser(r) ==
  /\ at[r] = "adding"
  /\ Answer(r, IF Rows(call[r].email) # {} THEN "exists" ELSE "absent")
  /\ UNCHANGED <<accounts, phase, tokens, signIns, failures>>

\* A slip: the exception is caught and forgotten.
InsertUserQuietly(r) ==
  /\ at[r] = "absent"
  /\ IF Unique(call[r].email) THEN Insert(r, call[r].email, call[r].role)
                              ELSE UNCHANGED users
  /\ Answer(r, "inserted")
  /\ UNCHANGED <<tables, phase, tokens, signIns, failures>>

\* ... to insert it, which may raise: status 500.
InsertUser(r) ==
  /\ at[r] = "absent"
  /\ \/ /\ Unique(call[r].email)
        /\ Insert(r, call[r].email, call[r].role)
        /\ Answer(r, "inserted")
     \/ /\ Rows(call[r].email) # {}
        /\ Answer(r, "error")
        /\ UNCHANGED users
  /\ UNCHANGED <<tables, phase, tokens, signIns, failures>>

\* After the commit, the answer.
AnswerUser(r) ==
  /\ at[r] = "inserted"
  /\ Answer(r, "created")
  /\ UNCHANGED <<accounts, phase, tokens, signIns, failures>>

\* The connection breaks after the commit.  (Before it, the request is
\* as good as refused by Authorize, or lost by a crash.)
AnswerLost(r) ==
  /\ at[r] = "inserted"
  /\ failures < MaxFailures
  /\ failures' = failures + 1
  /\ Forget({r})
  /\ UNCHANGED <<accounts, phase, tokens, signIns>>

-----------------------------------------------------------------------------
(* The specification                                                       *)

Start(p) == LookForTables(p) \/ CreateTables(p) \/ LookForAdmin(p)
            \/ InsertAdmin(p)

Serve(r) == Authorize(r) \/ LookForUser(r) \/ InsertUser(r)
            \/ AnswerUser(r)

Next ==
  \/ \E p \in Processes : Start(p)
  \/ \E a \in Apis : Crash(a)
  \/ \E u \in users : SignIn(u) \/ Demote(u)
  \/ \E t \in tokens : Renew(t)
  \/ \E type \in {"access", "refresh"} : Expire(type)
  \/ \E r \in Requests : Send(r) \/ Serve(r) \/ AnswerLost(r)

Spec == Init /\ [][Next]_vars

\* A process that has ended is started again, and one that is starting goes
\* on.  Nobody has to sign in or to send anything.
FairSpec == Spec /\ \A p \in Processes : WF_vars(Start(p))

-----------------------------------------------------------------------------
(* Properties                                                              *)

\* However many processes start and requests add at once, an address has one
\* account, and an API process that is up can be signed in to.
OneAccountEach ==
  /\ \A u, v \in users : u.email = v.email => u = v
  /\ \A a \in Apis : phase[a] = "up" => Rows(Root) # {}

\* The answers of POST /users agree with the table: one that says created
\* has its account under the address it asked for, and the exception nobody
\* catches (500) comes only when somebody else has taken that address.  A 409
\* means the same, with one exception: repeated after a lost answer, a
\* request is refused for its own account.
UserAnswersAgree ==
  \A r \in Requests :
    /\ at[r] = "created" => \E u \in Rows(call[r].email) : u.id = r
    /\ at[r] = "error"   => \E u \in Rows(call[r].email) : u.id # r
    /\ at[r] = "exists"  =>
         \E u \in Rows(call[r].email) : u.id # r \/ r \in lost

\* Rights taken away are gone for every request sent afterwards, whatever
\* role its token carries and however long that lives.
NoStaleRights ==
  [][\A r \in Requests :
       at[r] = "sent" /\ at'[r] \in Granted => call[r].entitled]_vars

\* All processes come up, although those that start at once on an empty
\* database make each other fail.
EveryProcessComesUp == <>[](\A p \in Processes : phase[p] = "up")
=============================================================================
