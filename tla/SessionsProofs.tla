---------------------------- MODULE SessionsProofs ----------------------------
(***************************************************************************)
(* The safety of Sessions for any accounts, tokens, calls and requests: the*)
(* inductive invariant, the theorems that follow from it, and that a dead  *)
(* token is never exchanged.                                               *)
(***************************************************************************)
EXTENDS Sessions, TLAPS

\* Requests have the members their operations use.
LEMMA RequestShapes ==
  ASSUME NEW r \in Requests
  PROVE  /\ r.op = "Register" => r.username \in Names /\ r.email \in Names
         /\ r.op \in {"Refresh", "Logout"} => r.token \in Tokens
  BY DEF Requests

\* A new token row is one.
LEMMA FreshRows ==
  ASSUME TypeOK, NEW u \in Users
  PROVE  Fresh(u) \in TokenRows /\ ~ Fresh(u).revoked /\ Fresh(u).owner = u
  BY SessionsAssumption DEF TypeOK, Fresh, TokenRows

\* The database the run starts from satisfies the invariant.
LEMMA InitInv == Init => InductiveInv
<1> SUFFICES ASSUME Init PROVE InductiveInv
  OBVIOUS
<1> USE SessionsAssumption DEF Init
<1>1. TypeOK
  BY DEF TypeOK, Phases
<1>2. TokensOwned
  BY DEF TokensOwned
<1>3. FoundStays /\ InsertedApart
  BY DEF FoundStays, InsertedApart, At
<1>4. RotationIsWhole /\ RegistrationIsWhole
  BY DEF RotationIsWhole, RegistrationIsWhole
<1>5. AccountsDistinct
  BY DEF AccountsDistinct
<1> QED
  BY <1>1, <1>2, <1>3, <1>4, <1>5 DEF InductiveInv

-----------------------------------------------------------------------------
(* Steps that leave the tables alone                                       *)

\* What concerns the tables alone is kept by a step that leaves them alone.
LEMMA TablesKept ==
  ASSUME InductiveInv, UNCHANGED <<tables, history>>
  PROVE  /\ TokensOwned' /\ RotationIsWhole'
         /\ RegistrationIsWhole' /\ AccountsDistinct'
  BY DEF InductiveInv, tables, history, TokensOwned, RotationIsWhole,
         RegistrationIsWhole, AccountsDistinct

\* A call that is answered, or begins, has found and inserted nothing.
LEMMA EndKeeps ==
  ASSUME InductiveInv, NEW c \in Calls, NEW outcome \in Answers,
         End(c, outcome), phase[c] # "new", UNCHANGED <<tables, history>>
  PROVE  InductiveInv'
<1>1. TypeOK'
  BY DEF InductiveInv, TypeOK, End, GoTo, Phases, tables, history
<1>2. FoundStays'
  BY DEF InductiveInv, TypeOK, FoundStays, End, GoTo, At, tables, Answers
<1>3. InsertedApart'
  BY DEF InductiveInv, TypeOK, InsertedApart, End, GoTo, At, tables, Answers
<1> QED
  BY <1>1, <1>2, <1>3, TablesKept DEF InductiveInv

\* A call that begins has found nothing yet.
LEMMA BeginStep ==
  ASSUME InductiveInv, NEW c \in Calls, Begin(c)
  PROVE  InductiveInv'
<1> USE DEF Begin, GoTo, tables, history
<1>1. TypeOK'
  BY DEF InductiveInv, TypeOK, Phases
<1>2. FoundStays'
  BY DEF InductiveInv, TypeOK, FoundStays, At
<1>3. InsertedApart'
  BY DEF InductiveInv, TypeOK, InsertedApart, At
<1> QED
  BY <1>1, <1>2, <1>3, TablesKept DEF InductiveInv

\* A refusal is an answer that changes no table.
LEMMA RefuseStep ==
  ASSUME InductiveInv, NEW c \in Calls, NEW outcome \in Answers,
         Refuse(c, outcome), phase[c] # "new"
  PROVE  InductiveInv'
  BY EndKeeps DEF Refuse

\* A statement that finds or inserts an account keeps the invariant if what it
\* found is there and what it inserted is apart.
LEMMA ProceedStep ==
  ASSUME InductiveInv, NEW c \in Calls, NEW p \in Phases \ Answers,
         NEW u \in Users, Proceed(c, p, u), phase[c] # "new", p # "new",
         request[c].op \in {"Login", "Refresh"} => user[u] # Null,
         request[c].op = "Refresh" => token[request[c].token] # Null,
         request[c].op = "Register" =>
           /\ user[u] = Null
           /\ \A d \in Calls : account[d] # u
           /\ \A v \in Users : user[v] # Null =>
                ~ Clash(request[c].username, request[c].email, user[v])
           /\ \A d \in Calls : At(d, "ready", "Register") =>
                ~ Clash(request[c].username, request[c].email, request[d])
  PROVE  InductiveInv'
<1> USE DEF Proceed, GoTo, tables, history
<1>1. TypeOK'
  BY DEF InductiveInv, TypeOK, Phases
<1>2. FoundStays'
  BY DEF InductiveInv, TypeOK, FoundStays, At
<1>3. InsertedApart'
  BY DEF InductiveInv, TypeOK, InsertedApart, At, Clash
<1> QED
  BY <1>1, <1>2, <1>3, TablesKept DEF InductiveInv

\* The statements before a commit.
LEMMA QuietStep ==
  ASSUME InductiveInv, NEW c \in Calls,
         \/ RegisterInsert(c) \/ LoginFind(c)
         \/ RefreshFind(c) \/ RefreshUser(c) \/ RefreshRevoke(c) \/ Abort(c)
  PROVE  InductiveInv'
<1>t. /\ {"unauthorized", "conflict", "failed"} \subseteq Answers
      /\ {"found", "checked", "ready"} \subseteq Phases \ Answers
  BY DEF Answers, Phases
<1>1. CASE RegisterInsert(c)
  <2>0. phase[c] = "begun" /\ request[c].op = "Register"
    BY <1>1 DEF RegisterInsert, At
  <2>1. CASE Refuse(c, "conflict")
    BY <2>0, <2>1, <1>t, RefuseStep
  <2>2. CASE ~ Refuse(c, "conflict")
    <3>1. PICK u \in Users :
            /\ user[u] = Null /\ \A d \in Calls : account[d] # u
            /\ Proceed(c, "ready", u)
      BY <1>1, <2>2 DEF RegisterInsert
    <3>2. /\ \A v \in Users : user[v] # Null =>
               ~ Clash(request[c].username, request[c].email, user[v])
          /\ \A d \in Calls : At(d, "ready", "Register") =>
               ~ Clash(request[c].username, request[c].email, request[d])
      BY <1>1, <2>2 DEF RegisterInsert
    <3> QED
      BY <2>0, <3>1, <3>2, <1>t, ProceedStep
  <2> QED
    BY <2>1, <2>2
<1>2. CASE LoginFind(c)
  <2>0. phase[c] = "begun" /\ request[c].op = "Login"
    BY <1>2 DEF LoginFind, At
  <2>1. CASE Refuse(c, "unauthorized")
    BY <2>0, <2>1, <1>t, RefuseStep
  <2>2. CASE ~ Refuse(c, "unauthorized")
    <3>1. PICK u \in Named(request[c].identifier) : Proceed(c, "ready", u)
      BY <1>2, <2>2 DEF LoginFind
    <3>2. u \in Users /\ user[u] # Null
      BY DEF Named
    <3> QED
      BY <2>0, <3>1, <3>2, <1>t, ProceedStep
  <2> QED
    BY <2>1, <2>2
<1>3. CASE RefreshFind(c)
  <2> DEFINE t == request[c].token
  <2>0. phase[c] = "begun" /\ request[c].op = "Refresh"
    BY <1>3 DEF RefreshFind, At
  <2>1. CASE Refuse(c, "unauthorized")
    BY <2>0, <2>1, <1>t, RefuseStep
  <2>2. CASE ~ Refuse(c, "unauthorized")
    <3>1. Usable(t) /\ Proceed(c, "found", token[t].owner)
      BY <1>3, <2>2 DEF RefreshFind
    <3>2. t \in Tokens /\ token[t] # Null
      BY <2>0, <3>1, RequestShapes, SessionsAssumption
      DEF InductiveInv, FoundStays, Usable
    <3>3. token[t].owner \in Users /\ user[token[t].owner] # Null
      BY <3>2 DEF InductiveInv, TypeOK, TokensOwned, TokenRows
    <3> QED
      BY <2>0, <3>1, <3>2, <3>3, <1>t, ProceedStep
  <2> QED
    BY <2>1, <2>2
<1>4. CASE RefreshUser(c)
  <2>0. phase[c] = "found" /\ request[c].op = "Refresh"
    BY <1>4 DEF RefreshUser, At
  <2>1. CASE Refuse(c, "unauthorized")
    BY <2>0, <2>1, <1>t, RefuseStep
  <2>2. CASE Proceed(c, "checked", account[c])
    <3>1. /\ account[c] \in Users /\ user[account[c]] # Null
          /\ token[request[c].token] # Null
      BY <2>0 DEF InductiveInv, FoundStays, At
    <3>2. "checked" \in Phases \ Answers /\ "checked" # "new" /\ phase[c] # "new"
      BY <1>t, <2>0
    <3>3. request[c].op # "Register"
      BY <2>0
    <3> HIDE <1>4, <2>0
    <3> QED
      BY <2>2, <3>1, <3>2, <3>3, ProceedStep
  <2> QED
    BY <1>4, <2>1, <2>2 DEF RefreshUser
<1>5. CASE RefreshRevoke(c)
  <2>a. /\ At(c, "checked", "Refresh")
        /\ revoker' = [revoker EXCEPT ![request[c].token] = c]
        /\ phase' = [phase EXCEPT ![c] = "ready"]
        /\ UNCHANGED <<tables, clock, request, account, history>>
    BY <1>5 DEF RefreshRevoke, GoTo
  <2> USE DEF tables, history
  <2>0. request[c].token \in Tokens
    BY <2>a, RequestShapes, SessionsAssumption DEF InductiveInv, FoundStays, At
  <2>1. TypeOK'
    BY <2>a, <2>0 DEF InductiveInv, TypeOK, Phases
  <2>2. FoundStays'
    BY <2>a DEF InductiveInv, TypeOK, FoundStays, At
  <2>3. InsertedApart'
    BY <2>a DEF InductiveInv, TypeOK, InsertedApart, At
  <2> QED
    BY <2>a, <2>1, <2>2, <2>3, TablesKept DEF InductiveInv
<1>6. CASE Abort(c)
  BY <1>6, <1>t, RefuseStep DEF Abort, InWork
<1> QED
  BY <1>1, <1>2, <1>3, <1>4, <1>5, <1>6

-----------------------------------------------------------------------------
(* Commits and the environment                                             *)

\* A registration publishes an account that clashes with none, and its token.
LEMMA RegisterCommitStep ==
  ASSUME InductiveInv, NEW c \in Calls, RegisterCommit(c)
  PROVE  InductiveInv'
<1> DEFINE u == account[c]
<1> DEFINE row == [username |-> request[c].username,
                   email |-> request[c].email, active |-> TRUE]
<1>1. PICK t \in Tokens :
        token[t] = Null /\ token' = [token EXCEPT ![t] = Fresh(u)]
  BY DEF RegisterCommit
<1>2. /\ user' = [user EXCEPT ![u] = row] /\ End(c, "ok")
      /\ UNCHANGED history /\ At(c, "ready", "Register")
  BY DEF RegisterCommit
<1>3. u \in Users /\ user[u] = Null
  BY <1>2 DEF InductiveInv, InsertedApart
<1>4. row \in UserRows /\ row # Null
  <2>1. request[c] \in Requests /\ request[c].op = "Register"
    BY <1>2, SessionsAssumption DEF InductiveInv, FoundStays, At
  <2> QED
    <3>1. request[c].username \in Names /\ request[c].email \in Names
      BY <2>1, RequestShapes
    <3>2. row \in UserRows
      BY <3>1 DEF UserRows
    <3>3. Null \notin UserRows
      BY SessionsAssumption
    <3> QED
      BY <3>2, <3>3
<1>5. /\ Fresh(u) \in TokenRows /\ Fresh(u) # Null
      /\ ~ Fresh(u).revoked /\ Fresh(u).owner = u
  BY <1>3, FreshRows, SessionsAssumption DEF InductiveInv
<1>6. /\ \A v \in Users : user'[v] = IF v = u THEN row ELSE user[v]
      /\ \A s \in Tokens : token'[s] = IF s = t THEN Fresh(u) ELSE token[s]
  BY <1>1, <1>2 DEF InductiveInv, TypeOK
<1> HIDE DEF row
<1>7. TypeOK'
  BY <1>1, <1>2, <1>3, <1>4, <1>5
  DEF InductiveInv, TypeOK, End, GoTo, Phases, Answers, history
<1>8. TokensOwned'
  BY <1>1, <1>2, <1>3, <1>4, <1>5, <1>6
  DEF InductiveInv, TypeOK, TokensOwned, history, TokenRows
<1>9. FoundStays'
  <2>1. \A d \in Calls : phase[d] # "new" /\ request[d].op = "Refresh"
          => request[d].token \in Tokens
    BY RequestShapes, SessionsAssumption DEF InductiveInv, FoundStays, At
  <2> QED
    BY <1>2, <1>3, <1>4, <1>5, <1>6, <2>1
    DEF InductiveInv, TypeOK, FoundStays, End, GoTo, At
<1>10. InsertedApart'
  <2>1. \A d \in Calls \ {c} : At(d, "ready", "Register") =>
          /\ account[d] # u
          /\ ~ Clash(request[d].username, request[d].email, row)
    BY <1>2 DEF InductiveInv, InsertedApart, Clash, row
  <2> QED
    BY <1>2, <1>3, <1>6, <2>1
    DEF InductiveInv, TypeOK, InsertedApart, End, GoTo, At
<1>11. RotationIsWhole'
  <2>1. parent' = parent /\ closed' = closed
    BY <1>2 DEF history
  <2>2. \A s \in Tokens : parent[s] # Null =>
          /\ parent[s] \in Tokens /\ token[s] # Null
          /\ parent[s] # t /\ token[parent[s]].revoked
    BY <1>1 DEF InductiveInv, TypeOK, TokensOwned, RotationIsWhole
  <2> QED
    BY <1>1, <1>5, <1>6, <2>1, <2>2 DEF InductiveInv, RotationIsWhole
<1>12. RegistrationIsWhole'
  BY <1>1, <1>2, <1>3, <1>5, <1>6
  DEF InductiveInv, TypeOK, RegistrationIsWhole, TokensOwned, history
<1>13. AccountsDistinct'
  <2>1. \A v \in Users : user[v] # Null =>
          ~ Clash(row.username, row.email, user[v])
    BY <1>2 DEF InductiveInv, InsertedApart, row
  <2> QED
    BY <1>3, <1>6, <2>1 DEF InductiveInv, AccountsDistinct, Clash
<1> QED
  BY <1>7, <1>8, <1>9, <1>10, <1>11, <1>12, <1>13 DEF InductiveInv

\* A login adds a token of the account it found.
LEMMA LoginStoreStep ==
  ASSUME InductiveInv, NEW c \in Calls, LoginStore(c)
  PROVE  InductiveInv'
<1> DEFINE u == account[c]
<1>1. PICK t \in Tokens :
        token[t] = Null /\ token' = [token EXCEPT ![t] = Fresh(u)]
  BY DEF LoginStore
<1>2. /\ user' = user /\ End(c, "ok") /\ At(c, "ready", "Login")
      /\ parent' = parent /\ closed' = closed
  BY DEF LoginStore, history
<1>3. u \in Users /\ user[u] # Null
  BY <1>2 DEF InductiveInv, FoundStays
<1>4. /\ Fresh(u) \in TokenRows /\ Fresh(u) # Null
      /\ ~ Fresh(u).revoked /\ Fresh(u).owner = u
  BY <1>3, FreshRows, SessionsAssumption DEF InductiveInv
<1>5. \A s \in Tokens : token'[s] = IF s = t THEN Fresh(u) ELSE token[s]
  BY <1>1 DEF InductiveInv, TypeOK
<1>6. TypeOK'
  BY <1>1, <1>2, <1>4 DEF InductiveInv, TypeOK, End, GoTo, Phases, Answers
<1>7. TokensOwned'
  BY <1>2, <1>3, <1>4, <1>5 DEF InductiveInv, TypeOK, TokensOwned
<1>8. FoundStays'
  <2>1. \A d \in Calls : phase[d] # "new" /\ request[d].op = "Refresh"
          => request[d].token \in Tokens
    BY RequestShapes, SessionsAssumption DEF InductiveInv, FoundStays
  <2> QED
    BY <1>2, <1>4, <1>5, <2>1
    DEF InductiveInv, TypeOK, FoundStays, End, GoTo, At
<1>9. InsertedApart'
  BY <1>2 DEF InductiveInv, TypeOK, InsertedApart, End, GoTo, At
<1>10. RotationIsWhole'
  <2>1. \A s \in Tokens : parent[s] # Null =>
          /\ parent[s] \in Tokens /\ token[s] # Null
          /\ parent[s] # t /\ token[parent[s]].revoked
    BY <1>1 DEF InductiveInv, TypeOK, TokensOwned, RotationIsWhole
  <2> QED
    BY <1>2, <1>4, <1>5, <2>1 DEF InductiveInv, RotationIsWhole
<1>11. RegistrationIsWhole' /\ AccountsDistinct'
  BY <1>1, <1>2, <1>5 DEF InductiveInv, RegistrationIsWhole, AccountsDistinct
<1> QED
  BY <1>6, <1>7, <1>8, <1>9, <1>10, <1>11 DEF InductiveInv

\* A refresh publishes the revocation and the successor in one step.
LEMMA RefreshCommitStep ==
  ASSUME InductiveInv, NEW c \in Calls, RefreshCommit(c)
  PROVE  InductiveInv'
<1> DEFINE u == account[c]
           old == request[c].token
<1>1. PICK t \in Tokens :
        /\ token[t] = Null
        /\ token' = [token EXCEPT ![t] = Fresh(u), ![old].revoked = TRUE]
        /\ parent' = [parent EXCEPT ![t] = old]
  BY DEF RefreshCommit
<1>2. /\ user' = user /\ End(c, "ok") /\ At(c, "ready", "Refresh")
      /\ closed' = closed
  BY DEF RefreshCommit
<1>3. /\ u \in Users /\ user[u] # Null
      /\ old \in Tokens /\ token[old] \in TokenRows /\ old # t
  BY <1>1, <1>2, RequestShapes, SessionsAssumption
  DEF InductiveInv, TypeOK, FoundStays, At
<1>4. /\ Fresh(u) \in TokenRows /\ Fresh(u) # Null
      /\ ~ Fresh(u).revoked /\ Fresh(u).owner = u
  BY <1>3, FreshRows, SessionsAssumption DEF InductiveInv
<1> DEFINE spent == [token[old] EXCEPT !.revoked = TRUE]
<1>5. /\ spent \in TokenRows /\ spent # Null
      /\ spent.revoked /\ spent.owner = token[old].owner
  BY <1>3, SessionsAssumption DEF TokenRows
<1>6. /\ token' \in [Tokens -> TokenRows \cup {Null}]
      /\ \A s \in Tokens : token'[s] = IF s = old THEN spent
                             ELSE IF s = t THEN Fresh(u) ELSE token[s]
  BY <1>1, <1>3, <1>4, <1>5 DEF InductiveInv, TypeOK
<1>7. \A s \in Tokens : parent'[s] = IF s = t THEN old ELSE parent[s]
  BY <1>1 DEF InductiveInv, TypeOK
<1> HIDE DEF spent
<1>8. TypeOK'
  BY <1>1, <1>2, <1>3, <1>6
  DEF InductiveInv, TypeOK, End, GoTo, Phases, Answers
<1>9. TokensOwned'
  <2>1. user[token[old].owner] # Null
    BY <1>3, SessionsAssumption DEF InductiveInv, TokensOwned
  <2>2. \A s \in Tokens : token'[s] # Null => user[token'[s].owner] # Null
    BY <1>3, <1>4, <1>5, <1>6, <2>1 DEF InductiveInv, TokensOwned
  <2>3. \A s \in Tokens : parent'[s] # Null =>
          token'[s] # Null /\ token'[parent'[s]] # Null
    <3>1. \A s \in Tokens : token[s] # Null => token'[s] # Null
      BY <1>4, <1>5, <1>6
    <3>2. token'[t] # Null /\ token'[old] # Null
      BY <1>3, <1>4, <1>5, <1>6
    <3>3. \A s \in Tokens : parent[s] # Null => parent[s] \in Tokens
      BY DEF InductiveInv, TypeOK
    <3> QED
      BY <1>7, <3>1, <3>2, <3>3 DEF InductiveInv, TokensOwned
  <2> QED
    BY <1>2, <2>2, <2>3 DEF TokensOwned
<1>10. FoundStays'
  <2>1. \A d \in Calls : phase[d] # "new" /\ request[d].op = "Refresh"
          => request[d].token \in Tokens
    BY RequestShapes, SessionsAssumption DEF InductiveInv, FoundStays
  <2> QED
    BY <1>2, <1>4, <1>5, <1>6, <2>1
    DEF InductiveInv, TypeOK, FoundStays, End, GoTo, At
<1>11. InsertedApart'
  BY <1>2 DEF InductiveInv, TypeOK, InsertedApart, End, GoTo, At
<1>12. RotationIsWhole'
  <2>1. \A s \in Tokens : parent[s] # Null =>
          /\ parent[s] \in Tokens /\ token[s] # Null
          /\ parent[s] # t /\ token[parent[s]].revoked
    BY <1>1 DEF InductiveInv, TypeOK, TokensOwned, RotationIsWhole
  <2>2. parent[t] = Null /\ old # Null
    BY <1>1, <1>3, SessionsAssumption DEF InductiveInv, TokensOwned
  <2>3. \A s \in Tokens : parent'[s] # Null =>
          token'[s] # Null /\ token'[parent'[s]].revoked
    BY <1>3, <1>4, <1>5, <1>6, <1>7, <2>1
  <2>4. \A s \in Tokens : token'[s] # Null /\ token'[s].revoked =>
          s \in closed \/ \E r \in Tokens : parent'[r] = s
    <3> SUFFICES ASSUME NEW s \in Tokens, token'[s] # Null, token'[s].revoked
                 PROVE  s \in closed \/ \E r \in Tokens : parent'[r] = s
      OBVIOUS
    <3>1. CASE s = old
      BY <1>7, <3>1
    <3>2. CASE s # old
      <4>1. s # t /\ token[s] # Null /\ token[s].revoked
        BY <1>4, <1>6, <3>2
      <4>2. CASE s \in closed
        BY <4>2
      <4>3. CASE \E r \in Tokens : parent[r] = s
        <5>1. PICK r \in Tokens : parent[r] = s
          BY <4>3
        <5>2. r # t
          BY <2>2, <4>1, <5>1, SessionsAssumption
        <5> QED
          BY <1>7, <5>1, <5>2
      <4> QED
        BY <4>1, <4>2, <4>3 DEF InductiveInv, RotationIsWhole
    <3> QED
      BY <3>1, <3>2
  <2> QED
    BY <1>2, <2>3, <2>4 DEF RotationIsWhole
<1>13. RegistrationIsWhole'
  <2>1. \A s \in Tokens : token[s] # Null =>
          /\ token'[s] # Null /\ token'[s].owner = token[s].owner
          /\ parent'[s] = parent[s]
    BY <1>1, <1>5, <1>6, <1>7
  <2> QED
    BY <1>2, <2>1 DEF InductiveInv, RegistrationIsWhole
<1>14. AccountsDistinct'
  BY <1>2 DEF InductiveInv, AccountsDistinct
<1> QED
  BY <1>8, <1>9, <1>10, <1>11, <1>12, <1>13, <1>14 DEF InductiveInv

\* A logout revokes a token and records that it did.
LEMMA LogoutStep ==
  ASSUME InductiveInv, NEW c \in Calls, Logout(c)
  PROVE  InductiveInv'
<1> DEFINE t == request[c].token
<1>1. /\ At(c, "begun", "Logout") /\ End(c, "ok")
      /\ user' = user /\ parent' = parent /\ phase[c] # "new"
  BY DEF Logout, At
<1>2. t \in Tokens
  BY <1>1, RequestShapes, SessionsAssumption DEF InductiveInv, FoundStays, At
<1>3. CASE token[t] = Null
  BY <1>1, <1>3, EndKeeps DEF Logout, tables, history, Answers
<1>4. CASE token[t] # Null
  <2> DEFINE spent == [token[t] EXCEPT !.revoked = TRUE]
  <2>1. /\ token' = [token EXCEPT ![t] = spent]
        /\ closed' = closed \cup {t}
    BY <1>4 DEF Logout
  <2>2. /\ spent \in TokenRows /\ spent # Null
        /\ spent.revoked /\ spent.owner = token[t].owner
    <3>1. token[t] \in TokenRows
      BY <1>2, <1>4 DEF InductiveInv, TypeOK
    <3>2. /\ spent \in TokenRows
          /\ spent.revoked /\ spent.owner = token[t].owner
      BY <3>1 DEF TokenRows
    <3> QED
      BY <3>2, SessionsAssumption
  <2>3. \A s \in Tokens : token'[s] = IF s = t THEN spent ELSE token[s]
    BY <1>2, <2>1 DEF InductiveInv, TypeOK
  <2> HIDE DEF spent
  <2>4. TypeOK'
    BY <1>1, <1>2, <2>1, <2>2
    DEF InductiveInv, TypeOK, End, GoTo, Phases, Answers
  <2>5. TokensOwned'
    BY <1>1, <1>4, <2>2, <2>3 DEF InductiveInv, TypeOK, TokensOwned
  <2>6. FoundStays'
    <3>1. \A d \in Calls : phase[d] # "new" /\ request[d].op = "Refresh"
            => request[d].token \in Tokens
      BY RequestShapes, SessionsAssumption DEF InductiveInv, FoundStays
    <3> QED
      BY <1>1, <2>2, <2>3, <3>1
      DEF InductiveInv, TypeOK, FoundStays, End, GoTo, At
  <2>7. InsertedApart'
    BY <1>1 DEF InductiveInv, TypeOK, InsertedApart, End, GoTo, At
  <2>8. RotationIsWhole'
    BY <1>1, <2>1, <2>2, <2>3 DEF InductiveInv, TypeOK, RotationIsWhole
  <2>9. RegistrationIsWhole' /\ AccountsDistinct'
    BY <1>1, <2>2, <2>3
    DEF InductiveInv, RegistrationIsWhole, AccountsDistinct
  <2> QED
    BY <2>4, <2>5, <2>6, <2>7, <2>8, <2>9 DEF InductiveInv
<1> QED
  BY <1>3, <1>4

\* Deactivation changes only whether an account is active.
LEMMA DeactivateStep ==
  ASSUME InductiveInv, NEW u \in Users, Deactivate(u)
  PROVE  InductiveInv'
<1> DEFINE row == [user[u] EXCEPT !.active = FALSE]
<1>1. /\ user' = [user EXCEPT ![u] = row] /\ user[u] # Null
      /\ UNCHANGED <<token, clock, phase, request, account, revoker>>
      /\ parent' = parent /\ closed' = closed
  BY DEF Deactivate, history
<1>2. /\ row \in UserRows /\ row # Null
      /\ row.username = user[u].username /\ row.email = user[u].email
  <2>1. user[u] \in UserRows
    BY <1>1 DEF InductiveInv, TypeOK
  <2>2. /\ row \in UserRows
        /\ row.username = user[u].username /\ row.email = user[u].email
    BY <2>1 DEF UserRows
  <2> QED
    BY <2>2, SessionsAssumption
<1>3. \A v \in Users : user'[v] = IF v = u THEN row ELSE user[v]
  BY <1>1 DEF InductiveInv, TypeOK
<1> HIDE DEF row
<1>4. TypeOK'
  BY <1>1, <1>2 DEF InductiveInv, TypeOK
<1>5. TokensOwned'
  BY <1>1, <1>2, <1>3 DEF InductiveInv, TypeOK, TokensOwned, TokenRows
<1>6. FoundStays'
  BY <1>1, <1>2, <1>3 DEF InductiveInv, FoundStays, At
<1>7. InsertedApart'
  BY <1>1, <1>2, <1>3 DEF InductiveInv, InsertedApart, At, Clash
<1>8. RotationIsWhole' /\ RegistrationIsWhole'
  BY <1>1, <1>2, <1>3
  DEF InductiveInv, RotationIsWhole, RegistrationIsWhole
<1>9. AccountsDistinct'
  BY <1>1, <1>2, <1>3 DEF InductiveInv, AccountsDistinct, Clash
<1> QED
  BY <1>4, <1>5, <1>6, <1>7, <1>8, <1>9 DEF InductiveInv

\* The clock is read by no part of the invariant.
LEMMA TickStep ==
  ASSUME InductiveInv, Tick \/ UNCHANGED vars
  PROVE  InductiveInv'
<1>1. /\ UNCHANGED <<tables, phase, request, account, revoker, history>>
      /\ clock' \in 0 .. MaxClock
  BY SessionsAssumption DEF InductiveInv, TypeOK, Tick, vars
<1>2. TypeOK' /\ FoundStays' /\ InsertedApart'
  BY <1>1
  DEF InductiveInv, TypeOK, FoundStays, InsertedApart, At, tables, history
<1> QED
  BY <1>1, <1>2, TablesKept DEF InductiveInv

-----------------------------------------------------------------------------
(* The theorems                                                            *)

\* Every step of any calls, of the clock and of an operator preserves what the
\* open calls rely on: what Register, Login and Refresh read or inserted
\* earlier is still so when they commit.
THEOREM Invariance == Spec => []InductiveInv
<1>1. InductiveInv /\ [Next]_vars => InductiveInv'
  <2> SUFFICES ASSUME InductiveInv, [Next]_vars
               PROVE  InductiveInv'
    OBVIOUS
  <2>1. ASSUME NEW c \in Calls, Begin(c) \/ Statement(c) \/ Abort(c)
        PROVE  InductiveInv'
    BY <2>1, BeginStep, QuietStep, RegisterCommitStep, LoginStoreStep,
       RefreshCommitStep, LogoutStep
    DEF Statement
  <2>2. ASSUME NEW u \in Users, Deactivate(u)
        PROVE  InductiveInv'
    BY <2>2, DeactivateStep
  <2>3. CASE Tick \/ UNCHANGED vars
    BY <2>3, TickStep
  <2> QED
    BY <2>1, <2>2, <2>3 DEF Next
<1> QED
  BY <1>1, InitInv, PTL DEF Spec

\* Rows and calls stay well formed.
THEOREM TypeCorrect == Spec => []TypeOK
<1>1. InductiveInv => TypeOK
  BY DEF InductiveInv
<1> QED
  BY <1>1, Invariance, PTL

\* Refresh revokes the old token and stores its successor together or not at
\* all, whatever runs beside it and wherever it fails.
THEOREM RotationWhole == Spec => []RotationIsWhole
<1>1. InductiveInv => RotationIsWhole
  BY DEF InductiveInv
<1> QED
  BY <1>1, Invariance, PTL

\* Register stores the account and its first token together or not at all.
THEOREM RegistrationWhole == Spec => []RegistrationIsWhole
<1>1. InductiveInv => RegistrationIsWhole
  BY DEF InductiveInv
<1> QED
  BY <1>1, Invariance, PTL

\* Registrations that run together never give one name or address to two.
THEOREM AccountsApart == Spec => []AccountsDistinct
<1>1. InductiveInv => AccountsDistinct
  BY DEF InductiveInv
<1> QED
  BY <1>1, Invariance, PTL

-----------------------------------------------------------------------------
(* Dead tokens                                                             *)

\* The clock goes on; a token keeps its owner and its expiry, is never taken
\* back and never unrevoked; an account that is not active stays so.
OnlyAge ==
  /\ clock <= clock'
  /\ \A t \in Tokens : token[t] # Null =>
       /\ token'[t] # Null /\ token'[t].owner = token[t].owner
       /\ token'[t].expires = token[t].expires
       /\ token[t].revoked => token'[t].revoked
  /\ \A u \in Users : user[u] # Null =>
       user'[u] # Null /\ (~ user[u].active => ~ user'[u].active)

\* A row that is revoked is the same row.
LEMMA RevokedRows ==
  ASSUME NEW r \in TokenRows, NEW s, s = [r EXCEPT !.revoked = TRUE]
  PROVE  s # Null /\ s.revoked /\ s.owner = r.owner /\ s.expires = r.expires
<1>1. s \in TokenRows
  BY DEF TokenRows
<1> QED
  BY <1>1, SessionsAssumption DEF TokenRows

\* Every step only ages the rows there are: none is removed or revived.
LEMMA RowsAge ==
  ASSUME InductiveInv, [Next]_vars
  PROVE  OnlyAge
<1>i. InductiveInv'
  BY BeginStep, QuietStep, RegisterCommitStep, LoginStoreStep,
     RefreshCommitStep, LogoutStep, DeactivateStep, TickStep
  DEF Next, Statement
<1>t. /\ clock \in Nat /\ clock' \in Nat
      /\ \A t \in Tokens : token[t] # Null => token[t] \in TokenRows
      /\ \A u \in Users : user[u] # Null => user[u] \in UserRows
  BY <1>i, SessionsAssumption DEF InductiveInv, TypeOK
<1>n. Null \notin TokenRows \cup UserRows
  BY SessionsAssumption
<1>k. ASSUME user' = user, token' = token, clock <= clock'
      PROVE  OnlyAge
  BY <1>k DEF OnlyAge
<1>r. ASSUME NEW t \in Tokens,
             token' = [token EXCEPT ![t].revoked = TRUE],
             token[t] # Null, user' = user, clock' = clock
      PROVE  OnlyAge
  <2>1. token'[t] = [token[t] EXCEPT !.revoked = TRUE]
    BY <1>r DEF InductiveInv, TypeOK
  <2>2. /\ token'[t] # Null /\ token'[t].owner = token[t].owner
        /\ token'[t].expires = token[t].expires /\ token'[t].revoked
    BY <1>t, <1>r, <2>1, RevokedRows
  <2>3. \A s \in Tokens \ {t} : token'[s] = token[s]
    BY <1>r DEF InductiveInv, TypeOK
  <2>4. clock <= clock'
    BY <1>t, <1>r
  <2> QED
    BY <1>r, <2>2, <2>3, <2>4 DEF OnlyAge
<1>1. ASSUME NEW c \in Calls, Begin(c) \/ Statement(c) \/ Abort(c)
      PROVE  OnlyAge
  <2>1. clock' = clock
    BY <1>1 DEF Begin, Statement, Abort, Refuse, Proceed, End, RegisterInsert,
       RegisterCommit, LoginFind, LoginStore, RefreshFind, RefreshUser,
       RefreshRevoke, RefreshCommit, Logout
  <2>2. CASE RegisterCommit(c)
    <3>1. /\ user[account[c]] = Null /\ account[c] \in Users
      BY <2>2 DEF InductiveInv, InsertedApart, RegisterCommit
    <3>2. \A u \in Users \ {account[c]} : user'[u] = user[u]
      BY <2>2 DEF RegisterCommit, InductiveInv, TypeOK
    <3>3. \A t \in Tokens : token[t] # Null => token'[t] = token[t]
      BY <2>2 DEF RegisterCommit, InductiveInv, TypeOK
    <3> QED
      BY <1>t, <2>1, <3>1, <3>2, <3>3 DEF OnlyAge
  <2>3. CASE LoginStore(c)
    <3>1. user' = user
      BY <2>3 DEF LoginStore
    <3>2. \A t \in Tokens : token[t] # Null => token'[t] = token[t]
      BY <2>3 DEF LoginStore, InductiveInv, TypeOK
    <3> QED
      BY <1>t, <2>1, <3>1, <3>2 DEF OnlyAge
  <2>4. CASE RefreshCommit(c)
    <3> DEFINE old == request[c].token
    <3>1. PICK t \in Tokens :
            /\ token[t] = Null
            /\ token' = [token EXCEPT ![t] = Fresh(account[c]),
                                      ![old].revoked = TRUE]
      BY <2>4 DEF RefreshCommit
    <3>2. old \in Tokens /\ token[old] # Null /\ user' = user
      BY <2>4, RequestShapes, SessionsAssumption
      DEF RefreshCommit, InductiveInv, FoundStays, At
    <3>3. token'[old] = [token[old] EXCEPT !.revoked = TRUE]
      BY <3>1, <3>2 DEF InductiveInv, TypeOK
    <3>4. /\ token'[old] # Null /\ token'[old].owner = token[old].owner
          /\ token'[old].expires = token[old].expires /\ token'[old].revoked
      BY <1>t, <3>2, <3>3, RevokedRows
    <3>5. \A s \in Tokens \ {old, t} : token'[s] = token[s]
      BY <3>1 DEF InductiveInv, TypeOK
    <3>6. clock <= clock'
      BY <1>t, <2>1
    <3>7. \A s \in Tokens : token[s] # Null => s = old \/ token'[s] = token[s]
      BY <3>1, <3>5
    <3> HIDE DEF old
    <3> QED
      BY <3>2, <3>4, <3>6, <3>7 DEF OnlyAge
  <2>5. CASE Logout(c)
    <3>1. request[c].token \in Tokens
      BY <2>5, RequestShapes, SessionsAssumption
      DEF Logout, InductiveInv, FoundStays, At
    <3>2. CASE token[request[c].token] = Null
      BY <1>t, <1>k, <2>1, <2>5, <3>2 DEF Logout
    <3>3. CASE token[request[c].token] # Null
      BY <1>r, <2>1, <2>5, <3>1, <3>3 DEF Logout
    <3> QED
      BY <3>2, <3>3
  <2>6. ASSUME user' = user, token' = token
        PROVE  OnlyAge
    BY <1>t, <1>k, <2>1, <2>6
  <2> QED
    BY <1>1, <2>2, <2>3, <2>4, <2>5, <2>6
    DEF Begin, Statement, Abort, Refuse, Proceed, RegisterInsert, LoginFind,
        RefreshFind, RefreshUser, RefreshRevoke, tables
<1>2. ASSUME NEW u \in Users, Deactivate(u)
      PROVE  OnlyAge
  <2>1. /\ user[u] # Null /\ user'[u] = [user[u] EXCEPT !.active = FALSE]
        /\ token' = token /\ clock' = clock
    BY <1>2 DEF Deactivate, InductiveInv, TypeOK
  <2>2. \A v \in Users \ {u} : user'[v] = user[v]
    BY <1>2 DEF Deactivate, InductiveInv, TypeOK
  <2>3. user'[u] \in UserRows /\ ~ user'[u].active
    BY <1>t, <2>1 DEF UserRows
  <2>4. user'[u] # Null /\ clock <= clock'
    <3>1. user'[u] # Null
      BY <1>n, <2>3
    <3>2. clock <= clock'
      BY <1>t, <2>1
    <3> QED
      BY <3>1, <3>2
  <2>5. \A v \in Users : user[v] # Null =>
          user'[v] # Null /\ (~ user[v].active => ~ user'[v].active)
    <3> SUFFICES ASSUME NEW v \in Users, user[v] # Null
                 PROVE  user'[v] # Null /\ (~ user[v].active => ~ user'[v].active)
      OBVIOUS
    <3>1. CASE v = u
      BY <2>3, <2>4, <3>1
    <3>2. CASE v # u
      BY <2>2, <3>2
    <3> QED
      BY <3>1, <3>2
  <2> QED
    BY <2>1, <2>4, <2>5 DEF OnlyAge
<1>3. CASE Tick \/ UNCHANGED vars
  BY <1>t, <1>k, <1>3 DEF Tick, vars, tables
<1> QED
  BY <1>1, <1>2, <1>3 DEF Next

\* A call that will not succeed: its token was dead when it began, or its
\* account is not active when it looks.
Doomed(c) ==
  \/ At(c, "begun", "Refresh") /\ Dead(request[c].token)
  \/ /\ At(c, "found", "Refresh")
     /\ account[c] \in Users /\ user[account[c]] # Null
     /\ ~ user[account[c]].active
  \/ phase[c] \in {"unauthorized", "failed"}

\* A dead token stays dead while rows only age.
LEMMA DeadStays ==
  ASSUME InductiveInv, InductiveInv', OnlyAge, NEW t \in Tokens, Dead(t)
  PROVE  Dead(t)'
<1>1. /\ token[t] \in TokenRows /\ token'[t] # Null
      /\ clock \in Nat /\ clock' \in Nat /\ clock <= clock'
      /\ token[t].owner \in Users /\ token[t].expires \in Nat
  BY SessionsAssumption DEF InductiveInv, TypeOK, Dead, OnlyAge, TokenRows
<1>2. CASE token[t].revoked
  BY <1>1, <1>2 DEF Dead, OnlyAge
<1>3. CASE token[t].expires < clock
  <2>1. token'[t].expires = token[t].expires
    BY DEF OnlyAge, Dead
  <2>2. token'[t].expires < clock'
    BY <1>1, <1>3, <2>1
  <2> QED
    BY <1>1, <2>2 DEF Dead
<1>4. CASE ~ user[token[t].owner].active
  <2>1. token'[t].owner = token[t].owner /\ user[token[t].owner] # Null
    BY <1>1 DEF OnlyAge, Dead, InductiveInv, TokensOwned
  <2>2. ~ user'[token[t].owner].active
    BY <1>1, <1>4, <2>1 DEF OnlyAge
  <2> QED
    BY <1>1, <2>1, <2>2 DEF Dead
<1> QED
  BY <1>2, <1>3, <1>4 DEF Dead

\* A refresh that is doomed stays so.
LEMMA DoomedStays ==
  ASSUME InductiveInv, [Next]_vars, NEW c \in Calls, Doomed(c)
  PROVE  Doomed(c)'
<1>i. InductiveInv'
  BY BeginStep, QuietStep, RegisterCommitStep, LoginStoreStep,
     RefreshCommitStep, LogoutStep, DeactivateStep, TickStep
  DEF Next, Statement
<1>a. OnlyAge
  BY RowsAge
<1>1. ASSUME phase'[c] = phase[c], request'[c] = request[c],
             account'[c] = account[c]
      PROVE  Doomed(c)'
  <2>1. CASE At(c, "begun", "Refresh") /\ Dead(request[c].token)
    <3>1. request[c].token \in Tokens
      BY <2>1, RequestShapes, SessionsAssumption DEF InductiveInv, FoundStays, At
    <3>2. Dead(request[c].token)'
      <4> DEFINE t == request[c].token
      <4>1. \A s \in Tokens : Dead(s) => Dead(s)'
        BY <1>i, <1>a, DeadStays
      <4> QED
        BY <1>1, <2>1, <3>1, <4>1 DEF Dead
    <3> QED
      BY <1>1, <2>1, <3>2 DEF Doomed, At
  <2>2. CASE ~ (At(c, "begun", "Refresh") /\ Dead(request[c].token))
    BY <1>1, <1>a, <2>2 DEF Doomed, At, OnlyAge
  <2> QED
    BY <2>1, <2>2
<1>2. ASSUME Begin(c) \/ Statement(c) \/ Abort(c)
      PROVE  RefreshFind(c) \/ RefreshUser(c) \/ Abort(c)
  BY <1>2
  DEF Doomed, Begin, Statement, Abort, InWork, Answers, At, RegisterInsert,
      RegisterCommit, LoginFind, LoginStore, RefreshRevoke, RefreshCommit, Logout
<1>3. CASE RefreshFind(c)
  <2>1. CASE Refuse(c, "unauthorized")
    BY <2>1 DEF Refuse, End, GoTo, Doomed, InductiveInv, TypeOK
  <2>2. CASE Usable(request[c].token)
             /\ Proceed(c, "found", token[request[c].token].owner)
    <3> DEFINE t == request[c].token
    <3>1. Dead(t) /\ ~ token[t].revoked /\ ~ token[t].expires < clock
          /\ t \in Tokens /\ token[t] # Null /\ token[t] \in TokenRows
      <4>1. Dead(t) /\ t \in Tokens
        BY <1>3, RequestShapes, SessionsAssumption
        DEF RefreshFind, Doomed, At, InductiveInv, FoundStays
      <4>2. token[t] \in TokenRows /\ clock \in Nat
        BY <4>1, SessionsAssumption DEF Dead, InductiveInv, TypeOK
      <4> QED
        BY <2>2, <4>1, <4>2 DEF Usable, TokenRows
    <3>2. /\ token[t].owner \in Users /\ user[token[t].owner] # Null
          /\ ~ user[token[t].owner].active
      BY <3>1 DEF Dead, InductiveInv, TokensOwned, TokenRows
    <3>3. phase'[c] = "found" /\ account'[c] = token[t].owner
          /\ request' = request /\ user' = user
      BY <2>2 DEF Proceed, GoTo, tables, InductiveInv, TypeOK
    <3> QED
      BY <1>3, <3>2, <3>3 DEF Doomed, At, RefreshFind
  <2> QED
    BY <1>3, <2>1, <2>2 DEF RefreshFind
<1>4. CASE RefreshUser(c)
  <2>1. ~ user[account[c]].active
    BY <1>4 DEF RefreshUser, Doomed, At
  <2> QED
    BY <1>4, <2>1 DEF RefreshUser, Refuse, End, GoTo, Doomed, InductiveInv, TypeOK
<1>5. CASE Abort(c)
  BY <1>5 DEF Abort, Refuse, End, GoTo, Doomed, InductiveInv, TypeOK
<1>6. ASSUME NEW d \in Calls \ {c}, Begin(d) \/ Statement(d) \/ Abort(d)
      PROVE  /\ phase'[c] = phase[c] /\ request'[c] = request[c]
             /\ account'[c] = account[c]
  BY <1>6
  DEF Begin, Statement, Abort, Refuse, Proceed, End, GoTo, RegisterInsert,
      RegisterCommit, LoginFind, LoginStore, RefreshFind, RefreshUser,
      RefreshRevoke, RefreshCommit, Logout, InductiveInv, TypeOK
<1>7. ASSUME Tick \/ (\E u \in Users : Deactivate(u)) \/ UNCHANGED vars
      PROVE  /\ phase'[c] = phase[c] /\ request'[c] = request[c]
             /\ account'[c] = account[c]
  BY <1>7 DEF Tick, Deactivate, vars
<1> QED
  BY <1>1, <1>2, <1>3, <1>4, <1>5, <1>6, <1>7 DEF Next

\* A refresh that begins with a token that is revoked, expired or of an account
\* that is not active, and stays so, fails, whatever happens before it looks.
THEOREM DeadStayDead == Spec => DeadTokensStayDead
<1>1. ASSUME NEW c \in Calls
      PROVE  Spec => [](At(c, "begun", "Refresh") /\ Dead(request[c].token)
                          => [](phase[c] # "ok"))
  <2>1. At(c, "begun", "Refresh") /\ Dead(request[c].token) => Doomed(c)
    BY DEF Doomed
  <2>2. InductiveInv /\ Doomed(c) /\ [Next]_vars => Doomed(c)'
    BY DoomedStays
  <2>3. Doomed(c) => phase[c] # "ok"
    BY DEF Doomed, At
  <2> QED
    BY <2>1, <2>2, <2>3, Invariance, PTL DEF Spec
<1> QED
  BY <1>1 DEF DeadTokensStayDead
=============================================================================
