------------------------------- MODULE Sessions -------------------------------
(***************************************************************************)
(* Accounts and refresh tokens as AuthService keeps them in users and      *)
(* refresh_tokens, statement by statement.  Register stores an account and *)
(* its first token in one transaction; Login reads the account and stores  *)
(* a token later; Refresh reads the token, then its owner, and only then   *)
(* opens the transaction that revokes the token and stores its successor;  *)
(* Logout is one UPDATE.  A token stands for its hash, a password for the  *)
(* account that has it, and access tokens, which the server does not keep, *)
(* are left out.                                                           *)
(*                                                                         *)
(* Definitions marked "Fault:" are plausible bugs, used nowhere.           *)
(***************************************************************************)
EXTENDS Integers, FiniteSets

CONSTANTS
  Users,       \* identifiers of users rows
  Tokens,      \* refresh tokens, drawn at random by newRefreshToken
  Names,       \* usernames and e-mail addresses
  Null,        \* SQL NULL, no row
  RefreshTTL,  \* lifetime of a refresh token, in ticks of the clock
  MaxClock,    \* bound: the clock stops here
  Calls,       \* requests in flight
  Menu,        \* the requests clients may send
  Accounts,    \* the users table at the start
  Grants       \* the refresh_tokens table at the start

VARIABLES
  user,      \* committed users rows
  token,     \* committed refresh_tokens rows
  clock,     \* the server's clock
  phase,     \* how far a call has come, or how it was answered
  request,   \* what it was asked to do
  account,   \* the account it has read or written
  revoker,   \* the transaction that has revoked a token and not committed
  parent,    \* history: the token in exchange for which a token was given
  closed     \* history: tokens whose Logout was answered

tables  == <<user, token>>
history == <<parent, closed>>
vars    == <<tables, clock, phase, request, account, revoker, history>>

UserRows  == [username : Names, email : Names, active : BOOLEAN]
TokenRows == [owner : Users, expires : Nat, revoked : BOOLEAN]

Requests ==
  [op : {"Register"}, username : Names, email : Names]
    \cup [op : {"Login"}, identifier : Names, password : Users]
    \cup [op : {"Refresh", "Logout"}, token : Tokens]

\* Answers are named for their status: 2xx, 401, 409 and 500.
Answers   == {"ok", "unauthorized", "conflict", "failed"}
Phases    == {"new", "begun", "found", "checked", "ready"} \cup Answers
InWork(c) == phase[c] \notin {"new"} \cup Answers

\* Two accounts that the unique indexes of users keep apart.
Clash(name, email, other) == name = other.username \/ email = other.email

ASSUME SessionsAssumption ==
  /\ Null \notin Users \cup Tokens \cup Calls \cup UserRows \cup TokenRows
  /\ RefreshTTL \in Nat /\ MaxClock \in Nat
  /\ Menu \subseteq Requests
  /\ Accounts \in [Users -> UserRows \cup {Null}]
  /\ Grants \in [Tokens -> TokenRows \cup {Null}]
  /\ \A t \in Tokens : Grants[t] # Null =>
       ~ Grants[t].revoked /\ Accounts[Grants[t].owner] # Null
  /\ \A u, v \in Users : u # v /\ Accounts[u] # Null /\ Accounts[v] # Null =>
       ~ Clash(Accounts[u].username, Accounts[u].email, Accounts[v])

Init ==
  /\ user    = Accounts
  /\ token   = Grants
  /\ clock   = 0
  /\ phase   = [c \in Calls |-> "new"]
  /\ request = [c \in Calls |-> Null]
  /\ account = [c \in Calls |-> Null]
  /\ revoker = [t \in Tokens |-> Null]
  /\ parent  = [t \in Tokens |-> Null]
  /\ closed  = {}

-----------------------------------------------------------------------------
GoTo(c, p)   == phase' = [phase EXCEPT ![c] = p]
At(c, p, op) == phase[c] = p /\ request[c].op = op

Begin(c) ==
  /\ phase[c] = "new" /\ GoTo(c, "begun")
  /\ \E r \in Menu : request' = [request EXCEPT ![c] = r]
  /\ UNCHANGED <<tables, clock, account, revoker, history>>

\* A statement that only reads, or writes what nobody else sees yet.
Proceed(c, p, u) ==
  /\ GoTo(c, p)
  /\ account' = [account EXCEPT ![c] = u]
  /\ UNCHANGED <<tables, clock, request, revoker, history>>

\* The call is answered and its transaction, if it has one, is over.
End(c, outcome) ==
  /\ GoTo(c, outcome)
  /\ account' = [account EXCEPT ![c] = Null]
  /\ revoker' = [t \in Tokens |-> IF revoker[t] = c THEN Null ELSE revoker[t]]
  /\ UNCHANGED <<clock, request>>

Refuse(c, outcome) == End(c, outcome) /\ UNCHANGED <<tables, history>>

\* The row of a new token of owner u.
Fresh(u) == [owner |-> u, expires |-> clock + RefreshTTL, revoked |-> FALSE]

-----------------------------------------------------------------------------
(* Register                                                                *)

\* Fault: names are looked up among the committed accounts only.
RegisterInsertEager(c) ==
  LET r == request[c] IN
  /\ At(c, "begun", "Register")
  /\ \/ /\ \E u \in Users :
             user[u] # Null /\ Clash(r.username, r.email, user[u])
        /\ Refuse(c, "conflict")
     \/ /\ \A u \in Users :
             user[u] # Null => ~ Clash(r.username, r.email, user[u])
        /\ \E u \in Users :
             /\ user[u] = Null /\ \A d \in Calls : account[d] # u
             /\ Proceed(c, "ready", u)

\* INSERT INTO users: waits for a transaction that has inserted the same
\* username or e-mail and may still give it up.
RegisterInsert(c) ==
  LET r == request[c] IN
  /\ At(c, "begun", "Register")
  /\ \A d \in Calls : At(d, "ready", "Register")
       => ~ Clash(r.username, r.email, request[d])
  /\ \/ /\ \E u \in Users :
             user[u] # Null /\ Clash(r.username, r.email, user[u])
        /\ Refuse(c, "conflict")
     \/ /\ \A u \in Users :
             user[u] # Null => ~ Clash(r.username, r.email, user[u])
        /\ \E u \in Users :
             /\ user[u] = Null /\ \A d \in Calls : account[d] # u
             /\ Proceed(c, "ready", u)

\* Fault: the account is stored on its own and storing the token fails.
RegisterCommitAlone(c) ==
  LET r == request[c] IN
  /\ At(c, "ready", "Register")
  /\ user' = [user EXCEPT ![account[c]] =
                [username |-> r.username, email |-> r.email, active |-> TRUE]]
  /\ End(c, "failed") /\ UNCHANGED <<token, history>>

\* INSERT INTO refresh_tokens and COMMIT.
RegisterCommit(c) ==
  LET r == request[c] IN
  /\ At(c, "ready", "Register")
  /\ user' = [user EXCEPT ![account[c]] =
                [username |-> r.username, email |-> r.email, active |-> TRUE]]
  /\ \E t \in Tokens :
       token[t] = Null /\ token' = [token EXCEPT ![t] = Fresh(account[c])]
  /\ End(c, "ok") /\ UNCHANGED history

-----------------------------------------------------------------------------
(* Login                                                                   *)

Named(identifier) ==
  {u \in Users : user[u] # Null
                   /\ identifier \in {user[u].username, user[u].email}}

\* username = $1 OR email = $1, of which QueryRow takes the first row.
LoginFind(c) ==
  LET r == request[c] IN
  /\ At(c, "begun", "Login")
  /\ \/ \E u \in Named(r.identifier) :
          \/ user[u].active /\ r.password = u /\ Proceed(c, "ready", u)
          \/ ~ (user[u].active /\ r.password = u) /\ Refuse(c, "unauthorized")
     \/ Named(r.identifier) = {} /\ Refuse(c, "unauthorized")

LoginStore(c) ==
  /\ At(c, "ready", "Login")
  /\ \E t \in Tokens :
       token[t] = Null /\ token' = [token EXCEPT ![t] = Fresh(account[c])]
  /\ End(c, "ok") /\ UNCHANGED <<user, history>>

-----------------------------------------------------------------------------
(* Refresh and Logout                                                      *)

\* Fault: the revoked flag is not looked at.
UsableExpiryOnly(t) == token[t] # Null /\ clock <= token[t].expires

\* A token that Refresh accepts when it reads it.
Usable(t) ==
  token[t] # Null /\ ~ token[t].revoked /\ clock <= token[t].expires

RefreshFind(c) ==
  LET t == request[c].token IN
  /\ At(c, "begun", "Refresh")
  /\ \/ Usable(t) /\ Proceed(c, "found", token[t].owner)
     \/ ~ Usable(t) /\ Refuse(c, "unauthorized")

RefreshUser(c) ==
  /\ At(c, "found", "Refresh")
  /\ \/ user[account[c]].active /\ Proceed(c, "checked", account[c])
     \/ ~ user[account[c]].active /\ Refuse(c, "unauthorized")

\* Fault: the token is revoked on the pool, before the transaction begins.
RefreshRevokeAlone(c) ==
  LET t == request[c].token IN
  /\ At(c, "checked", "Refresh") /\ revoker[t] = Null
  /\ token' = [token EXCEPT ![t].revoked = TRUE]
  /\ GoTo(c, "ready")
  /\ UNCHANGED <<user, clock, request, account, revoker, history>>

\* UPDATE refresh_tokens SET revoked = true: waits for another revocation of
\* the row, and finds the row whether it is revoked by then or not.
RefreshRevoke(c) ==
  LET t == request[c].token IN
  /\ At(c, "checked", "Refresh") /\ revoker[t] = Null
  /\ revoker' = [revoker EXCEPT ![t] = c]
  /\ GoTo(c, "ready")
  /\ UNCHANGED <<tables, clock, request, account, history>>

\* INSERT of the successor and COMMIT.
RefreshCommit(c) ==
  LET old == request[c].token IN
  /\ At(c, "ready", "Refresh")
  /\ \E t \in Tokens :
       /\ token[t] = Null
       /\ token' = [token EXCEPT ![t] = Fresh(account[c]),
                                 ![old].revoked = TRUE]
       /\ parent' = [parent EXCEPT ![t] = old]
  /\ End(c, "ok") /\ UNCHANGED <<user, closed>>

\* A token nobody has is logged out already.
Logout(c) ==
  LET t == request[c].token IN
  /\ At(c, "begun", "Logout") /\ revoker[t] = Null
  /\ \/ /\ token[t] # Null
        /\ token'  = [token EXCEPT ![t].revoked = TRUE]
        /\ closed' = closed \cup {t}
     \/ token[t] = Null /\ UNCHANGED <<token, closed>>
  /\ End(c, "ok") /\ UNCHANGED <<user, parent>>

-----------------------------------------------------------------------------
(* Failure and environment                                                 *)

\* A statement fails, the client leaves or the process dies: rollback.
Abort(c) == InWork(c) /\ Refuse(c, "failed")

\* No endpoint deactivates an account; an operator does in the database.  To
\* make it active again, which Gate's SetAccount does, is left out here.
Deactivate(u) ==
  /\ user[u] # Null /\ user[u].active
  /\ user' = [user EXCEPT ![u].active = FALSE]
  /\ UNCHANGED <<token, clock, phase, request, account, revoker, history>>

Tick ==
  /\ clock < MaxClock /\ clock' = clock + 1
  /\ UNCHANGED <<tables, phase, request, account, revoker, history>>

Statement(c) ==
  \/ RegisterInsert(c) \/ RegisterCommit(c) \/ LoginFind(c) \/ LoginStore(c)
  \/ RefreshFind(c) \/ RefreshUser(c) \/ RefreshRevoke(c) \/ RefreshCommit(c)
  \/ Logout(c)

Next ==
  \/ \E c \in Calls : Begin(c) \/ Statement(c) \/ Abort(c)
  \/ \E u \in Users : Deactivate(u)
  \/ Tick

Spec == Init /\ [][Next]_vars

-----------------------------------------------------------------------------
(* Properties                                                              *)

\* Every row and every call is well formed.
TypeOK ==
  /\ user    \in [Users -> UserRows \cup {Null}]
  /\ token   \in [Tokens -> TokenRows \cup {Null}]
  /\ clock   \in 0 .. MaxClock
  /\ phase   \in [Calls -> Phases]
  /\ request \in [Calls -> Menu \cup {Null}]
  /\ account \in [Calls -> Users \cup {Null}]
  /\ revoker \in [Tokens -> Calls \cup {Null}]
  /\ parent  \in [Tokens -> Tokens \cup {Null}]
  /\ closed  \subseteq Tokens

\* Rotation is whole: a token given in exchange means its predecessor is
\* revoked, and a token is revoked only if it was exchanged or logged out, so
\* a refresh that fails half way leaves its client the token it had.
RotationIsWhole ==
  \A t \in Tokens :
    /\ parent[t] # Null => token[t] # Null /\ token[parent[t]].revoked
    /\ token[t] # Null /\ token[t].revoked =>
         t \in closed \/ \E s \in Tokens : parent[s] = t

\* Registration is whole: whoever has an account got a token with it.
RegistrationIsWhole ==
  \A u \in Users : user[u] # Null /\ Accounts[u] = Null =>
    \E t \in Tokens :
      token[t] # Null /\ token[t].owner = u /\ parent[t] = Null

\* No account is entered twice, even by registrations that run together.
AccountsDistinct ==
  \A u, v \in Users : u # v /\ user[u] # Null /\ user[v] # Null =>
    ~ Clash(user[u].username, user[u].email, user[v])

\* The token is revoked or expired, or its owner may not have sessions.
Dead(t) ==
  token[t] # Null /\ \/ token[t].revoked
                     \/ token[t].expires < clock
                     \/ ~ user[token[t].owner].active

\* A refresh that begins when its token is dead never succeeds, whatever the
\* other calls do meanwhile; an owner who is not active stays so.
DeadTokensStayDead ==
  \A c \in Calls :
    [](At(c, "begun", "Refresh") /\ Dead(request[c].token)
         => [](phase[c] # "ok"))

\* "the old token dies and a new pair is issued"
\* (internal/services/auth_test.go:171): a token is exchanged once.
ExchangedOnce ==
  \A s, t \in Tokens : parent[s] # Null /\ parent[s] = parent[t] => s = t

-----------------------------------------------------------------------------
(* The inductive invariant of the proofs                                   *)

\* Tokens belong to accounts, and only tokens that exist were exchanged.
TokensOwned ==
  \A t \in Tokens :
    /\ token[t] # Null => user[token[t].owner] # Null
    /\ parent[t] # Null => token[t] # Null /\ token[parent[t]] # Null

\* What a call has found is still there.
FoundStays ==
  \A c \in Calls :
    /\ phase[c] # "new" => request[c] \in Menu
    /\ At(c, "ready", "Login") => account[c] \in Users /\ user[account[c]] # Null
    /\ phase[c] \in {"found", "checked", "ready"} /\ request[c].op = "Refresh"
         => /\ account[c] \in Users /\ user[account[c]] # Null
            /\ token[request[c].token] # Null

\* An account that is inserted and not committed is new, and clashes with no
\* other, committed or not.
InsertedApart ==
  \A c \in Calls : At(c, "ready", "Register") =>
    /\ account[c] \in Users /\ user[account[c]] = Null
    /\ \A u \in Users : user[u] # Null =>
         ~ Clash(request[c].username, request[c].email, user[u])
    /\ \A d \in Calls \ {c} : At(d, "ready", "Register") =>
         /\ account[d] # account[c]
         /\ ~ Clash(request[c].username, request[c].email, request[d])

\* What every step preserves, from which the safety properties follow: what a
\* call has read or inserted is not overtaken before it commits.
InductiveInv ==
  /\ TypeOK
  /\ TokensOwned
  /\ FoundStays
  /\ InsertedApart
  /\ RotationIsWhole
  /\ RegistrationIsWhole
  /\ AccountsDistinct
=============================================================================
