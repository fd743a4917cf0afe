-------------------------------- MODULE Gate --------------------------------
(***************************************************************************)
(* The way of a request through the HTTP layer: the routes and their       *)
(* middleware (internal/routers, internal/middleware), and the access      *)
(* tokens that carry a user's role (internal/services/auth.go).            *)
(*                                                                         *)
(* The server keeps no access token.  A token states the role its user had *)
(* when Login, Refresh or Register read or made the account; the           *)
(* middleware believes it until it expires, whatever becomes of the        *)
(* account, and a handler works on after the check.  What a user who loses *)
(* a role may still do is therefore a matter of time and of overlap.       *)
(*                                                                         *)
(* Definitions marked "Fault:" are plausible bugs, used nowhere.           *)
(***************************************************************************)
EXTENDS Integers

CONSTANTS
  Users,       \* the users
  Calls,       \* the requests that can be under way at once
  AccessTTL,   \* how many ticks an access token lives
  Null         \* no account, no claim, no route

VARIABLES
  account,     \* the row of users: role and is_active, or Null
  life,        \* how long the freshest token of a user and a role still lives
  call         \* what each request has come to

vars == <<account, life, call>>

-----------------------------------------------------------------------------
(* The routes: who may use them, and when and how they refuse              *)

Roles    == {"ADMIN", "OPERATOR", "VIEWER"}
Staff    == {"ADMIN", "OPERATOR"}
Managers == {"ADMIN"}
Public   == {}

\* The situations in which a handler may refuse, as its annotation lists it.
Agreements ==
  {"ill-formed", "not identified", "no such row", "taken", "state forbids",
   "stock too small", "rule forbids"}

\* Those in which it does not answer what its annotation lists:
\*  - Logout of a token that is not stored: 401 listed (auth.go:69), 204 given;
\*  - a password of 72 characters but more bytes passes the validator and then
\*    fails in bcrypt: 400 listed (auth.go:109), 500 given;
\*  - Adjust does not look at the state of the batch: 409 listed
\*    (inventory.go:37), 201 given;
\*  - an adjustment below zero: 422 listed (inventory.go:38), 409 given;
\*  - Consume does not look the product up: 404 listed (inventory.go:66), 409
\*    given, or 201 if a deleted product has ACTIVE batches;
\*  - Update does not tell a taken SKU from a failure: 409 listed
\*    (products.go:115), 500 given;
\*  - an input batch whose product was deleted: 404 listed (production.go:63),
\*    500 given;
\*  - packaging as an input: 422 listed (production.go:64), 201 given;
\*  - a completion whose input is too small: 409 given, and listed for the state
\*    of the order only (production.go:95);
\*  - the health check that does not reach the database, which has no annotation.
Disagreements ==
  {"token to revoke unknown", "password over 72 bytes", "batch not to be adjusted",
   "adjustment exceeds stock", "product to sell unknown", "SKU changed to a taken one",
   "input of a deleted product", "input is packaging", "input too small",
   "database unreachable"}

\* What a request has come to, and if it was refused, why.
Reasons == Agreements \cup Disagreements \cup {"pending", "turned away", "served", "failure"}

\* A refusal: the situation, the error the code makes of it ("none" if the
\* request is served all the same), and the status the annotations of the
\* handler list for that situation (0 if they list none).
Refusal(why, error, documented) ==
  [why |-> why, error |-> error, documented |-> documented]

IllBody  == Refusal("ill-formed", "invalid body", 400)
IllValue == Refusal("ill-formed", "ErrInvalidRequest", 400)
BadLogin == Refusal("not identified", "ErrInvalidCredentials", 401)
BadToken == Refusal("not identified", "ErrInvalidRefreshToken", 401)

NoProduct == Refusal("no such row", "ErrProductNotFound", 404)
NoBatch   == Refusal("no such row", "ErrBatchNotFound", 404)
NoOrder   == Refusal("no such row", "ErrProductionOrderNotFound", 404)

NameTaken  == Refusal("taken", "ErrDuplicate", 409)
SKUTaken   == Refusal("taken", "ErrDuplicateSKU", 409)
HasBatches == Refusal("state forbids", "ErrProductHasActiveBatches", 409)
BatchState == Refusal("state forbids", "ErrInvalidBatchState", 409)
OrderState == Refusal("state forbids", "ErrInvalidProductionOrderState", 409)
Short      == Refusal("stock too small", "ErrInsufficientStock", 409)

Undated    == Refusal("rule forbids", "ErrExpirationRequired", 422)
WrongGoods == Refusal("rule forbids", "ErrInvalidProductionInput", 422)

\* The code does otherwise than the annotation says.
UnknownToken   == Refusal("token to revoke unknown", "none", 401)
LongPassword   == Refusal("password over 72 bytes", "bcrypt", 400)
AnyBatchState  == Refusal("batch not to be adjusted", "none", 409)
Exceeds        == Refusal("adjustment exceeds stock", "ErrInsufficientStock", 422)
UnknownProduct == Refusal("product to sell unknown", "ErrInsufficientStock", 404)
DeletedProduct == Refusal("product to sell unknown", "none", 404)
SKUReassigned  == Refusal("SKU changed to a taken one", "unique violation", 409)
InputDeleted   == Refusal("input of a deleted product", "get input product", 404)
PackagingInput == Refusal("input is packaging", "none", 422)

\* The annotation lists no status for it, or the handler has no annotation.
InputShort  == Refusal("input too small", "ErrInsufficientStock", 0)
Unreachable == Refusal("database unreachable", "unreachable", 0)

\* A handler: the roles its middleware admits, its success, its refusals.
Route(roles, success, refusals) ==
  [roles |-> roles, success |-> success, refusals |-> refusals]

Register == Route(Public, 201, {IllBody, NameTaken, LongPassword})
Login    == Route(Public, 200, {IllBody, BadLogin})
Refresh  == Route(Public, 200, {IllBody, BadToken})
Logout   == Route(Public, 204, {IllBody, UnknownToken})
Me       == Route(Roles, 200, {BadLogin})

Receive       == Route(Staff, 201, {IllBody, IllValue, NoProduct, Undated})
Quarantine    == Route(Staff, 200, {IllValue, NoBatch, BatchState})
ListByProduct == Route(Roles, 200, {IllValue, NoProduct})

CreateProduct == Route(Staff, 201, {IllBody, SKUTaken})
ListProducts  == Route(Roles, 200, {IllValue})
GetProduct    == Route(Roles, 200, {IllValue, NoProduct})
UpdateProduct == Route(Managers, 200, {IllBody, IllValue, NoProduct, SKUReassigned})
DeleteProduct == Route(Managers, 204, {IllValue, NoProduct, HasBatches})

Adjust  == Route(Staff, 201, {IllBody, IllValue, NoBatch, AnyBatchState, Exceeds})
Consume == Route(Staff, 201, {IllBody, IllValue, Short, UnknownProduct, DeletedProduct})
ListTransactions == Route(Roles, 200, {IllValue})

CreateOrder == Route(Staff, 201, {IllBody, IllValue, NoProduct, NoBatch, WrongGoods,
                                  InputDeleted, PackagingInput})
StartOrder    == Route(Staff, 200, {IllValue, NoOrder, OrderState})
CompleteOrder == Route(Staff, 200, {IllValue, NoOrder, OrderState, InputShort})
CancelOrder   == Route(Managers, 200, {IllValue, NoOrder, OrderState})
ListOrders    == Route(Roles, 200, {IllValue})
GetOrder      == Route(Roles, 200, {IllValue, NoOrder})
Health        == Route(Public, 200, {Unreachable})

Routes ==
  [register |-> Register, login |-> Login, refresh |-> Refresh, logout |-> Logout,
   me |-> Me, receive |-> Receive, quarantine |-> Quarantine,
   listByProduct |-> ListByProduct, createProduct |-> CreateProduct,
   listProducts |-> ListProducts, getProduct |-> GetProduct,
   updateProduct |-> UpdateProduct, deleteProduct |-> DeleteProduct,
   adjust |-> Adjust, consume |-> Consume, listTransactions |-> ListTransactions,
   createOrder |-> CreateOrder, startOrder |-> StartOrder,
   completeOrder |-> CompleteOrder, cancelOrder |-> CancelOrder,
   listOrders |-> ListOrders, getOrder |-> GetOrder, health |-> Health]

Issuers == {"register", "login", "refresh"}

\* Fault: writeError has no case for a shortage.
ConflictsButShortage ==
  {"ErrDuplicate", "ErrDuplicateSKU", "ErrProductHasActiveBatches",
   "ErrInvalidBatchState", "ErrInvalidProductionOrderState"}

\* The errors that stand for a conflict with what is there.
Conflicts ==
  {"ErrDuplicate", "ErrDuplicateSKU", "ErrProductHasActiveBatches",
   "ErrInvalidBatchState", "ErrInvalidProductionOrderState", "ErrInsufficientStock"}

\* The status of an error: writeError, and /health for its own.
StatusOf(error) ==
  IF error \in {"ErrInvalidRequest", "invalid body"} THEN 400
  ELSE IF error \in {"ErrInvalidCredentials", "ErrInvalidRefreshToken", "no token"}
       THEN 401
  ELSE IF error = "insufficient role" THEN 403
  ELSE IF error \in {"ErrProductNotFound", "ErrBatchNotFound",
                     "ErrProductionOrderNotFound", "no route"} THEN 404
  ELSE IF error = "wrong method" THEN 405
  ELSE IF error \in Conflicts THEN 409
  ELSE IF error \in {"ErrExpirationRequired", "ErrInvalidProductionInput"} THEN 422
  ELSE IF error = "unreachable" THEN 503
  ELSE 500

-----------------------------------------------------------------------------
(* Accounts and tokens                                                     *)

Account  == [role : Roles, active : BOOLEAN]
Claims   == Users \X Roles

ASSUME GateAssumption ==
  /\ AccessTTL \in Nat \ {0}
  /\ Null \notin Account \cup Claims \cup DOMAIN Routes

\* The account of u is active and has role r.
Has(u, r) == account[u] = [role |-> r, active |-> TRUE]

Idle == [at |-> "idle", route |-> Null, claim |-> Null, status |-> 0, why |-> "pending"]

Init ==
  /\ account \in [Users -> Account \cup {Null}]
  /\ life = [k \in Claims |-> 0]
  /\ call = [c \in Calls |-> Idle]

\* The administrator of the database gives or takes a role, or (de)activates.
SetAccount(u) ==
  /\ account[u] # Null
  /\ \E a \in Account \ {account[u]} : account' = [account EXCEPT ![u] = a]
  /\ UNCHANGED <<life, call>>

\* Time passes and every token is nearer to its expiry.
Tick ==
  /\ \E k \in Claims : life[k] > 0
  /\ life' = [k \in Claims |-> IF life[k] > 0 THEN life[k] - 1 ELSE 0]
  /\ UNCHANGED <<account, call>>

-----------------------------------------------------------------------------
(* A request                                                               *)

\* The answer, and the situation that called for it.
Answer(c, status, why) ==
  call' = [call EXCEPT ![c] = [at |-> "answered", route |-> Null, claim |-> Null,
                               status |-> status, why |-> why]]

\* The handler takes over, on the claim of the token, if the route has any.
Admit(c, name, claim) ==
  call' = [call EXCEPT ![c] = [at |-> "serving", route |-> name, claim |-> claim,
                               status |-> 0, why |-> "pending"]]

\* CORS answers a preflight before anything else; what matches no route is
\* refused by the router, and under a protected prefix by Auth.
Stray(c) ==
  /\ call[c].at = "idle"
  /\ \/ Answer(c, 204, "turned away")
     \/ \E error \in {"no route", "wrong method", "no token"} :
          Answer(c, StatusOf(error), "turned away")
  /\ UNCHANGED <<account, life>>

\* A public route has no Auth in its chain.
EnterPublic(c, name) ==
  /\ call[c].at = "idle"
  /\ Routes[name].roles = Public
  /\ Admit(c, name, Null)
  /\ UNCHANGED <<account, life>>

\* Auth: the token is missing, malformed, ill-signed or expired.
Unauthenticated(c, name) ==
  /\ call[c].at = "idle"
  /\ Routes[name].roles # Public
  /\ Answer(c, StatusOf("no token"), "turned away")
  /\ UNCHANGED <<account, life>>

\* Fault: Auth does not require the token to be unexpired.
EnterExpired(c, name, k) ==
  /\ call[c].at = "idle"
  /\ Routes[name].roles # Public
  /\ k[2] \in Routes[name].roles
  /\ Admit(c, name, k)
  /\ UNCHANGED <<account, life>>

\* Auth believes a live token; RequireRole compares the role it claims.
Enter(c, name, k) ==
  /\ call[c].at = "idle"
  /\ Routes[name].roles # Public
  /\ life[k] > 0
  /\ IF k[2] \in Routes[name].roles
     THEN Admit(c, name, k)
     ELSE Answer(c, StatusOf("insufficient role"), "turned away")
  /\ UNCHANGED <<account, life>>

\* The status of an answer in a situation: of its error, or of success.
StatusIn(route, x) == IF x.error = "none" THEN route.success ELSE StatusOf(x.error)

\* The handler cannot decode the body, or the service refuses; or either passes
\* over a situation in which its annotation has it refuse.
Refuse(c) ==
  /\ call[c].at = "serving"
  /\ \E x \in Routes[call[c].route].refusals :
       Answer(c, StatusIn(Routes[call[c].route], x), x.why)
  /\ UNCHANGED <<account, life>>

\* The service fails or panics; issuing tokens may fail too.
Fail(c) ==
  /\ call[c].at \in {"serving", "issuing"}
  /\ Answer(c, StatusOf("failure"), "failure")
  /\ UNCHANGED <<account, life>>

\* The service succeeds.
Serve(c) ==
  /\ call[c].at = "serving"
  /\ call[c].route \notin Issuers
  /\ Answer(c, Routes[call[c].route].success, "served")
  /\ UNCHANGED <<account, life>>

Issuing(c, k) ==
  call' = [call EXCEPT ![c] = [at |-> "issuing", route |-> call[c].route, claim |-> k,
                               status |-> 0, why |-> "pending"]]

\* Register commits an account of its own, with the least role.
CreateAccount(c, u) ==
  /\ call[c].at = "serving"
  /\ call[c].route = "register"
  /\ account[u] = Null
  /\ account' = [account EXCEPT ![u] = [role |-> "VIEWER", active |-> TRUE]]
  /\ Issuing(c, <<u, "VIEWER">>)
  /\ UNCHANGED life

\* Fault: Refresh does not look at is_active.
ReadAccountAny(c, u) ==
  /\ call[c].at = "serving"
  /\ call[c].route \in {"login", "refresh"}
  /\ account[u] # Null
  /\ Issuing(c, <<u, account[u].role>>)
  /\ UNCHANGED <<account, life>>

\* Login and Refresh read the account, once, and refuse an inactive one.
ReadAccount(c, u) ==
  /\ call[c].at = "serving"
  /\ call[c].route \in {"login", "refresh"}
  /\ account[u] # Null
  /\ account[u].active
  /\ Issuing(c, <<u, account[u].role>>)
  /\ UNCHANGED <<account, life>>

\* issueAccessToken signs the role that was read, for AccessTTL from now.
Issue(c) ==
  /\ call[c].at = "issuing"
  /\ life' = [life EXCEPT ![call[c].claim] = AccessTTL]
  /\ Answer(c, Routes[call[c].route].success, "served")
  /\ UNCHANGED account

\* The answer has gone out.
Leave(c) ==
  /\ call[c].at = "answered"
  /\ call' = [call EXCEPT ![c] = Idle]
  /\ UNCHANGED <<account, life>>

\* What a handler does once its request has entered.
Handle(c) ==
  \/ Refuse(c) \/ Fail(c) \/ Serve(c) \/ Issue(c) \/ Leave(c)
  \/ \E u \in Users : CreateAccount(c, u) \/ ReadAccount(c, u)

Arrive(c) ==
  \/ Stray(c)
  \/ \E name \in DOMAIN Routes :
       \/ EnterPublic(c, name)
       \/ Unauthenticated(c, name)
       \/ \E k \in Claims : Enter(c, name, k)

Next ==
  \/ Tick
  \/ \E u \in Users : SetAccount(u)
  \/ \E c \in Calls : Arrive(c) \/ Handle(c)

Spec == Init /\ [][Next]_vars

\* Time passes, and a handler that has begun ends.
FairSpec == Spec /\ WF_vars(Tick) /\ \A c \in Calls : WF_vars(Handle(c))

-----------------------------------------------------------------------------
(* Properties                                                              *)

Call ==
  [at : {"idle", "serving", "issuing", "answered"}, route : DOMAIN Routes \cup {Null},
   claim : Claims \cup {Null}, status : Nat, why : Reasons]

\* Every account, token and request is well formed; only a call that issues
\* a token, or was let in by one, works on a claim.
TypeOK ==
  /\ account \in [Users -> Account \cup {Null}]
  /\ life \in [Claims -> 0..AccessTTL]
  /\ call \in [Calls -> Call]
  /\ \A c \in Calls :
       /\ call[c].at \in {"serving", "issuing"} => call[c].route \in DOMAIN Routes
       /\ call[c].at = "issuing" => call[c].claim \in Claims

\* u no longer has role r, or is inactive, and nothing is left of the time
\* when it was otherwise: no live token that says so, and no call that works
\* on one or is about to issue one.
CutOff(u, r) ==
  /\ ~ Has(u, r)
  /\ life[<<u, r>>] = 0
  /\ \A c \in Calls : call[c].claim # <<u, r>>

\* A user who is cut off from a role stays cut off until the account is given
\* the role again: no refresh, no request that began earlier, and no token
\* that is still presented brings the authority back.
CutOffIsFinal ==
  [][\A u \in Users, r \in Roles : CutOff(u, r) => CutOff(u, r)' \/ Has(u, r)']_vars

\* Taking a role or an account away takes effect in the end, although neither
\* the middleware nor Me looks at the account: the tokens run out, and neither
\* Login nor Refresh renews them.
RevocationTakesEffect ==
  \A u \in Users, r \in Roles : <>[](~ Has(u, r)) => <>[]CutOff(u, r)

\* A handler that has begun answers its success, or 500 to a failure, or what
\* its annotation lists for the very situation, in all situations but the
\* Disagreements and in none of those.
AnswersDocumented ==
  [][\A c \in Calls :
       call[c].at \in {"serving", "issuing"} /\ call'[c].at = "answered" =>
         \/ /\ call'[c].why = "served"
            /\ call'[c].status = Routes[call[c].route].success
         \/ /\ call'[c].why = "failure"
            /\ call'[c].status = 500
         \/ \E x \in Routes[call[c].route].refusals :
              /\ call'[c].why = x.why
              /\ call'[c].status = x.documented <=> x.why \in Agreements]_vars

=============================================================================
