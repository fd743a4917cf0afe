----------------------------- MODULE GateProofs -----------------------------
(***************************************************************************)
(* Proofs about Gate, for any users, requests and lifetime of tokens.      *)
(***************************************************************************)
EXTENDS Gate, TLAPS

\* The outcomes that are no refusals.
LEMMA OutcomeTypes ==
  /\ "pending" \in Reasons /\ "turned away" \in Reasons
  /\ "served" \in Reasons /\ "failure" \in Reasons
  BY DEF Reasons

\* A status is a number.
LEMMA StatusType ==
  ASSUME NEW error
  PROVE  StatusOf(error) \in Nat
  BY SMTT(30) DEF StatusOf

\* The error is one, and answered with that status.
Answers(error, status) == error # "none" /\ StatusOf(error) = status

\* The two statuses differ.
Unlike(status, documented) == status # documented

\* A status that is not one of success.
NoSuccess(status) == status \notin {200, 201, 204}

\* The situation is one of the disagreements only.
Differs(why) == why \in Disagreements /\ why \notin Agreements

\* The refusals, by what becomes of them: those answered as they are listed,
\* those answered otherwise, and those passed over.
Listed ==
  {IllBody, IllValue, BadLogin, BadToken, NoProduct, NoBatch, NoOrder, NameTaken,
   SKUTaken, HasBatches, BatchState, OrderState, Short, Undated, WrongGoods}
Otherwise ==
  {LongPassword, Exceeds, UnknownProduct, SKUReassigned, InputDeleted, InputShort,
   Unreachable}
PassedOver == {UnknownToken, AnyBatchState, DeletedProduct, PackagingInput}

\* What is said of each.
AsListed(x) ==
  x.why \in Agreements /\ x.error # "none" /\ StatusOf(x.error) = x.documented
NotAsListed(x) ==
  Differs(x.why) /\ x.error # "none" /\ StatusOf(x.error) # x.documented
Served(x) ==
  Differs(x.why) /\ x.error = "none" /\ NoSuccess(x.documented)

LEMMA ListedRefusal ==
  ASSUME NEW w \in Agreements, NEW e, NEW s, Answers(e, s)
  PROVE  AsListed(Refusal(w, e, s))
  BY DEF AsListed, Answers, Refusal

LEMMA OtherRefusal ==
  ASSUME NEW w, Differs(w), NEW e, NEW s, Answers(e, s), NEW d, Unlike(s, d)
  PROVE  NotAsListed(Refusal(w, e, d))
  BY DEF NotAsListed, Answers, Unlike, Refusal

LEMMA ServedRefusal ==
  ASSUME NEW w, Differs(w), NEW d, NoSuccess(d)
  PROVE  Served(Refusal(w, "none", d))
  BY DEF Served, Refusal

\* A refusal of the first kind is answered with the status that is listed.
LEMMA ListedAnswers == \A x \in Listed : AsListed(x)
<1>1. AsListed(IllBody)
  <2>1. "ill-formed" \in Agreements
    BY DEF Agreements
  <2>2. Answers("invalid body", 400)
    BY DEF Answers, StatusOf
  <2> QED BY <2>1, <2>2, ListedRefusal, ZenonT(60) DEF IllBody
<1>2. AsListed(IllValue)
  <2>1. "ill-formed" \in Agreements
    BY DEF Agreements
  <2>2. Answers("ErrInvalidRequest", 400)
    BY DEF Answers, StatusOf
  <2> QED BY <2>1, <2>2, ListedRefusal, ZenonT(60) DEF IllValue
<1>3. AsListed(BadLogin)
  <2>1. "not identified" \in Agreements
    BY DEF Agreements
  <2>2. Answers("ErrInvalidCredentials", 401)
    BY DEF Answers, StatusOf
  <2> QED BY <2>1, <2>2, ListedRefusal, ZenonT(60) DEF BadLogin
<1>4. AsListed(BadToken)
  <2>1. "not identified" \in Agreements
    BY DEF Agreements
  <2>2. Answers("ErrInvalidRefreshToken", 401)
    BY DEF Answers, StatusOf
  <2> QED BY <2>1, <2>2, ListedRefusal, ZenonT(60) DEF BadToken
<1>5. AsListed(NoProduct)
  <2>1. "no such row" \in Agreements
    BY DEF Agreements
  <2>2. Answers("ErrProductNotFound", 404)
    BY DEF Answers, StatusOf
  <2> QED BY <2>1, <2>2, ListedRefusal, ZenonT(60) DEF NoProduct
<1>6. AsListed(NoBatch)
  <2>1. "no such row" \in Agreements
    BY DEF Agreements
  <2>2. Answers("ErrBatchNotFound", 404)
    BY DEF Answers, StatusOf
  <2> QED BY <2>1, <2>2, ListedRefusal, ZenonT(60) DEF NoBatch
<1>7. AsListed(NoOrder)
  <2>1. "no such row" \in Agreements
    BY DEF Agreements
  <2>2. Answers("ErrProductionOrderNotFound", 404)
    BY DEF Answers, StatusOf
  <2> QED BY <2>1, <2>2, ListedRefusal, ZenonT(60) DEF NoOrder
<1>8. AsListed(NameTaken)
  <2>1. "taken" \in Agreements
    BY DEF Agreements
  <2>2. Answers("ErrDuplicate", 409)
    BY DEF Answers, StatusOf, Conflicts
  <2> QED BY <2>1, <2>2, ListedRefusal, ZenonT(60) DEF NameTaken
<1>9. AsListed(SKUTaken)
  <2>1. "taken" \in Agreements
    BY DEF Agreements
  <2>2. Answers("ErrDuplicateSKU", 409)
    BY DEF Answers, StatusOf, Conflicts
  <2> QED BY <2>1, <2>2, ListedRefusal, ZenonT(60) DEF SKUTaken
<1>10. AsListed(HasBatches)
  <2>1. "state forbids" \in Agreements
    BY DEF Agreements
  <2>2. Answers("ErrProductHasActiveBatches", 409)
    BY DEF Answers, StatusOf, Conflicts
  <2> QED BY <2>1, <2>2, ListedRefusal, ZenonT(60) DEF HasBatches
<1>11. AsListed(BatchState)
  <2>1. "state forbids" \in Agreements
    BY DEF Agreements
  <2>2. Answers("ErrInvalidBatchState", 409)
    BY DEF Answers, StatusOf, Conflicts
  <2> QED BY <2>1, <2>2, ListedRefusal, ZenonT(60) DEF BatchState
<1>12. AsListed(OrderState)
  <2>1. "state forbids" \in Agreements
    BY DEF Agreements
  <2>2. Answers("ErrInvalidProductionOrderState", 409)
    BY DEF Answers, StatusOf, Conflicts
  <2> QED BY <2>1, <2>2, ListedRefusal, ZenonT(60) DEF OrderState
<1>13. AsListed(Short)
  <2>1. "stock too small" \in Agreements
    BY DEF Agreements
  <2>2. Answers("ErrInsufficientStock", 409)
    BY DEF Answers, StatusOf, Conflicts
  <2> QED BY <2>1, <2>2, ListedRefusal, ZenonT(60) DEF Short
<1>14. AsListed(Undated)
  <2>1. "rule forbids" \in Agreements
    BY DEF Agreements
  <2>2. Answers("ErrExpirationRequired", 422)
    BY DEF Answers, StatusOf, Conflicts
  <2> QED BY <2>1, <2>2, ListedRefusal, ZenonT(60) DEF Undated
<1>15. AsListed(WrongGoods)
  <2>1. "rule forbids" \in Agreements
    BY DEF Agreements
  <2>2. Answers("ErrInvalidProductionInput", 422)
    BY DEF Answers, StatusOf, Conflicts
  <2> QED BY <2>1, <2>2, ListedRefusal, ZenonT(60) DEF WrongGoods
<1> QED
  BY <1>1, <1>2, <1>3, <1>4, <1>5, <1>6, <1>7, <1>8, <1>9, <1>10, <1>11, <1>12,
     <1>13, <1>14, <1>15 DEF Listed

\* One of the second kind with another.
LEMMA OtherAnswers == \A x \in Otherwise : NotAsListed(x)
<1>1. NotAsListed(LongPassword)
  <2>1. Differs("password over 72 bytes")
    BY DEF Differs, Agreements, Disagreements
  <2>2. Answers("bcrypt", 500)
    BY DEF Answers, StatusOf, Conflicts
  <2>3. Unlike(500, 400)
    BY DEF Unlike
  <2> QED BY <2>1, <2>2, <2>3, OtherRefusal, ZenonT(60) DEF LongPassword
<1>2. NotAsListed(Exceeds)
  <2>1. Differs("adjustment exceeds stock")
    BY DEF Differs, Agreements, Disagreements
  <2>2. Answers("ErrInsufficientStock", 409)
    BY DEF Answers, StatusOf, Conflicts
  <2>3. Unlike(409, 422)
    BY DEF Unlike
  <2> QED BY <2>1, <2>2, <2>3, OtherRefusal, ZenonT(60) DEF Exceeds
<1>3. NotAsListed(UnknownProduct)
  <2>1. Differs("product to sell unknown")
    BY DEF Differs, Agreements, Disagreements
  <2>2. Answers("ErrInsufficientStock", 409)
    BY DEF Answers, StatusOf, Conflicts
  <2>3. Unlike(409, 404)
    BY DEF Unlike
  <2> QED BY <2>1, <2>2, <2>3, OtherRefusal, ZenonT(60) DEF UnknownProduct
<1>4. NotAsListed(SKUReassigned)
  <2>1. Differs("SKU changed to a taken one")
    BY DEF Differs, Agreements, Disagreements
  <2>2. Answers("unique violation", 500)
    BY DEF Answers, StatusOf, Conflicts
  <2>3. Unlike(500, 409)
    BY DEF Unlike
  <2> QED BY <2>1, <2>2, <2>3, OtherRefusal, ZenonT(60) DEF SKUReassigned
<1>5. NotAsListed(InputDeleted)
  <2>1. Differs("input of a deleted product")
    BY DEF Differs, Agreements, Disagreements
  <2>2. Answers("get input product", 500)
    BY DEF Answers, StatusOf, Conflicts
  <2>3. Unlike(500, 404)
    BY DEF Unlike
  <2> QED BY <2>1, <2>2, <2>3, OtherRefusal, ZenonT(60) DEF InputDeleted
<1>6. NotAsListed(InputShort)
  <2>1. Differs("input too small")
    BY DEF Differs, Agreements, Disagreements
  <2>2. Answers("ErrInsufficientStock", 409)
    BY DEF Answers, StatusOf, Conflicts
  <2>3. Unlike(409, 0)
    BY DEF Unlike
  <2> QED BY <2>1, <2>2, <2>3, OtherRefusal, ZenonT(60) DEF InputShort
<1>7. NotAsListed(Unreachable)
  <2>1. Differs("database unreachable")
    BY DEF Differs, Agreements, Disagreements
  <2>2. Answers("unreachable", 503)
    BY DEF Answers, StatusOf, Conflicts
  <2>3. Unlike(503, 0)
    BY DEF Unlike
  <2> QED BY <2>1, <2>2, <2>3, OtherRefusal, ZenonT(60) DEF Unreachable
<1> QED
  BY <1>1, <1>2, <1>3, <1>4, <1>5, <1>6, <1>7 DEF Otherwise

\* One of the third kind is served, which is never what is listed.
LEMMA PassedOverAnswers == \A x \in PassedOver : Served(x)
<1>1. Served(UnknownToken)
  <2>1. Differs("token to revoke unknown")
    BY DEF Differs, Agreements, Disagreements
  <2>2. NoSuccess(401)
    BY DEF NoSuccess
  <2> QED BY <2>1, <2>2, ServedRefusal, ZenonT(60) DEF UnknownToken
<1>2. Served(AnyBatchState)
  <2>1. Differs("batch not to be adjusted")
    BY DEF Differs, Agreements, Disagreements
  <2>2. NoSuccess(409)
    BY DEF NoSuccess
  <2> QED BY <2>1, <2>2, ServedRefusal, ZenonT(60) DEF AnyBatchState
<1>3. Served(DeletedProduct)
  <2>1. Differs("product to sell unknown")
    BY DEF Differs, Agreements, Disagreements
  <2>2. NoSuccess(404)
    BY DEF NoSuccess
  <2> QED BY <2>1, <2>2, ServedRefusal, ZenonT(60) DEF DeletedProduct
<1>4. Served(PackagingInput)
  <2>1. Differs("input is packaging")
    BY DEF Differs, Agreements, Disagreements
  <2>2. NoSuccess(422)
    BY DEF NoSuccess
  <2> QED BY <2>1, <2>2, ServedRefusal, ZenonT(60) DEF PackagingInput
<1> QED
  BY <1>1, <1>2, <1>3, <1>4 DEF PassedOver

\* The handlers that the routes lead to.
Handlers ==
  {Register, Login, Refresh, Logout, Me, Receive, Quarantine, ListByProduct,
   CreateProduct, ListProducts, GetProduct, UpdateProduct, DeleteProduct, Adjust,
   Consume, ListTransactions, CreateOrder, StartOrder, CompleteOrder, CancelOrder,
   ListOrders, GetOrder, Health}

LEMMA RoutesLeadToHandlers == \A name \in DOMAIN Routes : Routes[name] \in Handlers
  BY DEF Routes, Handlers

\* Of a handler: its success is a status of success, and its refusals are known.
KnownHandler(route) ==
  /\ route.success \in {200, 201, 204}
  /\ route.refusals \subseteq Listed \cup Otherwise \cup PassedOver

LEMMA HandlersKnown == \A route \in Handlers : KnownHandler(route)
<1>1. KnownHandler(Register)
  BY DEF KnownHandler, Register, Route, Listed, Otherwise, PassedOver
<1>2. KnownHandler(Login)
  BY DEF KnownHandler, Login, Route, Listed, Otherwise, PassedOver
<1>3. KnownHandler(Refresh)
  BY DEF KnownHandler, Refresh, Route, Listed, Otherwise, PassedOver
<1>4. KnownHandler(Logout)
  BY DEF KnownHandler, Logout, Route, Listed, Otherwise, PassedOver
<1>5. KnownHandler(Me)
  BY DEF KnownHandler, Me, Route, Listed, Otherwise, PassedOver
<1>6. KnownHandler(Receive)
  BY DEF KnownHandler, Receive, Route, Listed, Otherwise, PassedOver
<1>7. KnownHandler(Quarantine)
  BY DEF KnownHandler, Quarantine, Route, Listed, Otherwise, PassedOver
<1>8. KnownHandler(ListByProduct)
  BY DEF KnownHandler, ListByProduct, Route, Listed, Otherwise, PassedOver
<1>9. KnownHandler(CreateProduct)
  BY DEF KnownHandler, CreateProduct, Route, Listed, Otherwise, PassedOver
<1>10. KnownHandler(ListProducts)
  BY DEF KnownHandler, ListProducts, Route, Listed, Otherwise, PassedOver
<1>11. KnownHandler(GetProduct)
  BY DEF KnownHandler, GetProduct, Route, Listed, Otherwise, PassedOver
<1>12. KnownHandler(UpdateProduct)
  BY DEF KnownHandler, UpdateProduct, Route, Listed, Otherwise, PassedOver
<1>13. KnownHandler(DeleteProduct)
  BY DEF KnownHandler, DeleteProduct, Route, Listed, Otherwise, PassedOver
<1>14. KnownHandler(Adjust)
  BY DEF KnownHandler, Adjust, Route, Listed, Otherwise, PassedOver
<1>15. KnownHandler(Consume)
  BY DEF KnownHandler, Consume, Route, Listed, Otherwise, PassedOver
<1>16. KnownHandler(ListTransactions)
  BY DEF KnownHandler, ListTransactions, Route, Listed, Otherwise, PassedOver
<1>17. KnownHandler(CreateOrder)
  BY DEF KnownHandler, CreateOrder, Route, Listed, Otherwise, PassedOver
<1>18. KnownHandler(StartOrder)
  BY DEF KnownHandler, StartOrder, Route, Listed, Otherwise, PassedOver
<1>19. KnownHandler(CompleteOrder)
  BY DEF KnownHandler, CompleteOrder, Route, Listed, Otherwise, PassedOver
<1>20. KnownHandler(CancelOrder)
  BY DEF KnownHandler, CancelOrder, Route, Listed, Otherwise, PassedOver
<1>21. KnownHandler(ListOrders)
  BY DEF KnownHandler, ListOrders, Route, Listed, Otherwise, PassedOver
<1>22. KnownHandler(GetOrder)
  BY DEF KnownHandler, GetOrder, Route, Listed, Otherwise, PassedOver
<1>23. KnownHandler(Health)
  BY DEF KnownHandler, Health, Route, Listed, Otherwise, PassedOver
<1> QED
  BY <1>1, <1>2, <1>3, <1>4, <1>5, <1>6, <1>7, <1>8, <1>9, <1>10, <1>11, <1>12,
     <1>13, <1>14, <1>15, <1>16, <1>17, <1>18, <1>19, <1>20, <1>21, <1>22, <1>23 DEF Handlers

\* What a handler answers in a situation is what is listed for it, unless that
\* is one of the disagreements.
LEMMA RefusalAnswer ==
  ASSUME NEW name \in DOMAIN Routes, NEW x \in Routes[name].refusals
  PROVE  /\ x.why \in Reasons
         /\ StatusIn(Routes[name], x) = x.documented <=> x.why \in Agreements
<1> DEFINE route == Routes[name]
<1>1. KnownHandler(route)
  BY RoutesLeadToHandlers, HandlersKnown
<1> HIDE DEF route
<1>2. CASE AsListed(x)
  BY <1>2 DEF AsListed, StatusIn, Reasons
<1>3. CASE NotAsListed(x)
  BY <1>3 DEF NotAsListed, Differs, StatusIn, Reasons
<1>4. CASE Served(x)
  <2>1. StatusIn(route, x) \in {200, 201, 204}
    BY <1>1, <1>4 DEF KnownHandler, Served, StatusIn
  <2>2. StatusIn(route, x) # x.documented
    BY <1>4, <2>1 DEF Served, NoSuccess
  <2>3. x.why \in Reasons /\ x.why \notin Agreements
    BY <1>4 DEF Served, Differs, Reasons
  <2> QED BY <2>2, <2>3 DEF route
<1>5. x \in Listed \cup Otherwise \cup PassedOver
  BY <1>1 DEF KnownHandler, route
<1> QED
  BY <1>2, <1>3, <1>4, <1>5, ListedAnswers, OtherAnswers, PassedOverAnswers DEF route

\* The success of a route is a number.
LEMMA SuccessType ==
  ASSUME NEW name \in DOMAIN Routes
  PROVE  Routes[name].success \in Nat
  BY RoutesLeadToHandlers, HandlersKnown DEF KnownHandler

\* So is the answer in a situation.
LEMMA RefusalType ==
  ASSUME NEW name \in DOMAIN Routes, NEW x \in Routes[name].refusals
  PROVE  StatusIn(Routes[name], x) \in Nat /\ x.why \in Reasons
  BY RefusalAnswer, SuccessType, StatusType DEF StatusIn

\* An answer keeps the requests well formed and the claims of the others.
LEMMA AnswerType ==
  ASSUME TypeOK, NEW c \in Calls, NEW s \in Nat, NEW w \in Reasons, Answer(c, s, w),
         UNCHANGED account, life' \in [Claims -> 0..AccessTTL]
  PROVE  TypeOK'
<1>1. [at |-> "answered", route |-> Null, claim |-> Null, status |-> s, why |-> w] \in Call
  BY DEF Call
<1> QED
  BY <1>1 DEF Answer, TypeOK

\* So does the admission of a request.
LEMMA AdmitType ==
  ASSUME TypeOK, NEW c \in Calls, NEW name \in DOMAIN Routes,
         NEW k \in Claims \cup {Null}, Admit(c, name, k), UNCHANGED <<account, life>>
  PROVE  TypeOK'
<1>1. [at |-> "serving", route |-> name, claim |-> k, status |-> 0,
       why |-> "pending"] \in Call
  BY OutcomeTypes DEF Call
<1> QED
  BY <1>1 DEF Admit, TypeOK

\* An answer takes up no claim.
LEMMA AnswerClaims ==
  ASSUME TypeOK, NEW c \in Calls, NEW s, NEW w, Answer(c, s, w)
  PROVE  \A d \in Calls : call'[d].claim \in {Null, call[d].claim}
  BY DEF Answer, TypeOK

\* A step that leaves the tokens alone leaves them well formed.
LEMMA LifeType == TypeOK /\ UNCHANGED life => life' \in [Claims -> 0..AccessTTL]
  BY DEF TypeOK

\* A request that arrives is well formed, whichever way it takes.
LEMMA ArriveType ==
  ASSUME TypeOK, NEW c \in Calls, Arrive(c)
  PROVE  TypeOK'
<1>1. CASE Stray(c)
  <2>1. \E s \in Nat : Answer(c, s, "turned away")
    <3>1. CASE Answer(c, 204, "turned away")
      BY <3>1, ZenonT(60)
    <3>2. CASE \E error : Answer(c, StatusOf(error), "turned away")
      BY <3>2, StatusType
    <3> QED BY <1>1, <3>1, <3>2, ZenonT(60) DEF Stray
  <2> QED BY <1>1, <2>1, OutcomeTypes, AnswerType, LifeType DEF Stray
<1>2. CASE \E name \in DOMAIN Routes : EnterPublic(c, name)
  BY <1>2, AdmitType, LifeType DEF EnterPublic, TypeOK
<1>3. CASE \E name \in DOMAIN Routes : Unauthenticated(c, name)
  BY <1>3, StatusType, OutcomeTypes, AnswerType, LifeType DEF Unauthenticated
<1>4. ASSUME NEW name \in DOMAIN Routes, NEW k \in Claims, Enter(c, name, k)
      PROVE  TypeOK'
  <2>1. CASE k[2] \in Routes[name].roles
    BY <1>4, <2>1, AdmitType, LifeType DEF Enter, TypeOK
  <2>2. CASE k[2] \notin Routes[name].roles
    BY <1>4, <2>2, StatusType, OutcomeTypes, AnswerType, LifeType DEF Enter
  <2> QED BY <2>1, <2>2
<1> QED BY <1>1, <1>2, <1>3, <1>4 DEF Arrive

\* So is what a handler makes of it, and the tokens and accounts it writes.
LEMMA HandleType ==
  ASSUME TypeOK, NEW c \in Calls, Handle(c)
  PROVE  TypeOK'
<1>1. CASE Refuse(c)
  <2>1. call[c].route \in DOMAIN Routes
    BY <1>1 DEF Refuse, TypeOK
  <2>2. PICK x \in Routes[call[c].route].refusals :
          Answer(c, StatusIn(Routes[call[c].route], x), x.why)
    BY <1>1 DEF Refuse
  <2>3. StatusIn(Routes[call[c].route], x) \in Nat /\ x.why \in Reasons
    BY <2>1, RefusalType
  <2> QED BY <1>1, <2>2, <2>3, AnswerType, LifeType DEF Refuse
<1>2. CASE Fail(c)
  BY <1>2, StatusType, OutcomeTypes, AnswerType, LifeType DEF Fail
<1>3. CASE Serve(c)
  <2>1. Routes[call[c].route].success \in Nat
    BY <1>3, SuccessType DEF Serve, TypeOK
  <2> QED BY <1>3, <2>1, OutcomeTypes, AnswerType, LifeType DEF Serve
<1>4. CASE Issue(c)
  <2>1. Routes[call[c].route].success \in Nat
    BY <1>4, SuccessType DEF Issue, TypeOK
  <2>2. life' \in [Claims -> 0..AccessTTL]
    BY <1>4, GateAssumption DEF Issue, TypeOK
  <2> QED BY <1>4, <2>1, <2>2, OutcomeTypes, AnswerType DEF Issue
<1>5. CASE Leave(c)
  BY <1>5, OutcomeTypes DEF Leave, Idle, TypeOK, Call
<1>6. ASSUME NEW u \in Users, CreateAccount(c, u)
      PROVE  TypeOK'
  <2>1. <<u, "VIEWER">> \in Claims
    BY DEF Claims, Roles
  <2>2. call' \in [Calls -> Call]
    BY <1>6, <2>1, OutcomeTypes DEF CreateAccount, Issuing, TypeOK, Call
  <2>3. account' \in [Users -> Account \cup {Null}]
    BY <1>6 DEF CreateAccount, TypeOK, Account, Roles
  <2> QED BY <1>6, <2>1, <2>2, <2>3 DEF CreateAccount, Issuing, TypeOK, Call
<1>7. ASSUME NEW u \in Users, ReadAccount(c, u)
      PROVE  TypeOK'
  <2>1. account[u] \in Account
    BY <1>7 DEF ReadAccount, TypeOK
  <2>2. <<u, account[u].role>> \in Claims
    BY <2>1 DEF Claims, Account
  <2>3. call' \in [Calls -> Call]
    BY <1>7, <2>2, OutcomeTypes DEF ReadAccount, Issuing, TypeOK, Call
  <2> QED BY <1>7, <2>2, <2>3 DEF ReadAccount, Issuing, TypeOK, Call
<1> QED BY <1>1, <1>2, <1>3, <1>4, <1>5, <1>6, <1>7 DEF Handle

\* Type correctness, whatever the accounts become and whatever is requested.
THEOREM TypeCorrect == Spec => []TypeOK
<1>1. Init => TypeOK
  <2> SUFFICES ASSUME Init PROVE TypeOK
    OBVIOUS
  <2>1. Idle \in Call
    BY OutcomeTypes DEF Idle, Call
  <2>2. \A c \in Calls : call[c] = Idle
    BY DEF Init
  <2> QED BY <2>1, <2>2, GateAssumption DEF Init, TypeOK, Idle
<1>2. TypeOK /\ [Next]_vars => TypeOK'
  <2> SUFFICES ASSUME TypeOK, [Next]_vars PROVE TypeOK'
    OBVIOUS
  <2>1. CASE Tick
    BY <2>1, GateAssumption DEF Tick, TypeOK
  <2>2. CASE \E u \in Users : SetAccount(u)
    BY <2>2 DEF SetAccount, TypeOK
  <2>3. CASE \E c \in Calls : Arrive(c) \/ Handle(c)
    BY <2>3, ArriveType, HandleType
  <2>4. CASE UNCHANGED vars
    BY <2>4 DEF vars, TypeOK
  <2> QED BY <2>1, <2>2, <2>3, <2>4 DEF Next
<1> QED BY <1>1, <1>2, PTL DEF Spec

-----------------------------------------------------------------------------
(* Revocation                                                              *)

\* One step out of a state where u is cut off from r: unless the account is
\* given the role, no token is issued for it and no request enters with it.
LEMMA CutOffStep ==
  ASSUME TypeOK, [Next]_vars, NEW u \in Users, NEW r \in Roles,
         CutOff(u, r), ~ Has(u, r)'
  PROVE  CutOff(u, r)'
<1> DEFINE k == <<u, r>>
<1>0. k \in Claims /\ k # Null
  BY GateAssumption DEF Claims
<1> SUFFICES life'[k] = 0 /\ \A c \in Calls : call'[c].claim # k
  BY DEF CutOff
<1>1. life[k] = 0 /\ ~ Has(u, r) /\ \A c \in Calls : call[c].claim # k
  BY DEF CutOff
<1> HIDE DEF k
<1>2. CASE Tick
  BY <1>0, <1>1, <1>2 DEF Tick
<1>3. CASE \E v \in Users : SetAccount(v)
  BY <1>1, <1>3 DEF SetAccount
<1>4. ASSUME NEW c \in Calls, NEW s, NEW w, Answer(c, s, w)
      PROVE  \A d \in Calls : call'[d].claim # k
  BY <1>0, <1>1, <1>4, AnswerClaims
<1>5. ASSUME NEW c \in Calls, Arrive(c)
      PROVE  life'[k] = 0 /\ \A d \in Calls : call'[d].claim # k
  <2>1. CASE Stray(c)
    <3>1. \E s, w : Answer(c, s, w)
      BY <2>1 DEF Stray
    <3> QED BY <1>1, <1>4, <2>1, <3>1 DEF Stray
  <2>2. CASE \E name \in DOMAIN Routes : EnterPublic(c, name)
    BY <1>0, <1>1, <2>2 DEF EnterPublic, Admit, TypeOK
  <2>3. CASE \E name \in DOMAIN Routes : Unauthenticated(c, name)
    BY <1>1, <1>4, <2>3 DEF Unauthenticated
  <2>4. ASSUME NEW name \in DOMAIN Routes, NEW j \in Claims, Enter(c, name, j)
        PROVE  life'[k] = 0 /\ \A d \in Calls : call'[d].claim # k
    <3>0. life[j] > 0
      BY <2>4 DEF Enter
    <3>1. j # k
      BY <1>1, <3>0
    <3>2. CASE j[2] \in Routes[name].roles
      BY <1>1, <2>4, <3>1, <3>2 DEF Enter, Admit, TypeOK
    <3>3. CASE j[2] \notin Routes[name].roles
      BY <1>1, <1>4, <2>4, <3>3 DEF Enter
    <3> QED BY <3>2, <3>3
  <2> QED BY <1>5, <2>1, <2>2, <2>3, <2>4 DEF Arrive
<1>6. ASSUME NEW c \in Calls, Handle(c)
      PROVE  life'[k] = 0 /\ \A d \in Calls : call'[d].claim # k
  <2>1. CASE Refuse(c)
    <3>1. \E s, w : Answer(c, s, w)
      BY <2>1 DEF Refuse
    <3> QED BY <1>1, <1>4, <2>1, <3>1 DEF Refuse
  <2>2. CASE Fail(c)
    BY <1>1, <1>4, <2>2 DEF Fail
  <2>3. CASE Serve(c)
    BY <1>1, <1>4, <2>3 DEF Serve
  <2>4. CASE Issue(c)
    <3>1. life'[k] = 0
      BY <1>0, <1>1, <2>4 DEF Issue, TypeOK
    <3> QED BY <1>4, <2>4, <3>1 DEF Issue
  <2>5. CASE Leave(c)
    BY <1>0, <1>1, <2>5 DEF Leave, Idle, TypeOK
  <2>6. ASSUME NEW v \in Users, CreateAccount(c, v)
        PROVE  life'[k] = 0 /\ \A d \in Calls : call'[d].claim # k
    <3>1. <<v, "VIEWER">> # k
      <4> SUFFICES ASSUME v = u, r = "VIEWER" PROVE FALSE
        BY DEF k
      <4> QED BY <2>6 DEF CreateAccount, Has, TypeOK
    <3> QED BY <1>1, <2>6, <3>1 DEF CreateAccount, Issuing, TypeOK
  <2>7. ASSUME NEW v \in Users, ReadAccount(c, v)
        PROVE  life'[k] = 0 /\ \A d \in Calls : call'[d].claim # k
    <3>1. <<v, account[v].role>> # k
      <4> SUFFICES ASSUME v = u, r = account[u].role PROVE FALSE
        BY DEF k
      <4>1. account[u] \in Account /\ account[u].active = TRUE
        BY <2>7 DEF ReadAccount, TypeOK, Account
      <4>2. account[u] = [role |-> r, active |-> TRUE]
        BY <4>1 DEF Account
      <4> QED BY <1>1, <4>2 DEF Has
    <3> QED BY <1>1, <2>7, <3>1 DEF ReadAccount, Issuing, TypeOK
  <2> QED BY <1>6, <2>1, <2>2, <2>3, <2>4, <2>5, <2>6, <2>7 DEF Handle
<1>7. CASE UNCHANGED vars
  BY <1>1, <1>7 DEF vars
<1> QED BY <1>2, <1>3, <1>5, <1>6, <1>7 DEF Next

\* A user cut off from a role stays cut off until the account is given it.
THEOREM RevocationIsFinal == Spec => CutOffIsFinal
<1>1. TypeOK /\ [Next]_vars
        => [\A u \in Users, r \in Roles : CutOff(u, r) => CutOff(u, r)' \/ Has(u, r)']_vars
  BY CutOffStep
<1> QED BY <1>1, TypeCorrect, PTL DEF Spec, CutOffIsFinal

-----------------------------------------------------------------------------
(* Answers                                                                 *)

\* A handler under way that answers does so as the property has it.
LEMMA AnswerStep ==
  ASSUME TypeOK, [Next]_vars, NEW c \in Calls,
         call[c].at \in {"serving", "issuing"}, call'[c].at = "answered"
  PROVE  \/ /\ call'[c].why = "served"
            /\ call'[c].status = Routes[call[c].route].success
         \/ /\ call'[c].why = "failure"
            /\ call'[c].status = 500
         \/ \E x \in Routes[call[c].route].refusals :
              /\ call'[c].why = x.why
              /\ call'[c].status = x.documented <=> x.why \in Agreements
<1>1. call[c].route \in DOMAIN Routes
  BY DEF TypeOK
<1>2. ASSUME NEW s, NEW w, Answer(c, s, w)
      PROVE  call'[c].status = s /\ call'[c].why = w
  BY <1>2 DEF Answer, TypeOK
<1>3. ASSUME NEW d \in Calls, Arrive(d) \/ Handle(d) PROVE d = c
  <2> SUFFICES ASSUME d # c PROVE call'[c] = call[c]
    OBVIOUS
  <2>1. \A s, w : Answer(d, s, w) => call'[c] = call[c]
    BY DEF Answer, TypeOK
  <2>2. CASE Arrive(d)
    BY <2>1, <2>2 DEF Arrive, Stray, EnterPublic, Unauthenticated, Enter, Admit, TypeOK
  <2>3. CASE Handle(d)
    BY <2>1, <2>3 DEF Handle, Refuse, Fail, Serve, Issue, Leave, CreateAccount,
       ReadAccount, Issuing, TypeOK
  <2> QED BY <1>3, <2>2, <2>3
<1>4. ~ Arrive(c)
  BY DEF Arrive, Stray, EnterPublic, Unauthenticated, Enter
<1>5. Handle(c)
  <2>1. ~ Tick /\ ~ UNCHANGED vars /\ \A u \in Users : ~ SetAccount(u)
    BY DEF Tick, SetAccount, vars
  <2> QED BY <1>3, <1>4, <2>1 DEF Next
<1>6. CASE Refuse(c)
  <2>1. PICK x \in Routes[call[c].route].refusals :
          Answer(c, StatusIn(Routes[call[c].route], x), x.why)
    BY <1>6 DEF Refuse
  <2>2. /\ call'[c].why = x.why
        /\ call'[c].status = StatusIn(Routes[call[c].route], x)
    BY <1>2, <2>1
  <2>3. call'[c].status = x.documented <=> x.why \in Agreements
    BY <1>1, <2>2, RefusalAnswer
  <2> QED BY <2>2, <2>3
<1>7. CASE Fail(c)
  <2>1. StatusOf("failure") = 500
    BY DEF StatusOf, Conflicts
  <2> QED BY <1>2, <1>7, <2>1 DEF Fail
<1>8. CASE Serve(c) \/ Issue(c)
  BY <1>2, <1>8 DEF Serve, Issue
<1>9. ~ Leave(c)
  BY DEF Leave
<1>10. \A u \in Users : ~ CreateAccount(c, u) /\ ~ ReadAccount(c, u)
  BY DEF CreateAccount, ReadAccount, Issuing, TypeOK
<1> QED BY <1>5, <1>6, <1>7, <1>8, <1>9, <1>10 DEF Handle

\* A handler answers what its annotation lists for the situation, apart from
\* failures and from the situations that are named.
THEOREM AnswersAreDocumented == Spec => AnswersDocumented
<1>1. TypeOK /\ [Next]_vars
        => [\A c \in Calls :
              call[c].at \in {"serving", "issuing"} /\ call'[c].at = "answered" =>
                \/ /\ call'[c].why = "served"
                   /\ call'[c].status = Routes[call[c].route].success
                \/ /\ call'[c].why = "failure"
                   /\ call'[c].status = 500
                \/ \E x \in Routes[call[c].route].refusals :
                     /\ call'[c].why = x.why
                     /\ call'[c].status = x.documented <=> x.why \in Agreements]_vars
  BY AnswerStep
<1> QED BY <1>1, TypeCorrect, PTL DEF Spec, AnswersDocumented
=============================================================================
