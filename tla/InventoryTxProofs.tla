-------------------------- MODULE InventoryTxProofs --------------------------
(***************************************************************************)
(* InductiveInv is an invariant of InventoryTx, and with it the safety     *)
(* properties it consists of: for any number of calls, batches and orders, *)
(* any menu of requests and any initial tables that SeedAssumption admits. *)
(*                                                                         *)
(* First, TypeOK.  Then the rest, with the tables kept apart from the      *)
(* calls: a step of call c changes the tables only when it commits, and    *)
(* what another call d relies on concerns rows that d has locked, which    *)
(* the commit of c therefore leaves as they are.                           *)
(***************************************************************************)
EXTENDS InventoryTx, FiniteSetTheorems, SequenceTheorems, TLAPS

\* A request of the menu has the fields its operation needs.
LEMMA RequestFields ==
  ASSUME NEW r \in Menu
  PROVE  /\ r.op = "Receive"    => r \in ReceiveRequests
         /\ r.op = "Quarantine" => r \in QuarantineRequests
         /\ r.op = "Adjust"     => r \in AdjustRequests
         /\ r.op = "Consume"    => r \in ConsumeRequests
         /\ r.op = "Create"     => r \in CreateRequests
         /\ r.op \in {"Start", "Cancel", "Complete"} => r \in OrderRequests
  BY MenuAssumption
  DEF Requests, ReceiveRequests, QuarantineRequests, AdjustRequests,
      ConsumeRequests, CreateRequests, OrderRequests

\* A permutation of a finite set is a sequence of its elements.
LEMMA PermutationsAreSequences ==
  ASSUME NEW S, IsFiniteSet(S), NEW s \in SetToSeqs(S)
  PROVE  s \in Seq(S) /\ DOMAIN s = 1 .. Len(s)
<1>1. Cardinality(S) \in Nat
  BY FS_CardinalityType
<1>2. s \in [1 .. Cardinality(S) -> S]
  BY DEF SetToSeqs
<1> QED
  BY <1>1, <1>2

\* A sequence has finitely many indices.
LEMMA DomainFinite ==
  ASSUME NEW T, NEW s \in Seq(T)
  PROVE  IsFiniteSet(DOMAIN s)
<1>1. DOMAIN s = 1 .. Len(s) /\ Len(s) \in Int
  OBVIOUS
<1>2. \A n \in Int : IsFiniteSet(1 .. n)
  BY FS_Interval
<1> QED
  BY <1>1, <1>2

-----------------------------------------------------------------------------
(* Type correctness.  The two halves of TypeOK are disturbed by different  *)
(* steps: the tables only by commits, the calls by every step.             *)

\* Answering a call leaves locks and private state well formed.
LEMMA EndTyped ==
  ASSUME NEW c \in Calls, NEW outcome \in Finished, CallsTyped,
         phase[c] # "new", End(c, outcome)
  PROVE  CallsTyped'
<1>1. /\ batchLock' \in [Batches -> Calls \cup {Nobody}]
      /\ orderLock' \in [Orders -> Calls \cup {Nobody}]
      /\ keyShare'  \in [Batches -> SUBSET Calls]
  BY DEF CallsTyped, End
<1>2. /\ phase' \in [Calls -> Phases]
      /\ request' \in [Calls -> Menu \cup {Null}]
  BY DEF CallsTyped, End, Phases
<1>3. ASSUME NEW d \in Calls, phase'[d] # "new"
      PROVE  request'[d] \in Menu
  BY <1>3 DEF CallsTyped, End
<1>4. <<>> \in Seq([batch : Batches, item : Nat])
  OBVIOUS
<1>5. queue' \in [Calls -> Seq([batch : Batches, item : Nat])]
  BY <1>4 DEF CallsTyped, End
<1>6. /\ remaining' \in [Calls -> Int]
      /\ delta' \in [Calls -> [Batches -> Int]]
      /\ soonest' \in [Calls -> Expirations]
      /\ snapshot' \in [Calls -> SUBSET Batches]
  BY DEF CallsTyped, End, Expirations
<1> QED
  BY <1>1, <1>2, <1>3, <1>5, <1>6 DEF CallsTyped

\* So does a rollback, which changes no table.
LEMMA RollbackTyped ==
  ASSUME NEW c \in Calls, NEW outcome \in Finished, TypeOK,
         phase[c] # "new", Rollback(c, outcome)
  PROVE  TypeOK'
<1>1. CallsTyped'
  BY EndTyped DEF TypeOK, Rollback
<1>2. TablesTyped'
  BY DEF TypeOK, TablesTyped, Rollback, tables
<1> QED
  BY <1>1, <1>2 DEF TypeOK

\* A commit posts typed quantities and typed ledger rows.
LEMMA PostTyped ==
  ASSUME NEW c \in Calls, NEW type \in TransactionTypes, TypeOK, Post(c, type)
  PROVE  /\ quantity' \in [Batches -> Int]
         /\ ledger' \in [Batches -> [TransactionTypes -> Int]]
  BY DEF TypeOK, TablesTyped, CallsTyped, Post

\* A call that runs a statement has begun, with a request of the menu.
LEMMA Running ==
  ASSUME NEW c \in Calls, TypeOK, InTx(c)
  PROVE  request[c] \in Menu /\ phase[c] # "new"
  BY DEF TypeOK, CallsTyped, InTx

\* The initial state is well formed.
LEMMA InitTyped == Init => TypeOK
<1> SUFFICES ASSUME Init PROVE TypeOK
  OBVIOUS
<1>1. TablesTyped
  <2>1. {"NONE", "PLANNED", "IN_PROGRESS"} \subseteq OrderStatus
    BY DEF OrderStatus
  <2>2. Quantities \subseteq Int
    BY StockAssumption DEF Quantities
  <2> QED
    BY <2>1, <2>2, SeedTypes DEF Init, Tables!Init, TablesTyped
<1>2. <<>> \in Seq([batch : Batches, item : Nat])
  OBVIOUS
<1>3. CallsTyped
  BY <1>2 DEF Init, CallsTyped, Phases, Expirations
<1> QED
  BY <1>1, <1>3 DEF TypeOK

\* BEGIN takes a request of the menu.
LEMMA BeginTyped ==
  ASSUME NEW c \in Calls, TypeOK, Begin(c)
  PROVE  TypeOK'
<1>1. TablesTyped'
  BY DEF TypeOK, TablesTyped, Begin, tables
<1>2. CallsTyped'
  BY DEF TypeOK, CallsTyped, Begin, locks, Phases
<1> QED
  BY <1>1, <1>2 DEF TypeOK

\* Receive inserts a well formed batch and its INCOMING row.
LEMMA ReceiveTyped ==
  ASSUME NEW c \in Calls, TypeOK, Receive(c)
  PROVE  TypeOK'
<1>1. phase[c] # "new" /\ request[c] \in ReceiveRequests
  BY Running, RequestFields DEF Receive, At, InTx
<1>2. CASE ProductType[request[c].product] # "PACKAGING" => request[c].expiration # Null
  <2>1. PICK b \in Batches :
          /\ status'     = [status EXCEPT ![b] = "ACTIVE"]
          /\ quantity'   = [quantity EXCEPT ![b] = request[c].quantity]
          /\ initial'    = [initial EXCEPT ![b] = request[c].quantity]
          /\ expiration' = [expiration EXCEPT ![b] = request[c].expiration]
          /\ ledger'     = [ledger EXCEPT ![b]["INCOMING"] =
                              @ + request[c].quantity]
    BY <1>2 DEF Receive
  <2>2. End(c, "ok") /\ UNCHANGED <<orderStatus, outputOf, lineItems, used>>
    BY <1>2 DEF Receive
  <2>3. request[c].quantity \in Int /\ request[c].expiration \in Expirations
    BY <1>1, StockAssumption DEF ReceiveRequests, Positive
  <2>4. "ACTIVE" \in BatchStatus /\ "INCOMING" \in TransactionTypes
    BY DEF BatchStatus, TransactionTypes
  <2>5. TablesTyped'
    BY <2>1, <2>2, <2>3, <2>4 DEF TypeOK, TablesTyped
  <2> QED
    BY <1>1, <2>2, <2>5, EndTyped DEF TypeOK, Finished
<1>3. CASE ~ (ProductType[request[c].product] # "PACKAGING" => request[c].expiration # Null)
  BY <1>1, <1>3, RollbackTyped DEF Receive, Finished
<1> QED
  BY <1>2, <1>3

\* The steps that only change what a call holds and knows.
LEMMA LockTyped ==
  ASSUME NEW c \in Calls, TypeOK,
         QuarantineLock(c) \/ AdjustReject(c) \/ AdjustLock(c)
  PROVE  TypeOK'
<1>1. /\ phase[c] # "new"
      /\ request[c] \in QuarantineRequests \/ request[c] \in AdjustRequests
  BY Running, RequestFields
     DEF QuarantineLock, AdjustReject, AdjustLock, At, InTx
<1>2. request[c].batch \in Batches
  BY <1>1 DEF QuarantineRequests, AdjustRequests
<1>3. ASSUME Rollback(c, "refused") \/ Rollback(c, "failed")
      PROVE  TypeOK'
  BY <1>1, <1>3, RollbackTyped DEF Finished
<1>4. ASSUME LockBatch(c, request[c].batch), GoTo(c, "ready"),
             UNCHANGED <<tables, request, queue, remaining, soonest, snapshot>>,
             delta' \in [Calls -> [Batches -> Int]]
      PROVE  TypeOK'
  <2>1. TablesTyped'
    BY <1>4 DEF TypeOK, TablesTyped, tables
  <2>2. CallsTyped'
    BY <1>1, <1>2, <1>4 DEF TypeOK, CallsTyped, LockBatch, GoTo, Phases
  <2> QED
    BY <2>1, <2>2 DEF TypeOK
<1>5. CASE QuarantineLock(c)
  <2>1. UNCHANGED delta => delta' \in [Calls -> [Batches -> Int]]
    BY DEF TypeOK, CallsTyped
  <2> QED
    BY <1>3, <1>4, <1>5, <2>1 DEF QuarantineLock
<1>6. CASE AdjustReject(c)
  BY <1>3, <1>6 DEF AdjustReject
<1>7. CASE AdjustLock(c)
  <2>1. request[c].change \in Int
    BY <1>7, Running, RequestFields, StockAssumption
       DEF AdjustLock, At, InTx, AdjustRequests, Signed
  <2>2. [delta EXCEPT ![c][request[c].batch] = request[c].change]
          \in [Calls -> [Batches -> Int]]
    BY <1>2, <2>1 DEF TypeOK, CallsTyped
  <2> QED
    BY <1>3, <1>4, <1>7, <2>2 DEF AdjustLock
<1> QED
  BY <1>5, <1>6, <1>7

\* The commits that change a status.
LEMMA StatusTyped ==
  ASSUME NEW c \in Calls, TypeOK,
         QuarantineCommit(c) \/ StartCommit(c) \/ CancelCommit(c)
  PROVE  TypeOK'
<1>1. phase[c] # "new" /\ End(c, "ok")
  BY Running DEF QuarantineCommit, StartCommit, CancelCommit, At, InTx
<1>2. CallsTyped'
  BY <1>1, EndTyped DEF TypeOK, Finished
<1>3. /\ "QUARANTINED" \in BatchStatus
      /\ "IN_PROGRESS" \in OrderStatus
      /\ "CANCELLED" \in OrderStatus
  BY DEF BatchStatus, OrderStatus
<1>4. TablesTyped'
  <2>1. CASE QuarantineCommit(c)
    BY <1>3, <2>1 DEF TypeOK, TablesTyped, QuarantineCommit
  <2>2. CASE StartCommit(c)
    BY <1>3, <2>2 DEF TypeOK, TablesTyped, StartCommit
  <2>3. CASE CancelCommit(c)
    BY <1>3, <2>3 DEF TypeOK, TablesTyped, CancelCommit
  <2> QED
    BY <2>1, <2>2, <2>3
<1> QED
  BY <1>2, <1>4 DEF TypeOK

\* The commits that move stock.
LEMMA MovementTyped ==
  ASSUME NEW c \in Calls, TypeOK, AdjustCommit(c) \/ ConsumeCommit(c)
  PROVE  TypeOK'
<1>1. phase[c] # "new" /\ End(c, "ok")
  BY Running DEF AdjustCommit, ConsumeCommit, At, InTx
<1>2. CallsTyped'
  BY <1>1, EndTyped DEF TypeOK, Finished
<1>3. /\ quantity' \in [Batches -> Int]
      /\ ledger' \in [Batches -> [TransactionTypes -> Int]]
  <2>1. CASE AdjustCommit(c)
    <3>1. request[c].type \in TransactionTypes
      BY <2>1, Running, RequestFields
         DEF AdjustCommit, At, InTx, AdjustRequests, TransactionTypes
    <3> QED
      BY <2>1, <3>1, PostTyped DEF AdjustCommit
  <2>2. CASE ConsumeCommit(c)
    BY <2>2, PostTyped DEF ConsumeCommit, TransactionTypes
  <2> QED
    BY <2>1, <2>2
<1>4. TablesTyped'
  BY <1>3 DEF TypeOK, TablesTyped, AdjustCommit, ConsumeCommit
<1> QED
  BY <1>2, <1>4 DEF TypeOK

\* The FEFO query queues batches.
LEMMA ConsumeQueryTyped ==
  ASSUME NEW c \in Calls, TypeOK, ConsumeQuery(c)
  PROVE  TypeOK'
<1> DEFINE S == ActiveOf(request[c].product)
<1>1. phase[c] # "new" /\ request[c] \in ConsumeRequests
  BY Running, RequestFields DEF ConsumeQuery, At, InTx
<1>2. S \subseteq Batches /\ IsFiniteSet(S)
  BY StockAssumption, FS_Subset DEF ActiveOf
<1>3. PICK s \in SetToSeqs(S) :
        queue' = [queue EXCEPT ![c] =
                    [i \in DOMAIN s |-> [batch |-> s[i], item |-> 0]]]
  BY DEF ConsumeQuery, FEFOOrders
<1>4. [i \in DOMAIN s |-> [batch |-> s[i], item |-> 0]]
        \in Seq([batch : Batches, item : Nat])
  <2>1. s \in Seq(S) /\ DOMAIN s = 1 .. Len(s)
    BY <1>2, PermutationsAreSequences
  <2>2. Len(s) \in Nat /\ \A i \in 1 .. Len(s) : s[i] \in Batches
    BY <1>2, <2>1
  <2>3. [i \in 1 .. Len(s) |-> [batch |-> s[i], item |-> 0]]
          \in [1 .. Len(s) -> [batch : Batches, item : Nat]]
    BY <2>2
  <2> QED
    BY <2>1, <2>2, <2>3
<1>5. request[c].quantity \in Int
  BY <1>1, StockAssumption DEF ConsumeRequests, Positive
<1>6. TablesTyped'
  BY DEF TypeOK, TablesTyped, ConsumeQuery, tables
<1>7. queue' \in [Calls -> Seq([batch : Batches, item : Nat])]
  BY <1>3, <1>4 DEF TypeOK, CallsTyped
<1>8. CallsTyped'
  BY <1>1, <1>2, <1>5, <1>7
     DEF TypeOK, CallsTyped, ConsumeQuery, GoTo, Phases, locks
<1> QED
  BY <1>6, <1>8 DEF TypeOK

\* The row at the head of a queue is a row, and what is left is a queue.
LEMMA QueueHead ==
  ASSUME NEW c \in Calls, TypeOK, queue[c] # <<>>
  PROVE  /\ Head(queue[c]).batch \in Batches
         /\ Head(queue[c]).item \in Nat
         /\ Tail(queue[c]) \in Seq([batch : Batches, item : Nat])
<1>1. queue[c] \in Seq([batch : Batches, item : Nat])
  BY DEF TypeOK, CallsTyped
<1>2. /\ Head(queue[c]) \in [batch : Batches, item : Nat]
      /\ Tail(queue[c]) \in Seq([batch : Batches, item : Nat])
  BY <1>1, HeadTailProperties
<1> QED
  BY <1>2

\* The head of a queue is its first element; its tail holds no other ones.
LEMMA QueueFirst ==
  ASSUME NEW c \in Calls, TypeOK, queue[c] # <<>>
  PROVE  /\ 1 \in DOMAIN queue[c] /\ Head(queue[c]) = queue[c][1]
         /\ \A i \in DOMAIN Tail(queue[c]) :
              i + 1 \in DOMAIN queue[c] /\ Tail(queue[c])[i] = queue[c][i + 1]
<1>1. queue[c] \in Seq([batch : Batches, item : Nat])
  BY DEF TypeOK, CallsTyped
<1>2. Len(queue[c]) \in Nat /\ Len(queue[c]) > 0
  BY <1>1, EmptySeq, LenProperties
<1> QED
  BY <1>1, <1>2, HeadTailProperties

\* One row of the FEFO query.
LEMMA ConsumeLockTyped ==
  ASSUME NEW c \in Calls, TypeOK, ConsumeLock(c)
  PROVE  TypeOK'
<1> DEFINE b    == Head(queue[c]).batch
           take == IF status[b] = "ACTIVE" THEN Lesser(quantity[b], remaining[c])
                                           ELSE 0
<1>1. b \in Batches /\ Tail(queue[c]) \in Seq([batch : Batches, item : Nat])
  BY QueueHead DEF ConsumeLock
<1>2. take \in Int
  BY <1>1 DEF TypeOK, TablesTyped, CallsTyped, Lesser
<1> HIDE DEF take
<1>3. TablesTyped'
  BY DEF TypeOK, TablesTyped, ConsumeLock, tables
<1>4. /\ queue'     = [queue EXCEPT ![c] = Tail(@)]
      /\ remaining' = [remaining EXCEPT ![c] = @ - take]
      /\ delta'     = [delta EXCEPT ![c][b] = -take]
      /\ LockBatch(c, b)
      /\ UNCHANGED <<phase, request, soonest, snapshot>>
  BY DEF ConsumeLock, take
<1>5. /\ remaining' \in [Calls -> Int]
      /\ delta' \in [Calls -> [Batches -> Int]]
  BY <1>1, <1>2, <1>4 DEF TypeOK, CallsTyped
<1>6. CallsTyped'
  BY <1>1, <1>4, <1>5 DEF TypeOK, CallsTyped, LockBatch
<1> QED
  BY <1>3, <1>6 DEF TypeOK

\* SelectFEFO's verdict.
LEMMA ConsumeSettleTyped ==
  ASSUME NEW c \in Calls, TypeOK, ConsumeSettle(c)
  PROVE  TypeOK'
<1>1. phase[c] # "new"
  BY DEF ConsumeSettle, At
<1>2. CASE Rollback(c, "refused")
  BY <1>1, <1>2, RollbackTyped DEF Finished
<1>3. CASE ~ Rollback(c, "refused")
  <2>1. TablesTyped'
    BY <1>3 DEF TypeOK, TablesTyped, ConsumeSettle, tables
  <2>2. CallsTyped'
    BY <1>1, <1>3 DEF TypeOK, CallsTyped, ConsumeSettle, GoTo, Phases, locks
  <2> QED
    BY <2>1, <2>2 DEF TypeOK
<1> QED
  BY <1>2, <1>3

\* The checks of Create queue the line items of the request.
LEMMA CreateCheckTyped ==
  ASSUME NEW c \in Calls, TypeOK, CreateCheck(c)
  PROVE  TypeOK'
<1>1. phase[c] # "new" /\ request[c] \in CreateRequests
  BY Running, RequestFields DEF CreateCheck, At, InTx
<1>2. CASE Rollback(c, "refused")
  BY <1>1, <1>2, RollbackTyped DEF Finished
<1>3. CASE ~ Rollback(c, "refused")
  <2> DEFINE items == request[c].items
  <2>1. items \in Seq(LineItems)
    BY <1>1 DEF CreateRequests
  <2>2. [i \in DOMAIN items |-> [batch |-> items[i].batch, item |-> i]]
          \in Seq([batch : Batches, item : Nat])
    <3>1. /\ Len(items) \in Nat /\ DOMAIN items = 1 .. Len(items)
          /\ \A i \in 1 .. Len(items) : items[i] \in LineItems
      BY <2>1
    <3>2. [i \in 1 .. Len(items) |-> [batch |-> items[i].batch, item |-> i]]
            \in [1 .. Len(items) -> [batch : Batches, item : Nat]]
      BY <3>1 DEF LineItems
    <3> QED
      BY <3>1, <3>2
  <2>3. queue' \in [Calls -> Seq([batch : Batches, item : Nat])]
    BY <1>3, <2>2 DEF TypeOK, CallsTyped, CreateCheck
  <2>4. TablesTyped'
    BY <1>3 DEF TypeOK, TablesTyped, CreateCheck, tables
  <2>5. CallsTyped'
    BY <1>1, <1>3, <2>3 DEF TypeOK, CallsTyped, CreateCheck, GoTo, Phases, locks
  <2> QED
    BY <2>4, <2>5 DEF TypeOK
<1> QED
  BY <1>2, <1>3

\* The INSERT of one line item.
LEMMA CreateLinkTyped ==
  ASSUME NEW c \in Calls, TypeOK, CreateLink(c)
  PROVE  TypeOK'
<1>1. /\ phase[c] # "new"
      /\ Head(queue[c]).batch \in Batches
      /\ Tail(queue[c]) \in Seq([batch : Batches, item : Nat])
  BY QueueHead DEF CreateLink, At
<1>2. TablesTyped'
  BY DEF TypeOK, TablesTyped, CreateLink, tables
<1>3. /\ queue' \in [Calls -> Seq([batch : Batches, item : Nat])]
      /\ keyShare' \in [Batches -> SUBSET Calls]
  BY <1>1 DEF TypeOK, CallsTyped, CreateLink
<1>4. /\ phase' \in [Calls -> Phases]
      /\ \A d \in Calls : phase'[d] # "new" => phase[d] # "new"
  BY <1>1 DEF TypeOK, CallsTyped, CreateLink, GoTo, Phases
<1>5. CallsTyped'
  BY <1>3, <1>4 DEF TypeOK, CallsTyped, CreateLink
<1> QED
  BY <1>2, <1>5 DEF TypeOK

\* The commit of a new order: its output, its row and its line items.
LEMMA CreateCommitTyped ==
  ASSUME NEW c \in Calls, TypeOK, CreateCommit(c)
  PROVE  TypeOK'
<1> DEFINE r == request[c]
<1>1. phase[c] # "new" /\ r \in CreateRequests /\ End(c, "ok")
  BY Running, RequestFields DEF CreateCommit, At, InTx
<1>2. PICK b \in Batches, o \in Orders :
        /\ status'      = [status EXCEPT ![b] = "RESERVED"]
        /\ quantity'    = [quantity EXCEPT ![b] = r.quantity]
        /\ initial'     = [initial EXCEPT ![b] = r.quantity]
        /\ expiration'  = [expiration EXCEPT ![b] = r.expiration]
        /\ orderStatus' = [orderStatus EXCEPT ![o] = "PLANNED"]
        /\ outputOf'    = [outputOf EXCEPT ![o] = b]
        /\ lineItems'   = [lineItems EXCEPT ![o] = r.items]
        /\ used'        = [used EXCEPT ![o] = [i \in DOMAIN r.items |-> 0]]
  BY DEF CreateCommit
<1>3. /\ r.quantity \in Int
      /\ r.expiration \in Expirations
      /\ r.items \in Seq(LineItems)
  BY <1>1, StockAssumption DEF CreateRequests, Positive
<1>4. [i \in DOMAIN r.items |-> 0] \in Seq(Nat)
  <2>1. Len(r.items) \in Nat /\ DOMAIN r.items = 1 .. Len(r.items)
    BY <1>3
  <2>2. [i \in 1 .. Len(r.items) |-> 0] \in [1 .. Len(r.items) -> Nat]
    OBVIOUS
  <2> QED
    BY <2>1, <2>2
<1>5. "RESERVED" \in BatchStatus /\ "PLANNED" \in OrderStatus
  BY DEF BatchStatus, OrderStatus
<1> HIDE DEF r
<1>6. /\ status' \in [Batches -> BatchStatus]
      /\ quantity' \in [Batches -> Int]
      /\ initial' \in [Batches -> Int]
      /\ expiration' \in [Batches -> Expirations]
  BY <1>2, <1>3, <1>5 DEF TypeOK, TablesTyped
<1>7. /\ orderStatus' \in [Orders -> OrderStatus]
      /\ outputOf' \in [Orders -> Batches]
      /\ lineItems' \in [Orders -> Seq(LineItems)]
      /\ used' \in [Orders -> Seq(Nat)]
  BY <1>2, <1>3, <1>4, <1>5 DEF TypeOK, TablesTyped
<1>8. UNCHANGED ledger
  BY DEF CreateCommit
<1>9. TablesTyped'
  BY <1>6, <1>7, <1>8 DEF TypeOK, TablesTyped
<1> QED
  BY <1>1, <1>9, EndTyped DEF TypeOK, Finished

\* The locked order row; for Complete, a permutation of its line items.
LEMMA OrderLockTyped ==
  ASSUME NEW c \in Calls, TypeOK, OrderLock(c)
  PROVE  TypeOK'
<1> DEFINE o == request[c].order
<1>1. /\ phase[c] # "new"
      /\ o \in Orders
  BY Running, RequestFields DEF OrderLock, InTx, OrderRequests
<1>2. CASE Rollback(c, "refused")
  BY <1>1, <1>2, RollbackTyped DEF Finished
<1>3. CASE ~ Rollback(c, "refused")
  <2>1. queue' \in [Calls -> Seq([batch : Batches, item : Nat])]
    <3>1. CASE UNCHANGED queue
      BY <3>1 DEF TypeOK, CallsTyped
    <3>2. CASE ~ UNCHANGED queue
      <4> DEFINE items == lineItems[o]
      <4>1. PICK s \in SetToSeqs(DOMAIN items) :
              queue' = [queue EXCEPT ![c] = [i \in DOMAIN s |->
                          [batch |-> items[s[i]].batch, item |-> s[i]]]]
        BY <1>3, <3>2 DEF OrderLock
      <4>2. items \in Seq(LineItems)
        BY <1>1 DEF TypeOK, TablesTyped
      <4>3. /\ Len(items) \in Nat /\ DOMAIN items = 1 .. Len(items)
            /\ \A i \in 1 .. Len(items) : items[i] \in LineItems
        BY <4>2
      <4>4. IsFiniteSet(DOMAIN items)
        BY <4>2, DomainFinite
      <4>5. s \in Seq(DOMAIN items) /\ DOMAIN s = 1 .. Len(s)
        BY <4>1, <4>4, PermutationsAreSequences
      <4>6. Len(s) \in Nat /\ \A i \in 1 .. Len(s) : s[i] \in DOMAIN items
        BY <4>5
      <4>7. \A i \in 1 .. Len(s) :
              s[i] \in Nat /\ items[s[i]].batch \in Batches
        BY <4>3, <4>6 DEF LineItems
      <4>8. [i \in 1 .. Len(s) |-> [batch |-> items[s[i]].batch, item |-> s[i]]]
              \in [1 .. Len(s) -> [batch : Batches, item : Nat]]
        BY <4>7
      <4>9. [i \in 1 .. Len(s) |-> [batch |-> items[s[i]].batch, item |-> s[i]]]
              \in Seq([batch : Batches, item : Nat])
        BY <4>6, <4>8
      <4>10. queue \in [Calls -> Seq([batch : Batches, item : Nat])]
        BY DEF TypeOK, CallsTyped
      <4> HIDE DEF items
      <4> QED
        BY <4>1, <4>5, <4>9, <4>10
    <3> QED
      BY <3>1, <3>2
  <2>2. TablesTyped'
    BY <1>3 DEF TypeOK, TablesTyped, OrderLock, tables
  <2>3. /\ phase' \in [Calls -> Phases]
        /\ \A d \in Calls : phase'[d] # "new" => phase[d] # "new"
    BY <1>1, <1>3 DEF TypeOK, CallsTyped, OrderLock, GoTo, Phases
  <2>4. orderLock' \in [Orders -> Calls \cup {Nobody}]
    BY <1>1, <1>3 DEF TypeOK, CallsTyped, OrderLock
  <2>5. UNCHANGED <<tables, batchLock, keyShare, request, remaining, delta,
                    soonest, snapshot>>
    BY <1>3 DEF OrderLock
  <2>6. CallsTyped'
    BY <2>1, <2>3, <2>4, <2>5 DEF TypeOK, CallsTyped
  <2> QED
    BY <2>2, <2>6 DEF TypeOK
<1> QED
  BY <1>2, <1>3

\* One round of Complete's loop.  What it deducts is an integer because
\* the queue names line items of the order (InputsQueued).
LEMMA CompleteItemTyped ==
  ASSUME NEW c \in Calls, TypeOK, InputsQueued, CompleteItem(c)
  PROVE  TypeOK'
<1> DEFINE o    == request[c].order
           b    == Head(queue[c]).batch
           need == lineItems[o][Head(queue[c]).item].quantity
<1>1. phase[c] # "new" /\ o \in Orders
  BY Running, RequestFields DEF CompleteItem, At, InTx, OrderRequests
<1>2. CASE Rollback(c, "refused")
  BY <1>1, <1>2, RollbackTyped DEF Finished
<1>3. CASE ~ Rollback(c, "refused")
  <2>1. b \in Batches /\ Tail(queue[c]) \in Seq([batch : Batches, item : Nat])
    BY QueueHead DEF CompleteItem
  <2>2. need \in Int
    <3>1. Head(queue[c]).item \in DOMAIN lineItems[o]
      BY QueueFirst DEF CompleteItem, InputsQueued
    <3>2. lineItems[o] \in Seq(LineItems)
      BY <1>1 DEF TypeOK, TablesTyped
    <3>3. lineItems[o][Head(queue[c]).item] \in LineItems
      BY <3>1, <3>2
    <3> QED
      BY <3>3, StockAssumption DEF LineItems, Positive
  <2>3. /\ LockBatch(c, b)
        /\ queue'   = [queue EXCEPT ![c] = Tail(@)]
        /\ delta'   = [delta EXCEPT ![c][b] = @ - need]
        /\ soonest' = [soonest EXCEPT ![c] = Earliest(expiration[b], @)]
        /\ UNCHANGED <<tables, phase, request, remaining, snapshot>>
    BY <1>3 DEF CompleteItem
  <2>4. TablesTyped'
    BY <2>3 DEF TypeOK, TablesTyped, tables
  <2>5. queue' \in [Calls -> Seq([batch : Batches, item : Nat])]
    BY <2>1, <2>3 DEF TypeOK, CallsTyped
  <2>6. delta' \in [Calls -> [Batches -> Int]]
    BY <2>1, <2>2, <2>3, SMTT(20) DEF TypeOK, CallsTyped
  <2>7. soonest' \in [Calls -> Expirations]
    BY <2>1, <2>3 DEF TypeOK, TablesTyped, CallsTyped, Earliest
  <2>8. batchLock' \in [Batches -> Calls \cup {Nobody}]
    BY <2>1, <2>3 DEF TypeOK, CallsTyped, LockBatch
  <2>9. CallsTyped'
    BY <2>3, <2>5, <2>6, <2>7, <2>8 DEF TypeOK, CallsTyped, LockBatch
  <2> QED
    BY <2>4, <2>9 DEF TypeOK
<1> QED
  BY <1>2, <1>3

\* The UPDATE of the output batch.
LEMMA CompleteActivateTyped ==
  ASSUME NEW c \in Calls, TypeOK, CompleteActivate(c)
  PROVE  TypeOK'
<1>1. phase[c] # "new" /\ request[c].order \in Orders
  BY Running, RequestFields DEF CompleteActivate, At, InTx, OrderRequests
<1>2. outputOf[request[c].order] \in Batches
  BY <1>1 DEF TypeOK, TablesTyped
<1>3. TablesTyped'
  BY DEF TypeOK, TablesTyped, CompleteActivate, tables
<1>4. CallsTyped'
  BY <1>1, <1>2
     DEF TypeOK, CallsTyped, CompleteActivate, LockBatch, GoTo, Phases
<1> QED
  BY <1>3, <1>4 DEF TypeOK

\* The commit of a completion.
LEMMA CompleteCommitTyped ==
  ASSUME NEW c \in Calls, TypeOK, CompleteCommit(c)
  PROVE  TypeOK'
<1> DEFINE o == request[c].order
<1>1. phase[c] # "new" /\ o \in Orders /\ End(c, "ok")
  BY Running, RequestFields DEF CompleteCommit, At, InTx, OrderRequests
<1>2. /\ quantity' \in [Batches -> Int]
      /\ ledger' \in [Batches -> [TransactionTypes -> Int]]
  BY PostTyped DEF CompleteCommit, TransactionTypes
<1>3. [i \in DOMAIN used[o] |-> used[o][i] + 1] \in Seq(Nat)
  <2>1. used[o] \in Seq(Nat)
    BY <1>1 DEF TypeOK, TablesTyped
  <2>2. /\ Len(used[o]) \in Nat /\ DOMAIN used[o] = 1 .. Len(used[o])
        /\ \A i \in 1 .. Len(used[o]) : used[o][i] \in Nat
    BY <2>1
  <2>3. [i \in 1 .. Len(used[o]) |-> used[o][i] + 1]
          \in [1 .. Len(used[o]) -> Nat]
    BY <2>2
  <2> QED
    BY <2>2, <2>3
<1>4. used' \in [Orders -> Seq(Nat)]
  BY <1>1, <1>3 DEF TypeOK, TablesTyped, CompleteCommit
<1>5. "ACTIVE" \in BatchStatus /\ "COMPLETED" \in OrderStatus
  BY DEF BatchStatus, OrderStatus
<1>6. /\ status' \in [Batches -> BatchStatus]
      /\ expiration' \in [Batches -> Expirations]
      /\ orderStatus' \in [Orders -> OrderStatus]
  BY <1>1, <1>5 DEF TypeOK, TablesTyped, CallsTyped, CompleteCommit
<1>7. TablesTyped'
  BY <1>2, <1>4, <1>6 DEF TypeOK, TablesTyped, CompleteCommit
<1> QED
  BY <1>1, <1>7, EndTyped DEF TypeOK, Finished

\* Failures and deadlock victims roll back.
LEMMA FailureTyped ==
  ASSUME NEW c \in Calls, TypeOK, Abort(c) \/ DeadlockVictim(c)
  PROVE  TypeOK'
<1>1. CASE Abort(c)
  BY <1>1, RollbackTyped, Running DEF Abort, Finished
<1>2. CASE DeadlockVictim(c)
  <2>1. phase[c] # "new"
    BY <1>2 DEF DeadlockVictim, Deadlocked, WaitsFor, At
  <2> QED
    BY <1>2, <2>1, RollbackTyped DEF DeadlockVictim, Finished
<1> QED
  BY <1>1, <1>2

\* Every step keeps rows and calls well formed.
LEMMA TypeStep ==
  ASSUME TypeOK, InputsQueued, [Next]_vars
  PROVE  TypeOK'
<1>1. CASE UNCHANGED vars
  BY <1>1 DEF TypeOK, TablesTyped, CallsTyped, vars, tables, locks
<1>2. ASSUME NEW c \in Calls, Statement(c)
      PROVE  TypeOK'
  BY <1>2, ReceiveTyped, LockTyped, StatusTyped, MovementTyped,
     ConsumeQueryTyped, ConsumeLockTyped, ConsumeSettleTyped,
     CreateCheckTyped, CreateLinkTyped, CreateCommitTyped, OrderLockTyped,
     CompleteItemTyped, CompleteActivateTyped, CompleteCommitTyped
     DEF Statement
<1> QED
  BY <1>1, <1>2, BeginTyped, FailureTyped DEF Next

-----------------------------------------------------------------------------
(* From the types to the whole of InductiveInv.                            *)

\* The line items of an order name batches and positive quantities.
LEMMA ItemFields ==
  ASSUME NEW s \in Seq(LineItems), NEW i \in DOMAIN s
  PROVE  s[i].batch \in Batches /\ s[i].quantity \in Positive
<1>1. DOMAIN s = 1 .. Len(s) /\ \A j \in 1 .. Len(s) : s[j] \in LineItems
  OBVIOUS
<1>2. s[i] \in LineItems
  BY <1>1
<1> QED
  BY <1>2 DEF LineItems

\* What InductiveInv says of one call.
CallSafe(c) ==
  /\ remaining[c] >= 0
  /\ \A b \in Batches : quantity[b] + delta[c][b] \in Quantities
  /\ \A b \in Batches : delta[c][b] # 0 =>
       /\ InTx(c)
       /\ batchLock[b] = c
       /\ status[b] # "NONE"
       /\ request[c].op = "Consume" => status[b] = "ACTIVE"
  /\ phase[c] \in {"fetching", "ready"} =>
       /\ request[c].op \in {"Start", "Cancel", "Complete"} =>
            /\ orderLock[request[c].order] = c
            /\ orderStatus[request[c].order] \in Allowed(request[c].op)
       /\ request[c].op = "Quarantine" =>
            batchLock[request[c].batch] = c /\ status[request[c].batch] = "ACTIVE"
       /\ request[c].op = "Create" =>
            \A i \in DOMAIN request[c].items :
              status[request[c].items[i].batch] # "NONE"
  /\ At(c, "fetching", "Complete") =>
       \A i \in DOMAIN queue[c] :
         /\ queue[c][i].item \in DOMAIN lineItems[request[c].order]
         /\ queue[c][i].batch =
              lineItems[request[c].order][queue[c][i].item].batch

\* What InductiveInv says of the tables.
TablesSafe ==
  /\ \A b \in Batches : quantity[b] \in Quantities
  /\ \A o \in Orders : Exists(o) =>
       \A i \in DOMAIN lineItems[o] : status[lineItems[o][i].batch] # "NONE"
  /\ UnusedRows
  /\ LedgerBalance
  /\ InputsUsedOnce
  /\ OutputMirrorsOrder

Safe == TypeOK /\ TablesSafe /\ \A c \in Calls : CallSafe(c)

\* InductiveInv, taken apart by tables and calls.
LEMMA SafeIsInductiveInv == InductiveInv <=> Safe
  BY DEF InductiveInv, Safe, TablesSafe, CallSafe, ChangesAreLocked, GuardsHold,
         InputsQueued, InputsExist, StockCovered

-----------------------------------------------------------------------------
(* The initial tables.                                                     *)

\* The seed is a consistent database, and no call has begun.
LEMMA InitSafe == Init => Safe
<1> SUFFICES ASSUME Init PROVE Safe
  OBVIOUS
<1>1. TypeOK
  BY InitTyped
<1>2. /\ status = Seed.status /\ quantity = Seed.quantity
      /\ initial = Seed.quantity /\ ledger = Seed.ledger
      /\ orderStatus = Seed.orderStatus /\ outputOf = Seed.outputOf
      /\ lineItems = Seed.lineItems /\ used = Seed.used
  BY DEF Init, Tables!Init
<1>3. ASSUME NEW b \in Batches
      PROVE  Produced(b) <=> SeedProduced(b)
  BY <1>2 DEF Produced, SeedProduced, Exists
<1>4. \A b \in Batches : quantity[b] \in Quantities
  BY <1>2, SeedTypes
<1>5. LedgerBalance
  <2> SUFFICES ASSUME NEW b \in Batches, status[b] # "NONE"
               PROVE  quantity[b] = Booked(ledger[b])
                                      + IF Produced(b) THEN initial[b] ELSE 0
    BY DEF LedgerBalance
  <2>1. Booked(ledger[b]) = IF Produced(b) THEN 0 ELSE quantity[b]
    BY <1>2, <1>3, SeedAssumption
  <2>2. quantity[b] \in Int
    BY <1>1 DEF TypeOK, TablesTyped
  <2> QED
    BY <2>1, <2>2, <1>2
<1>6. UnusedRows
  <2> SUFFICES ASSUME NEW b \in Batches, status[b] = "NONE"
               PROVE  Booked(ledger[b]) = 0 /\ ~ Produced(b)
    BY DEF UnusedRows
  <2>1. ~ SeedProduced(b)
    BY <1>2, SeedAssumption DEF SeedProduced
  <2> QED
    BY <1>2, <1>3, <2>1, SeedAssumption
<1>7. /\ InputsUsedOnce
      /\ \A o \in Orders : orderStatus[o] # "COMPLETED"
  <2>1. \A o \in Orders : orderStatus[o] \in {"NONE", "PLANNED", "IN_PROGRESS"}
    BY <1>2, SeedTypes
  <2>2. ASSUME NEW o \in Orders, Exists(o)
        PROVE  used[o] = [i \in DOMAIN lineItems[o] |-> 0]
    BY <1>2, <2>2, SeedAssumption DEF Exists
  <2> QED
    BY <2>1, <2>2 DEF InputsUsedOnce
<1>8. OutputMirrorsOrder
  <2>1. ASSUME NEW o \in Orders, Exists(o)
        PROVE  /\ status[outputOf[o]] = "RESERVED"
               /\ \A q \in Orders \ {o} : Exists(q) => outputOf[q] # outputOf[o]
    BY <1>2, <2>1, SeedAssumption DEF Exists
  <2> QED
    BY <1>7, <2>1 DEF OutputMirrorsOrder
<1>9. \A o \in Orders : Exists(o) =>
        \A i \in DOMAIN lineItems[o] : status[lineItems[o][i].batch] # "NONE"
  BY <1>2, SeedAssumption DEF Exists
<1>10. ASSUME NEW c \in Calls PROVE CallSafe(c)
  <2>1. /\ phase[c] = "new" /\ remaining[c] = 0
        /\ delta[c] = [b \in Batches |-> 0]
    BY DEF Init
  <2>2. \A b \in Batches : quantity[b] + 0 = quantity[b]
    BY <1>1 DEF TypeOK, TablesTyped
  <2> QED
    BY <1>4, <2>1, <2>2 DEF CallSafe, At
<1> QED
  BY <1>1, <1>4, <1>5, <1>6, <1>7, <1>8, <1>9, <1>10 DEF Safe, TablesSafe

-----------------------------------------------------------------------------
(* The calls that do not take the step.                                    *)

\* The step leaves d's private state and d's locks alone.
Untouched(d) ==
  /\ phase'[d] = phase[d] /\ request'[d] = request[d]
  /\ queue'[d] = queue[d] /\ remaining'[d] = remaining[d]
  /\ delta'[d] = delta[d]
  /\ \A b \in Batches : batchLock[b] = d => batchLock'[b] = d
  /\ \A o \in Orders : orderLock[o] = d => orderLock'[o] = d

\* The step leaves what d relies on in the tables alone.
Undisturbed(d) ==
  /\ \A b \in Batches : quantity'[b] + delta[d][b] \in Quantities
  /\ \A b \in Batches : status[b] # "NONE" => status'[b] # "NONE"
  /\ \A b \in Batches :
       batchLock[b] = d /\ status[b] = "ACTIVE" => status'[b] = "ACTIVE"
  /\ \A o \in Orders :
       orderLock[o] = d /\ Exists(o) => orderStatus'[o] = orderStatus[o]
  /\ \A o \in Orders : Exists(o) => lineItems'[o] = lineItems[o]

\* An order that passed a status guard exists.
LEMMA AllowedExists ==
  ASSUME NEW op, NEW o \in Orders, orderStatus[o] \in Allowed(op)
  PROVE  Exists(o)
  BY DEF Allowed, Exists

\* A call that takes no step stays safe if nobody touches or disturbs it.
LEMMA OthersSafe ==
  ASSUME Safe, NEW d \in Calls, Untouched(d), Undisturbed(d)
  PROVE  CallSafe(d)'
<1>1. CallSafe(d)
  BY DEF Safe
<1>2. phase[d] # "new" => request[d] \in Menu
  BY DEF Safe, TypeOK, CallsTyped
<1>3. remaining'[d] >= 0 /\ \A b \in Batches : quantity'[b] + delta'[d][b] \in Quantities
  BY <1>1 DEF CallSafe, Untouched, Undisturbed
<1>4. ASSUME NEW b \in Batches, delta'[d][b] # 0
      PROVE  /\ InTx(d)'
             /\ batchLock'[b] = d
             /\ status'[b] # "NONE"
             /\ request'[d].op = "Consume" => status'[b] = "ACTIVE"
  BY <1>1, <1>4 DEF CallSafe, Untouched, Undisturbed, InTx
<1>5. ASSUME phase'[d] \in {"fetching", "ready"},
             request'[d].op \in {"Start", "Cancel", "Complete"}
      PROVE  /\ orderLock'[request'[d].order] = d
             /\ orderStatus'[request'[d].order] \in Allowed(request'[d].op)
  <2>1. request[d].order \in Orders
    BY <1>2, <1>5, RequestFields DEF Untouched, OrderRequests
  <2> QED
    BY <1>1, <1>5, <2>1, AllowedExists DEF CallSafe, Untouched, Undisturbed
<1>6. ASSUME phase'[d] \in {"fetching", "ready"}, request'[d].op = "Quarantine"
      PROVE  /\ batchLock'[request'[d].batch] = d
             /\ status'[request'[d].batch] = "ACTIVE"
  <2>1. request[d].batch \in Batches
    BY <1>2, <1>6, RequestFields DEF Untouched, QuarantineRequests
  <2> QED
    BY <1>1, <1>6, <2>1 DEF CallSafe, Untouched, Undisturbed
<1>7. ASSUME phase'[d] \in {"fetching", "ready"}, request'[d].op = "Create"
      PROVE  \A i \in DOMAIN request'[d].items :
               status'[request'[d].items[i].batch] # "NONE"
  <2>1. request[d].items \in Seq(LineItems)
    BY <1>2, <1>7, RequestFields DEF Untouched, CreateRequests
  <2>2. \A i \in DOMAIN request[d].items : request[d].items[i].batch \in Batches
    BY <2>1, ItemFields
  <2> QED
    BY <1>1, <1>7, <2>2 DEF CallSafe, Untouched, Undisturbed
<1>8. ASSUME At(d, "fetching", "Complete")', NEW i \in DOMAIN queue'[d]
      PROVE  /\ queue'[d][i].item \in DOMAIN lineItems'[request'[d].order]
             /\ queue'[d][i].batch =
                  lineItems'[request'[d].order][queue'[d][i].item].batch
  <2>1. At(d, "fetching", "Complete") /\ request[d].order \in Orders
    BY <1>2, <1>8, RequestFields DEF Untouched, At, OrderRequests
  <2>2. Exists(request[d].order)
    BY <1>1, <2>1 DEF CallSafe, At, Allowed, Exists
  <2>3. /\ lineItems'[request[d].order] = lineItems[request[d].order]
        /\ queue'[d] = queue[d] /\ request'[d] = request[d]
    BY <2>1, <2>2 DEF Untouched, Undisturbed
  <2>4. /\ queue[d][i].item \in DOMAIN lineItems[request[d].order]
        /\ queue[d][i].batch =
             lineItems[request[d].order][queue[d][i].item].batch
    BY <1>1, <1>8, <2>1, <2>3 DEF CallSafe
  <2> QED
    BY <2>3, <2>4
<1> QED
  BY <1>3, <1>4, <1>5, <1>6, <1>7, <1>8 DEF CallSafe

-----------------------------------------------------------------------------
(* The steps before a commit, which leave the tables as they are.          *)

\* What leaves the tables alone keeps them safe and disturbs nobody.
LEMMA QuietTables ==
  ASSUME Safe, UNCHANGED tables
  PROVE  TablesSafe' /\ \A d \in Calls : Undisturbed(d)
<1>1. TablesSafe'
  BY DEF Safe, TablesSafe, tables, UnusedRows, LedgerBalance, InputsUsedOnce,
         OutputMirrorsOrder, Exists, Produced
<1>2. \A d \in Calls : Undisturbed(d)
  BY DEF Safe, CallSafe, Undisturbed, tables
<1> QED
  BY <1>1, <1>2

\* An answered call has no private state left, and no lock.
LEMMA EndSafe ==
  ASSUME Safe, NEW c \in Calls, NEW outcome \in Finished, End(c, outcome),
         \A b \in Batches : quantity'[b] \in Quantities
  PROVE  CallSafe(c)' /\ \A d \in Calls \ {c} : Untouched(d)
<1>1. /\ phase'[c] = outcome /\ remaining'[c] = 0
      /\ delta'[c] = [b \in Batches |-> 0]
  BY DEF Safe, TypeOK, CallsTyped, End
<1>2. \A b \in Batches : quantity'[b] + delta'[c][b] \in Quantities
  BY <1>1, StockAssumption DEF Quantities
<1>3. CallSafe(c)'
  BY <1>1, <1>2 DEF CallSafe, At, Finished
<1>4. ASSUME NEW d \in Calls \ {c}
      PROVE  Untouched(d)
  BY <1>4 DEF Safe, TypeOK, CallsTyped, Untouched, End
<1> QED
  BY <1>3, <1>4

\* A rollback, at any point of a call, is safe for it and for the others.
LEMMA RollbackSafe ==
  ASSUME Safe, NEW c \in Calls, NEW outcome \in Finished, Rollback(c, outcome)
  PROVE  TablesSafe' /\ \A d \in Calls : CallSafe(d)'
<1>1. UNCHANGED tables /\ End(c, outcome)
  BY DEF Rollback
<1>2. \A b \in Batches : quantity'[b] \in Quantities
  BY <1>1 DEF Safe, TablesSafe, tables
<1> QED
  BY <1>1, <1>2, QuietTables, EndSafe, OthersSafe

\* A step that changes no table, and of the calls only c, is safe if c is.
LEMMA QuietSafe ==
  ASSUME Safe, NEW c \in Calls, UNCHANGED tables,
         \A d \in Calls \ {c} : Untouched(d),
         CallSafe(c)'
  PROVE  TablesSafe' /\ \A d \in Calls : CallSafe(d)'
  BY QuietTables, OthersSafe

\* BEGIN.
LEMMA BeginSafe ==
  ASSUME Safe, NEW c \in Calls, Begin(c)
  PROVE  TablesSafe' /\ \A d \in Calls : CallSafe(d)'
<1>1. \A d \in Calls \ {c} : Untouched(d)
  BY DEF Safe, TypeOK, CallsTyped, Begin, Untouched, locks
<1>2. /\ phase[c] = "new" /\ phase'[c] = "begun"
      /\ UNCHANGED <<tables, remaining, delta>>
  BY DEF Safe, TypeOK, CallsTyped, Begin
<1>3. \A b \in Batches : delta[c][b] = 0
  BY <1>2 DEF Safe, CallSafe, InTx
<1>4. CallSafe(c)'
  BY <1>2, <1>3 DEF Safe, CallSafe, At, tables
<1> QED
  BY <1>1, <1>2, <1>4, QuietSafe

\* Locking a batch that is free or already c's takes it from nobody.
LEMMA LockTakesNothing ==
  ASSUME Safe, NEW c \in Calls, NEW b \in Batches, NEW d \in Calls \ {c},
         batchLock[b] \in {c, Nobody}, LockBatch(c, b)
  PROVE  /\ batchLock'[b] = c
         /\ \A e \in Batches : batchLock[e] \in {c, d} => batchLock'[e] = batchLock[e]
         /\ UNCHANGED orderLock
  BY CallsAssumption DEF Safe, TypeOK, CallsTyped, LockBatch

\* The row Quarantine found ACTIVE is locked, so it stays ACTIVE.
LEMMA QuarantineLockSafe ==
  ASSUME Safe, NEW c \in Calls, QuarantineLock(c)
  PROVE  TablesSafe' /\ \A d \in Calls : CallSafe(d)'
<1> DEFINE b == request[c].batch
<1>1. CASE Rollback(c, "refused")
  BY <1>1, RollbackSafe DEF Finished
<1>2. CASE ~ Rollback(c, "refused")
  <2>1. phase[c] = "begun" /\ request[c].op = "Quarantine" /\ b \in Batches
    BY Running, RequestFields DEF Safe, QuarantineLock, At, InTx, QuarantineRequests
  <2>2. /\ status[b] = "ACTIVE" /\ batchLock[b] \in {c, Nobody}
        /\ LockBatch(c, b) /\ phase' = [phase EXCEPT ![c] = "ready"]
        /\ UNCHANGED <<tables, request, queue, remaining, delta>>
    BY <1>2 DEF QuarantineLock, FreeForUpdate, GoTo
  <2>3. ASSUME NEW d \in Calls \ {c} PROVE Untouched(d)
    <3>1. phase'[d] = phase[d]
      BY <2>2 DEF Safe, TypeOK, CallsTyped
    <3>2. /\ \A e \in Batches : batchLock[e] = d => batchLock'[e] = d
          /\ \A o \in Orders : orderLock[o] = d => orderLock'[o] = d
      BY <2>1, <2>2, LockTakesNothing
    <3> QED
      BY <2>2, <3>1, <3>2 DEF Untouched
  <2>4. /\ batchLock'[b] = c /\ phase'[c] = "ready"
        /\ \A e \in Batches : batchLock[e] = c => batchLock'[e] = c
    BY <2>1, <2>2 DEF Safe, TypeOK, CallsTyped, LockBatch
  <2>5. CallSafe(c)'
    BY <2>1, <2>2, <2>4 DEF Safe, CallSafe, At, InTx, tables
  <2> QED
    BY <2>2, <2>3, <2>5, QuietSafe
<1> QED
  BY <1>1, <1>2

\* The adjustment fits the locked batch.
LEMMA AdjustLockSafe ==
  ASSUME Safe, NEW c \in Calls, AdjustLock(c)
  PROVE  TablesSafe' /\ \A d \in Calls : CallSafe(d)'
<1> DEFINE b == request[c].batch
           n == request[c].change
<1>1. CASE Rollback(c, "refused") \/ Rollback(c, "failed")
  BY <1>1, RollbackSafe DEF Finished
<1>2. CASE ~ (Rollback(c, "refused") \/ Rollback(c, "failed"))
  <2>1. /\ phase[c] = "begun" /\ request[c].op = "Adjust"
        /\ b \in Batches /\ n \in Int
    BY Running, RequestFields, StockAssumption
       DEF Safe, AdjustLock, At, InTx, AdjustRequests, Signed
  <2>2. /\ status[b] # "NONE" /\ ~ (quantity[b] + n < 0)
        /\ quantity[b] + n <= MaxQty /\ batchLock[b] \in {c, Nobody}
        /\ LockBatch(c, b) /\ phase' = [phase EXCEPT ![c] = "ready"]
        /\ delta' = [delta EXCEPT ![c][b] = n]
        /\ UNCHANGED <<tables, request, queue, remaining>>
    BY <1>2 DEF AdjustLock, FreeForUpdate, GoTo
  <2>3. ASSUME NEW d \in Calls \ {c} PROVE Untouched(d)
    <3>1. phase'[d] = phase[d] /\ delta'[d] = delta[d]
      BY <2>2 DEF Safe, TypeOK, CallsTyped
    <3>2. /\ \A e \in Batches : batchLock[e] = d => batchLock'[e] = d
          /\ \A o \in Orders : orderLock[o] = d => orderLock'[o] = d
      BY <2>1, <2>2, LockTakesNothing
    <3> QED
      BY <2>2, <3>1, <3>2 DEF Untouched
  <2>4. /\ batchLock'[b] = c /\ phase'[c] = "ready"
        /\ \A e \in Batches : batchLock[e] = c => batchLock'[e] = c
    BY <2>1, <2>2 DEF Safe, TypeOK, CallsTyped, LockBatch
  <2>5. /\ delta'[c][b] = n
        /\ \A e \in Batches \ {b} : delta'[c][e] = delta[c][e]
    BY <2>1, <2>2 DEF Safe, TypeOK, CallsTyped
  <2>6. quantity[b] + n \in Quantities
    BY <2>1, <2>2, StockAssumption DEF Safe, TypeOK, TablesTyped, Quantities
  <2>7. CallSafe(c)'
    <3>1. remaining'[c] >= 0
      BY <2>2 DEF Safe, CallSafe
    <3>2. \A e \in Batches : quantity'[e] + delta'[c][e] \in Quantities
      BY <2>2, <2>5, <2>6 DEF Safe, CallSafe, tables
    <3>3. \A e \in Batches : delta'[c][e] # 0 => batchLock'[e] = c /\ status'[e] # "NONE"
      BY <2>2, <2>4, <2>5 DEF Safe, CallSafe, tables
    <3>4. phase'[c] = "ready" /\ request'[c].op = "Adjust" /\ InTx(c)'
      BY <2>1, <2>2, <2>4 DEF InTx
    <3> QED
      BY <3>1, <3>2, <3>3, <3>4 DEF CallSafe, At
  <2> QED
    BY <2>2, <2>3, <2>7, QuietSafe
<1> QED
  BY <1>1, <1>2

\* The FEFO query locks nothing yet.
LEMMA ConsumeQuerySafe ==
  ASSUME Safe, NEW c \in Calls, ConsumeQuery(c)
  PROVE  TablesSafe' /\ \A d \in Calls : CallSafe(d)'
<1>1. /\ phase[c] = "begun" /\ request[c].op = "Consume"
      /\ request[c].quantity \in Positive
  BY Running, RequestFields DEF Safe, ConsumeQuery, At, InTx, ConsumeRequests
<1>2. request[c].quantity >= 0
  BY <1>1, StockAssumption DEF Positive
<1>3. UNCHANGED <<tables, locks, request, delta>>
  BY DEF ConsumeQuery
<1>4. ASSUME NEW d \in Calls \ {c} PROVE Untouched(d)
  <2>1. /\ phase'[d] = phase[d] /\ queue'[d] = queue[d]
        /\ remaining'[d] = remaining[d]
    BY DEF Safe, TypeOK, CallsTyped, ConsumeQuery, GoTo
  <2> QED
    BY <1>3, <2>1 DEF Untouched, locks
<1>5. phase'[c] = "fetching" /\ remaining'[c] = request[c].quantity
  BY DEF Safe, TypeOK, CallsTyped, ConsumeQuery, GoTo
<1>6. CallSafe(c)'
  BY <1>1, <1>2, <1>3, <1>5 DEF Safe, CallSafe, At, InTx, tables, locks
<1> QED
  BY <1>3, <1>4, <1>6, QuietSafe

\* A consumption takes from a locked, ACTIVE batch no more than it holds.
LEMMA ConsumeLockSafe ==
  ASSUME Safe, NEW c \in Calls, ConsumeLock(c)
  PROVE  TablesSafe' /\ \A d \in Calls : CallSafe(d)'
<1> DEFINE b    == Head(queue[c]).batch
           take == IF status[b] = "ACTIVE" THEN Lesser(quantity[b], remaining[c])
                                           ELSE 0
<1>1. /\ phase[c] = "fetching" /\ request[c].op = "Consume" /\ b \in Batches
  BY QueueHead DEF Safe, ConsumeLock, At
<1>2. /\ take \in Int /\ 0 <= take /\ take <= remaining[c]
      /\ take <= quantity[b]
      /\ take # 0 => status[b] = "ACTIVE"
  <2>1. quantity[b] \in Quantities /\ remaining[c] \in Int /\ remaining[c] >= 0
    BY <1>1 DEF Safe, TypeOK, CallsTyped, TablesSafe, CallSafe
  <2>2. quantity[b] \in Int /\ quantity[b] >= 0
    BY <2>1, StockAssumption DEF Quantities
  <2> QED
    BY <2>1, <2>2 DEF Lesser
<1>3. /\ batchLock[b] \in {c, Nobody} /\ LockBatch(c, b)
      /\ queue'     = [queue EXCEPT ![c] = Tail(@)]
      /\ remaining' = [remaining EXCEPT ![c] = @ - take]
      /\ delta'     = [delta EXCEPT ![c][b] = -take]
      /\ UNCHANGED <<tables, phase, request>>
  BY DEF ConsumeLock, FreeForUpdate
<1> HIDE DEF take
<1>4. ASSUME NEW d \in Calls \ {c} PROVE Untouched(d)
  <2>1. /\ queue'[d] = queue[d] /\ delta'[d] = delta[d]
        /\ remaining'[d] = remaining[d]
    BY <1>3 DEF Safe, TypeOK, CallsTyped
  <2>2. /\ \A e \in Batches : batchLock[e] = d => batchLock'[e] = d
        /\ \A o \in Orders : orderLock[o] = d => orderLock'[o] = d
    BY <1>1, <1>3, LockTakesNothing
  <2> QED
    BY <1>3, <2>1, <2>2 DEF Untouched
<1>5. /\ batchLock'[b] = c
      /\ \A e \in Batches : batchLock[e] = c => batchLock'[e] = c
  BY <1>1, <1>3 DEF Safe, TypeOK, CallsTyped, LockBatch
<1>6. /\ delta'[c][b] = -take
      /\ \A e \in Batches \ {b} : delta'[c][e] = delta[c][e]
      /\ remaining'[c] = remaining[c] - take
  BY <1>1, <1>3 DEF Safe, TypeOK, CallsTyped
<1>7. quantity[b] + delta'[c][b] \in Quantities
  <2>1. quantity[b] \in Quantities
    BY <1>1 DEF Safe, TablesSafe
  <2> QED
    BY <1>2, <1>6, <2>1, StockAssumption DEF Quantities
<1>8. remaining'[c] >= 0
  BY <1>2, <1>6 DEF Safe, TypeOK, CallsTyped
<1>9. delta'[c][b] # 0 => status[b] = "ACTIVE"
  BY <1>2, <1>6
<1>10. /\ phase'[c] = "fetching" /\ request'[c].op = "Consume"
       /\ UNCHANGED <<quantity, status>>
  BY <1>1, <1>3 DEF tables
<1>11. \A e \in Batches : quantity'[e] + delta'[c][e] \in Quantities
  BY <1>6, <1>7, <1>10 DEF Safe, CallSafe
<1>12. ASSUME NEW e \in Batches, delta'[c][e] # 0
       PROVE  batchLock'[e] = c /\ status'[e] = "ACTIVE"
  BY <1>1, <1>5, <1>6, <1>9, <1>10, <1>12 DEF Safe, CallSafe
<1>13. CallSafe(c)'
  BY <1>8, <1>10, <1>11, <1>12 DEF CallSafe, At, InTx
<1> QED
  BY <1>3, <1>4, <1>13, QuietSafe

\* SelectFEFO's verdict.
LEMMA ConsumeSettleSafe ==
  ASSUME Safe, NEW c \in Calls, ConsumeSettle(c)
  PROVE  TablesSafe' /\ \A d \in Calls : CallSafe(d)'
<1>1. CASE Rollback(c, "refused")
  BY <1>1, RollbackSafe DEF Finished
<1>2. CASE ~ Rollback(c, "refused")
  <2>1. /\ phase[c] = "fetching" /\ request[c].op = "Consume"
        /\ phase' = [phase EXCEPT ![c] = "ready"]
        /\ UNCHANGED <<tables, locks, request, queue, remaining, delta>>
    BY <1>2 DEF ConsumeSettle, At, GoTo
  <2>2. phase'[c] = "ready" /\ \A d \in Calls \ {c} : phase'[d] = phase[d]
    BY <2>1 DEF Safe, TypeOK, CallsTyped
  <2>3. \A d \in Calls \ {c} : Untouched(d)
    BY <2>1, <2>2 DEF Untouched, locks
  <2>4. CallSafe(c)'
    BY <2>1, <2>2 DEF Safe, CallSafe, At, InTx, tables, locks
  <2> QED
    BY <2>1, <2>3, <2>4, QuietSafe
<1> QED
  BY <1>1, <1>2

\* The input batches that the checks found exist.
LEMMA CreateCheckSafe ==
  ASSUME Safe, NEW c \in Calls, CreateCheck(c)
  PROVE  TablesSafe' /\ \A d \in Calls : CallSafe(d)'
<1>1. CASE Rollback(c, "refused")
  BY <1>1, RollbackSafe DEF Finished
<1>2. CASE ~ Rollback(c, "refused")
  <2>1. /\ phase[c] = "begun" /\ request[c].op = "Create"
        /\ \A i \in DOMAIN request[c].items :
             status[request[c].items[i].batch] # "NONE"
        /\ phase' = [phase EXCEPT ![c] = "fetching"]
        /\ UNCHANGED <<tables, locks, request, remaining, delta>>
    BY <1>2 DEF CreateCheck, At, GoTo
  <2>2. \A d \in Calls \ {c} : queue'[d] = queue[d]
    BY <1>2 DEF Safe, TypeOK, CallsTyped, CreateCheck
  <2>3. phase'[c] = "fetching" /\ \A d \in Calls \ {c} : phase'[d] = phase[d]
    BY <2>1 DEF Safe, TypeOK, CallsTyped
  <2>4. \A d \in Calls \ {c} : Untouched(d)
    BY <2>1, <2>2, <2>3 DEF Untouched, locks
  <2>5. CallSafe(c)'
    BY <2>1, <2>3 DEF Safe, CallSafe, At, InTx, tables, locks
  <2> QED
    BY <2>1, <2>4, <2>5, QuietSafe
<1> QED
  BY <1>1, <1>2

\* Linking a line item changes nothing a call relies on.
LEMMA CreateLinkSafe ==
  ASSUME Safe, NEW c \in Calls, CreateLink(c)
  PROVE  TablesSafe' /\ \A d \in Calls : CallSafe(d)'
<1>1. /\ phase[c] = "fetching" /\ request[c].op = "Create"
      /\ UNCHANGED <<tables, batchLock, orderLock, request, remaining, delta>>
  BY DEF CreateLink, At
<1>2. /\ phase'[c] \in {"fetching", "ready"}
      /\ \A d \in Calls \ {c} : phase'[d] = phase[d] /\ queue'[d] = queue[d]
  BY DEF Safe, TypeOK, CallsTyped, CreateLink, GoTo
<1>3. \A d \in Calls \ {c} : Untouched(d)
  BY <1>1, <1>2 DEF Untouched
<1>4. CallSafe(c)'
  BY <1>1, <1>2 DEF Safe, CallSafe, At, InTx, tables
<1> QED
  BY <1>1, <1>3, <1>4, QuietSafe

\* The order passed its status guard under the lock.
LEMMA OrderLockSafe ==
  ASSUME Safe, NEW c \in Calls, OrderLock(c)
  PROVE  TablesSafe' /\ \A d \in Calls : CallSafe(d)'
<1> DEFINE o     == request[c].order
           items == lineItems[o]
<1>1. CASE Rollback(c, "refused")
  BY <1>1, RollbackSafe DEF Finished
<1>2. CASE ~ Rollback(c, "refused")
  <2>1. /\ phase[c] = "begun"
        /\ request[c].op \in {"Start", "Cancel", "Complete"}
        /\ o \in Orders
    BY Running, RequestFields DEF Safe, OrderLock, InTx, OrderRequests
  <2>2. /\ orderLock[o] \in {c, Nobody} /\ orderStatus[o] \in Allowed(request[c].op)
        /\ orderLock' = [orderLock EXCEPT ![o] = c]
        /\ UNCHANGED <<tables, batchLock, request, remaining, delta>>
    BY <1>2 DEF OrderLock
  <2>3. /\ phase'[c] \in {"fetching", "ready"}
        /\ \A d \in Calls \ {c} : phase'[d] = phase[d] /\ queue'[d] = queue[d]
    BY <1>2 DEF Safe, TypeOK, CallsTyped, OrderLock, GoTo
  <2>4. /\ orderLock'[o] = c
        /\ \A q \in Orders, d \in Calls : orderLock[q] = d => orderLock'[q] = d
    BY <2>1, <2>2, CallsAssumption DEF Safe, TypeOK, CallsTyped
  <2>5. \A d \in Calls \ {c} : Untouched(d)
    BY <2>2, <2>3, <2>4 DEF Untouched
  <2>6. ASSUME At(c, "fetching", "Complete")', NEW i \in DOMAIN queue'[c]
        PROVE  /\ queue'[c][i].item \in DOMAIN items
               /\ queue'[c][i].batch = items[queue'[c][i].item].batch
    <3>1. phase'[c] = "fetching" /\ request[c].op = "Complete"
      BY <2>2, <2>6 DEF At
    <3>2. PICK s \in SetToSeqs(DOMAIN items) :
            queue' = [queue EXCEPT ![c] = [j \in DOMAIN s |->
                        [batch |-> items[s[j]].batch, item |-> s[j]]]]
      BY <1>2, <3>1 DEF OrderLock
    <3>3. items \in Seq(LineItems)
      BY <2>1 DEF Safe, TypeOK, TablesTyped
    <3>4. s \in Seq(DOMAIN items) /\ DOMAIN s = 1 .. Len(s)
      BY <3>2, <3>3, DomainFinite, PermutationsAreSequences
    <3>5. \A j \in DOMAIN s : s[j] \in DOMAIN items
      BY <3>4
    <3> HIDE DEF items
    <3>6. queue'[c] = [j \in DOMAIN s |->
                        [batch |-> items[s[j]].batch, item |-> s[j]]]
      BY <3>2 DEF Safe, TypeOK, CallsTyped
    <3> QED
      BY <2>6, <3>5, <3>6
  <2> HIDE DEF items
  <2>7. items' = items /\ request'[c] = request[c]
    BY <2>2 DEF items, tables
  <2>8. CallSafe(c)'
    <3>1. /\ remaining'[c] >= 0
          /\ \A b \in Batches : quantity'[b] + delta'[c][b] \in Quantities
          /\ \A b \in Batches : delta'[c][b] # 0 =>
               /\ InTx(c)'
               /\ batchLock'[b] = c
               /\ status'[b] # "NONE"
               /\ request'[c].op = "Consume" => status'[b] = "ACTIVE"
      BY <2>2, <2>3 DEF Safe, CallSafe, InTx, tables
    <3>2. /\ orderLock'[request'[c].order] = c
          /\ orderStatus'[request'[c].order] \in Allowed(request'[c].op)
          /\ request'[c].op \in {"Start", "Cancel", "Complete"}
      BY <2>1, <2>2, <2>4, <2>7 DEF tables
    <3>3. At(c, "fetching", "Complete")' =>
            \A i \in DOMAIN queue'[c] :
              /\ queue'[c][i].item \in DOMAIN lineItems'[request'[c].order]
              /\ queue'[c][i].batch =
                   lineItems'[request'[c].order][queue'[c][i].item].batch
      BY <2>6, <2>7 DEF items
    <3> QED
      BY <3>1, <3>2, <3>3 DEF CallSafe
  <2> QED
    BY <2>2, <2>5, <2>8, QuietSafe
<1> QED
  BY <1>1, <1>2

\* A line item is deducted from a locked batch that still covers it.
LEMMA CompleteItemSafe ==
  ASSUME Safe, NEW c \in Calls, CompleteItem(c)
  PROVE  TablesSafe' /\ \A d \in Calls : CallSafe(d)'
<1> DEFINE o    == request[c].order
           b    == Head(queue[c]).batch
           need == lineItems[o][Head(queue[c]).item].quantity
<1>1. CASE Rollback(c, "refused")
  BY <1>1, RollbackSafe DEF Finished
<1>2. CASE ~ Rollback(c, "refused")
  <2>1. /\ phase[c] = "fetching" /\ request[c].op = "Complete"
        /\ queue[c] # <<>> /\ At(c, "fetching", "Complete")
        /\ o \in Orders /\ b \in Batches
    BY Running, RequestFields, QueueHead
       DEF Safe, CompleteItem, At, InTx, OrderRequests
  <2>2. /\ orderLock[o] = c /\ orderStatus[o] \in Allowed("Complete")
        /\ Head(queue[c]).item \in DOMAIN lineItems[o]
        /\ b = lineItems[o][Head(queue[c]).item].batch
    BY <2>1, QueueFirst DEF Safe, CallSafe
  <2>3. need \in Positive
    <3>1. lineItems[o] \in Seq(LineItems)
      BY <2>1 DEF Safe, TypeOK, TablesTyped
    <3> QED
      BY <2>2, <3>1, ItemFields
  <2>4. status[b] # "NONE"
    BY <2>1, <2>2, AllowedExists DEF Safe, TablesSafe
  <2>5. /\ batchLock[b] \in {c, Nobody} /\ LockBatch(c, b)
        /\ need <= quantity[b] + delta[c][b]
        /\ queue' = [queue EXCEPT ![c] = Tail(@)]
        /\ delta' = [delta EXCEPT ![c][b] = @ - need]
        /\ UNCHANGED <<tables, phase, request, remaining>>
    BY <1>2 DEF CompleteItem, FreeForUpdate
  <2> HIDE DEF need, b, o
  <2>6. /\ delta'[c][b] = delta[c][b] - need
        /\ \A e \in Batches \ {b} : delta'[c][e] = delta[c][e]
        /\ \A d \in Calls \ {c} : delta'[d] = delta[d] /\ queue'[d] = queue[d]
        /\ queue'[c] = Tail(queue[c])
    BY <2>1, <2>5 DEF Safe, TypeOK, CallsTyped
  <2>7. /\ batchLock'[b] = c /\ UNCHANGED orderLock
        /\ \A e \in Batches, d \in Calls : batchLock[e] = d => batchLock'[e] = d
    BY <2>1, <2>5, CallsAssumption DEF Safe, TypeOK, CallsTyped, LockBatch
  <2>8. \A d \in Calls \ {c} : Untouched(d)
    BY <2>5, <2>6, <2>7 DEF Untouched
  <2>9. quantity[b] + delta'[c][b] \in Quantities
    <3>1. quantity[b] + delta[c][b] \in Quantities
      BY <2>1 DEF Safe, CallSafe
    <3>2. quantity[b] \in Int /\ delta[c][b] \in Int
      BY <2>1 DEF Safe, TypeOK, TablesTyped, CallsTyped
    <3> QED
      BY <2>3, <2>5, <2>6, <3>1, <3>2, StockAssumption DEF Quantities, Positive
  <2>10. \A e \in Batches : quantity'[e] + delta'[c][e] \in Quantities
    BY <2>5, <2>6, <2>9 DEF Safe, CallSafe, tables
  <2>11. ASSUME NEW e \in Batches, delta'[c][e] # 0
         PROVE  batchLock'[e] = c /\ status'[e] # "NONE"
    BY <2>4, <2>5, <2>6, <2>7, <2>11 DEF Safe, CallSafe, tables
  <2>12. ASSUME NEW i \in DOMAIN queue'[c]
         PROVE  /\ queue'[c][i].item \in DOMAIN lineItems[o]
                /\ queue'[c][i].batch = lineItems[o][queue'[c][i].item].batch
    <3>1. i + 1 \in DOMAIN queue[c] /\ queue'[c][i] = queue[c][i + 1]
      BY <2>1, <2>6, <2>12, QueueFirst DEF Safe
    <3>2. /\ queue[c][i + 1].item \in DOMAIN lineItems[o]
          /\ queue[c][i + 1].batch = lineItems[o][queue[c][i + 1].item].batch
      BY <2>1, <3>1 DEF Safe, CallSafe, o
    <3> QED
      BY <3>1, <3>2
  <2>13. /\ phase'[c] = "fetching" /\ request'[c] = request[c]
         /\ request'[c].op = "Complete" /\ request'[c].order = o
         /\ remaining'[c] >= 0 /\ lineItems' = lineItems
         /\ orderStatus'[o] \in Allowed("Complete") /\ orderLock'[o] = c
    BY <2>1, <2>2, <2>5, <2>7 DEF Safe, CallSafe, tables, o
  <2>14. CallSafe(c)'
    BY <2>10, <2>11, <2>12, <2>13 DEF CallSafe, At, InTx
  <2> QED
    BY <2>5, <2>8, <2>14, QuietSafe
<1> QED
  BY <1>1, <1>2

\* The UPDATE of the output batch locks it.
LEMMA CompleteActivateSafe ==
  ASSUME Safe, NEW c \in Calls, CompleteActivate(c)
  PROVE  TablesSafe' /\ \A d \in Calls : CallSafe(d)'
<1> DEFINE b == outputOf[request[c].order]
<1>1. /\ phase[c] = "fetching" /\ request[c].op = "Complete"
      /\ request[c].order \in Orders /\ b \in Batches
  BY Running, RequestFields
     DEF Safe, TypeOK, TablesTyped, CompleteActivate, At, InTx, OrderRequests
<1>2. /\ batchLock[b] \in {c, Nobody} /\ LockBatch(c, b)
      /\ phase' = [phase EXCEPT ![c] = "ready"]
      /\ UNCHANGED <<tables, request, queue, remaining, delta>>
  BY DEF CompleteActivate, FreeForWrite, GoTo
<1>3. /\ phase'[c] = "ready" /\ \A d \in Calls \ {c} : phase'[d] = phase[d]
  BY <1>2 DEF Safe, TypeOK, CallsTyped
<1>4. /\ UNCHANGED orderLock
      /\ \A e \in Batches, d \in Calls : batchLock[e] = d => batchLock'[e] = d
  BY <1>1, <1>2, CallsAssumption DEF Safe, TypeOK, CallsTyped, LockBatch
<1>5. \A d \in Calls \ {c} : Untouched(d)
  BY <1>2, <1>3, <1>4 DEF Untouched
<1>6. CallSafe(c)'
  BY <1>1, <1>2, <1>3, <1>4 DEF Safe, CallSafe, At, InTx, tables
<1> QED
  BY <1>2, <1>5, <1>6, QuietSafe

-----------------------------------------------------------------------------
(* The commits.                                                            *)

\* A commit is safe if the tables are and nobody else is disturbed.
LEMMA CommitSafe ==
  ASSUME Safe, NEW c \in Calls, End(c, "ok"), TablesSafe',
         \A d \in Calls \ {c} : Undisturbed(d)
  PROVE  TablesSafe' /\ \A d \in Calls : CallSafe(d)'
<1>1. \A b \in Batches : quantity'[b] \in Quantities
  BY DEF TablesSafe
<1> QED
  BY <1>1, EndSafe, OthersSafe DEF Finished

\* A batch nobody has locked, or that does not exist, is changed by nobody.
LEMMA ChangedOnlyByHolder ==
  ASSUME Safe, NEW d \in Calls, NEW b \in Batches,
         batchLock[b] # d \/ status[b] = "NONE"
  PROVE  delta[d][b] = 0
  BY DEF Safe, CallSafe

\* A movement adds its quantity to what is booked, whatever its type.
LEMMA BookedAfter ==
  ASSUME NEW m \in [TransactionTypes -> Int], NEW type \in TransactionTypes,
         NEW n \in Int
  PROVE  Booked([m EXCEPT ![type] = @ + n]) = Booked(m) + n
<1>1. /\ m["INCOMING"] \in Int /\ m["OUTGOING"] \in Int
      /\ m["USED_IN_PRODUCTION"] \in Int /\ m["WASTE"] \in Int
      /\ m["ADJUSTMENT"] \in Int
  BY DEF TransactionTypes
<1>2. \A t \in TransactionTypes :
        [m EXCEPT ![type] = @ + n][t] = IF t = type THEN m[t] + n ELSE m[t]
  OBVIOUS
<1>3. CASE type = "INCOMING"
  BY <1>1, <1>2, <1>3 DEF Booked, TransactionTypes
<1>4. CASE type = "OUTGOING"
  BY <1>1, <1>2, <1>4 DEF Booked, TransactionTypes
<1>5. CASE type = "USED_IN_PRODUCTION"
  BY <1>1, <1>2, <1>5 DEF Booked, TransactionTypes
<1>6. CASE type = "WASTE"
  BY <1>1, <1>2, <1>6 DEF Booked, TransactionTypes
<1>7. CASE type = "ADJUSTMENT"
  BY <1>1, <1>2, <1>7 DEF Booked, TransactionTypes
<1> QED
  BY <1>3, <1>4, <1>5, <1>6, <1>7 DEF TransactionTypes

\* A commit's postings keep stock and ledger in step, stay in range, and touch
\* no row that another transaction has changed.
LEMMA PostSafe ==
  ASSUME Safe, NEW c \in Calls, NEW type \in TransactionTypes, Post(c, type)
  PROVE  /\ \A b \in Batches :
              /\ quantity'[b] = quantity[b] + delta[c][b]
              /\ Booked(ledger'[b]) = Booked(ledger[b]) + delta[c][b]
              /\ quantity'[b] \in Quantities
              /\ status[b] = "NONE" => delta[c][b] = 0
         /\ \A d \in Calls \ {c}, b \in Batches :
              quantity'[b] + delta[d][b] \in Quantities
<1>1. ASSUME NEW b \in Batches
      PROVE  /\ quantity[b] \in Int /\ delta[c][b] \in Int
             /\ ledger[b] \in [TransactionTypes -> Int]
             /\ quantity'[b] = quantity[b] + delta[c][b]
             /\ ledger'[b] = [ledger[b] EXCEPT ![type] = @ + delta[c][b]]
  BY DEF Safe, TypeOK, TablesTyped, CallsTyped, Post
<1>2. ASSUME NEW b \in Batches
      PROVE  Booked(ledger'[b]) = Booked(ledger[b]) + delta[c][b]
  <2>1. /\ delta[c][b] \in Int /\ ledger[b] \in [TransactionTypes -> Int]
        /\ ledger'[b] = [ledger[b] EXCEPT ![type] = @ + delta[c][b]]
    BY <1>1
  <2> QED
    BY <2>1, BookedAfter
<1>3. ASSUME NEW b \in Batches
      PROVE  /\ quantity'[b] \in Quantities
             /\ status[b] = "NONE" => delta[c][b] = 0
  <2>1. quantity[b] + delta[c][b] \in Quantities
    BY DEF Safe, CallSafe
  <2>2. status[b] = "NONE" => delta[c][b] = 0
    BY DEF Safe, CallSafe
  <2>3. quantity'[b] = quantity[b] + delta[c][b]
    BY <1>1
  <2> QED
    BY <2>1, <2>2, <2>3
<1>4. ASSUME NEW d \in Calls \ {c}, NEW b \in Batches
      PROVE  quantity'[b] + delta[d][b] \in Quantities
  <2>1. CASE delta[c][b] = 0
    <3>1. quantity[b] \in Int /\ quantity'[b] = quantity[b] + delta[c][b]
      BY <1>1
    <3>2. quantity'[b] = quantity[b]
      BY <2>1, <3>1
    <3>3. quantity[b] + delta[d][b] \in Quantities
      BY <1>4 DEF Safe, CallSafe
    <3> QED
      BY <3>2, <3>3
  <2>2. CASE delta[c][b] # 0
    <3>1. batchLock[b] = c
      BY <2>2 DEF Safe, CallSafe
    <3>2. delta[d][b] = 0
      BY <1>4, <3>1, ChangedOnlyByHolder
    <3>3. quantity[b] \in Int /\ delta[c][b] \in Int
          /\ quantity'[b] = quantity[b] + delta[c][b]
      BY <1>1
    <3>4. quantity'[b] \in Quantities
      BY <1>3
    <3> QED
      BY <3>2, <3>3, <3>4
  <2> QED
    BY <2>1, <2>2
<1> QED
  BY <1>1, <1>2, <1>3, <1>4

\* The commit of an adjustment or a consumption.
LEMMA MovementCommitSafe ==
  ASSUME Safe, NEW c \in Calls, AdjustCommit(c) \/ ConsumeCommit(c)
  PROVE  TablesSafe' /\ \A d \in Calls : CallSafe(d)'
<1>1. PICK type \in TransactionTypes : Post(c, type)
  <2>1. CASE AdjustCommit(c)
    <3>1. request[c].type \in TransactionTypes
      BY <2>1, Running, RequestFields
         DEF Safe, AdjustCommit, At, InTx, AdjustRequests, TransactionTypes
    <3> QED
      BY <2>1, <3>1 DEF AdjustCommit
  <2>2. CASE ConsumeCommit(c)
    BY <2>2 DEF ConsumeCommit, TransactionTypes
  <2> QED
    BY <2>1, <2>2
<1>2. /\ End(c, "ok")
      /\ UNCHANGED <<status, initial, orderStatus, outputOf, lineItems, used>>
  BY DEF AdjustCommit, ConsumeCommit
<1>3. /\ \A o \in Orders : Exists(o)' <=> Exists(o)
      /\ \A b \in Batches : Produced(b)' <=> Produced(b)
  BY <1>2 DEF Exists, Produced
<1>4. ASSUME NEW b \in Batches
      PROVE  /\ quantity[b] \in Int /\ initial[b] \in Int /\ delta[c][b] \in Int
             /\ ledger[b] \in [TransactionTypes -> Int]
             /\ Booked(ledger[b]) \in Int
  BY DEF Safe, TypeOK, TablesTyped, CallsTyped, Booked, TransactionTypes
<1>5. LedgerBalance'
  <2> SUFFICES ASSUME NEW b \in Batches, status'[b] # "NONE"
               PROVE  quantity'[b] = Booked(ledger'[b])
                        + IF Produced(b)' THEN initial'[b] ELSE 0
    BY DEF LedgerBalance
  <2>1. quantity[b] = Booked(ledger[b]) + IF Produced(b) THEN initial[b] ELSE 0
    BY <1>2 DEF Safe, TablesSafe, LedgerBalance
  <2> QED
    BY <1>1, <1>2, <1>3, <1>4, <2>1, PostSafe
<1>6. UnusedRows'
  <2> SUFFICES ASSUME NEW b \in Batches, status'[b] = "NONE"
               PROVE  Booked(ledger'[b]) = 0 /\ ~ Produced(b)'
    BY DEF UnusedRows
  <2>1. Booked(ledger[b]) = 0 /\ ~ Produced(b)
    BY <1>2 DEF Safe, TablesSafe, UnusedRows
  <2>2. Booked(ledger'[b]) = Booked(ledger[b]) + delta[c][b] /\ delta[c][b] = 0
    BY <1>1, <1>2, PostSafe
  <2> QED
    BY <1>3, <2>1, <2>2
<1>7. \A b \in Batches : quantity'[b] \in Quantities
  BY <1>1, PostSafe
<1>8. TablesSafe'
  BY <1>2, <1>3, <1>5, <1>6, <1>7
     DEF Safe, TablesSafe, InputsUsedOnce, OutputMirrorsOrder
<1>9. \A d \in Calls \ {c} : Undisturbed(d)
  BY <1>1, <1>2, PostSafe DEF Undisturbed
<1> QED
  BY <1>2, <1>8, <1>9, CommitSafe

\* A quarantined batch was ACTIVE and locked, so it is no output of an order
\* that is still open.
LEMMA QuarantineCommitSafe ==
  ASSUME Safe, NEW c \in Calls, QuarantineCommit(c)
  PROVE  TablesSafe' /\ \A d \in Calls : CallSafe(d)'
<1> DEFINE b == request[c].batch
<1>1. /\ b \in Batches /\ batchLock[b] = c /\ status[b] = "ACTIVE"
  BY Running, RequestFields
     DEF Safe, CallSafe, QuarantineCommit, At, InTx, QuarantineRequests
<1>2. /\ End(c, "ok")
      /\ status' = [status EXCEPT ![b] = "QUARANTINED"]
      /\ UNCHANGED <<quantity, initial, ledger, orderStatus, outputOf,
                     lineItems, used>>
  BY DEF QuarantineCommit
<1> HIDE DEF b
<1>3. /\ status'[b] = "QUARANTINED"
      /\ \A e \in Batches \ {b} : status'[e] = status[e]
  BY <1>1, <1>2 DEF Safe, TypeOK, TablesTyped
<1>4. \A e \in Batches : status'[e] = "NONE" <=> status[e] = "NONE"
  BY <1>1, <1>3
<1>5. /\ \A o \in Orders : Exists(o)' <=> Exists(o)
      /\ \A e \in Batches : Produced(e)' <=> Produced(e)
  BY <1>2 DEF Exists, Produced
<1>6. \A o \in Orders : outputOf[o] \in Batches /\ lineItems[o] \in Seq(LineItems)
  BY DEF Safe, TypeOK, TablesTyped
<1>7. LedgerBalance' /\ UnusedRows' /\ InputsUsedOnce'
  BY <1>2, <1>4, <1>5
     DEF Safe, TablesSafe, LedgerBalance, UnusedRows, InputsUsedOnce
<1>8. OutputMirrorsOrder'
  BY <1>1, <1>2, <1>3, <1>5, <1>6 DEF Safe, TablesSafe, OutputMirrorsOrder
<1>9. \A o \in Orders : Exists(o)' =>
        \A i \in DOMAIN lineItems'[o] : status'[lineItems'[o][i].batch] # "NONE"
  <2> SUFFICES ASSUME NEW o \in Orders, Exists(o), NEW i \in DOMAIN lineItems[o]
               PROVE  status'[lineItems[o][i].batch] # "NONE"
    BY <1>2, <1>5
  <2>1. lineItems[o][i].batch \in Batches
    BY <1>6, ItemFields
  <2> QED
    BY <1>4, <2>1 DEF Safe, TablesSafe
<1>10. TablesSafe'
  BY <1>2, <1>7, <1>8, <1>9 DEF Safe, TablesSafe
<1>11. \A d \in Calls \ {c} : Undisturbed(d)
  BY <1>1, <1>2, <1>3, <1>4 DEF Safe, CallSafe, Undisturbed
<1> QED
  BY <1>2, <1>10, <1>11, CommitSafe

\* The commits that move an order, to a state other than COMPLETED.
LEMMA OrderCommitSafe ==
  ASSUME Safe, NEW c \in Calls, StartCommit(c) \/ CancelCommit(c)
  PROVE  TablesSafe' /\ \A d \in Calls : CallSafe(d)'
<1> DEFINE o == request[c].order
<1>1. /\ o \in Orders /\ orderLock[o] = c
      /\ orderStatus[o] \in {"PLANNED", "IN_PROGRESS"}
  BY Running, RequestFields
     DEF Safe, CallSafe, StartCommit, CancelCommit, At, InTx, OrderRequests, Allowed
<1>2. /\ End(c, "ok")
      /\ \E s \in {"IN_PROGRESS", "CANCELLED"} :
           orderStatus' = [orderStatus EXCEPT ![o] = s]
      /\ UNCHANGED <<status, quantity, initial, ledger, outputOf, lineItems,
                     used>>
  BY DEF StartCommit, CancelCommit
<1> HIDE DEF o
<1>3. /\ orderStatus'[o] \in {"IN_PROGRESS", "CANCELLED"}
      /\ \A q \in Orders \ {o} : orderStatus'[q] = orderStatus[q]
  BY <1>1, <1>2 DEF Safe, TypeOK, TablesTyped
<1>4. /\ \A q \in Orders : Exists(q)' <=> Exists(q)
      /\ \A q \in Orders : orderStatus'[q] = "COMPLETED" <=> orderStatus[q] = "COMPLETED"
  BY <1>1, <1>3 DEF Exists
<1>5. \A b \in Batches : Produced(b)' <=> Produced(b)
  BY <1>2, <1>4 DEF Produced
<1>6. TablesSafe'
  BY <1>2, <1>4, <1>5
     DEF Safe, TablesSafe, LedgerBalance, UnusedRows, InputsUsedOnce,
         OutputMirrorsOrder
<1>7. \A d \in Calls \ {c} : Undisturbed(d)
  BY <1>1, <1>2, <1>3 DEF Safe, CallSafe, Undisturbed
<1> QED
  BY <1>2, <1>6, <1>7, CommitSafe

\* What is known of a row that no committed row uses yet.
LEMMA UnusedRow ==
  ASSUME Safe, NEW b \in Batches, status[b] = "NONE"
  PROVE  /\ Booked(ledger[b]) = 0 /\ ~ Produced(b)
         /\ \A d \in Calls : delta[d][b] = 0
         /\ \A o \in Orders : Exists(o) => outputOf[o] # b
<1>1. Booked(ledger[b]) = 0 /\ ~ Produced(b)
  BY DEF Safe, TablesSafe, UnusedRows
<1>2. \A d \in Calls : delta[d][b] = 0
  BY DEF Safe, CallSafe
<1> QED
  BY <1>1, <1>2 DEF Produced

\* A received lot uses a row nobody has changed or queued.
LEMMA ReceiveSafe ==
  ASSUME Safe, NEW c \in Calls, Receive(c)
  PROVE  TablesSafe' /\ \A d \in Calls : CallSafe(d)'
<1> DEFINE r == request[c]
<1>1. CASE Rollback(c, "refused")
  BY <1>1, RollbackSafe DEF Finished
<1>2. CASE ~ Rollback(c, "refused")
  <2>1. r.quantity \in Positive
    BY Running, RequestFields DEF Safe, Receive, At, InTx, ReceiveRequests
  <2>2. PICK b \in Batches :
          /\ status[b] = "NONE"
          /\ status'   = [status EXCEPT ![b] = "ACTIVE"]
          /\ quantity' = [quantity EXCEPT ![b] = r.quantity]
          /\ initial'  = [initial EXCEPT ![b] = r.quantity]
          /\ ledger'   = [ledger EXCEPT ![b]["INCOMING"] = @ + r.quantity]
    BY <1>2 DEF Receive
  <2>3. End(c, "ok") /\ UNCHANGED <<orderStatus, outputOf, lineItems, used>>
    BY <1>2 DEF Receive
  <2> DEFINE n == r.quantity
  <2> HIDE DEF r, n
  <2>4. /\ status'[b] = "ACTIVE" /\ quantity'[b] = n
        /\ ledger'[b] = [ledger[b] EXCEPT !["INCOMING"] = @ + n]
        /\ \A e \in Batches \ {b} :
             /\ status'[e] = status[e] /\ quantity'[e] = quantity[e]
             /\ initial'[e] = initial[e] /\ ledger'[e] = ledger[e]
    BY <2>2 DEF Safe, TypeOK, TablesTyped, n
  <2>5. n \in Quantities /\ n \in Int /\ n + 0 = n /\ 0 + n = n
    BY <2>1, StockAssumption DEF Positive, Quantities, n
  <2>6. Booked(ledger'[b]) = n
    <3>1. ledger[b] \in [TransactionTypes -> Int] /\ "INCOMING" \in TransactionTypes
      BY DEF Safe, TypeOK, TablesTyped, TransactionTypes
    <3>2. Booked(ledger[b]) = 0
      BY <2>2, UnusedRow
    <3> QED
      BY <2>4, <2>5, <3>1, <3>2, BookedAfter
  <2>7. /\ \A o \in Orders : Exists(o)' <=> Exists(o)
        /\ \A e \in Batches : Produced(e)' <=> Produced(e)
    BY <2>3 DEF Exists, Produced
  <2>8. /\ ~ Produced(b) /\ \A d \in Calls : delta[d][b] = 0
        /\ \A o \in Orders : Exists(o) => outputOf[o] # b
    BY <2>2, UnusedRow
  <2>9. LedgerBalance'
    <3> SUFFICES ASSUME NEW e \in Batches, status'[e] # "NONE"
                 PROVE  quantity'[e] = Booked(ledger'[e])
                          + IF Produced(e)' THEN initial'[e] ELSE 0
      BY DEF LedgerBalance
    <3>1. CASE e = b
      BY <2>4, <2>5, <2>6, <2>7, <2>8, <3>1
    <3>2. CASE e # b
      BY <2>4, <2>7, <3>2 DEF Safe, TablesSafe, LedgerBalance
    <3> QED
      BY <3>1, <3>2
  <2>10. UnusedRows'
    BY <2>4, <2>7 DEF Safe, TablesSafe, UnusedRows
  <2>11. \A e \in Batches : quantity'[e] \in Quantities
    BY <2>4, <2>5 DEF Safe, TablesSafe
  <2>12. InputsUsedOnce'
    BY <2>3, <2>7 DEF Safe, TablesSafe, InputsUsedOnce
  <2>13. OutputMirrorsOrder'
    <3>1. \A o \in Orders : Exists(o) => status'[outputOf[o]] = status[outputOf[o]]
      BY <2>4, <2>8 DEF Safe, TypeOK, TablesTyped
    <3> QED
      BY <2>3, <2>7, <3>1 DEF Safe, TablesSafe, OutputMirrorsOrder
  <2>14. \A o \in Orders : Exists(o)' =>
           \A i \in DOMAIN lineItems'[o] : status'[lineItems'[o][i].batch] # "NONE"
    <3> SUFFICES ASSUME NEW o \in Orders, Exists(o), NEW i \in DOMAIN lineItems[o]
                 PROVE  status'[lineItems[o][i].batch] # "NONE"
      BY <2>3, <2>7
    <3>1. lineItems[o][i].batch \in Batches
      BY ItemFields DEF Safe, TypeOK, TablesTyped
    <3>2. status[lineItems[o][i].batch] # "NONE"
      BY DEF Safe, TablesSafe
    <3> QED
      BY <2>4, <3>1, <3>2
  <2>15. TablesSafe'
    BY <2>9, <2>10, <2>11, <2>12, <2>13, <2>14 DEF TablesSafe
  <2>16. ASSUME NEW d \in Calls \ {c} PROVE Undisturbed(d)
    <3>1. ASSUME NEW e \in Batches PROVE quantity'[e] + delta[d][e] \in Quantities
      <4>1. CASE e = b
        BY <2>4, <2>5, <2>8, <4>1
      <4>2. CASE e # b
        BY <2>4, <4>2 DEF Safe, CallSafe
      <4> QED
        BY <4>1, <4>2
    <3>2. \A e \in Batches : status[e] # "NONE" => status'[e] = status[e]
      BY <2>2, <2>4
    <3> QED
      BY <2>3, <3>1, <3>2 DEF Undisturbed
  <2> QED
    BY <2>3, <2>15, <2>16, CommitSafe
<1> QED
  BY <1>1, <1>2

\* A new order uses rows nobody has changed, and shares its output with none.
LEMMA CreateCommitSafe ==
  ASSUME Safe, NEW c \in Calls, CreateCommit(c)
  PROVE  TablesSafe' /\ \A d \in Calls : CallSafe(d)'
<1> DEFINE r == request[c]
           n == r.quantity
<1>1. /\ n \in Positive /\ r.items \in Seq(LineItems)
      /\ \A i \in DOMAIN r.items : status[r.items[i].batch] # "NONE"
  BY Running, RequestFields
     DEF Safe, CallSafe, CreateCommit, At, InTx, CreateRequests
<1>2. PICK b \in Batches, o \in Orders :
        /\ status[b] = "NONE" /\ orderStatus[o] = "NONE"
        /\ status'      = [status EXCEPT ![b] = "RESERVED"]
        /\ quantity'    = [quantity EXCEPT ![b] = n]
        /\ initial'     = [initial EXCEPT ![b] = n]
        /\ orderStatus' = [orderStatus EXCEPT ![o] = "PLANNED"]
        /\ outputOf'    = [outputOf EXCEPT ![o] = b]
        /\ lineItems'   = [lineItems EXCEPT ![o] = r.items]
        /\ used'        = [used EXCEPT ![o] = [i \in DOMAIN r.items |-> 0]]
  BY DEF CreateCommit
<1>3. End(c, "ok") /\ UNCHANGED ledger
  BY DEF CreateCommit
<1> HIDE DEF r, n
<1>4. /\ status'[b] = "RESERVED" /\ quantity'[b] = n /\ initial'[b] = n
      /\ \A e \in Batches \ {b} :
           /\ status'[e] = status[e] /\ quantity'[e] = quantity[e]
           /\ initial'[e] = initial[e]
  BY <1>2 DEF Safe, TypeOK, TablesTyped
<1>5. /\ orderStatus'[o] = "PLANNED" /\ outputOf'[o] = b
      /\ lineItems'[o] = r.items /\ used'[o] = [i \in DOMAIN r.items |-> 0]
      /\ \A q \in Orders \ {o} :
           /\ orderStatus'[q] = orderStatus[q] /\ outputOf'[q] = outputOf[q]
           /\ lineItems'[q] = lineItems[q] /\ used'[q] = used[q]
  BY <1>2 DEF Safe, TypeOK, TablesTyped
<1>6. n \in Quantities /\ n \in Int /\ n + 0 = n /\ 0 + n = n
  BY <1>1, StockAssumption DEF Positive, Quantities, n
<1>7. /\ Booked(ledger[b]) = 0 /\ ~ Produced(b)
      /\ \A d \in Calls : delta[d][b] = 0
      /\ \A q \in Orders : Exists(q) => outputOf[q] # b
  BY <1>2, UnusedRow
<1>8. /\ ~ Exists(o) /\ Exists(o)'
      /\ \A q \in Orders \ {o} : Exists(q)' <=> Exists(q)
  BY <1>2, <1>5 DEF Exists
<1>9. /\ Produced(b)'
      /\ \A e \in Batches \ {b} : Produced(e)' <=> Produced(e)
  <2>1. Produced(b)'
    BY <1>5, <1>8 DEF Produced
  <2>2. ASSUME NEW e \in Batches \ {b} PROVE Produced(e)' <=> Produced(e)
    BY <1>5, <1>8, <2>2 DEF Produced
  <2> QED
    BY <2>1, <2>2
<1>10. LedgerBalance'
  <2> SUFFICES ASSUME NEW e \in Batches, status'[e] # "NONE"
               PROVE  quantity'[e] = Booked(ledger'[e])
                        + IF Produced(e)' THEN initial'[e] ELSE 0
    BY DEF LedgerBalance
  <2>1. CASE e = b
    BY <1>3, <1>4, <1>6, <1>7, <1>9, <2>1
  <2>2. CASE e # b
    BY <1>3, <1>4, <1>9, <2>2 DEF Safe, TablesSafe, LedgerBalance
  <2> QED
    BY <2>1, <2>2
<1>11. UnusedRows'
  BY <1>3, <1>4, <1>9 DEF Safe, TablesSafe, UnusedRows
<1>12. \A e \in Batches : quantity'[e] \in Quantities
  BY <1>4, <1>6 DEF Safe, TablesSafe
<1>13. InputsUsedOnce'
  <2> SUFFICES ASSUME NEW q \in Orders, Exists(q)'
               PROVE  used'[q] = [i \in DOMAIN lineItems'[q] |->
                        IF orderStatus'[q] = "COMPLETED" THEN 1 ELSE 0]
    BY DEF InputsUsedOnce
  <2>1. CASE q = o
    BY <1>5, <2>1
  <2>2. CASE q # o
    BY <1>5, <1>8, <2>2 DEF Safe, TablesSafe, InputsUsedOnce
  <2> QED
    BY <2>1, <2>2
<1>14. OutputMirrorsOrder'
  <2> SUFFICES ASSUME NEW q \in Orders, Exists(q)'
               PROVE  /\ status'[outputOf'[q]] \in
                           IF orderStatus'[q] = "COMPLETED"
                           THEN {"ACTIVE", "QUARANTINED"} ELSE {"RESERVED"}
                      /\ \A p \in Orders \ {q} :
                           Exists(p)' => outputOf'[p] # outputOf'[q]
    BY DEF OutputMirrorsOrder
  <2>1. CASE q = o
    BY <1>4, <1>5, <1>7, <1>8, <2>1
  <2>2. CASE q # o
    <3>1. Exists(q) /\ outputOf'[q] = outputOf[q] /\ outputOf[q] # b
          /\ orderStatus'[q] = orderStatus[q]
      BY <1>5, <1>7, <1>8, <2>2
    <3>2. status'[outputOf[q]] = status[outputOf[q]]
      BY <1>4, <3>1 DEF Safe, TypeOK, TablesTyped
    <3>3. \A p \in Orders \ {q} : Exists(p)' => outputOf'[p] # outputOf[q]
      BY <1>5, <1>8, <3>1 DEF Safe, TablesSafe, OutputMirrorsOrder
    <3> QED
      BY <3>1, <3>2, <3>3 DEF Safe, TablesSafe, OutputMirrorsOrder
  <2> QED
    BY <2>1, <2>2
<1>15. \A e \in Batches : status[e] # "NONE" => status'[e] = status[e]
  BY <1>2, <1>4
<1>16. \A q \in Orders : Exists(q)' =>
         \A i \in DOMAIN lineItems'[q] : status'[lineItems'[q][i].batch] # "NONE"
  <2> SUFFICES ASSUME NEW q \in Orders, Exists(q)', NEW i \in DOMAIN lineItems'[q]
               PROVE  status'[lineItems'[q][i].batch] # "NONE"
    OBVIOUS
  <2>1. CASE q = o
    <3>1. r.items[i].batch \in Batches
      BY <1>1, <1>5, <2>1, ItemFields
    <3> QED
      BY <1>1, <1>5, <1>15, <2>1, <3>1
  <2>2. CASE q # o
    <3>1. Exists(q) /\ lineItems'[q] = lineItems[q]
      BY <1>5, <1>8, <2>2
    <3>2. lineItems[q][i].batch \in Batches
      BY <3>1, ItemFields DEF Safe, TypeOK, TablesTyped
    <3>3. status[lineItems[q][i].batch] # "NONE"
      BY <3>1 DEF Safe, TablesSafe
    <3> QED
      BY <1>15, <3>1, <3>2, <3>3
  <2> QED
    BY <2>1, <2>2
<1>17. TablesSafe'
  BY <1>10, <1>11, <1>12, <1>13, <1>14, <1>16 DEF TablesSafe
<1>18. ASSUME NEW d \in Calls \ {c} PROVE Undisturbed(d)
  <2>1. ASSUME NEW e \in Batches PROVE quantity'[e] + delta[d][e] \in Quantities
    <3>1. CASE e = b
      BY <1>4, <1>6, <1>7, <3>1
    <3>2. CASE e # b
      BY <1>4, <3>2 DEF Safe, CallSafe
    <3> QED
      BY <3>1, <3>2
  <2>2. \A q \in Orders : Exists(q) => lineItems'[q] = lineItems[q]
    BY <1>5, <1>8
  <2>3. \A q \in Orders : Exists(q) => orderStatus'[q] = orderStatus[q]
    BY <1>5, <1>8
  <2> QED
    BY <1>15, <2>1, <2>2, <2>3 DEF Undisturbed
<1> QED
  BY <1>3, <1>17, <1>18, CommitSafe

\* A completion books every line item once and opens its output.
LEMMA CompleteCommitSafe ==
  ASSUME Safe, NEW c \in Calls, CompleteCommit(c)
  PROVE  TablesSafe' /\ \A d \in Calls : CallSafe(d)'
<1> DEFINE o == request[c].order
           b == outputOf[o]
<1>1. /\ o \in Orders /\ orderLock[o] = c /\ orderStatus[o] = "IN_PROGRESS"
  BY Running, RequestFields
     DEF Safe, CallSafe, CompleteCommit, At, InTx, OrderRequests, Allowed
<1>2. b \in Batches /\ Exists(o) /\ status[b] = "RESERVED"
  BY <1>1 DEF Safe, TypeOK, TablesTyped, TablesSafe, OutputMirrorsOrder, Exists
<1>3. /\ Post(c, "USED_IN_PRODUCTION") /\ "USED_IN_PRODUCTION" \in TransactionTypes
      /\ used'        = [used EXCEPT ![o] = [i \in DOMAIN @ |-> @[i] + 1]]
      /\ status'      = [status EXCEPT ![b] = "ACTIVE"]
      /\ orderStatus' = [orderStatus EXCEPT ![o] = "COMPLETED"]
      /\ End(c, "ok")
      /\ UNCHANGED <<initial, outputOf, lineItems>>
  BY DEF CompleteCommit, TransactionTypes
<1> HIDE DEF o, b
<1>4. /\ status'[b] = "ACTIVE"
      /\ \A e \in Batches \ {b} : status'[e] = status[e]
  BY <1>2, <1>3 DEF Safe, TypeOK, TablesTyped
<1>5. /\ orderStatus'[o] = "COMPLETED"
      /\ used'[o] = [i \in DOMAIN used[o] |-> used[o][i] + 1]
      /\ \A q \in Orders \ {o} :
           orderStatus'[q] = orderStatus[q] /\ used'[q] = used[q]
  BY <1>1, <1>3 DEF Safe, TypeOK, TablesTyped
<1>6. \A q \in Orders : Exists(q)' <=> Exists(q)
  BY <1>2, <1>5 DEF Exists
<1>7. \A e \in Batches : Produced(e)' <=> Produced(e)
  BY <1>3, <1>6 DEF Produced
<1>8. \A e \in Batches : status'[e] = "NONE" <=> status[e] = "NONE"
  BY <1>2, <1>4
<1>9. ASSUME NEW e \in Batches
      PROVE  /\ quantity[e] \in Int /\ initial[e] \in Int /\ delta[c][e] \in Int
             /\ Booked(ledger[e]) \in Int
  BY DEF Safe, TypeOK, TablesTyped, CallsTyped, Booked, TransactionTypes
<1>10. LedgerBalance'
  <2> SUFFICES ASSUME NEW e \in Batches, status'[e] # "NONE"
               PROVE  quantity'[e] = Booked(ledger'[e])
                        + IF Produced(e)' THEN initial'[e] ELSE 0
    BY DEF LedgerBalance
  <2>1. quantity[e] = Booked(ledger[e]) + IF Produced(e) THEN initial[e] ELSE 0
    BY <1>8 DEF Safe, TablesSafe, LedgerBalance
  <2> QED
    BY <1>3, <1>7, <1>9, <2>1, PostSafe
<1>11. UnusedRows'
  <2> SUFFICES ASSUME NEW e \in Batches, status'[e] = "NONE"
               PROVE  Booked(ledger'[e]) = 0 /\ ~ Produced(e)'
    BY DEF UnusedRows
  <2>1. Booked(ledger[e]) = 0 /\ ~ Produced(e)
    BY <1>8 DEF Safe, TablesSafe, UnusedRows
  <2>2. Booked(ledger'[e]) = Booked(ledger[e]) + delta[c][e] /\ delta[c][e] = 0
    BY <1>3, <1>8, PostSafe
  <2> QED
    BY <1>7, <2>1, <2>2
<1>12. \A e \in Batches : quantity'[e] \in Quantities
  BY <1>3, PostSafe
<1>13. InputsUsedOnce'
  <2> SUFFICES ASSUME NEW q \in Orders, Exists(q)'
               PROVE  used'[q] = [i \in DOMAIN lineItems'[q] |->
                        IF orderStatus'[q] = "COMPLETED" THEN 1 ELSE 0]
    BY DEF InputsUsedOnce
  <2>1. CASE q = o
    <3>1. used[o] = [i \in DOMAIN lineItems[o] |-> 0]
      BY <1>1, <1>2 DEF Safe, TablesSafe, InputsUsedOnce
    <3>2. used'[o] = [i \in DOMAIN lineItems[o] |-> 1]
      BY <1>5, <3>1
    <3> QED
      BY <1>3, <1>5, <2>1, <3>2
  <2>2. CASE q # o
    BY <1>3, <1>5, <1>6, <2>2 DEF Safe, TablesSafe, InputsUsedOnce
  <2> QED
    BY <2>1, <2>2
<1>14. OutputMirrorsOrder'
  <2> SUFFICES ASSUME NEW q \in Orders, Exists(q)
               PROVE  /\ status'[outputOf[q]] \in
                           IF orderStatus'[q] = "COMPLETED"
                           THEN {"ACTIVE", "QUARANTINED"} ELSE {"RESERVED"}
                      /\ \A p \in Orders \ {q} :
                           Exists(p) => outputOf[p] # outputOf[q]
    BY <1>3, <1>6 DEF OutputMirrorsOrder
  <2>1. \A p \in Orders \ {q} : Exists(p) => outputOf[p] # outputOf[q]
    BY DEF Safe, TablesSafe, OutputMirrorsOrder
  <2>2. CASE q = o
    BY <1>4, <1>5, <2>1, <2>2 DEF b
  <2>3. CASE q # o
    <3>1. outputOf[q] \in Batches \ {b}
      BY <1>1, <2>1, <1>2, <2>3 DEF Safe, TypeOK, TablesTyped, b
    <3> QED
      BY <1>4, <1>5, <2>1, <2>3, <3>1 DEF Safe, TablesSafe, OutputMirrorsOrder
  <2> QED
    BY <2>2, <2>3
<1>15. \A q \in Orders : Exists(q)' =>
         \A i \in DOMAIN lineItems'[q] : status'[lineItems'[q][i].batch] # "NONE"
  <2> SUFFICES ASSUME NEW q \in Orders, Exists(q), NEW i \in DOMAIN lineItems[q]
               PROVE  status'[lineItems[q][i].batch] # "NONE"
    BY <1>3, <1>6
  <2>1. lineItems[q][i].batch \in Batches
    BY ItemFields DEF Safe, TypeOK, TablesTyped
  <2>2. status[lineItems[q][i].batch] # "NONE"
    BY DEF Safe, TablesSafe
  <2> QED
    BY <1>8, <2>1, <2>2
<1>16. TablesSafe'
  BY <1>10, <1>11, <1>12, <1>13, <1>14, <1>15 DEF TablesSafe
<1>17. ASSUME NEW d \in Calls \ {c} PROVE Undisturbed(d)
  <2>1. \A e \in Batches : quantity'[e] + delta[d][e] \in Quantities
    BY <1>3, PostSafe
  <2>2. \A e \in Batches : status[e] = "ACTIVE" => status'[e] = "ACTIVE"
    BY <1>4
  <2>3. \A q \in Orders : orderLock[q] = d => orderStatus'[q] = orderStatus[q]
    BY <1>1, <1>5
  <2> QED
    BY <1>3, <1>8, <2>1, <2>2, <2>3 DEF Undisturbed
<1> QED
  BY <1>3, <1>16, <1>17, CommitSafe

-----------------------------------------------------------------------------
(* The invariant.                                                          *)

\* Every step of the specification keeps the tables and every call safe.
LEMMA SafeStep ==
  ASSUME Safe, [Next]_vars
  PROVE  Safe'
<1>1. TypeOK'
  BY SafeIsInductiveInv, TypeStep DEF Safe, InductiveInv
<1>2. TablesSafe' /\ \A d \in Calls : CallSafe(d)'
  <2>1. CASE UNCHANGED vars
    <3>1. TablesSafe'
      BY <2>1, QuietTables DEF vars
    <3>2. \A d \in Calls : CallSafe(d)'
      <4>1. \A d \in Calls : Untouched(d)
        BY <2>1 DEF vars, locks, Untouched
      <4>2. \A d \in Calls : Undisturbed(d)
        BY <2>1, QuietTables DEF vars
      <4> QED
        BY <4>1, <4>2, OthersSafe
    <3> QED
      BY <3>1, <3>2
  <2>2. ASSUME NEW c \in Calls, Statement(c)
        PROVE  TablesSafe' /\ \A d \in Calls : CallSafe(d)'
    <3>1. CASE AdjustReject(c)
      BY <3>1, RollbackSafe DEF AdjustReject, Finished
    <3> QED
      BY <2>2, <3>1, ReceiveSafe, QuarantineLockSafe, QuarantineCommitSafe,
         AdjustLockSafe, MovementCommitSafe, ConsumeQuerySafe, ConsumeLockSafe,
         ConsumeSettleSafe, CreateCheckSafe, CreateLinkSafe, CreateCommitSafe,
         OrderLockSafe, OrderCommitSafe, CompleteItemSafe,
         CompleteActivateSafe, CompleteCommitSafe
         DEF Statement
  <2>3. ASSUME NEW c \in Calls, DeadlockVictim(c) \/ Abort(c)
        PROVE  TablesSafe' /\ \A d \in Calls : CallSafe(d)'
    BY <2>3, RollbackSafe DEF DeadlockVictim, Abort, Finished
  <2> QED
    BY <2>1, <2>2, <2>3, BeginSafe DEF Next
<1> QED
  BY <1>1, <1>2 DEF Safe

\* Whatever the interleaving of calls, their failures and their deadlocks, the
\* tables stay consistent and every open transaction keeps what it checked.
THEOREM Invariance == Spec => []InductiveInv
<1>1. Init => InductiveInv
  BY InitSafe, SafeIsInductiveInv
<1>2. InductiveInv /\ [Next]_vars => InductiveInv'
  <2> SUFFICES ASSUME InductiveInv, [Next]_vars PROVE InductiveInv'
    OBVIOUS
  <2>1. Safe
    BY SafeIsInductiveInv
  <2>2. Safe'
    BY <2>1, SafeStep
  <2>3. InductiveInv' <=> Safe'
    BY SafeIsInductiveInv, PTL
  <2> QED
    BY <2>2, <2>3
<1> QED
  BY <1>1, <1>2, PTL DEF Spec

\* Rows, locks and the private state of calls are always well formed.
THEOREM TypeCorrect == Spec => []TypeOK
<1>1. InductiveInv => TypeOK
  BY DEF InductiveInv
<1> QED
  BY <1>1, Invariance, PTL

\* What a transaction found in stock when it locked a row is still there when
\* it commits: no quantity goes below zero or beyond its column.
THEOREM NeverOversold == Spec => []StockCovered
<1>1. InductiveInv => StockCovered
  BY DEF InductiveInv
<1> QED
  BY <1>1, Invariance, PTL

\* The quantity of a batch is always what its ledger rows add up to.
THEOREM LedgerExplainsStock == Spec => []LedgerBalance
<1>1. InductiveInv => LedgerBalance
  BY DEF InductiveInv
<1> QED
  BY <1>1, Invariance, PTL

\* The inputs of an order are consumed by exactly one completion.
THEOREM CompletedOnce == Spec => []InputsUsedOnce
<1>1. InductiveInv => InputsUsedOnce
  BY DEF InductiveInv
<1> QED
  BY <1>1, Invariance, PTL

\* The output of an order is sellable only once the order is COMPLETED.
THEOREM OutputsMirrorOrders == Spec => []OutputMirrorsOrder
<1>1. InductiveInv => OutputMirrorsOrder
  BY DEF InductiveInv
<1> QED
  BY <1>1, Invariance, PTL
=============================================================================
