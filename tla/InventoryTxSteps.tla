-------------------------- MODULE InventoryTxSteps ---------------------------
(***************************************************************************)
(* What follows from InductiveInv: what no step of InventoryTx may do to a *)
(* row, the expirations that a transaction has read, the movements it will *)
(* post, that consumptions do not deadlock, and that every commit is one   *)
(* step of Inventory.                                                      *)
(***************************************************************************)
EXTENDS InventoryTxProofs, WellFoundedInduction

\* A step of c, in whatever statement.
Acts(c) == Begin(c) \/ Statement(c) \/ DeadlockVictim(c) \/ Abort(c)

Commits(c) ==
  \/ Receive(c) \/ QuarantineCommit(c) \/ AdjustCommit(c) \/ ConsumeCommit(c)
  \/ CreateCommit(c) \/ StartCommit(c) \/ CancelCommit(c) \/ CompleteCommit(c)

\* A step of c that is not its commit leaves the tables alone.
LEMMA CommitOrNothing ==
  ASSUME NEW c \in Calls, Acts(c)
  PROVE  UNCHANGED tables \/ Commits(c)
<1> USE DEF Rollback
<1>1. CASE Begin(c) \/ DeadlockVictim(c) \/ Abort(c)
  BY <1>1 DEF Begin, DeadlockVictim, Abort
<1>2. CASE QuarantineLock(c) \/ AdjustReject(c) \/ AdjustLock(c)
  BY <1>2 DEF QuarantineLock, AdjustReject, AdjustLock
<1>3. CASE ConsumeQuery(c) \/ ConsumeLock(c) \/ ConsumeSettle(c)
  BY <1>3 DEF ConsumeQuery, ConsumeLock, ConsumeSettle
<1>4. CASE CreateCheck(c) \/ CreateLink(c)
  BY <1>4 DEF CreateCheck, CreateLink
<1>5. CASE OrderLock(c) \/ CompleteItem(c) \/ CompleteActivate(c)
  BY <1>5 DEF OrderLock, CompleteItem, CompleteActivate
<1> QED
  BY <1>1, <1>2, <1>3, <1>4, <1>5 DEF Acts, Statement, Commits

\* The tables change only in a commit, and in nothing but a commit.
LEMMA OnlyCommitsChangeTables ==
  ASSUME [Next]_vars
  PROVE  UNCHANGED tables \/ \E c \in Calls : Commits(c)
  BY CommitOrNothing DEF vars, Next, Acts

-----------------------------------------------------------------------------
(* Sales.                                                                  *)

Sold(b) == ledger[b]["OUTGOING"]

\* A posting changes only what is booked under its own type.
LEMMA PostedUnderItsType ==
  ASSUME Safe, NEW c \in Calls, NEW b \in Batches,
         NEW type \in TransactionTypes, Post(c, type)
  PROVE  /\ type # "OUTGOING" => Sold(b)' = Sold(b)
         /\ delta[c][b] = 0 => Sold(b)' = Sold(b)
<1>1. /\ ledger[b] \in [TransactionTypes -> Int] /\ delta[c][b] \in Int
      /\ ledger'[b] = [ledger[b] EXCEPT ![type] = @ + delta[c][b]]
  BY DEF Safe, TypeOK, TablesTyped, CallsTyped, Post
<1>2. "OUTGOING" \in TransactionTypes
  BY DEF TransactionTypes
<1>3. ledger[b]["OUTGOING"] \in Int
  BY <1>1, <1>2
<1>4. Sold(b)' = IF type = "OUTGOING" THEN ledger[b]["OUTGOING"] + delta[c][b]
                                      ELSE ledger[b]["OUTGOING"]
  BY <1>1, <1>2 DEF Sold
<1> QED
  BY <1>1, <1>3, <1>4 DEF Sold

\* Only the commit of a consumption sells, and only what it deducted.
LEMMA SalesOnlyOfActive ==
  ASSUME Safe, [Next]_vars, NEW b \in Batches, Sold(b)' # Sold(b)
  PROVE  status[b] = "ACTIVE"
<1>1. PICK c \in Calls : Commits(c)
  BY OnlyCommitsChangeTables DEF tables, Sold
<1>2. ~ (\/ QuarantineCommit(c) \/ CreateCommit(c) \/ StartCommit(c)
         \/ CancelCommit(c))
  BY DEF QuarantineCommit, CreateCommit, StartCommit, CancelCommit, Sold
<1>3. ~ Receive(c)
  <2> SUFFICES ASSUME Receive(c) PROVE FALSE
    OBVIOUS
  <2>1. CASE Rollback(c, "refused")
    BY <2>1 DEF Rollback, tables, Sold
  <2>2. CASE ~ Rollback(c, "refused")
    <3>1. PICK e \in Batches :
            ledger' = [ledger EXCEPT ![e]["INCOMING"] = @ + request[c].quantity]
      BY <2>2 DEF Receive
    <3> QED
      BY <3>1 DEF Safe, TypeOK, TablesTyped, Sold
  <2> QED
    BY <2>1, <2>2
<1>4. ~ AdjustCommit(c)
  <2> SUFFICES ASSUME AdjustCommit(c) PROVE FALSE
    OBVIOUS
  <2>1. request[c].type \in TransactionTypes \ {"OUTGOING"}
    BY Running, RequestFields
       DEF Safe, AdjustCommit, At, InTx, AdjustRequests, TransactionTypes
  <2> QED
    BY <2>1, PostedUnderItsType DEF AdjustCommit
<1>5. ~ CompleteCommit(c)
  BY PostedUnderItsType DEF CompleteCommit, TransactionTypes
<1>6. Post(c, "OUTGOING") /\ request[c].op = "Consume"
  BY <1>1, <1>2, <1>3, <1>4, <1>5 DEF Commits, ConsumeCommit, At
<1>7. delta[c][b] # 0
  BY <1>6, PostedUnderItsType DEF TransactionTypes
<1> QED
  BY <1>6, <1>7 DEF Safe, CallSafe

\* Stock leaves only batches that are ACTIVE at that very moment, however long
\* the request waited for their rows.
THEOREM SalesAreOfActiveStock == Spec => SoldOnlyWhileActive
<1>1. InductiveInv /\ [Next]_vars =>
        [\A b \in Batches :
           ledger'[b]["OUTGOING"] # ledger[b]["OUTGOING"] => status[b] = "ACTIVE"
        ]_vars
  BY SafeIsInductiveInv, SalesOnlyOfActive DEF Sold
<1> QED
  BY <1>1, Invariance, PTL DEF Spec, SoldOnlyWhileActive

-----------------------------------------------------------------------------
(* Lifecycles.                                                             *)

OrderMoves ==
  {<<"NONE", "PLANNED">>, <<"PLANNED", "IN_PROGRESS">>,
   <<"PLANNED", "CANCELLED">>, <<"IN_PROGRESS", "CANCELLED">>,
   <<"IN_PROGRESS", "COMPLETED">>}
BatchMoves ==
  {<<"NONE", "ACTIVE">>, <<"NONE", "RESERVED">>,
   <<"RESERVED", "ACTIVE">>, <<"ACTIVE", "QUARANTINED">>}

\* An order moves along its lifecycle, from the status its guard read.
LEMMA OrdersMoveForward ==
  ASSUME Safe, [Next]_vars, NEW o \in Orders, orderStatus'[o] # orderStatus[o]
  PROVE  <<orderStatus[o], orderStatus'[o]>> \in OrderMoves
<1>1. PICK c \in Calls : Commits(c)
  BY OnlyCommitsChangeTables DEF tables
<1>2. orderStatus \in [Orders -> OrderStatus]
  BY DEF Safe, TypeOK, TablesTyped
<1>3. ~ (\/ Receive(c) \/ QuarantineCommit(c) \/ AdjustCommit(c)
         \/ ConsumeCommit(c))
  BY DEF Receive, QuarantineCommit, AdjustCommit, ConsumeCommit, Rollback, tables
<1>4. CASE CreateCommit(c)
  <2>1. PICK q \in Orders :
          /\ orderStatus[q] = "NONE"
          /\ orderStatus' = [orderStatus EXCEPT ![q] = "PLANNED"]
    BY <1>4 DEF CreateCommit
  <2> QED
    BY <1>2, <2>1 DEF OrderMoves
<1>5. CASE StartCommit(c) \/ CancelCommit(c) \/ CompleteCommit(c)
  <2>1. /\ phase[c] = "ready"
        /\ request[c].op \in {"Start", "Cancel", "Complete"}
        /\ orderStatus[request[c].order] \in Allowed(request[c].op)
        /\ request[c].order \in Orders
    BY <1>5, Running, RequestFields, SMTT(20)
       DEF Safe, CallSafe, StartCommit, CancelCommit, CompleteCommit, At, InTx,
           OrderRequests
  <2>2. CASE StartCommit(c)
    BY <1>2, <2>1, <2>2 DEF StartCommit, At, Allowed, OrderMoves
  <2>3. CASE CancelCommit(c)
    BY <1>2, <2>1, <2>3 DEF CancelCommit, At, Allowed, OrderMoves
  <2>4. CASE CompleteCommit(c)
    BY <1>2, <2>1, <2>4 DEF CompleteCommit, At, Allowed, OrderMoves
  <2> QED
    BY <1>5, <2>2, <2>3, <2>4
<1> QED
  BY <1>1, <1>3, <1>4, <1>5 DEF Commits

\* A batch moves along its lifecycle, from the status its guard read.
LEMMA BatchesMoveForward ==
  ASSUME Safe, [Next]_vars, NEW b \in Batches, status'[b] # status[b]
  PROVE  <<status[b], status'[b]>> \in BatchMoves
<1>1. PICK c \in Calls : Commits(c)
  BY OnlyCommitsChangeTables DEF tables
<1>2. status \in [Batches -> BatchStatus]
  BY DEF Safe, TypeOK, TablesTyped
<1>3. ~ (\/ StartCommit(c) \/ CancelCommit(c) \/ AdjustCommit(c)
         \/ ConsumeCommit(c))
  BY DEF StartCommit, CancelCommit, AdjustCommit, ConsumeCommit
<1>4. CASE Receive(c)
  <2>1. PICK e \in Batches :
          status[e] = "NONE" /\ status' = [status EXCEPT ![e] = "ACTIVE"]
    BY <1>4 DEF Receive, Rollback, tables
  <2> QED
    BY <1>2, <2>1 DEF BatchMoves
<1>5. CASE CreateCommit(c)
  <2>1. PICK e \in Batches :
          status[e] = "NONE" /\ status' = [status EXCEPT ![e] = "RESERVED"]
    BY <1>5 DEF CreateCommit
  <2> QED
    BY <1>2, <2>1 DEF BatchMoves
<1>6. CASE QuarantineCommit(c)
  <2>1. /\ status[request[c].batch] = "ACTIVE" /\ request[c].batch \in Batches
        /\ status' = [status EXCEPT ![request[c].batch] = "QUARANTINED"]
    BY <1>6, Running, RequestFields
       DEF Safe, CallSafe, QuarantineCommit, At, InTx, QuarantineRequests
  <2> QED
    BY <1>2, <2>1 DEF BatchMoves
<1>7. CASE CompleteCommit(c)
  <2> DEFINE o == request[c].order
  <2>1. o \in Orders /\ orderStatus[o] = "IN_PROGRESS"
    BY <1>7, Running, RequestFields
       DEF Safe, CallSafe, CompleteCommit, At, InTx, OrderRequests, Allowed
  <2>2. /\ status[outputOf[o]] = "RESERVED"
        /\ status' = [status EXCEPT ![outputOf[o]] = "ACTIVE"]
    BY <1>7, <2>1
       DEF Safe, TablesSafe, OutputMirrorsOrder, Exists, CompleteCommit
  <2> QED
    BY <1>2, <2>2 DEF BatchMoves
<1> QED
  BY <1>1, <1>3, <1>4, <1>5, <1>6, <1>7 DEF Commits

\* No two calls that read the same status both act on it: orders and batches
\* take each transition of their lifecycle once, and never backwards.
THEOREM LifecyclesOnlyForward == Spec => LifecyclesRespected
<1>1. InductiveInv /\ [Next]_vars =>
        [/\ \A o \in Orders : orderStatus'[o] # orderStatus[o] =>
              <<orderStatus[o], orderStatus'[o]>> \in OrderMoves
         /\ \A b \in Batches : status'[b] # status[b] =>
              <<status[b], status'[b]>> \in BatchMoves
        ]_vars
  BY SafeIsInductiveInv, OrdersMoveForward, BatchesMoveForward
<1> QED
  BY <1>1, Invariance, PTL
     DEF Spec, LifecyclesRespected, OrderMoves, BatchMoves

-----------------------------------------------------------------------------
(* What a step of one call leaves to the others.                           *)


\* The step leaves d's private state alone, and the batches that d holds.
Idle(d) ==
  /\ phase'[d] = phase[d] /\ request'[d] = request[d]
  /\ queue'[d] = queue[d] /\ remaining'[d] = remaining[d]
  /\ delta'[d] = delta[d] /\ soonest'[d] = soonest[d]
  /\ snapshot'[d] = snapshot[d]
  /\ \A b \in Batches : batchLock'[b] = d <=> batchLock[b] = d

\* The answer of one call changes nothing of another.
LEMMA EndLeavesIdle ==
  ASSUME Safe, NEW c \in Calls, NEW outcome, End(c, outcome),
         NEW d \in Calls \ {c}
  PROVE  Idle(d)
  BY CallsAssumption DEF Safe, TypeOK, CallsTyped, End, Idle

\* Nor does any other step of it.
LEMMA OthersIdle ==
  ASSUME Safe, NEW c \in Calls, Acts(c), NEW d \in Calls \ {c}
  PROVE  Idle(d)
<1>1. CASE \E outcome \in Finished : End(c, outcome)
  BY <1>1, EndLeavesIdle
<1>2. CASE ~ \E outcome \in Finished : End(c, outcome)
  <2> USE <1>2 DEF Finished, Rollback
  <2>1. CASE Begin(c)
    BY <2>1 DEF Safe, TypeOK, CallsTyped, Begin, Idle, locks
  <2>2. CASE QuarantineLock(c)
    <3>1. request[c].batch \in Batches
      BY <2>2, Running, RequestFields
         DEF Safe, QuarantineLock, At, InTx, QuarantineRequests
    <3> QED
      BY <2>2, <3>1, CallsAssumption
         DEF Safe, TypeOK, CallsTyped, QuarantineLock, LockBatch, FreeForUpdate,
             GoTo, Idle
  <2>3. CASE AdjustLock(c)
    <3>1. request[c].batch \in Batches
      BY <2>3, Running, RequestFields
         DEF Safe, AdjustLock, At, InTx, AdjustRequests
    <3> QED
      BY <2>3, <3>1, CallsAssumption
         DEF Safe, TypeOK, CallsTyped, AdjustLock, LockBatch, FreeForUpdate,
             GoTo, Idle
  <2>4. CASE ConsumeQuery(c) \/ ConsumeSettle(c)
    BY <2>4 DEF Safe, TypeOK, CallsTyped, ConsumeQuery, ConsumeSettle, GoTo,
                Idle, locks
  <2>5. CASE ConsumeLock(c)
    BY <2>5, QueueHead, CallsAssumption
       DEF Safe, TypeOK, CallsTyped, ConsumeLock, LockBatch, FreeForUpdate, Idle
  <2>6. CASE CreateCheck(c) \/ CreateLink(c)
    BY <2>6 DEF Safe, TypeOK, CallsTyped, CreateCheck, CreateLink, GoTo, Idle,
                locks
  <2>7. CASE OrderLock(c)
    BY <2>7 DEF Safe, TypeOK, CallsTyped, OrderLock, GoTo, Idle
  <2>8. CASE CompleteItem(c)
    BY <2>8, QueueHead, CallsAssumption
       DEF Safe, TypeOK, CallsTyped, CompleteItem, LockBatch, FreeForUpdate, Idle
  <2>9. CASE CompleteActivate(c)
    <3>1. outputOf[request[c].order] \in Batches
      BY <2>9, Running, RequestFields
         DEF Safe, TypeOK, TablesTyped, CompleteActivate, At, InTx, OrderRequests
    <3> QED
      BY <2>9, <3>1, CallsAssumption
         DEF Safe, TypeOK, CallsTyped, CompleteActivate, LockBatch, FreeForWrite,
             GoTo, Idle
  <2> QED
    BY <2>1, <2>2, <2>3, <2>4, <2>5, <2>6, <2>7, <2>8, <2>9
       DEF Acts, Statement, DeadlockVictim, Abort, AdjustReject, Receive,
           QuarantineCommit, AdjustCommit, ConsumeCommit, CreateCommit,
           StartCommit, CancelCommit, CompleteCommit
<1> QED
  BY <1>1, <1>2

-----------------------------------------------------------------------------
(* What no step does to rows that exist.                                   *)

\* A completion that commits does so for an order that is running, whose
\* output is still RESERVED.
LEMMA CompletionRuns ==
  ASSUME Safe, NEW c \in Calls, CompleteCommit(c)
  PROVE  /\ request[c].order \in Orders
         /\ orderStatus[request[c].order] = "IN_PROGRESS"
         /\ outputOf[request[c].order] \in Batches
         /\ status[outputOf[request[c].order]] = "RESERVED"
<1>1. /\ phase[c] = "ready" /\ request[c].op = "Complete"
      /\ request[c].order \in Orders
  BY Running, RequestFields
     DEF Safe, CompleteCommit, At, InTx, OrderRequests
<1>2. orderStatus[request[c].order] = "IN_PROGRESS"
  BY <1>1 DEF Safe, CallSafe, Allowed
<1>3. status[outputOf[request[c].order]] = "RESERVED"
  BY <1>1, <1>2 DEF Safe, TablesSafe, OutputMirrorsOrder, Exists
<1> QED
  BY <1>1, <1>2, <1>3 DEF Safe, TypeOK, TablesTyped

\* An expiration changes only when its row is inserted, or as the output of an
\* order that completes.
LEMMA ExpirationsFixed ==
  ASSUME Safe, [Next]_vars, NEW b \in Batches, expiration'[b] # expiration[b]
  PROVE  \/ status[b] = "NONE"
         \/ /\ status[b] = "RESERVED"
            /\ \E o \in Orders : Exists(o) /\ outputOf[o] = b
<1>1. PICK c \in Calls : Commits(c)
  BY OnlyCommitsChangeTables DEF tables
<1>2. ~ (\/ QuarantineCommit(c) \/ AdjustCommit(c) \/ ConsumeCommit(c)
         \/ StartCommit(c) \/ CancelCommit(c))
  BY DEF QuarantineCommit, AdjustCommit, ConsumeCommit, StartCommit, CancelCommit
<1>3. expiration \in [Batches -> Expirations]
  BY DEF Safe, TypeOK, TablesTyped
<1>4. CASE Receive(c)
  <2>1. PICK e \in Batches :
          /\ status[e] = "NONE"
          /\ expiration' = [expiration EXCEPT ![e] = request[c].expiration]
    BY <1>4 DEF Receive, Rollback, tables
  <2> QED
    BY <1>3, <2>1
<1>5. CASE CreateCommit(c)
  <2>1. PICK e \in Batches :
          /\ status[e] = "NONE"
          /\ expiration' = [expiration EXCEPT ![e] = request[c].expiration]
    BY <1>5 DEF CreateCommit
  <2> QED
    BY <1>3, <2>1
<1>6. CASE CompleteCommit(c)
  <2>1. b = outputOf[request[c].order]
    BY <1>3, <1>6 DEF CompleteCommit
  <2> QED
    BY <1>6, <2>1, CompletionRuns DEF Exists
<1> QED
  BY <1>1, <1>2, <1>4, <1>5, <1>6 DEF Commits

\* An order keeps its output and its line items, and is completed by a
\* completion only.
LEMMA OrdersFixed ==
  ASSUME Safe, [Next]_vars, NEW o \in Orders, Exists(o)
  PROVE  /\ Exists(o)' /\ outputOf'[o] = outputOf[o]
         /\ lineItems'[o] = lineItems[o]
         /\ orderStatus'[o] = "COMPLETED" =>
              \/ orderStatus[o] = "COMPLETED"
              \/ \E c \in Calls : CompleteCommit(c) /\ request[c].order = o
<1>1. CASE UNCHANGED tables
  BY <1>1 DEF tables, Exists
<1>2. CASE ~ UNCHANGED tables
  <2>1. PICK c \in Calls : Commits(c)
    BY <1>2, OnlyCommitsChangeTables
  <2>2. orderStatus \in [Orders -> OrderStatus]
    BY DEF Safe, TypeOK, TablesTyped
  <2>3. CASE Receive(c) \/ QuarantineCommit(c) \/ AdjustCommit(c)
             \/ ConsumeCommit(c)
    BY <1>2, <2>3
       DEF Receive, QuarantineCommit, AdjustCommit, ConsumeCommit, Rollback,
           Exists
  <2>4. CASE CreateCommit(c)
    <3>1. PICK q \in Orders, b \in Batches :
            /\ orderStatus[q] = "NONE"
            /\ orderStatus' = [orderStatus EXCEPT ![q] = "PLANNED"]
            /\ outputOf'    = [outputOf EXCEPT ![q] = b]
            /\ lineItems'   = [lineItems EXCEPT ![q] = request[c].items]
      BY <2>4 DEF CreateCommit
    <3> QED
      BY <2>2, <3>1 DEF Safe, TypeOK, TablesTyped, Exists
  <2>5. CASE StartCommit(c) \/ CancelCommit(c)
    <3>1. request[c].order \in Orders
      BY <2>5, Running, RequestFields
         DEF Safe, StartCommit, CancelCommit, At, InTx, OrderRequests
    <3> QED
      BY <2>2, <2>5, <3>1 DEF StartCommit, CancelCommit, Exists
  <2>6. CASE CompleteCommit(c)
    BY <2>1, <2>2, <2>6, CompletionRuns DEF CompleteCommit, Exists
  <2> QED
    BY <2>1, <2>3, <2>4, <2>5, <2>6 DEF Commits
<1> QED
  BY <1>1, <1>2

\* A new order is one that a call to Create inserts.
LEMMA OrdersInserted ==
  ASSUME Safe, [Next]_vars, NEW o \in Orders, ~ Exists(o), Exists(o)'
  PROVE  \E c \in Calls, b \in Batches :
           /\ At(c, "ready", "Create")
           /\ outputOf'[o] = b /\ BatchProduct[b] = request[c].product
           /\ lineItems'[o] = request[c].items
           /\ orderStatus'[o] = "PLANNED"
<1>1. PICK c \in Calls : Commits(c)
  BY OnlyCommitsChangeTables DEF tables, Exists
<1>2. orderStatus \in [Orders -> OrderStatus]
  BY DEF Safe, TypeOK, TablesTyped
<1>3. ~ (\/ Receive(c) \/ QuarantineCommit(c) \/ AdjustCommit(c)
         \/ ConsumeCommit(c))
  BY DEF Receive, QuarantineCommit, AdjustCommit, ConsumeCommit, Rollback,
         tables, Exists
<1>4. ~ (StartCommit(c) \/ CancelCommit(c) \/ CompleteCommit(c))
  <2> SUFFICES ASSUME StartCommit(c) \/ CancelCommit(c) \/ CompleteCommit(c)
               PROVE  FALSE
    OBVIOUS
  <2>1. /\ phase[c] = "ready"
        /\ request[c].op \in {"Start", "Cancel", "Complete"}
        /\ request[c].order \in Orders
    BY Running, RequestFields
       DEF Safe, StartCommit, CancelCommit, CompleteCommit, At, InTx,
           OrderRequests
  <2>2. Exists(request[c].order)
    BY <2>1, AllowedExists DEF Safe, CallSafe
  <2> QED
    BY <1>2, <2>1, <2>2 DEF StartCommit, CancelCommit, CompleteCommit, Exists
<1>5. CreateCommit(c)
  BY <1>1, <1>3, <1>4 DEF Commits
<1>6. PICK b \in Batches, q \in Orders :
        /\ BatchProduct[b] = request[c].product
        /\ orderStatus' = [orderStatus EXCEPT ![q] = "PLANNED"]
        /\ outputOf'    = [outputOf EXCEPT ![q] = b]
        /\ lineItems'   = [lineItems EXCEPT ![q] = request[c].items]
  BY <1>5 DEF CreateCommit
<1>7. q = o
  BY <1>2, <1>6 DEF Exists
<1>8. At(c, "ready", "Create")
  BY <1>5 DEF CreateCommit
<1>9. /\ outputOf'[o] = b
      /\ lineItems'[o] = request[c].items
      /\ orderStatus'[o] = "PLANNED"
  <2>1. /\ outputOf \in [Orders -> Batches]
        /\ lineItems \in [Orders -> Seq(LineItems)]
    BY DEF Safe, TypeOK, TablesTyped
  <2> QED
    BY <1>2, <1>6, <1>7, <2>1
<1> QED
  BY <1>6, <1>8, <1>9

-----------------------------------------------------------------------------
(* Inputs and outputs.                                                     *)

\* A call that is past its first statement was so before, or is taking it; it
\* keeps its request.
LEMMA FirstStatement ==
  ASSUME Safe, NEW c \in Calls, Acts(c), phase'[c] \in {"fetching", "ready"}
  PROVE  /\ request'[c] = request[c]
         /\ \/ phase[c] \in {"fetching", "ready"}
            \/ /\ phase[c] = "begun"
               /\ \/ QuarantineLock(c) \/ AdjustLock(c) \/ ConsumeQuery(c)
                  \/ CreateCheck(c) \/ OrderLock(c)
<1>1. phase \in [Calls -> Phases]
  BY DEF Safe, TypeOK, CallsTyped
<1>2. \A outcome \in Finished : ~ End(c, outcome)
  BY <1>1 DEF End, Finished
<1>3. ~ Begin(c)
  BY <1>1 DEF Begin
<1> USE <1>2 DEF Finished, Rollback
<1>4. \/ QuarantineLock(c) \/ AdjustLock(c) \/ ConsumeQuery(c)
      \/ CreateCheck(c) \/ OrderLock(c) \/ ConsumeLock(c) \/ ConsumeSettle(c)
      \/ CreateLink(c) \/ CompleteItem(c) \/ CompleteActivate(c)
  BY <1>3 DEF Acts, Statement, DeadlockVictim, Abort, AdjustReject, Receive,
              QuarantineCommit, AdjustCommit, ConsumeCommit, CreateCommit,
              StartCommit, CancelCommit, CompleteCommit
<1>5. CASE \/ QuarantineLock(c) \/ AdjustLock(c) \/ ConsumeQuery(c)
           \/ CreateCheck(c) \/ OrderLock(c)
  BY <1>5 DEF QuarantineLock, AdjustLock, ConsumeQuery, CreateCheck, OrderLock, At
<1>6. CASE \/ ConsumeLock(c) \/ ConsumeSettle(c)
           \/ CreateLink(c) \/ CompleteItem(c) \/ CompleteActivate(c)
  BY <1>6 DEF ConsumeLock, ConsumeSettle, CreateLink, CompleteItem,
              CompleteActivate, At
<1> QED
  BY <1>4, <1>5, <1>6

\* A new order is of a finished good, made of white-label goods and packaging;
\* this was checked before its first row was written.
LEMMA KindsStep ==
  ASSUME Safe, KindsApart, [Next]_vars
  PROVE  KindsApart'
<1>1. ASSUME NEW o \in Orders, Exists(o)'
      PROVE  /\ ProductType[BatchProduct[outputOf'[o]]] = "FINISHED_GOOD"
             /\ lineItems'[o] # <<>>
             /\ \A i \in DOMAIN lineItems'[o] :
                  ProductType[BatchProduct[lineItems'[o][i].batch]]
                    \in InputProductTypes
  <2>1. CASE Exists(o)
    BY <2>1, OrdersFixed DEF KindsApart
  <2>2. CASE ~ Exists(o)
    <3>1. PICK c \in Calls, b \in Batches :
            /\ At(c, "ready", "Create")
            /\ outputOf'[o] = b /\ BatchProduct[b] = request[c].product
            /\ lineItems'[o] = request[c].items
      BY <1>1, <2>2, OrdersInserted
    <3>2. request[c].items # <<>>
      BY <3>1, Running, RequestFields DEF Safe, At, InTx, CreateRequests
    <3> QED
      BY <3>1, <3>2 DEF KindsApart, At
  <2> QED
    BY <2>1, <2>2
<1>2. ASSUME NEW d \in Calls, phase'[d] \in {"fetching", "ready"},
             request'[d].op = "Create"
      PROVE  /\ ProductType[request'[d].product] = "FINISHED_GOOD"
             /\ \A i \in DOMAIN request'[d].items :
                  ProductType[BatchProduct[request'[d].items[i].batch]]
                    \in InputProductTypes
  <2>1. CASE phase[d] \in {"fetching", "ready"} /\ request'[d] = request[d]
    BY <1>2, <2>1 DEF KindsApart
  <2>2. CASE ~ (phase[d] \in {"fetching", "ready"} /\ request'[d] = request[d])
    <3>1. PICK c \in Calls : Acts(c)
      BY <1>2, <2>2 DEF vars, Next, Acts
    <3>2. c = d
      BY <1>2, <2>2, <3>1, OthersIdle DEF Idle
    <3>3. /\ request'[d] = request[d] /\ phase[d] = "begun"
          /\ \/ QuarantineLock(d) \/ AdjustLock(d) \/ ConsumeQuery(d)
             \/ CreateCheck(d) \/ OrderLock(d)
      BY <1>2, <2>2, <3>1, <3>2, FirstStatement
    <3>4. CreateCheck(d)
      BY <1>2, <3>3
         DEF QuarantineLock, AdjustLock, ConsumeQuery, OrderLock, At
    <3>5. ~ Rollback(d, "refused")
      BY <1>2 DEF Safe, TypeOK, CallsTyped, Rollback, End
    <3> QED
      BY <3>3, <3>4, <3>5 DEF CreateCheck
  <2> QED
    BY <2>1, <2>2
<1> QED
  BY <1>1, <1>2 DEF KindsApart

\* The expiration of an input of an order is fixed: its row exists, and it is
\* the output of none.
LEMMA InputExpirationsFixed ==
  ASSUME Safe, KindsApart, [Next]_vars, NEW o \in Orders, Exists(o),
         NEW i \in DOMAIN lineItems[o]
  PROVE  expiration'[lineItems[o][i].batch] = expiration[lineItems[o][i].batch]
<1> DEFINE b == lineItems[o][i].batch
<1>1. b \in Batches
  BY ItemFields DEF Safe, TypeOK, TablesTyped
<1>2. status[b] # "NONE"
  BY DEF Safe, TablesSafe
<1>3. ASSUME NEW q \in Orders, Exists(q) PROVE outputOf[q] # b
  BY <1>3 DEF KindsApart, InputProductTypes
<1> QED
  BY <1>1, <1>2, <1>3, ExpirationsFixed

-----------------------------------------------------------------------------
(* What a completion remembers.                                            *)

\* A permutation names every element of its set, each once.
LEMMA PermutationsCover ==
  ASSUME NEW S, IsFiniteSet(S), NEW s \in SetToSeqs(S)
  PROVE  /\ \A x \in S : \E i \in DOMAIN s : s[i] = x
         /\ \A i, j \in DOMAIN s : i # j => s[i] # s[j]
<1>1. Cardinality(S) \in Nat
  BY FS_CardinalityType
<1>2. /\ s \in [1 .. Cardinality(S) -> S]
      /\ \A i, j \in 1 .. Cardinality(S) : i # j => s[i] # s[j]
  BY DEF SetToSeqs
<1>3. s \in Injection(1 .. Cardinality(S), S)
  BY <1>2 DEF Injection, IsInjective
<1>4. Cardinality(1 .. Cardinality(S)) = Cardinality(S)
  BY <1>1, FS_Interval
<1>5. s \in Surjection(1 .. Cardinality(S), S)
  BY <1>3, <1>4, FS_Injection
<1> QED
  BY <1>2, <1>5 DEF Surjection

\* The line items of the order a completion works on, and their inputs.
LEMMA CompletionItems ==
  ASSUME Safe, NEW c \in Calls, phase[c] \in {"fetching", "ready"},
         request[c].op = "Complete"
  PROVE  /\ request[c].order \in Orders /\ Exists(request[c].order)
         /\ orderStatus[request[c].order] = "IN_PROGRESS"
         /\ lineItems[request[c].order] \in Seq(LineItems)
<1>1. request[c].order \in Orders
  BY Running, RequestFields DEF Safe, InTx, OrderRequests
<1>2. orderStatus[request[c].order] = "IN_PROGRESS"
  BY DEF Safe, CallSafe, Allowed
<1> QED
  BY <1>1, <1>2 DEF Safe, TypeOK, TablesTyped, Exists

\* What a completion remembers stays right while it and its request stay.
LEMMA SoonestStays ==
  ASSUME Safe, ExpiryInv, [Next]_vars, NEW d \in Calls,
         phase'[d] = phase[d] \/ (phase[d] = "fetching" /\ phase'[d] = "ready"
                                    /\ queue[d] = <<>>),
         UNCHANGED <<request[d], queue[d], soonest[d]>>
  PROVE  SoonestKnown(d)'
<1>1. SoonestKnown(d)
  BY DEF ExpiryInv
<1>2. CASE /\ phase'[d] \in {"fetching", "ready"}
           /\ request'[d].op = "Complete"
  <2> DEFINE o == request[d].order
  <2>1. phase[d] \in {"fetching", "ready"} /\ request[d].op = "Complete"
    BY <1>2
  <2>2. o \in Orders /\ Exists(o)
    BY <2>1, CompletionItems
  <2>3. lineItems'[o] = lineItems[o]
    BY <2>2, OrdersFixed
  <2>4. \A i \in DOMAIN lineItems[o] :
          expiration'[lineItems[o][i].batch] = expiration[lineItems[o][i].batch]
    BY <2>2, InputExpirationsFixed DEF ExpiryInv
  <2>5. Deducted(d)' = Deducted(d)
    BY <2>3 DEF Deducted
  <2>6. \A i \in Deducted(d) : i \in DOMAIN lineItems[o]
    BY DEF Deducted
  <2> QED
    BY <1>1, <1>2, <2>1, <2>3, <2>4, <2>5, <2>6 DEF SoonestKnown
<1>3. CASE ~ (/\ phase'[d] \in {"fetching", "ready"}
              /\ request'[d].op = "Complete")
  BY <1>1, <1>3 DEF SoonestKnown
<1> QED
  BY <1>2, <1>3

\* A completion that found its order running has every line item before it.
LEMMA SoonestAtFirst ==
  ASSUME Safe, ExpiryInv, [Next]_vars, NEW c \in Calls, OrderLock(c)
  PROVE  SoonestKnown(c)'
<1> DEFINE o == request[c].order
<1>1. soonest[c] = Null
  BY DEF ExpiryInv, SoonestKnown, OrderLock
<1>2. CASE Rollback(c, "refused")
  BY <1>2 DEF Safe, TypeOK, CallsTyped, Rollback, End, SoonestKnown
<1>3. CASE ~ Rollback(c, "refused") /\ request[c].op # "Complete"
  <2>1. phase'[c] = "ready" /\ request'[c] = request[c] /\ soonest'[c] = Null
    BY <1>1, <1>3 DEF Safe, TypeOK, CallsTyped, OrderLock, GoTo
  <2> QED
    BY <1>3, <2>1 DEF SoonestKnown
<1>4. CASE ~ Rollback(c, "refused") /\ request[c].op = "Complete"
  <2>1. o \in Orders
    BY <1>4, Running, RequestFields DEF Safe, OrderLock, InTx, OrderRequests
  <2>2. lineItems[o] \in Seq(LineItems) /\ IsFiniteSet(DOMAIN lineItems[o])
    BY <2>1, DomainFinite DEF Safe, TypeOK, TablesTyped
  <2>3. PICK s \in SetToSeqs(DOMAIN lineItems[o]) :
          queue' = [queue EXCEPT ![c] = [i \in DOMAIN s |->
            [batch |-> lineItems[o][s[i]].batch, item |-> s[i]]]]
    BY <1>4 DEF OrderLock
  <2>4. /\ phase'[c] = "fetching" /\ request'[c] = request[c]
        /\ soonest'[c] = Null /\ lineItems' = lineItems
    BY <1>1, <1>4 DEF Safe, TypeOK, CallsTyped, OrderLock, GoTo, tables
  <2>5. /\ DOMAIN queue'[c] = DOMAIN s
        /\ \A k \in DOMAIN s : queue'[c][k].item = s[k]
    BY <2>3 DEF Safe, TypeOK, CallsTyped
  <2>6. Deducted(c)' = {}
    BY <2>2, <2>4, <2>5, PermutationsCover DEF Deducted
  <2>7. \A j, k \in DOMAIN queue'[c] :
          j # k => queue'[c][j].item # queue'[c][k].item
    BY <2>2, <2>5, PermutationsCover
  <2> QED
    BY <2>4, <2>6, <2>7 DEF SoonestKnown
<1> QED
  BY <1>2, <1>3, <1>4

\* The earlier of two expirations is one of them, and neither is sooner.
LEMMA EarliestIsSoonest ==
  ASSUME NEW e \in Expirations, NEW f \in Expirations
  PROVE  /\ Earliest(e, f) \in {e, f}
         /\ Earliest(e, f) = Null => e = Null /\ f = Null
         /\ ~ Sooner(e, Earliest(e, f))
         /\ \A g \in Expirations : ~ Sooner(g, f) => ~ Sooner(g, Earliest(e, f))
  BY StockAssumption DEF Earliest, Sooner, Expirations

\* What follows the head of a queue is its tail.
LEMMA QueueRest ==
  ASSUME NEW c \in Calls, TypeOK, queue[c] # <<>>, NEW k \in DOMAIN queue[c],
         k # 1
  PROVE  k - 1 \in DOMAIN Tail(queue[c]) /\ Tail(queue[c])[k - 1] = queue[c][k]
<1>1. queue[c] \in Seq([batch : Batches, item : Nat])
  BY DEF TypeOK, CallsTyped
<1>2. Len(queue[c]) \in Nat /\ Len(queue[c]) > 0
  BY <1>1, EmptySeq, LenProperties
<1> QED
  BY <1>1, <1>2, HeadTailProperties

\* The next line item of a completion is one that it has not deducted yet.
LEMMA ItemDeducted ==
  ASSUME Safe, ExpiryInv, NEW c \in Calls, CompleteItem(c),
         ~ Rollback(c, "refused")
  PROVE  LET items == lineItems[request[c].order]
             i     == Head(queue[c]).item
         IN
         /\ i \in DOMAIN items /\ items \in Seq(LineItems)
         /\ Head(queue[c]).batch = items[i].batch /\ items[i].batch \in Batches
         /\ queue'[c] = Tail(queue[c]) /\ phase'[c] = "fetching"
         /\ UNCHANGED <<tables, request>>
         /\ \A j, k \in DOMAIN queue'[c] :
              j # k => queue'[c][j].item # queue'[c][k].item
         /\ i \notin Deducted(c)
         /\ Deducted(c)' = Deducted(c) \cup {i}
<1> DEFINE o == request[c].order
           i == Head(queue[c]).item
           b == Head(queue[c]).batch
<1>1. /\ phase[c] = "fetching" /\ request[c].op = "Complete"
      /\ queue[c] # <<>>
      /\ queue' = [queue EXCEPT ![c] = Tail(@)]
      /\ UNCHANGED <<tables, phase, request>>
  BY DEF CompleteItem, At
<1>2. /\ o \in Orders /\ lineItems[o] \in Seq(LineItems)
      /\ 1 \in DOMAIN queue[c] /\ Head(queue[c]) = queue[c][1]
  BY <1>1, CompletionItems, QueueFirst DEF Safe
<1>3. i \in DOMAIN lineItems[o] /\ b = lineItems[o][i].batch /\ b \in Batches
  BY <1>1, <1>2, ItemFields DEF Safe, CallSafe, At
<1>4. /\ queue'[c] = Tail(queue[c])
      /\ phase'[c] = "fetching" /\ request'[c] = request[c]
      /\ lineItems' = lineItems
  BY <1>1 DEF Safe, TypeOK, CallsTyped, tables
<1>5. \A j, k \in DOMAIN queue[c] :
        j # k => queue[c][j].item # queue[c][k].item
  BY <1>1 DEF ExpiryInv, SoonestKnown
<1>6. \A k \in DOMAIN queue'[c] :
        /\ k + 1 \in DOMAIN queue[c] /\ queue'[c][k] = queue[c][k + 1]
        /\ k \in Nat /\ k + 1 # 1
  <2>1. queue'[c] \in Seq([batch : Batches, item : Nat])
    BY <1>1, <1>4, QueueHead DEF Safe
  <2>2. \A k \in DOMAIN queue'[c] : k \in Nat /\ k + 1 # 1
    BY <2>1
  <2> QED
    BY <1>1, <1>4, <2>2, QueueFirst DEF Safe
<1>7. \A j, k \in DOMAIN queue'[c] :
        j # k => queue'[c][j].item # queue'[c][k].item
  BY <1>5, <1>6
<1>8. ASSUME NEW j \in DOMAIN lineItems[o]
      PROVE  (\A k \in DOMAIN queue'[c] : queue'[c][k].item # j)
               <=> j = i \/ \A k \in DOMAIN queue[c] : queue[c][k].item # j
  <2>1. ASSUME \A k \in DOMAIN queue'[c] : queue'[c][k].item # j, j # i,
               NEW k \in DOMAIN queue[c]
        PROVE  queue[c][k].item # j
    <3>1. CASE k = 1
      BY <1>2, <2>1, <3>1
    <3>2. CASE k # 1
      <4>1. k - 1 \in DOMAIN queue'[c] /\ queue'[c][k - 1] = queue[c][k]
        BY <1>1, <1>4, <3>2, QueueRest DEF Safe
      <4> QED
        BY <2>1, <4>1
    <3> QED
      BY <3>1, <3>2
  <2>2. ASSUME j = i, NEW k \in DOMAIN queue'[c]
        PROVE  queue'[c][k].item # j
    <3>1. /\ k + 1 \in DOMAIN queue[c] /\ queue'[c][k] = queue[c][k + 1]
          /\ k + 1 # 1
      BY <1>6
    <3>2. queue[c][k + 1].item # queue[c][1].item
      BY <1>2, <1>5, <3>1
    <3> QED
      BY <1>2, <2>2, <3>1, <3>2
  <2> QED
    BY <1>6, <2>1, <2>2
<1>9. Deducted(c)' = Deducted(c) \cup {i}
  BY <1>3, <1>4, <1>8 DEF Deducted
<1>10. i \notin Deducted(c)
  BY <1>2 DEF Deducted
<1> QED
  BY <1>1, <1>2, <1>3, <1>4, <1>7, <1>9, <1>10

\* The next line item may expire sooner than those before it.
LEMMA SoonestAtItem ==
  ASSUME Safe, ExpiryInv, [Next]_vars, NEW c \in Calls, CompleteItem(c)
  PROVE  SoonestKnown(c)'
<1> DEFINE o == request[c].order
           i == Head(queue[c]).item
           b == Head(queue[c]).batch
           expires(j) == expiration[lineItems[o][j].batch]
<1>1. CASE Rollback(c, "refused")
  BY <1>1 DEF Safe, TypeOK, CallsTyped, Rollback, End, SoonestKnown
<1>2. CASE ~ Rollback(c, "refused")
  <2>1. /\ i \in DOMAIN lineItems[o] /\ lineItems[o] \in Seq(LineItems)
        /\ b = lineItems[o][i].batch /\ b \in Batches
        /\ phase'[c] = "fetching"
        /\ UNCHANGED <<tables, request>>
        /\ \A j, k \in DOMAIN queue'[c] :
             j # k => queue'[c][j].item # queue'[c][k].item
        /\ Deducted(c)' = Deducted(c) \cup {i}
    BY <1>2, ItemDeducted
  <2>2. /\ soonest'[c] = Earliest(expiration[b], soonest[c])
        /\ phase[c] = "fetching" /\ request[c].op = "Complete"
    BY <1>2 DEF Safe, TypeOK, CallsTyped, CompleteItem, At
  <2>3. /\ request'[c] = request[c]
        /\ lineItems' = lineItems /\ expiration' = expiration
    BY <2>1 DEF tables
  <2>4. /\ \A j \in Deducted(c) : ~ Sooner(expires(j), soonest[c])
        /\ soonest[c] # Null => \E j \in Deducted(c) : soonest[c] = expires(j)
    BY <2>2 DEF ExpiryInv, SoonestKnown
  <2>5. /\ expiration[b] \in Expirations /\ soonest[c] \in Expirations
        /\ \A j \in Deducted(c) : expires(j) \in Expirations
    BY <2>1, ItemFields DEF Safe, TypeOK, TablesTyped, CallsTyped, Deducted
  <2>6. /\ soonest'[c] \in {expires(i), soonest[c]}
        /\ soonest'[c] = Null => soonest[c] = Null
        /\ ~ Sooner(expires(i), soonest'[c])
        /\ \A e \in Expirations :
             ~ Sooner(e, soonest[c]) => ~ Sooner(e, soonest'[c])
    <3>1. expires(i) = expiration[b]
      BY <2>1
    <3> HIDE DEF b, expires
    <3> QED
      BY <2>2, <2>5, <3>1, EarliestIsSoonest
  <2>7. \A j \in Deducted(c)' : ~ Sooner(expires(j), soonest'[c])
    BY <2>1, <2>4, <2>5, <2>6
  <2>8. soonest'[c] # Null => \E j \in Deducted(c)' : soonest'[c] = expires(j)
    BY <2>1, <2>4, <2>6
  <2> QED
    BY <2>1, <2>3, <2>7, <2>8 DEF SoonestKnown
<1> QED
  BY <1>1, <1>2

\* Every step keeps what every completion remembers right.
LEMMA SoonestStep ==
  ASSUME Safe, ExpiryInv, [Next]_vars, NEW d \in Calls
  PROVE  SoonestKnown(d)'
<1>1. CASE Idle(d)
  BY <1>1, SoonestStays DEF Idle
<1>2. CASE ~ Idle(d)
  <2>1. PICK c \in Calls : Acts(c)
    BY <1>2 DEF vars, locks, Next, Acts, Idle
  <2>2. Acts(d)
    BY <1>2, <2>1, OthersIdle
  <2>3. CASE \/ phase'[d] \in Finished
             \/ phase'[d] \in {"fetching", "ready"} /\ request'[d].op # "Complete"
    BY <2>3 DEF SoonestKnown, Finished
  <2>4. CASE Begin(d)
    BY <2>4 DEF Safe, TypeOK, CallsTyped, Begin, ExpiryInv, SoonestKnown
  <2>5. CASE OrderLock(d)
    BY <2>5, SoonestAtFirst
  <2>6. CASE CompleteItem(d)
    BY <2>6, SoonestAtItem
  <2>7. CASE CompleteActivate(d)
    BY <2>7, SoonestStays
       DEF Safe, TypeOK, CallsTyped, CompleteActivate, At, GoTo
  <2>8. ASSUME ~ OrderLock(d), ~ CompleteItem(d), ~ CompleteActivate(d), ~ Begin(d)
        PROVE  \/ phase'[d] \in Finished
               \/ phase'[d] \in {"fetching", "ready"} /\ request'[d].op # "Complete"
    <3> USE DEF Finished, Rollback, GoTo, At
    <3>1. CASE \E outcome \in Finished : End(d, outcome)
      BY <3>1 DEF Safe, TypeOK, CallsTyped, End
    <3>2. CASE ~ \E outcome \in Finished : End(d, outcome)
      <4>1. \/ QuarantineLock(d) \/ AdjustLock(d) \/ ConsumeQuery(d)
            \/ CreateCheck(d) \/ ConsumeLock(d) \/ ConsumeSettle(d)
            \/ CreateLink(d)
        BY <2>2, <2>8, <3>2
           DEF Acts, Statement, DeadlockVictim, Abort, AdjustReject, Receive,
               QuarantineCommit, AdjustCommit, ConsumeCommit, CreateCommit,
               StartCommit, CancelCommit, CompleteCommit
      <4>2. phase \in [Calls -> Phases]
        BY DEF Safe, TypeOK, CallsTyped
      <4>3. CASE QuarantineLock(d) \/ AdjustLock(d) \/ ConsumeQuery(d)
        BY <3>2, <4>2, <4>3 DEF QuarantineLock, AdjustLock, ConsumeQuery
      <4>4. CASE CreateCheck(d) \/ ConsumeLock(d) \/ ConsumeSettle(d)
                 \/ CreateLink(d)
        BY <3>2, <4>2, <4>4 DEF CreateCheck, ConsumeLock, ConsumeSettle, CreateLink
      <4> QED
        BY <4>1, <4>3, <4>4
    <3> QED
      BY <3>1, <3>2
  <2> QED
    BY <2>3, <2>4, <2>5, <2>6, <2>7, <2>8
<1> QED
  BY <1>1, <1>2

\* A completion gives its output the expiration it remembers, when it has
\* deducted every line item; from then on it is as fixed as those of the inputs.
LEMMA OutputExpiresStep ==
  ASSUME Safe, ExpiryInv, [Next]_vars
  PROVE  OutputExpiresWithInputs'
<1> SUFFICES ASSUME NEW o \in Orders, orderStatus'[o] = "COMPLETED"
             PROVE  /\ expiration'[outputOf'[o]] \in
                         {expiration'[lineItems'[o][i].batch] :
                            i \in DOMAIN lineItems'[o]}
                    /\ \A i \in DOMAIN lineItems'[o] :
                         ~ Sooner(expiration'[lineItems'[o][i].batch],
                                  expiration'[outputOf'[o]])
  BY DEF OutputExpiresWithInputs
<1> DEFINE b == outputOf[o]
           expires(i) == expiration[lineItems[o][i].batch]
<1>1. Exists(o)
  BY OrdersInserted DEF Exists
<1>2. /\ outputOf'[o] = b /\ lineItems'[o] = lineItems[o]
      /\ \A i \in DOMAIN lineItems[o] :
           expiration'[lineItems[o][i].batch] = expires(i)
  BY <1>1, OrdersFixed, InputExpirationsFixed DEF ExpiryInv
<1>3. CASE orderStatus[o] = "COMPLETED"
  <2>1. b \in Batches /\ status[b] \in {"ACTIVE", "QUARANTINED"}
    BY <1>1, <1>3
       DEF Safe, TypeOK, TablesTyped, TablesSafe, OutputMirrorsOrder
  <2>2. expiration'[b] = expiration[b]
    BY <2>1, ExpirationsFixed
  <2>3. /\ expiration[b] \in {expires(i) : i \in DOMAIN lineItems[o]}
        /\ \A i \in DOMAIN lineItems[o] : ~ Sooner(expires(i), expiration[b])
    BY <1>3 DEF ExpiryInv, OutputExpiresWithInputs
  <2> QED
    BY <1>2, <2>2, <2>3
<1>4. ASSUME NEW c \in Calls, CompleteCommit(c), request[c].order = o
      PROVE  /\ expiration'[b] \in {expires(i) : i \in DOMAIN lineItems[o]}
             /\ \A i \in DOMAIN lineItems[o] : ~ Sooner(expires(i), expiration'[b])
  <2>1. expiration'[b] = soonest[c]
    BY <1>4, CompletionRuns DEF Safe, TypeOK, TablesTyped, CompleteCommit
  <2>2. /\ phase[c] = "ready" /\ request[c].op = "Complete"
        /\ lineItems[o] # <<>> /\ lineItems[o] \in Seq(LineItems)
    BY <1>1, <1>4, CompletionItems
       DEF CompleteCommit, At, ExpiryInv, KindsApart
  <2>3. Deducted(c) = DOMAIN lineItems[o]
    BY <1>4, <2>2 DEF ExpiryInv, SoonestKnown, Deducted
  <2>4. /\ \A i \in DOMAIN lineItems[o] : ~ Sooner(expires(i), soonest[c])
        /\ soonest[c] # Null =>
             \E i \in DOMAIN lineItems[o] : soonest[c] = expires(i)
    BY <1>4, <2>2, <2>3 DEF ExpiryInv, SoonestKnown
  <2>5. 1 \in DOMAIN lineItems[o]
    BY <2>2
  <2>6. soonest[c] = Null => expires(1) = Null
    BY <2>4, <2>5 DEF Sooner
  <2> QED
    BY <2>1, <2>4, <2>5, <2>6
<1> QED
  BY <1>1, <1>2, <1>3, <1>4, OrdersFixed

\* At the start no order is closed and no call has begun.
LEMMA InitExpiry == Init => ExpiryInv
<1> SUFFICES ASSUME Init PROVE ExpiryInv
  OBVIOUS
<1>1. /\ status = Seed.status /\ orderStatus = Seed.orderStatus
      /\ outputOf = Seed.outputOf /\ lineItems = Seed.lineItems
  BY DEF Init, Tables!Init
<1>2. \A c \in Calls : phase[c] = "new" /\ soonest[c] = Null
  BY DEF Init
<1>3. KindsApart
  BY <1>1, <1>2, SeedAssumption DEF KindsApart, Exists
<1>4. \A o \in Orders : orderStatus[o] # "COMPLETED"
  BY <1>1, SeedTypes
<1> QED
  BY <1>2, <1>3, <1>4 DEF ExpiryInv, SoonestKnown, OutputExpiresWithInputs

\* What a completion knows of the expirations of its inputs stays true.
THEOREM ExpiryInvariance == Spec => []ExpiryInv
<1>1. InductiveInv /\ ExpiryInv /\ [Next]_vars => ExpiryInv'
  <2> SUFFICES ASSUME InductiveInv, ExpiryInv, [Next]_vars PROVE ExpiryInv'
    OBVIOUS
  <2>1. Safe
    BY SafeIsInductiveInv
  <2>2. KindsApart'
    BY <2>1, KindsStep DEF ExpiryInv
  <2>3. \A d \in Calls : SoonestKnown(d)'
    BY <2>1, SoonestStep
  <2>4. OutputExpiresWithInputs'
    BY <2>1, OutputExpiresStep
  <2> QED
    BY <2>2, <2>3, <2>4 DEF ExpiryInv
<1> QED
  BY <1>1, InitExpiry, Invariance, PTL DEF Spec

\* A sold output never outlives what it was made of: when an order completes,
\* its batch expires with the first of its inputs, and stays that way.
THEOREM OutputsExpireInTime == Spec => []OutputExpiresWithInputs
<1>1. ExpiryInv => OutputExpiresWithInputs
  BY DEF ExpiryInv
<1> QED
  BY <1>1, ExpiryInvariance, PTL

-----------------------------------------------------------------------------
(* What sums over finite sets, as the community modules define them, obey. *)
(* They are recursive functions on subsets; the induction that shows them  *)
(* well defined takes a minimal counterexample among the subsets.          *)

\* A set of subsets of a finite set has a minimal one.
LEMMA MinimalSubset ==
  ASSUME NEW S, IsFiniteSet(S), NEW X \in SUBSET (SUBSET S), X # {}
  PROVE  \E T \in X : \A U \in X : U \subseteq T => U = T
<1>1. IsWellFoundedOn(StrictSubsetOrdering(S), SUBSET S)
  BY FS_StrictSubsetOrderingWellFounded, FS_FiniteSubsetsOfFinite
<1>2. PICK T \in X : \A U \in X : ~ (<<U, T>> \in StrictSubsetOrdering(S))
  BY <1>1, WFMin
<1>3. ASSUME NEW U \in X, U \subseteq T, U # T PROVE FALSE
  <2>1. <<U, T>> \in (SUBSET S) \X (SUBSET S)
    OBVIOUS
  <2>2. <<U, T>> \in StrictSubsetOrdering(S)
    BY <1>3, <2>1 DEF StrictSubsetOrdering
  <2> QED
    BY <1>2, <2>2
<1> QED
  BY <1>3

\* The element that the fold over s takes first.
Chosen(s) == CHOOSE x \in s : TRUE

\* A set that is not empty has such an element.
LEMMA ChosenElement ==
  ASSUME NEW s, s # {}
  PROVE  Chosen(s) \in s
  BY DEF Chosen

\* g maps every subset of S to the sum of f over it.
SumsOf(g, f, S) ==
  g = [s \in SUBSET S |-> IF s = {} THEN 0 ELSE f[Chosen(s)] + g[s \ {Chosen(s)}]]

\* It takes one element after the other.
LEMMA SumsStep ==
  ASSUME NEW g, NEW f, NEW S, SumsOf(g, f, S)
  PROVE  /\ g[{}] = 0
         /\ \A s \in SUBSET S : s # {} => g[s] = f[Chosen(s)] + g[s \ {Chosen(s)}]
<1>1. \A s \in SUBSET S : g[s] = IF s = {} THEN 0 ELSE f[Chosen(s)] + g[s \ {Chosen(s)}]
  BY DEF SumsOf
<1> QED
  BY <1>1

\* Two such functions agree wherever both are defined.
LEMMA SumsUnique ==
  ASSUME NEW S, IsFiniteSet(S), NEW T, IsFiniteSet(T), NEW f, NEW g, NEW h,
         SumsOf(g, f, S), SumsOf(h, f, T),
         NEW U, U \subseteq S, U \subseteq T
  PROVE  g[U] = h[U]
<1> DEFINE X == {V \in SUBSET U : g[V] # h[V]}
<1>1. SUFFICES ASSUME X # {} PROVE FALSE
  OBVIOUS
<1>2. IsFiniteSet(U)
  BY FS_Subset
<1>3. PICK V \in X : \A W \in X : W \subseteq V => W = V
  <2>1. X \in SUBSET (SUBSET U)
    OBVIOUS
  <2> HIDE DEF X
  <2> QED
    BY <1>1, <1>2, <2>1, MinimalSubset
<1>4. CASE V = {}
  BY <1>3, <1>4, SumsStep
<1>5. CASE V # {}
  <2>1. Chosen(V) \in V
    BY <1>5, ChosenElement
  <2>2. g[V \ {Chosen(V)}] = h[V \ {Chosen(V)}]
    BY <1>3, <2>1
  <2>3. g[V] = f[Chosen(V)] + g[V \ {Chosen(V)}]
    BY <1>5, SumsStep
  <2>4. h[V] = f[Chosen(V)] + h[V \ {Chosen(V)}]
    BY <1>5, SumsStep
  <2> QED
    BY <1>3, <2>2, <2>3, <2>4
<1> QED
  BY <1>4, <1>5

\* There is such a function for every finite set.
LEMMA SumsExist ==
  ASSUME NEW S, IsFiniteSet(S), NEW f
  PROVE  \E g : SumsOf(g, f, S)
<1> DEFINE X == {V \in SUBSET S : ~ \E g : SumsOf(g, f, V)}
<1>1. SUFFICES ASSUME X # {} PROVE FALSE
  OBVIOUS
<1>2. PICK V \in X : \A W \in X : W \subseteq V => W = V
  <2>1. X \in SUBSET (SUBSET S)
    OBVIOUS
  <2> HIDE DEF X
  <2> QED
    BY <1>1, <2>1, MinimalSubset
<1>3. IsFiniteSet(V)
  BY FS_Subset
<1> DEFINE part(W) == CHOOSE g : SumsOf(g, f, W)
           total(W) == IF W = {} THEN 0
                       ELSE f[Chosen(W)] + part(W \ {Chosen(W)})[W \ {Chosen(W)}]
           h == [W \in SUBSET V |-> total(W)]
<1>4. ASSUME NEW W \in SUBSET V, W # V
      PROVE  SumsOf(part(W), f, W) /\ IsFiniteSet(W)
  <2>1. \E g : SumsOf(g, f, W)
    BY <1>2, <1>4
  <2> QED
    BY <1>3, <2>1, FS_Subset
<1> HIDE DEF part
<1>5. ASSUME NEW W \in SUBSET V, W # V
      PROVE  part(W)[W] = total(W)
  <2>1. CASE W = {}
    BY <1>4, <1>5, <2>1, SumsStep
  <2>2. CASE W # {}
    <3> DEFINE Y == W \ {Chosen(W)}
    <3>1. Chosen(W) \in W
      BY <2>2, ChosenElement
    <3>2. Y \in SUBSET V /\ Y # V /\ Y \subseteq W
      BY <1>5, <3>1
    <3>3. part(W)[W] = f[Chosen(W)] + part(W)[Y]
      BY <1>4, <1>5, <2>2, SumsStep
    <3>4. SumsOf(part(W), f, W) /\ IsFiniteSet(W)
      BY <1>4, <1>5
    <3>5. SumsOf(part(Y), f, Y) /\ IsFiniteSet(Y)
      BY <1>4, <3>2
    <3>6. part(W)[Y] = part(Y)[Y]
      BY <3>2, <3>4, <3>5, SumsUnique
    <3> QED
      BY <2>2, <3>3, <3>6
  <2> QED
    BY <2>1, <2>2
<1>6. ASSUME NEW W \in SUBSET V
      PROVE  h[W] = IF W = {} THEN 0 ELSE f[Chosen(W)] + h[W \ {Chosen(W)}]
  <2>1. CASE W = {}
    BY <2>1
  <2>2. CASE W # {}
    <3> DEFINE Y == W \ {Chosen(W)}
    <3>1. Chosen(W) \in W
      BY <2>2, ChosenElement
    <3>2. Y \in SUBSET V /\ Y # V
      BY <3>1
    <3>3. h[Y] = total(Y) /\ part(Y)[Y] = total(Y)
      BY <1>5, <3>2
    <3>4. h[W] = total(W)
      OBVIOUS
    <3> QED
      BY <2>2, <3>3, <3>4
  <2> QED
    BY <2>1, <2>2
<1>7. h = [W \in SUBSET V |-> IF W = {} THEN 0 ELSE f[Chosen(W)] + h[W \ {Chosen(W)}]]
  <2> HIDE DEF total
  <2>1. h = [W \in SUBSET V |-> h[W]]
    OBVIOUS
  <2> HIDE DEF h
  <2> QED
    BY <1>6, <2>1
<1>8. SumsOf(h, f, V)
  BY <1>7 DEF SumsOf
<1> QED
  BY <1>2, <1>8

-----------------------------------------------------------------------------
(* The sums of the community modules.                                      *)

\* The sum of f over a finite set is its recursive definition.
LEMMA SumIsSums ==
  ASSUME NEW S, IsFiniteSet(S), NEW f
  PROVE  \E g : SumsOf(g, f, S) /\ SumFunctionOnSet(f, S) = g[S]
<1> DEFINE g == CHOOSE h : h = [s \in SUBSET S |->
                  IF s = {} THEN 0 ELSE f[Chosen(s)] + h[s \ {Chosen(s)}]]
<1>1. SumsOf(g, f, S)
  <2>1. PICK e : SumsOf(e, f, S)
    BY SumsExist
  <2>2. e = [s \in SUBSET S |-> IF s = {} THEN 0 ELSE f[Chosen(s)] + e[s \ {Chosen(s)}]]
    BY <2>1 DEF SumsOf
  <2>3. g = [s \in SUBSET S |-> IF s = {} THEN 0 ELSE f[Chosen(s)] + g[s \ {Chosen(s)}]]
    BY <2>2, Zenon
  <2> QED
    BY <2>3 DEF SumsOf
<1>2. SumFunctionOnSet(f, S) = g[S]
  BY DEF SumFunctionOnSet, FoldFunctionOnSet, MapThenFoldSet, Chosen
<1> QED
  BY <1>1, <1>2

\* The sum over a set is that of one element and that of the others.
LEMMA SumAny ==
  ASSUME NEW S, IsFiniteSet(S), NEW f
  PROVE  /\ S = {} => SumFunctionOnSet(f, S) = 0
         /\ S # {} => SumFunctionOnSet(f, S)
                        = f[Chosen(S)] + SumFunctionOnSet(f, S \ {Chosen(S)})
<1>1. PICK g : SumsOf(g, f, S) /\ SumFunctionOnSet(f, S) = g[S]
  BY SumIsSums
<1>2. ASSUME S # {}
      PROVE  SumFunctionOnSet(f, S)
               = f[Chosen(S)] + SumFunctionOnSet(f, S \ {Chosen(S)})
  <2> DEFINE T == S \ {Chosen(S)}
  <2>1. IsFiniteSet(T)
    BY FS_Subset
  <2>2. PICK h : SumsOf(h, f, T) /\ SumFunctionOnSet(f, T) = h[T]
    BY <2>1, SumIsSums
  <2>3. g[T] = h[T]
    BY <1>1, <2>1, <2>2, SumsUnique
  <2>4. g[S] = f[Chosen(S)] + g[T]
    BY <1>1, <1>2, SumsStep
  <2> QED
    BY <1>1, <2>2, <2>3, <2>4
<1> QED
  BY <1>1, <1>2, SumsStep

\* The sum of integers is an integer.
LEMMA SumInt ==
  ASSUME NEW S, IsFiniteSet(S), NEW f, \A x \in S : f[x] \in Int
  PROVE  SumFunctionOnSet(f, S) \in Int
<1> DEFINE X == {V \in SUBSET S : SumFunctionOnSet(f, V) \notin Int}
<1>1. SUFFICES ASSUME X # {} PROVE FALSE
  OBVIOUS
<1>2. PICK V \in X : \A W \in X : W \subseteq V => W = V
  <2>1. X \in SUBSET (SUBSET S)
    OBVIOUS
  <2> HIDE DEF X
  <2> QED
    BY <1>1, <2>1, MinimalSubset
<1>3. V \subseteq S /\ IsFiniteSet(V)
  BY FS_Subset
<1>4. V # {}
  <2>1. SumFunctionOnSet(f, V) \notin Int
    OBVIOUS
  <2>2. V = {} => SumFunctionOnSet(f, V) = 0
    BY <1>3, SumAny
  <2> QED
    BY <2>1, <2>2
<1>5. Chosen(V) \in V /\ f[Chosen(V)] \in Int
  BY <1>3, <1>4, ChosenElement
<1>6. SumFunctionOnSet(f, V \ {Chosen(V)}) \in Int
  BY <1>2, <1>5
<1>7. SumFunctionOnSet(f, V) = f[Chosen(V)] + SumFunctionOnSet(f, V \ {Chosen(V)})
  BY <1>3, <1>4, SumAny
<1> QED
  BY <1>5, <1>6, <1>7

\* Any element may be taken out of a sum.
LEMMA SumRemove ==
  ASSUME NEW S, IsFiniteSet(S), NEW f, \A x \in S : f[x] \in Int, NEW a \in S
  PROVE  SumFunctionOnSet(f, S) = f[a] + SumFunctionOnSet(f, S \ {a})
<1> DEFINE X == {V \in SUBSET S :
                   \E x \in V : SumFunctionOnSet(f, V)
                                  # f[x] + SumFunctionOnSet(f, V \ {x})}
<1>1. SUFFICES ASSUME X # {} PROVE FALSE
  OBVIOUS
<1>2. PICK V \in X : \A W \in X : W \subseteq V => W = V
  <2>1. X \in SUBSET (SUBSET S)
    OBVIOUS
  <2> HIDE DEF X
  <2> QED
    BY <1>1, <2>1, MinimalSubset
<1>3. PICK x \in V : SumFunctionOnSet(f, V) # f[x] + SumFunctionOnSet(f, V \ {x})
  OBVIOUS
<1>4. V \subseteq S /\ V # {} /\ IsFiniteSet(V)
  BY FS_Subset
<1> DEFINE y == Chosen(V)
<1>5. y \in V
  BY <1>4, ChosenElement
<1>6. SumFunctionOnSet(f, V) = f[y] + SumFunctionOnSet(f, V \ {y})
  BY <1>4, SumAny
<1> HIDE DEF y
<1>7. y # x
  BY <1>3, <1>6
<1>8. ASSUME NEW W \in SUBSET V, W # V, NEW z \in W
      PROVE  SumFunctionOnSet(f, W) = f[z] + SumFunctionOnSet(f, W \ {z})
  BY <1>2, <1>4, <1>8
<1>9. SumFunctionOnSet(f, V \ {y}) = f[x] + SumFunctionOnSet(f, (V \ {y}) \ {x})
  BY <1>5, <1>7, <1>8
<1>10. SumFunctionOnSet(f, V \ {x}) = f[y] + SumFunctionOnSet(f, (V \ {x}) \ {y})
  BY <1>5, <1>7, <1>8
<1>11. (V \ {x}) \ {y} = (V \ {y}) \ {x}
  OBVIOUS
<1>12. SumFunctionOnSet(f, (V \ {y}) \ {x}) \in Int
  <2>1. IsFiniteSet((V \ {y}) \ {x})
    BY <1>4, FS_Subset
  <2> QED
    BY <1>4, <2>1, SumInt
<1>13. f[x] \in Int /\ f[y] \in Int
  BY <1>4, <1>5
<1> QED
  BY <1>3, <1>6, <1>9, <1>10, <1>11, <1>12, <1>13

\* The sum depends on the values at the elements only.
LEMMA SumSame ==
  ASSUME NEW S, IsFiniteSet(S), NEW f, NEW g, \A x \in S : f[x] = g[x]
  PROVE  SumFunctionOnSet(f, S) = SumFunctionOnSet(g, S)
<1> DEFINE X == {V \in SUBSET S :
                   SumFunctionOnSet(f, V) # SumFunctionOnSet(g, V)}
<1>1. SUFFICES ASSUME X # {} PROVE FALSE
  OBVIOUS
<1>2. PICK V \in X : \A W \in X : W \subseteq V => W = V
  <2>1. X \in SUBSET (SUBSET S)
    OBVIOUS
  <2> HIDE DEF X
  <2> QED
    BY <1>1, <2>1, MinimalSubset
<1>3. V # {} /\ IsFiniteSet(V)
  BY <1>2, SumAny, FS_Subset, FS_EmptySet
<1>4. Chosen(V) \in V
  BY <1>3, ChosenElement
<1>5. SumFunctionOnSet(f, V \ {Chosen(V)}) = SumFunctionOnSet(g, V \ {Chosen(V)})
  BY <1>2, <1>4
<1> QED
  BY <1>2, <1>3, <1>4, <1>5, SumAny

\* What is zero adds nothing.
LEMMA SumZero ==
  ASSUME NEW S, IsFiniteSet(S), NEW f, \A x \in S : f[x] = 0
  PROVE  SumFunctionOnSet(f, S) = 0
<1> DEFINE X == {V \in SUBSET S : SumFunctionOnSet(f, V) # 0}
<1>1. SUFFICES ASSUME X # {} PROVE FALSE
  OBVIOUS
<1>2. PICK V \in X : \A W \in X : W \subseteq V => W = V
  <2>1. X \in SUBSET (SUBSET S)
    OBVIOUS
  <2> HIDE DEF X
  <2> QED
    BY <1>1, <2>1, MinimalSubset
<1>3. V # {} /\ IsFiniteSet(V)
  BY <1>2, SumAny, FS_Subset, FS_EmptySet
<1>4. Chosen(V) \in V
  BY <1>3, ChosenElement
<1>5. SumFunctionOnSet(f, V \ {Chosen(V)}) = 0
  BY <1>2, <1>4
<1>6. SumFunctionOnSet(f, V) = f[Chosen(V)] + SumFunctionOnSet(f, V \ {Chosen(V)})
  BY <1>3, SumAny
<1>7. f[Chosen(V)] = 0 /\ SumFunctionOnSet(f, V) # 0
  BY <1>4
<1> QED
  BY <1>5, <1>6, <1>7

\* Elements where it is zero may be left out.
LEMMA SumWithin ==
  ASSUME NEW S, IsFiniteSet(S), NEW T \in SUBSET S, NEW f,
         \A x \in S : f[x] \in Int, \A x \in S \ T : f[x] = 0
  PROVE  SumFunctionOnSet(f, S) = SumFunctionOnSet(f, T)
<1> DEFINE X == {V \in SUBSET (S \ T) :
                   SumFunctionOnSet(f, T \cup V) # SumFunctionOnSet(f, T)}
<1>1. SUFFICES ASSUME X # {} PROVE FALSE
  <2>1. T \cup (S \ T) = S
    OBVIOUS
  <2>2. X = {} => S \ T \notin X
    OBVIOUS
  <2> QED
    BY <2>1, <2>2
<1>2. IsFiniteSet(S \ T)
  BY FS_Subset
<1>3. PICK V \in X : \A W \in X : W \subseteq V => W = V
  <2>1. X \in SUBSET (SUBSET (S \ T))
    OBVIOUS
  <2> HIDE DEF X
  <2> QED
    BY <1>1, <1>2, <2>1, MinimalSubset
<1>4. V # {}
  <2>1. T \cup {} = T
    OBVIOUS
  <2> QED
    BY <1>3, <2>1
<1>5. PICK y : y \in V
  BY <1>4
<1>6. y \in S /\ y \notin T /\ f[y] = 0
  BY <1>5
<1>7. SumFunctionOnSet(f, T \cup (V \ {y})) = SumFunctionOnSet(f, T)
  <2>1. V \ {y} \in SUBSET (S \ T) /\ V \ {y} \subseteq V /\ V \ {y} # V
    BY <1>5
  <2> QED
    BY <1>3, <2>1
<1>8. (T \cup V) \ {y} = T \cup (V \ {y})
  BY <1>6
<1>9. IsFiniteSet(T \cup V) /\ T \cup V \subseteq S /\ IsFiniteSet(T)
  BY FS_Subset
<1>10. SumFunctionOnSet(f, T \cup V) = f[y] + SumFunctionOnSet(f, (T \cup V) \ {y})
  BY <1>5, <1>9, SumRemove
<1>11. SumFunctionOnSet(f, T) \in Int
  BY <1>9, SumInt
<1>12. SumFunctionOnSet(f, T \cup V) # SumFunctionOnSet(f, T)
  OBVIOUS
<1>13. SumFunctionOnSet(f, (T \cup V) \ {y}) = SumFunctionOnSet(f, T)
  BY <1>7, <1>8
<1>14. SumFunctionOnSet(f, T \cup V) = 0 + SumFunctionOnSet(f, T)
  BY <1>6, <1>10, <1>13
<1> QED
  BY <1>11, <1>12, <1>14

\* A sum changes as one of its terms does.
LEMMA SumUpdate ==
  ASSUME NEW S, IsFiniteSet(S), NEW f, NEW g, NEW a \in S,
         \A x \in S : f[x] \in Int /\ g[x] \in Int,
         \A x \in S \ {a} : f[x] = g[x]
  PROVE  SumFunctionOnSet(g, S) = SumFunctionOnSet(f, S) + g[a] - f[a]
<1>1. IsFiniteSet(S \ {a})
  BY FS_Subset
<1>2. /\ SumFunctionOnSet(f, S) = f[a] + SumFunctionOnSet(f, S \ {a})
      /\ SumFunctionOnSet(g, S) = g[a] + SumFunctionOnSet(g, S \ {a})
  BY SumRemove
<1>3. SumFunctionOnSet(f, S \ {a}) = SumFunctionOnSet(g, S \ {a})
  BY <1>1, SumSame
<1>4. SumFunctionOnSet(f, S \ {a}) \in Int
  BY <1>1, SumInt
<1> QED
  BY <1>2, <1>3, <1>4

\* A part of a sum of natural numbers is at most the whole.
LEMMA SumPart ==
  ASSUME NEW S, IsFiniteSet(S), NEW f, \A x \in S : f[x] \in Nat, NEW a \in S
  PROVE  f[a] <= SumFunctionOnSet(f, S)
<1> DEFINE X == {V \in SUBSET S : ~ (0 <= SumFunctionOnSet(f, V))}
<1>1. X = {}
  <2>1. SUFFICES ASSUME X # {} PROVE FALSE
    OBVIOUS
  <2>2. PICK V \in X : \A W \in X : W \subseteq V => W = V
    <3>1. X \in SUBSET (SUBSET S)
      OBVIOUS
    <3> HIDE DEF X
    <3> QED
      BY <2>1, <3>1, MinimalSubset
  <2>3. V # {} /\ IsFiniteSet(V) /\ V \subseteq S
    <3>1. V \subseteq S /\ IsFiniteSet(V)
      BY FS_Subset
    <3>2. ~ (0 <= SumFunctionOnSet(f, V))
      OBVIOUS
    <3>3. V = {} => SumFunctionOnSet(f, V) = 0
      BY <3>1, SumAny
    <3> QED
      BY <3>1, <3>2, <3>3
  <2>4. Chosen(V) \in V
    BY <2>3, ChosenElement
  <2> DEFINE W == V \ {Chosen(V)}
  <2>5. 0 <= SumFunctionOnSet(f, W) /\ IsFiniteSet(W)
    BY <2>2, <2>3, <2>4, FS_Subset
  <2>6. SumFunctionOnSet(f, W) \in Int
    BY <2>3, <2>5, SumInt
  <2>7. SumFunctionOnSet(f, V) = f[Chosen(V)] + SumFunctionOnSet(f, W)
    BY <2>3, SumAny
  <2> QED
    BY <2>2, <2>3, <2>4, <2>5, <2>6, <2>7
<1>2. IsFiniteSet(S \ {a}) /\ 0 <= SumFunctionOnSet(f, S \ {a})
  BY <1>1, FS_Subset
<1>3. SumFunctionOnSet(f, S \ {a}) \in Int
  BY <1>2, SumInt
<1>4. SumFunctionOnSet(f, S) = f[a] + SumFunctionOnSet(f, S \ {a})
  BY SumRemove
<1> QED
  BY <1>2, <1>3, <1>4

\* A new element adds its value.
LEMMA SumNew ==
  ASSUME NEW S, IsFiniteSet(S), NEW a, a \notin S, NEW f, NEW g,
         DOMAIN f = S, DOMAIN g = S \cup {a},
         \A x \in S : g[x] = f[x] /\ f[x] \in Int, g[a] \in Int
  PROVE  SumFunction(g) = g[a] + SumFunction(f)
<1> DEFINE T == S \cup {a}
<1>1. IsFiniteSet(T) /\ T \ {a} = S
  BY FS_AddElement
<1>2. SumFunctionOnSet(g, T) = g[a] + SumFunctionOnSet(g, T \ {a})
  BY <1>1, SumRemove
<1>3. SumFunctionOnSet(g, S) = SumFunctionOnSet(f, S)
  BY SumSame
<1> QED
  BY <1>1, <1>2, <1>3 DEF SumFunction

\* The sum over no elements.
LEMMA SumNothing ==
  ASSUME NEW f, DOMAIN f = {}
  PROVE  SumFunction(f) = 0
  BY SumAny, FS_EmptySet DEF SumFunction

-----------------------------------------------------------------------------
(* MovementsInv is an invariant, and with it what it makes hold.           *)

Open(c) == phase[c] \in {"fetching", "ready"}

-----------------------------------------------------------------------------
(* Locks of calls that are not at work, and the weaker locks.              *)

\* Only the transaction of a new order takes the weaker lock.
KeySharesOfCreates ==
  \A b \in Batches : \A c \in keyShare[b] : InTx(c) /\ request[c].op = "Create"

\* A step changes the weaker locks of its own call only.
LEMMA OthersShare ==
  ASSUME Safe, NEW c \in Calls, Acts(c), NEW b \in Batches
  PROVE  \/ keyShare'[b] = keyShare[b]
         \/ keyShare'[b] = keyShare[b] \ {c}
         \/ keyShare'[b] = keyShare[b] \cup {c} /\ CreateLink(c)
<1>1. CASE \E outcome \in Finished : End(c, outcome)
  BY <1>1 DEF End
<1>2. CASE ~ \E outcome \in Finished : End(c, outcome)
  <2> USE <1>2 DEF Finished, Rollback, locks
  <2>1. CASE CreateLink(c)
    BY <2>1, QueueHead DEF Safe, TypeOK, CallsTyped, CreateLink
  <2>2. CASE Begin(c) \/ QuarantineLock(c) \/ AdjustLock(c) \/ ConsumeQuery(c)
             \/ ConsumeSettle(c) \/ ConsumeLock(c)
    BY <2>2 DEF Begin, QuarantineLock, AdjustLock, ConsumeQuery, ConsumeSettle,
                ConsumeLock, LockBatch
  <2>3. CASE CreateCheck(c) \/ OrderLock(c) \/ CompleteItem(c)
             \/ CompleteActivate(c)
    BY <2>3 DEF CreateCheck, OrderLock, CompleteItem, CompleteActivate, LockBatch
  <2> QED
    BY <2>1, <2>2, <2>3
       DEF Acts, Statement, DeadlockVictim, Abort, AdjustReject, Receive,
           QuarantineCommit, AdjustCommit, ConsumeCommit, CreateCommit,
           StartCommit, CancelCommit, CompleteCommit
<1> QED
  BY <1>1, <1>2

\* A call that has its answer holds no row.
LEMMA EndReleases ==
  ASSUME Safe, NEW c \in Calls, NEW outcome \in Finished, End(c, outcome)
  PROVE  /\ phase'[c] = outcome
         /\ \A b \in Batches : batchLock'[b] # c /\ c \notin keyShare'[b]
  BY CallsAssumption DEF Safe, TypeOK, CallsTyped, End

\* A call keeps its request, and whatever it does it is in a transaction
\* afterwards or has its answer.
LEMMA ActsMoves ==
  ASSUME Safe, NEW c \in Calls, Acts(c)
  PROVE  \/ \E outcome \in Finished : End(c, outcome)
         \/ /\ phase[c] = "new" /\ phase'[c] = "begun"
            /\ UNCHANGED locks
         \/ /\ InTx(c) /\ phase'[c] \in {"fetching", "ready"}
            /\ request'[c] = request[c]
<1> SUFFICES ASSUME ~ \E outcome \in Finished : End(c, outcome)
             PROVE  \/ /\ phase[c] = "new" /\ phase'[c] = "begun"
                       /\ UNCHANGED locks
                    \/ /\ InTx(c) /\ phase'[c] \in {"fetching", "ready"}
                       /\ request'[c] = request[c]
  OBVIOUS
<1> USE DEF Finished, Rollback, locks, InTx, GoTo, At
<1>1. phase \in [Calls -> Phases]
  BY DEF Safe, TypeOK, CallsTyped
<1>2. CASE Begin(c) \/ QuarantineLock(c) \/ AdjustLock(c) \/ ConsumeQuery(c)
           \/ ConsumeSettle(c) \/ ConsumeLock(c)
  BY <1>1, <1>2 DEF Begin, QuarantineLock, AdjustLock, ConsumeQuery,
                    ConsumeSettle, ConsumeLock
<1>3. CASE CreateCheck(c) \/ CreateLink(c) \/ OrderLock(c) \/ CompleteItem(c)
           \/ CompleteActivate(c)
  BY <1>1, <1>3 DEF CreateCheck, CreateLink, OrderLock, CompleteItem,
                    CompleteActivate
<1> QED
  BY <1>2, <1>3
     DEF Acts, Statement, DeadlockVictim, Abort, AdjustReject, Receive,
         QuarantineCommit, AdjustCommit, ConsumeCommit, CreateCommit,
         StartCommit, CancelCommit, CompleteCommit

\* Every step keeps the weaker locks with new orders.
LEMMA KeyShareStep ==
  ASSUME Safe, KeySharesOfCreates, [Next]_vars
  PROVE  KeySharesOfCreates'
<1> SUFFICES ASSUME NEW b \in Batches, NEW d \in keyShare'[b]
             PROVE  InTx(d)' /\ request'[d].op = "Create"
  BY DEF KeySharesOfCreates
<1>1. CASE UNCHANGED vars
  BY <1>1 DEF vars, locks, KeySharesOfCreates, InTx
<1>2. ASSUME NEW c \in Calls, Acts(c)
      PROVE  InTx(d)' /\ request'[d].op = "Create"
  <2>1. CASE d # c
    <3>1. d \in keyShare[b]
      BY <1>2, <2>1, OthersShare
    <3>2. d \in Calls
      BY <3>1 DEF Safe, TypeOK, CallsTyped
    <3>3. Idle(d)
      BY <1>2, <2>1, <3>2, OthersIdle
    <3> QED
      BY <3>1, <3>3 DEF KeySharesOfCreates, Idle, InTx
  <2>2. CASE d = c
    <3>1. ~ \E outcome \in Finished : End(c, outcome)
      BY <2>2, EndReleases
    <3>2. \/ d \in keyShare[b]
          \/ CreateLink(c)
      BY <1>2, <2>2, OthersShare
    <3>3. InTx(c) /\ request[c].op = "Create"
      BY <2>2, <3>2 DEF KeySharesOfCreates, CreateLink, At, InTx
    <3> QED
      BY <1>2, <2>2, <3>1, <3>3, ActsMoves DEF InTx
  <2> QED
    BY <2>1, <2>2
<1> QED
  BY <1>1, <1>2 DEF Next, Acts

\* A call that is not past its first statement, or has its answer, holds no
\* batch.
HoldsNothing(c) == \A b \in Batches : batchLock[b] # c

\* Every step keeps it so.
LEMMA HoldsNothingStep ==
  ASSUME Safe, \A c \in Calls : ~ Open(c) => HoldsNothing(c), [Next]_vars,
         NEW d \in Calls, ~ Open(d)'
  PROVE  HoldsNothing(d)'
<1>1. CASE UNCHANGED vars
  BY <1>1 DEF vars, locks, Open, HoldsNothing
<1>2. ASSUME NEW c \in Calls, Acts(c)
      PROVE  HoldsNothing(d)'
  <2>1. CASE d # c
    BY <1>2, <2>1, OthersIdle DEF Idle, Open, HoldsNothing
  <2>2. CASE d = c
    BY <1>2, <2>2, ActsMoves, EndReleases DEF Open, HoldsNothing, locks
  <2> QED
    BY <2>1, <2>2
<1> QED
  BY <1>1, <1>2 DEF Next, Acts

-----------------------------------------------------------------------------
(* What others do to the rows a call holds.                                *)

\* A quantity changes when its row is inserted, or under the lock of the call
\* that changes it.
LEMMA QuantitiesHeld ==
  ASSUME Safe, NEW c \in Calls, Acts(c), NEW b \in Batches,
         quantity'[b] # quantity[b]
  PROVE  status[b] = "NONE" \/ batchLock[b] = c
<1>1. quantity \in [Batches -> Int]
  BY DEF Safe, TypeOK, TablesTyped
<1>2. ASSUME NEW type \in TransactionTypes, Post(c, type)
      PROVE  batchLock[b] = c
  <2>1. quantity'[b] = quantity[b] + delta[c][b]
    BY <1>2, PostSafe
  <2>2. delta[c][b] # 0
    BY <1>1, <2>1
  <2> QED
    BY <2>2, ChangedOnlyByHolder
<1>3. CASE AdjustCommit(c)
  <2>1. request[c].type \in TransactionTypes
    BY <1>3, Running, RequestFields
       DEF Safe, AdjustCommit, At, InTx, AdjustRequests, TransactionTypes
  <2> QED
    BY <1>2, <1>3, <2>1 DEF AdjustCommit
<1>4. CASE ConsumeCommit(c) \/ CompleteCommit(c)
  BY <1>2, <1>4 DEF ConsumeCommit, CompleteCommit, TransactionTypes
<1>5. CASE Receive(c) \/ CreateCommit(c)
  BY <1>1, <1>5 DEF Receive, CreateCommit, Rollback, tables
<1>6. UNCHANGED tables \/ Commits(c)
  BY CommitOrNothing
<1> QED
  BY <1>3, <1>4, <1>5, <1>6
     DEF Commits, tables, QuarantineCommit, StartCommit, CancelCommit

\* The batches of a consumption's snapshot are there to stay, at their
\* expirations, and one that is ACTIVE afterwards was so before.
LEMMA SnapshotStays ==
  ASSUME Safe, [Next]_vars, NEW b \in Batches,
         status[b] \in {"ACTIVE", "QUARANTINED"}
  PROVE  /\ status'[b] \in {"ACTIVE", "QUARANTINED"}
         /\ expiration'[b] = expiration[b]
         /\ status'[b] = "ACTIVE" => status[b] = "ACTIVE"
<1>1. status'[b] # status[b] =>
        status[b] = "ACTIVE" /\ status'[b] = "QUARANTINED"
  BY BatchesMoveForward DEF BatchMoves
<1> QED
  BY <1>1, ExpirationsFixed

\* A consumption in order stays so while its own state does, whatever others
\* do to the tables.
LEMMA OrderStays ==
  ASSUME Safe, [Next]_vars, NEW d \in Calls, PassesInOrder(d),
         UNCHANGED <<request[d], queue[d], remaining[d], snapshot[d]>>,
         \A b \in Batches : batchLock'[b] = d <=> batchLock[b] = d,
         phase'[d] = "ready" => queue[d] = <<>> /\ remaining[d] = 0
  PROVE  PassesInOrder(d)' /\ Passed(d)' = Passed(d)
<1>1. Passed(d)' = Passed(d)
  BY DEF Passed
<1>2. snapshot[d] \subseteq Batches /\ Passed(d) \subseteq snapshot[d]
  BY DEF Safe, TypeOK, CallsTyped, Passed
<1>3. \A b \in snapshot[d] :
        /\ BatchProduct[b] = request[d].product
        /\ status'[b] \in {"ACTIVE", "QUARANTINED"}
        /\ expiration'[b] = expiration[b]
  BY <1>2, SnapshotStays DEF PassesInOrder
<1>4. \A k \in DOMAIN queue[d] :
        /\ queue[d][k].batch \in snapshot[d]
        /\ \A b \in Passed(d) :
             ~ Sooner(expiration'[queue[d][k].batch], expiration'[b])
  BY <1>2, <1>3 DEF PassesInOrder
<1>5. \A j, k \in DOMAIN queue[d] : j < k =>
        /\ queue[d][j].batch # queue[d][k].batch
        /\ ~ Sooner(expiration'[queue[d][k].batch], expiration'[queue[d][j].batch])
  BY <1>3 DEF PassesInOrder
<1>6. \A b \in Batches : batchLock'[b] = d <=> b \in Passed(d)
  BY DEF PassesInOrder
<1> QED
  BY <1>1, <1>3, <1>4, <1>5, <1>6 DEF PassesInOrder

\* So does what it has emptied, for it holds the rows.
LEMMA EmptiesStays ==
  ASSUME Safe, [Next]_vars, NEW d \in Calls, PassesInOrder(d), EmptiesInOrder(d),
         Passed(d)' = Passed(d),
         UNCHANGED <<remaining[d], delta[d]>>,
         \A b \in Batches : batchLock[b] = d /\ status[b] # "NONE" =>
           quantity'[b] = quantity[b]
  PROVE  EmptiesInOrder(d)'
<1>1. \A b \in Passed(d) :
        /\ b \in Batches /\ batchLock[b] = d
        /\ status[b] \in {"ACTIVE", "QUARANTINED"}
  BY DEF Safe, TypeOK, CallsTyped, Passed, PassesInOrder
<1>2. \A b \in Passed(d) :
        /\ quantity'[b] = quantity[b]
        /\ expiration'[b] = expiration[b]
        /\ status'[b] = "ACTIVE" => status[b] = "ACTIVE"
  BY <1>1, SnapshotStays
<1> QED
  BY <1>2 DEF EmptiesInOrder

\* What a call is about to post stays right while its own state does.
LEMMA PostsStays ==
  ASSUME Safe, [Next]_vars, NEW d \in Calls, Open(d), Posts(d),
         UNCHANGED <<request[d], queue[d], remaining[d], delta[d], snapshot[d]>>,
         request[d].op = "Consume" =>
           \A b \in Batches : batchLock'[b] = d <=> batchLock[b] = d,
         \A b \in Batches : batchLock[b] = d /\ status[b] # "NONE" =>
           quantity'[b] = quantity[b],
         request[d].op = "Consume" /\ phase'[d] = "ready" =>
           queue[d] = <<>> /\ remaining[d] = 0
  PROVE  Posts(d)'
<1>1. CASE request[d].op = "Adjust"
  BY <1>1 DEF Posts
<1>2. CASE request[d].op = "Complete"
  <2>1. lineItems'[request[d].order] = lineItems[request[d].order]
    BY <1>2, CompletionItems, OrdersFixed DEF Open
  <2>2. Deducted(d)' = Deducted(d)
    BY <2>1 DEF Deducted
  <2>3. \A b \in Batches : DeductedOf(d, b)' = DeductedOf(d, b)
    BY <2>1, <2>2 DEF DeductedOf
  <2> QED
    BY <1>2, <2>3 DEF Posts
<1>3. CASE request[d].op = "Consume"
  <2>1. PassesInOrder(d) /\ EmptiesInOrder(d) /\ Accounted(d)
    BY <1>3 DEF Posts
  <2>2. PassesInOrder(d)' /\ Passed(d)' = Passed(d)
    BY <1>3, <2>1, OrderStays
  <2>3. EmptiesInOrder(d)'
    BY <2>1, <2>2, EmptiesStays
  <2>4. Accounted(d)'
    BY <2>1 DEF Accounted
  <2> QED
    BY <1>3, <2>2, <2>3, <2>4 DEF Posts
<1>4. CASE request[d].op \notin {"Adjust", "Complete", "Consume"}
  BY <1>4 DEF Posts
<1> QED
  BY <1>1, <1>2, <1>3, <1>4

-----------------------------------------------------------------------------
(* The first statement of a call.                                          *)

\* A call that holds no batch has changed none.
LEMMA NothingChanged ==
  ASSUME Safe, NEW c \in Calls, HoldsNothing(c)
  PROVE  \A b \in Batches : delta[c][b] = 0
  BY ChangedOnlyByHolder DEF HoldsNothing

\* A correction changes its batch by what was asked.
LEMMA PostsOfAdjust ==
  ASSUME Safe, NEW c \in Calls, HoldsNothing(c), AdjustLock(c), Open(c)'
  PROVE  Posts(c)'
<1>1. /\ request[c].op = "Adjust" /\ request[c].batch \in Batches
      /\ request[c].type = "WASTE" => request[c].change < 0
  BY Running, RequestFields DEF Safe, AdjustLock, At, InTx, AdjustRequests
<1>2. /\ request' = request
      /\ delta' = [delta EXCEPT ![c][request[c].batch] = request[c].change]
  BY EndReleases DEF AdjustLock, Rollback, Open, Finished
<1>3. \A b \in Batches : delta'[c][b] =
        IF b = request[c].batch THEN request[c].change ELSE 0
  BY <1>2, NothingChanged DEF Safe, TypeOK, CallsTyped
<1> QED
  BY <1>1, <1>2, <1>3 DEF Posts

\* A completion that found its order running has deducted nothing.
LEMMA PostsOfOrderLock ==
  ASSUME Safe, NEW c \in Calls, HoldsNothing(c), OrderLock(c), Open(c)'
  PROVE  Posts(c)'
<1> DEFINE o == request[c].order
<1>1. CASE request[c].op # "Complete"
  BY <1>1, EndReleases DEF OrderLock, Rollback, Open, Finished, Posts, End
<1>2. CASE request[c].op = "Complete"
  <2>1. o \in Orders
    BY <1>2, Running, RequestFields DEF Safe, OrderLock, InTx, OrderRequests
  <2>2. lineItems[o] \in Seq(LineItems) /\ IsFiniteSet(DOMAIN lineItems[o])
    BY <2>1, DomainFinite DEF Safe, TypeOK, TablesTyped
  <2>3. ~ Rollback(c, "refused")
    BY EndReleases DEF Rollback, Open, Finished
  <2>4. PICK s \in SetToSeqs(DOMAIN lineItems[o]) :
          queue' = [queue EXCEPT ![c] = [i \in DOMAIN s |->
            [batch |-> lineItems[o][s[i]].batch, item |-> s[i]]]]
    BY <1>2, <2>3 DEF OrderLock
  <2>5. UNCHANGED <<tables, request, delta>>
    BY <2>3 DEF OrderLock
  <2>6. /\ DOMAIN queue'[c] = DOMAIN s
        /\ \A k \in DOMAIN s : queue'[c][k].item = s[k]
    BY <2>4 DEF Safe, TypeOK, CallsTyped
  <2>7. Deducted(c)' = {}
    BY <2>2, <2>5, <2>6, PermutationsCover, SMTT(20) DEF Deducted, tables
  <2>8. \A b \in Batches : DeductedOf(c, b)' = 0
    BY <2>7, SumNothing DEF DeductedOf
  <2>9. \A b \in Batches : delta'[c][b] = - DeductedOf(c, b)'
    BY <2>5, <2>8, NothingChanged
  <2> QED
    BY <1>2, <2>5, <2>9 DEF Posts
<1> QED
  BY <1>1, <1>2

\* A consumption that has its snapshot, in order, has taken nothing.
LEMMA PostsOfQuery ==
  ASSUME Safe, NEW c \in Calls, HoldsNothing(c), ConsumeQuery(c)
  PROVE  Posts(c)'
<1> DEFINE S == ActiveOf(request[c].product)
<1>1. /\ request[c].op = "Consume" /\ phase'[c] = "fetching"
      /\ snapshot'[c] = S /\ remaining'[c] = request[c].quantity
      /\ UNCHANGED <<tables, locks, request, delta>>
      /\ request[c].quantity \in Positive
  BY Running, RequestFields
     DEF Safe, TypeOK, CallsTyped, ConsumeQuery, At, GoTo, InTx, ConsumeRequests
<1>2. PICK s \in FEFOOrders(S) :
        queue' = [queue EXCEPT ![c] =
                    [i \in DOMAIN s |-> [batch |-> s[i], item |-> 0]]]
  BY DEF ConsumeQuery
<1>3. S \subseteq Batches /\ IsFiniteSet(S)
  BY StockAssumption, FS_Subset DEF ActiveOf
<1>4. /\ s \in SetToSeqs(S)
      /\ \A i, j \in DOMAIN s :
           i < j => ~ Sooner(expiration[s[j]], expiration[s[i]])
  BY DEF FEFOOrders
<1>5. /\ \A b \in S : \E i \in DOMAIN s : s[i] = b
      /\ \A i, j \in DOMAIN s : i # j => s[i] # s[j]
      /\ \A i \in DOMAIN s : s[i] \in S /\ i \in Int
  BY <1>3, <1>4, PermutationsCover, PermutationsAreSequences
<1>6. /\ DOMAIN queue'[c] = DOMAIN s
      /\ \A k \in DOMAIN s : queue'[c][k].batch = s[k]
  BY <1>2 DEF Safe, TypeOK, CallsTyped
<1>7. Passed(c)' = {}
  BY <1>1, <1>5, <1>6 DEF Passed
<1>8. PassesInOrder(c)'
  <2>1. \A b \in S : BatchProduct[b] = request[c].product /\ status[b] = "ACTIVE"
    BY DEF ActiveOf
  <2>2. \A b \in Batches : batchLock'[b] # c
    BY <1>1 DEF HoldsNothing, locks
  <2>3. \A j, k \in DOMAIN s : j < k =>
          s[j] # s[k] /\ ~ Sooner(expiration[s[k]], expiration[s[j]])
    BY <1>4, <1>5
  <2>4. status' = status /\ expiration' = expiration /\ request' = request
    BY <1>1 DEF tables
  <2> HIDE DEF S
  <2> QED
    BY <1>1, <1>5, <1>6, <1>7, <2>1, <2>2, <2>3, <2>4 DEF PassesInOrder
<1>9. EmptiesInOrder(c)'
  BY <1>7 DEF EmptiesInOrder
<1>10. Accounted(c)'
  <2> DEFINE f == [b \in Batches |-> - delta'[c][b]]
  <2>1. \A b \in Batches : f[b] = 0
    BY <1>1, NothingChanged
  <2>2. SumFunction(f) = 0
    BY <2>1, StockAssumption, SumZero DEF SumFunction
  <2> QED
    BY <1>1, <2>2 DEF Accounted, Positive
<1> QED
  BY <1>1, <1>8, <1>9, <1>10 DEF Posts

-----------------------------------------------------------------------------
(* The next statement of a call.                                           *)

\* A consumption locks the next batch of its snapshot: what it has passed is
\* what it had passed and that batch, and nothing it has passed expires later
\* than what is left.
LEMMA OrderAtLock ==
  ASSUME Safe, NEW c \in Calls, ConsumeLock(c), PassesInOrder(c)
  PROVE  LET b == Head(queue[c]).batch IN
         /\ b \in snapshot[c] /\ b \in Batches /\ b \notin Passed(c)
         /\ Passed(c)' = Passed(c) \cup {b}
         /\ PassesInOrder(c)'
<1> DEFINE b == Head(queue[c]).batch
<1>1. /\ phase[c] = "fetching" /\ request[c].op = "Consume" /\ queue[c] # <<>>
      /\ queue'[c] = Tail(queue[c])
      /\ UNCHANGED <<tables, phase, request, snapshot>>
  BY DEF Safe, TypeOK, CallsTyped, ConsumeLock, At
<1>2. /\ b \in Batches /\ 1 \in DOMAIN queue[c] /\ b = queue[c][1].batch
      /\ batchLock' = [batchLock EXCEPT ![b] = c]
  BY <1>1, QueueFirst, QueueHead DEF Safe, ConsumeLock, LockBatch
<1>3. \A k \in DOMAIN queue'[c] :
        /\ k + 1 \in DOMAIN queue[c] /\ queue'[c][k] = queue[c][k + 1]
        /\ k \in Nat /\ 1 < k + 1
  <2>1. queue'[c] \in Seq([batch : Batches, item : Nat])
    BY <1>1, QueueHead DEF Safe
  <2>2. \A k \in DOMAIN queue'[c] : k \in Nat /\ 1 < k + 1
    BY <2>1
  <2> QED
    BY <1>1, <2>2, QueueFirst DEF Safe
<1>4. \A k \in DOMAIN queue[c] : k # 1 => k \in Int /\ 1 < k
  <2>1. queue[c] \in Seq([batch : Batches, item : Nat])
    BY DEF Safe, TypeOK, CallsTyped
  <2> QED
    BY <2>1
<1>5. b \in snapshot[c] /\ b \notin Passed(c)
  BY <1>2 DEF PassesInOrder, Passed
<1>6. Passed(c)' = Passed(c) \cup {b}
  <2>1. ASSUME NEW d \in snapshot[c]
        PROVE  (\A k \in DOMAIN queue'[c] : queue'[c][k].batch # d)
                 <=> d = b \/ \A k \in DOMAIN queue[c] : queue[c][k].batch # d
    <3>1. ASSUME \A k \in DOMAIN queue'[c] : queue'[c][k].batch # d, d # b,
                 NEW k \in DOMAIN queue[c]
          PROVE  queue[c][k].batch # d
      <4>1. CASE k = 1
        BY <1>2, <3>1, <4>1
      <4>2. CASE k # 1
        <5>1. k - 1 \in DOMAIN queue'[c] /\ queue'[c][k - 1] = queue[c][k]
          BY <1>1, <4>2, QueueRest DEF Safe
        <5> QED
          BY <3>1, <5>1
      <4> QED
        BY <4>1, <4>2
    <3>2. ASSUME d = b, NEW k \in DOMAIN queue'[c]
          PROVE  queue'[c][k].batch # d
      <4>1. /\ k + 1 \in DOMAIN queue[c] /\ queue'[c][k] = queue[c][k + 1]
            /\ 1 < k + 1
        BY <1>3
      <4>2. queue[c][1].batch # queue[c][k + 1].batch
        BY <1>2, <4>1 DEF PassesInOrder
      <4> QED
        BY <1>2, <3>2, <4>1, <4>2
    <3> QED
      BY <1>3, <3>1, <3>2
  <2>2. snapshot'[c] = snapshot[c]
    BY <1>1
  <2> QED
    BY <1>5, <2>1, <2>2 DEF Passed
<1>7. \A d \in Batches : batchLock'[d] = c <=> d \in Passed(c)'
  BY <1>2, <1>6 DEF Safe, TypeOK, CallsTyped, PassesInOrder
<1>8. \A k \in DOMAIN queue'[c] :
        /\ queue'[c][k].batch \in snapshot[c]
        /\ \A d \in Passed(c) \cup {b} :
             ~ Sooner(expiration[queue'[c][k].batch], expiration[d])
  <2>1. ASSUME NEW k \in DOMAIN queue'[c]
        PROVE  /\ queue'[c][k].batch \in snapshot[c]
               /\ \A d \in Passed(c) :
                    ~ Sooner(expiration[queue'[c][k].batch], expiration[d])
               /\ ~ Sooner(expiration[queue'[c][k].batch], expiration[b])
    <3>1. /\ k + 1 \in DOMAIN queue[c] /\ queue'[c][k] = queue[c][k + 1]
          /\ 1 < k + 1
      BY <1>3
    <3>2. ~ Sooner(expiration[queue[c][k + 1].batch], expiration[queue[c][1].batch])
      BY <1>2, <3>1 DEF PassesInOrder
    <3> QED
      BY <1>2, <3>1, <3>2 DEF PassesInOrder
  <2> QED
    BY <2>1
<1>9. \A j, k \in DOMAIN queue'[c] : j < k =>
        /\ queue'[c][j].batch # queue'[c][k].batch
        /\ ~ Sooner(expiration[queue'[c][k].batch], expiration[queue'[c][j].batch])
  <2>1. ASSUME NEW j \in DOMAIN queue'[c], NEW k \in DOMAIN queue'[c], j < k
        PROVE  /\ queue'[c][j].batch # queue'[c][k].batch
               /\ ~ Sooner(expiration[queue'[c][k].batch],
                           expiration[queue'[c][j].batch])
    <3>1. /\ j + 1 \in DOMAIN queue[c] /\ queue'[c][j] = queue[c][j + 1]
          /\ k + 1 \in DOMAIN queue[c] /\ queue'[c][k] = queue[c][k + 1]
          /\ j + 1 < k + 1
      BY <1>3, <2>1
    <3> QED
      BY <3>1 DEF PassesInOrder
  <2> QED
    BY <2>1
<1>10. /\ status' = status /\ expiration' = expiration
       /\ snapshot'[c] = snapshot[c] /\ request'[c] = request[c]
       /\ phase'[c] # "ready"
  BY <1>1 DEF tables
<1>11. \A d \in snapshot[c] :
         BatchProduct[d] = request[c].product /\ status[d] \in {"ACTIVE", "QUARANTINED"}
  BY DEF PassesInOrder
<1>12. PassesInOrder(c)'
  <2> HIDE DEF b
  <2> QED
    BY <1>6, <1>7, <1>8, <1>9, <1>10, <1>11 DEF PassesInOrder
<1> QED
  BY <1>2, <1>5, <1>6, <1>12

\* It takes from that batch what is left to cover, or all that is there.
LEMMA PostsOfLock ==
  ASSUME Safe, NEW c \in Calls, ConsumeLock(c), Posts(c)
  PROVE  Posts(c)'
<1> DEFINE b    == Head(queue[c]).batch
           take == IF status[b] = "ACTIVE" THEN Lesser(quantity[b], remaining[c])
                                           ELSE 0
<1>1. /\ request[c].op = "Consume" /\ request' = request
      /\ PassesInOrder(c) /\ EmptiesInOrder(c) /\ Accounted(c)
  BY DEF ConsumeLock, At, Posts
<1>2. /\ b \in Batches /\ b \notin Passed(c)
      /\ Passed(c)' = Passed(c) \cup {b} /\ PassesInOrder(c)'
      /\ Passed(c) \subseteq Batches
  BY <1>1, OrderAtLock DEF Safe, TypeOK, CallsTyped, Passed
<1>3. delta[c][b] = 0
  BY <1>1, <1>2, ChangedOnlyByHolder DEF PassesInOrder
<1>4. /\ remaining'[c] = remaining[c] - take
      /\ \A d \in Batches : delta'[c][d] = IF d = b THEN -take ELSE delta[c][d]
      /\ UNCHANGED tables
  BY <1>2 DEF Safe, TypeOK, CallsTyped, ConsumeLock
<1>5. /\ quantity[b] \in Int /\ quantity[b] >= 0
      /\ remaining[c] \in Int /\ remaining[c] >= 0
      /\ \A d \in Batches : delta[c][d] \in Int
  BY <1>2 DEF Safe, TypeOK, TablesTyped, CallsTyped, TablesSafe, CallSafe, Quantities
<1>6. /\ take \in Int /\ take >= 0 /\ take <= remaining[c]
      /\ remaining[c] = 0 => take = 0
      /\ status[b] = "ACTIVE" /\ quantity[b] # take => take = remaining[c]
  BY <1>5 DEF Lesser
<1> HIDE DEF take
<1>7. /\ status' = status /\ quantity' = quantity /\ expiration' = expiration
  BY <1>4 DEF tables
<1>8. ASSUME NEW e \in Passed(c)'
      PROVE  /\ delta'[c][e] <= 0
             /\ status[e] = "ACTIVE" /\ quantity[e] + delta'[c][e] # 0 =>
                  /\ remaining'[c] = 0
                  /\ \A d \in Passed(c)' :
                       Sooner(expiration[e], expiration[d]) => delta'[c][d] = 0
  <2>1. CASE e = b
    <3>1. delta'[c][e] = - take
      BY <1>2, <1>4, <2>1
    <3>2. ASSUME status[e] = "ACTIVE", quantity[e] + delta'[c][e] # 0
          PROVE  remaining'[c] = 0
      BY <1>4, <1>5, <1>6, <2>1, <3>1, <3>2
    <3>3. ~ Sooner(expiration[b], expiration[b])
      BY <1>2, StockAssumption
         DEF Safe, TypeOK, TablesTyped, Expirations, Sooner
    <3>4. \A d \in Passed(c) : ~ Sooner(expiration[b], expiration[d])
      BY <1>1, QueueFirst DEF PassesInOrder, ConsumeLock, Safe
    <3> QED
      BY <1>2, <1>6, <2>1, <3>1, <3>2, <3>3, <3>4
  <2>2. CASE e # b
    <3>1. e \in Passed(c) /\ e \in Batches /\ delta'[c][e] = delta[c][e]
      BY <1>2, <1>4, <2>2
    <3>2. delta'[c][e] <= 0
      BY <1>1, <3>1 DEF EmptiesInOrder
    <3>3. ASSUME status[e] = "ACTIVE", quantity[e] + delta'[c][e] # 0
          PROVE  /\ remaining'[c] = 0
                 /\ \A d \in Passed(c)' :
                      Sooner(expiration[e], expiration[d]) => delta'[c][d] = 0
      <4>1. /\ remaining[c] = 0
            /\ \A d \in Passed(c) :
                 Sooner(expiration[e], expiration[d]) => delta[c][d] = 0
        BY <1>1, <3>1, <3>3 DEF EmptiesInOrder
      <4>2. take = 0 /\ remaining'[c] = 0
        BY <1>4, <1>6, <4>1
      <4> QED
        BY <1>2, <1>4, <4>1, <4>2
    <3> QED
      BY <3>2, <3>3
  <2> QED
    BY <2>1, <2>2
<1>9. EmptiesInOrder(c)'
  BY <1>7, <1>8 DEF EmptiesInOrder
<1>10. Accounted(c)'
  <2> DEFINE f == [d \in Batches |-> - delta[c][d]]
             g == [d \in Batches |-> - delta'[c][d]]
  <2>1. /\ \A d \in Batches : f[d] \in Int /\ g[d] \in Int
        /\ \A d \in Batches \ {b} : f[d] = g[d]
        /\ f[b] = 0 /\ g[b] = take
    BY <1>2, <1>3, <1>4, <1>5, <1>6
  <2>2. /\ SumFunction(f) = SumFunctionOnSet(f, Batches)
        /\ SumFunction(g) = SumFunctionOnSet(g, Batches)
    BY DEF SumFunction
  <2>3. remaining[c] + SumFunction(f) = request[c].quantity
    BY <1>1 DEF Accounted
  <2> HIDE DEF b, f, g
  <2>4. SumFunction(g) = SumFunction(f) + take - 0
    <3>1. SumFunctionOnSet(g, Batches) = SumFunctionOnSet(f, Batches) + g[b] - f[b]
      <4>1. /\ IsFiniteSet(Batches) /\ b \in Batches
            /\ \A d \in Batches : f[d] \in Int /\ g[d] \in Int
            /\ \A d \in Batches \ {b} : f[d] = g[d]
        BY <1>2, <2>1, StockAssumption
      <4> QED
        BY <4>1, SumUpdate
    <3> QED
      BY <2>1, <2>2, <3>1
  <2>5. SumFunction(f) \in Int
    BY <2>1, <2>2, StockAssumption, SumInt
  <2>6. remaining'[c] + SumFunction(g) = request'[c].quantity
    BY <1>1, <1>4, <1>5, <1>6, <2>3, <2>4, <2>5
  <2> QED
    BY <2>6 DEF Accounted, g
<1> QED
  BY <1>1, <1>2, <1>9, <1>10 DEF Posts

\* A completion deducts one more line item from the batch that it names.
LEMMA PostsOfItem ==
  ASSUME Safe, ExpiryInv, NEW c \in Calls, CompleteItem(c), Open(c)', Posts(c)
  PROVE  Posts(c)'
<1> DEFINE items == lineItems[request[c].order]
           i     == Head(queue[c]).item
           b     == Head(queue[c]).batch
<1>1. ~ Rollback(c, "refused")
  BY EndReleases DEF Rollback, Open, Finished
<1>2. /\ i \in DOMAIN items /\ items \in Seq(LineItems)
      /\ b = items[i].batch /\ b \in Batches
      /\ UNCHANGED <<tables, request>>
      /\ i \notin Deducted(c) /\ Deducted(c)' = Deducted(c) \cup {i}
  BY <1>1, ItemDeducted
<1>3. /\ request[c].op = "Complete"
      /\ delta' = [delta EXCEPT ![c][b] = @ - items[i].quantity]
  BY <1>1 DEF CompleteItem, At
<1>4. lineItems' = lineItems /\ request' = request
  BY <1>2 DEF tables
<1>5. items[i].quantity \in Int
  BY <1>2, ItemFields DEF Positive
<1> HIDE DEF i, b
<1>6. ASSUME NEW d \in Batches
      PROVE  delta'[c][d] = - DeductedOf(c, d)'
  <2> DEFINE met == {j \in Deducted(c) : items[j].batch = d}
  <2>1. delta[c][d] = - DeductedOf(c, d)
    BY <1>3 DEF Posts
  <2>2. DeductedOf(c, d) = SumFunction([j \in met |-> items[j].quantity])
    BY DEF DeductedOf
  <2>3. CASE d # b
    <3>1. {j \in Deducted(c)' : items[j].batch = d} = met
      BY <1>2, <2>3
    <3>2. DeductedOf(c, d)' = DeductedOf(c, d)
      BY <1>4, <2>2, <3>1 DEF DeductedOf
    <3>3. delta'[c][d] = delta[c][d]
      BY <1>3, <2>3 DEF Safe, TypeOK, CallsTyped
    <3> QED
      BY <2>1, <3>2, <3>3
  <2>4. CASE d = b
    <3>1. {j \in Deducted(c)' : items[j].batch = d} = met \cup {i}
      BY <1>2, <2>4
    <3>2. DeductedOf(c, d)' = SumFunction([j \in met \cup {i} |-> items[j].quantity])
      BY <1>4, <3>1 DEF DeductedOf
    <3>3. met \subseteq DOMAIN items /\ i \notin met /\ IsFiniteSet(met)
      BY <1>2, DomainFinite, FS_Subset DEF Deducted
    <3>4. \A j \in met \cup {i} : items[j].quantity \in Int
      BY <1>2, <3>3, ItemFields DEF Positive
    <3> DEFINE f == [j \in met |-> items[j].quantity]
               g == [j \in met \cup {i} |-> items[j].quantity]
    <3>5. /\ DOMAIN f = met /\ DOMAIN g = met \cup {i}
          /\ \A j \in met : g[j] = f[j] /\ f[j] \in Int
          /\ g[i] = items[i].quantity
      BY <3>4
    <3> HIDE DEF met, f, g
    <3>6. DeductedOf(c, d)' = items[i].quantity + DeductedOf(c, d)
      <4>1. SumFunction(g) = g[i] + SumFunction(f)
        BY <1>5, <3>3, <3>5, SumNew
      <4> QED
        BY <2>2, <3>2, <3>5, <4>1 DEF f, g
    <3>7. delta[c][d] \in Int /\ delta'[c][d] = delta[c][d] - items[i].quantity
      BY <1>3, <2>4 DEF Safe, TypeOK, CallsTyped
    <3>8. DeductedOf(c, d) \in Int
      <4>1. SumFunctionOnSet(f, met) \in Int
        BY <3>3, <3>5, SumInt
      <4> QED
        BY <2>2, <3>5, <4>1 DEF SumFunction, f
    <3> QED
      BY <1>5, <2>1, <3>6, <3>7, <3>8
  <2> QED
    BY <2>3, <2>4
<1> QED
  BY <1>3, <1>4, <1>6 DEF Posts

\* A call past its first statement takes one of these, or ends.
LEMMA NextStatement ==
  ASSUME Safe, NEW c \in Calls, Acts(c), Open(c), Open(c)'
  PROVE  \/ CreateLink(c) \/ ConsumeLock(c) \/ ConsumeSettle(c)
         \/ CompleteItem(c) \/ CompleteActivate(c)
<1>1. \A outcome \in Finished : ~ End(c, outcome)
  BY EndReleases DEF Open, Finished
<1> USE <1>1 DEF Finished, Rollback
<1>2. ~ (\/ Begin(c) \/ QuarantineLock(c) \/ AdjustLock(c) \/ ConsumeQuery(c)
         \/ CreateCheck(c) \/ OrderLock(c))
  BY DEF Open, Begin, QuarantineLock, AdjustLock, ConsumeQuery, CreateCheck,
         OrderLock, At
<1> QED
  BY <1>2 DEF Acts, Statement, DeadlockVictim, Abort, AdjustReject, Receive,
              QuarantineCommit, AdjustCommit, ConsumeCommit, CreateCommit,
              StartCommit, CancelCommit, CompleteCommit

\* Every step keeps what every open transaction is about to post right.
LEMMA PostsStep ==
  ASSUME Safe, ExpiryInv, MovementsInv, [Next]_vars, NEW d \in Calls, Open(d)'
  PROVE  Posts(d)'
<1>1. /\ Open(d) => Posts(d)
      /\ ~ Open(d) => HoldsNothing(d)
  BY DEF MovementsInv, Open, HoldsNothing
<1>2. Open(d) /\ request[d].op = "Consume" /\ phase[d] = "ready" =>
        queue[d] = <<>> /\ remaining[d] = 0
  BY <1>1 DEF Posts, PassesInOrder
<1>3. CASE UNCHANGED vars
  BY <1>1, <1>2, <1>3, PostsStays DEF vars, locks, tables, Open
<1>4. ASSUME NEW c \in Calls, Acts(c), c # d
      PROVE  Posts(d)'
  <2>1. Idle(d)
    BY <1>4, OthersIdle
  <2>2. \A b \in Batches : batchLock[b] = d /\ status[b] # "NONE" =>
          quantity'[b] = quantity[b]
    BY <1>4, QuantitiesHeld
  <2> QED
    BY <1>1, <1>2, <2>1, <2>2, PostsStays DEF Idle, Open
<1>5. CASE Acts(d)
  <2>1. request'[d] = request[d]
    BY <1>5, FirstStatement DEF Open
  <2>2. CASE request[d].op \notin {"Adjust", "Complete", "Consume"}
    BY <2>1, <2>2 DEF Posts
  <2>3. CASE ~ Open(d)
    <3>1. \/ QuarantineLock(d) \/ AdjustLock(d) \/ ConsumeQuery(d)
          \/ CreateCheck(d) \/ OrderLock(d)
      BY <1>5, <2>3, FirstStatement DEF Open
    <3>2. CASE QuarantineLock(d) \/ CreateCheck(d)
      BY <2>2, <3>2 DEF QuarantineLock, CreateCheck, At
    <3> QED
      BY <1>1, <2>3, <3>1, <3>2, PostsOfAdjust, PostsOfQuery, PostsOfOrderLock
  <2>4. CASE Open(d)
    <3>1. \/ CreateLink(d) \/ ConsumeLock(d) \/ ConsumeSettle(d)
          \/ CompleteItem(d) \/ CompleteActivate(d)
      BY <1>5, <2>4, NextStatement
    <3>2. CASE CreateLink(d)
      BY <2>2, <3>2 DEF CreateLink, At
    <3>3. CASE ConsumeSettle(d)
      <4>1. ~ Rollback(d, "refused")
        BY EndReleases DEF Rollback, Open, Finished
      <4>2. /\ queue[d] = <<>> /\ remaining[d] = 0
            /\ UNCHANGED <<tables, locks, request, queue, remaining, delta,
                           snapshot>>
        BY <3>3, <4>1 DEF ConsumeSettle
      <4> QED
        BY <1>1, <2>4, <4>2, PostsStays DEF locks, tables
    <3>4. CASE CompleteActivate(d)
      BY <1>1, <2>4, <3>4, PostsStays DEF CompleteActivate, At, tables
    <3> QED
      BY <1>1, <2>4, <3>1, <3>2, <3>3, <3>4, PostsOfLock, PostsOfItem
  <2> QED
    BY <2>3, <2>4
<1> QED
  BY <1>3, <1>4, <1>5 DEF Next, Acts

\* At the start nobody holds a row.
LEMMA InitMovements == Init => MovementsInv
  BY CallsAssumption DEF Init, MovementsInv

\* What every open transaction is about to post is what it was asked to, at
\* every moment and whatever the others do.
THEOREM MovementsInvariance == Spec => []MovementsInv
<1>1. InductiveInv /\ ExpiryInv /\ MovementsInv /\ [Next]_vars => MovementsInv'
  <2> SUFFICES ASSUME InductiveInv, ExpiryInv, MovementsInv, [Next]_vars
               PROVE  MovementsInv'
    OBVIOUS
  <2>1. Safe
    BY SafeIsInductiveInv
  <2>2. KeySharesOfCreates'
    BY <2>1, KeyShareStep DEF MovementsInv, KeySharesOfCreates
  <2>3. \A d \in Calls : Open(d)' => Posts(d)'
    BY <2>1, PostsStep
  <2>4. \A d \in Calls : ~ Open(d)' => HoldsNothing(d)'
    <3>1. \A d \in Calls : ~ Open(d) => HoldsNothing(d)
      BY DEF MovementsInv, Open, HoldsNothing
    <3> QED
      BY <2>1, <3>1, HoldsNothingStep
  <2> QED
    BY <2>2, <2>3, <2>4
       DEF MovementsInv, KeySharesOfCreates, Open, HoldsNothing
<1> QED
  BY <1>1, InitMovements, Invariance, ExpiryInvariance, PTL DEF Spec

-----------------------------------------------------------------------------
(* What a consumption removes.                                             *)

\* A consumption that takes effect does so in its commit.
LEMMA SaleCommits ==
  ASSUME Safe, [Next]_vars, NEW c \in Calls, Sells(c)
  PROVE  ConsumeCommit(c)
<1>1. phase[c] = "ready" /\ request[c].op = "Consume" /\ phase'[c] = "ok"
  BY DEF Sells, At
<1>2. PICK d \in Calls : Acts(d)
  BY <1>1 DEF vars, Next, Acts
<1>3. d = c
  BY <1>1, <1>2, OthersIdle DEF Idle
<1>4. ~ End(c, "failed") /\ ~ End(c, "refused")
  BY <1>1, EndReleases DEF Finished
<1> QED
  BY <1>1, <1>2, <1>3, <1>4
     DEF Acts, Begin, Statement, DeadlockVictim, Abort, Rollback, At,
         Receive, QuarantineLock, QuarantineCommit, AdjustReject, AdjustLock,
         AdjustCommit, ConsumeQuery, ConsumeLock, ConsumeSettle, CreateCheck,
         CreateLink, CreateCommit, OrderLock, StartCommit, CancelCommit,
         CompleteItem, CompleteActivate, CompleteCommit

\* Its commit changes the quantities as it has noted, and what it has noted is
\* in order and accounts for all that was asked.
LEMMA SaleFacts ==
  ASSUME Safe, MovementsInv, [Next]_vars, NEW c \in Calls, Sells(c)
  PROVE  /\ \A b \in Batches :
              /\ quantity[b] \in Int /\ delta[c][b] \in Int
              /\ quantity'[b] = quantity[b] + delta[c][b]
              /\ delta[c][b] # 0 => b \in Passed(c)
         /\ Passed(c) = snapshot[c] /\ snapshot[c] \subseteq Batches
         /\ \A b \in snapshot[c] : BatchProduct[b] = request[c].product
         /\ EmptiesInOrder(c)
         /\ SumFunction([b \in Batches |-> - delta[c][b]]) = request[c].quantity
<1>1. /\ ConsumeCommit(c) /\ phase[c] = "ready" /\ request[c].op = "Consume"
  BY SaleCommits DEF Sells, At
<1>2. /\ PassesInOrder(c) /\ EmptiesInOrder(c) /\ Accounted(c)
  BY <1>1 DEF MovementsInv, Posts
<1>3. \A b \in Batches :
        /\ quantity[b] \in Int /\ delta[c][b] \in Int
        /\ quantity'[b] = quantity[b] + delta[c][b]
  BY <1>1 DEF Safe, TypeOK, TablesTyped, CallsTyped, ConsumeCommit, Post
<1>4. \A b \in Batches : delta[c][b] # 0 => b \in Passed(c)
  BY <1>2, ChangedOnlyByHolder DEF PassesInOrder
<1>5. queue[c] = <<>> /\ remaining[c] = 0
  BY <1>1, <1>2 DEF PassesInOrder
<1>6. Passed(c) = snapshot[c] /\ snapshot[c] \subseteq Batches
  BY <1>5 DEF Safe, TypeOK, CallsTyped, Passed
<1>7. SumFunction([b \in Batches |-> - delta[c][b]]) = request[c].quantity
  <2> DEFINE f == [b \in Batches |-> - delta[c][b]]
  <2>1. SumFunctionOnSet(f, Batches) \in Int
    <3>1. \A b \in Batches : f[b] \in Int
      BY <1>3
    <3> QED
      BY <3>1, StockAssumption, SumInt
  <2>2. SumFunction(f) \in Int
    BY <2>1 DEF SumFunction
  <2>3. 0 + SumFunction(f) = request[c].quantity
    BY <1>2, <1>5 DEF Accounted
  <2> HIDE DEF f
  <2>4. SumFunction(f) = request[c].quantity
    BY <2>2, <2>3
  <2> QED
    BY <2>4 DEF f
<1> QED
  BY <1>2, <1>3, <1>4, <1>6, <1>7 DEF PassesInOrder

\* First expired, first out: when a consumption commits, every batch of its
\* snapshot that is still ACTIVE is empty before one that expires later lost
\* anything, whatever other calls did to these batches while it waited.
THEOREM SalesFollowExpirations == Spec => FEFORespected
<1>1. InductiveInv /\ MovementsInv /\ [Next]_vars =>
        [\A c \in Calls : Sells(c) =>
           \A b, d \in snapshot[c] :
             /\ Sooner(expiration[b], expiration[d]) /\ status[b] = "ACTIVE"
             /\ quantity'[d] < quantity[d]
             => quantity'[b] = 0
        ]_vars
  <2> SUFFICES ASSUME InductiveInv, MovementsInv, [Next]_vars,
                      NEW c \in Calls, Sells(c),
                      NEW b \in snapshot[c], NEW d \in snapshot[c],
                      Sooner(expiration[b], expiration[d]), status[b] = "ACTIVE",
                      quantity'[d] < quantity[d]
               PROVE  quantity'[b] = 0
    OBVIOUS
  <2>1. Safe
    BY SafeIsInductiveInv
  <2>2. /\ b \in Batches /\ d \in Batches
        /\ quantity[d] \in Int /\ delta[c][d] \in Int
        /\ quantity'[d] = quantity[d] + delta[c][d]
        /\ quantity'[b] = quantity[b] + delta[c][b]
        /\ b \in Passed(c) /\ d \in Passed(c) /\ EmptiesInOrder(c)
    BY <2>1, SaleFacts
  <2>3. delta[c][d] # 0
    BY <2>2
  <2> QED
    BY <2>2, <2>3 DEF EmptiesInOrder
<1> QED
  BY <1>1, Invariance, MovementsInvariance, PTL DEF Spec, FEFORespected

\* A consumption removes from the stock of its product exactly what was asked
\* for, however the rows changed while it waited for them.
THEOREM SalesAreExact == Spec => ConsumeIsExact
<1>1. InductiveInv /\ MovementsInv /\ [Next]_vars =>
        [\A c \in Calls : Sells(c) =>
           /\ SumFunction([b \in Batches |-> quantity[b] - quantity'[b]])
                = request[c].quantity
           /\ \A b \in Batches : quantity'[b] # quantity[b]
                => BatchProduct[b] = request[c].product
        ]_vars
  <2> SUFFICES ASSUME InductiveInv, MovementsInv, [Next]_vars,
                      NEW c \in Calls, Sells(c)
               PROVE  /\ SumFunction([b \in Batches |-> quantity[b] - quantity'[b]])
                           = request[c].quantity
                      /\ \A b \in Batches : quantity'[b] # quantity[b]
                           => BatchProduct[b] = request[c].product
    OBVIOUS
  <2>1. Safe
    BY SafeIsInductiveInv
  <2>2. \A b \in Batches :
          /\ quantity[b] \in Int /\ delta[c][b] \in Int
          /\ quantity'[b] = quantity[b] + delta[c][b]
          /\ delta[c][b] # 0 => b \in Passed(c)
    BY <2>1, SaleFacts
  <2>3. [b \in Batches |-> quantity[b] - quantity'[b]]
          = [b \in Batches |-> - delta[c][b]]
    BY <2>2
  <2>4. SumFunction([b \in Batches |-> quantity[b] - quantity'[b]])
          = request[c].quantity
    BY <2>1, <2>3, SaleFacts
  <2>5. \A b \in Batches : quantity'[b] # quantity[b]
          => BatchProduct[b] = request[c].product
    <3>1. /\ Passed(c) = snapshot[c]
          /\ \A b \in snapshot[c] : BatchProduct[b] = request[c].product
      BY <2>1, SaleFacts
    <3>2. \A b \in Batches : quantity'[b] # quantity[b] => delta[c][b] # 0
      BY <2>2
    <3> QED
      BY <2>2, <3>1, <3>2
  <2> QED
    BY <2>4, <2>5
<1> QED
  BY <1>1, Invariance, MovementsInvariance, PTL DEF Spec, ConsumeIsExact

-----------------------------------------------------------------------------
(* No cycle of consumptions.                                               *)

\* Sooner is a strict order of expirations; different ones are comparable.
LEMMA SoonerOrders ==
  ASSUME NEW e \in Expirations, NEW f \in Expirations, NEW g \in Expirations
  PROVE  /\ ~ Sooner(e, e)
         /\ Sooner(e, f) /\ Sooner(f, g) => Sooner(e, g)
         /\ e # f => Sooner(e, f) \/ Sooner(f, e)
  BY StockAssumption DEF Sooner, Expirations

\* A consumption that waits for another waits for a batch that the other has
\* passed; so what the other waits for expires later.
LEMMA WaitsForLater ==
  ASSUME Safe, MovementsInv, ~ \E b, d \in Batches : Tied(b, d),
         NEW c \in Calls, NEW d \in Calls, NEW e \in Calls,
         InTx(c), request[c].op = "Consume", WaitsFor(c, d),
         InTx(d), request[d].op = "Consume", WaitsFor(d, e)
  PROVE  LET b == Head(queue[c]).batch
             f == Head(queue[d]).batch
         IN  /\ b \in Batches /\ f \in Batches
             /\ Sooner(expiration[b], expiration[f])
<1> DEFINE b == Head(queue[c]).batch
           f == Head(queue[d]).batch
<1>1. ASSUME NEW a \in Calls, InTx(a), request[a].op = "Consume",
             NEW g \in Calls, WaitsFor(a, g)
      PROVE  /\ phase[a] = "fetching" /\ queue[a] # <<>>
             /\ Head(queue[a]).batch \in Batches
             /\ \/ batchLock[Head(queue[a]).batch] = g
                \/ g \in keyShare[Head(queue[a]).batch]
  BY <1>1, QueueHead DEF WaitsFor, At, Safe
<1>2. /\ phase[d] = "fetching" /\ queue[d] # <<>>
      /\ b \in Batches /\ f \in Batches
  BY <1>1
<1>3. batchLock[b] = d
  BY <1>1, <1>2 DEF MovementsInv
<1>4. PassesInOrder(d)
  BY <1>2 DEF MovementsInv, Posts
<1>5. b \in Passed(d) /\ b \in snapshot[d]
  BY <1>2, <1>3, <1>4 DEF PassesInOrder, Passed
<1>6. 1 \in DOMAIN queue[d] /\ f = queue[d][1].batch
  BY <1>2, QueueFirst DEF Safe
<1>7. f \in snapshot[d] /\ f # b /\ ~ Sooner(expiration[f], expiration[b])
  BY <1>4, <1>5, <1>6 DEF PassesInOrder, Passed
<1>8. /\ BatchProduct[b] = BatchProduct[f]
      /\ status[b] # "NONE" /\ status[f] # "NONE"
  BY <1>4, <1>5, <1>7 DEF PassesInOrder
<1>9. expiration[b] # expiration[f]
  BY <1>2, <1>7, <1>8 DEF Tied
<1>10. expiration[b] \in Expirations /\ expiration[f] \in Expirations
  BY <1>2 DEF Safe, TypeOK, TablesTyped
<1> QED
  BY <1>2, <1>7, <1>9, <1>10, SoonerOrders

\* The batches of a product are locked in one order, so consumptions never wait
\* for one another in a cycle, unless two batches expire together.
THEOREM ConsumptionsDoNotDeadlock == Spec => []ConsumesNeverDeadlock
<1>1. InductiveInv /\ MovementsInv => ConsumesNeverDeadlock
  <2> SUFFICES ASSUME Safe, MovementsInv, ~ \E b, d \in Batches : Tied(b, d),
                      NEW S \in SUBSET {c \in Calls :
                                  InTx(c) /\ request[c].op = "Consume"},
                      Deadlocked(S)
               PROVE  FALSE
    BY SafeIsInductiveInv DEF ConsumesNeverDeadlock
  <2> DEFINE next(c)  == Head(queue[c]).batch
             later(c) == {b \in Batches : Sooner(expiration[next(c)], expiration[b])}
             X        == {later(c) : c \in S}
  <2>1. /\ S # {} /\ \A c \in S : \E d \in S : WaitsFor(c, d)
        /\ \A c \in S : c \in Calls /\ InTx(c) /\ request[c].op = "Consume"
    BY DEF Deadlocked
  <2>2. ASSUME NEW c \in S, NEW d \in S, WaitsFor(c, d)
        PROVE  /\ next(c) \in Batches /\ next(d) \in Batches
               /\ Sooner(expiration[next(c)], expiration[next(d)])
    <3>1. PICK e \in S : WaitsFor(d, e)
      BY <2>1
    <3> QED
      BY <2>1, <2>2, <3>1, WaitsForLater
  <2> HIDE DEF next
  <2>3. PICK T \in X : \A U \in X : U \subseteq T => U = T
    <3>1. \A c \in S : later(c) \in SUBSET Batches
      OBVIOUS
    <3> HIDE DEF later
    <3>2. X \in SUBSET (SUBSET Batches) /\ X # {}
      BY <2>1, <3>1
    <3> HIDE DEF X
    <3> QED
      BY <3>2, StockAssumption, MinimalSubset
  <2>4. PICK c \in S : T = later(c)
    BY <2>3
  <2>5. PICK d \in S : WaitsFor(c, d)
    BY <2>1
  <2>6. /\ next(c) \in Batches /\ next(d) \in Batches
        /\ Sooner(expiration[next(c)], expiration[next(d)])
    BY <2>2, <2>5
  <2>7. \A b \in Batches : expiration[b] \in Expirations
    BY DEF Safe, TypeOK, TablesTyped
  <2>8. later(d) \subseteq later(c)
    BY <2>6, <2>7, SoonerOrders
  <2>9. later(d) = later(c)
    BY <2>3, <2>4, <2>8
  <2>10. next(d) \in later(c)
    BY <2>6
  <2>11. ~ Sooner(expiration[next(d)], expiration[next(d)])
    BY <2>6, <2>7, SoonerOrders
  <2> QED
    BY <2>9, <2>10, <2>11
<1> QED
  BY <1>1, Invariance, MovementsInvariance, PTL

-----------------------------------------------------------------------------
(* Every commit is one step of the inventory.                              *)

\* The inventory reads the vocabulary of the stock as the services do.
LEMMA SameVocabulary ==
  /\ Tables!Quantities = Quantities
  /\ Tables!InputProductTypes = InputProductTypes
  /\ \A e, f : Tables!Sooner(e, f) <=> Sooner(e, f)
  BY DEF Tables!Quantities, Quantities, Tables!InputProductTypes,
         InputProductTypes, Tables!Sooner, Sooner

\* It adds as they do.
LEMMA SameSum ==
  ASSUME NEW f
  PROVE  Tables!SumFunction(f) = SumFunction(f)
  BY DEF Tables!SumFunction, Tables!SumFunctionOnSet, Tables!FoldFunctionOnSet,
         Tables!MapThenFoldSet, SumFunction, SumFunctionOnSet, FoldFunctionOnSet,
         MapThenFoldSet

\* An addition of nothing to one entry of the ledger.
LEMMA NothingBooked ==
  ASSUME NEW m \in [TransactionTypes -> Int], NEW type \in TransactionTypes
  PROVE  [m EXCEPT ![type] = @ + 0] = m
<1>1. m[type] \in Int /\ m[type] + 0 = m[type]
  OBVIOUS
<1> QED
  BY <1>1

\* Receiving a lot is one step anyway.
LEMMA ReceiveImplements ==
  ASSUME Safe, NEW c \in Calls, Receive(c), ~ UNCHANGED tables
  PROVE  Tables!Receive(request[c])
<1>1. ~ Rollback(c, "refused")
  BY DEF Rollback
<1> QED
  BY <1>1 DEF Receive, Tables!Receive

\* A quarantine finds its batch ACTIVE still.
LEMMA QuarantineImplements ==
  ASSUME Safe, NEW c \in Calls, QuarantineCommit(c)
  PROVE  Tables!Quarantine(request[c])
  BY DEF Safe, CallSafe, QuarantineCommit, At, Tables!Quarantine

\* A correction posts the change that was asked, and it still fits.
LEMMA AdjustImplements ==
  ASSUME Safe, MovementsInv, NEW c \in Calls, AdjustCommit(c)
  PROVE  Tables!Adjust(request[c])
<1> DEFINE r == request[c]
<1>1. /\ phase[c] = "ready" /\ r.op = "Adjust"
      /\ r.batch \in Batches /\ r.change \in Int /\ r.change # 0
      /\ r.type \in TransactionTypes
  BY Running, RequestFields
     DEF Safe, AdjustCommit, At, InTx, AdjustRequests, TransactionTypes, Signed
<1>2. /\ r.type = "WASTE" => r.change < 0
      /\ \A b \in Batches : delta[c][b] = IF b = r.batch THEN r.change ELSE 0
  BY <1>1 DEF MovementsInv, Posts
<1>3. status[r.batch] # "NONE" /\ quantity[r.batch] + r.change \in Quantities
  BY <1>1, <1>2 DEF Safe, CallSafe
<1>4. /\ quantity \in [Batches -> Int]
      /\ ledger \in [Batches -> [TransactionTypes -> Int]]
      /\ quantity' = [b \in Batches |-> quantity[b] + delta[c][b]]
      /\ ledger' = [b \in Batches |-> [ledger[b] EXCEPT ![r.type] = @ + delta[c][b]]]
  BY DEF Safe, TypeOK, TablesTyped, AdjustCommit, Post
<1>5. quantity' = [quantity EXCEPT ![r.batch] = @ + r.change]
  <2>1. ASSUME NEW b \in Batches
        PROVE  quantity[b] + delta[c][b]
                 = IF b = r.batch THEN quantity[b] + r.change ELSE quantity[b]
    BY <1>1, <1>2, <1>4
  <2>2. [quantity EXCEPT ![r.batch] = @ + r.change]
          = [b \in Batches |->
               IF b = r.batch THEN quantity[b] + r.change ELSE quantity[b]]
    BY <1>1, <1>4
  <2> QED
    BY <1>4, <2>1, <2>2
<1>6. ledger' = [ledger EXCEPT ![r.batch][r.type] = @ + r.change]
  <2> DEFINE new == [ledger[r.batch] EXCEPT ![r.type] = @ + r.change]
  <2>1. ASSUME NEW b \in Batches
        PROVE  ledger'[b] = IF b = r.batch THEN new ELSE ledger[b]
    <3>1. CASE b = r.batch
      BY <1>2, <1>4, <3>1
    <3>2. CASE b # r.batch
      <4>1. ledger'[b] = [ledger[b] EXCEPT ![r.type] = @ + 0]
        BY <1>2, <1>4, <3>2
      <4> QED
        BY <1>1, <1>4, <3>2, <4>1, NothingBooked
    <3> QED
      BY <3>1, <3>2
  <2>2. [ledger EXCEPT ![r.batch] = new]
          = [b \in Batches |-> IF b = r.batch THEN new ELSE ledger[b]]
    BY <1>1, <1>4
  <2>3. [ledger EXCEPT ![r.batch][r.type] = @ + r.change]
          = [ledger EXCEPT ![r.batch] = new]
    OBVIOUS
  <2> HIDE DEF new
  <2>4. ledger' = [b \in Batches |-> ledger'[b]]
    BY <1>4
  <2> QED
    BY <2>1, <2>2, <2>3, <2>4
<1>7. UNCHANGED <<status, initial, expiration, orderStatus, outputOf, lineItems,
                  used>>
  BY DEF AdjustCommit
<1> QED
  BY <1>2, <1>3, <1>5, <1>6, <1>7, SameVocabulary, Zenon DEF Tables!Adjust

\* A new order is made of batches that exist still, and of the right kinds.
LEMMA CreateImplements ==
  ASSUME Safe, ExpiryInv, NEW c \in Calls, CreateCommit(c)
  PROVE  Tables!Create(request[c])
<1>1. phase[c] = "ready" /\ request[c].op = "Create"
  BY DEF CreateCommit, At
<1>2. /\ ProductType[request[c].product] = "FINISHED_GOOD"
      /\ \A i \in DOMAIN request[c].items :
           /\ status[request[c].items[i].batch] # "NONE"
           /\ ProductType[BatchProduct[request[c].items[i].batch]]
                \in InputProductTypes
  BY <1>1 DEF Safe, CallSafe, ExpiryInv, KindsApart
<1> DEFINE r == request[c]
           Inserts(b, o) ==
             /\ status[b] = "NONE" /\ BatchProduct[b] = r.product
             /\ orderStatus[o] = "NONE"
             /\ status'      = [status EXCEPT ![b] = "RESERVED"]
             /\ quantity'    = [quantity EXCEPT ![b] = r.quantity]
             /\ initial'     = [initial EXCEPT ![b] = r.quantity]
             /\ expiration'  = [expiration EXCEPT ![b] = r.expiration]
             /\ orderStatus' = [orderStatus EXCEPT ![o] = "PLANNED"]
             /\ outputOf'    = [outputOf EXCEPT ![o] = b]
             /\ lineItems'   = [lineItems EXCEPT ![o] = r.items]
             /\ used'        = [used EXCEPT ![o] = [i \in DOMAIN r.items |-> 0]]
<1>3. /\ \E b \in Batches, o \in Orders : Inserts(b, o)
      /\ UNCHANGED ledger
  BY DEF CreateCommit
<1> QED
  BY <1>2, <1>3, SameVocabulary, Zenon DEF Tables!Create

\* An order that starts or is cancelled is still in the status that was read.
LEMMA OrderImplements ==
  ASSUME Safe, NEW c \in Calls
  PROVE  /\ StartCommit(c) => Tables!Start(request[c])
         /\ CancelCommit(c) => Tables!Cancel(request[c])
  BY DEF Safe, CallSafe, StartCommit, CancelCommit, At, Allowed, Tables!Start,
         Tables!Cancel

\* A consumption draws on the batches of its snapshot that are ACTIVE still.
LEMMA ConsumeImplements ==
  ASSUME Safe, MovementsInv, [Next]_vars, NEW c \in Calls, ConsumeCommit(c)
  PROVE  Tables!Consume(request[c])
<1> DEFINE r    == request[c]
           S    == {b \in snapshot[c] : status[b] = "ACTIVE"}
           take == [b \in S |-> - delta[c][b]]
           f    == [b \in Batches |-> - delta[c][b]]
<1>1. Sells(c)
  BY EndReleases DEF ConsumeCommit, Sells, At, Finished
<1>2. /\ \A b \in Batches :
           /\ quantity[b] \in Int /\ delta[c][b] \in Int
           /\ quantity'[b] = quantity[b] + delta[c][b]
           /\ delta[c][b] # 0 => b \in Passed(c)
      /\ Passed(c) = snapshot[c] /\ snapshot[c] \subseteq Batches
      /\ \A b \in snapshot[c] : BatchProduct[b] = r.product
      /\ EmptiesInOrder(c)
      /\ SumFunction(f) = r.quantity
  BY <1>1, SaleFacts
<1>3. r.op = "Consume" /\ r.quantity \in Int
  BY Running, RequestFields
     DEF Safe, ConsumeCommit, At, InTx, ConsumeRequests, Positive
<1>4. /\ \A b \in Batches : delta[c][b] # 0 => b \in S
      /\ S \subseteq Batches /\ S \in SUBSET Tables!ActiveOf(r.product)
  BY <1>2, <1>3 DEF Safe, CallSafe, Tables!ActiveOf
<1>5. \A b \in Batches :
        delta[c][b] <= 0 /\ quantity[b] + delta[c][b] >= 0
  BY <1>2 DEF EmptiesInOrder, Safe, CallSafe, Quantities
<1>6. /\ \A b \in Batches : f[b] \in Nat /\ f[b] \in Int
      /\ \A b \in Batches \ S : f[b] = 0
      /\ \A b \in S : take[b] = f[b] /\ f[b] = - delta[c][b]
      /\ DOMAIN f = Batches /\ DOMAIN take = S
  BY <1>2, <1>4, <1>5
<1>7. SumFunctionOnSet(f, Batches) = r.quantity
  BY <1>2, <1>6 DEF SumFunction
<1> HIDE DEF S, f
<1>8. SumFunction(take) = r.quantity
  <2>1. IsFiniteSet(Batches) /\ IsFiniteSet(S)
    BY <1>4, StockAssumption, FS_Subset
  <2>2. SumFunctionOnSet(f, Batches) = SumFunctionOnSet(f, S)
    <3>1. S \in SUBSET Batches
      BY <1>4
    <3> QED
      BY <1>6, <2>1, <3>1, SumWithin
  <2>3. SumFunctionOnSet(take, S) = SumFunctionOnSet(f, S)
    <3> HIDE DEF take
    <3> QED
      BY <1>6, <2>1, SumSame
  <2> QED
    BY <1>6, <1>7, <2>2, <2>3 DEF SumFunction
<1>9. \A b \in S : take[b] \in 0 .. r.quantity /\ take[b] <= quantity[b]
  <2>1. ASSUME NEW b \in S
        PROVE  f[b] <= r.quantity
    BY <1>4, <1>6, <1>7, StockAssumption, SumPart
  <2>2. ASSUME NEW b \in S
        PROVE  /\ take[b] = f[b] /\ f[b] = - delta[c][b] /\ f[b] \in Nat
               /\ quantity[b] \in Int /\ delta[c][b] \in Int
               /\ quantity[b] + delta[c][b] >= 0
    BY <1>2, <1>4, <1>5, <1>6
  <2> HIDE DEF take
  <2> QED
    BY <1>3, <2>1, <2>2
<1>10. \A b, d \in S :
         Sooner(expiration[b], expiration[d]) /\ take[d] > 0 => take[b] = quantity[b]
  <2> SUFFICES ASSUME NEW b \in S, NEW d \in S,
                      Sooner(expiration[b], expiration[d]), take[d] > 0
               PROVE  take[b] = quantity[b]
    OBVIOUS
  <2>1. /\ b \in Passed(c) /\ d \in Passed(c) /\ status[b] = "ACTIVE"
        /\ b \in Batches /\ d \in Batches
    BY <1>2, <1>4 DEF S
  <2>2. delta[c][d] # 0
    BY <1>2, <2>1
  <2>3. quantity[b] + delta[c][b] = 0
    BY <1>2, <2>1, <2>2 DEF EmptiesInOrder
  <2> QED
    BY <1>2, <1>6, <2>1, <2>3, SMTT(20)
<1>11. take \in [S -> 0 .. r.quantity]
  BY <1>9
<1>12. quantity' = [b \in Batches |->
         IF b \in S THEN quantity[b] - take[b] ELSE quantity[b]]
  <2>1. ASSUME NEW b \in Batches
        PROVE  quantity[b] + delta[c][b]
                 = IF b \in S THEN quantity[b] - take[b] ELSE quantity[b]
    BY <1>2, <1>4
  <2> HIDE DEF take
  <2> QED
    BY <2>1 DEF ConsumeCommit, Post
<1>13. ledger' = [b \in Batches |->
         IF b \in S THEN [ledger[b] EXCEPT !["OUTGOING"] = @ - take[b]]
                    ELSE ledger[b]]
  <2>1. ledger' = [b \in Batches |->
                     [ledger[b] EXCEPT !["OUTGOING"] = @ + delta[c][b]]]
    BY DEF ConsumeCommit, Post
  <2>2. ASSUME NEW b \in Batches
        PROVE  [ledger[b] EXCEPT !["OUTGOING"] = @ + delta[c][b]]
                 = IF b \in S THEN [ledger[b] EXCEPT !["OUTGOING"] = @ - take[b]]
                              ELSE ledger[b]
    <3>1. /\ ledger[b] \in [TransactionTypes -> Int]
          /\ "OUTGOING" \in TransactionTypes
      BY DEF Safe, TypeOK, TablesTyped, TransactionTypes
    <3>2. ledger[b]["OUTGOING"] \in Int
      BY <3>1
    <3>3. CASE b \in S
      <4>1. ledger[b]["OUTGOING"] + delta[c][b] = ledger[b]["OUTGOING"] - take[b]
        BY <1>2, <3>2, <3>3
      <4> QED
        BY <3>3, <4>1
    <3>4. CASE b \notin S
      <4>1. delta[c][b] = 0
        BY <1>4, <3>4
      <4> QED
        BY <3>1, <3>4, <4>1, NothingBooked
    <3> QED
      BY <3>3, <3>4
  <2> HIDE DEF take
  <2> QED
    BY <2>1, <2>2
<1>14. UNCHANGED <<status, initial, expiration, orderStatus, outputOf, lineItems,
                   used>>
  BY DEF ConsumeCommit
<1> HIDE DEF take
<1>15. \A b \in S : take[b] <= quantity[b]
  BY <1>9
<1> QED
  BY <1>4, <1>8, <1>10, <1>11, <1>12, <1>13, <1>14, <1>15, SameSum,
     SameVocabulary, Zenon DEF Tables!Consume

\* A completion consumes what all line items require, and its output expires
\* with the earliest input.
LEMMA CompleteImplements ==
  ASSUME Safe, ExpiryInv, MovementsInv, NEW c \in Calls, CompleteCommit(c)
  PROVE  Tables!Complete(request[c])
<1> DEFINE o     == request[c].order
           items == lineItems[o]
           need(b) == Tables!Required(o, b)
<1>1. /\ phase[c] = "ready" /\ request[c].op = "Complete"
      /\ o \in Orders /\ orderStatus[o] = "IN_PROGRESS" /\ Exists(o)
      /\ items \in Seq(LineItems)
  BY CompletionItems DEF CompleteCommit, At
<1>2. Deducted(c) = DOMAIN items
  BY <1>1 DEF ExpiryInv, SoonestKnown, Deducted
<1>3. \A b \in Batches : delta[c][b] = - need(b)
  <2>1. \A b \in Batches : DeductedOf(c, b) = need(b)
    BY <1>2, SameSum DEF DeductedOf, Tables!Required
  <2>2. \A b \in Batches : delta[c][b] = - DeductedOf(c, b)
    BY <1>1 DEF MovementsInv, Posts
  <2> QED
    BY <2>1, <2>2
<1>4. \A b \in Batches : need(b) \in Int
  <2> TAKE b \in Batches
  <2> DEFINE lines == {i \in DOMAIN items : items[i].batch = b}
             f     == [i \in lines |-> items[i].quantity]
  <2>1. IsFiniteSet(lines)
    BY <1>1, DomainFinite, FS_Subset
  <2>2. \A i \in lines : f[i] \in Int
    BY <1>1, ItemFields DEF Positive
  <2>3. DOMAIN f = lines
    OBVIOUS
  <2>4. need(b) = SumFunction(f)
    BY SameSum DEF Tables!Required
  <2> HIDE DEF lines, f, need
  <2>5. SumFunctionOnSet(f, lines) \in Int
    BY <2>1, <2>2, SumInt
  <2> QED
    BY <2>3, <2>4, <2>5 DEF SumFunction
<1> HIDE DEF need
<1>5. \A b \in Batches :
        /\ quantity[b] \in Int /\ quantity[b] + delta[c][b] = quantity[b] - need(b)
        /\ need(b) <= quantity[b]
  BY <1>3, <1>4
     DEF Safe, TypeOK, TablesTyped, CallSafe, Quantities
<1>6. \A b \in Tables!Inputs(o) : b \in Batches
  BY <1>1, ItemFields DEF Tables!Inputs
<1>7. quantity' = [b \in Batches |-> quantity[b] - need(b)]
  BY <1>5 DEF CompleteCommit, Post
<1>8. ledger' = [b \in Batches |->
        [ledger[b] EXCEPT !["USED_IN_PRODUCTION"] = @ - need(b)]]
  <2>1. ASSUME NEW b \in Batches
        PROVE  [ledger[b] EXCEPT !["USED_IN_PRODUCTION"] = @ + delta[c][b]]
                 = [ledger[b] EXCEPT !["USED_IN_PRODUCTION"] = @ - need(b)]
    <3>1. ledger[b]["USED_IN_PRODUCTION"] \in Int
      BY DEF Safe, TypeOK, TablesTyped, TransactionTypes
    <3>2. ledger[b]["USED_IN_PRODUCTION"] + delta[c][b]
            = ledger[b]["USED_IN_PRODUCTION"] - need(b)
      BY <1>3, <1>4, <3>1
    <3> QED
      BY <3>2
  <2> QED
    BY <2>1 DEF CompleteCommit, Post
<1>9. used' = [used EXCEPT ![o] = [i \in DOMAIN items |-> 1]]
  <2>1. used[o] = [i \in DOMAIN items |-> 0]
    BY <1>1 DEF Safe, TablesSafe, InputsUsedOnce
  <2>2. [i \in DOMAIN used[o] |-> used[o][i] + 1] = [i \in DOMAIN items |-> 1]
    BY <2>1
  <2> QED
    BY <2>2 DEF CompleteCommit
<1>10. soonest[c] = Tables!EarliestInput(o)
  <2> DEFINE E == {expiration[b] : b \in Tables!Inputs(o)}
             first(e) == \A b \in Tables!Inputs(o) : ~ Sooner(expiration[b], e)
  <2>1. /\ \A i \in DOMAIN items :
             ~ Sooner(expiration[items[i].batch], soonest[c])
        /\ soonest[c] # Null =>
             \E i \in DOMAIN items : soonest[c] = expiration[items[i].batch]
    BY <1>1, <1>2 DEF ExpiryInv, SoonestKnown
  <2>2. 1 \in DOMAIN items
    BY <1>1 DEF ExpiryInv, KindsApart
  <2>3. soonest[c] = Null => expiration[items[1].batch] = Null
    BY <2>1, <2>2 DEF Sooner
  <2>4. soonest[c] \in E /\ first(soonest[c])
    BY <2>1, <2>2, <2>3 DEF Tables!Inputs
  <2>5. \A e \in E : e \in Expirations
    BY <1>6 DEF Safe, TypeOK, TablesTyped
  <2>6. ASSUME NEW e \in E, first(e) PROVE e = soonest[c]
    <3>1. ~ Sooner(soonest[c], e) /\ ~ Sooner(e, soonest[c])
      BY <2>4, <2>6
    <3> QED
      BY <2>4, <2>5, <3>1, SoonerOrders
  <2>7. Tables!EarliestInput(o) = CHOOSE e \in E : first(e)
    BY SameVocabulary DEF Tables!EarliestInput
  <2> HIDE DEF E, first
  <2> QED
    BY <2>4, <2>6, <2>7
<1>11. \A b \in Tables!Inputs(o) : need(b) <= quantity[b]
  BY <1>5, <1>6
<1>12. UNCHANGED <<initial, outputOf, lineItems>>
  BY DEF CompleteCommit
<1>13. /\ status'      = [status EXCEPT ![outputOf[o]] = "ACTIVE"]
       /\ expiration'  = [expiration EXCEPT ![outputOf[o]] = Tables!EarliestInput(o)]
       /\ orderStatus' = [orderStatus EXCEPT ![o] = "COMPLETED"]
  BY <1>10 DEF CompleteCommit
<1> QED
  BY <1>1, <1>7, <1>8, <1>9, <1>11, <1>12, <1>13 DEF Tables!Complete, need

\* Every step of a transaction is a whole request on the committed tables, or
\* changes nothing: however calls interleave, wait, fail and deadlock, what the
\* database shows is what requests handled one at a time would have left.
THEOREM ServicesImplementInventory == Spec => ImplementsInventory
<1>1. Init => Tables!Init
  BY DEF Init
<1>2. InductiveInv /\ ExpiryInv /\ MovementsInv /\ [Next]_vars =>
        [Tables!Next]_(Tables!tables)
  <2> SUFFICES ASSUME Safe, ExpiryInv, MovementsInv, [Next]_vars,
                      ~ UNCHANGED tables
               PROVE  Tables!Next
    BY SafeIsInductiveInv DEF tables, Tables!tables
  <2>1. PICK c \in Calls : Commits(c)
    BY OnlyCommitsChangeTables
  <2>2. phase[c] \in {"begun", "ready"}
    BY <2>1 DEF Commits, Receive, QuarantineCommit, AdjustCommit, ConsumeCommit,
                CreateCommit, StartCommit, CancelCommit, CompleteCommit, At
  <2>3. request[c] \in Menu
    BY <2>2, Running DEF Safe, InTx
  <2>4. Tables!Effect(request[c])
    <3> USE DEF Tables!Effect, At
    <3>1. CASE Receive(c)
      BY <3>1, ReceiveImplements DEF Receive
    <3>2. CASE QuarantineCommit(c)
      BY <3>2, QuarantineImplements DEF QuarantineCommit
    <3>3. CASE AdjustCommit(c)
      BY <3>3, AdjustImplements DEF AdjustCommit
    <3>4. CASE ConsumeCommit(c)
      BY <3>4, ConsumeImplements DEF ConsumeCommit
    <3>5. CASE CreateCommit(c)
      BY <3>5, CreateImplements DEF CreateCommit
    <3>6. CASE StartCommit(c) \/ CancelCommit(c)
      BY <3>6, OrderImplements DEF StartCommit, CancelCommit
    <3>7. CASE CompleteCommit(c)
      BY <3>7, CompleteImplements DEF CompleteCommit
    <3> QED
      BY <2>1, <3>1, <3>2, <3>3, <3>4, <3>5, <3>6, <3>7 DEF Commits
  <2> QED
    BY <2>3, <2>4 DEF Tables!Next
<1> QED
  BY <1>1, <1>2, Invariance, ExpiryInvariance, MovementsInvariance, PTL
     DEF Spec, ImplementsInventory, Tables!Spec
=============================================================================
