----------------------------- MODULE InventoryTx -----------------------------
(***************************************************************************)
(* The batch, inventory and production services as they run: each call is  *)
(* one PostgreSQL transaction (pgx.BeginFunc, READ COMMITTED) and a step   *)
(* is one statement group of it.  Rows read FOR UPDATE stay locked until   *)
(* the transaction ends; what a transaction writes stays private (delta,   *)
(* soonest) until its commit publishes it; an error, a lost connection, a  *)
(* panic or the deadlock detector rolls it back at any point.              *)
(*                                                                         *)
(* A client's retry is another call with the same request.                 *)
(*                                                                         *)
(* A definition whose comment begins with "Fault:" is a plausible bug in   *)
(* the definition that follows it.  It is used nowhere: it stands there to *)
(* show, put in the place of that definition, which property it breaks.    *)
(***************************************************************************)
EXTENDS Stock, FiniteSetsExt, SequencesExt

CONSTANTS
  Calls,   \* requests in flight, each handled by its own goroutine
  Nobody   \* the holder of a row no transaction has locked

ASSUME CallsAssumption == Nobody \notin Calls

VARIABLES
  \* committed tables
  status, quantity, initial, expiration, ledger,
  orderStatus, outputOf, lineItems, used,
  \* row locks of running transactions
  batchLock,   \* holder of the FOR UPDATE lock of a batch row
  orderLock,   \* holder of the FOR UPDATE lock of an order row
  keyShare,    \* transactions with a FOR KEY SHARE lock on a batch row
  \* private state of each call
  phase,       \* how far the call has come
  request,     \* what it was asked to do
  queue,       \* rows it still has to lock, in order
  remaining,   \* Consume: quantity not yet covered
  delta,       \* per batch, the uncommitted change of quantity_current
  soonest,     \* Complete: earliest expiration among the inputs locked so far
  snapshot     \* Consume: the batches its query found (kept for FEFORespected)

tables == <<status, quantity, initial, expiration, ledger, orderStatus,
            outputOf, lineItems, used>>
locks  == <<batchLock, orderLock, keyShare>>
vars   == <<tables, locks, phase, request, queue, remaining, delta, soonest,
            snapshot>>

\* The initial tables are the committed tables of a database in use.
Tables == INSTANCE Inventory

Finished == {"ok", "refused", "failed"}
Phases   == {"new", "begun", "fetching", "ready"} \cup Finished
InTx(c)  == phase[c] \in {"begun", "fetching", "ready"}

Init ==
  /\ Tables!Init
  /\ batchLock = [b \in Batches |-> Nobody]
  /\ orderLock = [o \in Orders |-> Nobody]
  /\ keyShare  = [b \in Batches |-> {}]
  /\ phase     = [c \in Calls |-> "new"]
  /\ request   = [c \in Calls |-> Null]
  /\ queue     = [c \in Calls |-> <<>>]
  /\ remaining = [c \in Calls |-> 0]
  /\ delta     = [c \in Calls |-> [b \in Batches |-> 0]]
  /\ soonest   = [c \in Calls |-> Null]
  /\ snapshot  = [c \in Calls |-> {}]

-----------------------------------------------------------------------------
(* Transactions and row locks.                                             *)

GoTo(c, p) == phase' = [phase EXCEPT ![c] = p]

\* BEGIN.
Begin(c) ==
  /\ phase[c] = "new"
  /\ phase' = [phase EXCEPT ![c] = "begun"]
  /\ \E r \in Menu : request' = [request EXCEPT ![c] = r]
  /\ UNCHANGED <<tables, locks, queue, remaining, delta, soonest, snapshot>>

\* COMMIT or ROLLBACK: the call is answered and its locks are released.
End(c, outcome) ==
  /\ phase'     = [phase EXCEPT ![c] = outcome]
  /\ batchLock' = [b \in Batches |->
                     IF batchLock[b] = c THEN Nobody ELSE batchLock[b]]
  /\ orderLock' = [o \in Orders |->
                     IF orderLock[o] = c THEN Nobody ELSE orderLock[o]]
  /\ keyShare'  = [b \in Batches |-> keyShare[b] \ {c}]
  /\ queue'     = [queue EXCEPT ![c] = <<>>]
  /\ remaining' = [remaining EXCEPT ![c] = 0]
  /\ delta'     = [delta EXCEPT ![c] = [b \in Batches |-> 0]]
  /\ soonest'   = [soonest EXCEPT ![c] = Null]
  /\ snapshot'  = [snapshot EXCEPT ![c] = {}]
  /\ UNCHANGED request

\* Fault: an early return forgets the transaction and leaves its locks behind.
RollbackLeaked(c, outcome) ==
  GoTo(c, outcome) /\ UNCHANGED <<tables, locks, request, queue, remaining,
                                  delta, soonest, snapshot>>

Rollback(c, outcome) == End(c, outcome) /\ UNCHANGED tables

\* Fault: the SELECT lacks its FOR UPDATE, so it waits for nobody.
FreeForUpdateUnlocked(c, b) == TRUE

\* FOR UPDATE conflicts with every other lock on the row; a plain UPDATE and
\* FOR KEY SHARE conflict only with a FOR UPDATE of another transaction.
FreeForUpdate(c, b) == batchLock[b] \in {c, Nobody} /\ keyShare[b] \subseteq {c}
FreeForWrite(c, b)  == batchLock[b] \in {c, Nobody}

LockBatch(c, b) ==
  /\ batchLock' = [batchLock EXCEPT ![b] = c]
  /\ UNCHANGED <<orderLock, keyShare>>

At(c, p, op) == phase[c] = p /\ request[c].op = op

\* Fault: the movement is booked without its minus sign.
PostUnsigned(c, type) ==
  /\ quantity' = [b \in Batches |-> quantity[b] + delta[c][b]]
  /\ ledger'   = [b \in Batches |->
                    [ledger[b] EXCEPT ![type] = @ - delta[c][b]]]

\* The rows a commit publishes: the new quantities, and their ledger rows.
Post(c, type) ==
  /\ quantity' = [b \in Batches |-> quantity[b] + delta[c][b]]
  /\ ledger'   = [b \in Batches |->
                    [ledger[b] EXCEPT ![type] = @ + delta[c][b]]]

-----------------------------------------------------------------------------
(* BatchService                                                            *)

\* Receive waits for no lock and its rows are visible to nobody before its
\* commit, so the whole transaction is one step.
Receive(c) ==
  LET r == request[c] IN
  /\ At(c, "begun", "Receive")
  /\ \/ /\ ProductType[r.product] # "PACKAGING" => r.expiration # Null
        /\ \E b \in Batches :
             /\ status[b] = "NONE" /\ BatchProduct[b] = r.product
             /\ status'     = [status EXCEPT ![b] = "ACTIVE"]
             /\ quantity'   = [quantity EXCEPT ![b] = r.quantity]
             /\ initial'    = [initial EXCEPT ![b] = r.quantity]
             /\ expiration' = [expiration EXCEPT ![b] = r.expiration]
             /\ ledger'     = [ledger EXCEPT ![b]["INCOMING"] = @ + r.quantity]
        /\ End(c, "ok")
        /\ UNCHANGED <<orderStatus, outputOf, lineItems, used>>
     \/ /\ ProductType[r.product] # "PACKAGING" /\ r.expiration = Null
        /\ Rollback(c, "refused")

QuarantineLock(c) ==
  LET b == request[c].batch IN
  /\ At(c, "begun", "Quarantine") /\ FreeForUpdate(c, b)
  /\ \/ /\ status[b] = "ACTIVE"
        /\ LockBatch(c, b) /\ GoTo(c, "ready")
        /\ UNCHANGED <<tables, request, queue, remaining, delta, soonest,
                       snapshot>>
     \/ status[b] # "ACTIVE" /\ Rollback(c, "refused")

QuarantineCommit(c) ==
  /\ At(c, "ready", "Quarantine")
  /\ status' = [status EXCEPT ![request[c].batch] = "QUARANTINED"]
  /\ End(c, "ok")
  /\ UNCHANGED <<quantity, initial, expiration, ledger, orderStatus, outputOf,
                 lineItems, used>>

-----------------------------------------------------------------------------
(* InventoryService                                                        *)

\* A WASTE that adds stock is refused before its transaction begins.
AdjustReject(c) ==
  /\ At(c, "begun", "Adjust")
  /\ request[c].type = "WASTE" /\ request[c].change > 0
  /\ Rollback(c, "refused")

\* The row is locked whatever its status.  A result beyond the column's range
\* is an error of the UPDATE (500), one below zero a refusal (409).
AdjustLock(c) ==
  LET r   == request[c]
      new == quantity[r.batch] + r.change
      bad == status[r.batch] = "NONE" \/ new < 0
  IN
  /\ At(c, "begun", "Adjust") /\ (r.type = "WASTE" => r.change < 0)
  /\ FreeForUpdate(c, r.batch)
  /\ \/ /\ ~ bad /\ new <= MaxQty
        /\ LockBatch(c, r.batch) /\ GoTo(c, "ready")
        /\ delta' = [delta EXCEPT ![c][r.batch] = r.change]
        /\ UNCHANGED <<tables, request, queue, remaining, soonest, snapshot>>
     \/ bad /\ Rollback(c, "refused")
     \/ ~ bad /\ new > MaxQty /\ Rollback(c, "failed")

AdjustCommit(c) ==
  /\ At(c, "ready", "Adjust")
  /\ Post(c, request[c].type)
  /\ End(c, "ok")
  /\ UNCHANGED <<status, initial, expiration, orderStatus, outputOf, lineItems,
                 used>>

ActiveOf(p) == {b \in Batches : BatchProduct[b] = p /\ status[b] = "ACTIVE"}

\* Fault: the query has no ORDER BY.
FEFOOrdersUnsorted(S) == SetToSeqs(S)

\* Fault: batches without an expiration come first (NULLS FIRST).
FEFOOrdersNullsFirst(S) ==
  {s \in SetToSeqs(S) : \A i, j \in DOMAIN s :
     i < j => expiration[s[i]] = Null
               \/ (expiration[s[j]] # Null
                    /\ expiration[s[i]] <= expiration[s[j]])}

\* The statement's snapshot, sorted once by expiration_date ASC NULLS LAST;
\* batches that expire together come in any order.
FEFOOrders(S) ==
  {s \in SetToSeqs(S) : \A i, j \in DOMAIN s :
     i < j => ~ Sooner(expiration[s[j]], expiration[s[i]])}

ConsumeQuery(c) ==
  LET S == ActiveOf(request[c].product) IN
  /\ At(c, "begun", "Consume")
  /\ GoTo(c, "fetching")
  /\ snapshot'  = [snapshot EXCEPT ![c] = S]
  /\ remaining' = [remaining EXCEPT ![c] = request[c].quantity]
  /\ \E s \in FEFOOrders(S) :
       queue' = [queue EXCEPT ![c] =
                   [i \in DOMAIN s |-> [batch |-> s[i], item |-> 0]]]
  /\ UNCHANGED <<tables, locks, request, delta, soonest>>

Lesser(m, n) == IF m < n THEN m ELSE n

\* Fault: what the query saw is trusted after the wait for the row.
ConsumeLockStale(c) ==
  LET b    == Head(queue[c]).batch
      take == Lesser(quantity[b], remaining[c])
  IN
  /\ At(c, "fetching", "Consume") /\ queue[c] # <<>>
  /\ FreeForUpdate(c, b) /\ LockBatch(c, b)
  /\ queue'     = [queue EXCEPT ![c] = Tail(@)]
  /\ remaining' = [remaining EXCEPT ![c] = @ - take]
  /\ delta'     = [delta EXCEPT ![c][b] = -take]
  /\ UNCHANGED <<tables, phase, request, soonest, snapshot>>

\* One row of SELECT ... FOR UPDATE: wait for the lock, then evaluate the
\* WHERE clause again on the newest version.  A row that is no longer ACTIVE is
\* not returned (its lock stays).  SelectFEFO's choice for a row depends only
\* on the rows before it, so it is made here.
ConsumeLock(c) ==
  LET b    == Head(queue[c]).batch
      take == IF status[b] = "ACTIVE" THEN Lesser(quantity[b], remaining[c])
                                      ELSE 0
  IN
  /\ At(c, "fetching", "Consume") /\ queue[c] # <<>>
  /\ FreeForUpdate(c, b) /\ LockBatch(c, b)
  /\ queue'     = [queue EXCEPT ![c] = Tail(@)]
  /\ remaining' = [remaining EXCEPT ![c] = @ - take]
  /\ delta'     = [delta EXCEPT ![c][b] = -take]
  /\ UNCHANGED <<tables, phase, request, soonest, snapshot>>

\* Fault: what could not be covered is forgotten.
ConsumeSettleShort(c) ==
  /\ At(c, "fetching", "Consume") /\ queue[c] = <<>>
  /\ GoTo(c, "ready")
  /\ UNCHANGED <<tables, locks, request, queue, remaining, delta, soonest,
                 snapshot>>

\* SelectFEFO's verdict.
ConsumeSettle(c) ==
  /\ At(c, "fetching", "Consume") /\ queue[c] = <<>>
  /\ \/ /\ remaining[c] = 0 /\ GoTo(c, "ready")
        /\ UNCHANGED <<tables, locks, request, queue, remaining, delta,
                       soonest, snapshot>>
     \/ remaining[c] > 0 /\ Rollback(c, "refused")

ConsumeCommit(c) ==
  /\ At(c, "ready", "Consume")
  /\ Post(c, "OUTGOING")
  /\ End(c, "ok")
  /\ UNCHANGED <<status, initial, expiration, orderStatus, outputOf, lineItems,
                 used>>

-----------------------------------------------------------------------------
(* ProductionOrderService                                                  *)

\* The checks read facts that never change once they hold: a committed batch
\* row, its product and the product's type.
CreateCheck(c) ==
  LET r  == request[c]
      ok == /\ ProductType[r.product] = "FINISHED_GOOD"
            /\ \A i \in DOMAIN r.items :
                 /\ status[r.items[i].batch] # "NONE"
                 /\ ProductType[BatchProduct[r.items[i].batch]]
                      \in InputProductTypes
  IN
  /\ At(c, "begun", "Create")
  /\ \/ /\ ok /\ GoTo(c, "fetching")
        /\ queue' = [queue EXCEPT ![c] = [i \in DOMAIN r.items |->
                       [batch |-> r.items[i].batch, item |-> i]]]
        /\ UNCHANGED <<tables, locks, request, remaining, delta, soonest,
                       snapshot>>
     \/ ~ ok /\ Rollback(c, "refused")

\* INSERT of a line item: its foreign key locks the input batch FOR KEY SHARE,
\* which waits for a transaction that holds the row FOR UPDATE.
CreateLink(c) ==
  LET b == Head(queue[c]).batch IN
  /\ At(c, "fetching", "Create") /\ queue[c] # <<>>
  /\ FreeForWrite(c, b)
  /\ keyShare' = [keyShare EXCEPT ![b] = @ \cup {c}]
  /\ queue' = [queue EXCEPT ![c] = Tail(@)]
  /\ GoTo(c, IF Tail(queue[c]) = <<>> THEN "ready" ELSE "fetching")
  /\ UNCHANGED <<tables, batchLock, orderLock, request, remaining, delta,
                 soonest, snapshot>>

CreateCommit(c) ==
  LET r == request[c] IN
  /\ At(c, "ready", "Create")
  /\ \E b \in Batches, o \in Orders :
       /\ status[b] = "NONE" /\ BatchProduct[b] = r.product
       /\ orderStatus[o] = "NONE"
       /\ status'      = [status EXCEPT ![b] = "RESERVED"]
       /\ quantity'    = [quantity EXCEPT ![b] = r.quantity]
       /\ initial'     = [initial EXCEPT ![b] = r.quantity]
       /\ expiration'  = [expiration EXCEPT ![b] = r.expiration]
       /\ orderStatus' = [orderStatus EXCEPT ![o] = "PLANNED"]
       /\ outputOf'    = [outputOf EXCEPT ![o] = b]
       /\ lineItems'   = [lineItems EXCEPT ![o] = r.items]
       /\ used'        = [used EXCEPT ![o] = [i \in DOMAIN r.items |-> 0]]
  /\ End(c, "ok")
  /\ UNCHANGED ledger

\* The status guard of Start, Cancel and Complete.
Allowed(op) ==
  {s \in {"PLANNED", "IN_PROGRESS"} :
     (op = "Start" => s = "PLANNED") /\ (op = "Complete" => s = "IN_PROGRESS")}

\* Fault: the order is read without FOR UPDATE.
OrderLockUnlocked(c) ==
  LET r == request[c]
      o == r.order
  IN
  /\ phase[c] = "begun" /\ r.op \in {"Start", "Cancel", "Complete"}
  /\ \/ /\ orderStatus[o] \in Allowed(r.op)
        /\ \/ r.op # "Complete" /\ GoTo(c, "ready") /\ UNCHANGED queue
           \/ /\ r.op = "Complete" /\ GoTo(c, "fetching")
              /\ \E s \in SetToSeqs(DOMAIN lineItems[o]) :
                   queue' = [queue EXCEPT ![c] = [i \in DOMAIN s |->
                     [batch |-> lineItems[o][s[i]].batch, item |-> s[i]]]]
        /\ UNCHANGED <<tables, locks, request, remaining, delta, soonest,
                       snapshot>>
     \/ orderStatus[o] \notin Allowed(r.op) /\ Rollback(c, "refused")

\* Lock the order row and check its status.  Complete then reads the line
\* items; the query has no ORDER BY, so they come in any order.
OrderLock(c) ==
  LET r == request[c]
      o == r.order
  IN
  /\ phase[c] = "begun" /\ r.op \in {"Start", "Cancel", "Complete"}
  /\ orderLock[o] \in {c, Nobody}
  /\ \/ /\ orderStatus[o] \in Allowed(r.op)
        /\ orderLock' = [orderLock EXCEPT ![o] = c]
        /\ \/ r.op # "Complete" /\ GoTo(c, "ready") /\ UNCHANGED queue
           \/ /\ r.op = "Complete" /\ GoTo(c, "fetching")
              /\ \E s \in SetToSeqs(DOMAIN lineItems[o]) :
                   queue' = [queue EXCEPT ![c] = [i \in DOMAIN s |->
                     [batch |-> lineItems[o][s[i]].batch, item |-> s[i]]]]
        /\ UNCHANGED <<tables, batchLock, keyShare, request, remaining, delta,
                       soonest, snapshot>>
     \/ orderStatus[o] \notin Allowed(r.op) /\ Rollback(c, "refused")

StartCommit(c) ==
  /\ At(c, "ready", "Start")
  /\ orderStatus' = [orderStatus EXCEPT ![request[c].order] = "IN_PROGRESS"]
  /\ End(c, "ok")
  /\ UNCHANGED <<status, quantity, initial, expiration, ledger, outputOf,
                 lineItems, used>>

CancelCommit(c) ==
  /\ At(c, "ready", "Cancel")
  /\ orderStatus' = [orderStatus EXCEPT ![request[c].order] = "CANCELLED"]
  /\ End(c, "ok")
  /\ UNCHANGED <<status, quantity, initial, expiration, ledger, outputOf,
                 lineItems, used>>

\* Fault: the need is compared with the committed stock, so a batch named
\* twice is promised twice.
CompleteItemBlind(c) ==
  LET o    == request[c].order
      b    == Head(queue[c]).batch
      need == lineItems[o][Head(queue[c]).item].quantity
  IN
  /\ At(c, "fetching", "Complete") /\ queue[c] # <<>>
  /\ FreeForUpdate(c, b)
  /\ \/ /\ need <= quantity[b]
        /\ LockBatch(c, b)
        /\ queue'   = [queue EXCEPT ![c] = Tail(@)]
        /\ delta'   = [delta EXCEPT ![c][b] = @ - need]
        /\ soonest' = [soonest EXCEPT ![c] = Earliest(expiration[b], @)]
        /\ UNCHANGED <<tables, phase, request, remaining, snapshot>>
     \/ quantity[b] < need /\ Rollback(c, "refused")

\* One round of Complete's loop: lock the input batch, deduct what the line
\* item needs, remember the earliest expiration.  The status of the batch is
\* not looked at, and a batch named twice is seen with the first deduction.
CompleteItem(c) ==
  LET o    == request[c].order
      b    == Head(queue[c]).batch
      need == lineItems[o][Head(queue[c]).item].quantity
      left == quantity[b] + delta[c][b]
  IN
  /\ At(c, "fetching", "Complete") /\ queue[c] # <<>>
  /\ FreeForUpdate(c, b)
  /\ \/ /\ need <= left
        /\ LockBatch(c, b)
        /\ queue'   = [queue EXCEPT ![c] = Tail(@)]
        /\ delta'   = [delta EXCEPT ![c][b] = @ - need]
        /\ soonest' = [soonest EXCEPT ![c] = Earliest(expiration[b], @)]
        /\ UNCHANGED <<tables, phase, request, remaining, snapshot>>
     \/ left < need /\ Rollback(c, "refused")

\* UPDATE of the output batch (ActivateProductionOutput).
CompleteActivate(c) ==
  LET b == outputOf[request[c].order] IN
  /\ At(c, "fetching", "Complete") /\ queue[c] = <<>>
  /\ FreeForWrite(c, b) /\ LockBatch(c, b)
  /\ GoTo(c, "ready")
  /\ UNCHANGED <<tables, request, queue, remaining, delta, soonest, snapshot>>

CompleteCommit(c) ==
  LET o == request[c].order IN
  /\ At(c, "ready", "Complete")
  /\ Post(c, "USED_IN_PRODUCTION")
  /\ used'        = [used EXCEPT ![o] = [i \in DOMAIN @ |-> @[i] + 1]]
  /\ status'      = [status EXCEPT ![outputOf[o]] = "ACTIVE"]
  /\ expiration'  = [expiration EXCEPT ![outputOf[o]] = soonest[c]]
  /\ orderStatus' = [orderStatus EXCEPT ![o] = "COMPLETED"]
  /\ End(c, "ok")
  /\ UNCHANGED <<initial, outputOf, lineItems>>

-----------------------------------------------------------------------------
(* Failure and scheduling                                                  *)

\* Any statement may fail: the client goes away, the connection or the process
\* dies, the handler panics.  BeginFunc or the server rolls back.
Abort(c) == InTx(c) /\ Rollback(c, "failed")

\* The row c waits for is locked by d.
WaitsFor(c, d) ==
  /\ c # d
  /\ \/ /\ phase[c] = "begun" /\ request[c].op \in {"Quarantine", "Adjust"}
        /\ \/ batchLock[request[c].batch] = d
           \/ d \in keyShare[request[c].batch]
     \/ /\ phase[c] = "begun"
        /\ request[c].op \in {"Start", "Cancel", "Complete"}
        /\ orderLock[request[c].order] = d
     \/ /\ phase[c] = "fetching" /\ queue[c] # <<>>
        /\ \/ batchLock[Head(queue[c]).batch] = d
           \/ d \in keyShare[Head(queue[c]).batch] /\ request[c].op # "Create"
     \/ /\ At(c, "fetching", "Complete") /\ queue[c] = <<>>
        /\ batchLock[outputOf[request[c].order]] = d

\* Calls that all wait for one another.
Deadlocked(S) == S # {} /\ \A c \in S : \E d \in S : WaitsFor(c, d)

\* PostgreSQL ends a cycle of waiting transactions by failing one of them.
DeadlockVictim(c) ==
  /\ \E S \in SUBSET Calls :
       /\ c \in S /\ Deadlocked(S)
       /\ \A R \in SUBSET S : R # S => ~ Deadlocked(R)
  /\ Rollback(c, "failed")

\* The statements of a call, in whatever service it runs.
Statement(c) ==
  \/ Receive(c)
  \/ QuarantineLock(c) \/ QuarantineCommit(c)
  \/ AdjustReject(c) \/ AdjustLock(c) \/ AdjustCommit(c)
  \/ ConsumeQuery(c) \/ ConsumeLock(c) \/ ConsumeSettle(c) \/ ConsumeCommit(c)
  \/ CreateCheck(c) \/ CreateLink(c) \/ CreateCommit(c)
  \/ OrderLock(c) \/ StartCommit(c) \/ CancelCommit(c)
  \/ CompleteItem(c) \/ CompleteActivate(c) \/ CompleteCommit(c)

Next ==
  \E c \in Calls : Begin(c) \/ Statement(c) \/ DeadlockVictim(c) \/ Abort(c)

Spec == Init /\ [][Next]_vars

\* A goroutine that can run its next statement does so, and the deadlock
\* detector runs.  Nothing makes clients send requests or failures happen.
Fairness ==
  \A c \in Calls : WF_vars(Statement(c)) /\ WF_vars(DeadlockVictim(c))

FairSpec == Spec /\ Fairness
-----------------------------------------------------------------------------
(* Invariants                                                              *)

TablesTyped ==
  /\ status      \in [Batches -> BatchStatus]
  /\ quantity    \in [Batches -> Int]
  /\ initial     \in [Batches -> Int]
  /\ expiration  \in [Batches -> Expirations]
  /\ ledger      \in [Batches -> [TransactionTypes -> Int]]
  /\ orderStatus \in [Orders -> OrderStatus]
  /\ outputOf    \in [Orders -> Batches]
  /\ lineItems   \in [Orders -> Seq(LineItems)]
  /\ used        \in [Orders -> Seq(Nat)]

CallsTyped ==
  /\ batchLock \in [Batches -> Calls \cup {Nobody}]
  /\ orderLock \in [Orders -> Calls \cup {Nobody}]
  /\ keyShare  \in [Batches -> SUBSET Calls]
  /\ phase     \in [Calls -> Phases]
  /\ request   \in [Calls -> Menu \cup {Null}]
  /\ \A c \in Calls : phase[c] # "new" => request[c] \in Menu
  /\ queue     \in [Calls -> Seq([batch : Batches, item : Nat])]
  /\ remaining \in [Calls -> Int]
  /\ delta     \in [Calls -> [Batches -> Int]]
  /\ soonest   \in [Calls -> Expirations]
  /\ snapshot  \in [Calls -> SUBSET Batches]

\* Every row and every call is well formed at all times.
TypeOK == TablesTyped /\ CallsTyped

Exists(o)   == orderStatus[o] # "NONE"
Produced(b) == \E o \in Orders : Exists(o) /\ outputOf[o] = b

\* No interleaving makes a transaction promise stock that is not there: what
\* every open transaction has deducted or added still fits its batch, so the
\* check made in Go when the row was locked is good at the commit, and the
\* CHECK (quantity_current >= 0) and the column's range never decide anything.
StockCovered ==
  \A b \in Batches :
    /\ quantity[b] \in Quantities
    /\ \A c \in Calls : quantity[b] + delta[c][b] \in Quantities

\* The ledger explains the stock: the quantity of a batch is what it was
\* created with plus its movements.  A received lot is created by its INCOMING
\* row, a production output by the order.
LedgerBalance ==
  \A b \in Batches : status[b] # "NONE" =>
    quantity[b] = Booked(ledger[b]) + IF Produced(b) THEN initial[b] ELSE 0

\* The output batch mirrors its order: RESERVED until the order is COMPLETED,
\* for ever if it is CANCELLED, and no two orders share an output.
OutputMirrorsOrder ==
  \A o \in Orders : Exists(o) =>
    /\ status[outputOf[o]] \in
         IF orderStatus[o] = "COMPLETED" THEN {"ACTIVE", "QUARANTINED"}
                                         ELSE {"RESERVED"}
    /\ \A q \in Orders \ {o} : Exists(q) => outputOf[q] # outputOf[o]

\* An order's inputs are consumed exactly once, by the completion that closed
\* it: each line item has one USED_IN_PRODUCTION row if the order is
\* COMPLETED and none otherwise, however many completions were attempted.
InputsUsedOnce ==
  \A o \in Orders : Exists(o) =>
    used[o] = [i \in DOMAIN lineItems[o] |->
                 IF orderStatus[o] = "COMPLETED" THEN 1 ELSE 0]

\* What the transactions rely on from one statement to the next.  A call that
\* has changed a row holds its lock, the row exists, and what it sells is still
\* sellable.
ChangesAreLocked ==
  \A c \in Calls, b \in Batches : delta[c][b] # 0 =>
    /\ InTx(c)
    /\ batchLock[b] = c
    /\ status[b] # "NONE"
    /\ request[c].op = "Consume" => status[b] = "ACTIVE"

\* The status guard of an order or a batch, once passed, stays true: the row is
\* locked.
GuardsHold ==
  \A c \in Calls : phase[c] \in {"fetching", "ready"} =>
    /\ request[c].op \in {"Start", "Cancel", "Complete"} =>
         /\ orderLock[request[c].order] = c
         /\ orderStatus[request[c].order] \in Allowed(request[c].op)
    /\ request[c].op = "Quarantine" =>
         batchLock[request[c].batch] = c /\ status[request[c].batch] = "ACTIVE"

\* What Complete still has to lock are line items of its order.
InputsQueued ==
  \A c \in Calls : At(c, "fetching", "Complete") =>
    \A i \in DOMAIN queue[c] :
      LET items == lineItems[request[c].order] IN
      /\ queue[c][i].item \in DOMAIN items
      /\ queue[c][i].batch = items[queue[c][i].item].batch

\* Line items, inserted or about to be, name batches that exist.
InputsExist ==
  /\ \A o \in Orders : Exists(o) =>
       \A i \in DOMAIN lineItems[o] : status[lineItems[o][i].batch] # "NONE"
  /\ \A c \in Calls :
       phase[c] \in {"fetching", "ready"} /\ request[c].op = "Create" =>
         \A i \in DOMAIN request[c].items :
           status[request[c].items[i].batch] # "NONE"

\* Rows not inserted yet have no history.
UnusedRows ==
  \A b \in Batches :
    status[b] = "NONE" => Booked(ledger[b]) = 0 /\ ~ Produced(b)

\* The invariant that every step preserves, whatever the constants are.
InductiveInv ==
  /\ TypeOK
  /\ \A c \in Calls : remaining[c] >= 0
  /\ ChangesAreLocked
  /\ GuardsHold
  /\ InputsQueued
  /\ InputsExist
  /\ UnusedRows
  /\ StockCovered
  /\ LedgerBalance
  /\ InputsUsedOnce
  /\ OutputMirrorsOrder

\* The output of a completed order expires with the first of its inputs, and
\* only when no input expires does it not expire.
OutputExpiresWithInputs ==
  \A o \in Orders : orderStatus[o] = "COMPLETED" =>
    /\ expiration[outputOf[o]] \in
         {expiration[lineItems[o][i].batch] : i \in DOMAIN lineItems[o]}
    /\ \A i \in DOMAIN lineItems[o] :
         ~ Sooner(expiration[lineItems[o][i].batch], expiration[outputOf[o]])

\* No output is an input: they are of different types of product.
KindsApart ==
  /\ \A o \in Orders : Exists(o) =>
       /\ ProductType[BatchProduct[outputOf[o]]] = "FINISHED_GOOD"
       /\ lineItems[o] # <<>>
       /\ \A i \in DOMAIN lineItems[o] :
            ProductType[BatchProduct[lineItems[o][i].batch]] \in InputProductTypes
  /\ \A c \in Calls :
       phase[c] \in {"fetching", "ready"} /\ request[c].op = "Create" =>
         /\ ProductType[request[c].product] = "FINISHED_GOOD"
         /\ \A i \in DOMAIN request[c].items :
              ProductType[BatchProduct[request[c].items[i].batch]]
                \in InputProductTypes

\* The line items a completion has deducted.
Deducted(c) ==
  {i \in DOMAIN lineItems[request[c].order] :
     \A k \in DOMAIN queue[c] : queue[c][k].item # i}

\* A completion meets each line item once, and what it remembers is the
\* earliest expiration among those it has deducted.
SoonestKnown(c) ==
  LET expires(i) == expiration[lineItems[request[c].order][i].batch] IN
  /\ phase[c] \in {"new", "begun"} => soonest[c] = Null
  /\ phase[c] \in {"fetching", "ready"} /\ request[c].op = "Complete" =>
       /\ phase[c] = "ready" => queue[c] = <<>>
       /\ \A j, k \in DOMAIN queue[c] :
            j # k => queue[c][j].item # queue[c][k].item
       /\ \A i \in Deducted(c) : ~ Sooner(expires(i), soonest[c])
       /\ soonest[c] # Null => \E i \in Deducted(c) : soonest[c] = expires(i)

\* What makes OutputExpiresWithInputs inductive: the expirations that a
\* completion has read do not change under it, nor afterwards.
ExpiryInv ==
  /\ KindsApart
  /\ \A c \in Calls : SoonestKnown(c)
  /\ OutputExpiresWithInputs

\* ORDER BY expiration_date fixes the order of a product's batches only when no
\* two of them expire together.
Tied(b, d) ==
  /\ b # d /\ BatchProduct[b] = BatchProduct[d]
  /\ status[b] # "NONE" /\ status[d] # "NONE"
  /\ expiration[b] = expiration[d]

\* Consumes lock the batches of a product in one order, the order of their
\* expirations, so without a production call among them they never wait for
\* one another in a cycle - unless two batches expire together.
ConsumesNeverDeadlock ==
  (\E b, d \in Batches : Tied(b, d))
    \/ \A S \in SUBSET {c \in Calls : InTx(c) /\ request[c].op = "Consume"} :
         ~ Deadlocked(S)

\* The batches of its snapshot that a consumption has locked.
Passed(c) ==
  {b \in snapshot[c] : \A k \in DOMAIN queue[c] : queue[c][k].batch # b}

\* A consumption goes through the batches of its snapshot in the order of their
\* expirations, which nothing changes; those it has passed it holds, and no
\* other row.
PassesInOrder(c) ==
  LET next(k) == queue[c][k].batch IN
  /\ \A b \in snapshot[c] :
       /\ BatchProduct[b] = request[c].product
       /\ status[b] \in {"ACTIVE", "QUARANTINED"}
  /\ \A k \in DOMAIN queue[c] :
       /\ next(k) \in snapshot[c]
       /\ \A b \in Passed(c) : ~ Sooner(expiration[next(k)], expiration[b])
  /\ \A j, k \in DOMAIN queue[c] : j < k =>
       next(j) # next(k) /\ ~ Sooner(expiration[next(k)], expiration[next(j)])
  /\ \A b \in Batches : batchLock[b] = c <=> b \in Passed(c)
  /\ phase[c] = "ready" => queue[c] = <<>> /\ remaining[c] = 0

\* It has emptied the sellable batches it has passed before it takes from one
\* that expires later, and all of them while something remains to be covered.
EmptiesInOrder(c) ==
  \A b \in Passed(c) :
    /\ delta[c][b] <= 0
    /\ status[b] = "ACTIVE" /\ quantity[b] + delta[c][b] # 0 =>
         /\ remaining[c] = 0
         /\ \A d \in Passed(c) :
              Sooner(expiration[b], expiration[d]) => delta[c][d] = 0

\* What it has deducted and what remains add up to what was asked for.
Accounted(c) ==
  remaining[c] + SumFunction([b \in Batches |-> - delta[c][b]])
    = request[c].quantity

\* What a completion has deducted from batch b, over the line items it has met.
DeductedOf(c, b) ==
  LET items == lineItems[request[c].order]
      met   == {i \in Deducted(c) : items[i].batch = b}
  IN  SumFunction([i \in met |-> items[i].quantity])

\* What an open transaction is about to post is what it was asked to: the
\* change of a correction, the line items of a completion, a sale in the order
\* of the expirations.
Posts(c) ==
  /\ request[c].op = "Adjust" =>
       /\ request[c].type = "WASTE" => request[c].change < 0
       /\ \A b \in Batches :
            delta[c][b] = IF b = request[c].batch THEN request[c].change ELSE 0
  /\ request[c].op = "Complete" =>
       \A b \in Batches : delta[c][b] = - DeductedOf(c, b)
  /\ request[c].op = "Consume" =>
       PassesInOrder(c) /\ EmptiesInOrder(c) /\ Accounted(c)

\* What makes FEFORespected, ConsumeIsExact, ConsumesNeverDeadlock and
\* ImplementsInventory hold: only new orders hold the weaker lock, a call
\* holds no batch before its first statement nor after its answer, and in
\* between its changes are those of its request.
MovementsInv ==
  /\ \A b \in Batches : \A c \in keyShare[b] :
       InTx(c) /\ request[c].op = "Create"
  /\ \A c \in Calls :
       IF phase[c] \in {"fetching", "ready"}
         THEN Posts(c)
         ELSE \A b \in Batches : batchLock[b] # c

-----------------------------------------------------------------------------
(* Action properties                                                       *)

\* Stock is sold from a batch only in a step that finds it ACTIVE: neither a
\* RESERVED output nor a batch quarantined while the request was waiting.
SoldOnlyWhileActive ==
  [][\A b \in Batches :
       ledger'[b]["OUTGOING"] # ledger[b]["OUTGOING"] => status[b] = "ACTIVE"
    ]_vars

\* c's consumption takes effect in this step.
Sells(c) == At(c, "ready", "Consume") /\ phase'[c] = "ok"

\* A consumption removes exactly the requested quantity from the stock of the
\* product, whatever happened to its batches while it waited for them.
ConsumeIsExact ==
  [][\A c \in Calls : Sells(c) =>
       /\ SumFunction([b \in Batches |-> quantity[b] - quantity'[b]])
            = request[c].quantity
       /\ \A b \in Batches : quantity'[b] # quantity[b]
            => BatchProduct[b] = request[c].product
    ]_vars

\* First expired, first out at the commit: of the batches its query found, a
\* consumption takes from one only if those still ACTIVE that expire sooner
\* are empty afterwards.
FEFORespected ==
  [][\A c \in Calls : Sells(c) =>
       \A b, d \in snapshot[c] :
         /\ Sooner(expiration[b], expiration[d]) /\ status[b] = "ACTIVE"
         /\ quantity'[d] < quantity[d]
         => quantity'[b] = 0
    ]_vars

\* Orders and batches only move forward, each transition once, even when
\* several calls read the same status: a cancelled order is never completed, a
\* completed one never cancelled, a quarantined batch never sellable again.
LifecyclesRespected ==
  [][/\ \A o \in Orders : orderStatus'[o] # orderStatus[o] =>
          <<orderStatus[o], orderStatus'[o]>> \in
            {<<"NONE", "PLANNED">>, <<"PLANNED", "IN_PROGRESS">>,
             <<"PLANNED", "CANCELLED">>, <<"IN_PROGRESS", "CANCELLED">>,
             <<"IN_PROGRESS", "COMPLETED">>}
     /\ \A b \in Batches : status'[b] # status[b] =>
          <<status[b], status'[b]>> \in
            {<<"NONE", "ACTIVE">>, <<"NONE", "RESERVED">>,
             <<"RESERVED", "ACTIVE">>, <<"ACTIVE", "QUARANTINED">>}
    ]_vars

\* The services implement the atomic inventory: every step of a transaction is
\* a whole request on the committed tables, or changes nothing.
ImplementsInventory == Tables!Spec

-----------------------------------------------------------------------------
(* Liveness                                                                *)

\* Every call that reached the database is answered: no wait for a row lock,
\* nor a cycle of them, lasts for ever.
EveryCallAnswered ==
  \A c \in Calls : InTx(c) ~> phase[c] \in Finished

=============================================================================
