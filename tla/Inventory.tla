------------------------------ MODULE Inventory ------------------------------
(***************************************************************************)
(* What the inventory promises: every request of the batch, inventory and  *)
(* production services takes effect in one indivisible step on the         *)
(* committed tables, or has no effect at all (a refused or failed request  *)
(* is a stuttering step).  Module InventoryTx, which splits the requests   *)
(* into the SQL statements the services send, is shown to implement it.    *)
(***************************************************************************)
EXTENDS Stock, Functions

VARIABLES
  status,       \* inventory_batches.status
  quantity,     \* inventory_batches.quantity_current
  initial,      \* inventory_batches.quantity_initial
  expiration,   \* inventory_batches.expiration_date
  ledger,       \* per batch and type, the sum of stock_transactions rows
  orderStatus,  \* production_orders.status
  outputOf,     \* production_orders.output_batch_id
  lineItems,    \* production_order_line_items of an order, as inserted
  used          \* per line item, its USED_IN_PRODUCTION rows

tables == <<status, quantity, initial, expiration, ledger, orderStatus,
            outputOf, lineItems, used>>

Init ==
  /\ status      = Seed.status
  /\ quantity    = Seed.quantity
  /\ initial     = Seed.quantity
  /\ expiration  = Seed.expiration
  /\ ledger      = Seed.ledger
  /\ orderStatus = Seed.orderStatus
  /\ outputOf    = Seed.outputOf
  /\ lineItems   = Seed.lineItems
  /\ used        = Seed.used

ActiveOf(p) == {b \in Batches : BatchProduct[b] = p /\ status[b] = "ACTIVE"}

-----------------------------------------------------------------------------
\* A lot arrives: a new ACTIVE batch and its INCOMING row.
Receive(r) ==
  /\ ProductType[r.product] # "PACKAGING" => r.expiration # Null
  /\ \E b \in Batches :
       /\ status[b] = "NONE" /\ BatchProduct[b] = r.product
       /\ status'     = [status EXCEPT ![b] = "ACTIVE"]
       /\ quantity'   = [quantity EXCEPT ![b] = r.quantity]
       /\ initial'    = [initial EXCEPT ![b] = r.quantity]
       /\ expiration' = [expiration EXCEPT ![b] = r.expiration]
       /\ ledger'     = [ledger EXCEPT ![b]["INCOMING"] = @ + r.quantity]
  /\ UNCHANGED <<orderStatus, outputOf, lineItems, used>>

Quarantine(r) ==
  /\ status[r.batch] = "ACTIVE"
  /\ status' = [status EXCEPT ![r.batch] = "QUARANTINED"]
  /\ UNCHANGED <<quantity, initial, expiration, ledger, orderStatus, outputOf,
                 lineItems, used>>

\* A signed correction of any existing batch, whatever its status.
Adjust(r) ==
  /\ status[r.batch] # "NONE"
  /\ r.type = "WASTE" => r.change < 0
  /\ quantity[r.batch] + r.change \in Quantities
  /\ quantity' = [quantity EXCEPT ![r.batch] = @ + r.change]
  /\ ledger'   = [ledger EXCEPT ![r.batch][r.type] = @ + r.change]
  /\ UNCHANGED <<status, initial, expiration, orderStatus, outputOf, lineItems,
                 used>>

\* Stock leaves the warehouse.  The request draws on the batches it could see,
\* a set S of the ACTIVE batches of the product; among them no batch is
\* touched while one that expires sooner still holds stock.
Consume(r) ==
  /\ \E S \in SUBSET ActiveOf(r.product) :
       \E take \in [S -> 0 .. r.quantity] :
         /\ \A b \in S : take[b] <= quantity[b]
         /\ SumFunction(take) = r.quantity
         /\ \A b, c \in S :
              Sooner(expiration[b], expiration[c]) /\ take[c] > 0
                => take[b] = quantity[b]
         /\ quantity' = [b \in Batches |->
              IF b \in S THEN quantity[b] - take[b] ELSE quantity[b]]
         /\ ledger' = [b \in Batches |->
              IF b \in S THEN [ledger[b] EXCEPT !["OUTGOING"] = @ - take[b]]
                         ELSE ledger[b]]
  /\ UNCHANGED <<status, initial, expiration, orderStatus, outputOf, lineItems,
                 used>>

\* An order is planned: a RESERVED output batch, the order and its line items.
Create(r) ==
  /\ ProductType[r.product] = "FINISHED_GOOD"
  /\ \A i \in DOMAIN r.items :
       /\ status[r.items[i].batch] # "NONE"
       /\ ProductType[BatchProduct[r.items[i].batch]] \in InputProductTypes
  /\ \E b \in Batches, o \in Orders :
       /\ status[b] = "NONE" /\ BatchProduct[b] = r.product
       /\ orderStatus[o] = "NONE"
       /\ status'      = [status EXCEPT ![b] = "RESERVED"]
       /\ quantity'    = [quantity EXCEPT ![b] = r.quantity]
       /\ initial'     = [initial EXCEPT ![b] = r.quantity]
       /\ expiration'  = [expiration EXCEPT ![b] = r.expiration]
       /\ orderStatus' = [orderStatus EXCEPT ![o] = "PLANNED"]
       /\ outputOf'    = [outputOf EXCEPT ![o] = b]
       /\ lineItems'   = [lineItems EXCEPT ![o] = r.items]
       /\ used'        = [used EXCEPT ![o] = [i \in DOMAIN r.items |-> 0]]
  /\ UNCHANGED ledger

Start(r) ==
  /\ orderStatus[r.order] = "PLANNED"
  /\ orderStatus' = [orderStatus EXCEPT ![r.order] = "IN_PROGRESS"]
  /\ UNCHANGED <<status, quantity, initial, expiration, ledger, outputOf,
                 lineItems, used>>

Cancel(r) ==
  /\ orderStatus[r.order] \in {"PLANNED", "IN_PROGRESS"}
  /\ orderStatus' = [orderStatus EXCEPT ![r.order] = "CANCELLED"]
  /\ UNCHANGED <<status, quantity, initial, expiration, ledger, outputOf,
                 lineItems, used>>

\* What order o consumes of batch b, over all its line items.
Required(o, b) ==
  LET lines == {i \in DOMAIN lineItems[o] : lineItems[o][i].batch = b}
  IN  SumFunction([i \in lines |-> lineItems[o][i].quantity])

\* The inputs of order o, and the soonest of their expirations.
Inputs(o) == {lineItems[o][i].batch : i \in DOMAIN lineItems[o]}
EarliestInput(o) ==
  CHOOSE e \in {expiration[b] : b \in Inputs(o)} :
    \A b \in Inputs(o) : ~ Sooner(expiration[b], e)

\* The inputs are consumed, the output becomes sellable, the order closes.
Complete(r) ==
  LET o == r.order IN
  /\ orderStatus[o] = "IN_PROGRESS"
  /\ \A b \in Inputs(o) : Required(o, b) <= quantity[b]
  /\ quantity' = [b \in Batches |-> quantity[b] - Required(o, b)]
  /\ ledger'   = [b \in Batches |->
       [ledger[b] EXCEPT !["USED_IN_PRODUCTION"] = @ - Required(o, b)]]
  /\ used'        = [used EXCEPT ![o] = [i \in DOMAIN lineItems[o] |-> 1]]
  /\ status'      = [status EXCEPT ![outputOf[o]] = "ACTIVE"]
  /\ expiration'  = [expiration EXCEPT ![outputOf[o]] = EarliestInput(o)]
  /\ orderStatus' = [orderStatus EXCEPT ![o] = "COMPLETED"]
  /\ UNCHANGED <<initial, outputOf, lineItems>>

Effect(r) ==
  \/ r.op = "Receive"    /\ Receive(r)
  \/ r.op = "Quarantine" /\ Quarantine(r)
  \/ r.op = "Adjust"     /\ Adjust(r)
  \/ r.op = "Consume"    /\ Consume(r)
  \/ r.op = "Create"     /\ Create(r)
  \/ r.op = "Start"      /\ Start(r)
  \/ r.op = "Cancel"     /\ Cancel(r)
  \/ r.op = "Complete"   /\ Complete(r)

Next == \E r \in Menu : Effect(r)

Spec == Init /\ [][Next]_tables
=============================================================================
