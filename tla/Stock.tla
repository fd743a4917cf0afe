-------------------------------- MODULE Stock --------------------------------
(***************************************************************************)
(* The vocabulary the inventory modules share: the rows of the inventory   *)
(* tables (inventory_batches, stock_transactions, production_orders,       *)
(* production_order_line_items), the requests the API accepts about them,  *)
(* and the first-expired-first-out order of batches.                       *)
(*                                                                         *)
(* Row identifiers are drawn from finite pools.  A batch row of the pool   *)
(* always belongs to one product (product_id is written once, at INSERT),  *)
(* so the pool is partitioned by BatchProduct in advance.  The product     *)
(* catalogue itself is constant here.                                      *)
(***************************************************************************)
EXTENDS Integers, Sequences, FiniteSets

CONSTANTS
  Batches,        \* identifiers of inventory_batches rows
  Orders,         \* identifiers of production_orders rows
  Products,       \* identifiers of products rows
  BatchProduct,   \* product_id of each batch
  ProductType,    \* product_type of each product
  MaxQty,         \* largest value of a numeric(10,4) column
  Null,           \* SQL NULL
  Menu,           \* the requests clients may send
  Seed            \* the committed tables at the start

ProductTypes == {"RAW_MATERIAL", "PACKAGING", "FINISHED_GOOD", "WHITE_LABEL"}

\* "NONE" is an identifier no committed row uses yet.  DEPLETED and EXPIRED
\* are declared by the schema but no statement ever writes them.
BatchStatus == {"NONE", "ACTIVE", "RESERVED", "QUARANTINED"}
OrderStatus == {"NONE", "PLANNED", "IN_PROGRESS", "COMPLETED", "CANCELLED"}
TransactionTypes ==
  {"INCOMING", "OUTGOING", "USED_IN_PRODUCTION", "WASTE", "ADJUSTMENT"}

Quantities  == 0 .. MaxQty
Positive    == 1 .. MaxQty                  \* the "quantity" validator
Signed      == (-MaxQty .. MaxQty) \ {0}    \* the "signed_quantity" validator
Expirations == Nat \cup {Null}
LineItems   == [batch : Batches, quantity : Positive]

ASSUME StockAssumption ==
  /\ IsFiniteSet(Batches)
  /\ MaxQty \in Nat
  /\ BatchProduct \in [Batches -> Products]
  /\ ProductType \in [Products -> ProductTypes]
  /\ Null \notin Nat

-----------------------------------------------------------------------------
(* The requests, after the validators of internal/schemas let them through. *)

ReceiveRequests ==
  [op : {"Receive"}, product : Products, quantity : Positive,
   expiration : Expirations]
QuarantineRequests == [op : {"Quarantine"}, batch : Batches]
AdjustRequests ==
  [op : {"Adjust"}, batch : Batches, change : Signed,
   type : {"WASTE", "ADJUSTMENT"}]
ConsumeRequests == [op : {"Consume"}, product : Products, quantity : Positive]
CreateRequests ==
  [op : {"Create"}, product : Products, quantity : Positive,
   expiration : Expirations, items : Seq(LineItems) \ {<<>>}]
OrderRequests == [op : {"Start", "Cancel", "Complete"}, order : Orders]

Requests ==
  ReceiveRequests \cup QuarantineRequests \cup AdjustRequests
    \cup ConsumeRequests \cup CreateRequests \cup OrderRequests

-----------------------------------------------------------------------------
\* ORDER BY expiration_date ASC NULLS LAST: e sorts strictly before f.
Sooner(e, f) == e # Null /\ (f = Null \/ e < f)

\* Fault (of Earliest): the last expiration wins, whatever the others are.
EarliestLast(e, f) == IF e = Null THEN f ELSE e

\* The earlier of two expirations, NULL only when both are.
Earliest(e, f) == IF Sooner(e, f) THEN e ELSE f

\* Nothing posted for any transaction type.
NoMovements == [t \in TransactionTypes |-> 0]

\* The sum of the quantity_change of the stock_transactions of one batch.
Booked(movements) ==
  movements["INCOMING"] + movements["OUTGOING"]
    + movements["USED_IN_PRODUCTION"] + movements["WASTE"]
    + movements["ADJUSTMENT"]

\* Production inputs must be white-label goods or packaging.
InputProductTypes == {"WHITE_LABEL", "PACKAGING"}

-----------------------------------------------------------------------------
(* The initial tables are those of a database in use, which the services   *)
(* have filled: lots received, orders planned or started, no order closed  *)
(* yet and no stock sold.  An identifier in no row has no history.         *)

SeedProduced(b) ==
  \E o \in Orders : Seed.orderStatus[o] # "NONE" /\ Seed.outputOf[o] = b

ASSUME MenuAssumption == Menu \subseteq Requests

ASSUME SeedTypes ==
  /\ Seed.status      \in [Batches -> BatchStatus]
  /\ Seed.quantity    \in [Batches -> Quantities]
  /\ Seed.expiration  \in [Batches -> Expirations]
  /\ Seed.ledger      \in [Batches -> [TransactionTypes -> Int]]
  /\ Seed.orderStatus \in [Orders -> {"NONE", "PLANNED", "IN_PROGRESS"}]
  /\ Seed.outputOf    \in [Orders -> Batches]
  /\ Seed.lineItems   \in [Orders -> Seq(LineItems)]
  /\ Seed.used        \in [Orders -> Seq(Nat)]

ASSUME SeedAssumption ==
  /\ \A b \in Batches :
       /\ Booked(Seed.ledger[b]) = IF SeedProduced(b) THEN 0 ELSE Seed.quantity[b]
       /\ Seed.status[b] = "NONE" => Seed.quantity[b] = 0
       /\ Seed.status[b] = "RESERVED" => Seed.ledger[b]["OUTGOING"] = 0
  /\ \A o \in Orders : Seed.orderStatus[o] # "NONE" =>
       /\ Seed.status[Seed.outputOf[o]] = "RESERVED"
       /\ ProductType[BatchProduct[Seed.outputOf[o]]] = "FINISHED_GOOD"
       /\ \A q \in Orders \ {o} :
            Seed.orderStatus[q] # "NONE" => Seed.outputOf[q] # Seed.outputOf[o]
       /\ Seed.lineItems[o] # <<>>
       /\ \A i \in DOMAIN Seed.lineItems[o] :
            /\ Seed.status[Seed.lineItems[o][i].batch] # "NONE"
            /\ ProductType[BatchProduct[Seed.lineItems[o][i].batch]]
                 \in InputProductTypes
       /\ Seed.used[o] = [i \in DOMAIN Seed.lineItems[o] |-> 0]
=============================================================================
