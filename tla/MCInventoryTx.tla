---------------------------- MODULE MCInventoryTx ----------------------------
(***************************************************************************)
(* Instances of InventoryTx for TLC: one warehouse with a white-label      *)
(* product, a packaging product and a finished good, and menus of requests *)
(* chosen so that they collide on the same rows.                           *)
(***************************************************************************)
EXTENDS InventoryTx, TLC

CONSTANTS
  w1, w2, w3,   \* white-label batches (in "traffic", labels), w3 not received
  p1,           \* a packaging batch
  f1, f2, f3, f4, f5,   \* finished-good batches
  o1, o2, o3, o4, o5    \* production orders

MCProducts    == {"syrup", "label", "bottle"}
MCProductType == [syrup |-> "WHITE_LABEL", label |-> "PACKAGING",
                  bottle |-> "FINISHED_GOOD"]
MCCalls == Permutations(Calls)

\* A table row per batch: product, status, quantity, expiration.
Row(p, s, q, e) ==
  [product |-> p, status |-> s, quantity |-> q, expiration |-> e]
Free(p) == Row(p, "NONE", 0, Null)

\* Received batches were booked INCOMING, produced ones were not booked.
SeedOf(batchRows, orderRows) ==
  [status      |-> [b \in DOMAIN batchRows |-> batchRows[b].status],
   quantity    |-> [b \in DOMAIN batchRows |-> batchRows[b].quantity],
   expiration  |-> [b \in DOMAIN batchRows |-> batchRows[b].expiration],
   ledger      |-> [b \in DOMAIN batchRows |->
                      [NoMovements EXCEPT !["INCOMING"] =
                         IF batchRows[b].status = "RESERVED"
                           THEN 0 ELSE batchRows[b].quantity]],
   orderStatus |-> [o \in DOMAIN orderRows |-> orderRows[o].status],
   outputOf    |-> [o \in DOMAIN orderRows |-> orderRows[o].output],
   lineItems   |-> [o \in DOMAIN orderRows |-> orderRows[o].items],
   used        |-> [o \in DOMAIN orderRows |->
                      [i \in DOMAIN orderRows[o].items |-> 0]]]

Item(b, q) == [batch |-> b, quantity |-> q]
Sell(p, q) == [op |-> "Consume", product |-> p, quantity |-> q]
Change(b, n, t) == [op |-> "Adjust", batch |-> b, change |-> n, type |-> t]
Hold(b) == [op |-> "Quarantine", batch |-> b]
Arrive(p, q, e) ==
  [op |-> "Receive", product |-> p, quantity |-> q, expiration |-> e]
Plan(p, q, e, items) ==
  [op |-> "Create", product |-> p, quantity |-> q, expiration |-> e,
   items |-> items]
Order(op, o) == [op |-> op, order |-> o]

-----------------------------------------------------------------------------
(* Warehouse traffic: no production orders.  w1 expires before w2; a label may *)
(* arrive without a date, syrup may not.                                      *)

TrafficBatches == {w1, w2, w3}
TrafficRows == w1 :> Row("label", "ACTIVE", 2, 1)
            @@ w2 :> Row("label", "ACTIVE", 2, 2)
            @@ w3 :> Free("label")
TrafficProduct == [b \in TrafficBatches |-> TrafficRows[b].product]
TrafficSeed == SeedOf(TrafficRows, <<>>)
TrafficMenu ==
  {Sell("label", 1), Sell("label", 3),
   Change(w1, -1, "WASTE"), Change(w1, 1, "WASTE"),
   Change(w2, -2, "ADJUSTMENT"), Change(w2, 1, "ADJUSTMENT"),
   Change(w1, 3, "ADJUSTMENT"),
   Hold(w1), Hold(w3),
   Arrive("label", 1, 1), Arrive("label", 2, 0), Arrive("label", 1, Null),
   Arrive("syrup", 1, Null)}

-----------------------------------------------------------------------------
(* The assembly line.  Order o1 runs on syrup that expires late and early, o2 *)
(* is planned and names w2 twice, o3 is free.  w2 covers o2, but not once o1  *)
(* is completed.  The outputs are f1 and f2.                                  *)

AssemblyBatches == {w1, w2, w3, p1, f1, f2, f3}
AssemblyRows == w1 :> Row("syrup", "ACTIVE", 2, 3)
             @@ w2 :> Row("syrup", "ACTIVE", 3, 2)
             @@ w3 :> Free("syrup")
             @@ p1 :> Row("label", "ACTIVE", 3, Null)
             @@ f1 :> Row("bottle", "RESERVED", 2, 1)
             @@ f2 :> Row("bottle", "RESERVED", 2, Null)
             @@ f3 :> Free("bottle")
OrderRow(s, b, items) == [status |-> s, output |-> b, items |-> items]
AssemblyOrders ==
     o1 :> OrderRow("IN_PROGRESS", f1, <<Item(w2, 1), Item(w1, 1)>>)
  @@ o2 :> OrderRow("PLANNED", f2, <<Item(w2, 2), Item(p1, 2), Item(w2, 1)>>)
  @@ o3 :> OrderRow("NONE", f3, <<>>)
AssemblyProduct == [b \in AssemblyBatches |-> AssemblyRows[b].product]
AssemblySeed == SeedOf(AssemblyRows, AssemblyOrders)
AssemblyMenu ==
  {Order("Complete", o1), Order("Complete", o2), Order("Start", o2),
   Order("Start", o3), Order("Cancel", o1), Order("Cancel", o2),
   Plan("bottle", 2, 5, <<Item(p1, 1), Item(w1, 2)>>),
   Plan("bottle", 2, Null, <<Item(w3, 1)>>),
   Plan("label", 1, Null, <<Item(w1, 1)>>),
   Sell("bottle", 1), Sell("syrup", 3),
   Change(f1, -1, "WASTE"), Change(p1, -1, "ADJUSTMENT"),
   Hold(f1), Hold(w1)}

-----------------------------------------------------------------------------
(* Crossing completions: two running orders that both need w1 and p1, next to *)
(* a sale, a new order and a correction that want the same rows.              *)

\* Identifiers for as many new orders as there are calls.
CrossingBatches == {w1, w2, p1, f1, f2, f3, f4, f5}
CrossingRows == w1 :> Row("syrup", "ACTIVE", 2, 1)
             @@ w2 :> Row("syrup", "ACTIVE", 1, 2)
             @@ p1 :> Row("label", "ACTIVE", 2, Null)
             @@ f1 :> Row("bottle", "RESERVED", 1, Null)
             @@ f2 :> Row("bottle", "RESERVED", 1, Null)
             @@ [f \in {f3, f4, f5} |-> Free("bottle")]
CrossingOrders ==
     o1 :> OrderRow("IN_PROGRESS", f1, <<Item(w1, 1), Item(p1, 1)>>)
  @@ o2 :> OrderRow("IN_PROGRESS", f2, <<Item(p1, 1), Item(w1, 1)>>)
  @@ [o \in {o3, o4, o5} |-> OrderRow("NONE", f3, <<>>)]
CrossingProduct == [b \in CrossingBatches |-> CrossingRows[b].product]
CrossingSeed == SeedOf(CrossingRows, CrossingOrders)
CrossingMenu ==
  {Order("Complete", o1), Order("Complete", o2), Sell("syrup", 3),
   Plan("bottle", 1, 5, <<Item(p1, 1), Item(w1, 1)>>)}

=============================================================================
