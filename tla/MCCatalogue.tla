----------------------------- MODULE MCCatalogue -----------------------------
(***************************************************************************)
(* Catalogue on small instances: two products, one with stock, and room    *)
(* for two more.                                                           *)
(***************************************************************************)
EXTENDS Catalogue

CONSTANTS milk, tofu, x, y, b1, b2, b3, b4, b5, c1, c2, c3

MCProducts == {milk, tofu, x, y}
MCSkus     == {"M", "T", "N"}
MCNames    == {"old", "new"}
MCBatches  == {b1, b2, b3, b4, b5}

Listed(s) == [sku |-> s, name |-> "old", deleted |-> FALSE]
Vacant    == [sku |-> Null, name |-> Null, deleted |-> FALSE]
MCRows ==
  [p \in MCProducts |-> CASE p = milk -> Listed("M")
                          [] p = tofu -> Listed("T")
                          [] OTHER    -> Vacant]

\* The output of an order of milk, a lot of tofu, and batches still to come.
MCLots ==
  [status  |-> [b \in Batches |-> CASE b = b1 -> "RESERVED"
                                    [] b = b2 -> "ACTIVE"
                                    [] OTHER  -> "NONE"],
   product |-> [b \in Batches |-> IF b = b2 THEN tofu ELSE milk]]

Add(s)          == [op |-> "Create", sku |-> s, name |-> "old"]
Rename(p, n)    == [op |-> "Update", product |-> p, sku |-> Null, name |-> n]
Relabel(p, s)   == [op |-> "Update", product |-> p, sku |-> s, name |-> Null]
Remove(p)       == [op |-> "Delete", product |-> p]
Arrive(p)       == [op |-> "Receive", product |-> p]
Plan(p, b)      == [op |-> "Order", product |-> p, input |-> b]
Finish(b)       == [op |-> "Complete", batch |-> b]
Withdraw(b)     == [op |-> "Quarantine", batch |-> b]

\* Additions, deletions and updates that exchange the SKUs of two products,
\* among calls that make stock.
ShelfMenu ==
  {Add("T"), Rename(milk, "new"), Relabel(milk, "T"), Relabel(tofu, "M"),
   Remove(milk), Remove(tofu), Arrive(milk), Plan(tofu, b1), Plan(milk, b3),
   Finish(b1), Withdraw(b2)}

VacatedMenu == {Remove(milk), Arrive(milk)}
=============================================================================
