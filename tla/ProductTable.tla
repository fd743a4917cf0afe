----------------------------- MODULE ProductTable -----------------------------
(***************************************************************************)
(* What ProductService promises about the products table: every request    *)
(* takes effect in one step, a SKU belongs to one product for ever, and a  *)
(* refusal is true when it is given.  Module Catalogue, which splits the   *)
(* requests into statements, is shown to implement it.                     *)
(***************************************************************************)
CONSTANTS
  Products,  \* identifiers of products rows
  Skus,      \* values of products.sku
  Names,     \* values of products.name, which stands for every other column
  Null,      \* SQL NULL, and a member a request leaves out
  Calls,     \* requests in flight
  Requests,  \* what they may ask
  Rows       \* the committed table at the start

VARIABLES
  product,   \* per identifier, the committed row
  answer     \* per call, what it asked and got, Null until it is answered

Row   == [sku : Skus, name : Names, deleted : BOOLEAN]
NoRow == [sku |-> Null, name |-> Null, deleted |-> FALSE]

Live(p)  == product[p].sku # Null /\ ~ product[p].deleted
Taken(s) == \E p \in Products : product[p].sku = s

\* COALESCE($n, column): a member the request leaves out keeps the column.
Coalesce(value, column) == IF value = Null THEN column ELSE value

Init ==
  /\ product = Rows
  /\ answer  = [c \in Calls |-> Null]

Reply(c, r, outcome) ==
  /\ answer[c] = Null
  /\ answer' = [answer EXCEPT ![c] = [request |-> r, outcome |-> outcome]]

\* A SKU no product has makes a new product; one that is taken is refused.
Create(c, r) ==
  \/ /\ ~ Taken(r.sku)
     /\ \E p \in Products :
          /\ product[p] = NoRow
          /\ product' = [product EXCEPT ![p] =
                           [sku |-> r.sku, name |-> r.name, deleted |-> FALSE]]
     /\ Reply(c, r, "ok")
  \/ Taken(r.sku) /\ Reply(c, r, "conflict") /\ UNCHANGED product

\* The columns the request names change, and only those, of a live product.
Update(c, r) ==
  \/ /\ Live(r.product)
     /\ Coalesce(r.sku, product[r.product].sku) # product[r.product].sku
          => ~ Taken(r.sku)
     /\ product' = [product EXCEPT ![r.product].sku  = Coalesce(r.sku, @),
                                  ![r.product].name = Coalesce(r.name, @)]
     /\ Reply(c, r, "ok")
  \/ ~ Live(r.product) /\ Reply(c, r, "missing") /\ UNCHANGED product

\* Deletion is final.  Whether stock forbids it is not this table's affair.
Delete(c, r) ==
  \/ /\ Live(r.product)
     /\ product' = [product EXCEPT ![r.product].deleted = TRUE]
     /\ Reply(c, r, "ok")
  \/ ~ Live(r.product) /\ Reply(c, r, "missing") /\ UNCHANGED product
  \/ Reply(c, r, "conflict") /\ UNCHANGED product

Next ==
  \E c \in Calls, r \in Requests :
    \/ r.op = "Create" /\ Create(c, r)
    \/ r.op = "Update" /\ Update(c, r)
    \/ r.op = "Delete" /\ Delete(c, r)
    \/ Reply(c, r, "failed") /\ UNCHANGED product

Spec == Init /\ [][Next]_<<product, answer>>
=============================================================================
