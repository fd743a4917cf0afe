------------------------------ MODULE Catalogue ------------------------------
(***************************************************************************)
(* The product catalogue beside the stock that refers to it, statement by  *)
(* statement.  ProductService.Create is a transaction of one INSERT,       *)
(* Update one UPDATE, SoftDelete a count of ACTIVE batches and then an     *)
(* UPDATE, without a transaction around them.  The calls that make stock   *)
(* (BatchService.Receive, ProductionOrderService.Create) read the product, *)
(* write a batch later and commit later still; their own rows and locks    *)
(* are the affair of InventoryTx and only their meetings with products are *)
(* kept here; refusals over product types, which never change, are left    *)
(* out, as are the columns that behave like name.                          *)
(*                                                                         *)
(* An UPDATE waits for the writer of the row it changes, an INSERT or      *)
(* UPDATE for the writer of a row with the SKU it takes (unique index      *)
(* products_sku_key), and the foreign key of a new batch and a change of   *)
(* the SKU of its product wait for one another.                            *)
(*                                                                         *)
(* Definitions marked "Fault:" are plausible bugs, used nowhere.           *)
(***************************************************************************)
EXTENDS FiniteSets

CONSTANTS
  Products, Skus, Names, Null,  \* as in ProductTable
  Rows,        \* the products table at the start
  Batches,     \* identifiers of inventory_batches rows
  Lots,        \* their product and status at the start
  Calls,       \* requests in flight
  Nobody,      \* the writer of a row nobody is writing
  Menu         \* the requests clients may send

VARIABLES
  product,     \* committed products rows
  status,      \* inventory_batches.status, "NONE" if there is no such row
  productOf,   \* inventory_batches.product_id
  writer,      \* the call that has written a product row and not committed
  keyShare,    \* calls whose new batch locks its product FOR KEY SHARE
  phase,       \* how far a call has come, or how it was answered
  request,     \* what it was asked to do
  target,      \* the product row it writes
  version      \* the row it has written and not committed

tables == <<product, status, productOf>>
locks  == <<writer, keyShare>>
vars   == <<tables, locks, phase, request, target, version>>

CreateRequests == [op : {"Create"}, sku : Skus, name : Names]
UpdateRequests == [op : {"Update"}, product : Products,
                   sku : Skus \cup {Null}, name : Names \cup {Null}]
DeleteRequests == [op : {"Delete"}, product : Products]
StockRequests ==
  [op : {"Receive"}, product : Products]
    \cup [op : {"Order"}, product : Products, input : Batches]
    \cup [op : {"Complete", "Quarantine"}, batch : Batches]
ProductRequests == CreateRequests \cup UpdateRequests \cup DeleteRequests
Requests        == ProductRequests \cup StockRequests

\* Answers are named for their status: 200, 404, 409 and 500.
Answers  == {"ok", "missing", "conflict", "failed"}
Phases   == {"new", "begun", "checked", "looked", "written", "ready"} \cup Answers
InWork(c) == phase[c] \notin {"new"} \cup Answers

\* The products table as a client sees it: committed rows and given answers.
Given == [c \in Calls |->
            IF phase[c] \in Answers /\ request[c] \in ProductRequests
              THEN [request |-> request[c], outcome |-> phase[c]]
              ELSE Null]
Table == INSTANCE ProductTable
           WITH answer <- Given, Requests <- Menu \cap ProductRequests

\* NULL is no value of a column and nobody is no call.  The table starts with
\* distinct SKUs and the batches in it refer to its rows.
ASSUME CatalogueAssumption ==
  /\ Null \notin Skus \cup Names \cup Products
  /\ Nobody \notin Calls
  /\ Menu \subseteq Requests
  /\ Rows \in [Products -> Table!Row \cup {Table!NoRow}]
  /\ \A p, q \in Products : Rows[p].sku = Rows[q].sku => p = q \/ Rows[p].sku = Null
  /\ Lots.status \in [Batches -> {"NONE", "ACTIVE", "RESERVED", "QUARANTINED"}]
  /\ Lots.product \in [Batches -> Products]

Init ==
  /\ product   = Rows
  /\ status    = Lots.status
  /\ productOf = Lots.product
  /\ writer    = [p \in Products |-> Nobody]
  /\ keyShare  = [p \in Products |-> {}]
  /\ phase     = [c \in Calls |-> "new"]
  /\ request   = [c \in Calls |-> Null]
  /\ target    = [c \in Calls |-> Null]
  /\ version   = [c \in Calls |-> Table!NoRow]

-----------------------------------------------------------------------------
(* Statements and locks                                                    *)

GoTo(c, p)   == phase' = [phase EXCEPT ![c] = p]
At(c, p, op) == phase[c] = p /\ request[c].op = op

Begin(c) ==
  /\ phase[c] = "new" /\ GoTo(c, "begun")
  /\ \E r \in Menu : request' = [request EXCEPT ![c] = r]
  /\ UNCHANGED <<tables, locks, target, version>>

\* The call is answered, its transaction over and its locks released.
End(c, outcome) ==
  /\ GoTo(c, outcome)
  /\ writer'   = [p \in Products |-> IF writer[p] = c THEN Nobody ELSE writer[p]]
  /\ keyShare' = [p \in Products |-> keyShare[p] \ {c}]
  /\ target'   = [target EXCEPT ![c] = Null]
  /\ version'  = [version EXCEPT ![c] = Table!NoRow]
  /\ UNCHANGED request

\* Fault: an early return forgets the transaction.
RefuseLeaked(c, outcome) ==
  GoTo(c, outcome) /\ UNCHANGED <<tables, locks, request, target, version>>

Refuse(c, outcome) == End(c, outcome) /\ UNCHANGED tables

\* A statement that has written row p goes on to state s.
Write(c, p, row, s) ==
  /\ writer'  = [writer EXCEPT ![p] = c]
  /\ target'  = [target EXCEPT ![c] = p]
  /\ version' = [version EXCEPT ![c] = row]
  /\ GoTo(c, s)
  /\ UNCHANGED <<tables, keyShare, request>>

\* A row that is not committed is found by nobody, so nobody waits for it.
Unwritten(p) == writer[p] = Nobody \/ product[p] = Table!NoRow

\* The SKU of row p is about to change.
Renaming(p) ==
  writer[p] # Nobody /\ version[writer[p]].sku # product[p].sku

-----------------------------------------------------------------------------
(* ProductService                                                          *)

CreateWrite(c) ==
  /\ At(c, "begun", "Create")
  /\ \E p \in Products :
       /\ product[p] = Table!NoRow /\ writer[p] = Nobody
       /\ Write(c, p, [sku |-> request[c].sku, name |-> request[c].name,
                       deleted |-> FALSE], "written")

\* Fault: the SKU is looked up among the committed rows only.
RivalsCommitted(c) ==
  {q \in Products \ {target[c]} :
     writer[q] = Nobody /\ product[q].sku = version[c].sku}

\* The rows, committed or only written, with the SKU that c has written.
Rivals(c) ==
  {q \in Products \ {target[c]} :
     \/ product[q].sku = version[c].sku
     \/ /\ writer[q] # Nobody /\ phase[writer[q]] = "ready"
        /\ version[writer[q]].sku = version[c].sku}

\* The unique index: c waits while a writer may still give the SKU up.  Only
\* Create tells a violation from any other error.
Claim(c) ==
  /\ phase[c] = "written"
  /\ \/ /\ Rivals(c) = {} /\ GoTo(c, "ready")
        /\ UNCHANGED <<tables, locks, request, target, version>>
     \/ /\ \E q \in Rivals(c) : writer[q] = Nobody
        /\ Refuse(c, IF request[c].op = "Create" THEN "conflict" ELSE "failed")

\* Fault: deleted_at is not looked at again after the wait for the row.
UpdateWriteAny(c) ==
  LET p   == request[c].product
      old == product[p]
      new == [old EXCEPT !.sku  = Table!Coalesce(request[c].sku, @),
                         !.name = Table!Coalesce(request[c].name, @)]
  IN
  /\ At(c, "begun", "Update") /\ Unwritten(p)
  /\ \/ /\ old # Table!NoRow /\ (new.sku # old.sku => keyShare[p] = {})
        /\ Write(c, p, new, IF new.sku # old.sku THEN "written" ELSE "ready")
     \/ old = Table!NoRow /\ Refuse(c, "missing")

\* The UPDATE finds its row, waits for its writer and evaluates the WHERE
\* clause on what that one left.  A new SKU goes through the unique index.
UpdateWrite(c) ==
  LET p   == request[c].product
      old == product[p]
      new == [old EXCEPT !.sku  = Table!Coalesce(request[c].sku, @),
                         !.name = Table!Coalesce(request[c].name, @)]
  IN
  /\ At(c, "begun", "Update") /\ Unwritten(p)
  /\ \/ /\ Table!Live(p) /\ (new.sku # old.sku => keyShare[p] = {})
        /\ Write(c, p, new, IF new.sku # old.sku THEN "written" ELSE "ready")
     \/ ~ Table!Live(p) /\ Refuse(c, "missing")

\* The count of ACTIVE batches, on a connection of its own.
DeleteCount(c) ==
  LET p == request[c].product IN
  /\ At(c, "begun", "Delete")
  /\ \/ /\ \A b \in Batches : productOf[b] = p => status[b] # "ACTIVE"
        /\ GoTo(c, "checked")
        /\ UNCHANGED <<tables, locks, request, target, version>>
     \/ /\ \E b \in Batches : productOf[b] = p /\ status[b] = "ACTIVE"
        /\ Refuse(c, "conflict")

DeleteWrite(c) ==
  LET p == request[c].product IN
  /\ At(c, "checked", "Delete") /\ Unwritten(p)
  /\ \/ /\ Table!Live(p)
        /\ Write(c, p, [product[p] EXCEPT !.deleted = TRUE], "ready")
     \/ ~ Table!Live(p) /\ Refuse(c, "missing")

\* COMMIT of Create, and the end of the statement of Update and SoftDelete.
ProductCommit(c) ==
  /\ phase[c] = "ready" /\ request[c] \in ProductRequests
  /\ product' = [product EXCEPT ![target[c]] = version[c]]
  /\ End(c, "ok")
  /\ UNCHANGED <<status, productOf>>

-----------------------------------------------------------------------------
(* The services that make stock, where they meet products                  *)

\* Fault: GetProductByID finds deleted products too.
LookUpAny(c) ==
  LET p == request[c].product IN
  /\ phase[c] = "begun" /\ request[c].op \in {"Receive", "Order"}
  /\ \/ /\ product[p] # Table!NoRow /\ GoTo(c, "checked")
        /\ UNCHANGED <<tables, locks, request, target, version>>
     \/ product[p] = Table!NoRow /\ Refuse(c, "missing")

\* GetProductByID, the first statement of Receive and of an order's Create.
LookUp(c) ==
  LET p == request[c].product IN
  /\ phase[c] = "begun" /\ request[c].op \in {"Receive", "Order"}
  /\ \/ /\ Table!Live(p) /\ GoTo(c, "checked")
        /\ UNCHANGED <<tables, locks, request, target, version>>
     \/ ~ Table!Live(p) /\ Refuse(c, "missing")

\* Create reads an input batch and its product, which if deleted is an error
\* that no answer is provided for.
LookUpInput(c) ==
  LET b == request[c].input IN
  /\ At(c, "checked", "Order")
  /\ \/ /\ status[b] # "NONE" /\ Table!Live(productOf[b]) /\ GoTo(c, "looked")
        /\ UNCHANGED <<tables, locks, request, target, version>>
     \/ status[b] = "NONE" /\ Refuse(c, "missing")
     \/ status[b] # "NONE" /\ ~ Table!Live(productOf[b]) /\ Refuse(c, "failed")

\* INSERT of the batch; its foreign key wants the product's key unchanged, and
\* a deleted product still has its key.
BatchInsert(c) ==
  LET p == request[c].product IN
  /\ At(c, "checked", "Receive") \/ At(c, "looked", "Order")
  /\ ~ Renaming(p)
  /\ keyShare' = [keyShare EXCEPT ![p] = @ \cup {c}]
  /\ GoTo(c, "ready")
  /\ UNCHANGED <<tables, writer, request, target, version>>

BatchCommit(c) ==
  /\ At(c, "ready", "Receive") \/ At(c, "ready", "Order")
  /\ \E b \in Batches :
       /\ status[b] = "NONE"
       /\ status' = [status EXCEPT ![b] =
                       IF request[c].op = "Order" THEN "RESERVED" ELSE "ACTIVE"]
       /\ productOf' = [productOf EXCEPT ![b] = request[c].product]
  /\ End(c, "ok")
  /\ UNCHANGED product

\* The completion of the order whose output the batch is: the product is not
\* looked at.  What else may refuse it is the order's affair.
Complete(c) ==
  LET b == request[c].batch IN
  /\ At(c, "begun", "Complete")
  /\ \/ /\ status[b] = "RESERVED"
        /\ status' = [status EXCEPT ![b] = "ACTIVE"]
        /\ End(c, "ok") /\ UNCHANGED <<product, productOf>>
     \/ Refuse(c, "conflict")

Quarantine(c) ==
  LET b == request[c].batch IN
  /\ At(c, "begun", "Quarantine")
  /\ \/ /\ status[b] = "ACTIVE"
        /\ status' = [status EXCEPT ![b] = "QUARANTINED"]
        /\ End(c, "ok") /\ UNCHANGED <<product, productOf>>
     \/ status[b] = "NONE" /\ Refuse(c, "missing")
     \/ status[b] \in {"RESERVED", "QUARANTINED"} /\ Refuse(c, "conflict")

-----------------------------------------------------------------------------
(* Failure and scheduling                                                  *)

\* A statement fails, the client leaves or the process dies: rollback.
Abort(c) == InWork(c) /\ Refuse(c, "failed")

\* c waits for d.  Only a call that has written a row and claims its SKU holds
\* something while it waits, so no other wait can be part of a cycle.
WaitsFor(c, d) == phase[c] = "written" /\ \E q \in Rivals(c) : writer[q] = d

\* PostgreSQL fails one of the calls that wait for one another.
DeadlockVictim(c) ==
  /\ \E S \in SUBSET Calls :
       LET Cyclic(R) == R # {} /\ \A d \in R : \E e \in R : WaitsFor(d, e) IN
       /\ c \in S /\ Cyclic(S)
       /\ \A R \in SUBSET S : R # S => ~ Cyclic(R)
  /\ Refuse(c, "failed")

Statement(c) ==
  \/ CreateWrite(c) \/ Claim(c)
  \/ UpdateWrite(c) \/ DeleteCount(c) \/ DeleteWrite(c) \/ ProductCommit(c)
  \/ LookUp(c) \/ LookUpInput(c) \/ BatchInsert(c) \/ BatchCommit(c)
  \/ Complete(c) \/ Quarantine(c)

Next ==
  \E c \in Calls : Begin(c) \/ Statement(c) \/ DeadlockVictim(c) \/ Abort(c)

Spec == Init /\ [][Next]_vars

\* As in InventoryTx: statements that can run do, and the detector runs.
FairSpec ==
  Spec /\ \A c \in Calls : WF_vars(Statement(c)) /\ WF_vars(DeadlockVictim(c))

-----------------------------------------------------------------------------
(* Properties                                                              *)

\* Every row, lock and call is well formed.
TypeOK ==
  /\ product   \in [Products -> Table!Row \cup {Table!NoRow}]
  /\ status    \in [Batches -> {"NONE", "ACTIVE", "RESERVED", "QUARANTINED"}]
  /\ productOf \in [Batches -> Products]
  /\ writer    \in [Products -> Calls \cup {Nobody}]
  /\ keyShare  \in [Products -> SUBSET Calls]
  /\ phase     \in [Calls -> Phases]
  /\ request   \in [Calls -> Menu \cup {Null}]
  /\ target    \in [Calls -> Products \cup {Null}]
  /\ version   \in [Calls -> Table!Row \cup {Table!NoRow}]

\* The services implement the atomic products table: no SKU is given twice,
\* no column a request does not name changes, nothing happens to a deleted
\* product, and a call is told "conflict" or "missing" only when it is so.
ImplementsProductTable == Table!Spec

\* Deletion is final even for an update that had found the product before and
\* waited for the deletion to commit.
DeletionIsFinal ==
  [][\A p \in Products : product[p].deleted => product'[p] = product[p]]_vars

\* p is deleted, none of its stock is sellable or will be when an order ends,
\* and no call that makes stock has seen it alive.
Closed(p) ==
  /\ product[p].deleted
  /\ \A b \in Batches : productOf[b] = p => status[b] \in {"NONE", "QUARANTINED"}
  /\ \A c \in Calls :
       phase[c] \in {"checked", "looked", "ready"}
         /\ request[c].op \in {"Receive", "Order"} => request[c].product # p

\* What a product leaves behind is bounded by the calls that overlap its
\* deletion: once none of them is left, the product never has stock again.
ClosedForGood == [][\A p \in Products : Closed(p) => Closed(p)']_vars

\* Every call is answered, even if updates exchange the SKUs of two products.
EveryCallAnswered == \A c \in Calls : InWork(c) ~> phase[c] \in Answers

\* "Soft-deletes a product if no active batches exist"
\* (docs/PROJECT_DESIGN.md:252): none exists when it is deleted.
DeletedOnlyWhenEmpty ==
  [][\A p \in Products, b \in Batches :
       ~ product[p].deleted /\ product'[p].deleted /\ productOf[b] = p
         => status[b] # "ACTIVE"
    ]_vars

-----------------------------------------------------------------------------
(* The inductive invariant of the proofs                                   *)

\* c has written a row of products and not committed.
Writing(c) ==
  \/ phase[c] = "written"
  \/ phase[c] = "ready" /\ request[c] \in ProductRequests

\* The lock of a row is held by the call that has written it, and by no other.
WritersHold ==
  /\ \A c \in Calls : Writing(c) => target[c] \in Products /\ writer[target[c]] = c
  /\ \A p \in Products : writer[p] # Nobody =>
       Writing(writer[p]) /\ target[writer[p]] = p

\* What a call has written is what it was asked to make of the committed row.
Written(c) ==
  LET r == request[c]
      p == target[c]
  IN
  \/ /\ r.op = "Create" /\ product[p] = Table!NoRow
     /\ version[c] = [sku |-> r.sku, name |-> r.name, deleted |-> FALSE]
  \/ /\ r.op = "Update" /\ p = r.product /\ Table!Live(p)
     /\ version[c] = [product[p] EXCEPT !.sku  = Table!Coalesce(r.sku, @),
                                        !.name = Table!Coalesce(r.name, @)]
  \/ /\ r.op = "Delete" /\ p = r.product /\ Table!Live(p)
     /\ version[c] = [product[p] EXCEPT !.deleted = TRUE]

VersionsAsAsked ==
  \A c \in Calls :
    /\ phase[c] # "new" => request[c] \in Menu
    /\ phase[c] = "written" => request[c] \in ProductRequests
    /\ Writing(c) => Written(c)

\* No SKU belongs to two rows, and no row that has passed the unique index has
\* the SKU of another, committed or written.
SkusApart ==
  /\ \A p, q \in Products :
       p # q => product[p].sku # product[q].sku \/ product[p].sku = Null
  /\ \A c \in Calls : phase[c] = "ready" /\ Writing(c) =>
       /\ \A q \in Products \ {target[c]} : product[q].sku # version[c].sku
       /\ \A d \in Calls \ {c} : phase[d] = "ready" /\ Writing(d) =>
            version[d].sku # version[c].sku

\* What every step preserves: rows being written are locked, written as asked,
\* and apart in the unique index, so each commit is an atomic request.
InductiveInv == TypeOK /\ WritersHold /\ VersionsAsAsked /\ SkusApart
=============================================================================
