---------------------------- MODULE CatalogueProofs ----------------------------
(***************************************************************************)
(* Catalogue for any products, SKUs, batches, calls and requests: its      *)
(* inductive invariant, that it implements ProductTable, and what a        *)
(* deletion leaves behind.                                                 *)
(***************************************************************************)
EXTENDS Catalogue, TLAPS

\* Requests have the members their operations use, and an operation tells
\* whether a request is about the products table.
LEMMA RequestShapes ==
  ASSUME NEW r \in Requests
  PROVE  /\ r \in ProductRequests <=> r.op \in {"Create", "Update", "Delete"}
         /\ r.op = "Create" => r.sku \in Skus /\ r.name \in Names
         /\ r.op = "Update" => /\ r.product \in Products
                               /\ r.sku \in Skus \cup {Null}
                               /\ r.name \in Names \cup {Null}
         /\ r.op \in {"Delete", "Receive", "Order"} => r.product \in Products
         /\ r.op \in {"Complete", "Quarantine"} => r.batch \in Batches
  BY DEF Requests, ProductRequests, CreateRequests, UpdateRequests,
         DeleteRequests, StockRequests

\* A call that has begun was asked something on the menu.
LEMMA RequestsAsked ==
  ASSUME InductiveInv, NEW c \in Calls, phase[c] # "new"
  PROVE  request[c] \in Menu /\ request[c] \in Requests
  BY CatalogueAssumption DEF InductiveInv, VersionsAsAsked

\* Rows have SKUs, identifiers without a row have none.
LEMMA RowShapes ==
  /\ Table!NoRow \notin Table!Row /\ Table!NoRow.sku = Null
  /\ \A r \in Table!Row : r.sku \in Skus /\ r.name \in Names
                            /\ r.deleted \in BOOLEAN /\ r.sku # Null
<1>1. Null \notin Skus
  BY CatalogueAssumption
<1> QED
  BY <1>1 DEF Table!Row, Table!NoRow

\* No call has written anything at the start.
LEMMA InitInv == Init => InductiveInv
<1> SUFFICES ASSUME Init PROVE InductiveInv
  OBVIOUS
<1> USE CatalogueAssumption DEF Init
<1>1. TypeOK
  BY DEF TypeOK, Phases
<1>2. WritersHold
  BY DEF WritersHold, Writing
<1>3. VersionsAsAsked
  BY DEF VersionsAsAsked, Writing
<1>4. SkusApart
  BY DEF SkusApart, Writing
<1> QED
  BY <1>1, <1>2, <1>3, <1>4 DEF InductiveInv

-----------------------------------------------------------------------------
(* Steps                                                                   *)

\* Whether a call other than c is writing, and what, depends on its own state
\* and the committed rows.
LEMMA EndStep ==
  ASSUME InductiveInv, NEW c \in Calls, NEW outcome \in Answers,
         End(c, outcome), phase[c] # "new", product' = product,
         status' \in [Batches -> {"NONE", "ACTIVE", "RESERVED", "QUARANTINED"}],
         productOf' \in [Batches -> Products]
  PROVE  InductiveInv'
<1>1. /\ phase' = [phase EXCEPT ![c] = outcome] /\ request' = request
      /\ writer' = [p \in Products |-> IF writer[p] = c THEN Nobody ELSE writer[p]]
      /\ target' = [target EXCEPT ![c] = Null]
      /\ version' = [version EXCEPT ![c] = Table!NoRow]
  BY DEF End, GoTo
<1>2. \A d \in Calls : /\ d # c => (Writing(d)' <=> Writing(d))
                       /\ ~ Writing(c)'
  BY <1>1 DEF Writing, InductiveInv, TypeOK, Answers
<1>3. TypeOK'
  BY <1>1 DEF InductiveInv, TypeOK, Phases, End
<1>4. WritersHold'
  <2>1. \A d \in Calls : d # Nobody
    BY CatalogueAssumption
  <2> QED
    BY <1>1, <1>2, <2>1 DEF InductiveInv, TypeOK, WritersHold
<1>5. VersionsAsAsked'
  <2>1. \A d \in Calls : phase'[d] # "new" => request'[d] \in Menu
    BY <1>1 DEF InductiveInv, TypeOK, VersionsAsAsked
  <2>2. \A d \in Calls : phase'[d] = "written" => request'[d] \in ProductRequests
    BY <1>1 DEF InductiveInv, TypeOK, VersionsAsAsked, Answers
  <2>3. \A d \in Calls : Writing(d)' => Written(d)'
    <3> SUFFICES ASSUME NEW d \in Calls, Writing(d)' PROVE Written(d)'
      OBVIOUS
    <3>1. d # c /\ Written(d)
      BY <1>2 DEF InductiveInv, VersionsAsAsked
    <3>2. /\ request'[d] = request[d] /\ target'[d] = target[d]
          /\ version'[d] = version[d]
      BY <1>1, <3>1 DEF InductiveInv, TypeOK
    <3> QED
      BY <3>1, <3>2 DEF Written, Table!Live
  <2> QED
    BY <2>1, <2>2, <2>3 DEF VersionsAsAsked
<1>6. SkusApart'
  BY <1>1, <1>2 DEF InductiveInv, TypeOK, SkusApart
<1> QED
  BY <1>3, <1>4, <1>5, <1>6 DEF InductiveInv

\* A rollback leaves the tables as they were.
LEMMA RefuseStep ==
  ASSUME InductiveInv, NEW c \in Calls, NEW outcome \in Answers,
         Refuse(c, outcome), phase[c] # "new"
  PROVE  InductiveInv'
  BY EndStep DEF Refuse, tables, InductiveInv, TypeOK

\* A statement that writes no row of products.
LEMMA ReadStep ==
  ASSUME InductiveInv, NEW c \in Calls, NEW s \in {"checked", "looked", "ready"},
         phase[c] # "new", ~ Writing(c), GoTo(c, s),
         s = "ready" => request[c] \notin ProductRequests,
         UNCHANGED <<tables, writer, request, target, version>>,
         keyShare' \in [Products -> SUBSET Calls]
  PROVE  InductiveInv'
<1>1. phase' = [phase EXCEPT ![c] = s]
  BY DEF GoTo
<1>2. /\ \A d \in Calls : Writing(d)' <=> Writing(d)
      /\ \A d \in Calls \ {c} : phase'[d] = phase[d]
  BY <1>1 DEF Writing, InductiveInv, TypeOK
<1>3. TypeOK'
  BY <1>1 DEF InductiveInv, TypeOK, Phases, tables
<1>4. WritersHold'
  BY <1>2 DEF InductiveInv, TypeOK, WritersHold
<1>5. VersionsAsAsked'
  <2>1. \A d \in Calls : Writing(d)' => Written(d)'
    BY <1>2 DEF InductiveInv, VersionsAsAsked, Written, Table!Live, tables
  <2> QED
    BY <1>1, <2>1 DEF InductiveInv, TypeOK, VersionsAsAsked
<1>6. SkusApart'
  BY <1>2 DEF InductiveInv, SkusApart, tables
<1> QED
  BY <1>3, <1>4, <1>5, <1>6 DEF InductiveInv

\* A call that begins relies on nothing yet.
LEMMA BeginStep ==
  ASSUME InductiveInv, NEW c \in Calls, Begin(c)
  PROVE  InductiveInv'
<1>1. PICK r \in Menu :
        /\ request' = [request EXCEPT ![c] = r]
        /\ phase[c] = "new" /\ phase' = [phase EXCEPT ![c] = "begun"]
        /\ UNCHANGED <<tables, locks, target, version>>
  BY DEF Begin, GoTo
<1>2. /\ ~ Writing(c) /\ ~ Writing(c)'
      /\ \A d \in Calls \ {c} : /\ Writing(d)' <=> Writing(d)
                                /\ request'[d] = request[d]
                                /\ phase'[d] = phase[d]
  BY <1>1 DEF Writing, InductiveInv, TypeOK
<1>3. TypeOK'
  BY <1>1 DEF InductiveInv, TypeOK, Phases, tables, locks
<1>4. WritersHold'
  BY <1>1, <1>2 DEF InductiveInv, TypeOK, WritersHold, locks
<1>5. VersionsAsAsked'
  <2>1. \A d \in Calls : Writing(d)' => Written(d)'
    <3> SUFFICES ASSUME NEW d \in Calls, Writing(d)' PROVE Written(d)'
      OBVIOUS
    <3>1. d # c /\ Written(d)
      BY <1>2 DEF InductiveInv, VersionsAsAsked
    <3>2. /\ request'[d] = request[d] /\ product' = product
          /\ target' = target /\ version' = version
      BY <1>1, <1>2, <3>1 DEF tables
    <3> QED
      BY <3>1, <3>2 DEF Written, Table!Live
  <2> QED
    BY <1>1, <1>2, <2>1 DEF InductiveInv, TypeOK, VersionsAsAsked
<1>6. SkusApart'
  BY <1>1, <1>2 DEF InductiveInv, SkusApart, tables
<1> QED
  BY <1>3, <1>4, <1>5, <1>6 DEF InductiveInv

\* Two rows with one SKU are one row.
LEMMA SkuOfOne ==
  ASSUME InductiveInv, NEW p \in Products, NEW q \in Products,
         product[p] # Table!NoRow, p # q
  PROVE  product[p].sku # product[q].sku
<1>1. product[p] \in Table!Row
  BY DEF InductiveInv, TypeOK
<1> QED
  BY <1>1, RowShapes DEF InductiveInv, SkusApart

\* A call writes a row nobody is writing, as it was asked.  It passes the unique
\* index with the SKU the row has, or has yet to pass it.
LEMMA WriteStep ==
  ASSUME InductiveInv, NEW c \in Calls, NEW p \in Products,
         NEW row \in Table!Row, NEW s \in {"written", "ready"},
         phase[c] # "new", ~ Writing(c), writer[p] = Nobody,
         Write(c, p, row, s), Written(c)', request[c] \in ProductRequests,
         s = "ready" => product[p] # Table!NoRow /\ row.sku = product[p].sku
  PROVE  InductiveInv'
<1>1. /\ writer' = [writer EXCEPT ![p] = c] /\ target' = [target EXCEPT ![c] = p]
      /\ version' = [version EXCEPT ![c] = row]
      /\ phase' = [phase EXCEPT ![c] = s]
      /\ product' = product /\ UNCHANGED <<status, productOf, keyShare, request>>
  BY DEF Write, GoTo, tables
<1>2. /\ Writing(c)'
      /\ \A d \in Calls \ {c} :
           /\ Writing(d)' <=> Writing(d)
           /\ target'[d] = target[d] /\ version'[d] = version[d]
           /\ phase'[d] = phase[d]
  BY <1>1 DEF Writing, InductiveInv, TypeOK
<1>3. target'[c] = p /\ version'[c] = row /\ phase'[c] = s
  BY <1>1 DEF InductiveInv, TypeOK
<1>4. TypeOK'
  BY <1>1 DEF InductiveInv, TypeOK, Phases
<1>5. WritersHold'
  <2>1. \A d \in Calls : d # Nobody
    BY CatalogueAssumption
  <2>2. \A d \in Calls \ {c} : Writing(d) => target[d] # p
    BY <2>1 DEF InductiveInv, WritersHold
  <2>3. \A q \in Products : writer'[q] = IF q = p THEN c ELSE writer[q]
    BY <1>1 DEF InductiveInv, TypeOK
  <2>4. \A q \in Products : writer[q] # Nobody => writer[q] \in Calls \ {c}
    BY DEF InductiveInv, TypeOK, WritersHold
  <2> QED
    BY <1>2, <1>3, <2>1, <2>2, <2>3, <2>4 DEF InductiveInv, WritersHold
<1>6. VersionsAsAsked'
  <2>1. ASSUME NEW d \in Calls \ {c}, Writing(d)' PROVE Written(d)'
    <3>1. Written(d)
      BY <1>2, <2>1 DEF InductiveInv, VersionsAsAsked
    <3>2. /\ request' = request /\ product' = product
          /\ target'[d] = target[d] /\ version'[d] = version[d]
      BY <1>1, <1>2
    <3> QED
      BY <3>1, <3>2 DEF Written, Table!Live
  <2> QED
    BY <1>1, <1>2, <2>1 DEF InductiveInv, VersionsAsAsked
<1>7. SkusApart'
  <2>1. ASSUME s = "ready"
        PROVE  /\ \A q \in Products \ {p} : product[q].sku # row.sku
               /\ \A d \in Calls \ {c} : phase[d] = "ready" /\ Writing(d) =>
                    version[d].sku # row.sku
    <3>1. \A q \in Products \ {p} : product[q].sku # row.sku
      BY <2>1, SkuOfOne
    <3>2. \A d \in Calls : Writing(d) => target[d] # p
      <4>1. \A d \in Calls : d # Nobody
        BY CatalogueAssumption
      <4> QED
        BY <4>1 DEF InductiveInv, WritersHold
    <3>3. \A d \in Calls : phase[d] = "ready" /\ Writing(d) =>
            version[d].sku # product[p].sku
      BY <3>2 DEF InductiveInv, SkusApart
    <3> QED
      BY <2>1, <3>1, <3>3
  <2> QED
    BY <1>1, <1>2, <1>3, <2>1 DEF InductiveInv, SkusApart
<1> QED
  BY <1>4, <1>5, <1>6, <1>7 DEF InductiveInv

\* The row passes the unique index: no other has its SKU.
LEMMA ClaimStep ==
  ASSUME InductiveInv, NEW c \in Calls, phase[c] = "written",
         Rivals(c) = {}, GoTo(c, "ready"),
         UNCHANGED <<tables, locks, request, target, version>>
  PROVE  InductiveInv'
<1>1. phase' = [phase EXCEPT ![c] = "ready"] /\ product' = product
  BY DEF GoTo, tables
<1>2. Writing(c) /\ request[c] \in ProductRequests
  BY DEF Writing, InductiveInv, VersionsAsAsked
<1>3. /\ \A d \in Calls : Writing(d)' <=> Writing(d)
      /\ \A d \in Calls \ {c} : phase'[d] = phase[d]
      /\ phase'[c] = "ready"
  BY <1>1, <1>2 DEF Writing, InductiveInv, TypeOK
<1>4. TypeOK'
  BY <1>1 DEF InductiveInv, TypeOK, Phases, tables, locks
<1>5. WritersHold'
  BY <1>3 DEF InductiveInv, TypeOK, WritersHold, locks
<1>6. VersionsAsAsked'
  <2>1. \A d \in Calls : Writing(d)' => Written(d)'
    BY <1>1, <1>3 DEF InductiveInv, VersionsAsAsked, Written, Table!Live
  <2> QED
    BY <1>2, <1>3, <2>1 DEF InductiveInv, VersionsAsAsked
<1>7. SkusApart'
  <2>1. \A q \in Products \ {target[c]} :
          /\ product[q].sku # version[c].sku
          /\ writer[q] # Nobody /\ phase[writer[q]] = "ready" =>
               version[writer[q]].sku # version[c].sku
    BY DEF Rivals
  <2>2. \A d \in Calls \ {c} : phase[d] = "ready" /\ Writing(d) =>
          version[d].sku # version[c].sku
    <3> SUFFICES ASSUME NEW d \in Calls \ {c}, phase[d] = "ready", Writing(d)
                 PROVE  version[d].sku # version[c].sku
      OBVIOUS
    <3>1. target[d] \in Products /\ writer[target[d]] = d /\ d # Nobody
      BY CatalogueAssumption DEF InductiveInv, WritersHold
    <3>2. target[d] # target[c]
      BY <1>2, <3>1 DEF InductiveInv, WritersHold
    <3> QED
      BY <2>1, <3>1, <3>2
  <2> QED
    BY <1>1, <1>3, <2>1, <2>2 DEF InductiveInv, SkusApart
<1> QED
  BY <1>4, <1>5, <1>6, <1>7 DEF InductiveInv

\* What a call has written is a row, and the row it replaces is not deleted.
LEMMA VersionShape ==
  ASSUME InductiveInv, NEW c \in Calls, Writing(c)
  PROVE  /\ target[c] \in Products /\ version[c] \in Table!Row
         /\ ~ product[target[c]].deleted
<1>1. /\ Written(c) /\ target[c] \in Products
      /\ phase[c] # "new" /\ request[c] \in ProductRequests
  BY DEF InductiveInv, VersionsAsAsked, WritersHold, Writing
<1>2. request[c] \in Requests
  BY <1>1, RequestsAsked
<1> DEFINE r == request[c]
           old == product[target[c]]
<1>3. CASE r.op = "Create"
  <2>1. version[c] = [sku |-> r.sku, name |-> r.name, deleted |-> FALSE]
        /\ old = Table!NoRow
    BY <1>1, <1>3 DEF Written
  <2>2. r.sku \in Skus /\ r.name \in Names
    BY <1>2, <1>3, RequestShapes
  <2> QED
    BY <1>1, <2>1, <2>2 DEF Table!Row, Table!NoRow
<1>4. CASE r.op # "Create"
  <2>1. old \in Table!Row /\ ~ old.deleted
    BY <1>1, <1>4, RowShapes DEF Written, Table!Live, InductiveInv, TypeOK
  <2>2. CASE r.op = "Update"
    <3>1. version[c] = [old EXCEPT !.sku  = Table!Coalesce(r.sku, @),
                                   !.name = Table!Coalesce(r.name, @)]
      BY <1>1, <2>2 DEF Written
    <3>2. r.sku \in Skus \cup {Null} /\ r.name \in Names \cup {Null}
      BY <1>2, <2>2, RequestShapes
    <3>3. Table!Coalesce(r.sku, old.sku) \in Skus
          /\ Table!Coalesce(r.name, old.name) \in Names
      BY <2>1, <3>2, RowShapes DEF Table!Coalesce
    <3> QED
      BY <1>1, <2>1, <3>1, <3>3 DEF Table!Row
  <2>3. CASE r.op = "Delete"
    <3>1. version[c] = [old EXCEPT !.deleted = TRUE]
      BY <1>1, <2>3 DEF Written
    <3> QED
      BY <1>1, <2>1, <3>1 DEF Table!Row
  <2> QED
    BY <1>1, <1>2, <1>4, <2>2, <2>3, RequestShapes
<1> QED
  BY <1>3, <1>4

\* What is committed was apart from every other row, committed or written.
LEMMA CommitStep ==
  ASSUME InductiveInv, NEW c \in Calls, ProductCommit(c)
  PROVE  InductiveInv'
<1> DEFINE p == target[c]
<1>1. /\ product' = [product EXCEPT ![p] = version[c]]
      /\ phase' = [phase EXCEPT ![c] = "ok"] /\ request' = request
      /\ writer' = [q \in Products |-> IF writer[q] = c THEN Nobody ELSE writer[q]]
      /\ target' = [target EXCEPT ![c] = Null]
      /\ version' = [version EXCEPT ![c] = Table!NoRow]
      /\ phase[c] = "ready" /\ Writing(c)
      /\ UNCHANGED <<status, productOf>>
  BY DEF ProductCommit, End, GoTo, Writing
<1>2. p \in Products /\ version[c] \in Table!Row /\ writer[p] = c
  BY <1>1, VersionShape DEF InductiveInv, WritersHold
<1>3. \A q \in Products : product'[q] = IF q = p THEN version[c] ELSE product[q]
  BY <1>1 DEF InductiveInv, TypeOK
<1>4. /\ ~ Writing(c)'
      /\ \A d \in Calls \ {c} :
           /\ Writing(d)' <=> Writing(d)
           /\ target'[d] = target[d] /\ version'[d] = version[d]
           /\ phase'[d] = phase[d]
  BY <1>1 DEF Writing, InductiveInv, TypeOK
<1>5. \A d \in Calls \ {c} : Writing(d) => target[d] \in Products /\ target[d] # p
  BY <1>2 DEF InductiveInv, WritersHold
<1>6. TypeOK'
  <2>1. keyShare' \in [Products -> SUBSET Calls]
    BY DEF ProductCommit, End, InductiveInv, TypeOK
  <2> QED
    BY <1>1, <1>2, <2>1 DEF InductiveInv, TypeOK, Phases, Answers
<1>7. WritersHold'
  <2>1. \A d \in Calls : d # Nobody
    BY CatalogueAssumption
  <2> QED
    BY <1>1, <1>4, <2>1 DEF InductiveInv, TypeOK, WritersHold
<1>8. VersionsAsAsked'
  <2>1. ASSUME NEW d \in Calls, Writing(d)' PROVE Written(d)'
    <3>1. d # c /\ Written(d)
      BY <1>4, <2>1 DEF InductiveInv, VersionsAsAsked
    <3>2. product'[target[d]] = product[target[d]]
      BY <1>3, <1>4, <1>5, <2>1, <3>1
    <3> QED
      BY <1>1, <1>4, <3>1, <3>2 DEF Written, Table!Live
  <2> QED
    BY <1>1, <2>1 DEF InductiveInv, TypeOK, VersionsAsAsked
<1>9. SkusApart'
  <2>1. \A q \in Products \ {p} : product[q].sku # version[c].sku
    BY <1>1 DEF InductiveInv, SkusApart
  <2>2. \A q, r \in Products : q # r =>
          product'[q].sku # product'[r].sku \/ product'[q].sku = Null
    BY <1>3, <2>1 DEF InductiveInv, SkusApart
  <2>3. ASSUME NEW d \in Calls \ {c}, phase[d] = "ready", Writing(d)
        PROVE  \A q \in Products \ {target[d]} : product'[q].sku # version[d].sku
    BY <1>1, <1>3, <2>3 DEF InductiveInv, SkusApart
  <2> QED
    BY <1>4, <2>2, <2>3 DEF InductiveInv, SkusApart
<1> QED
  BY <1>6, <1>7, <1>8, <1>9 DEF InductiveInv

\* A call that waits for the row it wants to write has not written any.
LEMMA NotWriting ==
  ASSUME InductiveInv, NEW c \in Calls,
         \/ phase[c] \in {"begun", "checked", "looked"}
         \/ request[c].op \in {"Receive", "Order"} /\ phase[c] # "new"
  PROVE  ~ Writing(c)
<1>1. phase[c] # "new" /\ request[c] \in Requests
  BY RequestsAsked
<1> QED
  BY <1>1, RequestShapes DEF InductiveInv, VersionsAsAsked, Writing

\* An INSERT takes an identifier nobody has.
LEMMA CreateStep ==
  ASSUME InductiveInv, NEW c \in Calls, CreateWrite(c)
  PROVE  InductiveInv'
<1> DEFINE r == request[c]
           row == [sku |-> r.sku, name |-> r.name, deleted |-> FALSE]
<1>1. phase[c] = "begun" /\ r.op = "Create"
  BY DEF CreateWrite, At
<1>2. PICK p \in Products :
        /\ product[p] = Table!NoRow /\ writer[p] = Nobody
        /\ Write(c, p, row, "written")
  BY DEF CreateWrite
<1>3. r \in Requests /\ r \in ProductRequests /\ r.sku \in Skus /\ r.name \in Names
  BY <1>1, RequestsAsked, RequestShapes
<1>4. row \in Table!Row
  BY <1>3 DEF Table!Row
<1>5. Written(c)'
  <2>1. /\ request' = request /\ product' = product
        /\ target'[c] = p /\ version'[c] = row
    BY <1>2 DEF Write, tables, InductiveInv, TypeOK
  <2> QED
    BY <1>1, <1>2, <2>1 DEF Written
<1> HIDE DEF row
<1> QED
  BY <1>1, <1>2, <1>3, <1>4, <1>5, NotWriting, WriteStep

\* An UPDATE starts from the row its WHERE clause has found live.
LEMMA UpdateStep ==
  ASSUME InductiveInv, NEW c \in Calls, UpdateWrite(c)
  PROVE  InductiveInv'
<1> DEFINE r == request[c]
           p == r.product
           old == product[p]
           new == [old EXCEPT !.sku  = Table!Coalesce(r.sku, @),
                              !.name = Table!Coalesce(r.name, @)]
           s == IF new.sku # old.sku THEN "written" ELSE "ready"
<1>1. phase[c] = "begun" /\ r.op = "Update" /\ Unwritten(p)
  BY DEF UpdateWrite, At
<1>2. /\ r \in Requests /\ r \in ProductRequests /\ p \in Products
      /\ r.sku \in Skus \cup {Null} /\ r.name \in Names \cup {Null}
  BY <1>1, RequestsAsked, RequestShapes
<1>3. CASE Refuse(c, "missing")
  BY <1>1, <1>3, RefuseStep DEF Answers
<1>4. CASE Table!Live(p) /\ Write(c, p, new, s)
  <2>1. old \in Table!Row /\ old # Table!NoRow /\ writer[p] = Nobody
    BY <1>1, <1>2, <1>4, RowShapes
    DEF Table!Live, Unwritten, InductiveInv, TypeOK
  <2>2. /\ Table!Coalesce(r.sku, old.sku) \in Skus
        /\ Table!Coalesce(r.name, old.name) \in Names
    BY <1>2, <2>1, RowShapes DEF Table!Coalesce
  <2>3. new \in Table!Row
    BY <2>1, <2>2 DEF Table!Row
  <2>4. Written(c)'
    <3>1. /\ request' = request /\ product' = product
          /\ target'[c] = p /\ version'[c] = new
      BY <1>4 DEF Write, tables, InductiveInv, TypeOK
    <3> QED
      BY <1>1, <1>4, <3>1 DEF Written, Table!Live
  <2>5. /\ s \in {"written", "ready"}
        /\ s = "ready" => old # Table!NoRow /\ new.sku = old.sku
    BY <2>1
  <2> HIDE DEF new, s
  <2> QED
    BY <1>1, <1>2, <1>4, <2>1, <2>3, <2>4, <2>5, NotWriting, WriteStep
<1> QED
  BY <1>3, <1>4 DEF UpdateWrite

\* The count writes nothing; the UPDATE keeps the SKU.
LEMMA DeleteStep ==
  ASSUME InductiveInv, NEW c \in Calls, DeleteWrite(c)
  PROVE  InductiveInv'
<1> DEFINE p == request[c].product
           new == [product[p] EXCEPT !.deleted = TRUE]
<1>1. phase[c] = "checked" /\ request[c].op = "Delete" /\ Unwritten(p)
  BY DEF DeleteWrite, At
<1>2. request[c] \in ProductRequests /\ p \in Products
  BY <1>1, RequestsAsked, RequestShapes
<1>3. CASE Refuse(c, "missing")
  BY <1>1, <1>3, RefuseStep DEF Answers
<1>4. CASE Table!Live(p) /\ Write(c, p, new, "ready")
  <2>1. /\ product[p] \in Table!Row /\ product[p] # Table!NoRow
        /\ writer[p] = Nobody
    BY <1>1, <1>2, <1>4, RowShapes
    DEF Table!Live, Unwritten, InductiveInv, TypeOK
  <2>2. new \in Table!Row /\ new.sku = product[p].sku
    BY <2>1 DEF Table!Row
  <2>3. Written(c)'
    <3>1. /\ request' = request /\ product' = product
          /\ target'[c] = p /\ version'[c] = new
      BY <1>4 DEF Write, tables, InductiveInv, TypeOK
    <3> QED
      BY <1>1, <1>4, <3>1 DEF Written, Table!Live
  <2> HIDE DEF new
  <2> QED
    BY <1>1, <1>2, <1>4, <2>1, <2>2, <2>3, NotWriting, WriteStep
<1> QED
  BY <1>3, <1>4 DEF DeleteWrite

\* The steps of the calls that make stock, and the count before a deletion.
LEMMA StockStep ==
  ASSUME InductiveInv, NEW c \in Calls,
         \/ DeleteCount(c) \/ LookUp(c) \/ LookUpInput(c) \/ BatchInsert(c)
         \/ BatchCommit(c) \/ Complete(c) \/ Quarantine(c)
  PROVE  InductiveInv'
<1>a. {"ok", "missing", "conflict", "failed"} = Answers
  BY DEF Answers
<1>t. /\ status \in [Batches -> {"NONE", "ACTIVE", "RESERVED", "QUARANTINED"}]
      /\ productOf \in [Batches -> Products]
      /\ keyShare \in [Products -> SUBSET Calls]
  BY DEF InductiveInv, TypeOK
<1>1. CASE DeleteCount(c)
  <2>1. phase[c] = "begun"
    BY <1>1 DEF DeleteCount, At
  <2> QED
    BY <1>1, <1>a, <1>t, <2>1, NotWriting, ReadStep, RefuseStep
    DEF DeleteCount, locks
<1>2. CASE LookUp(c)
  <2>1. phase[c] = "begun"
    BY <1>2 DEF LookUp
  <2> QED
    BY <1>2, <1>a, <1>t, <2>1, NotWriting, ReadStep, RefuseStep DEF LookUp, locks
<1>3. CASE LookUpInput(c)
  <2>1. phase[c] = "checked"
    BY <1>3 DEF LookUpInput, At
  <2> QED
    BY <1>3, <1>a, <1>t, <2>1, NotWriting, ReadStep, RefuseStep
    DEF LookUpInput, locks
<1>4. CASE BatchInsert(c)
  <2>1. phase[c] \in {"checked", "looked"} /\ request[c].op \in {"Receive", "Order"}
    BY <1>4 DEF BatchInsert, At
  <2>2. request[c] \notin ProductRequests
    BY <2>1, RequestsAsked, RequestShapes
  <2>3. keyShare' \in [Products -> SUBSET Calls]
    BY <1>4, <1>t DEF BatchInsert
  <2> QED
    BY <1>4, <2>1, <2>2, <2>3, NotWriting, ReadStep DEF BatchInsert
<1>5. CASE BatchCommit(c)
  <2>1. phase[c] = "ready" /\ request[c].op \in {"Receive", "Order"}
    BY <1>5 DEF BatchCommit, At
  <2>2. request[c].product \in Products
    BY <2>1, RequestsAsked, RequestShapes
  <2>3. /\ status' \in [Batches -> {"NONE", "ACTIVE", "RESERVED", "QUARANTINED"}]
        /\ productOf' \in [Batches -> Products]
    BY <1>5, <1>t, <2>2 DEF BatchCommit
  <2> QED
    BY <1>5, <1>a, <2>1, <2>3, EndStep DEF BatchCommit
<1>6. CASE Complete(c)
  <2>1. phase[c] = "begun"
    BY <1>6 DEF Complete, At
  <2>2. CASE Refuse(c, "conflict")
    BY <1>a, <2>1, <2>2, RefuseStep
  <2>3. CASE ~ Refuse(c, "conflict")
    <3>1. status' \in [Batches -> {"NONE", "ACTIVE", "RESERVED", "QUARANTINED"}]
      BY <1>6, <1>t, <2>3 DEF Complete
    <3> QED
      BY <1>6, <1>a, <1>t, <2>1, <2>3, <3>1, EndStep DEF Complete
  <2> QED
    BY <2>2, <2>3
<1>7. CASE Quarantine(c)
  <2>1. phase[c] = "begun"
    BY <1>7 DEF Quarantine, At
  <2>2. CASE \E a \in Answers : Refuse(c, a)
    BY <2>1, <2>2, RefuseStep
  <2>3. CASE ~ \E a \in Answers : Refuse(c, a)
    <3>1. /\ status' \in [Batches -> {"NONE", "ACTIVE", "RESERVED", "QUARANTINED"}]
          /\ End(c, "ok") /\ UNCHANGED <<product, productOf>>
      BY <1>7, <1>a, <1>t, <2>3 DEF Quarantine
    <3> QED
      BY <1>a, <1>t, <2>1, <3>1, EndStep
  <2> QED
    BY <2>2, <2>3
<1> QED
  BY <1>1, <1>2, <1>3, <1>4, <1>5, <1>6, <1>7

\* Every step of the specification preserves the invariant.
LEMMA InvStep ==
  ASSUME InductiveInv, [Next]_vars
  PROVE  InductiveInv'
<1>1. CASE UNCHANGED vars
  <2>1. /\ product' = product /\ status' = status /\ productOf' = productOf
        /\ writer' = writer /\ keyShare' = keyShare /\ phase' = phase
        /\ request' = request /\ target' = target /\ version' = version
    BY <1>1 DEF vars, tables, locks
  <2>2. TypeOK'
    BY <2>1 DEF InductiveInv, TypeOK
  <2>3. \A c : (Writing(c)' <=> Writing(c)) /\ (Written(c)' <=> Written(c))
    BY <2>1 DEF Writing, Written, Table!Live
  <2>4. WritersHold'
    BY <2>1, <2>3 DEF InductiveInv, WritersHold
  <2>5. VersionsAsAsked'
    BY <2>1, <2>3 DEF InductiveInv, VersionsAsAsked
  <2>6. SkusApart'
    BY <2>1, <2>3 DEF InductiveInv, SkusApart
  <2> QED
    BY <2>2, <2>4, <2>5, <2>6 DEF InductiveInv
<1>2. ASSUME NEW c \in Calls, Claim(c)
      PROVE  InductiveInv'
  <2>1. phase[c] = "written"
    BY <1>2 DEF Claim
  <2>2. CASE \E a \in Answers : Refuse(c, a)
    BY <2>1, <2>2, RefuseStep
  <2>3. CASE ~ \E a \in Answers : Refuse(c, a)
    BY <1>2, <2>1, <2>3, ClaimStep DEF Claim, Answers
  <2> QED
    BY <2>2, <2>3
<1>3. ASSUME NEW c \in Calls, DeadlockVictim(c) \/ Abort(c)
      PROVE  InductiveInv'
  <2>1. CASE Abort(c)
    BY <2>1, RefuseStep DEF Abort, InWork, Answers
  <2>2. CASE DeadlockVictim(c)
    <3>1. PICK S \in SUBSET Calls :
            c \in S /\ S # {} /\ \A d \in S : \E e \in S : WaitsFor(d, e)
      BY <2>2 DEF DeadlockVictim
    <3>2. phase[c] = "written"
      BY <3>1 DEF WaitsFor
    <3> QED
      BY <2>2, <3>2, RefuseStep DEF DeadlockVictim, Answers
  <2> QED
    BY <1>3, <2>1, <2>2
<1> QED
  BY <1>1, <1>2, <1>3, BeginStep, CreateStep, UpdateStep, DeleteStep, StockStep,
     CommitStep
  DEF Next, Statement

\* The inductive invariant of Catalogue, for any number of calls and products.
THEOREM Invariance == Spec => []InductiveInv
  BY InitInv, InvStep, PTL DEF Spec

\* The tables, locks and calls are well formed in every state.
THEOREM TypeCorrect == Spec => []TypeOK
<1>1. InductiveInv => TypeOK
  BY DEF InductiveInv
<1> QED
  BY <1>1, Invariance, PTL

-----------------------------------------------------------------------------
(* Deletion                                                                *)

\* The only step that changes a row of products is the commit of the call
\* that has written it, and that row is not a deleted one.
LEMMA ProductChanges ==
  ASSUME InductiveInv, [Next]_vars, product' # product
  PROVE  \E c \in Calls : ProductCommit(c) /\ ~ product[target[c]].deleted
<1>1. Next
  BY DEF vars, tables
<1>2. PICK c \in Calls : ProductCommit(c)
  BY <1>1
  DEF Next, Statement, Begin, DeadlockVictim, Abort, Refuse, tables, CreateWrite,
      Write, Claim, UpdateWrite, DeleteCount, DeleteWrite, LookUp, LookUpInput,
      BatchInsert, BatchCommit, Complete, Quarantine
<1>3. Written(c)
  BY <1>2 DEF ProductCommit, InductiveInv, VersionsAsAsked, Writing
<1> QED
  BY <1>2, <1>3 DEF Written, Table!Live, Table!NoRow

\* A deleted product is never changed again, whatever an update that waited
\* for the deletion, or another deletion, had read before (DeletionIsFinal).
THEOREM DeletionFinal == Spec => DeletionIsFinal
<1>1. ASSUME InductiveInv, [Next]_vars
      PROVE  [\A p \in Products : product[p].deleted => product'[p] = product[p]]_vars
  <2>1. CASE product' = product
    BY <2>1
  <2>2. CASE product' # product
    <3>1. PICK c \in Calls : ProductCommit(c) /\ ~ product[target[c]].deleted
      BY <1>1, <2>2, ProductChanges
    <3> QED
      BY <1>1, <3>1 DEF ProductCommit, InductiveInv, TypeOK
  <2> QED
    BY <2>1, <2>2
<1> QED
  BY <1>1, Invariance, PTL DEF Spec, DeletionIsFinal

\* The only calls that give a batch to a product, or make one ACTIVE, are those
\* that Closed excludes.
LEMMA ClosedLots ==
  ASSUME InductiveInv, [Next]_vars, NEW p \in Products, Closed(p),
         NEW b \in Batches, productOf'[b] = p
  PROVE  status'[b] \in {"NONE", "QUARANTINED"}
<1>1. CASE UNCHANGED <<status, productOf>>
  BY <1>1 DEF Closed
<1>2. CASE ~ UNCHANGED <<status, productOf>>
  <2>1. PICK c \in Calls : BatchCommit(c) \/ Complete(c) \/ Quarantine(c)
    BY <1>2
    DEF Next, Statement, Begin, DeadlockVictim, Abort, Refuse, vars, tables,
        CreateWrite, Write, Claim, UpdateWrite, DeleteCount, DeleteWrite,
        LookUp, LookUpInput, BatchInsert, ProductCommit
  <2>2. CASE BatchCommit(c)
    <3>1. request[c].product # p
      BY <2>2 DEF BatchCommit, At, Closed
    <3>2. PICK a \in Batches :
            /\ status' = [status EXCEPT ![a] =
                            IF request[c].op = "Order" THEN "RESERVED" ELSE "ACTIVE"]
            /\ productOf' = [productOf EXCEPT ![a] = request[c].product]
      BY <2>2 DEF BatchCommit
    <3>3. b # a
      BY <3>1, <3>2 DEF InductiveInv, TypeOK
    <3> QED
      BY <3>2, <3>3 DEF InductiveInv, TypeOK, Closed
  <2>3. CASE Complete(c)
    BY <1>2, <2>3 DEF Complete, Refuse, tables, InductiveInv, TypeOK, Closed
  <2>4. CASE Quarantine(c)
    BY <1>2, <2>4 DEF Quarantine, Refuse, tables, InductiveInv, TypeOK, Closed
  <2> QED
    BY <2>1, <2>2, <2>3, <2>4
<1> QED
  BY <1>1, <1>2

\* A call that makes stock gets past its first statement only if the product is
\* alive.
LEMMA ClosedCalls ==
  ASSUME InductiveInv, [Next]_vars, NEW p \in Products, Closed(p),
         NEW c \in Calls, phase'[c] \in {"checked", "looked", "ready"},
         request'[c].op \in {"Receive", "Order"}
  PROVE  request'[c].product # p
<1>1. CASE phase'[c] = phase[c] /\ request'[c] = request[c]
  BY <1>1 DEF Closed
<1>2. CASE ~ (phase'[c] = phase[c] /\ request'[c] = request[c])
  <2>1. Begin(c) \/ Statement(c) \/ DeadlockVictim(c) \/ Abort(c)
    <3>1. PICK d \in Calls : Begin(d) \/ Statement(d) \/ DeadlockVictim(d) \/ Abort(d)
      BY <1>2 DEF Next, vars
    <3>2. c = d
      BY <1>2, <3>1
      DEF Statement, Begin, DeadlockVictim, Abort, Refuse, End, GoTo,
          CreateWrite, Write, Claim, UpdateWrite, DeleteCount, DeleteWrite,
          LookUp, LookUpInput, BatchInsert, BatchCommit, Complete, Quarantine,
          ProductCommit, InductiveInv, TypeOK
    <3> QED
      BY <3>1, <3>2
  <2>2. ~ \E a \in Answers : GoTo(c, a)
    BY DEF GoTo, Answers, InductiveInv, TypeOK
  <2>3. ~ Begin(c)
    BY DEF Begin, GoTo, InductiveInv, TypeOK
  <2>4. /\ request' = request /\ phase[c] # "new"
        /\ phase[c] = "begun" => Table!Live(request[c].product)
        /\ phase[c] \in {"begun", "checked", "looked"}
    <3>1. Statement(c)
      BY <2>1, <2>2, <2>3 DEF DeadlockVictim, Abort, Refuse, End, Answers
    <3>2. ~ Claim(c)
      <4>1. SUFFICES ASSUME Claim(c) PROVE FALSE
        OBVIOUS
      <4>2. request' = request /\ phase[c] = "written"
        BY <2>2, <4>1 DEF Claim, Refuse, End, Answers
      <4>3. request[c] \in Requests /\ request[c] \in ProductRequests
        BY <4>2, RequestsAsked DEF InductiveInv, VersionsAsAsked
      <4> QED
        BY <4>2, <4>3, RequestShapes
    <3>3. ~ (CreateWrite(c) \/ UpdateWrite(c) \/ DeleteCount(c) \/ DeleteWrite(c))
      BY <2>2 DEF CreateWrite, UpdateWrite, DeleteCount, DeleteWrite, Write,
                  Refuse, End, At, Answers
    <3>4. ~ (ProductCommit(c) \/ BatchCommit(c) \/ Complete(c) \/ Quarantine(c))
      BY <2>2 DEF ProductCommit, BatchCommit, Complete, Quarantine, Refuse, End,
                  Answers
    <3>5. LookUp(c) \/ LookUpInput(c) \/ BatchInsert(c)
      BY <3>1, <3>2, <3>3, <3>4 DEF Statement
    <3> QED
      BY <2>2, <3>5 DEF LookUp, LookUpInput, BatchInsert, Refuse, End, At, Answers
  <2> QED
    BY <2>4 DEF Closed, Table!Live
<1> QED
  BY <1>1, <1>2

\* Once the calls that overlapped its deletion are over and their stock is out
\* of circulation, a deleted product never has stock again (ClosedForGood).
THEOREM ClosedStaysClosed == Spec => ClosedForGood
<1>1. ASSUME InductiveInv, [Next]_vars
      PROVE  [\A p \in Products : Closed(p) => Closed(p)']_vars
  <2>1. SUFFICES ASSUME NEW p \in Products, Closed(p)
                 PROVE  Closed(p)'
    OBVIOUS
  <2>2. product'[p].deleted
    <3>1. CASE product' = product
      BY <2>1, <3>1 DEF Closed
    <3>2. CASE product' # product
      <4>1. PICK c \in Calls : ProductCommit(c) /\ ~ product[target[c]].deleted
        BY <1>1, <3>2, ProductChanges
      <4> QED
        BY <1>1, <2>1, <4>1 DEF ProductCommit, InductiveInv, TypeOK, Closed
    <3> QED
      BY <3>1, <3>2
  <2> QED
    BY <1>1, <2>1, <2>2, ClosedLots, ClosedCalls DEF Closed
<1> QED
  BY <1>1, Invariance, PTL DEF Spec, ClosedForGood

-----------------------------------------------------------------------------
(* The refinement                                                          *)

\* Clients see nothing of a step that leaves the table alone and answers no
\* request about it.
LEMMA Unseen ==
  ASSUME NEW c \in Calls, product' = product, phase[c] \notin Answers,
         \A d \in Calls \ {c} : phase'[d] = phase[d] /\ request'[d] = request[d],
         phase'[c] \notin Answers \/ request'[c] \notin ProductRequests
  PROVE  [Table!Next]_<<product, Given>>
<1>1. \A d \in Calls : Given'[d] = Given[d]
  BY DEF Given
<1>2. Given' = Given
  BY <1>1 DEF Given
<1> QED
  BY <1>2

\* The answer to a request about products is the reply of the table.
LEMMA Seen ==
  ASSUME InductiveInv, NEW c \in Calls, NEW outcome \in Answers, InWork(c),
         request[c] \in ProductRequests, End(c, outcome)
  PROVE  Table!Reply(c, request[c], outcome)
<1>1. phase' = [phase EXCEPT ![c] = outcome] /\ request' = request
  BY DEF End, GoTo
<1>2. Given[c] = Null
  BY DEF Given, InWork
<1>3. \A d \in Calls : Given'[d] = IF d = c
                         THEN [request |-> request[c], outcome |-> outcome]
                         ELSE Given[d]
  BY <1>1 DEF Given, InductiveInv, TypeOK
<1>4. Given' = [Given EXCEPT ![c] = [request |-> request[c], outcome |-> outcome]]
  BY <1>3 DEF Given
<1> QED
  BY <1>2, <1>4 DEF Table!Reply

\* A call that is refused is told "failed", or what is true of the table.
LEMMA RefusalSeen ==
  ASSUME InductiveInv, NEW c \in Calls, NEW a \in Answers, InWork(c), Refuse(c, a),
         LET r == request[c] IN
           r \in ProductRequests =>
             \/ a = "failed"
             \/ a = "missing" /\ r.op \in {"Update", "Delete"} /\ ~ Table!Live(r.product)
             \/ a = "conflict" /\ r.op = "Create" /\ Table!Taken(r.sku)
             \/ a = "conflict" /\ r.op = "Delete"
  PROVE  [Table!Next]_<<product, Given>>
<1>1. End(c, a) /\ product' = product
  BY DEF Refuse, tables
<1>2. CASE request[c] \notin ProductRequests
  BY <1>1, <1>2, Unseen DEF End, GoTo, InWork, InductiveInv, TypeOK
<1>3. CASE request[c] \in ProductRequests
  <2>1. request[c] \in Menu \cap ProductRequests
    BY <1>3, RequestsAsked DEF InWork
  <2>2. Table!Reply(c, request[c], a)
    BY <1>1, <1>3, Seen
  <2> QED
    BY <1>1, <2>1, <2>2 DEF Table!Next, Table!Create, Table!Update, Table!Delete
<1> QED
  BY <1>2, <1>3

\* A commit is the whole request in one step: what was written while the row
\* was locked is what the request makes of the table as it is now.
LEMMA CommitSeen ==
  ASSUME InductiveInv, NEW c \in Calls, ProductCommit(c)
  PROVE  [Table!Next]_<<product, Given>>
<1> DEFINE r == request[c]
           p == target[c]
<1>1. /\ phase[c] = "ready" /\ r \in Menu \cap ProductRequests /\ Writing(c)
      /\ product' = [product EXCEPT ![p] = version[c]]
      /\ Written(c) /\ p \in Products
  BY RequestsAsked DEF ProductCommit, Writing, InductiveInv, VersionsAsAsked, WritersHold
<1>2. Table!Reply(c, r, "ok")
  BY <1>1, Seen DEF ProductCommit, InWork, Answers
<1>3. \A q \in Products \ {p} : product[q].sku # version[c].sku
  BY <1>1 DEF InductiveInv, SkusApart
<1>4. r \in Requests /\ product \in [Products -> Table!Row \cup {Table!NoRow}]
  BY <1>1, RequestsAsked DEF InductiveInv, TypeOK
<1>5. CASE r.op = "Create" /\ product[p] = Table!NoRow
           /\ version[c] = [sku |-> r.sku, name |-> r.name, deleted |-> FALSE]
  <2>1. r.sku # Null
    BY <1>4, <1>5, RequestShapes, CatalogueAssumption
  <2>2. ~ Table!Taken(r.sku)
    BY <1>3, <1>5, <2>1, RowShapes DEF Table!Taken
  <2> QED
    BY <1>1, <1>2, <1>5, <2>2 DEF Table!Next, Table!Create
<1>6. CASE r.op = "Update" /\ p = r.product /\ Table!Live(p)
           /\ version[c] = [product[p] EXCEPT !.sku  = Table!Coalesce(r.sku, @),
                                              !.name = Table!Coalesce(r.name, @)]
  <2>1. product[p] \in Table!Row
    BY <1>1, <1>4, <1>6, RowShapes DEF Table!Live
  <2>2. version[c].sku = Table!Coalesce(r.sku, product[p].sku)
    BY <1>6, <2>1 DEF Table!Row
  <2>3. Table!Coalesce(r.sku, product[p].sku) # product[p].sku
          => ~ Table!Taken(r.sku)
    BY <1>3, <2>2 DEF Table!Taken, Table!Coalesce
  <2>4. product' = [product EXCEPT ![r.product].sku  = Table!Coalesce(r.sku, @),
                                 ![r.product].name = Table!Coalesce(r.name, @)]
    BY <1>1, <1>4, <1>6, <2>1 DEF Table!Row
  <2>5. Table!Update(c, r)
    BY <1>2, <1>6, <2>3, <2>4 DEF Table!Update
  <2> QED
    BY <1>1, <1>6, <2>5 DEF Table!Next
<1>7. CASE r.op = "Delete" /\ p = r.product /\ Table!Live(p)
           /\ version[c] = [product[p] EXCEPT !.deleted = TRUE]
  BY <1>1, <1>2, <1>7 DEF Table!Next, Table!Delete
<1> QED
  BY <1>1, <1>5, <1>6, <1>7 DEF Written

\* A unique violation is found only when a committed row has the SKU.
LEMMA ClaimSeen ==
  ASSUME InductiveInv, NEW c \in Calls, Claim(c)
  PROVE  [Table!Next]_<<product, Given>>
<1> DEFINE a == IF request[c].op = "Create" THEN "conflict" ELSE "failed"
<1>1. phase[c] = "written" /\ InWork(c)
  BY DEF Claim, InWork, Answers
<1>2. CASE Refuse(c, a) /\ \E q \in Rivals(c) : writer[q] = Nobody
  <2>1. PICK q \in Products : product[q].sku = version[c].sku
    BY <1>2, CatalogueAssumption DEF Rivals
  <2>2. Written(c) /\ request[c] \in ProductRequests
    BY <1>1 DEF InductiveInv, VersionsAsAsked, Writing
  <2>3. request[c].op = "Create" => Table!Taken(request[c].sku)
    BY <2>1, <2>2 DEF Written, Table!Taken
  <2> QED
    BY <1>1, <1>2, <2>3, RefusalSeen DEF Answers
<1>3. CASE GoTo(c, "ready") /\ UNCHANGED <<tables, request>>
  BY <1>1, <1>3, Unseen DEF GoTo, tables, InductiveInv, TypeOK, Answers
<1> QED
  BY <1>2, <1>3 DEF Claim

\* A statement that is not the last of its call.
LEMMA StatementUnseen ==
  ASSUME InductiveInv, NEW c \in Calls, NEW s \in Phases \ Answers, GoTo(c, s),
         phase[c] \notin Answers, product' = product,
         \A d \in Calls \ {c} : request'[d] = request[d]
  PROVE  [Table!Next]_<<product, Given>>
  BY Unseen DEF GoTo, InductiveInv, TypeOK

\* Each statement is a step of the table or none.
LEMMA StatementSeen ==
  ASSUME InductiveInv, NEW c \in Calls, Statement(c)
  PROVE  [Table!Next]_<<product, Given>>
<1>1. CASE CreateWrite(c)
  BY <1>1, StatementUnseen DEF CreateWrite, Write, At, tables, Phases, Answers
<1>2. CASE Claim(c)
  BY <1>2, ClaimSeen
<1>3. CASE UpdateWrite(c)
  <2>1. phase[c] = "begun" /\ request[c].op = "Update" /\ InWork(c)
    BY <1>3 DEF UpdateWrite, At, InWork, Answers
  <2>2. CASE ~ Table!Live(request[c].product) /\ Refuse(c, "missing")
    BY <2>1, <2>2, RefusalSeen DEF Answers
  <2>3. CASE \E row, s : s \in {"written", "ready"} /\ Write(c, request[c].product, row, s)
    BY <2>1, <2>3, StatementUnseen DEF Write, tables, Phases, Answers
  <2> QED
    BY <1>3, <2>2, <2>3 DEF UpdateWrite
<1>4. CASE DeleteCount(c)
  <2>1. phase[c] = "begun" /\ request[c].op = "Delete" /\ InWork(c)
    BY <1>4 DEF DeleteCount, At, InWork, Answers
  <2>2. CASE Refuse(c, "conflict")
    BY <2>1, <2>2, RefusalSeen DEF Answers
  <2>3. CASE GoTo(c, "checked") /\ UNCHANGED <<tables, request>>
    BY <2>1, <2>3, StatementUnseen DEF tables, Phases, Answers
  <2> QED
    BY <1>4, <2>2, <2>3 DEF DeleteCount
<1>5. CASE DeleteWrite(c)
  <2>1. phase[c] = "checked" /\ request[c].op = "Delete" /\ InWork(c)
    BY <1>5 DEF DeleteWrite, At, InWork, Answers
  <2>2. CASE ~ Table!Live(request[c].product) /\ Refuse(c, "missing")
    BY <2>1, <2>2, RefusalSeen DEF Answers
  <2>3. CASE \E p, row : Write(c, p, row, "ready")
    BY <2>1, <2>3, StatementUnseen DEF Write, tables, Phases, Answers
  <2> QED
    BY <1>5, <2>2, <2>3 DEF DeleteWrite
<1>6. CASE ProductCommit(c)
  BY <1>6, CommitSeen
<1>7. CASE LookUp(c) \/ LookUpInput(c) \/ BatchInsert(c) \/ BatchCommit(c)
             \/ Complete(c) \/ Quarantine(c)
  <2>1. /\ InWork(c) /\ phase[c] # "new" /\ product' = product /\ request' = request
        /\ request[c].op \notin {"Create", "Update", "Delete"}
    BY <1>7 DEF LookUp, LookUpInput, BatchInsert, BatchCommit, Complete,
                Quarantine, Refuse, End, tables, At, InWork, Answers
  <2>2. request[c] \notin ProductRequests
    BY <2>1, RequestsAsked, RequestShapes
  <2>3. \E s : GoTo(c, s)
    BY <1>7 DEF LookUp, LookUpInput, BatchInsert, BatchCommit, Complete,
                Quarantine, Refuse, End
  <2> QED
    BY <2>1, <2>2, <2>3, Unseen DEF GoTo, InWork, InductiveInv, TypeOK
<1> QED
  BY <1>1, <1>2, <1>3, <1>4, <1>5, <1>6, <1>7 DEF Statement

\* The services implement the atomic products table: what each call is told is
\* what one step of the table would have told it (ImplementsProductTable).
THEOREM ImplementsTable == Spec => ImplementsProductTable
<1>1. Init => Table!Init
  BY DEF Init, Table!Init, Given, Answers
<1>2. ASSUME InductiveInv, [Next]_vars
      PROVE  [Table!Next]_<<product, Given>>
  <2>1. CASE UNCHANGED vars
    BY <2>1 DEF vars, tables, Given
  <2>2. ASSUME NEW c \in Calls, Begin(c)
        PROVE  [Table!Next]_<<product, Given>>
    BY <1>2, <2>2, StatementUnseen
    DEF Begin, tables, Phases, Answers, InductiveInv, TypeOK
  <2>3. ASSUME NEW c \in Calls, DeadlockVictim(c) \/ Abort(c)
        PROVE  [Table!Next]_<<product, Given>>
    <3>1. InWork(c) /\ Refuse(c, "failed")
      <4>1. CASE DeadlockVictim(c)
        <5>1. PICK S \in SUBSET Calls :
                c \in S /\ \A d \in S : \E e \in S : WaitsFor(d, e)
          BY <4>1 DEF DeadlockVictim
        <5> QED
          BY <4>1, <5>1 DEF DeadlockVictim, WaitsFor, InWork, Answers
      <4> QED
        BY <2>3, <4>1 DEF Abort
    <3> QED
      BY <1>2, <3>1, RefusalSeen DEF Answers
  <2> QED
    BY <1>2, <2>1, <2>2, <2>3, StatementSeen DEF Next
<1> QED
  BY <1>1, <1>2, Invariance, PTL DEF Spec, ImplementsProductTable, Table!Spec
=============================================================================
