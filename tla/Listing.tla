------------------------------- MODULE Listing -------------------------------
(***************************************************************************)
(* The paged listings: InventoryService.List, ProductService.List and      *)
(* ProductionOrderService.List.  Each page is one query of its own,        *)
(* ORDER BY created_at DESC LIMIT l OFFSET o, so rows come and go between  *)
(* the pages of one reading.  created_at is now(), the time a transaction  *)
(* began: rows of one transaction have it in common, and a row may appear  *)
(* below others that were committed before it.                             *)
(*                                                                         *)
(* Stock transactions are never deleted and their filters are on columns   *)
(* that never change; a product leaves its listing when it is deleted, and *)
(* an order enters and leaves the listing of a status as its own changes.  *)
(*                                                                         *)
(* Definitions marked "Fault:" are plausible bugs, used nowhere.           *)
(***************************************************************************)
EXTENDS Integers, FiniteSets

CONSTANTS
  Rows,        \* the rows the filter of the listing can ever admit
  Stamp,       \* their created_at
  Requested,   \* the limits a client may ask for
  MaxLimit,    \* the largest limit that is granted, 100 in the code
  Default      \* the limit otherwise, 20 in the code

ASSUME ListingAssumption ==
  /\ IsFiniteSet(Rows)
  /\ Stamp \in [Rows -> Int]
  /\ Requested \subseteq Nat
  /\ MaxLimit \in Nat /\ Default \in 1..MaxLimit

VARIABLES
  list,        \* which of the listings is read
  row,         \* whether a row is listed yet, still, or no more
  since,       \* the rows that were listed when the reader began
  asked,       \* the limit the reader asks for on every page
  offset,      \* how many rows it has asked for already
  seen,        \* the rows it has been shown
  twice,       \* those it has been shown on two pages
  done         \* it has been shown an empty page

vars == <<list, row, since, asked, offset, seen, twice, done>>

Listed == {r \in Rows : row[r] = "listed"}

Init ==
  /\ list \in {"transactions", "products", "orders"}
  /\ row \in [Rows -> {"coming", "listed"}]
  /\ since = Listed
  /\ asked \in Requested
  /\ offset = 0
  /\ seen = {} /\ twice = {}
  /\ done = FALSE

\* A transaction that inserts the row commits, or an order takes the status.
Enter(r) ==
  /\ row[r] = "coming"
  /\ row' = [row EXCEPT ![r] = "listed"]
  /\ UNCHANGED <<list, since, asked, offset, seen, twice, done>>

\* A product is deleted, or an order loses the status.
Depart(r) ==
  /\ list # "transactions"
  /\ row[r] = "listed"
  /\ row' = [row EXCEPT ![r] = "gone"]
  /\ UNCHANGED <<list, since, asked, offset, seen, twice, done>>

-----------------------------------------------------------------------------
(* A page                                                                  *)

Least(m, n) == IF m < n THEN m ELSE n

\* Fault: the largest limit itself is taken for too large.
LimitShort(n) == IF n \in 1..(MaxLimit - 1) THEN n ELSE Default

\* A limit that is no number, not positive or too large is as good as none.
Limit(n) == IF n \in 1..MaxLimit THEN n ELSE Default

\* Fault: the query has no ORDER BY.
FirstUnsorted(S, n) == {F \in SUBSET S : Cardinality(F) = Least(n, Cardinality(S))}

\* The n rows of S that ORDER BY created_at DESC may put first: ties have no
\* order, and may be broken differently on every page.
First(S, n) ==
  {F \in SUBSET S :
     /\ Cardinality(F) = Least(n, Cardinality(S))
     /\ \A r \in F, s \in S \ F : Stamp[r] >= Stamp[s]}

\* The reader goes on by what it asked for, until a page is empty.
Page ==
  /\ ~ done
  /\ \E skipped \in First(Listed, offset) :
     \E page \in First(Listed \ skipped, Limit(asked)) :
       /\ seen' = seen \cup page
       /\ twice' = twice \cup (seen \cap page)
       /\ done' = (page = {})
  /\ offset' = offset + asked
  /\ UNCHANGED <<list, row, since, asked>>

Next == Page \/ \E r \in Rows : Enter(r) \/ Depart(r)

Spec == Init /\ [][Next]_vars

-----------------------------------------------------------------------------
(* Properties                                                              *)

TypeOK ==
  /\ list \in {"transactions", "products", "orders"}
  /\ row \in [Rows -> {"coming", "listed", "gone"}]
  /\ since \in SUBSET Rows
  /\ asked \in Requested
  /\ offset \in Nat
  /\ seen \in SUBSET Rows /\ twice \in SUBSET seen
  /\ done \in BOOLEAN

Untied(r) == \A s \in Rows \ {r} : Stamp[s] # Stamp[r]
Newer(r)  == {s \in Rows : Stamp[s] > Stamp[r]}

\* Rows that came or left after the reader began.
Came == {r \in Rows \ since : row[r] # "coming"}
Left == {r \in Rows : row[r] = "gone"}

\* A reader that asks for no more than it can be granted and reads to the end
\* misses a row that was there throughout only if the row shares its stamp
\* with another, or a newer one left the listing meanwhile.  The ledger, where
\* nothing leaves, is read whole.
NoneMissed ==
  done /\ asked \in 1..MaxLimit =>
    \A r \in (since \cap Listed) \ seen : Untied(r) =>
      list # "transactions" /\ Newer(r) \cap Left # {}

\* Such a reader is shown a row twice only if the row shares its stamp with
\* another, or a newer one came meanwhile.
NoneTwice ==
  asked \in 1..MaxLimit =>
    \A r \in twice : Untied(r) => Newer(r) \cap Came # {}

-----------------------------------------------------------------------------
(* The inductive invariant of the proofs                                   *)

\* The listed rows ahead of r.
Ahead(r) == Newer(r) \cap Listed

\* A row the reader still has to be shown is not among those it skips, and one
\* it has been shown is, whatever came behind and whatever left behind.
Progress ==
  \A r \in Listed : Untied(r) =>
    /\ r \in since \ seen /\ Newer(r) \cap Left = {} =>
         Cardinality(Ahead(r)) >= offset
    /\ r \in seen /\ Newer(r) \cap Came = {} => Cardinality(Ahead(r)) < offset

\* The ledger loses no row, and what was listed or shown is not to come.
Kept ==
  /\ list = "transactions" => Left = {}
  /\ \A r \in since \cup seen : row[r] # "coming"

InductiveInv ==
  /\ TypeOK /\ Kept
  /\ asked \in 1..MaxLimit => Progress
  /\ NoneMissed /\ NoneTwice
=============================================================================
