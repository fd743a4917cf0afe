---------------------------- MODULE ListingProofs ----------------------------
(***************************************************************************)
(* Proofs about Listing, for any finite set of rows, any stamps and any    *)
(* limits.                                                                 *)
(***************************************************************************)
EXTENDS Listing, FiniteSetTheorems, TLAPS

\* Sets of rows are finite, and a smaller one has fewer elements.
LEMMA Counting ==
  ASSUME NEW S \in SUBSET Rows, NEW T \in SUBSET S
  PROVE  /\ IsFiniteSet(S) /\ IsFiniteSet(T)
         /\ Cardinality(S) \in Nat /\ Cardinality(T) \in Nat
         /\ Cardinality(T) <= Cardinality(S)
         /\ T # S => Cardinality(T) < Cardinality(S)
<1>1. IsFiniteSet(S)
  BY ListingAssumption, FS_Subset
<1>2. IsFiniteSet(T)
  BY <1>1, FS_Subset
<1> QED
  BY <1>1, <1>2, FS_Subset, FS_CardinalityType

\* Every set of rows can be served: a page is never stuck for want of an order.
LEMMA FirstType ==
  ASSUME NEW S \in SUBSET Rows, NEW n \in Nat, NEW F \in First(S, n)
  PROVE  /\ F \in SUBSET S
         /\ Cardinality(F) <= n
         /\ F # S => Cardinality(F) = n
         /\ \A r \in F, s \in S \ F : Stamp[r] >= Stamp[s]
<1>1. F \in SUBSET S /\ Cardinality(F) = Least(n, Cardinality(S))
  BY DEF First
<1>2. Cardinality(S) \in Nat /\ (F # S => Cardinality(F) < Cardinality(S))
  BY <1>1, Counting
<1>3. Cardinality(F) <= n /\ (F # S => Cardinality(F) = n)
  BY <1>1, <1>2 DEF Least
<1> QED BY <1>1, <1>3 DEF First

\* A row that is skipped has fewer rows ahead of it than are skipped.
LEMMA SkippedAhead ==
  ASSUME TypeOK, NEW n \in Nat, NEW F \in First(Listed, n),
         NEW r \in F, Untied(r)
  PROVE  Cardinality(Ahead(r)) < n
<1>1. /\ F \in SUBSET Listed /\ Cardinality(F) <= n
      /\ \A f \in F, s \in Listed \ F : Stamp[f] >= Stamp[s]
  BY FirstType DEF Listed
<1>2. Listed \in SUBSET Rows /\ \A s \in Rows : Stamp[s] \in Int
  BY ListingAssumption DEF Listed
<1>3. Ahead(r) \in SUBSET F /\ r \notin Ahead(r)
  BY <1>1, <1>2 DEF Ahead, Newer
<1>4. Cardinality(Ahead(r)) \in Nat /\ Cardinality(F) \in Nat
      /\ Cardinality(Ahead(r)) < Cardinality(F)
  BY <1>1, <1>2, <1>3, Counting
<1> QED BY <1>1, <1>4

\* A row that is not skipped has all that are skipped ahead of it.
LEMMA NotSkippedAhead ==
  ASSUME TypeOK, NEW n \in Nat, NEW F \in First(Listed, n),
         NEW r \in Listed \ F, Untied(r)
  PROVE  /\ F \in SUBSET Ahead(r) /\ Cardinality(F) = n
         /\ Cardinality(Ahead(r)) \in Nat /\ Cardinality(Ahead(r)) >= n
<1>0. Listed \in SUBSET Rows /\ F # Listed
  BY DEF Listed
<1>1. /\ F \in SUBSET Listed /\ Cardinality(F) = n
      /\ \A f \in F, s \in Listed \ F : Stamp[f] >= Stamp[s]
  BY <1>0, FirstType
<1>2. Listed \in SUBSET Rows /\ \A s \in Rows : Stamp[s] \in Int
  BY ListingAssumption DEF Listed
<1>3. F \in SUBSET Ahead(r) /\ Ahead(r) \in SUBSET Rows
  <2> SUFFICES ASSUME NEW f \in F PROVE f \in Ahead(r)
    BY DEF Ahead, Newer
  <2>1. Stamp[f] >= Stamp[r] /\ Stamp[f] # Stamp[r]
    BY <1>1, <1>2 DEF Untied
  <2> QED BY <1>1, <1>2, <2>1 DEF Ahead, Newer
<1> QED BY <1>1, <1>3, Counting

\* Two windows, one after the other, are one window.
LEMMA Consecutive ==
  ASSUME NEW S \in SUBSET Rows, NEW m \in Nat, NEW n \in Nat,
         NEW F \in First(S, m), NEW G \in First(S \ F, n)
  PROVE  F \cup G \in First(S, m + n)
<1>1. /\ F \in SUBSET S /\ Cardinality(F) <= m /\ (F # S => Cardinality(F) = m)
      /\ \A r \in F, s \in S \ F : Stamp[r] >= Stamp[s]
  BY FirstType
<1>2. /\ G \in SUBSET (S \ F) /\ Cardinality(G) <= n
      /\ (G # S \ F => Cardinality(G) = n)
      /\ \A r \in G, s \in (S \ F) \ G : Stamp[r] >= Stamp[s]
  <2>1. S \ F \in SUBSET Rows
    OBVIOUS
  <2> QED BY <2>1, FirstType
<1>3. /\ IsFiniteSet(F) /\ IsFiniteSet(G) /\ Cardinality(F) \in Nat
      /\ Cardinality(G) \in Nat /\ Cardinality(S) \in Nat
  BY <1>1, <1>2, Counting
<1>4. Cardinality(F \cup G) = Cardinality(F) + Cardinality(G)
  <2>1. F \cap G = {} /\ Cardinality({}) = 0
    BY <1>2, FS_EmptySet
  <2>2. Cardinality(F \cup G) = Cardinality(F) + Cardinality(G) - Cardinality(F \cap G)
    BY <1>3, FS_Union
  <2>3. Cardinality(F) + Cardinality(G) - 0 = Cardinality(F) + Cardinality(G)
    BY <1>3
  <2> QED BY <2>1, <2>2, <2>3
<1>5. /\ F \cup G \in SUBSET S
      /\ F \cup G # S => Cardinality(F \cup G) < Cardinality(S)
  BY <1>1, <1>2, Counting
<1>6. Cardinality(F \cup G) = Least(m + n, Cardinality(S))
  <2>1. CASE F \cup G = S
    <3>1. Cardinality(S) = Cardinality(F) + Cardinality(G)
      BY <1>4, <2>1
    <3>2. Cardinality(S) <= m + n
      BY <1>1, <1>2, <1>3, <3>1
    <3> QED BY <1>3, <2>1, <3>2 DEF Least
  <2>2. CASE F \cup G # S
    <3>1. Cardinality(F) = m /\ Cardinality(G) = n
      BY <1>1, <1>2, <2>2
    <3> QED BY <1>3, <1>4, <1>5, <2>2, <3>1 DEF Least
  <2> QED BY <2>1, <2>2
<1>7. \A r \in F \cup G, s \in S \ (F \cup G) : Stamp[r] >= Stamp[s]
  BY <1>1, <1>2
<1> QED BY <1>5, <1>6, <1>7 DEF First

\* Whatever limit is asked for, a page has room for a row.
LEMMA LimitType == \A n \in Nat : Limit(n) \in Nat \ {0}
  BY ListingAssumption DEF Limit

-----------------------------------------------------------------------------
(* Rows that come and leave                                                *)

\* How a row that comes or leaves changes what is ahead of another.
LEMMA AheadCounted ==
  ASSUME NEW r \in Rows, NEW A \in SUBSET Rows, NEW B \in SUBSET A
  PROVE  /\ Cardinality(Newer(r) \cap A) \in Nat /\ Cardinality(Newer(r) \cap B) \in Nat
         /\ Cardinality(Newer(r) \cap B) <= Cardinality(Newer(r) \cap A)
<1>1. Newer(r) \cap A \in SUBSET Rows /\ Newer(r) \cap B \in SUBSET (Newer(r) \cap A)
  BY DEF Newer
<1> QED BY <1>1, Counting

\* A row that comes pushes older rows back: one that was to be shown still is.
LEMMA EnterStep ==
  ASSUME InductiveInv, NEW e \in Rows, Enter(e)
  PROVE  InductiveInv'
<1> USE DEF InductiveInv
<1>1. /\ UNCHANGED <<list, since, asked, offset, seen, twice, done>>
      /\ row[e] = "coming" /\ row' = [row EXCEPT ![e] = "listed"]
  BY DEF Enter
<1>2. e \notin since \cup seen
  BY <1>1 DEF Kept
<1>3. /\ Listed' = Listed \cup {e} /\ e \notin Listed /\ Left' = Left
      /\ Came' = Came \cup {e}
  BY <1>1, <1>2 DEF Listed, Left, Came, TypeOK
<1>4. TypeOK' /\ Kept'
  BY <1>1, <1>3 DEF TypeOK, Kept
<1>5. NoneMissed' /\ NoneTwice'
  BY <1>1, <1>2, <1>3 DEF NoneMissed, NoneTwice
<1>6. ASSUME asked \in 1..MaxLimit PROVE Progress'
  <2> SUFFICES ASSUME NEW r \in Listed', Untied(r)
               PROVE  /\ r \in since \ seen /\ Newer(r) \cap Left = {} =>
                           Cardinality(Ahead(r)') >= offset
                      /\ r \in seen /\ Newer(r) \cap Came' = {} =>
                           Cardinality(Ahead(r)') < offset
    BY <1>1, <1>3 DEF Progress, Untied, Newer
  <2>1. CASE r = e
    BY <1>2, <2>1
  <2>2. CASE r # e
    <3>1. r \in Listed /\ r \in Rows
      BY <1>3, <2>2 DEF Listed
    <3>2. /\ Listed' \in SUBSET Rows /\ Listed \in SUBSET Listed'
          /\ Ahead(r) = Newer(r) \cap Listed /\ Ahead(r)' = Newer(r) \cap Listed'
      BY <1>3 DEF Listed, Ahead, Newer
    <3>3. /\ Cardinality(Ahead(r)) \in Nat /\ Cardinality(Ahead(r)') \in Nat
          /\ Cardinality(Ahead(r)) <= Cardinality(Ahead(r)')
      BY <3>1, <3>2, AheadCounted
    <3>4. Newer(r) \cap Came' = {} => Newer(r) \cap Came = {} /\ Ahead(r)' = Ahead(r)
      BY <1>3, <3>2
    <3> QED BY <1>6, <3>1, <3>3, <3>4 DEF Progress, TypeOK
  <2> QED BY <2>1, <2>2
<1> QED BY <1>1, <1>4, <1>5, <1>6

\* A row that leaves pulls older rows forward, for which the invariant makes allowance.
LEMMA DepartStep ==
  ASSUME InductiveInv, NEW e \in Rows, Depart(e)
  PROVE  InductiveInv'
<1> USE DEF InductiveInv
<1>1. /\ UNCHANGED <<list, since, asked, offset, seen, twice, done>>
      /\ list # "transactions"
      /\ row[e] = "listed" /\ row' = [row EXCEPT ![e] = "gone"]
  BY DEF Depart
<1>2. /\ Listed' = Listed \ {e} /\ Left' = Left \cup {e} /\ Came' = Came
  BY <1>1 DEF Listed, Left, Came, TypeOK
<1>3. TypeOK' /\ Kept'
  BY <1>1 DEF TypeOK, Kept
<1>4. NoneMissed' /\ NoneTwice'
  BY <1>1, <1>2 DEF NoneMissed, NoneTwice
<1>5. ASSUME asked \in 1..MaxLimit PROVE Progress'
  <2> SUFFICES ASSUME NEW r \in Listed', Untied(r)
               PROVE  /\ r \in since \ seen /\ Newer(r) \cap Left' = {} =>
                           Cardinality(Ahead(r)') >= offset
                      /\ r \in seen /\ Newer(r) \cap Came = {} =>
                           Cardinality(Ahead(r)') < offset
    BY <1>1, <1>2 DEF Progress, Untied, Newer
  <2>1. r \in Listed /\ r \in Rows
    BY <1>2 DEF Listed
  <2>2. /\ Listed \in SUBSET Rows /\ Listed' \in SUBSET Listed
        /\ Ahead(r) = Newer(r) \cap Listed /\ Ahead(r)' = Newer(r) \cap Listed'
    BY <1>2 DEF Listed, Ahead, Newer
  <2>3. /\ Cardinality(Ahead(r)) \in Nat /\ Cardinality(Ahead(r)') \in Nat
        /\ Cardinality(Ahead(r)') <= Cardinality(Ahead(r))
    BY <2>1, <2>2, AheadCounted
  <2>4. Newer(r) \cap Left' = {} => Newer(r) \cap Left = {} /\ Ahead(r)' = Ahead(r)
    BY <1>2, <2>2
  <2> QED BY <1>5, <2>1, <2>3, <2>4 DEF Progress, TypeOK
<1> QED BY <1>1, <1>3, <1>4, <1>5

-----------------------------------------------------------------------------
(* A page                                                                  *)

\* A page shows the rows it moves past, and no others.
LEMMA PageStep ==
  ASSUME InductiveInv, Page
  PROVE  InductiveInv'
<1> USE DEF InductiveInv
<1>1. PICK skipped \in First(Listed, offset) :
      \E p \in First(Listed \ skipped, Limit(asked)) :
        /\ seen' = seen \cup p /\ twice' = twice \cup (seen \cap p) /\ done' = (p = {})
  BY DEF Page
<1>2. PICK page \in First(Listed \ skipped, Limit(asked)) :
        /\ seen' = seen \cup page /\ twice' = twice \cup (seen \cap page)
        /\ done' = (page = {})
  BY <1>1
<1>3. /\ UNCHANGED <<list, row, since, asked>> /\ offset' = offset + asked /\ ~ done
      /\ asked \in Nat /\ offset \in Nat /\ Limit(asked) \in Nat \ {0}
  BY ListingAssumption, LimitType DEF Page, TypeOK
<1>4. Listed \in SUBSET Rows /\ Listed \ skipped \in SUBSET Rows
  BY DEF Listed
<1>5. skipped \in SUBSET Listed /\ page \in SUBSET (Listed \ skipped)
  BY <1>2, <1>3, <1>4, FirstType
<1>6. Listed' = Listed /\ Left' = Left /\ Came' = Came
  BY <1>3 DEF Listed, Left, Came
<1>7. TypeOK' /\ Kept'
  BY <1>2, <1>3, <1>5, <1>6 DEF TypeOK, Kept, Listed
<1>8. ASSUME asked \in 1..MaxLimit
      PROVE  Progress' /\ NoneMissed' /\ NoneTwice'
  <2>1. Limit(asked) = asked
    BY <1>8 DEF Limit
  <2>2. skipped \cup page \in First(Listed, offset + asked)
    BY <1>2, <1>3, <1>4, <2>1, Consecutive
  <2>3. ASSUME NEW r \in Listed, Untied(r)
        PROVE  /\ r \in Rows /\ Ahead(r)' = Ahead(r)
               /\ r \in skipped => Cardinality(Ahead(r)) < offset
               /\ r \notin skipped => Cardinality(Ahead(r)) >= offset
               /\ r \in skipped \cup page => Cardinality(Ahead(r)) < offset'
               /\ r \notin skipped \cup page => Cardinality(Ahead(r)) >= offset'
    <3>1. Ahead(r)' = Ahead(r) /\ r \in Rows
      BY <1>6 DEF Ahead, Newer, Listed
    <3>2. r \in skipped => Cardinality(Ahead(r)) < offset
      BY <1>3, <2>3, SkippedAhead
    <3>3. r \notin skipped => Cardinality(Ahead(r)) >= offset
      BY <1>3, <2>3, NotSkippedAhead
    <3>4. offset + asked \in Nat
      BY <1>3
    <3>5. r \in skipped \cup page => Cardinality(Ahead(r)) < offset + asked
      BY <2>2, <2>3, <3>4, SkippedAhead
    <3>6. r \notin skipped \cup page => Cardinality(Ahead(r)) >= offset + asked
      BY <2>2, <2>3, <3>4, NotSkippedAhead
    <3> QED BY <1>3, <3>1, <3>2, <3>3, <3>5, <3>6
  <2>4. ASSUME NEW r \in Listed, Untied(r)
        PROVE  Cardinality(Ahead(r)) \in Nat
    <3>1. Ahead(r) \in SUBSET Rows
      BY DEF Ahead, Newer
    <3> QED BY <3>1, Counting
  \* What is skipped of the rows still to be shown has had a newer one leave.
  <2>5. ASSUME NEW r \in Listed, Untied(r), r \in since \ seen, Newer(r) \cap Left = {}
        PROVE  r \notin skipped
    BY <1>3, <1>8, <2>3, <2>4, <2>5 DEF Progress
  <2>6. ASSUME NEW r \in Listed, Untied(r), r \in seen, Newer(r) \cap Came = {}
        PROVE  r \in skipped
    BY <1>3, <1>8, <2>3, <2>4, <2>6 DEF Progress
  <2>7. Progress'
    <3> SUFFICES ASSUME NEW r \in Listed, Untied(r)
                 PROVE  /\ r \in since \ seen' /\ Newer(r) \cap Left = {} =>
                             Cardinality(Ahead(r)) >= offset'
                        /\ r \in seen' /\ Newer(r) \cap Came = {} =>
                             Cardinality(Ahead(r)) < offset'
      BY <1>3, <1>6, <2>3 DEF Progress, Untied, Newer
    <3> QED BY <1>2, <2>3, <2>5, <2>6
  <2>8. NoneMissed'
    <3> SUFFICES ASSUME page = {}, NEW r \in (since \cap Listed) \ seen, Untied(r)
                 PROVE  list # "transactions" /\ Newer(r) \cap Left # {}
      BY <1>2, <1>3, <1>6 DEF NoneMissed, Untied, Newer
    <3>1. Listed \ skipped = {}
      <4> SUFFICES ASSUME Listed \ skipped # {} PROVE FALSE
        OBVIOUS
      <4>1. Cardinality(page) = Limit(asked)
        BY <1>2, <1>3, <1>4, FirstType
      <4> QED BY <1>3, <4>1, FS_EmptySet
    <3> QED BY <2>5, <3>1 DEF Kept
  <2>9. NoneTwice'
    <3> SUFFICES ASSUME NEW r \in seen \cap page, Untied(r)
                 PROVE  Newer(r) \cap Came # {}
      BY <1>2, <1>3, <1>6 DEF NoneTwice, Untied, Newer
    <3> QED BY <1>5, <2>6
  <2> QED BY <2>7, <2>8, <2>9
<1>9. asked \notin 1..MaxLimit => NoneMissed' /\ NoneTwice'
  BY <1>3 DEF NoneMissed, NoneTwice
<1> QED BY <1>3, <1>7, <1>8, <1>9

-----------------------------------------------------------------------------
(* The theorems                                                            *)

\* Before the first page nothing is shown, and nothing has been skipped.
LEMMA Initially == Init => InductiveInv
<1> SUFFICES ASSUME Init PROVE InductiveInv
  OBVIOUS
<1>1. TypeOK /\ Kept
  BY DEF Init, TypeOK, Kept, Listed, Left
<1>2. \A r \in Rows : Cardinality(Ahead(r)) >= 0
  <2> SUFFICES ASSUME NEW r \in Rows PROVE Cardinality(Ahead(r)) >= 0
    OBVIOUS
  <2>1. Ahead(r) \in SUBSET Rows
    BY DEF Ahead, Newer
  <2> QED BY <2>1, Counting
<1>3. Progress /\ NoneMissed /\ NoneTwice
  BY <1>2 DEF Init, Progress, Listed, NoneMissed, NoneTwice
<1> QED BY <1>1, <1>3 DEF InductiveInv

\* Whatever comes and leaves between the pages, the reader stands between the
\* rows it has been shown and those it still has to be shown.
THEOREM Invariance == Spec => []InductiveInv
<1>1. InductiveInv /\ UNCHANGED vars => InductiveInv'
  BY DEF InductiveInv, vars, TypeOK, Kept, Progress, NoneMissed, NoneTwice, Listed, Left,
         Came, Ahead, Newer, Untied
<1>2. InductiveInv /\ [Next]_vars => InductiveInv'
  BY <1>1, PageStep, EnterStep, DepartStep DEF Next
<1> QED BY <1>2, Initially, PTL DEF Spec

\* A reading of the ledger is whole but for ties, and no reading misses a row
\* that was there throughout unless a newer one left.
THEOREM ReadingIsWhole == Spec => []NoneMissed
<1>1. InductiveInv => NoneMissed
  BY DEF InductiveInv
<1> QED BY <1>1, Invariance, PTL

\* No reading repeats a row unless a newer one came.
THEOREM ReadingRepeatsNothing == Spec => []NoneTwice
<1>1. InductiveInv => NoneTwice
  BY DEF InductiveInv
<1> QED BY <1>1, Invariance, PTL
=============================================================================
