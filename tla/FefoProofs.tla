----------------------------- MODULE FefoProofs -----------------------------
(***************************************************************************)
(* Proofs about Fefo, for every number of batches and every format of      *)
(* floats that PrecisionAssumption admits.                                 *)
(*                                                                         *)
(* A rounding is off by at most Slack.  The loop rounds twice per batch,   *)
(* so what remains is off by a known number of slacks, always less than    *)
(* half a decimal place: a comparison of floats that are meant to differ   *)
(* comes out as that of the decimals, and a formatted float is the decimal *)
(* that was meant.                                                         *)
(***************************************************************************)
EXTENDS Fefo, FiniteSetTheorems, WellFoundedInduction, TLAPS

-----------------------------------------------------------------------------
(* Arithmetic.                                                             *)

\* Quotient and remainder of naturals.
LEMMA Division ==
  ASSUME NEW x \in Nat, NEW u \in Nat \ {0}
  PROVE  /\ x \div u \in Nat /\ x % u \in 0 .. (u - 1)
         /\ x = u * (x \div u) + (x % u)
  OBVIOUS

\* A product grows with its factor.
LEMMA Products ==
  ASSUME NEW u \in Nat, NEW a \in Int, NEW b \in Int, a <= b
  PROVE  u * a <= u * b
  OBVIOUS

\* The quotient of y is the only a with a * u at most y and y less than one u
\* more.
LEMMA QuotientUnique ==
  ASSUME NEW y \in Nat, NEW u \in Nat \ {0}, NEW a \in Nat,
         u * a <= y, y < u * a + u
  PROVE  y \div u = a
<1> DEFINE b == y \div u
           r == y % u
<1>1. b \in Nat /\ r \in 0 .. (u - 1) /\ y = u * b + r
  BY Division
<1> HIDE DEF b, r
<1>2. ASSUME a >= b + 1 PROVE FALSE
  <2>1. u * a >= u * (b + 1) /\ u * (b + 1) = u * b + u
    BY <1>1, <1>2, Products
  <2> QED
    BY <1>1, <2>1
<1>3. ASSUME b >= a + 1 PROVE FALSE
  <2>1. u * b >= u * (a + 1) /\ u * (a + 1) = u * a + u
    BY <1>1, <1>3, Products
  <2> QED
    BY <1>1, <2>1
<1> QED
  BY <1>1, <1>2, <1>3 DEF b

\* A quotient grows with the number divided.
LEMMA QuotientGrows ==
  ASSUME NEW x \in Nat, NEW y \in Nat, x <= y, NEW u \in Nat \ {0}
  PROVE  x \div u <= y \div u
<1> DEFINE a == x \div u
           b == y \div u
           r == x % u
           s == y % u
<1>1. /\ a \in Nat /\ r \in 0 .. (u - 1) /\ x = u * a + r
      /\ b \in Nat /\ s \in 0 .. (u - 1) /\ y = u * b + s
  BY Division
<1> HIDE DEF a, b, r, s
<1>2. ASSUME a >= b + 1 PROVE FALSE
  <2>1. u * a >= u * (b + 1) /\ u * (b + 1) = u * b + u
    BY <1>1, <1>2, Products
  <2> QED
    BY <1>1, <2>1
<1> QED
  BY <1>1, <1>2 DEF a, b

\* Powers of two are positive and grow, as the numbers of subsets do.
LEMMA PowersOfTwo ==
  ASSUME NEW m \in Nat, NEW n \in Nat, m <= n
  PROVE  2^m \in Nat \ {0} /\ 2^m <= 2^n
<1> DEFINE D(k) == 1 .. k
<1>1. ASSUME NEW k \in Nat
      PROVE  /\ IsFiniteSet(D(k)) /\ IsFiniteSet(SUBSET D(k))
             /\ Cardinality(SUBSET D(k)) = 2^k
  <2>1. IsFiniteSet(D(k)) /\ Cardinality(D(k)) = k
    BY FS_Interval
  <2> HIDE DEF D
  <2> QED
    BY <2>1, FS_SUBSET
<1>2. D(m) \subseteq D(n)
  OBVIOUS
<1> HIDE DEF D
<1>3. SUBSET D(m) \in SUBSET (SUBSET D(n))
  BY <1>2
<1>4. Cardinality(SUBSET D(m)) <= Cardinality(SUBSET D(n))
  BY <1>1, <1>3, FS_Subset
<1>5. Cardinality(SUBSET D(m)) \in Nat /\ SUBSET D(m) # {}
  BY <1>1, FS_CardinalityType
<1>6. Cardinality(SUBSET D(m)) # 0
  BY <1>1, <1>5, FS_EmptySet
<1> QED
  BY <1>1, <1>4, <1>5, <1>6

\* A set of naturals that is not empty has a least element.
LEMMA LeastNatural ==
  ASSUME NEW X \in SUBSET Nat, X # {}
  PROVE  \E m \in X : \A k \in X : m <= k
<1>1. PICK m \in X : \A k \in X : ~ (<<k, m>> \in OpToRel(<, Nat))
  BY NatLessThanWellFounded, WFMin
<1>2. \A k \in X : ~ (k < m)
  BY <1>1 DEF OpToRel
<1> QED
  BY <1>2

-----------------------------------------------------------------------------
(* Rounding.                                                               *)

\* The last digit exists, and the floats about smaller numbers are as dense.
LEMMA SpacingGrows ==
  ASSUME NEW x \in Nat, NEW y \in Nat, x <= y, Fits(y, Exponent)
  PROVE  Spacing(x) \in Nat \ {0} /\ Spacing(x) <= Spacing(y)
<1> USE FefoAssumption
<1> DEFINE Small(e, z) == Fits(z, e) /\ \A d \in 0 .. (e - 1) : ~ Fits(z, d)
<1>1. \A e \in Nat : Fits(y, e) => Fits(x, e)
  <2>1. 2^Precision \in Nat \ {0}
    BY PowersOfTwo
  <2>2. x \div Scale \in Nat /\ y \div Scale \in Nat /\ x \div Scale <= y \div Scale
    BY Division, QuotientGrows
  <2> DEFINE a == (x \div Scale) \div 2^Precision
             b == (y \div Scale) \div 2^Precision
  <2>3. a \in Nat /\ b \in Nat /\ a <= b
    BY <2>1, <2>2, Division, QuotientGrows
  <2>4. \A e \in Nat : 2^e \in Nat
    BY PowersOfTwo
  <2>5. \A e \in Nat : (Fits(x, e) <=> a < 2^e) /\ (Fits(y, e) <=> b < 2^e)
    BY DEF Fits
  <2> HIDE DEF a, b
  <2> QED
    BY <2>3, <2>4, <2>5
<1>2. ASSUME NEW z \in Nat, Fits(z, Exponent)
      PROVE  LastDigit(z) \in 0 .. Exponent /\ Small(LastDigit(z), z)
  <2> DEFINE X == {e \in Nat : Fits(z, e)}
  <2>1. PICK m \in X : \A k \in X : m <= k
    BY <1>2, LeastNatural
  <2>2. m \in 0 .. Exponent /\ Small(m, z)
    BY <1>2, <2>1
  <2> QED
    BY <2>2 DEF LastDigit
<1>3. LastDigit(x) \in 0 .. Exponent /\ LastDigit(y) \in 0 .. Exponent
  BY <1>1, <1>2
<1>4. LastDigit(x) <= LastDigit(y)
  BY <1>1, <1>2, <1>3
<1> DEFINE d == LastDigit(x)
           e == LastDigit(y)
<1>5. 2^d \in Nat \ {0} /\ 2^e \in Nat \ {0} /\ 2^d <= 2^e
  BY <1>3, <1>4, PowersOfTwo
<1>6. Spacing(x) = Scale * 2^d /\ Spacing(y) = Scale * 2^e
  BY DEF Spacing
<1> HIDE DEF d, e
<1>7. Scale * 2^d <= Scale * 2^e /\ Scale * 2^d \in Nat /\ Scale * 2^d # 0
  <2> DEFINE p == 2^d
             q == 2^e
  <2> HIDE DEF p, q
  <2>1. p \in Nat \ {0} /\ q \in Nat \ {0} /\ p <= q
    BY <1>5 DEF p, q
  <2>2. Scale * p <= Scale * q /\ Scale * p \in Nat /\ Scale * p # 0
    BY <2>1
  <2> QED
    BY <2>2 DEF p, q
<1> QED
  BY <1>6, <1>7

\* A number is rounded to a natural at most half a spacing away, and zero to
\* itself.
LEMMA NearestIsNear ==
  ASSUME NEW x \in Nat, Spacing(x) \in Nat \ {0}
  PROVE  /\ Nearest(x) \in Nat
         /\ 2 * Nearest(x) - 2 * x \in - Spacing(x) .. Spacing(x)
         /\ x = 0 => Nearest(x) = 0
<1> DEFINE u   == Spacing(x)
           low == x \div u
           r   == x % u
           up  == 2 * r < u \/ (2 * r = u /\ low % 2 = 0)
<1>1. low \in Nat /\ r \in 0 .. (u - 1) /\ x = u * low + r /\ u \in Nat \ {0}
  BY Division
<1>2. Nearest(x) = IF up THEN low * u ELSE (low + 1) * u
  BY DEF Nearest
<1> HIDE DEF low, r, u
<1>3. up => 2 * r <= u
  BY <1>1
<1>4. ~ up => 2 * r >= u
  BY <1>1
<1> HIDE DEF up
<1>5. low * u = u * low /\ (low + 1) * u = u * low + u /\ u * low \in Nat
  BY <1>1
<1>6. x = 0 => r = 0 /\ u * low = 0
  BY <1>1, <1>5
<1>7. x = 0 => up
  BY <1>1, <1>4, <1>6
<1>8. /\ Nearest(x) \in Nat
      /\ 2 * Nearest(x) - 2 * x \in - u .. u
      /\ x = 0 => Nearest(x) = 0
  BY <1>1, <1>2, <1>3, <1>4, <1>5, <1>6, <1>7
<1> QED
  BY <1>8 DEF u

\* A decimal is a number of decimal places, each some number of grains.
LEMMA Grains ==
  /\ Exact(1) \in Nat \ {0}
  /\ \A n \in Int : Exact(n) = n * Exact(1) /\ Exact(n) \in Int
<1> DEFINE g == 2^Exponent
<1>1. g \in Nat \ {0}
  BY PowersOfTwo, FefoAssumption
<1>2. \A n : Exact(n) = n * g
  BY DEF Exact
<1> HIDE DEF g
<1>3. Exact(1) = g
  BY <1>1, <1>2
<1>4. \A n \in Int : n * g \in Int
  BY <1>1
<1> QED
  BY <1>1, <1>2, <1>3, <1>4

\* As many slacks as a sale needs are no more than half a decimal place.
LEMMA SlackIsSmall ==
  /\ Slack \in Nat
  /\ 4 * (Length + 1) * Slack <= Exact(1)
  /\ \A k \in Nat : 4 * (Length + 1) * k <= Exact(1) => k <= Slack
<1> DEFINE u == 4 * (Length + 1)
           r == Exact(1) % u
<1>1. u \in Nat \ {0}
  BY FefoAssumption
<1>2. Slack \in Nat /\ r \in 0 .. (u - 1) /\ Exact(1) = u * Slack + r
  BY <1>1, Grains, Division DEF Slack
<1> HIDE DEF u, r
<1>3. \A k \in Nat : u * k <= Exact(1) => k <= Slack
  <2> SUFFICES ASSUME NEW k \in Nat, u * k <= Exact(1), k >= Slack + 1
               PROVE  FALSE
    BY <1>2
  <2>1. u * k >= u * (Slack + 1) /\ u * (Slack + 1) = u * Slack + u
    BY <1>1, <1>2, Products
  <2> QED
    BY <1>1, <1>2, <2>1, Grains, SMTT(30)
<1>4. u * Slack <= Exact(1)
  BY <1>1, <1>2, Grains
<1> QED
  BY <1>2, <1>3, <1>4 DEF u

\* A number within the range of a quantity is rounded to one at most a slack
\* away.
LEMMA RoundingIsNear ==
  ASSUME NEW n \in Stocks \cup Requests,
         NEW x \in Nat, x <= Exact(n + 1)
  PROVE  /\ Nearest(x) \in Nat
         /\ Nearest(x) - x \in - Slack .. Slack
         /\ x = 0 => Nearest(x) = 0
<1> DEFINE m == n + 1
           u == Spacing(x)
           U == Spacing(Exact(m))
           G == Exact(1)
<1>1. m \in Nat /\ Exact(m) \in Nat
  BY FefoAssumption, Grains
<1>2. u \in Nat \ {0} /\ U \in Nat /\ u <= U
  BY <1>1, SpacingGrows, PrecisionAssumption
<1>3. 2 * (Length + 1) * U <= G
  BY PrecisionAssumption
<1>4. /\ Nearest(x) \in Nat
      /\ 2 * Nearest(x) - 2 * x \in - u .. u
      /\ x = 0 => Nearest(x) = 0
  BY <1>2, NearestIsNear
<1> HIDE DEF m, u, U, G
<1>5. ASSUME NEW k \in Nat, 2 * k <= u
      PROVE  k <= Slack
  <2>1. 2 * (Length + 1) \in Nat /\ 2 * k <= U
    BY <1>2, <1>5, FefoAssumption
  <2>2. 2 * (Length + 1) * (2 * k) <= 2 * (Length + 1) * U
    BY <1>2, <2>1, Products
  <2>3. 2 * (Length + 1) * (2 * k) = 4 * (Length + 1) * k
    BY FefoAssumption
  <2>4. G \in Nat
    BY Grains DEF G
  <2>5. 4 * (Length + 1) * k \in Nat /\ 2 * (Length + 1) * U \in Nat
    BY <1>2, FefoAssumption
  <2>6. 4 * (Length + 1) * k <= G
    BY <1>3, <2>2, <2>3, <2>4, <2>5
  <2> QED
    BY <2>6, SlackIsSmall DEF G
<1>6. CASE Nearest(x) >= x
  BY <1>2, <1>4, <1>5, <1>6, SlackIsSmall
<1>7. CASE Nearest(x) < x
  <2>1. x - Nearest(x) <= Slack
    BY <1>2, <1>4, <1>5, <1>7
  <2> QED
    BY <1>4, <1>7, <2>1, SlackIsSmall
<1> QED
  BY <1>4, <1>6, <1>7

\* A quantity read from the database is a slack away from what it means.
LEMMA DoubleIsNear ==
  ASSUME NEW n \in Stocks \cup Requests
  PROVE  /\ Double(n) \in Nat
         /\ Double(n) - Exact(n) \in - Slack .. Slack
         /\ Double(n) <= Exact(n + 1)
<1>1. /\ n \in Nat /\ Exact(n) = n * Exact(1) /\ Exact(n + 1) = (n + 1) * Exact(1)
      /\ Exact(1) \in Nat \ {0}
  BY Grains, FefoAssumption
<1>2. Exact(n + 1) = Exact(n) + Exact(1) /\ Exact(n) \in Nat
  BY <1>1
<1>3. Double(n) = Nearest(Exact(n))
  BY <1>2 DEF Double, Rounded
<1>4. Double(n) \in Nat /\ Double(n) - Exact(n) \in - Slack .. Slack
  BY <1>1, <1>2, <1>3, RoundingIsNear
<1>5. Slack <= Exact(1)
  <2> DEFINE k == 4 * (Length + 1)
  <2>1. k \in Nat /\ k >= 1 /\ Slack \in Nat /\ Exact(1) \in Nat
        /\ k * Slack <= Exact(1)
    BY Grains, SlackIsSmall, FefoAssumption
  <2> HIDE DEF k
  <2>2. Slack * 1 <= Slack * k /\ Slack * k = k * Slack /\ Slack * 1 = Slack
    BY <2>1, Products
  <2> QED
    BY <2>1, <2>2
<1> QED
  BY <1>1, <1>2, <1>4, <1>5, SlackIsSmall

-----------------------------------------------------------------------------
(* What is nearly a decimal means that decimal.                            *)

\* Floats that are nearly decimals compare as the decimals do, if they differ.
LEMMA ComparesAsDecimals ==
  ASSUME NEW a \in Int, NEW b \in Int, NEW x \in Int, NEW y \in Int,
         NEW d \in Nat, NEW e \in Nat, d + e < Exact(1),
         Near(x, a, d), Near(y, b, e)
  PROVE  a < b => x < y
<1> DEFINE G == Exact(1)
<1>1. /\ G \in Nat /\ Exact(a) = a * G /\ Exact(b) = b * G
      /\ Exact(a) \in Int /\ Exact(b) \in Int
  BY Grains
<1> HIDE DEF G
<1>2. ASSUME a < b PROVE x < y
  <2>1. G * (a + 1) <= G * b /\ G * (a + 1) = a * G + G /\ G * b = b * G
    BY <1>1, <1>2, Products
  <2>2. Exact(a) + G <= Exact(b)
    BY <1>1, <2>1
  <2> QED
    BY <1>1, <2>2 DEF Near, G
<1> QED
  BY <1>2

\* A float that is nearly a decimal is formatted as that decimal.
LEMMA FormatsAsMeant ==
  ASSUME NEW n \in Nat, NEW x \in Nat, NEW e \in Nat, 2 * e < Exact(1),
         Near(x, n, e)
  PROVE  Format(x) = n
<1> DEFINE G == Exact(1)
           h == G \div 2
           r == G % 2
<1>1. G \in Nat \ {0} /\ Exact(n) = n * G /\ Exact(n) \in Int
  BY Grains
<1>2. h \in Nat /\ r \in 0 .. 1 /\ G = 2 * h + r
  BY <1>1
<1>3. Format(x) = (x + h) \div G
  BY DEF Format
<1>4. n * G = G * n
  BY <1>1
<1> HIDE DEF h, r
<1>5. x - Exact(n) \in - e .. e /\ 2 * e < G
  BY DEF Near
<1> HIDE DEF G
<1>6. /\ x + h \in Nat
      /\ G * n <= x + h /\ x + h < G * n + G
  BY <1>1, <1>2, <1>4, <1>5
<1> QED
  BY <1>1, <1>3, <1>6, QuotientUnique

\* Four slacks are no more than a decimal place, and less than one if they are
\* at least one grain.
LEMMA FourSlacks ==
  /\ Slack \in Nat
  /\ 4 * Slack <= Exact(1)
  /\ Exact(1) \in Nat \ {0}
  /\ 3 * Slack < Exact(1)
<1>1. /\ Slack \in Nat /\ Exact(1) \in Nat \ {0} /\ Length \in Nat
      /\ 4 * (Length + 1) * Slack <= Exact(1)
  BY Grains, SlackIsSmall, FefoAssumption
<1>2. Slack * 4 <= Slack * (4 * (Length + 1))
  BY <1>1, Products
<1>3. /\ Slack * (4 * (Length + 1)) = 4 * (Length + 1) * Slack
      /\ Slack * 4 = 4 * Slack
      /\ 4 * (Length + 1) * Slack \in Nat
  BY <1>1
<1> QED
  BY <1>1, <1>2, <1>3

\* The comparisons of Adjust and Complete, of any two quantities.
LEMMA GuardsCompareDecimals ==
  ASSUME NEW s \in Stocks, NEW r \in Requests
  PROVE  /\ AdjustRefuses(s, - r) <=> s < r
         /\ CompleteRefuses(s, r) <=> s < r
         /\ Format(Double(r)) = r
<1> DEFINE x == Double(s)
           y == Double(r)
<1>1. /\ s \in Nat /\ r \in Nat \ {0}
      /\ s \in Stocks \cup Requests /\ r \in Stocks \cup Requests
  BY FefoAssumption
<1>2. /\ x \in Nat /\ Near(x, s, Slack)
      /\ y \in Nat /\ Near(y, r, Slack) /\ y <= Exact(r + 1)
  BY <1>1, DoubleIsNear DEF Near
<1>3. /\ Slack \in Nat /\ 4 * Slack <= Exact(1) /\ Exact(1) \in Nat \ {0}
      /\ 3 * Slack < Exact(1)
  BY FourSlacks
<1>4. (s < r => x < y) /\ (r < s => y < x) /\ (s = r => x = y)
  BY <1>1, <1>2, <1>3, ComparesAsDecimals
<1>5. CompleteRefuses(s, r) <=> s < r
  BY <1>1, <1>2, <1>4 DEF CompleteRefuses
<1>6. Format(y) = r
  BY <1>1, <1>2, <1>3, FormatsAsMeant
<1>7. AdjustRefuses(s, - r) <=> Rounded(x - y) < 0
  <2>1. Exact(r) \in Nat /\ Exact(- r) = - Exact(r) /\ Exact(r) # 0
    BY <1>1, <1>3, Grains
  <2>2. Double(- r) = - y
    BY <2>1 DEF Double, Rounded
  <2>3. x + (- y) = x - y
    BY <1>2
  <2> QED
    BY <2>2, <2>3 DEF AdjustRefuses
<1> HIDE DEF x, y
<1>8. ASSUME s < r PROVE Rounded(x - y) < 0
  <2> DEFINE z == y - x
  <2>1. z \in Nat /\ z # 0 /\ z <= Exact(r + 1)
    BY <1>1, <1>2, <1>4, <1>8, Grains
  <2>2. Nearest(z) \in Nat /\ Nearest(z) - z \in - Slack .. Slack
    BY <1>1, <2>1, RoundingIsNear
  <2>3. z >= Exact(1) - 2 * Slack
    <3>1. /\ Exact(s) \in Int /\ Exact(r) \in Int
          /\ Exact(s) = s * Exact(1) /\ Exact(r) = r * Exact(1)
      BY <1>1, Grains
    <3>2. /\ Exact(1) * (s + 1) <= Exact(1) * r
          /\ Exact(1) * (s + 1) = s * Exact(1) + Exact(1)
          /\ Exact(1) * r = r * Exact(1)
      BY <1>1, <1>3, <1>8, Products
    <3>3. Exact(s) + Exact(1) <= Exact(r)
      BY <3>1, <3>2
    <3> QED
      BY <1>2, <1>3, <3>1, <3>3 DEF Near
  <2>4. x - y < 0 /\ - (x - y) = z
    BY <1>2, <2>1
  <2> HIDE DEF z
  <2>5. Nearest(z) > 0
    BY <1>3, <2>1, <2>2, <2>3
  <2>6. Rounded(x - y) = - Nearest(z)
    BY <2>4 DEF Rounded
  <2> QED
    BY <2>2, <2>5, <2>6
<1>9. ASSUME ~ (s < r) PROVE ~ (Rounded(x - y) < 0)
  <2>1. x - y \in Nat
    BY <1>1, <1>2, <1>4, <1>9
  <2>2. x - y <= Exact(s + 1)
    BY <1>1, <1>2, DoubleIsNear, Grains DEF x
  <2>3. Nearest(x - y) \in Nat
    BY <1>1, <2>1, <2>2, RoundingIsNear
  <2>4. Rounded(x - y) = Nearest(x - y)
    BY <2>1 DEF Rounded
  <2> QED
    BY <2>3, <2>4
<1> QED
  BY <1>5, <1>6, <1>7, <1>8, <1>9 DEF x, y

-----------------------------------------------------------------------------
(* The loop.                                                               *)

\* The drift stays below half a decimal place, by a slack.
LEMMA DriftIsSmall ==
  ASSUME NEW k \in 1 .. (Length + 1)
  PROVE  /\ Drift(k) \in Nat
         /\ 2 * Drift(k) + 2 * Slack <= Exact(1)
         /\ 2 * Drift(k) < Exact(1)
         /\ Drift(k) + Slack < Exact(1)
         /\ Drift(k + 1) = Drift(k) + 2 * Slack
<1>1. /\ Slack \in Nat /\ Exact(1) \in Nat \ {0} /\ Length \in Nat
      /\ 4 * (Length + 1) * Slack <= Exact(1)
  BY Grains, SlackIsSmall, FefoAssumption
<1>2. Slack * (4 * k) <= Slack * (4 * (Length + 1))
  BY <1>1, Products
<1>3. /\ Slack * (4 * (Length + 1)) = 4 * (Length + 1) * Slack
      /\ Slack * (4 * k) = 4 * (k * Slack)
      /\ k * Slack \in Nat
      /\ 4 * (Length + 1) * Slack \in Nat
  BY <1>1
<1>4. Drift(k) = 2 * (k * Slack) - Slack /\ Drift(k + 1) = 2 * (k * Slack) + Slack
  BY <1>1 DEF Drift
<1>5. k * Slack >= Slack
  <2>1. Slack * 1 <= Slack * k /\ Slack * 1 = Slack /\ Slack * k = k * Slack
    BY <1>1, Products
  <2> QED
    BY <2>1
<1> DEFINE p == k * Slack
<1> HIDE DEF p
<1>6. p \in Nat /\ p >= Slack /\ 4 * p <= Exact(1)
      /\ Drift(k) = 2 * p - Slack /\ Drift(k + 1) = 2 * p + Slack
  BY <1>1, <1>2, <1>3, <1>4, <1>5 DEF p
<1>7. Slack = 0 => p = 0
  BY <1>1, <1>3 DEF p
<1> QED
  BY <1>1, <1>6, <1>7

\* A quantity that is read as zero is zero, and any other is some slacks.
LEMMA ZeroIsZero ==
  ASSUME NEW n \in Stocks \cup Requests
  PROVE  /\ Double(n) <= 0 <=> n = 0
         /\ Double(n) > 0 => Double(n) >= Slack
<1>1. /\ n \in Nat /\ Double(n) \in Nat /\ Near(Double(n), n, Slack)
      /\ Slack \in Nat /\ 4 * Slack <= Exact(1) /\ 3 * Slack < Exact(1)
      /\ Exact(1) \in Nat \ {0}
  BY DoubleIsNear, FourSlacks, FefoAssumption DEF Near
<1>2. ASSUME n = 0 PROVE Double(n) = 0
  <2>1. Exact(n) = 0 /\ Exact(n + 1) = Exact(1)
    BY <1>1, <1>2, Grains
  <2>2. Nearest(0) = 0
    BY <1>1, <2>1, RoundingIsNear
  <2> QED
    BY <2>1, <2>2 DEF Double, Rounded
<1>3. ASSUME n # 0 PROVE Double(n) >= Slack /\ Double(n) > 0
  <2>1. Exact(1) * 1 <= Exact(1) * n /\ Exact(n) = n * Exact(1)
        /\ Exact(1) * n = n * Exact(1) /\ Exact(1) * 1 = Exact(1)
        /\ Exact(n) \in Int
    BY <1>1, <1>3, Grains, Products
  <2> QED
    BY <1>1, <2>1 DEF Near
<1> QED
  BY <1>1, <1>2, <1>3

\* The invariant holds of a loop that has not begun.
LEMMA InitHolds == Init => InductiveInv
<1> SUFFICES ASSUME Init PROVE InductiveInv
  OBVIOUS
<1>1. /\ requested \in Stocks \cup Requests /\ requested \in Nat
      /\ Length \in Nat
  BY FefoAssumption DEF Init
<1>2. /\ remaining \in Nat /\ Near(remaining, requested, Slack)
      /\ remaining <= Exact(requested + 1)
  BY <1>1, DoubleIsNear DEF Init, Near
<1>3. Drift(1) = Slack
  BY FourSlacks DEF Drift
<1>4. TypeOK
  BY <1>1, <1>2 DEF Init, TypeOK
<1> QED
  BY <1>2, <1>3, <1>4 DEF Init, InductiveInv

\* What a batch gives is what exact arithmetic asks of it, and what remains
\* drifts by two slacks.
LEMMA TakeIsExact ==
  ASSUME InductiveInv, Take
  PROVE  LET last == [batch |-> next, take |-> Least(stock[next], due)] IN
         /\ next \in 1 .. Length
         /\ selections' = Append(selections, last)
         /\ last.take \in 0 .. requested /\ due' \in 0 .. requested
         /\ remaining' \in Nat /\ remaining' <= Exact(requested + 1)
         /\ Near(remaining', due', Drift(next'))
         /\ remaining' > 0 => last.take = stock[next]
<1> DEFINE s == stock[next]
           x == Double(s)
           e == Drift(next)
           m == Least(s, due)
<1>1. /\ next \in 1 .. Length /\ s \in Stocks /\ s \in Nat
      /\ requested \in Requests /\ requested \in Nat
      /\ due \in 0 .. requested /\ remaining \in Nat /\ remaining > 0
      /\ remaining <= Exact(requested + 1)
  <2>1. /\ next \in 1 .. (Length + 1) /\ next <= Length /\ remaining > 0
        /\ stock \in [1 .. Length -> Stocks]
    BY DEF InductiveInv, TypeOK, Take, Looking
  <2>2. Length \in Nat /\ Stocks \subseteq Nat /\ Requests \subseteq Nat
    BY FefoAssumption
  <2>3. next \in 1 .. Length
    BY <2>1, <2>2
  <2> QED
    BY <2>1, <2>2, <2>3 DEF InductiveInv, TypeOK
<1>2. /\ x \in Nat /\ Near(x, s, Slack)
  BY <1>1, DoubleIsNear DEF Near
<1>3. /\ e \in Nat /\ 2 * e < Exact(1) /\ e + Slack < Exact(1)
      /\ Drift(next') = e + 2 * Slack /\ Slack \in Nat
      /\ Near(remaining, due, e)
  <2>1. next \in 1 .. (Length + 1) /\ Near(remaining, due, e)
    BY DEF InductiveInv, TypeOK
  <2>2. next' = next + 1
    BY DEF Take
  <2> QED
    BY <2>1, <2>2, DriftIsSmall, FourSlacks
<1>4. 2 * Slack < Exact(1) /\ Exact(1) \in Nat
  BY FourSlacks
<1>5. /\ selections' = Append(selections,
                         [batch |-> next, take |-> Format(Least(x, remaining))])
      /\ Least(x, remaining) > 0
      /\ remaining' = Rounded(remaining - Least(x, remaining))
      /\ due' = due - m
  BY DEF Take
<1>6. /\ Exact(due) \in Int /\ Exact(s) \in Int /\ Exact(requested + 1) \in Int
      /\ Exact(due - s) = Exact(due) - Exact(s) /\ Exact(0) = 0
  <2>1. \A n \in Int : Exact(n) = n * Exact(1) /\ Exact(n) \in Int
    BY Grains
  <2>2. Exact(due - s) = (due - s) * Exact(1)
    BY <1>1, <2>1
  <2>3. (due - s) * Exact(1) = due * Exact(1) - s * Exact(1)
    BY <1>1, <1>4
  <2> QED
    BY <1>1, <1>4, <2>1, <2>2, <2>3
<1> HIDE DEF s, x, e, m
<1>7. CASE x < remaining
  <2> DEFINE z == remaining - x
  <2>1. Least(x, remaining) = x /\ x > 0
    BY <1>5, <1>7 DEF Least
  <2>2. ~ (due < s)
    BY <1>1, <1>2, <1>3, <1>7, ComparesAsDecimals
  <2>3. m = s
    BY <1>1, <2>2 DEF Least, m
  <2>4. Format(x) = s
    BY <1>1, <1>2, <1>3, <1>4, FormatsAsMeant
  <2>5. z \in Nat /\ z <= Exact(requested + 1) /\ ~ (z < 0)
    BY <1>1, <1>2, <1>6, <1>7
  <2>6. remaining' = Nearest(z)
    BY <1>5, <2>1, <2>5 DEF Rounded
  <2>7. Nearest(z) \in Nat /\ Nearest(z) - z \in - Slack .. Slack
    BY <1>1, <2>5, RoundingIsNear
  <2>8. x >= Slack
    BY <1>1, <2>1, ZeroIsZero DEF x
  <2>9. remaining' \in Nat /\ remaining' <= Exact(requested + 1)
    BY <1>1, <1>2, <1>3, <1>6, <2>6, <2>7, <2>8
  <2>10. Near(remaining', due - s, e + 2 * Slack)
    BY <1>1, <1>2, <1>3, <1>6, <2>6, <2>7 DEF Near
  <2>11. due' = due - s /\ due' \in 0 .. requested /\ m \in 0 .. requested
    BY <1>1, <1>5, <2>2, <2>3
  <2> QED
    BY <1>1, <1>3, <1>5, <2>1, <2>3, <2>4, <2>9, <2>10, <2>11 DEF m, s
<1>8. CASE ~ (x < remaining)
  <2>1. Least(x, remaining) = remaining
    BY <1>8 DEF Least
  <2>2. ~ (s < due)
    BY <1>1, <1>2, <1>3, <1>8, ComparesAsDecimals
  <2>3. m = due
    BY <2>2 DEF Least, m
  <2>4. Format(remaining) = due
    BY <1>1, <1>3, FormatsAsMeant
  <2>5. remaining' = 0
    <3>1. remaining - remaining = 0
      BY <1>1
    <3>2. Nearest(0) = 0
      BY <1>1, <1>6, RoundingIsNear
    <3> QED
      BY <1>5, <2>1, <3>1, <3>2 DEF Rounded
  <2>6. due' = 0
    BY <1>1, <1>5, <2>3
  <2>7. Near(0, 0, e + 2 * Slack)
    BY <1>3, <1>6 DEF Near
  <2>8. remaining' <= Exact(requested + 1)
    BY <1>1, <1>6, <2>5
  <2> QED
    BY <1>1, <1>3, <1>5, <2>1, <2>3, <2>4, <2>5, <2>6, <2>7, <2>8 DEF m, s
<1> QED
  BY <1>7, <1>8

\* Every step of the loop keeps the invariant.
LEMMA StepHolds == InductiveInv /\ [Next]_vars => InductiveInv'
<1> SUFFICES ASSUME InductiveInv, [Next]_vars PROVE InductiveInv'
  OBVIOUS
<1>1. CASE UNCHANGED vars
  BY <1>1 DEF vars, InductiveInv, TypeOK, Emptied
<1>2. CASE Skip
  <2>1. /\ next \in 1 .. Length /\ stock[next] \in Stocks /\ stock[next] = 0
        /\ Length \in Nat
    <3>1. /\ next \in 1 .. (Length + 1) /\ next <= Length
          /\ stock \in [1 .. Length -> Stocks] /\ Double(stock[next]) <= 0
      BY <1>2 DEF InductiveInv, TypeOK, Skip, Looking
    <3>2. next \in 1 .. Length /\ stock[next] \in Stocks
      BY <3>1, FefoAssumption
    <3> QED
      BY <3>1, <3>2, ZeroIsZero, FefoAssumption
  <2>2. TypeOK'
    BY <1>2, <2>1 DEF InductiveInv, TypeOK, Skip
  <2>3. Near(remaining, due, Drift(next'))
    <3>1. /\ Drift(next) \in Nat /\ Drift(next') = Drift(next) + 2 * Slack
          /\ Slack \in Nat
      BY <1>2, <2>1, DriftIsSmall, FourSlacks DEF Skip
    <3>2. remaining \in Int /\ Exact(due) \in Int
      BY Grains, FefoAssumption DEF InductiveInv, TypeOK
    <3> QED
      BY <3>1, <3>2 DEF InductiveInv, Near
  <2>4. \A b \in 1 .. (next' - 1) : b \in 1 .. (next - 1) \/ stock[b] = 0
    BY <1>2, <2>1 DEF Skip
  <2> QED
    BY <1>2, <2>2, <2>3, <2>4 DEF InductiveInv, Skip, Emptied, Looking
<1>3. CASE Take
  <2> DEFINE last == [batch |-> next, take |-> Least(stock[next], due)]
             Line == [batch : 1 .. Length, take : 0 .. requested]
  <2>1. /\ next \in 1 .. Length /\ Length \in Nat
        /\ selections' = Append(selections, last) /\ last \in Line
        /\ due' \in 0 .. requested
        /\ remaining' \in Nat /\ remaining' <= Exact(requested + 1)
        /\ Near(remaining', due', Drift(next'))
        /\ remaining' > 0 => last = [batch |-> next, take |-> stock[next]]
    BY <1>3, TakeIsExact, FefoAssumption
  <2>2. /\ UNCHANGED <<stock, requested, verdict>> /\ next' = next + 1
        /\ remaining > 0 /\ verdict = "choosing"
    BY <1>3 DEF Take, Looking
  <2>3. selections \in Seq(Line)
    BY DEF InductiveInv, TypeOK
  <2> HIDE DEF last, Line
  <2>4. /\ selections' \in Seq(Line)
        /\ Len(selections) + 1 \in DOMAIN selections'
        /\ selections'[Len(selections) + 1] = last
        /\ \A k \in DOMAIN selections :
             k \in DOMAIN selections' /\ selections'[k] = selections[k]
    BY <2>1, <2>3
  <2>5. TypeOK'
    BY <2>1, <2>2, <2>4 DEF InductiveInv, TypeOK, Line
  <2>6. ASSUME remaining' > 0, NEW b \in 1 .. (next' - 1), stock[b] > 0
        PROVE  Emptied(b)'
    <3>1. CASE b = next
      BY <2>1, <2>2, <2>4, <2>6, <3>1 DEF Emptied
    <3>2. CASE b # next
      <4>1. Emptied(b)
        BY <2>1, <2>2, <2>6, <3>2 DEF InductiveInv
      <4> QED
        BY <2>2, <2>4, <4>1 DEF Emptied
    <3> QED
      BY <3>1, <3>2
  <2> QED
    BY <2>1, <2>2, <2>5, <2>6 DEF InductiveInv
<1>4. CASE Settle
  BY <1>4, FefoAssumption DEF Settle, InductiveInv, TypeOK, Emptied
<1> QED
  BY <1>1, <1>2, <1>3, <1>4 DEF Next

\* The float that remains never drifts half a decimal place away, however many
\* batches the loop has met.
THEOREM Invariance == Spec => []InductiveInv
  BY InitHolds, StepHolds, PTL DEF Spec

\* The locals of the loop stay well formed, and no more is selected from a batch
\* than was asked for.
THEOREM TypeCorrect == Spec => []TypeOK
<1>1. InductiveInv => TypeOK
  BY DEF InductiveInv
<1> QED
  BY <1>1, Invariance, PTL

\* Counting in floats, the loop deducts from every batch exactly what exact
\* arithmetic would, and a sale that it grants is covered.
THEOREM SelectionsAreExact == Spec => SalesAreExact
<1>1. InductiveInv /\ [Next]_vars =>
        [selections' # selections =>
           selections'[Len(selections')].take = Least(stock[next], due)]_vars
  <2> SUFFICES ASSUME InductiveInv, [Next]_vars, selections' # selections
               PROVE  selections'[Len(selections')].take = Least(stock[next], due)
    OBVIOUS
  <2>1. Take
    BY DEF Next, Skip, Settle, vars
  <2> DEFINE last == [batch |-> next, take |-> Least(stock[next], due)]
             Line == [batch : 1 .. Length, take : 0 .. requested]
  <2>2. selections' = Append(selections, last) /\ selections \in Seq(Line)
    BY <2>1, TakeIsExact DEF InductiveInv, TypeOK
  <2>3. last.take = Least(stock[next], due)
    OBVIOUS
  <2> HIDE DEF last, Line
  <2>4. selections'[Len(selections')] = last
    BY <2>2
  <2> QED
    BY <2>3, <2>4
<1>2. InductiveInv => (verdict = "selected" => due = 0)
  <2> SUFFICES ASSUME InductiveInv, verdict = "selected", due # 0
               PROVE  FALSE
    BY FefoAssumption DEF InductiveInv, TypeOK
  <2>1. /\ due \in Nat /\ due >= 1 /\ remaining = 0
        /\ next \in 1 .. (Length + 1)
        /\ Near(0, due, Drift(next))
    BY FefoAssumption DEF InductiveInv, TypeOK
  <2>2. Drift(next) \in Nat /\ 2 * Drift(next) < Exact(1)
    BY <2>1, DriftIsSmall
  <2>3. /\ Exact(1) \in Nat /\ Exact(due) = due * Exact(1) /\ Exact(due) \in Int
    BY <2>1, Grains
  <2>4. Exact(1) * 1 <= Exact(1) * due /\ Exact(1) * due = due * Exact(1)
        /\ Exact(1) * 1 = Exact(1)
    BY <2>1, <2>3, Products
  <2> QED
    BY <2>1, <2>2, <2>3, <2>4 DEF Near
<1> QED
  BY <1>1, <1>2, Invariance, PTL DEF Spec, SalesAreExact

\* No residue of a subtraction refuses a sale that leaves stock over.
THEOREM RefusalsEmptyTheShelf == Spec => []RefusedOnlyIfEmptied
<1>1. InductiveInv => RefusedOnlyIfEmptied
  BY FefoAssumption DEF InductiveInv, RefusedOnlyIfEmptied, TypeOK
<1> QED
  BY <1>1, Invariance, PTL

\* The guards of Adjust and Complete decide as exact arithmetic would.
THEOREM GuardsDecideExactly == Spec => []GuardsAreExact
<1>1. InductiveInv => GuardsAreExact
  BY GuardsCompareDecimals, FefoAssumption
     DEF InductiveInv, GuardsAreExact, TypeOK
<1> QED
  BY <1>1, Invariance, PTL

=============================================================================
