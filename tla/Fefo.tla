-------------------------------- MODULE Fefo --------------------------------
(***************************************************************************)
(* SelectFEFO of internal/services/fefo.go and the two other comparisons   *)
(* of quantities in the services.  The database keeps quantities as exact  *)
(* decimals; the services compare and subtract them as float64.            *)
(*                                                                         *)
(* A number is an integer count of grains, a grain being the common        *)
(* measure of the last decimal place and of the finest binary digit:       *)
(* 1 / (Scale * 2^Exponent).  The decimal n is n / Scale.                  *)
(*                                                                         *)
(* Definitions marked "Fault:" are plausible bugs, used nowhere.           *)
(***************************************************************************)
EXTENDS Integers, Sequences, Functions

CONSTANTS
  Length,      \* how many ACTIVE batches the product has
  Stocks,      \* the quantities a batch may have, in the last decimal place
  Requests,    \* the quantities that may be asked for
  Scale,       \* decimals in one unit of measure
  Exponent,    \* binary digits after the point
  Precision    \* significant binary digits of a float

ASSUME FefoAssumption ==
  /\ Length \in Nat
  /\ Stocks \subseteq Nat /\ Requests \subseteq Nat \ {0}
  /\ Scale \in Nat \ {0} /\ Exponent \in Nat /\ Precision \in Nat \ {0}

VARIABLES
  stock,       \* quantity_current of the batches, in FEFO order
  requested,   \* the quantity asked for
  next,        \* the batch the loop looks at
  remaining,   \* the float still to be covered
  selections,  \* what is deducted from which batch
  verdict,     \* "choosing", "selected" or "short"
  due          \* what exact arithmetic would still have to cover (for the properties)

vars == <<stock, requested, next, remaining, selections, verdict, due>>

-----------------------------------------------------------------------------
(* Floating point numbers                                                  *)

\* The decimal n, in grains.
Exact(n) == n * 2^Exponent

\* x has no more than Precision digits before the binary digit that is 2^e
\* times the last.
Fits(x, e) == (x \div Scale) \div 2^Precision < 2^e

\* The last digit of the floats about x, and the distance between them.
LastDigit(x) ==
  CHOOSE e \in 0..Exponent : Fits(x, e) /\ \A d \in 0..(e - 1) : ~ Fits(x, d)
Spacing(x) == Scale * 2^LastDigit(x)

\* The float nearest to x >= 0, the even one of two that are equally near.
Nearest(x) ==
  LET u   == Spacing(x)
      low == x \div u
  IN  IF \/ 2 * (x % u) < u
         \/ 2 * (x % u) = u /\ low % 2 = 0
      THEN low * u
      ELSE (low + 1) * u

Rounded(x) == IF x < 0 THEN - Nearest(- x) ELSE Nearest(x)

\* strconv.ParseFloat and Numeric.Float64Value: the float nearest to a decimal.
Double(n) == Rounded(Exact(n))

\* The quantities are in the range of the format, and the floats so dense there
\* that as many roundings as a sale may need stay below half a decimal place.
\* With the 53 digits of a float64, quantities below a million and four decimal
\* places this holds for 400000 batches of one product.
ASSUME PrecisionAssumption ==
  \A n \in Stocks \cup Requests :
    /\ Fits(Exact(n + 1), Exponent)
    /\ 2 * (Length + 1) * Spacing(Exact(n + 1)) <= Exact(1)

\* Fault: the decimals are cut off instead of rounded.
FormatTruncated(x) == x \div Exact(1)

\* strconv.FormatFloat(x, 'f', 4, 64): the decimal nearest to a float.
Format(x) == (x + Exact(1) \div 2) \div Exact(1)

\* Fault: a batch gives all it has, whatever is asked for.
LeastGreater(a, b) == IF a < b THEN b ELSE a

Least(a, b) == IF a < b THEN a ELSE b

-----------------------------------------------------------------------------
(* The loop of SelectFEFO                                                  *)

Init ==
  /\ stock \in [1..Length -> Stocks]
  /\ requested \in Requests
  /\ next = 1
  /\ remaining = Double(requested)
  /\ selections = <<>>
  /\ verdict = "choosing"
  /\ due = requested

Looking == verdict = "choosing" /\ remaining > 0 /\ next <= Length

\* A batch with nothing left is passed over.
Skip ==
  /\ Looking
  /\ Double(stock[next]) <= 0
  /\ next' = next + 1
  /\ UNCHANGED <<stock, requested, remaining, selections, verdict, due>>

\* What is deducted is formatted; what remains is the float difference.
Take ==
  /\ Looking
  /\ LET take == Least(Double(stock[next]), remaining) IN
       /\ take > 0
       /\ selections' = Append(selections, [batch |-> next, take |-> Format(take)])
       /\ remaining' = Rounded(remaining - take)
  /\ due' = due - Least(stock[next], due)
  /\ next' = next + 1
  /\ UNCHANGED <<stock, requested, verdict>>

\* Fault: the loop leaves the last batch out.
SettleEarly ==
  /\ verdict = "choosing"
  /\ remaining <= 0 \/ next >= Length
  /\ verdict' = IF remaining > 0 THEN "short" ELSE "selected"
  /\ UNCHANGED <<stock, requested, next, remaining, selections, due>>

\* The loop is over: anything that remains is a shortage.
Settle ==
  /\ verdict = "choosing"
  /\ remaining <= 0 \/ next > Length
  /\ verdict' = IF remaining > 0 THEN "short" ELSE "selected"
  /\ UNCHANGED <<stock, requested, next, remaining, selections, due>>

Next == Skip \/ Take \/ Settle

Spec == Init /\ [][Next]_vars

-----------------------------------------------------------------------------
(* The other comparisons                                                   *)

\* Fault: a correction that leaves nothing is refused.
AdjustRefusesZero(current, delta) == Rounded(Double(current) + Double(delta)) <= 0

\* Adjust: the correction would leave less than nothing.
AdjustRefuses(current, delta) == Rounded(Double(current) + Double(delta)) < 0

\* Complete: the input has less than the line item needs.
CompleteRefuses(current, consumed) == Double(current) < Double(consumed)

-----------------------------------------------------------------------------
(* Properties                                                              *)

TypeOK ==
  /\ stock \in [1..Length -> Stocks]
  /\ requested \in Requests
  /\ next \in 1..(Length + 1)
  /\ remaining \in Nat /\ due \in 0..requested
  /\ selections \in Seq([batch : 1..Length, take : 0..requested])
  /\ verdict \in {"choosing", "selected", "short"}

\* What one rounding may add or take away, in grains.
Slack == Exact(1) \div (4 * (Length + 1))

\* What the roundings before batch k, two for each batch and one for the request,
\* may have added up to.
Drift(k) == (2 * k - 1) * Slack

\* x is at most e grains from the decimal n.
Near(x, n, e) == x - Exact(n) \in - e .. e

\* Batch b has been selected for all it has.
Emptied(b) ==
  \E k \in DOMAIN selections : selections[k] = [batch |-> b, take |-> stock[b]]

\* What makes the properties below inductive: the float that remains has not
\* drifted far from what exact arithmetic would have, and while anything remains
\* every batch the loop has met is used up.
InductiveInv ==
  /\ TypeOK
  /\ Near(remaining, due, Drift(next))
  /\ remaining <= Exact(requested + 1)
  /\ remaining > 0 => \A b \in 1..(next - 1) : stock[b] > 0 => Emptied(b)
  /\ verdict = "selected" => remaining = 0
  /\ verdict = "short" => remaining > 0 /\ next = Length + 1

\* What is left to cover in floats is never a decimal away from what is left
\* in exact arithmetic, so what is deducted from each batch is what First
\* Expired First Out asks for to the last decimal place, residues and all,
\* and a sale that is granted is covered in full.
SalesAreExact ==
  /\ [][selections' # selections =>
          selections'[Len(selections')].take = Least(stock[next], due)]_vars
  /\ [](verdict = "selected" => due = 0)

\* A sale is refused only when it would empty every batch: no residue of a
\* subtraction refuses a sale that leaves stock over.
RefusedOnlyIfEmptied ==
  verdict = "short" => \A b \in 1..Length : stock[b] > 0 => Emptied(b)

\* Adjust and Complete, which compare without subtracting first or look at a
\* sign only, refuse exactly when exact arithmetic would, and the quantity that
\* Complete deducts is formatted without loss.
GuardsAreExact ==
  \A b \in 1..Length :
    /\ AdjustRefuses(stock[b], - requested) <=> stock[b] < requested
    /\ CompleteRefuses(stock[b], requested) <=> stock[b] < requested
    /\ Format(Double(requested)) = requested

Total == SumFunction(stock)

\* "All quantity fields use DECIMAL(10,4) for exact numerical precision - no
\* floating-point rounding errors" (docs/PROJECT_DESIGN.md:121): a sale is
\* refused only if the stock does not cover it.
RefusedOnlyIfShort == verdict = "short" => Total < requested

=============================================================================
