-------------------------------- MODULE Amount --------------------------------
(***************************************************************************)
(* Exact fixed-point amounts (engine/amount.rs).  A Decimal is its number  *)
(* of 1/Factor units, as units() makes it; Factor is 10^9 in the code and  *)
(* MaxUnits is the NUMERIC(30,9) limit.  An operation that the code lets   *)
(* fail has a predicate beside it that says when it succeeds.              *)
(***************************************************************************)
EXTENDS Integers

CONSTANTS Factor, MaxUnits

ASSUME AmountAssumption == Factor \in Nat \ {0} /\ MaxUnits \in Nat

Units == 0..MaxUnits
Smaller(a, b) == IF a < b THEN a ELSE b

\* Price times amount, refused when it would need rounding or is too large.
Quote(price, amount) == (price * amount) \div Factor
QuoteExact(price, amount) ==
    /\ (price * amount) % Factor = 0
    /\ Quote(price, amount) \in Units

\* The loop of quantity_for_budget: Euclid's algorithm.
Euclid[p \in Nat \X Nat] ==
    IF p[1] = 0 THEN p[2] ELSE Euclid[<<p[2] % p[1], p[1]>>]

\* Mutation of Step: the greatest common divisor itself is taken as the step.
StepIsDivisor(price) == Euclid[<<price % Factor, Factor>>]

\* Smallest quantity whose quote at this price is exact.
Step(price) == Factor \div Euclid[<<price % Factor, Factor>>]

\* Largest quantity within budget and remaining whose quote is exact.
QuantityForBudget(budget, price, remaining) ==
    LET maximum == Smaller((budget * Factor) \div price, remaining)
    IN  (maximum \div Step(price)) * Step(price)

\* A fee is rounded down; the rate is below one.
RateValid(rate) == rate \in 0..(Factor - 1)
\* Mutation of Fee: rounded up.
FeeRoundedUp(received, rate) == (received * rate + Factor - 1) \div Factor

Fee(received, rate) == (received * rate) \div Factor
===============================================================================
