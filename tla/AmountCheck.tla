----------------------------- MODULE AmountCheck -----------------------------
(***************************************************************************)
(* The amount operators against their reference definitions, for every     *)
(* input within a bound: a budget is turned into a quantity, the quantity  *)
(* is received in one or in two trades and charged a fee.                  *)
(***************************************************************************)
EXTENDS Amount, FiniteSetsExt

CONSTANTS MaxPrice, MaxRate

ASSUME CheckAssumption == MaxPrice \in Nat \ {0} /\ MaxRate \in 0..(Factor - 1)

VARIABLES input, quantity, fee

vars == <<input, quantity, fee>>
Pending == -1           \* not computed yet

Init ==
    /\ input \in [budget : Units, price : 1..MaxPrice, remaining : Units, rate : 0..MaxRate]
    /\ quantity = Pending /\ fee = Pending

\* matcher.rs calls quantity_for_budget, settlement.rs charges the fee.
Buy ==
    /\ quantity = Pending
    /\ quantity' = QuantityForBudget(input.budget, input.price, input.remaining)
    /\ UNCHANGED <<input, fee>>
Charge ==
    /\ quantity # Pending /\ fee = Pending
    /\ fee' = Fee(quantity, input.rate)
    /\ UNCHANGED <<input, quantity>>

Spec == Init /\ [][Buy \/ Charge]_vars

-----------------------------------------------------------------------------
\* quantity_for_budget returns the largest quantity whose quote is exact and
\* within the budget: the step found by Euclid's algorithm neither skips a
\* larger exact quantity nor admits one that needs rounding.
LargestExactQuantity ==
    quantity # Pending =>
        quantity = Max({q \in 0..input.remaining :
                           /\ (input.price * q) % Factor = 0
                           /\ Quote(input.price, q) <= input.budget})

\* A fill that is split over two makers is never charged more than the same
\* fill in one trade, and no fee takes the whole amount (fee rounds down).
FeesFavourCustomer ==
    fee # Pending =>
        /\ quantity > 0 => fee < quantity
        /\ \A part \in 0..quantity :
              Fee(part, input.rate) + Fee(quantity - part, input.rate) <= fee
===============================================================================
