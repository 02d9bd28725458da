-------------------------- MODULE AmountCheckProofs --------------------------
(***************************************************************************)
(* The amount operators, for every scale, limit, price, budget, remaining  *)
(* quantity and fee rate.                                                  *)
(***************************************************************************)
EXTENDS AmountCheck, AmountProofs

Inputs == [budget : Units, price : 1..MaxPrice, remaining : Units, rate : 0..MaxRate]
Bought == QuantityForBudget(input.budget, input.price, input.remaining)
Inv ==
    /\ input \in Inputs
    /\ quantity \in {Pending, Bought}
    /\ fee = Pending \/ (quantity = Bought /\ fee = Fee(quantity, input.rate))

\* The inputs stay in their ranges.
LEMMA InvHolds == Spec => []Inv
<1>1. Init => Inv
  BY DEF Init, Inv, Inputs
<1>2. Inv /\ [Buy \/ Charge]_vars => Inv'
  BY DEF Inv, Buy, Charge, vars, Bought
<1>3. QED
  BY <1>1, <1>2, PTL DEF Spec

\* The quantity a checked input buys is the greatest affordable one.
LEMMA BoughtIsGreatest ==
    ASSUME Inv
    PROVE  IsGreatest(Affordable(input.budget, input.price, input.remaining), Bought)
<1>1. input.budget \in Nat /\ input.price \in Nat \ {0} /\ input.remaining \in Nat
  BY AmountAssumption, CheckAssumption DEF Inv, Inputs, Units
<1>2. QED
  BY <1>1, BudgetBuys DEF Bought

\* quantity_for_budget returns the largest quantity whose quote is exact and
\* within the budget, at any scale: Euclid's algorithm ends with a common
\* divisor that is a combination of the price and the scale, so the step
\* divides exactly the quantities that need no rounding.
THEOREM BudgetBuysLargest == Spec => []LargestExactQuantity
<1>1. Inv => LargestExactQuantity
  <2> SUFFICES ASSUME Inv, quantity # Pending
               PROVE  quantity = Max({q \in 0..input.remaining :
                           /\ (input.price * q) % Factor = 0
                           /\ Quote(input.price, q) <= input.budget})
    BY DEF LargestExactQuantity
  <2>1. PICK S : S = Affordable(input.budget, input.price, input.remaining)
    OBVIOUS
  <2>2. IsGreatest(S, quantity)
    BY <2>1, BoughtIsGreatest DEF Inv
  <2>3. \A q \in S : q \in Int
    BY <2>1 DEF Affordable
  <2>4. \A x \in S : (\A y \in S : x >= y) => x = quantity
    BY <2>2, <2>3 DEF IsGreatest
  <2>5. Max(S) = quantity
    BY <2>2, <2>3, <2>4 DEF Max, IsGreatest
  <2>6. QED
    BY <2>1, <2>5 DEF Affordable
<1>2. QED
  BY <1>1, InvHolds, PTL

\* A fill in two trades is never charged more than the same fill in one, and
\* no fee takes the whole amount (fee rounds down, the rate is below one).
THEOREM SplitFillsPayNoMore == Spec => []FeesFavourCustomer
<1>1. ASSUME NEW q \in Nat, NEW rate \in 0..(Factor - 1), NEW part \in 0..q
      PROVE  /\ Fee(part, rate) + Fee(q - part, rate) <= Fee(q, rate)
             /\ q > 0 => Fee(q, rate) < q
  <2>1. Factor \in Nat \ {0}
    BY AmountAssumption
  <2>2. ASSUME NEW x \in Nat, NEW y \in Nat
        PROVE  (x \div Factor) + (y \div Factor) <= (x + y) \div Factor
    BY <2>1
  <2>3. /\ part * rate \in Nat /\ (q - part) * rate \in Nat
        /\ part * rate + (q - part) * rate = q * rate
    BY <2>1
  <2>4. Fee(part, rate) + Fee(q - part, rate) <= Fee(q, rate)
    BY <2>2, <2>3 DEF Fee
  <2>5. q > 0 => (q * rate) \div Factor < q
    BY <2>1
  <2>6. QED
    BY <2>4, <2>5 DEF Fee
<1>2. Inv => FeesFavourCustomer
  <2> SUFFICES ASSUME Inv, fee # Pending
               PROVE  /\ quantity > 0 => fee < quantity
                      /\ \A part \in 0..quantity :
                            Fee(part, input.rate) + Fee(quantity - part, input.rate) <= fee
    BY DEF FeesFavourCustomer
  <2>1. fee = Fee(quantity, input.rate) /\ quantity = Bought
    BY DEF Inv
  <2>2. quantity \in Nat
    BY <2>1, BoughtIsGreatest DEF IsGreatest, Affordable
  <2>3. input.rate \in 0..(Factor - 1)
    BY AmountAssumption, CheckAssumption DEF Inv, Inputs
  <2>4. \A part \in 0..quantity :
          Fee(part, input.rate) + Fee(quantity - part, input.rate) <= Fee(quantity, input.rate)
    BY <1>1, <2>2, <2>3
  <2>5. quantity > 0 => Fee(quantity, input.rate) < quantity
    BY <1>1, <2>2, <2>3
  <2>6. QED
    BY <2>1, <2>4, <2>5
<1>3. QED
  BY <1>2, InvHolds, PTL
==============================================================================
