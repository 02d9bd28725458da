------------------------------- MODULE Matching -------------------------------
(***************************************************************************)
(* What one new order does to an order book and to the balances: candidate *)
(* matching (matcher.rs), the order book operations (orderbook.rs),        *)
(* settlement of each trade (settlement.rs) and the submission that puts   *)
(* them together and commits all or nothing (submission.rs).               *)
(*                                                                         *)
(* A missing balance row behaves as a zero row in every operation, so      *)
(* balances are a total function on accounts.  Identities, asset names and *)
(* sides are well formed by construction; the amount checks are kept.      *)
(***************************************************************************)
EXTENDS Amount, Sequences, SequencesExt

CONSTANT Prices       \* limit prices in use, in units

ASSUME PricesAssumption == Prices \subseteq Nat \ {0} /\ IsFiniteSet(Prices)

\* An order: price 0 stands for None, budget is quote_amount, 0 for None.
\* An entry in flight or at rest carries `remaining` and `filled` as well.
IsBuy(o)   == o.type = "buy"
IsLimit(o) == o.side = "limit"
IsBudget(o) == IsBuy(o) /\ ~IsLimit(o)

\* validate: the checks on amounts.
ValidOrder(o) ==
    /\ RateValid(o.fee)
    /\ IF IsBudget(o) THEN o.budget \in Units \ {0}
       ELSE /\ o.amount \in Units \ {0}
            /\ IsLimit(o) => o.price > 0 /\ QuoteExact(o.price, o.amount)

ValidEntry(m, price) ==
    /\ ValidOrder(m)
    /\ m.remaining > 0 /\ m.filled + m.remaining = m.amount
    /\ m.price = price /\ IsLimit(m)

-----------------------------------------------------------------------------
(* One side of a book: a queue per price, and the cached order count.       *)

Sides == {"buy", "sell"}
EmptySide == [levels |-> [p \in Prices |-> <<>>], total |-> 0]
EmptyBook == [buy |-> EmptySide, sell |-> EmptySide]

Entries(side) == UNION {ToSet(side.levels[p]) : p \in Prices}

\* The part of a queue at the positions in `kept`, in its order (SelectSeq
\* without a recursion).
Nth(kept, k) == CHOOSE i \in kept : Cardinality({j \in kept : j <= i}) = k
Keep(queue, kept) == [k \in 1..Cardinality(kept) |-> queue[Nth(kept, k)]]

AddOrder(side, e) ==
    [levels |-> [side.levels EXCEPT ![e.price] = Append(@, e)], total |-> side.total + 1]

RemoveOrder(side, e) ==
    [levels |-> [side.levels EXCEPT ![e.price] = Keep(@, {i \in DOMAIN @ : @[i].id # e.id})],
     total |-> side.total - 1]

\* Mutation of Reachable: a maker at exactly the limit is not reached.
ReachableStrict(o, p) == o.price = 0 \/ IF IsBuy(o) THEN p < o.price ELSE p > o.price

\* The makers an order may trade with, up to its limit: their places in the
\* side, <<price, position in the queue>>.
Reachable(o, p) == o.price = 0 \/ IF IsBuy(o) THEN p <= o.price ELSE p >= o.price
Places(o, side) == UNION {{p} \X DOMAIN side.levels[p] : p \in {x \in Prices : Reachable(o, x)}}

\* Mutation of Ahead: levels are walked from the worst price.
AheadWorst(o, y, x) ==
    IF y[1] = x[1] THEN y[2] <= x[2] ELSE IF IsBuy(o) THEN y[1] > x[1] ELSE y[1] < x[1]

\* They are walked best price first and FIFO within a price: the k-th maker
\* has k makers ahead, itself included.
Ahead(o, y, x) ==
    IF y[1] = x[1] THEN y[2] <= x[2] ELSE IF IsBuy(o) THEN y[1] < x[1] ELSE y[1] > x[1]
Turn(o, side, x) == Cardinality({y \in Places(o, side) : Ahead(o, y, x)})
Makers(o, side) ==
    LET place(k) == CHOOSE x \in Places(o, side) : Turn(o, side, x) = k
    IN  [k \in 1..Cardinality(Places(o, side)) |-> side.levels[place(k)[1]][place(k)[2]]]

-----------------------------------------------------------------------------
(* plan_levels: candidate trades, no state is changed.                      *)

NewPlan(o) == [ok |-> ValidOrder(o), remaining |-> o.amount, budget |-> o.budget,
               amount |-> 0, quote |-> 0, trades |-> <<>>]

Exhausted(o, plan) == IF IsBudget(o) THEN plan.budget = 0 ELSE plan.remaining = 0

\* Mutation of PlanMaker: a limit order trades at its own price.
PlanAtTakerPrice(o, plan, m) ==
    LET price == IF IsLimit(o) THEN o.price ELSE m.price
        qty   == IF IsBudget(o) THEN QuantityForBudget(plan.budget, m.price, m.remaining)
                 ELSE Smaller(plan.remaining, m.remaining)
        quote == Quote(price, qty)
    IN  IF ~plan.ok \/ Exhausted(o, plan) THEN plan
        ELSE IF m.user = o.user \/ qty = 0 THEN plan
        ELSE [ok |-> QuoteExact(price, qty),
              remaining |-> IF IsBudget(o) THEN plan.remaining ELSE plan.remaining - qty,
              budget |-> IF IsBudget(o) THEN plan.budget - quote ELSE plan.budget,
              amount |-> plan.amount + qty,
              quote |-> plan.quote + quote,
              trades |-> Append(plan.trades, [maker |-> m, price |-> price, qty |-> qty])]

\* The taker's own orders are passed over in place; so is a maker from whom
\* the budget buys no exact quantity.
PlanMaker(o, plan, m) ==
    LET qty   == IF IsBudget(o) THEN QuantityForBudget(plan.budget, m.price, m.remaining)
                 ELSE Smaller(plan.remaining, m.remaining)
        quote == Quote(m.price, qty)
    IN  IF ~plan.ok \/ Exhausted(o, plan) THEN plan
        ELSE IF ~ValidEntry(m, m.price) \/ m.id = o.id THEN [plan EXCEPT !.ok = FALSE]
        ELSE IF m.user = o.user \/ qty = 0 THEN plan
        ELSE [ok |-> /\ QuoteExact(m.price, qty)
                     /\ plan.amount + qty \in Units /\ plan.quote + quote \in Units,
              remaining |-> IF IsBudget(o) THEN plan.remaining ELSE plan.remaining - qty,
              budget |-> IF IsBudget(o) THEN plan.budget - quote ELSE plan.budget,
              amount |-> plan.amount + qty,
              quote |-> plan.quote + quote,
              trades |-> Append(plan.trades, [maker |-> m, price |-> m.price, qty |-> qty])]

PlanOrder(o, side) ==
    FoldLeft(LAMBDA plan, m : PlanMaker(o, plan, m), NewPlan(o), Makers(o, side))

-----------------------------------------------------------------------------
(* apply_prepared_orders and commit_book.                                   *)

Traded(plan, m) == \E i \in DOMAIN plan.trades : plan.trades[i].maker.id = m.id
TradedQty(plan, m) ==
    plan.trades[CHOOSE i \in DOMAIN plan.trades : plan.trades[i].maker.id = m.id].qty
AfterTrade(plan, m) ==
    IF Traded(plan, m)
    THEN [m EXCEPT !.remaining = @ - TradedQty(plan, m), !.filled = @ + TradedQty(plan, m)]
    ELSE m

\* Mutation of ApplyPrepared: a partly filled maker goes to the back.
ApplyRotates(side, plan) ==
    LET left(p) == SelectSeq([i \in DOMAIN side.levels[p] |-> AfterTrade(plan, side.levels[p][i])],
                             LAMBDA e : e.remaining > 0)
    IN  [levels |-> [p \in Prices |-> SelectSeq(left(p), LAMBDA e : ~Traded(plan, e))
                                      \o SelectSeq(left(p), LAMBDA e : Traded(plan, e))],
         total |-> side.total - Cardinality({m \in Entries(side) : AfterTrade(plan, m).remaining = 0})]

\* Changed makers stay where they were in the queue, filled ones leave it.
ApplyPrepared(side, plan) ==
    LET after(queue) == [i \in DOMAIN queue |-> AfterTrade(plan, queue[i])]
        live(queue)  == {i \in DOMAIN queue : queue[i].remaining > 0}
        gone == {m \in Entries(side) : AfterTrade(plan, m).remaining = 0}
    IN  [levels |-> [p \in Prices |-> Keep(after(side.levels[p]), live(after(side.levels[p])))],
         total |-> side.total - Cardinality(gone)]

Opposite(o) == IF IsBuy(o) THEN "sell" ELSE "buy"

\* OrderEntry of the part that rests.
Resting(o, plan) == [id |-> o.id, user |-> o.user, pair |-> o.pair, type |-> o.type,
                     side |-> o.side, price |-> o.price, amount |-> o.amount,
                     budget |-> o.budget, fee |-> o.fee,
                     remaining |-> plan.remaining, filled |-> plan.amount]

CommitBook(book, o, plan) ==
    LET makers == [book EXCEPT ![Opposite(o)] = ApplyPrepared(@, plan)]
    IN  IF IsLimit(o) /\ plan.remaining > 0
        THEN [makers EXCEPT ![o.type] = AddOrder(@, Resting(o, plan))]
        ELSE makers

-----------------------------------------------------------------------------
(* Balances.  A result is [ok, bal]; the first failed check makes ok false  *)
(* and the caller discards the candidate.                                   *)

\* One staged change of an account, each field checked to stay in range.
Move(res, account, available, locked) ==
    LET next == [available |-> res.bal[account].available + available,
                 locked |-> res.bal[account].locked + locked]
    IN  [ok |-> res.ok /\ next.available \in Units /\ next.locked \in Units,
         bal |-> [res.bal EXCEPT ![account] = next]]

\* change_reservation: a positive amount, available to locked or back.
Lock(res, account, value) ==
    [Move(res, account, -value, value) EXCEPT !.ok = @ /\ value > 0]
Unlock(res, account, value) ==
    [Move(res, account, value, -value) EXCEPT !.ok = @ /\ value > 0]

Base(o)      == o.pair[1]
QuoteMint(o) == o.pair[2]

Buyer(o, t)  == IF IsBuy(o) THEN o ELSE t.maker
Seller(o, t) == IF IsBuy(o) THEN t.maker ELSE o
BuyerFee(o, t)  == Fee(t.qty, Buyer(o, t).fee)
SellerFee(o, t) == Fee(Quote(t.price, t.qty), Seller(o, t).fee)

\* Mutation of SettleTrade: the buyer receives the amount without the fee.
SettleGross(o, res, t) ==
    LET b     == Buyer(o, t).user
        s     == Seller(o, t).user
        quote == Quote(t.price, t.qty)
        r1 == Move(res, <<b, QuoteMint(o)>>, 0, -quote)
        r2 == Move(r1, <<s, QuoteMint(o)>>, quote - SellerFee(o, t), 0)
        r3 == Move(r2, <<s, Base(o)>>, 0, -t.qty)
    IN  Move(r3, <<b, Base(o)>>, t.qty, 0)

\* settle_trade: both sides pay from what is locked and receive net of fee.
SettleTrade(o, res, t) ==
    LET b     == Buyer(o, t).user
        s     == Seller(o, t).user
        quote == Quote(t.price, t.qty)
        r1 == Move(res, <<b, QuoteMint(o)>>, 0, -quote)
        r2 == Move(r1, <<s, QuoteMint(o)>>, quote - SellerFee(o, t), 0)
        r3 == Move(r2, <<s, Base(o)>>, 0, -t.qty)
    IN  Move(r3, <<b, Base(o)>>, t.qty - BuyerFee(o, t), 0)

-----------------------------------------------------------------------------
(* submission::apply.                                                       *)

Reserved(o) == IF ~IsBuy(o) THEN o.amount
               ELSE IF IsLimit(o) THEN Quote(o.price, o.amount) ELSE o.budget
PayMint(o) == IF IsBuy(o) THEN QuoteMint(o) ELSE Base(o)

\* Mutation of StillReserved: the price improvement stays locked.
StillReservedAll(o, plan) ==
    IF ~IsLimit(o) THEN 0
    ELSE IF IsBuy(o) THEN Reserved(o) - plan.quote ELSE plan.remaining

\* What stays reserved for the part that rests.
StillReserved(o, plan) ==
    IF ~IsLimit(o) THEN 0
    ELSE IF IsBuy(o) THEN Quote(o.price, plan.remaining) ELSE plan.remaining

\* Mutation of Submission: the rest is not checked to have an exact quote.
SubmissionRoundsRest(o, book, bal) ==
    LET plan    == PlanOrder(o, book[Opposite(o)])
        account == <<o.user, PayMint(o)>>
        locked  == Lock([ok |-> plan.ok, bal |-> bal], account, Reserved(o))
        settled == FoldLeft(LAMBDA res, t : SettleTrade(o, res, t), locked, plan.trades)
        used    == IF IsBuy(o) THEN plan.quote ELSE plan.amount
        refund  == Reserved(o) - used - StillReserved(o, plan)
        freed   == IF refund = 0 THEN settled ELSE Unlock(settled, account, refund)
    IN  [ok |-> freed.ok, bal |-> freed.bal, book |-> CommitBook(book, o, plan),
         trades |-> plan.trades]

\* The candidate next state; `ok` says whether every check passed.
Submission(o, book, bal) ==
    LET plan    == PlanOrder(o, book[Opposite(o)])
        account == <<o.user, PayMint(o)>>
        locked  == Lock([ok |-> plan.ok, bal |-> bal], account, Reserved(o))
        settled == FoldLeft(LAMBDA res, t : SettleTrade(o, res, t), locked, plan.trades)
        used    == IF IsBuy(o) THEN plan.quote ELSE plan.amount
        refund  == Reserved(o) - used - StillReserved(o, plan)
        freed   == IF refund = 0 THEN settled ELSE Unlock(settled, account, refund)
    IN  [ok   |-> /\ freed.ok
                  /\ IsLimit(o) /\ IsBuy(o) => QuoteExact(o.price, plan.remaining),
         bal  |-> freed.bal,
         book |-> CommitBook(book, o, plan),
         trades |-> plan.trades]
===============================================================================
