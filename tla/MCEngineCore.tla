----------------------------- MODULE MCEngineCore -----------------------------
(***************************************************************************)
(* Instances of EngineCore for TLC.  One market, three customers; a unit   *)
(* is one half (Factor = 2), so that price 3 is 1.5 and an odd quantity at *)
(* that price has no exact quote.                                          *)
(***************************************************************************)
EXTENDS EngineCore

MCUsers  == {"A", "B", "C"}
MCAssets == {"SOL", "USDT"}
MCPair   == <<"SOL", "USDT">>
MCPairs  == {MCPair}
MCPrices == {2, 3, 4}

LimitOrder(id, user, type, price, amount, fee) ==
    [id |-> id, user |-> user, pair |-> MCPair, type |-> type, side |-> "limit",
     price |-> price, amount |-> amount, budget |-> 0, fee |-> fee]
MarketOrder(id, user, type, amount, budget) ==
    [id |-> id, user |-> user, pair |-> MCPair, type |-> type, side |-> "market",
     price |-> 0, amount |-> amount, budget |-> budget, fee |-> 1]

\* Trading: two makers at one price, an own crossing order, a price
\* improvement, a market sell and a budget that one level cannot use exactly.
TradingOrders ==
    {LimitOrder(1, "A", "sell", 3, 4, 1), LimitOrder(2, "C", "sell", 3, 2, 0),
     LimitOrder(3, "C", "sell", 2, 1, 0), LimitOrder(4, "B", "buy", 4, 5, 1),
     LimitOrder(5, "A", "buy", 3, 2, 0), MarketOrder(6, "C", "sell", 3, 0),
     MarketOrder(7, "B", "buy", 0, 4), LimitOrder(8, "C", "sell", 4, 1, 0)}
TradingGenesis ==
    [a \in MCUsers \X MCAssets |->
        CASE a[1] = "A" -> 6 [] a = <<"B", "USDT">> -> 14 [] a = <<"C", "SOL">> -> 5
          [] OTHER -> 0]

\* Funds: few orders, with deposits and withdrawals on the same accounts,
\* repeated and conflicting, and with Balance, Lock and Unlock commands on
\* the account that pays for an order.
FundsUsers == {"A", "B"}
FundsOrders ==
    {LimitOrder(1, "A", "sell", 2, 3, 0), LimitOrder(2, "B", "buy", 3, 4, 1),
     LimitOrder(2, "B", "buy", 3, 2, 1), MarketOrder(3, "B", "buy", 0, 2)}
FundsCredits ==
    {[id |-> "d1", user |-> "B", asset |-> "USDT", amount |-> 4],
     [id |-> "d1", user |-> "A", asset |-> "USDT", amount |-> 4],
     [id |-> "d2", user |-> "A", asset |-> "SOL", amount |-> 6]}
FundsWithdrawals ==
    {[id |-> "w1", user |-> "A", asset |-> "SOL", amount |-> 2],
     [id |-> "w2", user |-> "B", asset |-> "USDT", amount |-> 3],
     [id |-> "w2", user |-> "B", asset |-> "USDT", amount |-> 1]}
FundsAdjustments == {<<<<"B", "USDT">>, 3>>}
FundsGenesis ==
    [a \in FundsUsers \X MCAssets |->
        CASE a = <<"A", "SOL">> -> 4 [] a = <<"B", "USDT">> -> 5 [] OTHER -> 0]

None == {}
===============================================================================
