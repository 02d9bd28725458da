-------------------------- MODULE MCMarketProjection --------------------------
(***************************************************************************)
(* Two markets that share a quote asset; a depth of one level, so that     *)
(* levels behind the published one exist.  Order 6 is a market buy by      *)
(* budget, which leaves part of a maker resting.                           *)
(***************************************************************************)
EXTENDS MarketProjection

MCUsers  == {"A", "B"}
MCAssets == {"SOL", "BTC", "USDT"}
Sol == <<"SOL", "USDT">>
Btc == <<"BTC", "USDT">>
MCPairs  == {Sol, Btc}
MCPrices == {2, 3}

LimitOrder(id, user, pair, type, price, amount) ==
    [id |-> id, user |-> user, pair |-> pair, type |-> type, side |-> "limit",
     price |-> price, amount |-> amount, budget |-> 0, fee |-> 0]

MCOrders ==
    {LimitOrder(1, "A", Sol, "sell", 2, 2), LimitOrder(2, "A", Sol, "sell", 3, 2),
     LimitOrder(3, "B", Sol, "buy", 3, 3), LimitOrder(4, "B", Sol, "buy", 2, 1),
     LimitOrder(5, "A", Btc, "sell", 2, 1),
     [LimitOrder(6, "B", Sol, "buy", 0, 0) EXCEPT !.side = "market", !.budget = 3]}

MCGenesis ==
    [a \in MCUsers \X MCAssets |->
        CASE a = <<"A", "SOL">> -> 4 [] a = <<"A", "BTC">> -> 1
          [] a = <<"B", "USDT">> -> 8 [] OTHER -> 0]
MCCredits == {[id |-> "d1", user |-> "B", asset |-> "USDT", amount |-> 1]}
Nothing == {}
===============================================================================
