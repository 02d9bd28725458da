---------------------------- MODULE MCCommandHttp -----------------------------
(***************************************************************************)
(* Three mixes of calls around two orders: one deposit id with two         *)
(* contents, one of which does not fit the balance limit, and an invalid   *)
(* amount; one withdrawal reserved, released and completed by calls that   *)
(* overlap; cancellations by the owner and by another customer.            *)
(***************************************************************************)
EXTENDS CommandHttp

MCUsers  == {"A", "B"}
MCAssets == {"SOL", "USDT"}
MCPair   == <<"SOL", "USDT">>
MCPairs  == {MCPair}
MCPrices == {2}
Nothing  == {}

LimitOrder(id, user, type, amount) ==
    [id |-> id, user |-> user, pair |-> MCPair, type |-> type, side |-> "limit",
     price |-> 2, amount |-> amount, budget |-> 0, fee |-> 0]
MCOrders == {LimitOrder(1, "A", "sell", 2), LimitOrder(2, "B", "buy", 2)}
MCGenesis == [a \in MCUsers \X MCAssets |->
                 CASE a = <<"A", "SOL">> -> 3 [] a = <<"B", "USDT">> -> 2 [] OTHER -> 0]

Small == [id |-> "d1", user |-> "A", asset |-> "SOL", amount |-> 1]
Large == [id |-> "d1", user |-> "A", asset |-> "SOL", amount |-> 4]
Zero  == [id |-> "d2", user |-> "A", asset |-> "SOL", amount |-> 0]
Funds == [id |-> "w1", user |-> "A", asset |-> "SOL", amount |-> 2]

Deposit(d) == [kind |-> "deposit", credit |-> d]
Withdrawal(action) == [kind |-> "withdrawal", funds |-> Funds, action |-> action]
CancelCall(user) == [kind |-> "cancel", id |-> 1, user |-> user, pair |-> MCPair]

MCCredits == {Small, Large}
MCFunds == {Funds}
Mix1 == {Deposit(Small), Deposit(Large), Deposit(Zero)}
Mix2 == {Withdrawal(a) : a \in {"reserve", "release", "complete"}}
Mix3 == {CancelCall("A"), CancelCall("B"), Deposit(Large)}
MCMixes == {Mix1, Mix2, Mix3}
===============================================================================
