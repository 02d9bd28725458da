---------------------------- MODULE MCOrderIntake -----------------------------
(***************************************************************************)
(* Three requests for one order: two state the platform's command, the     *)
(* third another quantity under the same id.                               *)
(***************************************************************************)
EXTENDS OrderIntake

Sell(id, user, amount) ==
    [id |-> id, user |-> user, type |-> "sell", side |-> "limit", price |-> 3,
     amount |-> amount, quote |-> Missing]

RaceCallers  == {"r1", "r2", "other"}
RaceRequest  == [c \in RaceCallers |-> IF c = "other" THEN Sell(1, 7, 2) ELSE Sell(1, 7, 1)]
RaceOriginal == [i \in {1} |-> Sell(1, 7, 1)]
Fees == {0, 1, 2}
===============================================================================
