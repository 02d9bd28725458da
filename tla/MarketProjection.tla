--------------------------- MODULE MarketProjection ---------------------------
(***************************************************************************)
(* The public market data: the output worker keeps its own aggregation of  *)
(* the order book (market.rs, Projection), fed with nothing but the        *)
(* committed outcomes, and publishes a snapshot after every outcome that   *)
(* touches a market.  It is composed here with EngineCore, which produces  *)
(* the outcomes, and with restarts of the worker: the aggregation is lost  *)
(* and rebuilt from the journal up to the delivery cursor.                 *)
(*                                                                         *)
(* A command and its commit are one step: that nothing uncommitted is read *)
(* is EnginePipeline's matter.                                             *)
(***************************************************************************)
EXTENDS EngineCore

CONSTANTS
    Depth,        \* price levels of a published side (20)
    MaxRecords,   \* bound: records of the journal
    MaxRestarts   \* bound: restarts of the process

ASSUME MarketBounds == Depth \in Nat \ {0} /\ MaxRecords \in Nat /\ MaxRestarts \in Nat

VARIABLES
    records,    \* committed outcomes: submitted, cancelled, or none for a market
    market,     \* Projection, with `ok` for "apply has returned no error"
    outPc,      \* where run_store is: replay, baseline, loop, mark
    unsent,     \* pairs whose latest snapshot the baseline has not sent yet
    cursor,     \* stored delivery cursor
    topic,      \* snapshots the broker holds
    joined,     \* history: length of topic when the worker last started
    restarts

marketVars == <<market, outPc, unsent, cursor, topic, joined, restarts>>
allVars == <<vars, records, marketVars>>

NoMarket == [kind |-> "none"]
NoSequence == [p \in Pairs |-> 0]

\* Projection::default: no resting orders, no levels, no snapshot yet.
EmptyMarket ==
    [ok |-> TRUE, orders |-> {},
     levels |-> [p \in Pairs |-> [s \in Sides |-> [x \in Prices |-> 0]]],
     sequence |-> NoSequence, latest |-> [p \in Pairs |-> <<>>]]

-----------------------------------------------------------------------------
(* Projection.  A result whose ok is false stands for the Err or the panic  *)
(* that ends the worker.                                                    *)

\* Mutation of Reduce: a filled order stays in the index.
ReduceKeepsOrder(m, id, qty) ==
    LET found == {o \in m.orders : o.id = id}
        o     == CHOOSE x \in found : TRUE
    IN  IF found = {} \/ ~m.ok THEN [m EXCEPT !.ok = FALSE]
        ELSE [m EXCEPT !.ok = qty <= o.remaining /\ qty <= m.levels[o.pair][o.type][o.price],
                       !.orders = (@ \ {o}) \cup {[o EXCEPT !.remaining = @ - qty]},
                       !.levels[o.pair][o.type][o.price] = @ - qty]

\* reduce: an order loses qty, and so does its price level; an emptied one
\* leaves the index (a level of 0 is an absent level).
Reduce(m, id, qty) ==
    LET found == {o \in m.orders : o.id = id}
        o     == CHOOSE x \in found : TRUE
        left  == [o EXCEPT !.remaining = @ - qty]
    IN  IF found = {} \/ ~m.ok THEN [m EXCEPT !.ok = FALSE]
        ELSE [m EXCEPT !.ok = qty <= o.remaining /\ qty <= m.levels[o.pair][o.type][o.price],
                       !.orders = (@ \ {o}) \cup (IF left.remaining = 0 THEN {} ELSE {left}),
                       !.levels[o.pair][o.type][o.price] = @ - qty]

\* The part of a limit order that the confirmed trades left, computed here
\* from the trades and not read from the core.
Rest(m, o, filled) ==
    LET remaining == o.amount - filled
    IN  IF ~IsLimit(o) \/ remaining = 0 THEN m
        ELSE [m EXCEPT !.ok = @ /\ remaining > 0 /\ \A x \in m.orders : x.id # o.id,
                       !.orders = @ \cup {[id |-> o.id, pair |-> o.pair, type |-> o.type,
                                           price |-> o.price, remaining |-> remaining]},
                       !.levels[o.pair][o.type][o.price] = @ + remaining]

\* The best Depth levels of a side, with their quantities.
Top(m, pair, side) ==
    LET live  == {x \in Prices : m.levels[pair][side][x] > 0}
        ahead(x) == {y \in live : IF side = "buy" THEN y > x ELSE y < x}
    IN  {<<x, m.levels[pair][side][x]>> : x \in {y \in live : Cardinality(ahead(y)) < Depth}}

Snapshot(m, pair, seq, trades) ==
    [pair |-> pair, sequence |-> seq, previous |-> m.sequence[pair],
     bids |-> Top(m, pair, "buy"), asks |-> Top(m, pair, "sell"), trades |-> trades]

\* The snapshot of one market after a record, linked to the one before.
Publish(m, pair, seq, trades) ==
    [m EXCEPT !.latest[pair] = <<Snapshot(m, pair, seq, trades)>>, !.sequence[pair] = seq]

\* apply: trades reduce their makers, the rest is added; a cancellation
\* takes away what was left; other outcomes do not concern a market.
ApplyRecord(m, rec, seq) ==
    CASE rec.kind = "submitted" ->
            LET o       == rec.order
                reduced == FoldLeft(LAMBDA x, t : Reduce(x, t.maker, t.qty), m, rec.trades)
                filled  == FoldLeft(LAMBDA sum, t : sum + t.qty, 0, rec.trades)
            IN  Publish(Rest(reduced, o, filled), o.pair, seq, rec.trades)
      [] rec.kind = "cancelled" ->
            Publish(Reduce(m, rec.order.id, rec.order.remaining), rec.order.pair, seq, <<>>)
      [] OTHER -> m

\* The market a record's snapshot is about, {} when apply returns None.
PairOf(rec) == IF rec.kind = "none" THEN {} ELSE {rec.order.pair}

-----------------------------------------------------------------------------
(* The core, with the outcome of every command in the journal.              *)

Journaled(rec) ==
    /\ Len(records) < MaxRecords
    /\ records' = Append(records, rec)
    /\ UNCHANGED marketVars

CoreSubmit(o) ==
    LET next == Submission(o, books[o.pair], bal)
        new  == \A s \in submissions : s.id # o.id
    IN  /\ Submit(o)
        /\ Journaled(IF new /\ next.ok
                     THEN [kind |-> "submitted", order |-> o,
                           trades |-> [i \in DOMAIN next.trades |->
                               [maker |-> next.trades[i].maker.id, price |-> next.trades[i].price,
                                qty |-> next.trades[i].qty]]]
                     ELSE NoMarket)

CoreCancel(id, user, pair) ==
    /\ Cancel(id, user, pair)
    /\ Journaled(IF cancellations' = cancellations THEN NoMarket
                 ELSE [kind |-> "cancelled",
                       order |-> CHOOSE e \in cancellations' \ cancellations : TRUE])

CoreCredit(d) == CreditDeposit(d) /\ Journaled(NoMarket)

-----------------------------------------------------------------------------
(* The output worker.                                                       *)

\* The aggregation is rebuilt from the first record to the cursor.
Replay ==
    /\ outPc = "replay"
    /\ market' = FoldLeft(LAMBDA m, s : ApplyRecord(m, records[s], s),
                          EmptyMarket, [s \in 1..cursor |-> s])
    /\ unsent' = {p \in Pairs : market'.latest[p] # <<>>}
    /\ outPc' = "baseline"
    /\ UNCHANGED <<vars, records, cursor, topic, joined, restarts>>

\* Mutation of Baseline: nothing is sent again.
BaselineSilent ==
    /\ outPc = "baseline"
    /\ unsent' = {} /\ outPc' = "loop"
    /\ UNCHANGED <<vars, records, market, cursor, topic, joined, restarts>>

\* The latest snapshot of each market is sent again, in any order.
Baseline ==
    /\ outPc = "baseline"
    /\ IF unsent = {} THEN outPc' = "loop" /\ UNCHANGED <<unsent, topic>>
       ELSE /\ \E p \in unsent : /\ topic' = topic \o market.latest[p]
                                 /\ unsent' = unsent \ {p}
            /\ UNCHANGED outPc
    /\ UNCHANGED <<vars, records, market, cursor, joined, restarts>>

\* Mutation of ApplyAndSend: the cursor is stored before the snapshot is
\* acknowledged, and the acknowledgement may not come.
MarkThenSend ==
    LET rec  == records[cursor + 1]
        next == ApplyRecord(market, rec, cursor + 1)
    IN  /\ outPc = "loop" /\ market.ok /\ cursor < Len(records)
        /\ market' = next /\ cursor' = cursor + 1
        /\ \/ topic' = IF rec.kind = "none" THEN topic ELSE topic \o next.latest[rec.order.pair]
           \/ topic' = topic
        /\ UNCHANGED <<vars, records, outPc, unsent, joined, restarts>>

\* The next record is applied and its snapshot acknowledged; an error of
\* apply sends nothing and ends the worker.
ApplyAndSend ==
    LET rec  == records[cursor + 1]
        next == ApplyRecord(market, rec, cursor + 1)
    IN  /\ outPc = "loop" /\ market.ok /\ cursor < Len(records)
        /\ market' = next
        /\ topic' = IF next.ok /\ rec.kind # "none" THEN topic \o next.latest[rec.order.pair]
                    ELSE topic
        /\ outPc' = "mark"
        /\ UNCHANGED <<vars, records, unsent, cursor, joined, restarts>>

MarkDelivered ==
    /\ outPc = "mark" /\ market.ok
    /\ cursor' = cursor + 1 /\ outPc' = "loop"
    /\ UNCHANGED <<vars, records, market, unsent, topic, joined, restarts>>

\* The process stops anywhere and starts again; the core's state is replayed
\* from the same records, the aggregation is not stored.
Restart ==
    /\ restarts < MaxRestarts /\ outPc # "replay"
    /\ restarts' = restarts + 1
    /\ outPc' = "replay" /\ market' = EmptyMarket /\ unsent' = {}
    /\ joined' = Len(topic)
    /\ UNCHANGED <<vars, records, cursor, topic>>

MarketInit ==
    /\ Init
    /\ records = <<>> /\ market = EmptyMarket /\ outPc = "replay" /\ unsent = {}
    /\ cursor = 0 /\ topic = <<>> /\ joined = 0 /\ restarts = 0

MarketNext ==
    \/ \E o \in Orders : CoreSubmit(o)
    \/ \E o \in Orders, u \in Users : CoreCancel(o.id, u, o.pair)
    \/ \E d \in Credits : CoreCredit(d)
    \/ Replay \/ Baseline \/ ApplyAndSend \/ MarkDelivered \/ Restart

MarketSpec == MarketInit /\ [][MarketNext]_allVars

-----------------------------------------------------------------------------
(* Properties.                                                              *)

\* The book the public sees is the book.  The worker never stops on it: no
\* trade or cancellation finds its order missing or its level too small, no
\* order rests twice, during replay either.  And when it has caught up, its
\* levels, added up from trades and cancellations alone, are the quantities
\* the core's queues hold, whatever was partly filled, skipped or cancelled,
\* and its index holds the same orders.
CaughtUp == outPc = "loop" /\ cursor = Len(records)
PublicBookIsCoreBook ==
    market.ok /\ (CaughtUp => \A p \in Pairs : \A s \in Sides : \A x \in Prices :
        /\ market.levels[p][s][x]
           = FoldLeft(LAMBDA sum, e : sum + e.remaining, 0, books[p][s].levels[x])
        /\ {<<o.id, o.remaining>> : o \in {i \in market.orders :
                                             i.pair = p /\ i.type = s /\ i.price = x}}
           = {<<e.id, e.remaining>> : e \in ToSet(books[p][s].levels[x])})

\* previous_sequence links a snapshot to the one that came before it in the
\* same market, and that one is already on the topic: a consumer that finds
\* the link unknown has really missed something.  What is sent again, by a
\* retry or as a baseline, is the same snapshot under the same identifier.
ChainIsUnbroken ==
    \A i \in DOMAIN topic :
        LET t == topic[i]
        IN  /\ \A j \in DOMAIN topic : topic[j].sequence = t.sequence => topic[j] = t
            /\ t.previous > 0 =>
                  \E j \in 1..(i - 1) : topic[j].pair = t.pair /\ topic[j].sequence = t.previous
            /\ \A s \in (t.previous + 1)..(t.sequence - 1) : t.pair \notin PairOf(records[s])

\* A platform that starts to listen when the engine restarts gets every
\* market that ever had an outcome, without waiting for its next order, and
\* the last thing it gets is the worker's current book.
LastOf(p) ==
    LET own == {i \in (joined + 1)..Len(topic) : topic[i].pair = p}
    IN  {topic[i] : i \in {k \in own : \A j \in own : j <= k}}
NewListenerSeesEveryMarket ==
    outPc = "loop" => \A p \in Pairs : ToSet(market.latest[p]) = LastOf(p)
===============================================================================
