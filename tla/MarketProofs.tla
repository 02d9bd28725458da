----------------------------- MODULE MarketProofs -----------------------------
(***************************************************************************)
(* The public market data, for any orders, restarts and interleaving of the*)
(* output worker with the core.                                            *)
(*                                                                         *)
(* The feed: the journal determines the aggregation after each record      *)
(* (History), a replay gives the same (ReplayIs), and the worker is always *)
(* at a place of that history, with the topic holding what the records     *)
(* before it published (Worker, Feed).                                     *)
(*                                                                         *)
(* The book: an aggregation whose levels are the sums of its index (Index) *)
(* and whose index is the set of resting entries of the core (Mirrors)     *)
(* keeps both when a record is applied: the fills take each maker down once*)
(* (Drained), add up to what the plan traded (AddsUp), and what is left of *)
(* the order rests under an id the index has not seen.                     *)
(***************************************************************************)
EXTENDS MarketProjection, EngineCoreProofs

-----------------------------------------------------------------------------
(* Types.                                                                   *)

Ids == {o.id : o \in Orders}
IndexType == [id : Ids, pair : Pairs, type : Sides, price : Prices, remaining : Int]
FillType == [maker : Ids, price : Int, qty : Int]
TopType == SUBSET (Prices \X Int)
SnapshotType == [pair : Pairs, sequence : Nat, previous : Nat, bids : TopType, asks : TopType,
                 trades : Seq(FillType)]
LevelsType == [Pairs -> [Sides -> [Prices -> Int]]]
MarketType == [ok : BOOLEAN, orders : SUBSET IndexType, levels : LevelsType,
               sequence : [Pairs -> Nat], latest : [Pairs -> Seq(SnapshotType)]]
SubmittedType == [kind : {"submitted"}, order : {o \in Orders : ValidOrder(o)}, trades : Seq(FillType)]
CancelledType == [kind : {"cancelled"}, order : EntryType]
RecordType == {NoMarket} \cup SubmittedType \cup CancelledType

\* What Reduce and Rest leave of a market alone.
SameFeed(m, new) ==
    /\ m \in MarketType /\ new \in MarketType
    /\ new.sequence = m.sequence /\ new.latest = m.latest

\* reduce leaves the feed alone.
LEMMA ReduceType ==
    ASSUME NEW m \in MarketType, NEW id, NEW qty \in Int
    PROVE  SameFeed(m, Reduce(m, id, qty))
<1>1. PICK found : found = {o \in m.orders : o.id = id}
  OBVIOUS
<1>2. PICK o : o = CHOOSE x \in found : TRUE
  OBVIOUS
<1>3. PICK new : new = Reduce(m, id, qty)
  OBVIOUS
<1>4. CASE found = {} \/ ~m.ok
  <2>1. new = [m EXCEPT !.ok = FALSE]
    BY Zenon, <1>1, <1>3, <1>4 DEF Reduce
  <2>2. QED
    BY Zenon, <1>3, <2>1 DEF SameFeed, MarketType
<1>5. CASE ~(found = {} \/ ~m.ok)
  <2>1. PICK left : left = [o EXCEPT !.remaining = @ - qty]
    OBVIOUS
  <2>2. PICK rest : rest = IF left.remaining = 0 THEN {} ELSE {left}
    BY Zenon
  <2>3. new = [m EXCEPT !.ok = qty <= o.remaining /\ qty <= m.levels[o.pair][o.type][o.price],
                       !.orders = (@ \ {o}) \cup rest,
                       !.levels[o.pair][o.type][o.price] = @ - qty]
    BY Zenon, <1>1, <1>2, <1>3, <1>5, <2>1, <2>2 DEF Reduce
  <2>4. o \in IndexType
    BY <1>1, <1>2, <1>5 DEF MarketType
  <2>5. o.remaining \in Int /\ o.pair \in Pairs /\ o.type \in Sides /\ o.price \in Prices
    BY <2>4 DEF IndexType
  <2>6. left \in IndexType
    BY <2>1, <2>4, <2>5 DEF IndexType
  <2>7. PICK lv : lv = m.levels
    OBVIOUS
  <2>8. lv \in LevelsType /\ lv[o.pair][o.type][o.price] \in Int
    BY <2>5, <2>7 DEF MarketType, LevelsType
  <2>9. PICK nl : nl = [lv EXCEPT ![o.pair][o.type][o.price] = @ - qty]
    OBVIOUS
  <2>10. nl \in LevelsType
    BY <2>5, <2>8, <2>9 DEF LevelsType
  <2>11. PICK orders : orders = (m.orders \ {o}) \cup rest
    OBVIOUS
  <2>12. orders \in SUBSET IndexType
    BY <2>2, <2>6, <2>11 DEF MarketType
  <2>13. PICK ok \in BOOLEAN : ok = (qty <= o.remaining /\ qty <= m.levels[o.pair][o.type][o.price])
    OBVIOUS
  <2>14. new = [m EXCEPT !.ok = ok, !.orders = orders, !.levels = nl]
    BY <2>3, <2>7, <2>9, <2>11, <2>13 DEF MarketType
  <2>15. QED
    BY <1>3, <2>10, <2>12, <2>14 DEF SameFeed, MarketType
<1>6. QED
  BY <1>4, <1>5

\* A resting order leaves the feed alone.
LEMMA RestType ==
    ASSUME NEW m \in MarketType, NEW o \in Orders, ValidOrder(o), NEW filled \in Int
    PROVE  SameFeed(m, Rest(m, o, filled))
<1>1. PICK remaining : remaining = o.amount - filled
  OBVIOUS
<1>2. PICK new : new = Rest(m, o, filled)
  OBVIOUS
<1>3. CASE ~IsLimit(o) \/ remaining = 0
  <2>1. new = m
    BY <1>1, <1>2, <1>3 DEF Rest
  <2>2. QED
    BY <1>2, <2>1 DEF SameFeed
<1>4. CASE ~(~IsLimit(o) \/ remaining = 0)
  <2>1. PICK e : e = [id |-> o.id, pair |-> o.pair, type |-> o.type, price |-> o.price, remaining |-> remaining]
    OBVIOUS
  <2>2. new = [m EXCEPT !.ok = @ /\ remaining > 0 /\ \A x \in m.orders : x.id # o.id,
                       !.orders = @ \cup {e},
                       !.levels[o.pair][o.type][o.price] = @ + remaining]
    BY <1>1, <1>2, <1>4, <2>1 DEF Rest
  <2>3. o.pair \in Pairs /\ o.type \in Sides /\ o.price \in Prices /\ remaining \in Int
    <3>1. ~IsBudget(o) /\ IsLimit(o)
      BY <1>4 DEF IsBudget
    <3>2. o.price # 0
      BY <3>1, OrderType DEF ValidOrder
    <3>3. QED
      BY <1>1, <3>2, OrderType
  <2>4. e \in IndexType
    BY <2>1, <2>3 DEF IndexType, Ids
  <2>5. PICK lv : lv = m.levels
    OBVIOUS
  <2>6. lv \in LevelsType /\ lv[o.pair][o.type][o.price] \in Int
    BY <2>3, <2>5 DEF MarketType, LevelsType
  <2>7. PICK nl : nl = [lv EXCEPT ![o.pair][o.type][o.price] = @ + remaining]
    OBVIOUS
  <2>8. nl \in LevelsType
    BY <2>3, <2>6, <2>7 DEF LevelsType
  <2>9. PICK orders : orders = m.orders \cup {e}
    OBVIOUS
  <2>10. orders \in SUBSET IndexType
    BY <2>4, <2>9 DEF MarketType
  <2>11. PICK ok \in BOOLEAN : ok = (m.ok /\ remaining > 0 /\ \A x \in m.orders : x.id # o.id)
    BY DEF MarketType
  <2>12. new = [m EXCEPT !.ok = ok, !.orders = orders, !.levels = nl]
    BY <2>2, <2>5, <2>7, <2>9, <2>11 DEF MarketType
  <2>13. QED
    BY <1>2, <2>8, <2>10, <2>12 DEF SameFeed, MarketType
<1>5. QED
  BY <1>3, <1>4

\* What Publish does, and what it leaves alone.
Published(m, p, seq, new) ==
    /\ new \in MarketType
    /\ new.ok = m.ok /\ new.orders = m.orders /\ new.levels = m.levels
    /\ new.sequence[p] = seq
    /\ \E s \in SnapshotType : /\ new.latest[p] = <<s>>
                               /\ s.pair = p /\ s.sequence = seq /\ s.previous = m.sequence[p]
    /\ \A q \in Pairs : q # p => new.sequence[q] = m.sequence[q] /\ new.latest[q] = m.latest[q]

\* The published levels of a side.
LEMMA TopTyped ==
    ASSUME NEW m \in MarketType, NEW p \in Pairs, NEW s \in Sides
    PROVE  Top(m, p, s) \in TopType
<1>1. PICK lv : lv = m.levels[p][s]
  OBVIOUS
<1>2. lv \in [Prices -> Int]
  BY <1>1 DEF MarketType, LevelsType
<1>3. ASSUME NEW t \in Top(m, p, s) PROVE t \in Prices \X Int
  <2>1. PICK x \in Prices : t = <<x, lv[x]>>
    BY <1>1 DEF Top
  <2>2. lv[x] \in Int
    BY <1>2
  <2>3. QED
    BY <2>1, <2>2
<1>4. QED
  BY <1>3 DEF TopType

\* A new snapshot is linked to the one before.
LEMMA PublishType ==
    ASSUME NEW m \in MarketType, NEW p \in Pairs, NEW seq \in Nat, NEW trades \in Seq(FillType)
    PROVE  Published(m, p, seq, Publish(m, p, seq, trades))
<1>1. PICK s : s = Snapshot(m, p, seq, trades)
  OBVIOUS
<1>2. m.sequence[p] \in Nat
  BY DEF MarketType
<1>3. PICK bids \in TopType, asks \in TopType : bids = Top(m, p, "buy") /\ asks = Top(m, p, "sell")
  BY TopTyped DEF Sides
<1>4. s = [pair |-> p, sequence |-> seq, previous |-> m.sequence[p], bids |-> bids, asks |-> asks, trades |-> trades]
  BY <1>1, <1>3 DEF Snapshot
<1>5. s \in SnapshotType
  BY <1>2, <1>4 DEF SnapshotType
<1>6. s.pair = p /\ s.sequence = seq /\ s.previous = m.sequence[p]
  BY <1>4
<1>61. PICK S : S = SnapshotType
  OBVIOUS
<1>62. <<s>> \in Seq(S)
  BY <1>5, <1>61
<1>7. PICK one \in Seq(SnapshotType) : one = <<s>>
  BY <1>61, <1>62
<1>8. PICK latest : latest = [m.latest EXCEPT ![p] = one]
  OBVIOUS
<1>9. PICK sequence : sequence = [m.sequence EXCEPT ![p] = seq]
  OBVIOUS
<1>10. m.latest \in [Pairs -> Seq(SnapshotType)] /\ m.sequence \in [Pairs -> Nat]
  BY DEF MarketType
<1>11. latest \in [Pairs -> Seq(SnapshotType)] /\ latest[p] = one /\ \A q \in Pairs : q # p => latest[q] = m.latest[q]
  BY <1>8, <1>10
<1>12. sequence \in [Pairs -> Nat] /\ sequence[p] = seq /\ \A q \in Pairs : q # p => sequence[q] = m.sequence[q]
  BY <1>9, <1>10
<1>13. PICK new : new = Publish(m, p, seq, trades)
  OBVIOUS
<1>14. new = [m EXCEPT !.latest = latest, !.sequence = sequence]
  BY <1>1, <1>7, <1>8, <1>9, <1>13 DEF Publish, MarketType
<1>15. /\ new \in MarketType /\ new.ok = m.ok /\ new.orders = m.orders /\ new.levels = m.levels
       /\ new.sequence = sequence /\ new.latest = latest
  BY <1>11, <1>12, <1>14 DEF MarketType
<1>16. QED
  BY <1>5, <1>6, <1>7, <1>11, <1>12, <1>13, <1>15 DEF Published

-----------------------------------------------------------------------------
(* The folds of ApplyRecord.                                                *)

ReduceAll(m, trades) == FoldLeft(LAMBDA x, t : Reduce(x, t.maker, t.qty), m, trades)
FilledBy(trades) == FoldLeft(LAMBDA sum, t : sum + t.qty, 0, trades)

\* The fields of a fill.
LEMMA FillTyped ==
    ASSUME NEW t \in FillType
    PROVE  t.qty \in Int /\ t.maker \in Ids
BY DEF FillType

\* reduce keeps the type of the projection.
LEMMA ReduceTyped ==
    ASSUME NEW m \in MarketType, NEW t \in FillType
    PROVE  Reduce(m, t.maker, t.qty) \in MarketType /\ SameFeed(m, Reduce(m, t.maker, t.qty))
BY FillTyped, ReduceType DEF SameFeed

ReduceStep(m, trades, it) ==
    it = [s \in SUBSET DOMAIN trades |-> IF s = {} THEN m
                                    ELSE Reduce(it[s \ {Max(s)}], trades[Max(s)].maker, trades[Max(s)].qty)]
ReduceRun(m, trades, f) ==
    /\ f \in [0..Len(trades) -> MarketType] /\ f[0] = m
    /\ \A k \in 1..Len(trades) : f[k] = Reduce(f[k - 1], trades[k].maker, trades[k].qty)

\* The fills are applied one after the other.
LEMMA ReduceRuns ==
    ASSUME NEW m \in MarketType, NEW trades \in Seq(FillType)
    PROVE  \E f : ReduceRun(m, trades, f) /\ ReduceAll(m, trades)
                                            = f[Len(trades)]
<1>1. PICK n \in Nat : n = Len(trades)
  OBVIOUS
<1>2. DOMAIN trades = 1..n /\ \A k \in 1..n : trades[k] \in FillType
  BY <1>1
<1>3. PICK V : V = MarketType
  OBVIOUS
<1>4. PICK start \in V : start = m
  BY <1>3
<1>5. PICK G : G = [w \in V \X (1..n) |-> Reduce(w[1], trades[w[2]].maker, trades[w[2]].qty)]
  OBVIOUS
<1>6. ASSUME NEW v \in V, NEW d \in 1..n
      PROVE  G[<<v, d>>] = Reduce(v, trades[d].maker, trades[d].qty) /\ G[<<v, d>>] \in V
  <2>1. G[<<v, d>>] = Reduce(v, trades[d].maker, trades[d].qty)
    BY <1>5
  <2>2. QED
    BY <1>2, <1>3, <2>1, ReduceTyped
<1>7. PICK h \in [SUBSET (1..n) -> V] : Folds(n, start, G, h)
  BY <1>6, FoldExists
<1>8. ASSUME NEW x \in SUBSET (1..n)
      PROVE  h[x] = IF x = {} THEN start ELSE Reduce(h[x \ {Max(x)}], trades[Max(x)].maker, trades[Max(x)].qty)
  <2>1. h[x] = IF x = {} THEN start ELSE G[<<h[x \ {Max(x)}], Max(x)>>]
    BY <1>7 DEF Folds
  <2>2. CASE x = {}
    BY <2>1, <2>2
  <2>3. CASE x # {}
    <3>1. Max(x) \in 1..n
      BY <2>3, MaxInside
    <3>2. h[x \ {Max(x)}] \in V
      OBVIOUS
    <3>3. QED
      BY <1>6, <2>1, <2>3, <3>1, <3>2
  <2>4. QED
    BY <2>2, <2>3
<1>9. ReduceStep(m, trades, h)
  <2>1. h = [x \in SUBSET (1..n) |->
               IF x = {} THEN start ELSE Reduce(h[x \ {Max(x)}], trades[Max(x)].maker, trades[Max(x)].qty)]
    BY <1>8
  <2>2. QED
    BY <1>2, <1>4, <2>1 DEF ReduceStep
<1>10. PICK it : it = CHOOSE g : ReduceStep(m, trades, g)
  OBVIOUS
<1>11. ReduceStep(m, trades, it)
  BY <1>9, <1>10
<1>12. ReduceAll(m, trades) = it[1..n]
  <2>1. ReduceAll(m, trades)
          = (CHOOSE g : ReduceStep(m, trades, g))[DOMAIN trades]
    BY DEF ReduceAll, FoldLeft, MapThenFoldSet, ReduceStep
  <2>2. QED
    BY <1>2, <1>10, <2>1
<1>13. ASSUME NEW x \in SUBSET (1..n)
       PROVE  it[x] = IF x = {} THEN start ELSE Reduce(it[x \ {Max(x)}], trades[Max(x)].maker, trades[Max(x)].qty)
  <2>1. PICK j : j = [s \in SUBSET DOMAIN trades |-> IF s = {} THEN m
                                    ELSE Reduce(it[s \ {Max(s)}], trades[Max(s)].maker, trades[Max(s)].qty)]
    OBVIOUS
  <2>2. it = j
    BY <1>11, <2>1 DEF ReduceStep
  <2>3. QED
    BY <1>2, <1>4, <2>1, <2>2
<1>14. PICK f : f = [k \in 0..n |-> it[1..k]]
  OBVIOUS
<1>15. f[0] = start
  <2>1. 1..0 = {}
    OBVIOUS
  <2>2. it[{}] = start
    BY <1>13
  <2>3. QED
    BY <1>14, <2>1, <2>2
<1>16. ASSUME NEW k \in 1..n PROVE f[k] = Reduce(f[k - 1], trades[k].maker, trades[k].qty)
  <2>1. PICK x : x = 1..k
    OBVIOUS
  <2>2. x \in SUBSET (1..n) /\ k \in x /\ k - 1 \in 0..n
    BY <2>1
  <2>3. Max(x) = k /\ x \ {k} = 1..(k - 1)
    BY <2>1, MaxInside
  <2>4. it[x] = Reduce(it[1..(k - 1)], trades[k].maker, trades[k].qty)
    BY <1>13, <2>2, <2>3
  <2>5. QED
    BY <1>14, <2>1, <2>2, <2>4
<1>17. \A k \in 0..n : f[k] \in V
  <2>1. PICK T : T = {k \in Nat : k \in 0..n => f[k] \in V}
    OBVIOUS
  <2>2. 0 \in T
    BY <1>15, <2>1
  <2>3. ASSUME NEW k \in Nat, k \in T PROVE k + 1 \in T
    <3>1. SUFFICES ASSUME k + 1 \in 0..n PROVE f[k + 1] \in V
      BY <2>1
    <3>2. k + 1 \in 1..n /\ (k + 1) - 1 = k /\ k \in 0..n
      BY <3>1
    <3>3. f[k + 1] = Reduce(f[k], trades[k + 1].maker, trades[k + 1].qty) /\ f[k] \in V
      BY <1>16, <2>1, <2>3, <3>2
    <3>4. PICK v \in V, d \in 1..n : v = f[k] /\ d = k + 1
      BY <3>2, <3>3
    <3>5. QED
      BY <1>6, <3>3, <3>4
  <2>4. \A k \in Nat : k \in T
    BY <2>2, <2>3, Numbers
  <2>5. QED
    BY <2>1, <2>4
<1>18. f \in [0..n -> MarketType]
  BY <1>3, <1>14, <1>17
<1>19. ReduceAll(m, trades) = f[n]
  BY <1>12, <1>14
<1>20. QED
  BY <1>1, <1>4, <1>15, <1>16, <1>18, <1>19 DEF ReduceRun

FilledStep(trades, it) ==
    it = [s \in SUBSET DOMAIN trades |-> IF s = {} THEN 0
                                    ELSE it[s \ {Max(s)}] + trades[Max(s)].qty]
FilledRun(trades, f) ==
    /\ f \in [0..Len(trades) -> Int] /\ f[0] = 0
    /\ \A k \in 1..Len(trades) : f[k] = f[k - 1] + trades[k].qty

\* The filled quantity is collected fill by fill.
LEMMA FilledRuns ==
    ASSUME NEW trades \in Seq(FillType)
    PROVE  \E f : FilledRun(trades, f) /\ FilledBy(trades)
                                            = f[Len(trades)]
<1>1. PICK n \in Nat : n = Len(trades)
  OBVIOUS
<1>2. DOMAIN trades = 1..n /\ \A k \in 1..n : trades[k] \in FillType
  BY <1>1
<1>3. PICK V : V = Int
  OBVIOUS
<1>4. PICK start \in V : start = 0
  BY <1>3
<1>5. PICK G : G = [w \in V \X (1..n) |-> w[1] + trades[w[2]].qty]
  OBVIOUS
<1>6. ASSUME NEW v \in V, NEW d \in 1..n
      PROVE  G[<<v, d>>] = v + trades[d].qty /\ G[<<v, d>>] \in V
  <2>1. G[<<v, d>>] = v + trades[d].qty
    BY <1>5
  <2>2. QED
    BY <1>2, <1>3, <2>1, FillTyped
<1>7. PICK h \in [SUBSET (1..n) -> V] : Folds(n, start, G, h)
  BY <1>6, FoldExists
<1>8. ASSUME NEW x \in SUBSET (1..n)
      PROVE  h[x] = IF x = {} THEN start ELSE h[x \ {Max(x)}] + trades[Max(x)].qty
  <2>1. h[x] = IF x = {} THEN start ELSE G[<<h[x \ {Max(x)}], Max(x)>>]
    BY <1>7 DEF Folds
  <2>2. CASE x = {}
    BY <2>1, <2>2
  <2>3. CASE x # {}
    <3>1. Max(x) \in 1..n
      BY <2>3, MaxInside
    <3>2. h[x \ {Max(x)}] \in V
      OBVIOUS
    <3>3. QED
      BY <1>6, <2>1, <2>3, <3>1, <3>2
  <2>4. QED
    BY <2>2, <2>3
<1>9. FilledStep(trades, h)
  <2>1. h = [x \in SUBSET (1..n) |->
               IF x = {} THEN start ELSE h[x \ {Max(x)}] + trades[Max(x)].qty]
    BY <1>8
  <2>2. QED
    BY <1>2, <1>4, <2>1 DEF FilledStep
<1>10. PICK it : it = CHOOSE g : FilledStep(trades, g)
  OBVIOUS
<1>11. FilledStep(trades, it)
  BY <1>9, <1>10
<1>12. FilledBy(trades) = it[1..n]
  <2>1. FilledBy(trades)
          = (CHOOSE g : FilledStep(trades, g))[DOMAIN trades]
    BY DEF FilledBy, FoldLeft, MapThenFoldSet, FilledStep
  <2>2. QED
    BY <1>2, <1>10, <2>1
<1>13. ASSUME NEW x \in SUBSET (1..n)
       PROVE  it[x] = IF x = {} THEN start ELSE it[x \ {Max(x)}] + trades[Max(x)].qty
  <2>1. PICK j : j = [s \in SUBSET DOMAIN trades |-> IF s = {} THEN 0
                                    ELSE it[s \ {Max(s)}] + trades[Max(s)].qty]
    OBVIOUS
  <2>2. it = j
    BY <1>11, <2>1 DEF FilledStep
  <2>3. QED
    BY <1>2, <1>4, <2>1, <2>2
<1>14. PICK f : f = [k \in 0..n |-> it[1..k]]
  OBVIOUS
<1>15. f[0] = start
  <2>1. 1..0 = {}
    OBVIOUS
  <2>2. it[{}] = start
    BY <1>13
  <2>3. QED
    BY <1>14, <2>1, <2>2
<1>16. ASSUME NEW k \in 1..n PROVE f[k] = f[k - 1] + trades[k].qty
  <2>1. PICK x : x = 1..k
    OBVIOUS
  <2>2. x \in SUBSET (1..n) /\ k \in x /\ k - 1 \in 0..n
    BY <2>1
  <2>3. Max(x) = k /\ x \ {k} = 1..(k - 1)
    BY <2>1, MaxInside
  <2>4. it[x] = it[1..(k - 1)] + trades[k].qty
    BY <1>13, <2>2, <2>3
  <2>5. QED
    BY <1>14, <2>1, <2>2, <2>4
<1>17. \A k \in 0..n : f[k] \in V
  <2>1. PICK T : T = {k \in Nat : k \in 0..n => f[k] \in V}
    OBVIOUS
  <2>2. 0 \in T
    BY <1>15, <2>1
  <2>3. ASSUME NEW k \in Nat, k \in T PROVE k + 1 \in T
    <3>1. SUFFICES ASSUME k + 1 \in 0..n PROVE f[k + 1] \in V
      BY <2>1
    <3>2. k + 1 \in 1..n /\ (k + 1) - 1 = k /\ k \in 0..n
      BY <3>1
    <3>3. f[k + 1] = f[k] + trades[k + 1].qty /\ f[k] \in V
      BY <1>16, <2>1, <2>3, <3>2
    <3>4. PICK v \in V, d \in 1..n : v = f[k] /\ d = k + 1
      BY <3>2, <3>3
    <3>5. QED
      BY <1>6, <3>3, <3>4
  <2>4. \A k \in Nat : k \in T
    BY <2>2, <2>3, Numbers
  <2>5. QED
    BY <2>1, <2>4
<1>18. f \in [0..n -> Int]
  BY <1>3, <1>14, <1>17
<1>19. FilledBy(trades) = f[n]
  BY <1>12, <1>14
<1>20. QED
  BY <1>1, <1>4, <1>15, <1>16, <1>18, <1>19 DEF FilledRun

-----------------------------------------------------------------------------
(* What a record does to the feed.                                          *)

\* The fills leave the feed alone.
LEMMA ReduceAllType ==
    ASSUME NEW m \in MarketType, NEW trades \in Seq(FillType)
    PROVE  SameFeed(m, ReduceAll(m, trades))
<1>1. PICK f : ReduceRun(m, trades, f) /\ ReduceAll(m, trades) = f[Len(trades)]
  BY ReduceRuns
<1>2. PICK n \in Nat : n = Len(trades) /\ DOMAIN trades = 1..n
  OBVIOUS
<1>3. f \in [0..n -> MarketType] /\ f[0] = m /\ \A k \in 1..n : f[k] = Reduce(f[k - 1], trades[k].maker, trades[k].qty)
  BY <1>1, <1>2 DEF ReduceRun
<1>4. PICK T : T = {k \in Nat : k <= n => SameFeed(m, f[k])}
  OBVIOUS
<1>5. 0 \in T
  BY <1>3, <1>4 DEF SameFeed
<1>6. ASSUME NEW k \in Nat, k \in T PROVE k + 1 \in T
  <2>1. CASE k + 1 > n
    BY <1>4, <2>1
  <2>2. CASE k + 1 <= n
    <3>1. k + 1 \in 1..n /\ k \in 0..n /\ (k + 1) - 1 = k /\ k <= n
      BY <2>2
    <3>2. PICK t \in FillType : t = trades[k + 1]
      BY <1>2, <3>1
    <3>3. PICK c \in MarketType : c = f[k]
      BY <1>3, <3>1
    <3>4. f[k + 1] = Reduce(c, t.maker, t.qty)
      BY <1>3, <3>1, <3>2, <3>3
    <3>5. SameFeed(c, f[k + 1])
      BY <3>4, ReduceTyped
    <3>6. SameFeed(m, c)
      BY <1>4, <1>6, <3>1, <3>3
    <3>7. SameFeed(m, f[k + 1])
      BY <3>5, <3>6 DEF SameFeed
    <3>8. QED
      BY <1>4, <3>7
  <2>3. QED
    BY <2>1, <2>2
<1>7. \A k \in Nat : k \in T
  BY <1>5, <1>6, Numbers
<1>8. QED
  BY <1>1, <1>2, <1>4, <1>7

\* The filled quantity is an integer.
LEMMA FilledType ==
    ASSUME NEW trades \in Seq(FillType)
    PROVE  FilledBy(trades) \in Int
<1>1. PICK f : FilledRun(trades, f) /\ FilledBy(trades) = f[Len(trades)]
  BY FilledRuns
<1>2. Len(trades) \in 0..Len(trades)
  OBVIOUS
<1>3. QED
  BY <1>1, <1>2 DEF FilledRun

\* The three kinds of a record.
LEMMA RecordKinds ==
    ASSUME NEW rec \in RecordType
    PROVE  \/ rec.kind = "none" /\ PairOf(rec) = {}
           \/ /\ rec.kind = "submitted" /\ rec.order \in Orders /\ ValidOrder(rec.order)
              /\ rec.trades \in Seq(FillType) /\ PairOf(rec) = {rec.order.pair} /\ rec.order.pair \in Pairs
           \/ /\ rec.kind = "cancelled" /\ rec.order \in EntryType
              /\ PairOf(rec) = {rec.order.pair} /\ rec.order.pair \in Pairs
<1>1. CASE rec = NoMarket
  BY <1>1 DEF NoMarket, PairOf
<1>2. CASE rec \in SubmittedType
  BY <1>2, OrderType DEF SubmittedType, PairOf
<1>3. CASE rec \in CancelledType
  BY <1>3 DEF CancelledType, PairOf, EntryType
<1>4. QED
  BY <1>1, <1>2, <1>3 DEF RecordType

\* The projection before it publishes.
Changed(m, rec) ==
    IF rec.kind = "submitted" THEN Rest(ReduceAll(m, rec.trades), rec.order, FilledBy(rec.trades))
    ELSE Reduce(m, rec.order.id, rec.order.remaining)

\* What a record does to the feed of each market.
Linked(m, rec, seq, new) ==
    /\ new \in MarketType
    /\ \A p \in Pairs : p \notin PairOf(rec) => new.sequence[p] = m.sequence[p] /\ new.latest[p] = m.latest[p]
    /\ \A p \in PairOf(rec) :
          /\ p \in Pairs /\ new.sequence[p] = seq
          /\ \E s \in SnapshotType : /\ new.latest[p] = <<s>>
                                     /\ s.pair = p /\ s.sequence = seq /\ s.previous = m.sequence[p]

\* A record of a market publishes one linked snapshot, another record nothing.
LEMMA ApplyLinks ==
    ASSUME NEW m \in MarketType, NEW rec \in RecordType, NEW seq \in Nat
    PROVE  /\ Linked(m, rec, seq, ApplyRecord(m, rec, seq))
           /\ rec.kind = "none" => ApplyRecord(m, rec, seq) = m
           /\ rec.kind # "none" =>
                 /\ Changed(m, rec) \in MarketType
                 /\ Published(Changed(m, rec), rec.order.pair, seq, ApplyRecord(m, rec, seq))
<1>1. PICK new : new = ApplyRecord(m, rec, seq)
  OBVIOUS
<1>2. CASE rec.kind = "none"
  <2>1. new = m
    BY Zenon, <1>1, <1>2 DEF ApplyRecord
  <2>2. PairOf(rec) = {}
    BY <1>2 DEF PairOf
  <2>3. QED
    BY <1>1, <1>2, <2>1, <2>2 DEF Linked
<1>3. ASSUME NEW mid, SameFeed(m, mid), NEW p \in Pairs, NEW trades \in Seq(FillType),
             new = Publish(mid, p, seq, trades), PairOf(rec) = {p}
      PROVE  Linked(m, rec, seq, new) /\ Published(mid, p, seq, new)
  <2>1. mid \in MarketType /\ mid.sequence = m.sequence /\ mid.latest = m.latest
    BY <1>3 DEF SameFeed
  <2>2. Published(mid, p, seq, new)
    BY <1>3, <2>1, PublishType
  <2>3. QED
    BY <1>3, <2>1, <2>2 DEF Linked, Published
<1>4. CASE rec.kind = "submitted"
  <2>1. PICK o \in Orders : o = rec.order /\ ValidOrder(o) /\ o.pair \in Pairs /\ PairOf(rec) = {o.pair}
    BY <1>4, RecordKinds
  <2>2. PICK trades \in Seq(FillType) : trades = rec.trades
    BY <1>4, RecordKinds
  <2>3. PICK mid : mid = Rest(ReduceAll(m, trades), o, FilledBy(trades))
    OBVIOUS
  <2>4. new = Publish(mid, o.pair, seq, trades)
    BY Zenon, <1>1, <1>4, <2>1, <2>2, <2>3 DEF ApplyRecord, ReduceAll, FilledBy
  <2>5. PICK red : red = ReduceAll(m, trades)
    OBVIOUS
  <2>6. SameFeed(m, red)
    BY <2>5, ReduceAllType
  <2>7. SameFeed(red, mid)
    <3>1. red \in MarketType
      BY <2>6 DEF SameFeed
    <3>2. QED
      BY <2>1, <2>3, <2>5, <3>1, FilledType, RestType
  <2>8. SameFeed(m, mid)
    BY <2>6, <2>7 DEF SameFeed
  <2>9. Linked(m, rec, seq, new) /\ Published(mid, o.pair, seq, new)
    BY <1>3, <2>1, <2>4, <2>8
  <2>10. mid = Changed(m, rec) /\ mid \in MarketType
    BY <1>4, <2>1, <2>2, <2>3, <2>8 DEF Changed, SameFeed
  <2>11. QED
    BY <1>1, <1>4, <2>1, <2>9, <2>10
<1>5. CASE rec.kind = "cancelled"
  <2>1. PICK o \in EntryType : o = rec.order /\ o.pair \in Pairs /\ PairOf(rec) = {o.pair}
    BY <1>5, RecordKinds
  <2>2. o.remaining \in Int
    BY DEF EntryType
  <2>3. PICK mid : mid = Reduce(m, o.id, o.remaining)
    OBVIOUS
  <2>4. new = Publish(mid, o.pair, seq, <<>>)
    BY Zenon, <1>1, <1>5, <2>1, <2>3 DEF ApplyRecord
  <2>5. SameFeed(m, mid)
    BY <2>2, <2>3, ReduceType
  <2>51. PICK S : S = FillType
    OBVIOUS
  <2>52. <<>> \in Seq(S)
    OBVIOUS
  <2>6. PICK none \in Seq(FillType) : none = <<>>
    BY <2>51, <2>52
  <2>7. Linked(m, rec, seq, new) /\ Published(mid, o.pair, seq, new)
    BY <1>3, <2>1, <2>4, <2>5, <2>6
  <2>8. mid = Changed(m, rec) /\ mid \in MarketType
    BY <1>5, <2>1, <2>3, <2>5 DEF Changed, SameFeed
  <2>9. QED
    BY <1>1, <1>5, <2>1, <2>7, <2>8
<1>6. QED
  BY <1>2, <1>4, <1>5, RecordKinds

-----------------------------------------------------------------------------
(* The projection after each record.                                        *)

History(recs, f) ==
    /\ f \in [0..Len(recs) -> MarketType] /\ f[0] = EmptyMarket
    /\ \A k \in 1..Len(recs) : f[k] = ApplyRecord(f[k - 1], recs[k], k)
ReplayOf(recs, steps) == FoldLeft(LAMBDA m, s : ApplyRecord(m, recs[s], s), EmptyMarket, steps)

\* The empty projection.
LEMMA EmptyTyped == EmptyMarket \in MarketType
<1>1. PICK S : S = SnapshotType
  OBVIOUS
<1>2. <<>> \in Seq(S)
  OBVIOUS
<1>3. [p \in Pairs |-> <<>>] \in [Pairs -> Seq(SnapshotType)]
  BY <1>1, <1>2
<1>4. NoSequence \in [Pairs -> Nat]
  BY DEF NoSequence
<1>5. [p \in Pairs |-> [s \in Sides |-> [x \in Prices |-> 0]]] \in LevelsType
  BY DEF LevelsType
<1>6. QED
  BY <1>3, <1>4, <1>5 DEF EmptyMarket, MarketType

\* apply keeps the type of the projection.
LEMMA ApplyTyped ==
    ASSUME NEW m \in MarketType, NEW recs \in Seq(RecordType), NEW s \in DOMAIN recs
    PROVE  ApplyRecord(m, recs[s], s) \in MarketType
<1>1. recs[s] \in RecordType /\ s \in Nat
  <2>1. PICK R : R = RecordType
    OBVIOUS
  <2>2. recs \in Seq(R)
    BY <2>1
  <2>3. recs[s] \in R /\ s \in Nat
    BY <2>2
  <2>4. QED
    BY <2>1, <2>3
<1>2. QED
  BY <1>1, ApplyLinks DEF Linked

ReplayStep(recs, steps, it) ==
    it = [s \in SUBSET DOMAIN steps |-> IF s = {} THEN EmptyMarket
                                    ELSE ApplyRecord(it[s \ {Max(s)}], recs[steps[Max(s)]], steps[Max(s)])]
ReplayRun(recs, steps, f) ==
    /\ f \in [0..Len(steps) -> MarketType] /\ f[0] = EmptyMarket
    /\ \A k \in 1..Len(steps) : f[k] = ApplyRecord(f[k - 1], recs[steps[k]], steps[k])

\* The replay applies the records one after the other.
LEMMA ReplayRuns ==
    ASSUME NEW recs \in Seq(RecordType), NEW steps \in Seq(DOMAIN recs)
    PROVE  \E f : ReplayRun(recs, steps, f) /\ ReplayOf(recs, steps)
                                            = f[Len(steps)]
<1>1. PICK n \in Nat : n = Len(steps)
  OBVIOUS
<1>2. DOMAIN steps = 1..n /\ \A k \in 1..n : steps[k] \in DOMAIN recs
  BY <1>1
<1>3. PICK V : V = MarketType
  OBVIOUS
<1>4. PICK start \in V : start = EmptyMarket
  BY <1>3, EmptyTyped
<1>5. PICK G : G = [w \in V \X (1..n) |-> ApplyRecord(w[1], recs[steps[w[2]]], steps[w[2]])]
  OBVIOUS
<1>6. ASSUME NEW v \in V, NEW d \in 1..n
      PROVE  G[<<v, d>>] = ApplyRecord(v, recs[steps[d]], steps[d]) /\ G[<<v, d>>] \in V
  <2>1. G[<<v, d>>] = ApplyRecord(v, recs[steps[d]], steps[d])
    BY <1>5
  <2>2. QED
    BY <1>2, <1>3, <2>1, ApplyTyped, EmptyTyped
<1>7. PICK h \in [SUBSET (1..n) -> V] : Folds(n, start, G, h)
  BY <1>6, FoldExists
<1>8. ASSUME NEW x \in SUBSET (1..n)
      PROVE  h[x] = IF x = {} THEN start ELSE ApplyRecord(h[x \ {Max(x)}], recs[steps[Max(x)]], steps[Max(x)])
  <2>1. h[x] = IF x = {} THEN start ELSE G[<<h[x \ {Max(x)}], Max(x)>>]
    BY <1>7 DEF Folds
  <2>2. CASE x = {}
    BY <2>1, <2>2
  <2>3. CASE x # {}
    <3>1. Max(x) \in 1..n
      BY <2>3, MaxInside
    <3>2. h[x \ {Max(x)}] \in V
      OBVIOUS
    <3>3. QED
      BY <1>6, <2>1, <2>3, <3>1, <3>2
  <2>4. QED
    BY <2>2, <2>3
<1>9. ReplayStep(recs, steps, h)
  <2>1. h = [x \in SUBSET (1..n) |->
               IF x = {} THEN start ELSE ApplyRecord(h[x \ {Max(x)}], recs[steps[Max(x)]], steps[Max(x)])]
    BY <1>8
  <2>2. QED
    BY <1>2, <1>4, <2>1 DEF ReplayStep
<1>10. PICK it : it = CHOOSE g : ReplayStep(recs, steps, g)
  OBVIOUS
<1>11. ReplayStep(recs, steps, it)
  BY <1>9, <1>10
<1>12. ReplayOf(recs, steps) = it[1..n]
  <2>1. ReplayOf(recs, steps)
          = (CHOOSE g : ReplayStep(recs, steps, g))[DOMAIN steps]
    BY DEF ReplayOf, FoldLeft, MapThenFoldSet, ReplayStep
  <2>2. QED
    BY <1>2, <1>10, <2>1
<1>13. ASSUME NEW x \in SUBSET (1..n)
       PROVE  it[x] = IF x = {} THEN start ELSE ApplyRecord(it[x \ {Max(x)}], recs[steps[Max(x)]], steps[Max(x)])
  <2>1. PICK j : j = [s \in SUBSET DOMAIN steps |-> IF s = {} THEN EmptyMarket
                                    ELSE ApplyRecord(it[s \ {Max(s)}], recs[steps[Max(s)]], steps[Max(s)])]
    OBVIOUS
  <2>2. it = j
    BY <1>11, <2>1 DEF ReplayStep
  <2>3. QED
    BY <1>2, <1>4, <2>1, <2>2
<1>14. PICK f : f = [k \in 0..n |-> it[1..k]]
  OBVIOUS
<1>15. f[0] = start
  <2>1. 1..0 = {}
    OBVIOUS
  <2>2. it[{}] = start
    BY <1>13
  <2>3. QED
    BY <1>14, <2>1, <2>2
<1>16. ASSUME NEW k \in 1..n PROVE f[k] = ApplyRecord(f[k - 1], recs[steps[k]], steps[k])
  <2>1. PICK x : x = 1..k
    OBVIOUS
  <2>2. x \in SUBSET (1..n) /\ k \in x /\ k - 1 \in 0..n
    BY <2>1
  <2>3. Max(x) = k /\ x \ {k} = 1..(k - 1)
    BY <2>1, MaxInside
  <2>4. it[x] = ApplyRecord(it[1..(k - 1)], recs[steps[k]], steps[k])
    BY <1>13, <2>2, <2>3
  <2>5. QED
    BY <1>14, <2>1, <2>2, <2>4
<1>17. \A k \in 0..n : f[k] \in V
  <2>1. PICK T : T = {k \in Nat : k \in 0..n => f[k] \in V}
    OBVIOUS
  <2>2. 0 \in T
    BY <1>15, <2>1
  <2>3. ASSUME NEW k \in Nat, k \in T PROVE k + 1 \in T
    <3>1. SUFFICES ASSUME k + 1 \in 0..n PROVE f[k + 1] \in V
      BY <2>1
    <3>2. k + 1 \in 1..n /\ (k + 1) - 1 = k /\ k \in 0..n
      BY <3>1
    <3>3. f[k + 1] = ApplyRecord(f[k], recs[steps[k + 1]], steps[k + 1]) /\ f[k] \in V
      BY <1>16, <2>1, <2>3, <3>2
    <3>4. PICK v \in V, d \in 1..n : v = f[k] /\ d = k + 1
      BY <3>2, <3>3
    <3>5. QED
      BY <1>6, <3>3, <3>4
  <2>4. \A k \in Nat : k \in T
    BY <2>2, <2>3, Numbers
  <2>5. QED
    BY <2>1, <2>4
<1>18. f \in [0..n -> MarketType]
  BY <1>3, <1>14, <1>17
<1>19. ReplayOf(recs, steps) = f[n]
  BY <1>12, <1>14
<1>20. QED
  BY <1>1, <1>4, <1>15, <1>16, <1>18, <1>19 DEF ReplayRun

-----------------------------------------------------------------------------
(* A replay ends where the worker was.                                      *)

\* A replay up to the cursor ends where the worker was.
LEMMA ReplayIs ==
    ASSUME NEW recs \in Seq(RecordType), NEW f, History(recs, f), NEW c \in 0..Len(recs)
    PROVE  ReplayOf(recs, [s \in 1..c |-> s]) = f[c]
<1>1. PICK steps : steps = [s \in 1..c |-> s]
  OBVIOUS
<1>2. PICK n \in Nat : n = Len(recs) /\ DOMAIN recs = 1..n
  OBVIOUS
<1>3. c \in Nat /\ c <= n
  BY <1>2
<1>4. steps \in Seq(DOMAIN recs) /\ Len(steps) = c /\ \A k \in 1..c : steps[k] = k
  <2>1. \A s \in 1..c : s \in 1..n
    BY <1>3
  <2>2. steps \in [1..c -> 1..n]
    BY <1>1, <2>1
  <2>3. QED
    BY <1>1, <1>2, <1>3, <2>2
<1>5. PICK g : ReplayRun(recs, steps, g) /\ ReplayOf(recs, steps) = g[Len(steps)]
  BY <1>4, ReplayRuns
<1>6. g[0] = EmptyMarket /\ \A k \in 1..c : g[k] = ApplyRecord(g[k - 1], recs[k], k)
  BY <1>4, <1>5 DEF ReplayRun
<1>7. f[0] = EmptyMarket /\ \A k \in 1..n : f[k] = ApplyRecord(f[k - 1], recs[k], k)
  BY <1>2 DEF History
<1>8. PICK T : T = {k \in Nat : k <= c => g[k] = f[k]}
  OBVIOUS
<1>9. 0 \in T
  BY <1>6, <1>7, <1>8
<1>10. ASSUME NEW k \in Nat, k \in T PROVE k + 1 \in T
  <2>1. CASE k + 1 > c
    BY <1>3, <1>8, <2>1
  <2>2. CASE k + 1 <= c
    <3>1. k + 1 \in 1..c /\ k + 1 \in 1..n /\ (k + 1) - 1 = k /\ k <= c
      BY <1>3, <2>2
    <3>2. g[k] = f[k]
      BY <1>8, <1>10, <3>1
    <3>3. g[k + 1] = f[k + 1]
      BY <1>6, <1>7, <3>1, <3>2
    <3>4. QED
      BY <1>8, <3>3
  <2>3. QED
    BY <1>3, <2>1, <2>2
<1>11. \A k \in Nat : k \in T
  BY <1>9, <1>10, Numbers
<1>12. g[c] = f[c]
  BY <1>3, <1>8, <1>11
<1>13. ReplayOf(recs, steps) = f[c]
  BY <1>4, <1>5, <1>12
<1>14. QED
  BY <1>1, <1>13

\* One more record makes the history one longer.
LEMMA HistoryGrows ==
    ASSUME NEW recs \in Seq(RecordType), NEW f, History(recs, f), NEW rec \in RecordType
    PROVE  \E g : /\ History(Append(recs, rec), g)
                  /\ \A k \in 0..Len(recs) : g[k] = f[k]
                  /\ g[Len(recs) + 1] = ApplyRecord(f[Len(recs)], rec, Len(recs) + 1)
<1>1. PICK n \in Nat : n = Len(recs) /\ DOMAIN recs = 1..n
  OBVIOUS
<1>2. PICK new : new = Append(recs, rec)
  OBVIOUS
<1>3. PICK R : R = RecordType
  OBVIOUS
<1>4. recs \in Seq(R) /\ rec \in R
  BY <1>3
<1>5. Len(new) = n + 1 /\ new[n + 1] = rec /\ (\A k \in 1..n : new[k] = recs[k]) /\ new \in Seq(R)
  BY <1>1, <1>2, <1>4
<1>6. f \in [0..n -> MarketType] /\ f[0] = EmptyMarket /\ \A k \in 1..n : f[k] = ApplyRecord(f[k - 1], recs[k], k)
  BY <1>1 DEF History
<1>7. PICK last : last = ApplyRecord(f[n], rec, n + 1)
  OBVIOUS
<1>8. last \in MarketType
  <2>1. n \in 0..n /\ n + 1 \in Nat
    OBVIOUS
  <2>2. f[n] \in MarketType
    BY <1>6, <2>1
  <2>3. QED
    BY <1>7, <2>1, <2>2, ApplyLinks DEF Linked
<1>9. PICK g : g = [k \in 0..(n + 1) |-> IF k = n + 1 THEN last ELSE f[k]]
  OBVIOUS
<1>10. \A k \in 0..(n + 1) : k = n + 1 \/ k \in 0..n
  OBVIOUS
<1>11. \A k \in 0..n : k # n + 1 /\ k \in 0..(n + 1)
  OBVIOUS
<1>12. (\A k \in 0..n : g[k] = f[k]) /\ g[n + 1] = last
  BY <1>9, <1>11
<1>13. g \in [0..(n + 1) -> MarketType]
  BY <1>6, <1>8, <1>9, <1>10, <1>12
<1>14. ASSUME NEW k \in 1..(n + 1) PROVE g[k] = ApplyRecord(g[k - 1], new[k], k)
  <2>1. CASE k = n + 1
    <3>1. k - 1 = n /\ n \in 0..n
      BY <2>1
    <3>2. QED
      BY <1>5, <1>7, <1>12, <2>1, <3>1
  <2>2. CASE k # n + 1
    <3>1. k \in 1..n /\ k \in 0..n /\ k - 1 \in 0..n
      BY <2>2
    <3>2. QED
      BY <1>5, <1>6, <1>12, <3>1
  <2>3. QED
    BY <2>1, <2>2
<1>15. g[0] = EmptyMarket
  BY <1>6, <1>12
<1>16. History(new, g)
  BY <1>5, <1>13, <1>14, <1>15 DEF History
<1>17. QED
  BY <1>1, <1>2, <1>7, <1>12, <1>16

\* The last snapshot of a market, as the projection knows it.
Known(recs, f, k, p) ==
    LET q == f[k].sequence[p]
    IN  /\ q \in 0..k /\ \A s \in (q + 1)..k : p \notin PairOf(recs[s])
        /\ q = 0 => f[k].latest[p] = <<>>
        /\ q > 0 => p \in PairOf(recs[q]) /\ f[k].latest[p] = f[q].latest[p]

\* The latest snapshot of a market is known after one more record.
LEMMA KnownStep ==
    ASSUME NEW recs \in Seq(RecordType), NEW f, History(recs, f), NEW k \in Nat, k + 1 <= Len(recs),
           NEW p \in Pairs, Known(recs, f, k, p)
    PROVE  Known(recs, f, k + 1, p)
<1>1. PICK n \in Nat : n = Len(recs) /\ DOMAIN recs = 1..n
  OBVIOUS
<1>2. k + 1 \in 1..n /\ k \in 0..n /\ (k + 1) - 1 = k /\ k + 1 \in Nat
  BY <1>1
<1>3. PICK rec \in RecordType : rec = recs[k + 1]
  <2>1. PICK R : R = RecordType
    OBVIOUS
  <2>2. recs \in Seq(R)
    BY <2>1
  <2>3. recs[k + 1] \in R
    BY <1>1, <1>2, <2>2
  <2>4. QED
    BY <2>1, <2>3
<1>4. PICK m \in MarketType : m = f[k]
  BY <1>1, <1>2 DEF History
<1>5. PICK new : new = f[k + 1]
  OBVIOUS
<1>6. new = ApplyRecord(m, rec, k + 1)
  BY <1>1, <1>2, <1>3, <1>4, <1>5 DEF History
<1>7. Linked(m, rec, k + 1, new)
  BY <1>2, <1>6, ApplyLinks
<1>8. PICK q \in Nat : q = m.sequence[p]
  BY DEF MarketType
<1>9. /\ q <= k /\ \A s \in (q + 1)..k : p \notin PairOf(recs[s])
      /\ q = 0 => m.latest[p] = <<>>
      /\ q > 0 => p \in PairOf(recs[q]) /\ m.latest[p] = f[q].latest[p]
  BY <1>4, <1>8 DEF Known
<1>10. CASE p \in PairOf(rec)
  <2>1. new.sequence[p] = k + 1
    BY <1>7, <1>10 DEF Linked
  <2>2. k + 1 \in 0..(k + 1) /\ ((k + 1) + 1)..(k + 1) = {} /\ k + 1 # 0
    OBVIOUS
  <2>3. QED
    BY <1>3, <1>5, <1>10, <2>1, <2>2 DEF Known
<1>11. CASE p \notin PairOf(rec)
  <2>1. new.sequence[p] = q /\ new.latest[p] = m.latest[p]
    BY <1>7, <1>8, <1>11 DEF Linked
  <2>2. ASSUME NEW s \in (q + 1)..(k + 1) PROVE p \notin PairOf(recs[s])
    <3>1. CASE s = k + 1
      BY <1>3, <1>11, <3>1
    <3>2. CASE s # k + 1
      BY <1>9, <3>2
    <3>3. QED
      BY <3>1, <3>2
  <2>3. q \in 0..(k + 1)
    BY <1>9
  <2>4. QED
    BY <1>5, <1>9, <2>1, <2>2, <2>3 DEF Known
<1>12. QED
  BY <1>10, <1>11

\* The latest snapshot of a market is the one of its last record.
LEMMA AlwaysKnown ==
    ASSUME NEW recs \in Seq(RecordType), NEW f, History(recs, f), NEW p \in Pairs
    PROVE  \A k \in 0..Len(recs) : Known(recs, f, k, p)
<1>1. PICK T : T = {k \in Nat : k <= Len(recs) => Known(recs, f, k, p)}
  OBVIOUS
<1>2. 0 \in T
  <2>1. f[0].sequence[p] = 0 /\ f[0].latest[p] = <<>>
    BY DEF History, EmptyMarket, NoSequence
  <2>2. (0 + 1)..0 = {} /\ 0 \in 0..0
    OBVIOUS
  <2>3. Known(recs, f, 0, p)
    BY <2>1, <2>2 DEF Known
  <2>4. QED
    BY <1>1, <2>3
<1>3. ASSUME NEW k \in Nat, k \in T PROVE k + 1 \in T
  <2>1. Len(recs) \in Nat
    OBVIOUS
  <2>2. k + 1 <= Len(recs) => Known(recs, f, k + 1, p)
    BY <1>1, <1>3, <2>1, KnownStep
  <2>3. QED
    BY <1>1, <2>2
<1>4. \A k \in Nat : k \in T
  BY <1>2, <1>3, Numbers
<1>5. QED
  BY <1>1, <1>4

-----------------------------------------------------------------------------
(* The topic.                                                               *)

\* A snapshot is the one of the record whose number it carries.
Sent(recs, f, s) ==
    /\ s \in SnapshotType /\ s.sequence \in 1..Len(recs)
    /\ PairOf(recs[s.sequence]) = {s.pair}
    /\ f[s.sequence].latest[s.pair] = <<s>>
    /\ s.previous = f[s.sequence - 1].sequence[s.pair]
Behind(t, i, s) ==
    s.previous > 0 => \E j \in 1..(i - 1) : t[j].pair = s.pair /\ t[j].sequence = s.previous
OnTopic(recs, t, k) == PairOf(recs[k]) # {} => \E j \in DOMAIN t : t[j].sequence = k
Feed(recs, f, t, c) ==
    /\ t \in Seq(SnapshotType)
    /\ \A i \in DOMAIN t : Sent(recs, f, t[i]) /\ Behind(t, i, t[i])
    /\ \A k \in 1..c : OnTopic(recs, t, k)

\* A sequence number names one snapshot.
LEMMA SentOnce ==
    ASSUME NEW recs, NEW f, NEW s, NEW t, Sent(recs, f, s), Sent(recs, f, t), s.sequence = t.sequence
    PROVE  s = t
<1>1. s.pair = t.pair
  BY DEF Sent
<1>2. <<s>> = <<t>>
  BY <1>1 DEF Sent
<1>3. QED
  BY <1>2

\* The records of the journal.
LEMMA OneRecord ==
    ASSUME NEW recs \in Seq(RecordType), NEW k \in DOMAIN recs
    PROVE  recs[k] \in RecordType
<1>1. PICK R : R = RecordType
  OBVIOUS
<1>2. recs \in Seq(R)
  BY <1>1
<1>3. recs[k] \in R
  BY <1>2
<1>4. QED
  BY <1>1, <1>3

\* The snapshot a record leaves behind.
LEMMA RecordSends ==
    ASSUME NEW recs \in Seq(RecordType), NEW f, History(recs, f), NEW k \in 1..Len(recs), NEW p \in PairOf(recs[k])
    PROVE  \E s : Sent(recs, f, s) /\ s.pair = p /\ s.sequence = k /\ f[k].latest[p] = <<s>>
<1>1. PICK n \in Nat : n = Len(recs) /\ DOMAIN recs = 1..n
  OBVIOUS
<1>2. k \in 1..n /\ k - 1 \in 0..n /\ k \in Nat
  BY <1>1
<1>3. PICK rec \in RecordType : rec = recs[k]
  BY <1>1, <1>2, OneRecord
<1>4. PICK m \in MarketType : m = f[k - 1]
  BY <1>1, <1>2 DEF History
<1>5. PICK new : new = f[k]
  OBVIOUS
<1>6. new = ApplyRecord(m, rec, k)
  BY <1>1, <1>2, <1>3, <1>4, <1>5 DEF History
<1>7. Linked(m, rec, k, new)
  BY <1>2, <1>6, ApplyLinks
<1>8. PICK s \in SnapshotType : new.latest[p] = <<s>> /\ s.pair = p /\ s.sequence = k /\ s.previous = m.sequence[p]
  BY <1>3, <1>7 DEF Linked
<1>9. PairOf(rec) = {p}
  BY <1>3, RecordKinds
<1>10. Sent(recs, f, s)
  BY Zenon, <1>1, <1>2, <1>3, <1>4, <1>5, <1>8, <1>9 DEF Sent
<1>11. QED
  BY <1>5, <1>8, <1>10

\* The latest snapshot of a market was sent with its record.
LEMMA LatestSent ==
    ASSUME NEW recs \in Seq(RecordType), NEW f, History(recs, f), NEW k \in 0..Len(recs), NEW p \in Pairs,
           f[k].latest[p] # <<>>
    PROVE  \E s : /\ Sent(recs, f, s) /\ s.pair = p /\ s.sequence \in 1..k /\ f[k].latest[p] = <<s>>
                  /\ p \in PairOf(recs[s.sequence])
<1>1. Known(recs, f, k, p)
  BY AlwaysKnown
<1>2. PICK q \in Nat : q = f[k].sequence[p] /\ q \in 1..k
  <2>1. PICK q \in 0..k : q = f[k].sequence[p]
    BY <1>1 DEF Known
  <2>2. q # 0
    BY <1>1, <2>1 DEF Known
  <2>3. QED
    BY <2>1, <2>2
<1>3. p \in PairOf(recs[q]) /\ f[k].latest[p] = f[q].latest[p]
  BY <1>1, <1>2 DEF Known
<1>4. q \in 1..Len(recs)
  BY <1>2
<1>5. QED
  BY <1>2, <1>3, <1>4, RecordSends

\* One message more on the topic.
LEMMA AppendOne ==
    ASSUME NEW t \in Seq(SnapshotType), NEW s \in SnapshotType
    PROVE  /\ t \o <<s>> = Append(t, s) /\ t \o <<s>> \in Seq(SnapshotType)
           /\ Len(t \o <<s>>) = Len(t) + 1 /\ (t \o <<s>>)[Len(t) + 1] = s
           /\ \A i \in DOMAIN t : (t \o <<s>>)[i] = t[i]
           /\ DOMAIN t = 1..Len(t) /\ DOMAIN (t \o <<s>>) = 1..(Len(t) + 1)
<1>1. PICK S : S = SnapshotType
  OBVIOUS
<1>2. t \in Seq(S) /\ s \in S
  BY <1>1
<1>3. /\ t \o <<s>> = Append(t, s) /\ t \o <<s>> \in Seq(S)
      /\ Len(t \o <<s>>) = Len(t) + 1 /\ (t \o <<s>>)[Len(t) + 1] = s
      /\ \A i \in DOMAIN t : (t \o <<s>>)[i] = t[i]
      /\ DOMAIN t = 1..Len(t) /\ DOMAIN (t \o <<s>>) = 1..(Len(t) + 1)
  BY <1>2
<1>4. QED
  BY <1>1, <1>3

\* The chain on the topic grows by a snapshot whose predecessor is there.
LEMMA FeedGrows ==
    ASSUME NEW recs \in Seq(RecordType), NEW f, NEW t, NEW c \in Nat, Feed(recs, f, t, c), NEW s, Sent(recs, f, s),
           s.previous > 0 => \E j \in DOMAIN t : t[j].pair = s.pair /\ t[j].sequence = s.previous
    PROVE  /\ Feed(recs, f, t \o <<s>>, c)
           /\ s.sequence = c + 1 => Feed(recs, f, t \o <<s>>, c + 1)
<1>1. t \in Seq(SnapshotType) /\ s \in SnapshotType
  BY DEF Feed, Sent
<1>2. PICK n \in Nat : n = Len(t) /\ DOMAIN t = 1..n
  BY <1>1
<1>3. PICK u : u = t \o <<s>>
  OBVIOUS
<1>4. u \in Seq(SnapshotType) /\ u[n + 1] = s /\ (\A i \in 1..n : u[i] = t[i]) /\ DOMAIN u = 1..(n + 1)
  BY <1>1, <1>2, <1>3, AppendOne
<1>5. ASSUME NEW i \in 1..(n + 1) PROVE Sent(recs, f, u[i]) /\ Behind(u, i, u[i])
  <2>1. CASE i = n + 1
    <3>1. u[i] = s
      BY <1>4, <2>1
    <3>2. Behind(u, i, s)
      <4> SUFFICES ASSUME s.previous > 0
                   PROVE  \E j \in 1..(i - 1) : u[j].pair = s.pair /\ u[j].sequence = s.previous
        BY DEF Behind
      <4>1. PICK j \in 1..n : t[j].pair = s.pair /\ t[j].sequence = s.previous
        BY <1>2
      <4>2. j \in 1..(i - 1)
        BY <2>1
      <4>3. QED
        BY <1>4, <4>1, <4>2
    <3>3. QED
      BY <3>1, <3>2
  <2>2. CASE i # n + 1
    <3>1. i \in 1..n /\ u[i] = t[i]
      BY <1>4, <2>2
    <3>2. Sent(recs, f, t[i]) /\ Behind(t, i, t[i])
      BY <1>2, <3>1 DEF Feed
    <3>3. Behind(u, i, t[i])
      <4> SUFFICES ASSUME t[i].previous > 0
                   PROVE  \E j \in 1..(i - 1) : u[j].pair = t[i].pair /\ u[j].sequence = t[i].previous
        BY DEF Behind
      <4>1. PICK j \in 1..(i - 1) : t[j].pair = t[i].pair /\ t[j].sequence = t[i].previous
        BY <3>2 DEF Behind
      <4>2. j \in 1..n
        BY <3>1
      <4>3. QED
        BY <1>4, <4>1, <4>2
    <3>4. QED
      BY <3>1, <3>2, <3>3
  <2>3. QED
    BY <2>1, <2>2
<1>6. ASSUME NEW k \in 1..c PROVE OnTopic(recs, u, k)
  <2> SUFFICES ASSUME PairOf(recs[k]) # {} PROVE \E j \in DOMAIN u : u[j].sequence = k
    BY DEF OnTopic
  <2>1. PICK j \in 1..n : t[j].sequence = k
    BY <1>2 DEF Feed, OnTopic
  <2>2. j \in 1..(n + 1)
    OBVIOUS
  <2>3. QED
    BY <1>4, <2>1, <2>2
<1>7. Feed(recs, f, u, c)
  BY <1>4, <1>5, <1>6 DEF Feed
<1>8. ASSUME s.sequence = c + 1 PROVE Feed(recs, f, u, c + 1)
  <2>1. OnTopic(recs, u, c + 1)
    <3>1. n + 1 \in 1..(n + 1)
      OBVIOUS
    <3>2. QED
      BY <1>4, <1>8, <3>1 DEF OnTopic
  <2>2. \A k \in 1..(c + 1) : k \in 1..c \/ k = c + 1
    OBVIOUS
  <2>3. \A k \in 1..(c + 1) : OnTopic(recs, u, k)
    BY <1>6, <2>1, <2>2
  <2>4. QED
    BY <1>4, <1>5, <2>3 DEF Feed
<1>9. QED
  BY <1>3, <1>7, <1>8

\* The snapshot of the next record finds the one before it on the topic.
LEMMA NextIsLinked ==
    ASSUME NEW recs \in Seq(RecordType), NEW f, History(recs, f), NEW t, NEW c \in Nat, c < Len(recs),
           Feed(recs, f, t, c), NEW s, Sent(recs, f, s), s.sequence = c + 1, s.previous > 0
    PROVE  \E j \in DOMAIN t : t[j].pair = s.pair /\ t[j].sequence = s.previous
<1>1. PICK p : p = s.pair /\ p \in Pairs
  BY DEF Sent, SnapshotType
<1>2. c \in 0..Len(recs) /\ (c + 1) - 1 = c
  OBVIOUS
<1>3. Known(recs, f, c, p)
  BY <1>1, <1>2, AlwaysKnown
<1>4. s.previous = f[c].sequence[p]
  BY <1>1, <1>2 DEF Sent
<1>5. PICK q \in 0..c : q = f[c].sequence[p]
  BY <1>3 DEF Known
<1>6. q > 0 /\ q \in 1..c
  BY <1>4, <1>5
<1>7. p \in PairOf(recs[q])
  BY <1>3, <1>5, <1>6 DEF Known
<1>8. PICK j \in DOMAIN t : t[j].sequence = q
  BY <1>6, <1>7 DEF Feed, OnTopic
<1>9. PairOf(recs[q]) = {t[j].pair}
  BY <1>8 DEF Feed, Sent
<1>10. QED
  BY <1>1, <1>4, <1>5, <1>7, <1>8, <1>9

\* A snapshot sent again finds it there too.
LEMMA AgainIsLinked ==
    ASSUME NEW recs, NEW f, NEW t, NEW c \in Nat, Feed(recs, f, t, c), NEW s, Sent(recs, f, s), s.sequence \in 1..c,
           s.previous > 0
    PROVE  \E j \in DOMAIN t : t[j].pair = s.pair /\ t[j].sequence = s.previous
<1>1. PairOf(recs[s.sequence]) # {}
  BY DEF Sent
<1>2. PICK i \in DOMAIN t : t[i].sequence = s.sequence
  BY <1>1 DEF Feed, OnTopic
<1>3. t[i] = s
  BY <1>2, SentOnce DEF Feed
<1>4. PICK j \in 1..(i - 1) : t[j].pair = s.pair /\ t[j].sequence = s.previous
  BY <1>2, <1>3 DEF Feed, Behind
<1>5. j \in DOMAIN t
  <2>1. PICK n \in Nat : DOMAIN t = 1..n
    BY DEF Feed
  <2>2. QED
    BY <1>2, <2>1
<1>6. QED
  BY <1>4, <1>5

\* The feed does not look at later records.
LEMMA FeedKept ==
    ASSUME NEW recs \in Seq(RecordType), NEW f, NEW rec, NEW g, NEW t, NEW c \in 0..Len(recs), Feed(recs, f, t, c),
           \A k \in 0..Len(recs) : g[k] = f[k]
    PROVE  Feed(Append(recs, rec), g, t, c)
<1>1. PICK n \in Nat : n = Len(recs) /\ DOMAIN recs = 1..n
  OBVIOUS
<1>2. PICK new : new = Append(recs, rec)
  OBVIOUS
<1>3. Len(new) = n + 1 /\ \A k \in 1..n : new[k] = recs[k]
  BY <1>1, <1>2
<1>4. ASSUME NEW s, Sent(recs, f, s) PROVE Sent(new, g, s)
  <2>1. PICK q \in 1..n : q = s.sequence
    BY <1>1, <1>4 DEF Sent
  <2>2. q \in 0..n /\ q - 1 \in 0..n /\ q \in 1..(n + 1)
    OBVIOUS
  <2>3. g[q] = f[q] /\ g[q - 1] = f[q - 1] /\ new[q] = recs[q]
    BY <1>1, <1>3, <2>2
  <2>4. QED
    BY <1>3, <1>4, <2>1, <2>2, <2>3 DEF Sent
<1>5. ASSUME NEW k \in 1..c PROVE OnTopic(new, t, k)
  <2>1. k \in 1..n
    BY <1>1
  <2>2. OnTopic(recs, t, k)
    BY DEF Feed
  <2>3. QED
    BY <1>3, <2>1, <2>2 DEF OnTopic
<1>6. QED
  BY <1>2, <1>4, <1>5 DEF Feed

\* The feed is a chain without gaps.
LEMMA FeedIsChained ==
    ASSUME NEW recs \in Seq(RecordType), NEW f, History(recs, f), NEW t, NEW c, Feed(recs, f, t, c), NEW i \in DOMAIN t
    PROVE  /\ \A j \in DOMAIN t : t[j].sequence = t[i].sequence => t[j] = t[i]
           /\ t[i].previous > 0 =>
                 \E j \in 1..(i - 1) : t[j].pair = t[i].pair /\ t[j].sequence = t[i].previous
           /\ \A s \in (t[i].previous + 1)..(t[i].sequence - 1) : t[i].pair \notin PairOf(recs[s])
<1>1. Sent(recs, f, t[i]) /\ Behind(t, i, t[i])
  BY DEF Feed
<1>2. \A j \in DOMAIN t : t[j].sequence = t[i].sequence => t[j] = t[i]
  BY <1>1, SentOnce DEF Feed
<1>3. PICK p \in Pairs : p = t[i].pair
  BY <1>1 DEF Sent, SnapshotType
<1>4. PICK q \in 1..Len(recs) : q = t[i].sequence
  BY <1>1 DEF Sent
<1>5. q - 1 \in 0..Len(recs)
  BY <1>4
<1>6. Known(recs, f, q - 1, p)
  BY <1>3, <1>5, AlwaysKnown
<1>7. t[i].previous = f[q - 1].sequence[p]
  BY <1>1, <1>3, <1>4 DEF Sent
<1>8. \A s \in (t[i].previous + 1)..(q - 1) : p \notin PairOf(recs[s])
  BY <1>6, <1>7 DEF Known
<1>9. QED
  BY <1>1, <1>2, <1>3, <1>4, <1>8 DEF Behind

-----------------------------------------------------------------------------
(* What a step of the core puts into the journal.                           *)

Fill(t) == [maker |-> t.maker.id, price |-> t.price, qty |-> t.qty]
FillsOf(trades) == [i \in DOMAIN trades |-> Fill(trades[i])]
Emits(rec) ==
    \/ rec = NoMarket /\ books' = books
    \/ \E o, side, plan :
          /\ Accepts(books, books', submissions, cancellations, o, side, plan)
          /\ rec = [kind |-> "submitted", order |-> o, trades |-> FillsOf(plan.trades)]
          /\ \A s \in submissions : s.id # o.id
    \/ \E user, pair, s, x, i, e :
          /\ pair \in Pairs /\ Cancelled(user, pair, s, x, i, e)
          /\ rec = [kind |-> "cancelled", order |-> e]
Journals(rec) == rec \in RecordType /\ Emits(rec) /\ records' = Append(records, rec) /\ UNCHANGED marketVars

\* The fills of the trades of a plan.
LEMMA FillsTyped ==
    ASSUME NEW trades \in Seq(TradeType)
    PROVE  FillsOf(trades) \in Seq(FillType) /\ Len(FillsOf(trades)) = Len(trades)
<1>1. PICK n \in Nat : n = Len(trades) /\ DOMAIN trades = 1..n
  OBVIOUS
<1>2. PICK S : S = FillType
  OBVIOUS
<1>3. ASSUME NEW i \in 1..n PROVE Fill(trades[i]) \in S
  <2>1. PICK t \in TradeType : t = trades[i]
    BY <1>1
  <2>2. t.maker \in EntryType /\ t.price \in Int /\ t.qty \in Int
    BY DEF TradeType
  <2>3. t.maker.id \in Ids
    BY <2>2 DEF EntryType, Ids
  <2>4. QED
    BY <1>2, <2>1, <2>2, <2>3 DEF Fill, FillType
<1>4. PICK g : g = FillsOf(trades)
  OBVIOUS
<1>5. g \in [1..n -> S] /\ g = [i \in 1..n |-> Fill(trades[i])]
  BY <1>1, <1>3, <1>4 DEF FillsOf
<1>6. g \in Seq(S) /\ Len(g) = n
  BY <1>5
<1>7. QED
  BY <1>1, <1>2, <1>4, <1>6

\* A submission appends one record.
LEMMA SubmitJournals ==
    ASSUME SoundInv, NEW o \in Orders, CoreSubmit(o)
    PROVE  \E rec : Journals(rec)
<1>1. CoreType /\ BookInv
  BY DEF SoundInv, FundsInv
<1>2. PICK next : next = Submission(o, books[o.pair], bal)
  OBVIOUS
<1>3. PICK new \in BOOLEAN : new = \A s \in submissions : s.id # o.id
  OBVIOUS
<1>4. Submit(o)
  BY DEF CoreSubmit
<1>5. CASE ~(new /\ next.ok)
  <2>1. Journaled(NoMarket)
    BY <1>2, <1>3, <1>5 DEF CoreSubmit
  <2>2. books' = books
    BY <1>2, <1>3, <1>4, <1>5 DEF Submit, vars
  <2>3. QED
    BY <2>1, <2>2 DEF Journaled, Journals, Emits, RecordType
<1>6. CASE new /\ next.ok
  <2>1. PICK side, plan : /\ Accepts(books, books', submissions, cancellations, o, side, plan)
                          /\ side = books[o.pair][Opposite(o)] /\ plan = PlanOrder(o, side)
    BY <1>1, <1>2, <1>3, <1>4, <1>6, SubmitCommits
  <2>2. next.trades = plan.trades
    <3>1. PICK book : book = books[o.pair]
      OBVIOUS
    <3>2. plan = PlanOrder(o, book[Opposite(o)]) /\ next = Submission(o, book, bal)
      BY <1>2, <2>1, <3>1
    <3>3. QED
      BY <3>2, SubmissionParts, Zenon
  <2>3. Plans(books, submissions, cancellations, o, side, plan) /\ ValidOrder(o)
    BY <2>1 DEF Accepts
  <2>4. plan \in PlanType
    BY <2>3, PlanFacts
  <2>5. plan.trades \in Seq(TradeType)
    BY <2>4 DEF PlanType
  <2>6. PICK rec : rec = [kind |-> "submitted", order |-> o, trades |-> FillsOf(plan.trades)]
    OBVIOUS
  <2>7. Journaled(rec)
    BY <1>2, <1>3, <1>6, <2>2, <2>6 DEF CoreSubmit, FillsOf, Fill
  <2>8. rec \in RecordType
    <3>1. PICK fills \in Seq(FillType) : fills = FillsOf(plan.trades)
      BY <2>5, FillsTyped
    <3>2. o \in {x \in Orders : ValidOrder(x)}
      BY <2>3
    <3>3. rec \in SubmittedType
      BY <2>6, <3>1, <3>2 DEF SubmittedType
    <3>4. QED
      BY <3>3 DEF RecordType
  <2>9. Emits(rec)
    BY <1>3, <1>6, <2>1, <2>6 DEF Emits
  <2>10. QED
    BY <2>7, <2>8, <2>9 DEF Journaled, Journals
<1>7. QED
  BY <1>5, <1>6

\* A cancellation appends one record.
LEMMA CancelJournals ==
    ASSUME SoundInv, NEW o \in Orders, NEW u \in Users, CoreCancel(o.id, u, o.pair)
    PROVE  \E rec : Journals(rec)
<1>1. CoreType /\ BookInv /\ o.pair \in Pairs /\ Cancel(o.id, u, o.pair)
  BY OrderType DEF SoundInv, FundsInv, CoreCancel
<1>2. CASE UNCHANGED vars
  <2>1. cancellations' = cancellations /\ books' = books
    BY <1>2 DEF vars
  <2>2. Journaled(NoMarket)
    BY <2>1 DEF CoreCancel
  <2>3. QED
    BY <2>1, <2>2 DEF Journaled, Journals, Emits, RecordType
<1>3. CASE ~ UNCHANGED vars
  <2>1. PICK s, x, i, e : Cancelled(u, o.pair, s, x, i, e)
    BY Zenon, <1>1, <1>3, CancelTakes
  <2>2. e \in EntryType /\ cancellations' = cancellations \cup {e} /\ e \notin cancellations
    BY <2>1 DEF Cancelled
  <2>3. cancellations' # cancellations /\ cancellations' \ cancellations = {e}
    BY <2>2
  <2>4. (CHOOSE y \in cancellations' \ cancellations : TRUE) = e
    BY <2>3
  <2>5. PICK rec : rec = [kind |-> "cancelled", order |-> e]
    OBVIOUS
  <2>6. Journaled(rec)
    BY <2>3, <2>4, <2>5 DEF CoreCancel
  <2>7. rec \in RecordType
    BY <2>2, <2>5 DEF RecordType, CancelledType
  <2>8. Emits(rec)
    BY <1>1, <2>1, <2>5 DEF Emits
  <2>9. QED
    BY <2>6, <2>7, <2>8 DEF Journaled, Journals
<1>4. QED
  BY <1>2, <1>3

\* A deposit appends one record.
LEMMA CreditJournals ==
    ASSUME NEW d \in Credits, CoreCredit(d)
    PROVE  \E rec : Journals(rec)
<1>1. CreditDeposit(d) /\ Journaled(NoMarket)
  BY DEF CoreCredit
<1>2. books' = books
  BY <1>1 DEF CreditDeposit, vars
<1>3. QED
  BY <1>1, <1>2 DEF Journaled, Journals, Emits, RecordType

\* The steps of the two parts.
LEMMA MarketSteps ==
    ASSUME SoundInv, [MarketNext]_allVars
    PROVE  /\ [Next]_vars
           /\ \/ \E rec : Journals(rec)
              \/ /\ UNCHANGED <<vars, records>>
                 /\ Replay \/ Baseline \/ ApplyAndSend \/ MarkDelivered \/ Restart \/ UNCHANGED marketVars
<1>1. CASE UNCHANGED allVars
  BY Zenon, <1>1 DEF allVars
<1>2. ASSUME NEW o \in Orders, CoreSubmit(o) PROVE Next /\ \E rec : Journals(rec)
  BY <1>2, SubmitJournals DEF CoreSubmit, Next
<1>3. ASSUME NEW o \in Orders, NEW u \in Users, CoreCancel(o.id, u, o.pair) PROVE Next /\ \E rec : Journals(rec)
  BY <1>3, CancelJournals DEF CoreCancel, Next
<1>4. ASSUME NEW d \in Credits, CoreCredit(d) PROVE Next /\ \E rec : Journals(rec)
  BY Zenon, <1>4, CreditJournals DEF CoreCredit, Next
<1>5. CASE Replay \/ Baseline \/ ApplyAndSend \/ MarkDelivered \/ Restart
  BY Zenon, <1>5 DEF Replay, Baseline, ApplyAndSend, MarkDelivered, Restart
<1>6. QED
  BY <1>1, <1>2, <1>3, <1>4, <1>5 DEF MarketNext

-----------------------------------------------------------------------------
(* What a listener has seen.                                                *)

\* The last snapshot of a market among those after position j.
Own(t, j, p) == {i \in (j + 1)..Len(t) : t[i].pair = p}
LastHeard(t, j, p) == {t[i] : i \in {k \in Own(t, j, p) : \A l \in Own(t, j, p) : l <= k}}

\* A new listener has heard nothing.
LEMMA LastNone ==
    ASSUME NEW t \in Seq(SnapshotType), NEW p
    PROVE  LastHeard(t, Len(t), p) = {}
<1>1. Len(t) \in Nat
  OBVIOUS
<1>2. Own(t, Len(t), p) = {}
  BY <1>1 DEF Own
<1>3. QED
  BY <1>2 DEF LastHeard

\* The last snapshot a listener has heard after one more message.
HearsNext(t, s, j) == \A p : LastHeard(t \o <<s>>, j, p) = IF p = s.pair THEN {s} ELSE LastHeard(t, j, p)
LEMMA LastGrows ==
    ASSUME NEW t \in Seq(SnapshotType), NEW s \in SnapshotType, NEW j \in 0..Len(t)
    PROVE  HearsNext(t, s, j)
<1> SUFFICES ASSUME NEW p PROVE LastHeard(t \o <<s>>, j, p) = IF p = s.pair THEN {s} ELSE LastHeard(t, j, p)
  BY Zenon DEF HearsNext
<1>1. PICK n \in Nat : n = Len(t) /\ DOMAIN t = 1..n
  OBVIOUS
<1>2. PICK u : u = t \o <<s>>
  OBVIOUS
<1>3. Len(u) = n + 1 /\ u[n + 1] = s /\ \A i \in 1..n : u[i] = t[i]
  BY <1>1, <1>2, AppendOne
<1>4. j \in Nat /\ j <= n
  BY <1>1
<1>5. PICK A : A = Own(t, j, p)
  OBVIOUS
<1>6. PICK B : B = Own(u, j, p)
  OBVIOUS
<1>7. \A i \in A : i \in Nat /\ i \in 1..n /\ i <= n
  BY <1>1, <1>4, <1>5 DEF Own
<1>8. \A i : i \in B <=> i \in A \/ (i = n + 1 /\ s.pair = p)
  <2>1. ASSUME NEW i \in B PROVE i \in A \/ (i = n + 1 /\ s.pair = p)
    <3>1. i \in (j + 1)..(n + 1) /\ u[i].pair = p
      BY <1>3, <1>6 DEF Own
    <3>2. CASE i = n + 1
      BY <1>3, <3>1, <3>2
    <3>3. CASE i # n + 1
      <4>1. i \in (j + 1)..n /\ i \in 1..n
        BY <1>4, <3>1, <3>3
      <4>2. QED
        BY <1>1, <1>3, <1>5, <3>1, <4>1 DEF Own
    <3>4. QED
      BY <3>2, <3>3
  <2>2. ASSUME NEW i \in A PROVE i \in B
    <3>1. i \in (j + 1)..n /\ t[i].pair = p
      BY <1>1, <1>5 DEF Own
    <3>2. i \in (j + 1)..(n + 1) /\ u[i] = t[i]
      BY <1>3, <1>4, <1>7, <3>1
    <3>3. QED
      BY <1>3, <1>6, <3>1, <3>2 DEF Own
  <2>3. s.pair = p => n + 1 \in B
    <3>1. n + 1 \in (j + 1)..(n + 1)
      BY <1>4
    <3>2. QED
      BY <1>3, <1>6, <3>1 DEF Own
  <2>4. QED
    BY <2>1, <2>2, <2>3
<1>9. CASE p = s.pair
  <2>1. \A l \in B : l <= n + 1
    BY <1>7, <1>8
  <2>2. \A k \in B : (\A l \in B : l <= k) <=> k = n + 1
    BY <1>7, <1>8, <1>9, <2>1
  <2>3. {k \in B : \A l \in B : l <= k} = {n + 1}
    BY <1>8, <1>9, <2>2
  <2>4. LastHeard(u, j, p) = {u[i] : i \in {n + 1}}
    BY <1>6, <2>3 DEF LastHeard
  <2>5. QED
    BY <1>2, <1>3, <1>9, <2>4
<1>10. CASE p # s.pair
  <2>1. B = A
    BY <1>8, <1>10
  <2>2. PICK C : C = {k \in A : \A l \in A : l <= k}
    OBVIOUS
  <2>3. LastHeard(u, j, p) = {u[i] : i \in C} /\ LastHeard(t, j, p) = {t[i] : i \in C}
    BY <1>5, <1>6, <2>1, <2>2 DEF LastHeard
  <2>4. \A i \in C : u[i] = t[i]
    BY <1>3, <1>7, <2>2
  <2>5. {u[i] : i \in C} = {t[i] : i \in C}
    BY <2>4
  <2>6. QED
    BY <1>2, <1>10, <2>3, <2>5
<1>11. QED
  BY <1>9, <1>10

-----------------------------------------------------------------------------
(* The output worker.                                                       *)

\* The records whose snapshots have been acknowledged.
Acked(m, pc, c) == IF pc = "mark" /\ m.ok THEN c + 1 ELSE c
Heard(m, t, j, p) == ToSet(m.latest[p]) = LastHeard(t, j, p)
Worker(recs, f, m, pc, un, c, t, j) ==
    /\ recs \in Seq(RecordType) /\ History(recs, f)
    /\ pc \in {"replay", "baseline", "loop", "mark"} /\ c \in 0..Len(recs)
    /\ un \subseteq Pairs /\ j \in 0..Len(t)
    /\ pc = "replay" => m = EmptyMarket /\ j = Len(t)
    /\ pc \in {"baseline", "loop"} => m = f[c]
    /\ pc = "mark" => c < Len(recs) /\ m = f[c + 1]
    /\ Feed(recs, f, t, Acked(m, pc, c))
    /\ pc = "baseline" => \A p \in Pairs : IF p \in un THEN m.latest[p] # <<>> /\ LastHeard(t, j, p) = {}
                                           ELSE Heard(m, t, j, p)
    /\ pc = "loop" \/ (pc = "mark" /\ m.ok) => \A p \in Pairs : Heard(m, t, j, p)
WorkerInv == \E f : Worker(records, f, market, outPc, unsent, cursor, topic, joined)

\* The types of the output worker's state.
LEMMA WorkerTypes ==
    ASSUME NEW recs, NEW f, NEW m, NEW pc, NEW un, NEW c, NEW t, NEW j, Worker(recs, f, m, pc, un, c, t, j)
    PROVE  /\ c \in Nat /\ Len(recs) \in Nat /\ c \in 0..Len(recs) /\ c <= Len(recs)
           /\ t \in Seq(SnapshotType) /\ Len(t) \in Nat /\ j \in 0..Len(t)
           /\ recs \in Seq(RecordType) /\ History(recs, f) /\ un \subseteq Pairs
           /\ Feed(recs, f, t, c)
<1>1. /\ recs \in Seq(RecordType) /\ History(recs, f) /\ c \in 0..Len(recs) /\ j \in 0..Len(t) /\ un \subseteq Pairs
      /\ Feed(recs, f, t, Acked(m, pc, c))
  BY DEF Worker
<1>2. Len(recs) \in Nat
  BY <1>1
<1>3. c \in Nat /\ c <= Len(recs)
  BY <1>1, <1>2
<1>4. t \in Seq(SnapshotType)
  BY <1>1 DEF Feed
<1>5. \A k \in 1..c : k \in 1..Acked(m, pc, c)
  BY <1>3 DEF Acked
<1>6. Feed(recs, f, t, c)
  BY <1>1, <1>5 DEF Feed
<1>7. QED
  BY <1>1, <1>2, <1>3, <1>4, <1>6

\* A new record leaves the worker alone.
LEMMA JournalWorker ==
    ASSUME NEW recs, NEW f, NEW m, NEW pc, NEW un, NEW c, NEW t, NEW j, Worker(recs, f, m, pc, un, c, t, j),
           NEW rec \in RecordType, NEW g, History(Append(recs, rec), g), \A k \in 0..Len(recs) : g[k] = f[k]
    PROVE  Worker(Append(recs, rec), g, m, pc, un, c, t, j)
<1>1. PICK n \in Nat : n = Len(recs) /\ c \in 0..n /\ recs \in Seq(RecordType)
  BY WorkerTypes
<1>2. PICK new : new = Append(recs, rec)
  OBVIOUS
<1>3. Len(new) = n + 1 /\ new \in Seq(RecordType)
  <2>1. PICK R : R = RecordType
    OBVIOUS
  <2>2. recs \in Seq(R) /\ rec \in R
    BY <1>1, <2>1
  <2>3. Len(new) = n + 1 /\ new \in Seq(R)
    BY <1>1, <1>2, <2>2
  <2>4. QED
    BY <2>1, <2>3
<1>4. c \in 0..(n + 1) /\ (c < n => c < n + 1 /\ c + 1 \in 0..n)
  BY <1>1
<1>5. PICK a \in 0..n : a = Acked(m, pc, c)
  <2>1. Acked(m, pc, c) \in 0..n
    BY <1>1, <1>4 DEF Acked, Worker
  <2>2. QED
    BY <2>1
<1>6. Feed(recs, f, t, a)
  BY <1>5 DEF Worker
<1>7. Feed(new, g, t, a)
  BY <1>1, <1>2, <1>6, FeedKept
<1>8. g[c] = f[c] /\ (c < n => g[c + 1] = f[c + 1])
  BY <1>1, <1>4
<1>9. /\ pc \in {"replay", "baseline", "loop", "mark"} /\ un \subseteq Pairs /\ j \in 0..Len(t)
      /\ pc = "replay" => m = EmptyMarket /\ j = Len(t)
      /\ pc \in {"baseline", "loop"} => m = g[c]
      /\ pc = "mark" => c < n + 1 /\ m = g[c + 1]
      /\ pc = "baseline" => \A p \in Pairs : IF p \in un THEN m.latest[p] # <<>> /\ LastHeard(t, j, p) = {}
                                             ELSE Heard(m, t, j, p)
      /\ pc = "loop" \/ (pc = "mark" /\ m.ok) => \A p \in Pairs : Heard(m, t, j, p)
  BY <1>1, <1>4, <1>8 DEF Worker
<1>10. History(new, g) /\ Feed(new, g, t, Acked(m, pc, c))
  BY <1>2, <1>5, <1>7
<1>11. Worker(new, g, m, pc, un, c, t, j)
  BY <1>3, <1>4, <1>9, <1>10 DEF Worker
<1>12. QED
  BY <1>2, <1>11

\* The replay ends in the projection of the delivered records.
LEMMA ReplayWorker ==
    ASSUME NEW recs, NEW f, NEW m, NEW un, NEW c, NEW t, NEW j, Worker(recs, f, m, "replay", un, c, t, j),
           NEW new, new = {p \in Pairs : f[c].latest[p] # <<>>}
    PROVE  Worker(recs, f, f[c], "baseline", new, c, t, j)
<1>2. Feed(recs, f, t, c) /\ t \in Seq(SnapshotType) /\ j = Len(t)
  BY WorkerTypes DEF Worker
<1>3. \A p : LastHeard(t, j, p) = {}
  BY <1>2, LastNone
<1>4. ASSUME NEW p \in Pairs, p \notin new PROVE Heard(f[c], t, j, p)
  <2>1. f[c].latest[p] = <<>>
    BY <1>4
  <2>2. ToSet(<<>>) = {}
    BY DEF ToSet
  <2>3. QED
    BY <1>3, <2>1, <2>2 DEF Heard
<1>5. \A p \in new : f[c].latest[p] # <<>>
  OBVIOUS
<1>6. Acked(f[c], "baseline", c) = c
  BY DEF Acked
<1>7. new \subseteq Pairs
  OBVIOUS
<1>8. QED
  BY <1>2, <1>3, <1>4, <1>5, <1>6, <1>7 DEF Worker

\* One snapshot of the baseline.
LEMMA BaselineWorker ==
    ASSUME NEW recs, NEW f, NEW m, NEW un, NEW c, NEW t, NEW j, Worker(recs, f, m, "baseline", un, c, t, j), NEW p \in un
    PROVE  Worker(recs, f, m, "baseline", un \ {p}, c, t \o m.latest[p], j)
<1>1. /\ m = f[c] /\ p \in Pairs /\ m.latest[p] # <<>>
      /\ \A q \in Pairs : IF q \in un THEN m.latest[q] # <<>> /\ LastHeard(t, j, q) = {} ELSE Heard(m, t, j, q)
  BY DEF Worker
<1>2. /\ c \in Nat /\ c \in 0..Len(recs) /\ recs \in Seq(RecordType) /\ History(recs, f)
      /\ t \in Seq(SnapshotType) /\ Len(t) \in Nat /\ j \in 0..Len(t) /\ Feed(recs, f, t, c)
  BY WorkerTypes
<1>3. PICK s : Sent(recs, f, s) /\ s.pair = p /\ s.sequence \in 1..c /\ m.latest[p] = <<s>>
  BY <1>1, <1>2, LatestSent
<1>4. s.previous > 0 => \E i \in DOMAIN t : t[i].pair = s.pair /\ t[i].sequence = s.previous
  BY <1>2, <1>3, AgainIsLinked
<1>5. PICK u : u = t \o <<s>>
  OBVIOUS
<1>6. Feed(recs, f, u, c)
  BY <1>2, <1>3, <1>4, <1>5, FeedGrows
<1>7. s \in SnapshotType
  BY <1>3 DEF Sent
<1>8. Len(u) = Len(t) + 1
  BY <1>2, <1>5, <1>7, AppendOne
<1>9. j \in 0..Len(u)
  BY <1>2, <1>8
<1>10. ASSUME NEW q PROVE LastHeard(u, j, q) = IF q = p THEN {s} ELSE LastHeard(t, j, q)
  <2>0. t \in Seq(SnapshotType) /\ j \in 0..Len(t)
    BY <1>2
  <2>1. LastHeard(t \o <<s>>, j, q) = IF q = s.pair THEN {s} ELSE LastHeard(t, j, q)
    <3>1. HearsNext(t, s, j)
      BY <1>7, <2>0, LastGrows
    <3>2. QED
      BY <3>1, Zenon DEF HearsNext
  <2>2. QED
    BY <1>3, <1>5, <2>1, Zenon
<1>11. Heard(m, u, j, p)
  <2>1. ToSet(<<s>>) = {s}
    BY DEF ToSet
  <2>2. QED
    BY <1>3, <1>10, <2>1 DEF Heard
<1>12. \A q \in Pairs : IF q \in un \ {p} THEN m.latest[q] # <<>> /\ LastHeard(u, j, q) = {} ELSE Heard(m, u, j, q)
  BY <1>1, <1>10, <1>11 DEF Heard
<1>13. Acked(m, "baseline", c) = c
  BY DEF Acked
<1>14. un \ {p} \subseteq Pairs
  BY DEF Worker
<1>15. Worker(recs, f, m, "baseline", un \ {p}, c, u, j)
  BY <1>1, <1>2, <1>6, <1>9, <1>12, <1>13, <1>14 DEF Worker
<1>16. QED
  BY <1>3, <1>5, <1>15

\* After the baseline a listener knows every market.
LEMMA BaselineEnds ==
    ASSUME NEW recs, NEW f, NEW m, NEW c, NEW t, NEW j, Worker(recs, f, m, "baseline", {}, c, t, j)
    PROVE  Worker(recs, f, m, "loop", {}, c, t, j)
BY DEF Worker, Acked

\* A record is applied and its snapshot sent.
LEMMA ApplyWorker ==
    ASSUME NEW recs, NEW f, NEW m, NEW un, NEW c, NEW t, NEW j, Worker(recs, f, m, "loop", un, c, t, j), c < Len(recs),
           NEW next, next = ApplyRecord(m, recs[c + 1], c + 1),
           NEW u, u = IF next.ok /\ recs[c + 1].kind # "none" THEN t \o next.latest[recs[c + 1].order.pair] ELSE t
    PROVE  Worker(recs, f, next, "mark", un, c, u, j)
<1>1. m = f[c] /\ \A q \in Pairs : Heard(m, t, j, q)
  BY DEF Worker
<1>2. /\ c \in Nat /\ c \in 0..Len(recs) /\ recs \in Seq(RecordType) /\ History(recs, f) /\ Len(recs) \in Nat
      /\ t \in Seq(SnapshotType) /\ Len(t) \in Nat /\ j \in 0..Len(t) /\ Feed(recs, f, t, c) /\ un \subseteq Pairs
  BY WorkerTypes
<1>3. c + 1 \in 1..Len(recs) /\ (c + 1) - 1 = c /\ c + 1 \in Nat /\ c + 1 \in DOMAIN recs
  BY <1>2
<1>4. PICK rec \in RecordType : rec = recs[c + 1]
  BY <1>2, <1>3, OneRecord
<1>5. next = f[c + 1]
  BY <1>1, <1>2, <1>3 DEF History
<1>6. m \in MarketType
  BY <1>1, <1>2 DEF History
<1>7. Linked(m, rec, c + 1, next) /\ (rec.kind = "none" => next = m)
  BY <1>3, <1>4, <1>6, ApplyLinks
<1>8. CASE ~next.ok
  <2>1. u = t
    BY <1>8
  <2>2. Acked(next, "mark", c) = c
    BY <1>8 DEF Acked
  <2>3. QED
    BY <1>2, <1>5, <1>8, <2>1, <2>2 DEF Worker
<1>9. CASE next.ok /\ rec.kind = "none"
  <2>1. u = t /\ next = m /\ PairOf(rec) = {}
    BY <1>4, <1>7, <1>9 DEF PairOf
  <2>2. OnTopic(recs, t, c + 1)
    BY <1>4, <2>1 DEF OnTopic
  <2>3. \A k \in 1..(c + 1) : k \in 1..c \/ k = c + 1
    BY <1>2
  <2>4. Feed(recs, f, t, c + 1)
    BY <1>2, <2>2, <2>3 DEF Feed
  <2>5. Acked(next, "mark", c) = c + 1
    BY Zenon, <1>9 DEF Acked
  <2>6. QED
    BY <1>1, <1>2, <1>5, <2>1, <2>4, <2>5 DEF Worker
<1>10. CASE next.ok /\ rec.kind # "none"
  <2>1. PICK p \in Pairs : p = rec.order.pair /\ PairOf(rec) = {p}
    BY <1>10, RecordKinds
  <2>2. p \in PairOf(recs[c + 1])
    BY <1>4, <2>1
  <2>3. PICK s : Sent(recs, f, s) /\ s.pair = p /\ s.sequence = c + 1 /\ next.latest[p] = <<s>>
    <3>1. recs \in Seq(RecordType) /\ History(recs, f) /\ c + 1 \in 1..Len(recs)
      BY <1>2, <1>3
    <3>2. \E s : Sent(recs, f, s) /\ s.pair = p /\ s.sequence = c + 1 /\ f[c + 1].latest[p] = <<s>>
      BY <2>2, <3>1, RecordSends
    <3>3. QED
      BY <1>5, <3>2, Zenon
  <2>4. u = t \o <<s>>
    BY Zenon, <1>4, <1>10, <2>1, <2>3
  <2>5. s.previous > 0 => \E i \in DOMAIN t : t[i].pair = s.pair /\ t[i].sequence = s.previous
    <3>1. /\ recs \in Seq(RecordType) /\ History(recs, f) /\ c \in Nat /\ c < Len(recs) /\ Feed(recs, f, t, c)
          /\ Sent(recs, f, s) /\ s.sequence = c + 1
      BY <1>2, <2>3
    <3>2. QED
      BY <3>1, NextIsLinked
  <2>6. Feed(recs, f, u, c + 1)
    BY <1>2, <2>3, <2>4, <2>5, FeedGrows
  <2>7. s \in SnapshotType
    BY <2>3 DEF Sent
  <2>8. Len(u) = Len(t) + 1
    BY <1>2, <2>4, <2>7, AppendOne
  <2>9. j \in 0..Len(u)
    BY <1>2, <2>8
  <2>10. ASSUME NEW q PROVE LastHeard(u, j, q) = IF q = p THEN {s} ELSE LastHeard(t, j, q)
    <3>0. t \in Seq(SnapshotType) /\ j \in 0..Len(t)
      BY <1>2
    <3>1. LastHeard(t \o <<s>>, j, q) = IF q = s.pair THEN {s} ELSE LastHeard(t, j, q)
      <4>1. HearsNext(t, s, j)
        BY <2>7, <3>0, LastGrows
      <4>2. QED
        BY <4>1, Zenon DEF HearsNext
    <3>2. QED
      BY <2>3, <2>4, <3>1, Zenon
  <2>11. ASSUME NEW q \in Pairs PROVE Heard(next, u, j, q)
    <3>1. CASE q = p
      <4>1. ToSet(<<s>>) = {s}
        BY DEF ToSet
      <4>2. QED
        BY <2>3, <2>10, <3>1, <4>1 DEF Heard
    <3>2. CASE q # p
      <4>1. next.latest[q] = m.latest[q]
        BY <1>7, <2>1, <3>2 DEF Linked
      <4>2. QED
        BY Zenon, <1>1, <2>10, <3>2, <4>1 DEF Heard
    <3>3. QED
      BY <3>1, <3>2
  <2>12. Acked(next, "mark", c) = c + 1
    BY <1>10 DEF Acked
  <2>13. QED
    BY <1>2, <1>5, <2>6, <2>9, <2>11, <2>12 DEF Worker
<1>11. QED
  BY <1>8, <1>9, <1>10

\* The cursor moves after the snapshot is on the topic.
LEMMA MarkWorker ==
    ASSUME NEW recs, NEW f, NEW m, NEW un, NEW c, NEW t, NEW j, Worker(recs, f, m, "mark", un, c, t, j), m.ok
    PROVE  Worker(recs, f, m, "loop", un, c + 1, t, j)
<1>1. c \in Nat /\ Len(recs) \in Nat /\ c < Len(recs)
  BY WorkerTypes DEF Worker
<1>2. c + 1 \in 0..Len(recs)
  BY <1>1
<1>3. QED
  BY <1>2 DEF Worker, Acked

\* A restart keeps the topic and the cursor.
LEMMA RestartWorker ==
    ASSUME NEW recs, NEW f, NEW m, NEW pc, NEW un, NEW c, NEW t, NEW j, Worker(recs, f, m, pc, un, c, t, j)
    PROVE  Worker(recs, f, EmptyMarket, "replay", {}, c, t, Len(t))
<1>1. /\ c \in 0..Len(recs) /\ t \in Seq(SnapshotType) /\ Len(t) \in Nat /\ recs \in Seq(RecordType)
      /\ History(recs, f) /\ Feed(recs, f, t, c)
  BY WorkerTypes
<1>2. Len(t) \in 0..Len(t) /\ Acked(EmptyMarket, "replay", c) = c
  BY <1>1 DEF Acked
<1>3. QED
  BY <1>1, <1>2 DEF Worker

-----------------------------------------------------------------------------
(* The invariant of the market data.                                        *)

\* The worker at the start.
LEMMA WorkerInit == MarketInit => WorkerInv
<1> SUFFICES ASSUME MarketInit PROVE WorkerInv
  OBVIOUS
<1>1. /\ records = <<>> /\ market = EmptyMarket /\ outPc = "replay" /\ unsent = {}
      /\ cursor = 0 /\ topic = <<>> /\ joined = 0
  BY DEF MarketInit
<1>2. PICK recs : recs = <<>>
  OBVIOUS
<1>3. recs \in Seq(RecordType) /\ Len(recs) = 0
  <2>1. PICK R : R = RecordType
    OBVIOUS
  <2>2. recs \in Seq(R) /\ Len(recs) = 0
    BY <1>2
  <2>3. QED
    BY <2>1, <2>2
<1>4. recs \in Seq(SnapshotType) /\ DOMAIN recs = {}
  <2>1. PICK S : S = SnapshotType
    OBVIOUS
  <2>2. recs \in Seq(S) /\ DOMAIN recs = {}
    BY <1>2
  <2>3. QED
    BY <2>1, <2>2
<1>5. PICK f : f = [k \in 0..0 |-> EmptyMarket]
  OBVIOUS
<1>6. History(recs, f)
  <2>1. 1..0 = {} /\ 0 \in 0..0
    OBVIOUS
  <2>2. QED
    BY <1>3, <1>5, <2>1, EmptyTyped DEF History
<1>7. Feed(recs, f, recs, 0)
  <2>1. 1..0 = {}
    OBVIOUS
  <2>2. QED
    BY <1>4, <2>1 DEF Feed
<1>8. Worker(recs, f, EmptyMarket, "replay", {}, 0, recs, 0)
  <2>1. Acked(EmptyMarket, "replay", 0) = 0 /\ 0 \in 0..Len(recs)
    BY <1>3 DEF Acked
  <2>2. QED
    BY <1>3, <1>6, <1>7, <2>1 DEF Worker
<1>9. QED
  BY <1>1, <1>2, <1>8 DEF WorkerInv

MarketInv == SoundInv /\ WorkerInv

\* Every step keeps MarketInv.
LEMMA MarketStep == MarketInv /\ [MarketNext]_allVars => MarketInv'
<1> SUFFICES ASSUME MarketInv, [MarketNext]_allVars PROVE MarketInv'
  OBVIOUS
<1>1. SoundInv /\ [Next]_vars
  BY MarketSteps DEF MarketInv
<1>2. SUFFICES WorkerInv'
  BY <1>1, SoundStep DEF MarketInv
<1>3. PICK f : Worker(records, f, market, outPc, unsent, cursor, topic, joined)
  BY DEF MarketInv, WorkerInv
<1>4. ASSUME NEW rec, Journals(rec) PROVE WorkerInv'
  <2>1. rec \in RecordType /\ records' = Append(records, rec) /\ UNCHANGED marketVars
    BY <1>4 DEF Journals
  <2>2. records \in Seq(RecordType) /\ History(records, f)
    BY <1>3, WorkerTypes
  <2>3. PICK g : History(Append(records, rec), g) /\ \A k \in 0..Len(records) : g[k] = f[k]
    BY <2>1, <2>2, HistoryGrows
  <2>4. Worker(Append(records, rec), g, market, outPc, unsent, cursor, topic, joined)
    BY <1>3, <2>1, <2>3, JournalWorker
  <2>5. QED
    BY <2>1, <2>4 DEF WorkerInv, marketVars
<1>5. ASSUME records' = records,
             Worker(records, f, market', outPc', unsent', cursor', topic', joined')
      PROVE  WorkerInv'
  BY <1>5 DEF WorkerInv
<1>6. CASE UNCHANGED <<vars, records>> /\ UNCHANGED marketVars
  BY <1>3, <1>6 DEF WorkerInv, marketVars
<1>7. CASE Replay
  <2>1. /\ outPc = "replay" /\ outPc' = "baseline" /\ UNCHANGED <<records, cursor, topic, joined>>
        /\ market' = ReplayOf(records, [s \in 1..cursor |-> s])
        /\ unsent' = {p \in Pairs : market'.latest[p] # <<>>}
    BY Zenon, <1>7 DEF Replay, ReplayOf
  <2>2. market' = f[cursor]
    <3>1. records \in Seq(RecordType) /\ History(records, f) /\ cursor \in 0..Len(records)
      BY <1>3, WorkerTypes
    <3>2. ReplayOf(records, [s \in 1..cursor |-> s]) = f[cursor]
      BY <3>1, ReplayIs
    <3>3. QED
      BY <2>1, <3>2
  <2>3. PICK new : new = {p \in Pairs : f[cursor].latest[p] # <<>>}
    OBVIOUS
  <2>4. Worker(records, f, f[cursor], "baseline", new, cursor, topic, joined)
    BY <1>3, <2>1, <2>3, ReplayWorker
  <2>5. unsent' = new
    BY <2>1, <2>2, <2>3
  <2>6. QED
    BY <1>5, <2>1, <2>2, <2>4, <2>5
<1>8. CASE Baseline
  <2>1. outPc = "baseline" /\ UNCHANGED <<records, market, cursor, joined>>
    BY <1>8 DEF Baseline
  <2>2. CASE unsent = {}
    <3>1. outPc' = "loop" /\ UNCHANGED <<unsent, topic>>
      BY <1>8, <2>2 DEF Baseline
    <3>2. Worker(records, f, market, "loop", {}, cursor, topic, joined)
      BY <1>3, <2>1, <2>2, BaselineEnds
    <3>3. QED
      BY <1>5, <2>1, <2>2, <3>1, <3>2
  <2>3. CASE unsent # {}
    <3>1. PICK p \in unsent : outPc' = outPc /\ topic' = topic \o market.latest[p] /\ unsent' = unsent \ {p}
      BY <1>8, <2>3 DEF Baseline
    <3>2. Worker(records, f, market, "baseline", unsent \ {p}, cursor, topic \o market.latest[p], joined)
      BY Zenon, <1>3, <2>1, BaselineWorker
    <3>3. QED
      BY <1>5, <2>1, <3>1, <3>2
  <2>4. QED
    BY <2>2, <2>3
<1>9. CASE ApplyAndSend
  <2>1. PICK next : next = ApplyRecord(market, records[cursor + 1], cursor + 1)
    OBVIOUS
  <2>2. /\ outPc = "loop" /\ cursor < Len(records) /\ market' = next /\ outPc' = "mark"
        /\ topic' = IF next.ok /\ records[cursor + 1].kind # "none"
                    THEN topic \o next.latest[records[cursor + 1].order.pair] ELSE topic
        /\ UNCHANGED <<records, unsent, cursor, joined>>
    BY <1>9, <2>1 DEF ApplyAndSend
  <2>3. PICK u : u = topic'
    BY Zenon
  <2>4. Worker(records, f, next, "mark", unsent, cursor, u, joined)
    BY <1>3, <2>1, <2>2, <2>3, ApplyWorker
  <2>5. QED
    BY <1>5, <2>2, <2>3, <2>4
<1>10. CASE MarkDelivered
  <2>1. /\ outPc = "mark" /\ market.ok /\ cursor' = cursor + 1 /\ outPc' = "loop"
        /\ UNCHANGED <<records, market, unsent, topic, joined>>
    BY <1>10 DEF MarkDelivered
  <2>2. Worker(records, f, market, "loop", unsent, cursor + 1, topic, joined)
    BY <1>3, <2>1, MarkWorker
  <2>3. QED
    BY <1>5, <2>1, <2>2
<1>11. CASE Restart
  <2>1. /\ outPc' = "replay" /\ market' = EmptyMarket /\ unsent' = {} /\ joined' = Len(topic)
        /\ UNCHANGED <<records, cursor, topic>>
    BY <1>11 DEF Restart
  <2>2. Worker(records, f, EmptyMarket, "replay", {}, cursor, topic, Len(topic))
    BY <1>3, RestartWorker
  <2>3. QED
    BY <1>5, <2>1, <2>2
<1>12. QED
  BY <1>4, <1>6, <1>7, <1>8, <1>9, <1>10, <1>11, MarketSteps DEF MarketInv

\* MarketInv holds at the start.
LEMMA MarketInitially == MarketInit => MarketInv
BY SoundInitially, WorkerInit DEF MarketInit, MarketInv

\* previous_sequence links every snapshot on the topic, sent again or not, to
\* the one of the same market before it, with no outcome of that market left
\* out between them.
THEOREM FeedStaysChained == MarketSpec => []ChainIsUnbroken
<1>1. MarketInv => ChainIsUnbroken
  <2> SUFFICES ASSUME MarketInv, NEW i \in DOMAIN topic
               PROVE  /\ \A j \in DOMAIN topic : topic[j].sequence = topic[i].sequence => topic[j] = topic[i]
                      /\ topic[i].previous > 0 =>
                            \E j \in 1..(i - 1) : topic[j].pair = topic[i].pair /\ topic[j].sequence = topic[i].previous
                      /\ \A s \in (topic[i].previous + 1)..(topic[i].sequence - 1) :
                            topic[i].pair \notin PairOf(records[s])
    BY DEF ChainIsUnbroken
  <2>1. PICK f : Worker(records, f, market, outPc, unsent, cursor, topic, joined)
    BY DEF MarketInv, WorkerInv
  <2>2. records \in Seq(RecordType) /\ History(records, f) /\ Feed(records, f, topic, cursor)
    BY <2>1, WorkerTypes
  <2>3. QED
    BY <2>2, FeedIsChained
<1>2. QED
  BY <1>1, MarketInitially, MarketStep, PTL DEF MarketSpec

\* A listener that starts when the engine restarts has, once the worker is in
\* its loop, the worker's latest snapshot of every market as the last one it
\* received.
THEOREM ListenersCatchUp == MarketSpec => []NewListenerSeesEveryMarket
<1>1. MarketInv => NewListenerSeesEveryMarket
  <2> SUFFICES ASSUME MarketInv, outPc = "loop", NEW p \in Pairs PROVE ToSet(market.latest[p]) = LastOf(p)
    BY DEF NewListenerSeesEveryMarket
  <2>1. PICK f : Worker(records, f, market, outPc, unsent, cursor, topic, joined)
    BY DEF MarketInv, WorkerInv
  <2>2. Heard(market, topic, joined, p)
    BY <2>1 DEF Worker
  <2>3. LastHeard(topic, joined, p) = LastOf(p)
    BY DEF LastHeard, Own, LastOf
  <2>4. QED
    BY <2>2, <2>3 DEF Heard
<1>2. QED
  BY <1>1, MarketInitially, MarketStep, PTL DEF MarketSpec

-----------------------------------------------------------------------------
(* The index and the levels of the projection agree.                        *)

Stands(i, p, s, x) == i.pair = p /\ i.type = s /\ i.price = x
Stack(I, p, s, x) == {i \in I : Stands(i, p, s, x)}
Volumes(I, p, s, x) == [i \in Stack(I, p, s, x) |-> i.remaining]
Volume(I, p, s, x) == SumFunction(Volumes(I, p, s, x))

\* The quantities of a level can be summed.
LEMMA VolumeType ==
    ASSUME NEW I, I \subseteq IndexType, IsFiniteSet(I), NEW p, NEW s, NEW x
    PROVE  /\ Numeric(Volumes(I, p, s, x)) /\ Volume(I, p, s, x) \in Int
           /\ DOMAIN Volumes(I, p, s, x) = Stack(I, p, s, x)
           /\ \A i \in Stack(I, p, s, x) : Volumes(I, p, s, x)[i] = i.remaining
<1>1. PICK S : S = Stack(I, p, s, x)
  OBVIOUS
<1>2. S \subseteq I /\ IsFiniteSet(S)
  BY <1>1, FS_Subset DEF Stack
<1>3. PICK f : f = Volumes(I, p, s, x)
  OBVIOUS
<1>4. \A i \in S : i.remaining \in Int
  BY <1>2 DEF IndexType
<1>5. f = [i \in S |-> i.remaining]
  BY <1>1, <1>3 DEF Volumes
<1>6. DOMAIN f = S /\ f \in [S -> Int] /\ \A i \in S : f[i] = i.remaining
  BY <1>4, <1>5
<1>7. Numeric(f)
  BY <1>2, <1>6 DEF Numeric
<1>8. QED
  BY <1>1, <1>3, <1>6, <1>7, SumType DEF Volume

\* A level after an order has left the index.
LEMMA VolumeDrops ==
    ASSUME NEW I, I \subseteq IndexType, IsFiniteSet(I), NEW o \in I, NEW p, NEW s, NEW x
    PROVE  Volume(I \ {o}, p, s, x) = Volume(I, p, s, x) - (IF Stands(o, p, s, x) THEN o.remaining ELSE 0)
<1>1. PICK J : J = I \ {o}
  OBVIOUS
<1>2. J \subseteq IndexType /\ IsFiniteSet(J)
  BY <1>1, FS_RemoveElement
<1>3. PICK S : S = Stack(I, p, s, x)
  OBVIOUS
<1>4. PICK R : R = Stack(J, p, s, x)
  OBVIOUS
<1>5. PICK f : f = Volumes(I, p, s, x)
  OBVIOUS
<1>6. PICK g : g = Volumes(J, p, s, x)
  OBVIOUS
<1>7. /\ Numeric(f) /\ DOMAIN f = S /\ (\A i \in S : f[i] = i.remaining)
      /\ SumFunction(f) = Volume(I, p, s, x) /\ Volume(I, p, s, x) \in Int
  BY <1>3, <1>5, VolumeType DEF Volume
<1>8. /\ Numeric(g) /\ DOMAIN g = R /\ (\A i \in R : g[i] = i.remaining)
      /\ SumFunction(g) = Volume(J, p, s, x) /\ Volume(J, p, s, x) \in Int
  BY <1>2, <1>4, <1>6, VolumeType DEF Volume
<1>9. o.remaining \in Int
  BY DEF IndexType
<1>10. CASE Stands(o, p, s, x)
  <2>1. S = R \cup {o} /\ o \notin R
    BY <1>1, <1>3, <1>4, <1>10 DEF Stack
  <2>2. Extends(f, g, o) /\ f[o] = o.remaining
    BY <1>7, <1>8, <2>1 DEF Extends
  <2>3. SumFunction(f) = SumFunction(g) + f[o]
    BY <1>7, <1>8, <2>2, SumExtends
  <2>4. QED
    BY <1>1, <1>7, <1>8, <1>9, <1>10, <2>2, <2>3
<1>11. CASE ~Stands(o, p, s, x)
  <2>1. S = R
    BY <1>1, <1>3, <1>4, <1>11 DEF Stack
  <2>2. f = g
    BY <1>3, <1>4, <1>5, <1>6, <2>1 DEF Volumes
  <2>3. QED
    BY <1>1, <1>7, <1>8, <1>11, <2>2
<1>12. QED
  BY <1>10, <1>11

\* A level after an order has joined the index.
LEMMA VolumeGrows ==
    ASSUME NEW I, I \subseteq IndexType, IsFiniteSet(I), NEW o \in IndexType, o \notin I, NEW p, NEW s, NEW x
    PROVE  /\ I \cup {o} \subseteq IndexType /\ IsFiniteSet(I \cup {o})
           /\ Volume(I \cup {o}, p, s, x) = Volume(I, p, s, x) + (IF Stands(o, p, s, x) THEN o.remaining ELSE 0)
<1>1. PICK J : J = I \cup {o}
  OBVIOUS
<1>2. J \subseteq IndexType /\ IsFiniteSet(J) /\ o \in J /\ J \ {o} = I
  BY <1>1, FS_AddElement
<1>3. PICK d \in Int : d = IF Stands(o, p, s, x) THEN o.remaining ELSE 0
  BY DEF IndexType
<1>4. PICK v \in Int : v = Volume(I, p, s, x)
  BY VolumeType
<1>5. PICK w \in Int : w = Volume(J, p, s, x)
  BY <1>2, VolumeType
<1>6. Volume(J \ {o}, p, s, x) = Volume(J, p, s, x) - (IF Stands(o, p, s, x) THEN o.remaining ELSE 0)
  BY <1>2, VolumeDrops
<1>7. v = w - d
  BY <1>2, <1>3, <1>4, <1>5, <1>6
<1>8. w = v + d
  BY <1>7
<1>9. QED
  BY <1>1, <1>2, <1>3, <1>4, <1>5, <1>8

\* No order takes more than its level.
LEMMA LevelHolds ==
    ASSUME NEW I, I \subseteq IndexType, IsFiniteSet(I), \A i \in I : i.remaining > 0, NEW o \in I
    PROVE  o.remaining <= Volume(I, o.pair, o.type, o.price)
<1>1. PICK p, s, x : p = o.pair /\ s = o.type /\ x = o.price
  OBVIOUS
<1>2. PICK J : J = I \ {o}
  OBVIOUS
<1>3. J \subseteq IndexType /\ IsFiniteSet(J)
  BY <1>2, FS_RemoveElement
<1>4. PICK f : f = Volumes(J, p, s, x)
  OBVIOUS
<1>5. /\ Numeric(f) /\ SumFunction(f) = Volume(J, p, s, x) /\ Volume(J, p, s, x) \in Int
      /\ DOMAIN f = Stack(J, p, s, x) /\ \A i \in Stack(J, p, s, x) : f[i] = i.remaining
  BY <1>3, <1>4, VolumeType DEF Volume
<1>6. \A i \in DOMAIN f : f[i] >= 0
  <2>1. ASSUME NEW i \in Stack(J, p, s, x) PROVE f[i] >= 0
    <3>1. i \in I /\ f[i] = i.remaining
      BY <1>2, <1>5 DEF Stack
    <3>2. i.remaining \in Int /\ i.remaining > 0
      BY <3>1 DEF IndexType
    <3>3. QED
      BY <3>1, <3>2
  <2>2. QED
    BY <1>5, <2>1
<1>7. Volume(J, p, s, x) >= 0
  BY <1>5, <1>6, SumNotNegative
<1>8. Stands(o, p, s, x)
  BY <1>1 DEF Stands
<1>9. Volume(J, p, s, x) = Volume(I, p, s, x) - o.remaining
  <2>1. Volume(I \ {o}, p, s, x) = Volume(I, p, s, x) - (IF Stands(o, p, s, x) THEN o.remaining ELSE 0)
    BY VolumeDrops
  <2>2. QED
    BY <1>2, <1>8, <2>1
<1>10. o.remaining \in Int /\ Volume(I, p, s, x) \in Int
  BY VolumeType DEF IndexType
<1>11. QED
  BY <1>1, <1>5, <1>7, <1>9, <1>10

-----------------------------------------------------------------------------
(* Reducing and resting keep the index.                                     *)

Index(m) ==
    /\ m \in MarketType /\ m.ok /\ IsFiniteSet(m.orders)
    /\ \A i, j \in m.orders : i.id = j.id => i = j
    /\ \A i \in m.orders : i.remaining > 0
    /\ \A p \in Pairs, s \in Sides, x \in Prices : m.levels[p][s][x] = Volume(m.orders, p, s, x)
Shortened(o, qty) == [o EXCEPT !.remaining = @ - qty]
LessOf(I, o, qty) == (I \ {o}) \cup (IF o.remaining = qty THEN {} ELSE {Shortened(o, qty)})

\* An order of the index with a smaller quantity.
LEMMA SmallerType ==
    ASSUME NEW o \in IndexType, NEW qty \in Int
    PROVE  /\ Shortened(o, qty) \in IndexType /\ Shortened(o, qty).remaining = o.remaining - qty
           /\ Shortened(o, qty).id = o.id /\ o.remaining \in Int
           /\ \A p, s, x : Stands(Shortened(o, qty), p, s, x) <=> Stands(o, p, s, x)
<1>1. o.remaining \in Int /\ o.remaining - qty \in Int
  BY DEF IndexType
<1>2. PICK l : l = Shortened(o, qty)
  OBVIOUS
<1>3. l \in IndexType /\ l.remaining = o.remaining - qty /\ l.id = o.id
      /\ l.pair = o.pair /\ l.type = o.type /\ l.price = o.price
  BY <1>1, <1>2 DEF Shortened, IndexType
<1>4. QED
  BY <1>1, <1>2, <1>3 DEF Stands

\* The index after one order is reduced.
LEMMA LessIndex ==
    ASSUME NEW I, I \subseteq IndexType, IsFiniteSet(I), \A i, j \in I : i.id = j.id => i = j,
           \A i \in I : i.remaining > 0, NEW o \in I, NEW qty \in Int, qty <= o.remaining
    PROVE  /\ LessOf(I, o, qty) \subseteq IndexType /\ IsFiniteSet(LessOf(I, o, qty))
           /\ \A i, j \in LessOf(I, o, qty) : i.id = j.id => i = j
           /\ \A i \in LessOf(I, o, qty) : i.remaining > 0
           /\ \A p, s, x : Volume(LessOf(I, o, qty), p, s, x)
                           = Volume(I, p, s, x) - (IF Stands(o, p, s, x) THEN qty ELSE 0)
<1>1. PICK J : J = I \ {o}
  OBVIOUS
<1>2. J \subseteq IndexType /\ IsFiniteSet(J) /\ \A i \in J : i.id # o.id /\ i \in I
  BY <1>1, FS_RemoveElement
<1>3. PICK K : K = LessOf(I, o, qty)
  OBVIOUS
<1>4. PICK r \in Int : r = o.remaining
  BY DEF IndexType
<1>5. ASSUME NEW p, NEW s, NEW x
      PROVE  /\ Volume(I, p, s, x) \in Int /\ Volume(J, p, s, x) \in Int
             /\ Volume(J, p, s, x) = Volume(I, p, s, x) - (IF Stands(o, p, s, x) THEN r ELSE 0)
  <2>1. Volume(I \ {o}, p, s, x) = Volume(I, p, s, x) - (IF Stands(o, p, s, x) THEN o.remaining ELSE 0)
    BY VolumeDrops
  <2>2. QED
    BY <1>1, <1>2, <1>4, <2>1, VolumeType
<1>6. CASE o.remaining = qty
  <2>1. K = J
    BY <1>1, <1>3, <1>6 DEF LessOf
  <2>2. r = qty
    BY <1>4, <1>6
  <2>3. QED
    BY <1>2, <1>3, <1>5, <2>1, <2>2
<1>7. CASE o.remaining # qty
  <2>1. PICK l \in IndexType : l = Shortened(o, qty)
    BY SmallerType
  <2>2. l.remaining = r - qty /\ l.id = o.id /\ \A p, s, x : Stands(l, p, s, x) <=> Stands(o, p, s, x)
    BY <1>4, <2>1, SmallerType
  <2>3. K = J \cup {l}
    BY <1>1, <1>3, <1>7, <2>1 DEF LessOf
  <2>4. l \notin J /\ l.remaining > 0
    BY <1>2, <1>4, <1>7, <2>2
  <2>5. K \subseteq IndexType /\ IsFiniteSet(K)
    BY <1>2, <2>3, FS_AddElement
  <2>6. \A i, j \in K : i.id = j.id => i = j
    BY <1>2, <2>2, <2>3
  <2>7. \A i \in K : i.remaining > 0
    BY <1>2, <2>3, <2>4
  <2>8. ASSUME NEW p, NEW s, NEW x
        PROVE  Volume(K, p, s, x) = Volume(I, p, s, x) - (IF Stands(o, p, s, x) THEN qty ELSE 0)
    <3>1. Volume(J \cup {l}, p, s, x) = Volume(J, p, s, x) + (IF Stands(l, p, s, x) THEN l.remaining ELSE 0)
      BY <1>2, <2>4, VolumeGrows
    <3>2. PICK v \in Int : v = Volume(I, p, s, x)
      BY <1>5
    <3>3. PICK w \in Int : w = Volume(J, p, s, x)
      BY <1>5
    <3>4. CASE Stands(o, p, s, x)
      <4>1. Volume(K, p, s, x) = w + (r - qty) /\ w = v - r
        BY <1>5, <2>2, <2>3, <3>1, <3>2, <3>3, <3>4
      <4>2. w + (r - qty) = v - qty
        BY <4>1
      <4>3. QED
        BY <3>2, <3>4, <4>1, <4>2
    <3>5. CASE ~Stands(o, p, s, x)
      <4>1. Volume(K, p, s, x) = w + 0 /\ w = v - 0
        BY <1>5, <2>2, <2>3, <3>1, <3>2, <3>3, <3>5
      <4>2. w + 0 = v - 0
        BY <4>1
      <4>3. QED
        BY <3>2, <3>5, <4>1, <4>2
    <3>6. QED
      BY <3>4, <3>5
  <2>9. QED
    BY <1>3, <2>5, <2>6, <2>7, <2>8
<1>8. QED
  BY <1>6, <1>7

\* reduce keeps the levels equal to the index.
LEMMA ReduceIndex ==
    ASSUME NEW m, Index(m), NEW o \in m.orders, NEW qty \in Int, qty <= o.remaining
    PROVE  Index(Reduce(m, o.id, qty)) /\ Reduce(m, o.id, qty).orders = LessOf(m.orders, o, qty)
<1>1. /\ m \in MarketType /\ m.ok /\ IsFiniteSet(m.orders)
      /\ \A i, j \in m.orders : i.id = j.id => i = j
      /\ \A i \in m.orders : i.remaining > 0
      /\ \A p \in Pairs, s \in Sides, x \in Prices : m.levels[p][s][x] = Volume(m.orders, p, s, x)
  BY DEF Index
<1>2. {i \in m.orders : i.id = o.id} = {o}
  BY <1>1
<1>3. PICK I : I = m.orders
  OBVIOUS
<1>4. I \subseteq IndexType /\ o \in IndexType
  BY <1>1, <1>3 DEF MarketType
<1>5. o.remaining \in Int /\ o.pair \in Pairs /\ o.type \in Sides /\ o.price \in Prices
  BY <1>4 DEF IndexType
<1>6. PICK lv \in LevelsType : lv = m.levels
  BY <1>1 DEF MarketType
<1>7. PICK nl : nl = [lv EXCEPT ![o.pair][o.type][o.price] = @ - qty]
  OBVIOUS
<1>8. PICK new : new = Reduce(m, o.id, qty)
  OBVIOUS
<1>9. PICK K : K = LessOf(I, o, qty)
  OBVIOUS
<1>10. PICK ok \in BOOLEAN : ok = (qty <= o.remaining /\ qty <= m.levels[o.pair][o.type][o.price])
  OBVIOUS
<1>11. K = (m.orders \ {o}) \cup (IF o.remaining - qty = 0 THEN {} ELSE {[o EXCEPT !.remaining = @ - qty]})
  <2>1. o.remaining - qty = 0 <=> o.remaining = qty
    BY <1>5
  <2>2. QED
    BY <1>3, <1>9, <2>1 DEF LessOf, Shortened
<1>12. new = [m EXCEPT !.ok = ok, !.orders = K, !.levels = nl]
  <2>1. (CHOOSE x \in {i \in m.orders : i.id = o.id} : TRUE) = o
    BY <1>2
  <2>2. [o EXCEPT !.remaining = @ - qty].remaining = o.remaining - qty
    BY <1>4 DEF IndexType
  <2>3. PICK left : left = [o EXCEPT !.remaining = @ - qty]
    BY Zenon
  <2>4. new = [m EXCEPT !.ok = qty <= o.remaining /\ qty <= m.levels[o.pair][o.type][o.price],
                       !.orders = (@ \ {o}) \cup (IF left.remaining = 0 THEN {} ELSE {left}),
                       !.levels[o.pair][o.type][o.price] = @ - qty]
    BY Zenon, <1>1, <1>2, <1>8, <2>1, <2>3 DEF Reduce
  <2>5. K = (m.orders \ {o}) \cup (IF left.remaining = 0 THEN {} ELSE {left})
    BY <1>11, <2>2, <2>3
  <2>6. QED
    BY <1>1, <1>6, <1>7, <1>10, <2>4, <2>5 DEF MarketType
<1>13. ok
  <2>1. o.remaining <= Volume(I, o.pair, o.type, o.price) /\ Volume(I, o.pair, o.type, o.price) \in Int
    BY <1>1, <1>3, <1>4, LevelHolds, VolumeType
  <2>2. m.levels[o.pair][o.type][o.price] = Volume(I, o.pair, o.type, o.price)
    BY <1>1, <1>3, <1>5
  <2>3. qty <= Volume(I, o.pair, o.type, o.price)
    BY <1>5, <2>1
  <2>4. QED
    BY <1>10, <2>2, <2>3
<1>14. ASSUME NEW p \in Pairs, NEW s \in Sides, NEW x \in Prices
       PROVE  nl[p][s][x] = lv[p][s][x] - (IF Stands(o, p, s, x) THEN qty ELSE 0) /\ lv[p][s][x] \in Int
  <2>1. lv[p][s][x] \in Int
    BY DEF LevelsType
  <2>2. CASE Stands(o, p, s, x)
    BY <1>5, <1>7, <2>1, <2>2 DEF Stands, LevelsType
  <2>3. CASE ~Stands(o, p, s, x)
    <3>1. nl[p][s][x] = lv[p][s][x]
      BY <1>5, <1>7, <2>3 DEF Stands, LevelsType
    <3>2. QED
      BY <2>1, <2>3, <3>1
  <2>4. QED
    BY <2>2, <2>3
<1>15. /\ K \subseteq IndexType /\ IsFiniteSet(K) /\ (\A i, j \in K : i.id = j.id => i = j)
       /\ (\A i \in K : i.remaining > 0)
       /\ \A p, s, x : Volume(K, p, s, x) = Volume(I, p, s, x) - (IF Stands(o, p, s, x) THEN qty ELSE 0)
  BY <1>1, <1>3, <1>4, <1>9, LessIndex
<1>16. \A p \in Pairs, s \in Sides, x \in Prices : nl[p][s][x] = Volume(K, p, s, x)
  BY <1>1, <1>3, <1>6, <1>14, <1>15
<1>17. new \in MarketType
  <2>1. SameFeed(m, new)
    BY <1>1, <1>8, ReduceType
  <2>2. QED
    BY <2>1 DEF SameFeed
<1>18. new.ok = ok /\ new.orders = K /\ new.levels = nl
  BY <1>1, <1>12 DEF MarketType
<1>19. Index(new)
  BY <1>13, <1>15, <1>16, <1>17, <1>18 DEF Index
<1>20. QED
  BY <1>3, <1>8, <1>9, <1>18, <1>19

\* A resting order keeps the levels equal to the index.
LEMMA RestIndex ==
    ASSUME NEW m, Index(m), NEW o \in Orders, ValidOrder(o), NEW filled \in Int, IsLimit(o), o.amount - filled > 0,
           \A i \in m.orders : i.id # o.id
    PROVE  /\ Index(Rest(m, o, filled))
           /\ Rest(m, o, filled).orders
              = m.orders \cup {[id |-> o.id, pair |-> o.pair, type |-> o.type, price |-> o.price,
                                remaining |-> o.amount - filled]}
<1>1. /\ m \in MarketType /\ m.ok /\ IsFiniteSet(m.orders)
      /\ \A i, j \in m.orders : i.id = j.id => i = j
      /\ \A i \in m.orders : i.remaining > 0
      /\ \A p \in Pairs, s \in Sides, x \in Prices : m.levels[p][s][x] = Volume(m.orders, p, s, x)
  BY DEF Index
<1>2. PICK I : I = m.orders /\ I \subseteq IndexType
  BY <1>1 DEF MarketType
<1>3. PICK r \in Int : r = o.amount - filled /\ r > 0 /\ r # 0
  BY OrderType
<1>4. PICK e : e = [id |-> o.id, pair |-> o.pair, type |-> o.type, price |-> o.price, remaining |-> r]
  OBVIOUS
<1>5. o.pair \in Pairs /\ o.type \in Sides /\ o.price \in Prices
  <2>1. ~IsBudget(o)
    BY DEF IsBudget
  <2>2. o.price # 0
    BY <2>1, OrderType DEF ValidOrder
  <2>3. QED
    BY <2>2, OrderType
<1>6. e \in IndexType
  BY <1>4, <1>5 DEF IndexType, Ids
<1>7. PICK lv \in LevelsType : lv = m.levels
  BY <1>1 DEF MarketType
<1>8. PICK nl : nl = [lv EXCEPT ![o.pair][o.type][o.price] = @ + r]
  OBVIOUS
<1>9. PICK new : new = Rest(m, o, filled)
  OBVIOUS
<1>10. PICK K : K = I \cup {e}
  OBVIOUS
<1>11. new = [m EXCEPT !.ok = TRUE, !.orders = K, !.levels = nl]
  <2>1. new = [m EXCEPT !.ok = @ /\ r > 0 /\ \A x \in m.orders : x.id # o.id,
                        !.orders = @ \cup {e},
                        !.levels[o.pair][o.type][o.price] = @ + r]
    BY <1>3, <1>4, <1>9 DEF Rest
  <2>2. QED
    BY <1>1, <1>2, <1>3, <1>7, <1>8, <1>10, <2>1 DEF MarketType
<1>12. e \notin I /\ e.id = o.id /\ e.remaining = r /\ e.pair = o.pair /\ e.type = o.type /\ e.price = o.price
  BY <1>2, <1>4
<1>13. ASSUME NEW p \in Pairs, NEW s \in Sides, NEW x \in Prices PROVE nl[p][s][x] = Volume(K, p, s, x)
  <2>1. lv[p][s][x] \in Int
    BY DEF LevelsType
  <2>2. Volume(I \cup {e}, p, s, x) = Volume(I, p, s, x) + (IF Stands(e, p, s, x) THEN e.remaining ELSE 0)
    BY <1>1, <1>2, <1>6, <1>12, VolumeGrows
  <2>3. lv[p][s][x] = Volume(I, p, s, x)
    BY <1>1, <1>2, <1>7
  <2>4. CASE Stands(e, p, s, x)
    <3>1. nl[p][s][x] = lv[p][s][x] + r
      BY <1>5, <1>8, <1>12, <2>1, <2>4 DEF Stands, LevelsType
    <3>2. QED
      BY <1>10, <1>12, <2>2, <2>3, <2>4, <3>1
  <2>5. CASE ~Stands(e, p, s, x)
    <3>1. nl[p][s][x] = lv[p][s][x]
      BY <1>5, <1>8, <1>12, <2>5 DEF Stands, LevelsType
    <3>2. lv[p][s][x] + 0 = lv[p][s][x]
      BY <2>1
    <3>3. Volume(K, p, s, x) = Volume(I, p, s, x) + 0
      BY <1>10, <2>2, <2>5
    <3>4. QED
      BY <2>3, <3>1, <3>2, <3>3
  <2>6. QED
    BY <2>4, <2>5
<1>14. K \subseteq IndexType /\ IsFiniteSet(K) /\ (\A i, j \in K : i.id = j.id => i = j) /\ \A i \in K : i.remaining > 0
  <2>1. IsFiniteSet(K)
    BY <1>1, <1>2, <1>10, FS_AddElement
  <2>2. QED
    BY <1>1, <1>2, <1>3, <1>6, <1>10, <1>12, <2>1
<1>15. new \in MarketType
  <2>1. SameFeed(m, new)
    BY <1>1, <1>9, RestType
  <2>2. QED
    BY <2>1 DEF SameFeed
<1>16. new.ok = TRUE /\ new.orders = K /\ new.levels = nl
  BY <1>1, <1>11 DEF MarketType
<1>17. Index(new)
  BY <1>13, <1>14, <1>15, <1>16 DEF Index
<1>18. QED
  BY <1>2, <1>3, <1>4, <1>9, <1>10, <1>16, <1>17

-----------------------------------------------------------------------------
(* A list of fills takes each maker down once.                              *)

\* What the first k fills leave of an index.
Drained(I, fills, k, i) ==
    \/ i \in I /\ \A j \in 1..k : fills[j].maker # i.id
    \/ \E j \in 1..k : \E o \in I : /\ o.id = fills[j].maker /\ o.remaining # fills[j].qty
                                    /\ i = Shortened(o, fills[j].qty)
Covered(I, fills) ==
    /\ \A j, k \in DOMAIN fills : fills[j].maker = fills[k].maker => j = k
    /\ \A k \in DOMAIN fills : \E o \in I : o.id = fills[k].maker /\ fills[k].qty <= o.remaining

DrainedTo(I, fills, k, m) == Index(m) /\ \A i : i \in m.orders <=> Drained(I, fills, k, i)
IdsDiffer(I) == \A i, j \in I : i.id = j.id => i = j

\* One more fill.
LEMMA DrainStep ==
    ASSUME NEW I, I \subseteq IndexType, IdsDiffer(I),
           NEW fills \in Seq(FillType), Covered(I, fills), NEW k \in Nat, k + 1 <= Len(fills),
           NEW m, DrainedTo(I, fills, k, m),
           NEW new, new = Reduce(m, fills[k + 1].maker, fills[k + 1].qty)
    PROVE  DrainedTo(I, fills, k + 1, new)
<1>0. /\ Index(m) /\ \A i : i \in m.orders <=> Drained(I, fills, k, i)
      /\ \A i, j \in I : i.id = j.id => i = j
  BY DEF DrainedTo, IdsDiffer
<1>1. PICK n \in Nat : n = Len(fills) /\ DOMAIN fills = 1..n
  OBVIOUS
<1>2. k + 1 \in 1..n
  BY <1>1
<1>3. PICK t \in FillType : t = fills[k + 1]
  BY <1>1, <1>2
<1>4. t.qty \in Int
  BY FillTyped
<1>5. PICK o \in I : o.id = t.maker /\ t.qty <= o.remaining
  BY <1>1, <1>2, <1>3 DEF Covered
<1>6. \A j \in 1..k : j \in 1..n /\ j # k + 1 /\ j \in 1..(k + 1)
  BY <1>2
<1>7. \A j \in 1..(k + 1) : j \in 1..k \/ j = k + 1
  OBVIOUS
<1>8. \A j \in 1..k : fills[j].maker # o.id
  BY <1>1, <1>2, <1>3, <1>5, <1>6 DEF Covered
<1>9. o \in m.orders
  BY <1>0, <1>5, <1>8 DEF Drained
<1>10. Index(new) /\ new.orders = LessOf(m.orders, o, t.qty)
  BY <1>0, <1>3, <1>4, <1>5, <1>9, ReduceIndex
<1>11. k + 1 \in 1..(k + 1)
  OBVIOUS
<1>12. ASSUME NEW i, i \in new.orders PROVE Drained(I, fills, k + 1, i)
  <2>1. CASE i \in m.orders /\ i # o
    <3>1. Drained(I, fills, k, i)
      BY <1>0, <2>1
    <3>2. CASE i \in I /\ \A j \in 1..k : fills[j].maker # i.id
      <4>1. i.id # o.id
        BY <1>0, <1>5, <2>1, <3>2
      <4>2. \A j \in 1..(k + 1) : fills[j].maker # i.id
        BY <1>3, <1>5, <1>7, <3>2, <4>1
      <4>3. QED
        BY <3>2, <4>2 DEF Drained
    <3>3. CASE \E j \in 1..k : \E a \in I : /\ a.id = fills[j].maker /\ a.remaining # fills[j].qty
                                            /\ i = Shortened(a, fills[j].qty)
      BY <1>6, <3>3 DEF Drained
    <3>4. QED
      BY <3>1, <3>2, <3>3 DEF Drained
  <2>2. CASE o.remaining # t.qty /\ i = Shortened(o, t.qty)
    BY <1>3, <1>5, <1>11, <2>2 DEF Drained
  <2>3. QED
    BY <1>10, <1>12, <2>1, <2>2 DEF LessOf
<1>13. ASSUME NEW i, Drained(I, fills, k + 1, i) PROVE i \in new.orders
  <2>1. CASE i \in I /\ \A j \in 1..(k + 1) : fills[j].maker # i.id
    <3>1. i # o
      BY <1>3, <1>5, <1>11, <2>1
    <3>2. Drained(I, fills, k, i)
      BY <1>6, <2>1 DEF Drained
    <3>3. QED
      BY <1>0, <1>10, <3>1, <3>2 DEF LessOf
  <2>2. CASE \E j \in 1..(k + 1) : \E a \in I : /\ a.id = fills[j].maker /\ a.remaining # fills[j].qty
                                                /\ i = Shortened(a, fills[j].qty)
    <3>1. PICK j \in 1..(k + 1) : \E a \in I : /\ a.id = fills[j].maker /\ a.remaining # fills[j].qty
                                               /\ i = Shortened(a, fills[j].qty)
      BY <2>2
    <3>2. PICK a \in I : a.id = fills[j].maker /\ a.remaining # fills[j].qty /\ i = Shortened(a, fills[j].qty)
      BY <3>1
    <3>3. CASE j \in 1..k
      <4>1. Drained(I, fills, k, i)
        BY <3>2, <3>3 DEF Drained
      <4>2. PICK q \in Int : q = fills[j].qty
        <5>1. fills[j] \in FillType
          BY <1>1, <1>6, <3>3
        <5>2. QED
          BY <5>1, FillTyped
      <4>3. i.id = a.id
        BY <3>2, <4>2, SmallerType
      <4>4. i # o
        BY <1>8, <3>2, <3>3, <4>3
      <4>5. QED
        BY <1>0, <1>10, <4>1, <4>4 DEF LessOf
    <3>4. CASE j = k + 1
      <4>1. a = o
        BY <1>0, <1>3, <1>5, <3>2, <3>4
      <4>2. QED
        BY <1>3, <1>10, <3>2, <3>4, <4>1 DEF LessOf
    <3>5. QED
      BY <1>7, <3>3, <3>4
  <2>3. QED
    BY <1>13, <2>1, <2>2 DEF Drained
<1>14. QED
  BY <1>10, <1>12, <1>13 DEF DrainedTo

\* The index after all fills of a record.
LEMMA DrainAll ==
    ASSUME NEW m, Index(m), NEW fills \in Seq(FillType), Covered(m.orders, fills)
    PROVE  DrainedTo(m.orders, fills, Len(fills), ReduceAll(m, fills))
<1>1. m \in MarketType /\ IdsDiffer(m.orders)
  BY DEF Index, IdsDiffer
<1>2. PICK I : I = m.orders /\ I \subseteq IndexType
  BY <1>1 DEF MarketType
<1>3. PICK f : ReduceRun(m, fills, f) /\ ReduceAll(m, fills) = f[Len(fills)]
  BY <1>1, ReduceRuns
<1>4. PICK n \in Nat : n = Len(fills)
  OBVIOUS
<1>5. f[0] = m /\ \A k \in 1..n : f[k] = Reduce(f[k - 1], fills[k].maker, fills[k].qty)
  BY <1>3, <1>4 DEF ReduceRun
<1>6. PICK T : T = {k \in Nat : k <= n => DrainedTo(I, fills, k, f[k])}
  OBVIOUS
<1>7. 0 \in T
  <2>1. 1..0 = {}
    OBVIOUS
  <2>2. \A i : i \in m.orders <=> Drained(I, fills, 0, i)
    BY <1>2, <2>1 DEF Drained
  <2>3. QED
    BY <1>5, <1>6, <2>2 DEF DrainedTo
<1>8. ASSUME NEW k \in Nat, k \in T PROVE k + 1 \in T
  <2>1. CASE k + 1 > n
    BY <1>6, <2>1
  <2>2. CASE k + 1 <= n
    <3>1. k + 1 \in 1..n /\ (k + 1) - 1 = k /\ k <= n
      BY <2>2
    <3>2. PICK c : c = f[k]
      OBVIOUS
    <3>3. PICK new : new = f[k + 1]
      OBVIOUS
    <3>4. new = Reduce(c, fills[k + 1].maker, fills[k + 1].qty)
      BY <1>5, <3>1, <3>2, <3>3
    <3>5. DrainedTo(I, fills, k, c)
      BY <1>6, <1>8, <3>1, <3>2
    <3>6. DrainedTo(I, fills, k + 1, new)
      BY <1>1, <1>2, <1>4, <2>2, <3>4, <3>5, DrainStep
    <3>7. QED
      BY <1>6, <3>3, <3>6
  <2>3. QED
    BY <2>1, <2>2
<1>9. \A k \in Nat : k \in T
  BY <1>7, <1>8, Numbers
<1>10. QED
  BY <1>2, <1>3, <1>4, <1>6, <1>9

-----------------------------------------------------------------------------
(* The fills add up to the amount of the plan.                              *)

\* The filled quantity with one more fill.
LEMMA FilledAppend ==
    ASSUME NEW s \in Seq(FillType), NEW t \in FillType
    PROVE  FilledBy(Append(s, t)) = FilledBy(s) + t.qty
<1>1. PICK n \in Nat : n = Len(s) /\ DOMAIN s = 1..n
  OBVIOUS
<1>2. PICK u \in Seq(FillType) : u = Append(s, t)
  <2>1. PICK S : S = FillType
    OBVIOUS
  <2>2. s \in Seq(S) /\ t \in S
    BY <2>1
  <2>3. Append(s, t) \in Seq(S)
    BY <2>2
  <2>4. QED
    BY <2>1, <2>3
<1>3. Len(u) = n + 1 /\ u[n + 1] = t /\ \A k \in 1..n : u[k] = s[k]
  BY <1>1, <1>2
<1>4. PICK f : FilledRun(s, f) /\ FilledBy(s) = f[n]
  BY <1>1, FilledRuns
<1>5. PICK g : FilledRun(u, g) /\ FilledBy(u) = g[n + 1]
  BY <1>3, FilledRuns
<1>6. f[0] = 0 /\ \A k \in 1..n : f[k] = f[k - 1] + s[k].qty
  BY <1>1, <1>4 DEF FilledRun
<1>7. g[0] = 0 /\ \A k \in 1..(n + 1) : g[k] = g[k - 1] + u[k].qty
  BY <1>3, <1>5 DEF FilledRun
<1>8. PICK T : T = {k \in Nat : k <= n => g[k] = f[k]}
  OBVIOUS
<1>9. 0 \in T
  BY <1>6, <1>7, <1>8
<1>10. ASSUME NEW k \in Nat, k \in T PROVE k + 1 \in T
  <2>1. CASE k + 1 > n
    BY <1>8, <2>1
  <2>2. CASE k + 1 <= n
    <3>1. k + 1 \in 1..n /\ k + 1 \in 1..(n + 1) /\ (k + 1) - 1 = k /\ k <= n
      BY <2>2
    <3>2. g[k] = f[k]
      BY <1>8, <1>10, <3>1
    <3>3. g[k + 1] = f[k + 1]
      BY <1>3, <1>6, <1>7, <3>1, <3>2
    <3>4. QED
      BY <1>8, <3>3
  <2>3. QED
    BY <2>1, <2>2
<1>11. \A k \in Nat : k \in T
  BY <1>9, <1>10, Numbers
<1>12. g[n] = f[n]
  BY <1>8, <1>11
<1>13. g[n + 1] = g[n] + t.qty
  <2>1. n + 1 \in 1..(n + 1) /\ (n + 1) - 1 = n
    OBVIOUS
  <2>2. QED
    BY <1>3, <1>7, <2>1
<1>14. QED
  BY <1>2, <1>4, <1>5, <1>12, <1>13

\* The fills of one more trade.
LEMMA FillsAppend ==
    ASSUME NEW ts \in Seq(TradeType), NEW t \in TradeType
    PROVE  Fill(t) \in FillType /\ FillsOf(Append(ts, t)) = Append(FillsOf(ts), Fill(t))
<1>1. PICK S : S = TradeType
  OBVIOUS
<1>2. ts \in Seq(S) /\ t \in S
  BY <1>1
<1>3. PICK n \in Nat : n = Len(ts) /\ DOMAIN ts = 1..n
  OBVIOUS
<1>4. PICK us : us = Append(ts, t)
  OBVIOUS
<1>5. us \in Seq(S) /\ Len(us) = n + 1 /\ DOMAIN us = 1..(n + 1) /\ us[n + 1] = t /\ \A k \in 1..n : us[k] = ts[k]
  BY <1>2, <1>3, <1>4
<1>6. us \in Seq(TradeType)
  BY <1>1, <1>5
<1>7. Fill(t) \in FillType
  <2>1. t.maker \in EntryType /\ t.price \in Int /\ t.qty \in Int
    BY DEF TradeType
  <2>2. t.maker.id \in Ids
    BY <2>1 DEF EntryType, Ids
  <2>3. QED
    BY <2>1, <2>2 DEF Fill, FillType
<1>8. PICK F : F = FillType
  OBVIOUS
<1>9. PICK a \in Seq(F) : a = FillsOf(ts) /\ Len(a) = n
  BY <1>3, <1>8, FillsTyped
<1>10. PICK b \in Seq(F) : b = FillsOf(us) /\ Len(b) = n + 1
  BY <1>5, <1>6, <1>8, FillsTyped
<1>11. \A k \in 1..n : a[k] = Fill(ts[k])
  BY <1>3, <1>9 DEF FillsOf
<1>12. \A k \in 1..(n + 1) : b[k] = Fill(us[k])
  BY <1>5, <1>10 DEF FillsOf
<1>121. PICK y \in F : y = Fill(t)
  BY <1>7, <1>8
<1>122. Append(a, y) \in Seq(F)
  OBVIOUS
<1>13. PICK c \in Seq(F) : c = Append(a, y)
  BY <1>122
<1>14. Len(c) = n + 1 /\ c[n + 1] = Fill(t) /\ \A k \in 1..n : c[k] = a[k]
  BY <1>9, <1>13, <1>121
<1>15. \A k \in 1..(n + 1) : k = n + 1 \/ k \in 1..n
  OBVIOUS
<1>16. \A k \in 1..(n + 1) : b[k] = c[k]
  BY <1>5, <1>11, <1>12, <1>14, <1>15
<1>17. b = c
  BY <1>10, <1>14, <1>16
<1>18. QED
  BY <1>4, <1>7, <1>9, <1>10, <1>13, <1>17, <1>121

AddsUp(p) == p.ok => FilledBy(FillsOf(p.trades)) = p.amount

\* The filled quantity of a plan follows one more maker.
LEMMA AddsUpNext ==
    ASSUME NEW o \in Orders, NEW plan \in PlanType, NEW m \in EntryType, AddsUp(plan)
    PROVE  AddsUp(PlanMaker(o, plan, m))
<1>1. PICK new : new = PlanMaker(o, plan, m)
  OBVIOUS
<1>2. SUFFICES ASSUME new.ok PROVE FilledBy(FillsOf(new.trades)) = new.amount
  BY <1>1 DEF AddsUp
<1>3. /\ new \in PlanType /\ plan.ok
      /\ PassedOver(o, plan, m, new) \/ Trades(o, plan, m, new)
      /\ Wanted(o, plan, m) \in Int
  BY <1>1, <1>2, PlanMakerType
<1>4. FilledBy(FillsOf(plan.trades)) = plan.amount
  BY <1>3 DEF AddsUp
<1>5. CASE PassedOver(o, plan, m, new)
  BY <1>4, <1>5 DEF PassedOver
<1>6. CASE Trades(o, plan, m, new)
  <2>1. PICK q \in Int : q = Wanted(o, plan, m)
    BY <1>3
  <2>2. PICK t : t = [maker |-> m, price |-> m.price, qty |-> q]
    OBVIOUS
  <2>3. m.price \in Int
    BY PriceType DEF EntryType
  <2>4. t \in TradeType
    BY <2>2, <2>3 DEF TradeType
  <2>5. new.amount = plan.amount + q /\ new.trades = Append(plan.trades, t)
    BY <1>6, <2>1, <2>2 DEF Trades
  <2>6. PICK ts \in Seq(TradeType) : ts = plan.trades
    BY DEF PlanType
  <2>7. PICK fs \in Seq(FillType) : fs = FillsOf(ts)
    BY FillsTyped
  <2>8. PICK x \in FillType : x = Fill(t)
    BY <2>4, FillsAppend
  <2>9. FillsOf(new.trades) = Append(fs, x)
    BY <2>4, <2>5, <2>6, <2>7, <2>8, FillsAppend
  <2>10. FilledBy(Append(fs, x)) = FilledBy(fs) + x.qty
    BY FilledAppend
  <2>11. x.qty = q
    BY <2>2, <2>8 DEF Fill
  <2>12. QED
    BY <1>4, <2>5, <2>6, <2>7, <2>9, <2>10, <2>11
<1>7. QED
  BY <1>3, <1>5, <1>6

\* The fills of a plan add up to its filled quantity.
LEMMA PlanAddsUp ==
    ASSUME NEW o \in Orders, NEW side, Makers(o, side) \in Seq(EntryType)
    PROVE  AddsUp(PlanOrder(o, side))
<1>1. PICK M \in Seq(EntryType) : M = Makers(o, side)
  OBVIOUS
<1>2. PICK f : PlanRun(o, M, f) /\ PlanOrder(o, side) = f[Len(M)]
  BY <1>1, PlanRuns
<1>3. PICK n \in Nat : n = Len(M) /\ DOMAIN M = 1..n
  OBVIOUS
<1>4. PICK T : T = {k \in Nat : k <= n => AddsUp(f[k])}
  OBVIOUS
<1>5. 0 \in T
  <2>1. PICK p : p = NewPlan(o)
    OBVIOUS
  <2>2. p.trades = <<>> /\ p.amount = 0
    BY <2>1 DEF NewPlan
  <2>3. PICK fs : fs = FillsOf(<<>>)
    OBVIOUS
  <2>4. fs \in Seq(FillType) /\ Len(fs) = 0
    <3>1. <<>> \in Seq(TradeType) /\ Len(<<>>) = 0
      <4>1. PICK S : S = TradeType
        OBVIOUS
      <4>2. <<>> \in Seq(S) /\ Len(<<>>) = 0
        OBVIOUS
      <4>3. QED
        BY <4>1, <4>2
    <3>2. QED
      BY <2>3, <3>1, FillsTyped
  <2>5. PICK g : FilledRun(fs, g) /\ FilledBy(fs) = g[0]
    BY <2>4, FilledRuns
  <2>6. FilledBy(fs) = 0
    BY <2>5 DEF FilledRun
  <2>7. f[0] = p
    BY <1>2, <2>1 DEF PlanRun
  <2>8. QED
    BY <1>4, <2>2, <2>3, <2>6, <2>7 DEF AddsUp
<1>6. ASSUME NEW k \in Nat, k \in T PROVE k + 1 \in T
  <2>1. CASE k + 1 > n
    BY <1>4, <2>1
  <2>2. CASE k + 1 <= n
    <3>1. k + 1 \in 1..n /\ k \in 0..n /\ (k + 1) - 1 = k /\ k <= n
      BY <2>2
    <3>2. f[k + 1] = PlanMaker(o, f[k], M[k + 1]) /\ f[k] \in PlanType
      BY <1>2, <1>3, <3>1 DEF PlanRun
    <3>3. M[k + 1] \in EntryType
      BY <1>3, <3>1
    <3>4. AddsUp(f[k])
      BY <1>4, <1>6, <3>1
    <3>5. AddsUp(f[k + 1])
      BY <3>2, <3>3, <3>4, AddsUpNext
    <3>6. QED
      BY <1>4, <3>5
  <2>3. QED
    BY <2>1, <2>2
<1>7. \A k \in Nat : k \in T
  BY <1>5, <1>6, Numbers
<1>8. QED
  BY <1>2, <1>3, <1>4, <1>7

-----------------------------------------------------------------------------
(* The index mirrors the books.                                             *)

View(e) == [id |-> e.id, pair |-> e.pair, type |-> e.type, price |-> e.price, remaining |-> e.remaining]
Mirrors(m, b) == Index(m) /\ \A i : i \in m.orders <=> \E e \in All(b) : i = View(e)

\* An entry as the index shows it.
LEMMA ViewType ==
    ASSUME NEW e \in EntryType
    PROVE  /\ View(e) \in IndexType /\ View(e).id = e.id /\ View(e).remaining = e.remaining /\ e.remaining \in Int
           /\ View(e).pair = e.pair /\ View(e).type = e.type /\ View(e).price = e.price
<1>1. /\ e.id \in Ids /\ e.pair \in Pairs /\ e.type \in Sides /\ e.price \in Prices /\ e.remaining \in Int
  BY DEF EntryType, Ids
<1>2. QED
  BY <1>1 DEF View, IndexType

\* An entry belongs to a submission, and an id has one entry.
LEMMA AllOwnIds ==
    ASSUME NEW b \in TypedBooks, NEW subs, NEW cans, BookOk(b, subs, cans), NEW e \in All(b)
    PROVE  /\ e \in EntryType /\ \E o \in subs : o.id = e.id
           /\ \A d \in All(b) : d.id = e.id => d = e
<1>1. PICK p, s, x, i : Place(b, p, s, x, i) /\ e = b[p][s].levels[x][i]
  BY AllArePlaced
<1>2. e \in EntryType
  BY AllTyped
<1>3. Entry(subs, e, p, s, x)
  <2>1. QueueOk(subs, b[p][s].levels[x], p, s, x)
    BY <1>1 DEF BookOk, Place
  <2>2. QED
    BY <1>1, <2>1 DEF QueueOk, Place
<1>4. \E o \in subs : o.id = e.id
  BY <1>3 DEF Entry, Rested
<1>5. ASSUME NEW d \in All(b), d.id = e.id PROVE d = e
  <2>1. PICK q, t, y, j : Place(b, q, t, y, j) /\ d = b[q][t].levels[y][j]
    BY AllArePlaced
  <2>2. p = q /\ s = t /\ x = y /\ i = j
    BY <1>1, <1>5, <2>1, IdHasOnePlace
  <2>3. QED
    BY <1>1, <2>1, <2>2
<1>6. QED
  BY <1>2, <1>4, <1>5

\* The fills of a plan, seen from the projection.
LEMMA PlanFills ==
    ASSUME NEW b, NEW subs, NEW cans, NEW o, NEW side, NEW plan, Plans(b, subs, cans, o, side, plan)
    PROVE  /\ plan \in PlanType /\ plan.trades \in Seq(TradeType) /\ FillsOf(plan.trades) \in Seq(FillType)
           /\ Len(FillsOf(plan.trades)) = Len(plan.trades) /\ DOMAIN plan.trades = 1..Len(plan.trades)
           /\ DOMAIN FillsOf(plan.trades) = 1..Len(plan.trades) /\ Len(plan.trades) \in Nat
           /\ \A k \in 1..Len(plan.trades) :
                 /\ MakerOf(b, o, side, plan.trades[k]) /\ FillsOf(plan.trades)[k].maker = plan.trades[k].maker.id
                 /\ FillsOf(plan.trades)[k].qty = plan.trades[k].qty /\ plan.trades[k].qty \in Int
           /\ Distinct(plan) /\ b \in TypedBooks /\ BookOk(b, subs, cans)
<1>1. /\ plan \in PlanType /\ Planned(o, Makers(o, side), Len(Makers(o, side)), plan)
  BY PlanFacts
<1>2. plan.ok /\ b \in TypedBooks /\ BookOk(b, subs, cans)
  BY DEF Plans
<1>3. Distinct(plan)
  BY <1>1, <1>2 DEF Planned
<1>4. PICK ts \in Seq(TradeType) : ts = plan.trades
  BY <1>1 DEF PlanType
<1>5. PICK n \in Nat : n = Len(ts) /\ DOMAIN ts = 1..n
  OBVIOUS
<1>6. PICK fs \in Seq(FillType) : fs = FillsOf(ts) /\ Len(fs) = n
  BY <1>5, FillsTyped
<1>7. DOMAIN fs = 1..n
  BY <1>6
<1>8. ASSUME NEW k \in 1..n
      PROVE  /\ MakerOf(b, o, side, ts[k]) /\ fs[k].maker = ts[k].maker.id
             /\ fs[k].qty = ts[k].qty /\ ts[k].qty \in Int
  <2>1. fs[k] = Fill(ts[k])
    BY <1>5, <1>6 DEF FillsOf
  <2>2. fs[k].maker = ts[k].maker.id /\ fs[k].qty = ts[k].qty
    BY <2>1 DEF Fill
  <2>3. ts[k] \in TradeType
    BY <1>5
  <2>4. MakerOf(b, o, side, ts[k])
    BY <1>4, <1>5, MakersRest
  <2>5. QED
    BY <2>2, <2>3, <2>4 DEF TradeType
<1>9. QED
  BY <1>1, <1>2, <1>3, <1>4, <1>5, <1>6, <1>7, <1>8

\* Every fill of a plan meets an order of the index that has enough.
LEMMA FillsCover ==
    ASSUME NEW b, NEW subs, NEW cans, NEW o, NEW side, NEW plan, Plans(b, subs, cans, o, side, plan),
           NEW m, Mirrors(m, b)
    PROVE  Covered(m.orders, FillsOf(plan.trades))
<1>1. PICK ts : ts = plan.trades
  OBVIOUS
<1>2. PICK fs : fs = FillsOf(ts)
  OBVIOUS
<1>3. PICK n \in Nat : n = Len(ts) /\ DOMAIN ts = 1..n /\ DOMAIN fs = 1..n
  BY <1>1, <1>2, PlanFills
<1>4. \A k \in 1..n : MakerOf(b, o, side, ts[k]) /\ fs[k].maker = ts[k].maker.id /\ fs[k].qty = ts[k].qty
  BY <1>1, <1>2, <1>3, PlanFills
<1>5. ASSUME NEW j \in 1..n, NEW k \in 1..n, fs[j].maker = fs[k].maker PROVE j = k
  <2>1. Distinct(plan)
    BY PlanFills
  <2>2. QED
    BY <1>1, <1>3, <1>4, <1>5, <2>1 DEF Distinct
<1>6. ASSUME NEW k \in 1..n PROVE \E i \in m.orders : i.id = fs[k].maker /\ fs[k].qty <= i.remaining
  <2>1. PICK e \in All(b) : e = ts[k].maker /\ ts[k].qty <= e.remaining /\ e \in EntryType
    BY <1>4 DEF MakerOf, FairTrade, TradeType
  <2>2. View(e) \in m.orders
    BY DEF Mirrors
  <2>3. View(e).id = e.id /\ View(e).remaining = e.remaining
    BY <2>1, ViewType
  <2>4. QED
    BY <1>4, <2>1, <2>2, <2>3
<1>7. QED
  BY <1>1, <1>2, <1>3, <1>5, <1>6 DEF Covered

\* What the fills leave of an entry is what the plan leaves of it.
AfterFill(plan, e, j) ==
    plan.trades[j].maker.id = e.id =>
       /\ View(AfterTrade(plan, e)) = Shortened(View(e), plan.trades[j].qty)
       /\ AfterTrade(plan, e).remaining = e.remaining - plan.trades[j].qty
       /\ plan.trades[j].qty <= e.remaining

\* An entry after the trades, as the index shows it.
LEMMA ViewAfter ==
    ASSUME NEW b, NEW subs, NEW cans, NEW o, NEW side, NEW plan, Plans(b, subs, cans, o, side, plan), NEW e \in All(b)
    PROVE  /\ (\A j \in 1..Len(plan.trades) : plan.trades[j].maker.id # e.id) => AfterTrade(plan, e) = e
           /\ \A j \in 1..Len(plan.trades) : AfterFill(plan, e, j)
<1>1. PICK ts : ts = plan.trades
  OBVIOUS
<1>2. PICK n \in Nat : n = Len(ts) /\ DOMAIN ts = 1..n
  BY <1>1, PlanFills
<1>3. /\ plan \in PlanType /\ Distinct(plan) /\ b \in TypedBooks /\ BookOk(b, subs, cans)
      /\ \A k \in 1..n : MakerOf(b, o, side, ts[k]) /\ ts[k].qty \in Int
  BY <1>1, <1>2, PlanFills
<1>4. e \in EntryType /\ \A d \in All(b) : d.id = e.id => d = e
  BY <1>3, AllOwnIds
<1>5. (\A j \in 1..n : ts[j].maker.id # e.id) => AfterTrade(plan, e) = e
  BY <1>1, <1>2 DEF AfterTrade, Traded
<1>6. ASSUME NEW j \in 1..n, ts[j].maker.id = e.id
      PROVE  /\ View(AfterTrade(plan, e)) = Shortened(View(e), ts[j].qty)
             /\ AfterTrade(plan, e).remaining = e.remaining - ts[j].qty
             /\ ts[j].qty <= e.remaining
  <2>1. PICK q \in Int : q = ts[j].qty
    BY <1>3
  <2>2. Traded(plan, e)
    BY <1>1, <1>2, <1>6 DEF Traded
  <2>3. TradedQty(plan, e) = q
    <3>1. PICK i : i = CHOOSE k \in DOMAIN plan.trades : plan.trades[k].maker.id = e.id
      OBVIOUS
    <3>2. i \in DOMAIN plan.trades /\ plan.trades[i].maker.id = e.id
      BY <1>1, <1>2, <1>6, <3>1
    <3>3. i = j
      BY <1>1, <1>2, <1>3, <1>6, <3>2 DEF Distinct
    <3>4. QED
      BY <1>1, <2>1, <3>1, <3>3 DEF TradedQty
  <2>4. Taken(plan, e) = q
    BY <2>2, <2>3 DEF Taken
  <2>5. PICK a : a = AfterTrade(plan, e)
    OBVIOUS
  <2>6. Reduced(e, q, a)
    BY <1>3, <1>4, <2>4, <2>5, AfterTradeType
  <2>7. /\ a.id = e.id /\ a.pair = e.pair /\ a.type = e.type /\ a.price = e.price /\ a.remaining = e.remaining - q
    BY <2>6 DEF Reduced
  <2>8. View(a) = Shortened(View(e), q)
    <3>1. PICK v : v = View(e)
      OBVIOUS
    <3>2. v = [id |-> e.id, pair |-> e.pair, type |-> e.type, price |-> e.price, remaining |-> e.remaining]
      BY <3>1 DEF View
    <3>3. Shortened(v, q) = [id |-> e.id, pair |-> e.pair, type |-> e.type, price |-> e.price,
                            remaining |-> e.remaining - q]
      BY <3>2 DEF Shortened
    <3>4. QED
      BY <2>7, <3>1, <3>3 DEF View
  <2>9. ts[j].maker = e
    BY <1>3, <1>4, <1>6 DEF MakerOf
  <2>10. q <= e.remaining
    BY <1>3, <2>1, <2>9 DEF MakerOf, FairTrade
  <2>11. QED
    BY <2>1, <2>5, <2>7, <2>8, <2>10
<1>7. \A j \in 1..n : AfterFill(plan, e, j)
  BY <1>1, <1>6 DEF AfterFill
<1>8. QED
  BY <1>1, <1>2, <1>5, <1>7

\* The index after the fills shows what survives in the book.
LEMMA DrainSurvives ==
    ASSUME NEW b, NEW subs, NEW cans, NEW o, NEW side, NEW plan, Plans(b, subs, cans, o, side, plan),
           NEW m, Mirrors(m, b), NEW i
    PROVE  Drained(m.orders, FillsOf(plan.trades), Len(plan.trades), i)
           <=> \E e : Survives(b, plan, e) /\ i = View(e)
<1>1. PICK ts : ts = plan.trades
  OBVIOUS
<1>2. PICK fs : fs = FillsOf(ts)
  OBVIOUS
<1>3. PICK n \in Nat : n = Len(ts)
  BY <1>1, PlanFills
<1>4. /\ b \in TypedBooks /\ BookOk(b, subs, cans)
      /\ \A k \in 1..n : fs[k].maker = ts[k].maker.id /\ fs[k].qty = ts[k].qty /\ ts[k].qty \in Int
  BY <1>1, <1>2, <1>3, PlanFills
<1>5. ASSUME NEW e \in All(b)
      PROVE  /\ e \in EntryType /\ View(e) \in m.orders /\ View(e).id = e.id /\ View(e).remaining = e.remaining
             /\ e.remaining \in Int /\ e.remaining > 0
  <2>1. e \in EntryType
    BY <1>4, AllOwnIds
  <2>2. View(e) \in m.orders
    BY DEF Mirrors
  <2>3. View(e).remaining > 0
    BY <2>2 DEF Mirrors, Index
  <2>4. QED
    BY <2>1, <2>2, <2>3, ViewType
<1>6. ASSUME Drained(m.orders, fs, n, i) PROVE \E e : Survives(b, plan, e) /\ i = View(e)
  <2>1. CASE i \in m.orders /\ \A j \in 1..n : fs[j].maker # i.id
    <3>1. PICK e \in All(b) : i = View(e)
      BY <2>1 DEF Mirrors
    <3>2. \A j \in 1..n : ts[j].maker.id # e.id
      BY <1>4, <1>5, <2>1, <3>1
    <3>3. AfterTrade(plan, e) = e
      BY <1>1, <1>3, <3>2, ViewAfter
    <3>4. Survives(b, plan, e)
      BY <1>5, <3>3 DEF Survives
    <3>5. QED
      BY <3>1, <3>4
  <2>2. CASE \E j \in 1..n : \E a \in m.orders : /\ a.id = fs[j].maker /\ a.remaining # fs[j].qty
                                                  /\ i = Shortened(a, fs[j].qty)
    <3>1. PICK j \in 1..n : \E a \in m.orders : /\ a.id = fs[j].maker /\ a.remaining # fs[j].qty
                                                  /\ i = Shortened(a, fs[j].qty)
      BY <2>2
    <3>2. PICK a \in m.orders : a.id = fs[j].maker /\ a.remaining # fs[j].qty /\ i = Shortened(a, fs[j].qty)
      BY <3>1
    <3>3. PICK e \in All(b) : a = View(e)
      BY DEF Mirrors
    <3>4. PICK q \in Int : q = ts[j].qty /\ q = fs[j].qty
      BY <1>4
    <3>5. ts[j].maker.id = e.id /\ e.remaining # q
      BY <1>4, <1>5, <3>2, <3>3, <3>4
    <3>60. AfterFill(plan, e, j)
      BY <1>1, <1>3, ViewAfter
    <3>6. View(AfterTrade(plan, e)) = Shortened(View(e), q) /\ AfterTrade(plan, e).remaining = e.remaining - q /\ q <= e.remaining
      BY <1>1, <3>4, <3>5, <3>60 DEF AfterFill
    <3>7. PICK d : d = AfterTrade(plan, e)
      OBVIOUS
    <3>8. d.remaining > 0
      BY <1>5, <3>5, <3>6, <3>7
    <3>9. Survives(b, plan, d)
      BY <3>7, <3>8 DEF Survives
    <3>10. i = View(d)
      BY <3>2, <3>3, <3>4, <3>6, <3>7
    <3>11. QED
      BY <3>9, <3>10
  <2>3. QED
    BY <1>6, <2>1, <2>2 DEF Drained
<1>7. ASSUME NEW d, Survives(b, plan, d), i = View(d) PROVE Drained(m.orders, fs, n, i)
  <2>1. PICK e \in All(b) : d = AfterTrade(plan, e) /\ d.remaining > 0
    BY <1>7 DEF Survives
  <2>2. CASE \A j \in 1..n : ts[j].maker.id # e.id
    <3>1. d = e
      BY <1>1, <1>3, <2>1, <2>2, ViewAfter
    <3>2. i \in m.orders /\ i.id = e.id
      BY <1>5, <1>7, <3>1
    <3>3. \A j \in 1..n : fs[j].maker # i.id
      BY <1>4, <2>2, <3>2
    <3>4. QED
      BY <3>2, <3>3 DEF Drained
  <2>3. CASE ~(\A j \in 1..n : ts[j].maker.id # e.id)
    <3>1. PICK j \in 1..n : ts[j].maker.id = e.id
      BY <2>3
    <3>2. PICK q \in Int : q = ts[j].qty /\ q = fs[j].qty
      BY <1>4
    <3>30. AfterFill(plan, e, j)
      BY <1>1, <1>3, ViewAfter
    <3>3. View(d) = Shortened(View(e), q) /\ d.remaining = e.remaining - q
      BY <1>1, <2>1, <3>1, <3>2, <3>30 DEF AfterFill
    <3>4. e.remaining # q
      BY <1>5, <2>1, <3>3
    <3>5. PICK a \in m.orders : a = View(e) /\ a.id = fs[j].maker /\ a.remaining # fs[j].qty
      BY <1>4, <1>5, <3>1, <3>2, <3>4
    <3>6. i = Shortened(a, fs[j].qty)
      BY <1>7, <3>2, <3>3, <3>5
    <3>7. QED
      BY <3>5, <3>6 DEF Drained
  <2>4. QED
    BY <2>2, <2>3
<1>8. QED
  BY <1>1, <1>2, <1>3, <1>6, <1>7

-----------------------------------------------------------------------------
(* A record does to the index what its command did to the books.            *)

\* Publishing leaves the index and the levels alone.
LEMMA PublishMirrors ==
    ASSUME NEW mid, NEW p, NEW seq, NEW new, Published(mid, p, seq, new), NEW c, Mirrors(mid, c)
    PROVE  Mirrors(new, c)
<1>1. new \in MarketType /\ new.ok = mid.ok /\ new.orders = mid.orders /\ new.levels = mid.levels
  BY DEF Published
<1>2. Index(new)
  BY <1>1 DEF Mirrors, Index
<1>3. QED
  BY <1>1, <1>2 DEF Mirrors

\* The projection follows an accepted submission.
LEMMA SubmitMirrors ==
    ASSUME NEW b, NEW c, NEW subs, NEW cans, NEW o, NEW side, NEW plan,
           Accepts(b, c, subs, cans, o, side, plan), SoundBooks(b), \A s \in subs : s.id # o.id,
           NEW m, Mirrors(m, b), NEW rec \in RecordType,
           rec = [kind |-> "submitted", order |-> o, trades |-> FillsOf(plan.trades)], NEW seq \in Nat
    PROVE  Mirrors(ApplyRecord(m, rec, seq), c)
<1>1. Plans(b, subs, cans, o, side, plan) /\ ValidOrder(o) /\ Accounted(o, plan)
  BY DEF Accepts
<1>2. o \in Orders /\ plan = PlanOrder(o, side) /\ plan.ok /\ b \in TypedBooks /\ BookOk(b, subs, cans)
      /\ side = b[o.pair][Opposite(o)]
  BY <1>1 DEF Plans
<1>3. PICK fs \in Seq(FillType) : fs = FillsOf(plan.trades) /\ Len(fs) = Len(plan.trades)
  BY <1>1, PlanFills
<1>4. Index(m) /\ m \in MarketType
  BY DEF Mirrors, Index
<1>5. Covered(m.orders, fs)
  BY <1>1, <1>3, FillsCover
<1>6. PICK red : red = ReduceAll(m, fs)
  OBVIOUS
<1>7. DrainedTo(m.orders, fs, Len(fs), red)
  BY <1>4, <1>5, <1>6, DrainAll
<1>8. Index(red) /\ \A i : i \in red.orders <=> \E e : Survives(b, plan, e) /\ i = View(e)
  <2>1. ASSUME NEW i PROVE Drained(m.orders, fs, Len(fs), i) <=> \E e : Survives(b, plan, e) /\ i = View(e)
    BY <1>1, <1>3, DrainSurvives
  <2>2. QED
    BY <1>7, <2>1 DEF DrainedTo
<1>9. FilledBy(fs) = plan.amount
  <2>1. Makers(o, side) \in Seq(EntryType)
    BY <1>2, MakersOwnIds
  <2>2. AddsUp(PlanOrder(o, side))
    BY <1>2, <2>1, PlanAddsUp
  <2>3. QED
    BY <1>2, <1>3, <2>2 DEF AddsUp
<1>10. PICK mid : mid = Rest(red, o, plan.amount)
  OBVIOUS
<1>11. \A e : e \in All(c) <=> Survives(b, plan, e) \/ (LeavesRest(o, plan) /\ e = Resting(o, plan))
  BY AcceptedEntries
<1>12. plan \in PlanType
  BY <1>1, PlanFills
<1>13. plan.amount \in Int /\ plan.remaining \in Int /\ o.amount \in Int
  BY <1>2, <1>12, OrderType DEF PlanType
<1>14. IsLimit(o) => plan.remaining = o.amount - plan.amount /\ plan.remaining >= 0
  BY <1>1 DEF Accounted, IsLimit, IsBudget
<1>15. Mirrors(mid, c)
  <2>1. CASE ~LeavesRest(o, plan)
    <3>1. ~IsLimit(o) \/ o.amount - plan.amount = 0
      BY <1>13, <1>14, <2>1 DEF LeavesRest
    <3>2. mid = red
      BY <1>10, <3>1 DEF Rest
    <3>3. QED
      BY <1>8, <1>11, <2>1, <3>2 DEF Mirrors
  <2>2. CASE LeavesRest(o, plan)
    <3>1. IsLimit(o) /\ o.amount - plan.amount > 0 /\ o.amount - plan.amount = plan.remaining
      BY <1>13, <1>14, <2>2 DEF LeavesRest
    <3>2. ASSUME NEW i \in red.orders PROVE i.id # o.id
      <4>1. PICK d : Survives(b, plan, d) /\ i = View(d)
        BY <1>8
      <4>2. PICK e \in All(b) : d = AfterTrade(plan, e)
        BY <4>1 DEF Survives
      <4>3. e \in EntryType /\ \E s \in subs : s.id = e.id
        BY <1>2, AllOwnIds
      <4>4. d.id = e.id
        BY <1>12, <4>2, <4>3, AfterTradeType DEF Reduced
      <4>5. i.id = d.id
        BY <4>1 DEF View
      <4>6. QED
        BY <4>3, <4>4, <4>5
    <3>3. PICK new : new = [id |-> o.id, pair |-> o.pair, type |-> o.type, price |-> o.price,
                            remaining |-> o.amount - plan.amount]
      OBVIOUS
    <3>4. Index(mid) /\ mid.orders = red.orders \cup {new}
      BY <1>1, <1>2, <1>8, <1>10, <1>13, <3>1, <3>2, <3>3, RestIndex
    <3>5. new = View(Resting(o, plan))
      BY <3>1, <3>3 DEF View, Resting
    <3>6. QED
      BY <1>8, <1>11, <2>2, <3>4, <3>5 DEF Mirrors
  <2>3. QED
    BY <2>1, <2>2
<1>16. rec.kind = "submitted" /\ rec.order = o /\ rec.trades = fs
  BY <1>3
<1>17. Changed(m, rec) = mid
  BY <1>6, <1>9, <1>10, <1>16 DEF Changed
<1>18. Published(Changed(m, rec), rec.order.pair, seq, ApplyRecord(m, rec, seq))
  BY <1>4, <1>16, ApplyLinks
<1>19. PICK new : new = ApplyRecord(m, rec, seq)
  OBVIOUS
<1>20. Published(mid, o.pair, seq, new)
  BY <1>16, <1>17, <1>18, <1>19
<1>21. QED
  BY <1>15, <1>19, <1>20, PublishMirrors

\* A cancellation takes its order out.
LEMMA CancelMirrors ==
    ASSUME NEW b \in TypedBooks, NEW subs, NEW cans, BookOk(b, subs, cans), NEW c, NEW e \in All(b),
           All(c) = All(b) \ {e}, NEW m, Mirrors(m, b), NEW rec \in RecordType,
           rec = [kind |-> "cancelled", order |-> e], NEW seq \in Nat
    PROVE  Mirrors(ApplyRecord(m, rec, seq), c)
<1>1. e \in EntryType /\ \A d \in All(b) : d.id = e.id => d = e
  BY AllOwnIds
<1>2. Index(m) /\ m \in MarketType
  BY DEF Mirrors, Index
<1>3. PICK v \in m.orders : v = View(e)
  BY DEF Mirrors
<1>4. v.id = e.id /\ v.remaining = e.remaining /\ e.remaining \in Int
  BY <1>1, <1>3, ViewType
<1>5. PICK mid : mid = Reduce(m, v.id, v.remaining)
  OBVIOUS
<1>6. Index(mid) /\ mid.orders = LessOf(m.orders, v, v.remaining)
  <2>1. PICK q \in Int : q = v.remaining
    BY <1>4
  <2>2. q <= v.remaining
    BY <2>1
  <2>3. QED
    BY <1>2, <1>5, <2>1, <2>2, ReduceIndex
<1>7. mid.orders = m.orders \ {v}
  BY <1>6 DEF LessOf
<1>8. ASSUME NEW i PROVE i \in mid.orders <=> \E d \in All(c) : i = View(d)
  <2>1. ASSUME i \in mid.orders PROVE \E d \in All(c) : i = View(d)
    <3>1. i \in m.orders /\ i # v
      BY <1>7, <2>1
    <3>2. PICK d \in All(b) : i = View(d)
      BY <3>1 DEF Mirrors
    <3>3. d # e
      BY <1>3, <3>1, <3>2
    <3>4. QED
      BY <3>2, <3>3
  <2>2. ASSUME NEW d \in All(c), i = View(d) PROVE i \in mid.orders
    <3>1. d \in All(b) /\ d # e
      OBVIOUS
    <3>2. i \in m.orders
      BY <2>2, <3>1 DEF Mirrors
    <3>3. d.id # e.id
      BY <1>1, <3>1
    <3>4. i.id = d.id
      BY <2>2 DEF View
    <3>5. QED
      BY <1>4, <1>7, <3>2, <3>3, <3>4
  <2>3. QED
    BY <2>1, <2>2
<1>9. Mirrors(mid, c)
  BY <1>6, <1>8 DEF Mirrors
<1>10. rec.kind = "cancelled" /\ rec.order = e
  OBVIOUS
<1>11. Changed(m, rec) = mid
  BY <1>4, <1>5, <1>10 DEF Changed
<1>12. Published(Changed(m, rec), rec.order.pair, seq, ApplyRecord(m, rec, seq))
  BY <1>2, <1>10, ApplyLinks
<1>13. PICK new : new = ApplyRecord(m, rec, seq)
  OBVIOUS
<1>14. Published(mid, e.pair, seq, new)
  BY <1>10, <1>11, <1>12, <1>13
<1>15. QED
  BY <1>9, <1>13, <1>14, PublishMirrors

-----------------------------------------------------------------------------
(* The quantity of a queue is the volume of its level.                      *)

HeldBy(q) == FoldLeft(LAMBDA sum, e : sum + e.remaining, 0, q)

\* The quantity of an entry is an integer.
LEMMA QuantityType ==
    ASSUME NEW e \in EntryType
    PROVE  e.remaining \in Int
BY ViewType

HeldStep(q, it) ==
    it = [s \in SUBSET DOMAIN q |-> IF s = {} THEN 0
                                    ELSE it[s \ {Max(s)}] + q[Max(s)].remaining]
HeldRun(q, f) ==
    /\ f \in [0..Len(q) -> Int] /\ f[0] = 0
    /\ \A k \in 1..Len(q) : f[k] = f[k - 1] + q[k].remaining

\* The quantity of a queue is collected entry by entry.
LEMMA HeldRuns ==
    ASSUME NEW q \in Seq(EntryType)
    PROVE  \E f : HeldRun(q, f) /\ HeldBy(q)
                                            = f[Len(q)]
<1>1. PICK n \in Nat : n = Len(q)
  OBVIOUS
<1>2. DOMAIN q = 1..n /\ \A k \in 1..n : q[k] \in EntryType
  BY <1>1
<1>3. PICK V : V = Int
  OBVIOUS
<1>4. PICK start \in V : start = 0
  BY <1>3
<1>5. PICK G : G = [w \in V \X (1..n) |-> w[1] + q[w[2]].remaining]
  OBVIOUS
<1>6. ASSUME NEW v \in V, NEW d \in 1..n
      PROVE  G[<<v, d>>] = v + q[d].remaining /\ G[<<v, d>>] \in V
  <2>1. G[<<v, d>>] = v + q[d].remaining
    BY <1>5
  <2>2. q[d].remaining \in Int
    <3>1. PICK e \in EntryType : e = q[d]
      BY <1>2
    <3>2. QED
      BY <3>1, QuantityType
  <2>3. QED
    BY <1>3, <2>1, <2>2
<1>7. PICK h \in [SUBSET (1..n) -> V] : Folds(n, start, G, h)
  BY <1>6, FoldExists
<1>8. ASSUME NEW x \in SUBSET (1..n)
      PROVE  h[x] = IF x = {} THEN start ELSE h[x \ {Max(x)}] + q[Max(x)].remaining
  <2>1. h[x] = IF x = {} THEN start ELSE G[<<h[x \ {Max(x)}], Max(x)>>]
    BY <1>7 DEF Folds
  <2>2. CASE x = {}
    BY <2>1, <2>2
  <2>3. CASE x # {}
    <3>1. Max(x) \in 1..n
      BY <2>3, MaxInside
    <3>2. h[x \ {Max(x)}] \in V
      OBVIOUS
    <3>3. QED
      BY <1>6, <2>1, <2>3, <3>1, <3>2
  <2>4. QED
    BY <2>2, <2>3
<1>9. HeldStep(q, h)
  <2>1. h = [x \in SUBSET (1..n) |->
               IF x = {} THEN start ELSE h[x \ {Max(x)}] + q[Max(x)].remaining]
    BY <1>8
  <2>2. QED
    BY <1>2, <1>4, <2>1 DEF HeldStep
<1>10. PICK it : it = CHOOSE g : HeldStep(q, g)
  OBVIOUS
<1>11. HeldStep(q, it)
  BY <1>9, <1>10
<1>12. HeldBy(q) = it[1..n]
  <2>1. HeldBy(q)
          = (CHOOSE g : HeldStep(q, g))[DOMAIN q]
    BY DEF HeldBy, FoldLeft, MapThenFoldSet, HeldStep
  <2>2. QED
    BY <1>2, <1>10, <2>1
<1>13. ASSUME NEW x \in SUBSET (1..n)
       PROVE  it[x] = IF x = {} THEN start ELSE it[x \ {Max(x)}] + q[Max(x)].remaining
  <2>1. PICK j : j = [s \in SUBSET DOMAIN q |-> IF s = {} THEN 0
                                    ELSE it[s \ {Max(s)}] + q[Max(s)].remaining]
    OBVIOUS
  <2>2. it = j
    BY <1>11, <2>1 DEF HeldStep
  <2>3. QED
    BY <1>2, <1>4, <2>1, <2>2
<1>14. PICK f : f = [k \in 0..n |-> it[1..k]]
  OBVIOUS
<1>15. f[0] = start
  <2>1. 1..0 = {}
    OBVIOUS
  <2>2. it[{}] = start
    BY <1>13
  <2>3. QED
    BY <1>14, <2>1, <2>2
<1>16. ASSUME NEW k \in 1..n PROVE f[k] = f[k - 1] + q[k].remaining
  <2>1. PICK x : x = 1..k
    OBVIOUS
  <2>2. x \in SUBSET (1..n) /\ k \in x /\ k - 1 \in 0..n
    BY <2>1
  <2>3. Max(x) = k /\ x \ {k} = 1..(k - 1)
    BY <2>1, MaxInside
  <2>4. it[x] = it[1..(k - 1)] + q[k].remaining
    BY <1>13, <2>2, <2>3
  <2>5. QED
    BY <1>14, <2>1, <2>2, <2>4
<1>17. \A k \in 0..n : f[k] \in V
  <2>1. PICK T : T = {k \in Nat : k \in 0..n => f[k] \in V}
    OBVIOUS
  <2>2. 0 \in T
    BY <1>15, <2>1
  <2>3. ASSUME NEW k \in Nat, k \in T PROVE k + 1 \in T
    <3>1. SUFFICES ASSUME k + 1 \in 0..n PROVE f[k + 1] \in V
      BY <2>1
    <3>2. k + 1 \in 1..n /\ (k + 1) - 1 = k /\ k \in 0..n
      BY <3>1
    <3>3. f[k + 1] = f[k] + q[k + 1].remaining /\ f[k] \in V
      BY <1>16, <2>1, <2>3, <3>2
    <3>4. PICK v \in V, d \in 1..n : v = f[k] /\ d = k + 1
      BY <3>2, <3>3
    <3>5. QED
      BY <1>6, <3>3, <3>4
  <2>4. \A k \in Nat : k \in T
    BY <2>2, <2>3, Numbers
  <2>5. QED
    BY <2>1, <2>4
<1>18. f \in [0..n -> Int]
  BY <1>3, <1>14, <1>17
<1>19. HeldBy(q) = f[n]
  BY <1>12, <1>14
<1>20. QED
  BY <1>1, <1>4, <1>15, <1>16, <1>18, <1>19 DEF HeldRun

Stacked(q, E) ==
    /\ q \in Seq(EntryType) /\ \A k \in DOMAIN q : View(q[k]) \in E
    /\ \A i \in E : \E k \in DOMAIN q : i = View(q[k])
    /\ \A j, k \in DOMAIN q : q[j].id = q[k].id => j = k

\* The index holds the entries of a queue, each once.
LEMMA QueueStack ==
    ASSUME NEW b \in TypedBooks, NEW subs, NEW cans, BookOk(b, subs, cans), NEW m, Mirrors(m, b),
           NEW p \in Pairs, NEW s \in Sides, NEW x \in Prices
    PROVE  Stacked(b[p][s].levels[x], Stack(m.orders, p, s, x))
<1>1. PICK q : q = b[p][s].levels[x]
  OBVIOUS
<1>2. q \in Seq(EntryType)
  BY <1>1 DEF TypedBooks, TypedBook, SideType
<1>3. QueueOk(subs, q, p, s, x)
  BY <1>1 DEF BookOk
<1>4. \A i, j \in DOMAIN q : q[i].id = q[j].id => i = j
  BY <1>3 DEF QueueOk
<1>5. ASSUME NEW k \in DOMAIN q PROVE View(q[k]) \in Stack(m.orders, p, s, x)
  <2>1. PICK e : e = q[k]
    OBVIOUS
  <2>2. Place(b, p, s, x, k)
    BY <1>1 DEF Place
  <2>3. e \in All(b)
    BY <1>1, <2>1, <2>2, AllArePlaced
  <2>4. Entry(subs, e, p, s, x)
    BY <1>3, <2>1 DEF QueueOk
  <2>5. e.pair = p /\ e.type = s /\ e.price = x
    BY <2>4 DEF Entry
  <2>6. View(e) \in m.orders
    BY <2>3 DEF Mirrors
  <2>7. Stands(View(e), p, s, x)
    BY <2>5 DEF Stands, View
  <2>8. QED
    BY <2>1, <2>6, <2>7 DEF Stack
<1>6. ASSUME NEW i \in Stack(m.orders, p, s, x) PROVE \E k \in DOMAIN q : i = View(q[k])
  <2>1. i \in m.orders /\ Stands(i, p, s, x)
    BY DEF Stack
  <2>2. PICK e \in All(b) : i = View(e)
    BY <2>1 DEF Mirrors
  <2>3. PICK r, t, y, k : Place(b, r, t, y, k) /\ e = b[r][t].levels[y][k]
    BY AllArePlaced
  <2>4. QueueOk(subs, b[r][t].levels[y], r, t, y)
    BY <2>3 DEF BookOk, Place
  <2>5. Entry(subs, e, r, t, y)
    BY <2>3, <2>4 DEF QueueOk, Place
  <2>6. e.pair = r /\ e.type = t /\ e.price = y
    BY <2>5 DEF Entry
  <2>7. e.pair = p /\ e.type = s /\ e.price = x
    BY <2>1, <2>2 DEF Stands, View
  <2>8. k \in DOMAIN q /\ e = q[k]
    BY <1>1, <2>3, <2>6, <2>7 DEF Place
  <2>9. QED
    BY <2>2, <2>8
<1>7. QED
  BY <1>1, <1>2, <1>4, <1>5, <1>6 DEF Stacked

\* The quantity of a level is the quantity of its queue.
LEMMA LevelIsQueue ==
    ASSUME NEW b \in TypedBooks, NEW subs, NEW cans, BookOk(b, subs, cans), NEW m, Mirrors(m, b),
           NEW p \in Pairs, NEW s \in Sides, NEW x \in Prices
    PROVE  m.levels[p][s][x] = HeldBy(b[p][s].levels[x])
<1>1. PICK q : q = b[p][s].levels[x]
  OBVIOUS
<1>2. PICK E : E = Stack(m.orders, p, s, x)
  OBVIOUS
<1>3. /\ q \in Seq(EntryType) /\ \A k \in DOMAIN q : View(q[k]) \in E
      /\ \A i \in E : \E k \in DOMAIN q : i = View(q[k])
      /\ \A j, k \in DOMAIN q : q[j].id = q[k].id => j = k
  <2>1. Stacked(q, E)
    BY <1>1, <1>2, QueueStack
  <2>2. QED
    BY <2>1 DEF Stacked
<1>4. PICK n \in Nat : n = Len(q) /\ DOMAIN q = 1..n
  BY <1>3
<1>5. PICK u : HeldRun(q, u) /\ HeldBy(q) = u[n]
  BY <1>3, <1>4, HeldRuns
<1>6. ASSUME NEW k \in 1..n PROVE q[k] \in EntryType /\ View(q[k]).id = q[k].id /\ View(q[k]).remaining = q[k].remaining
                                  /\ q[k].remaining \in Int
  <2>1. q[k] \in EntryType
    BY <1>3, <1>4
  <2>2. QED
    BY <2>1, ViewType
<1>7. PICK mk : mk = [k \in 1..n |-> View(q[k])]
  OBVIOUS
<1>8. PICK v : v = [k \in 1..n |-> q[k].remaining]
  OBVIOUS
<1>9. v \in [1..n -> Int]
  BY <1>6, <1>8
<1>10. Once(n, mk)
  BY <1>3, <1>4, <1>6, <1>7 DEF Once
<1>11. m.orders \subseteq IndexType /\ IsFiniteSet(m.orders) /\ m.levels[p][s][x] = Volume(m.orders, p, s, x)
  BY DEF Mirrors, Index, MarketType
<1>12. IsFiniteSet(E)
  <2>1. E \subseteq m.orders
    BY <1>2 DEF Stack
  <2>2. QED
    BY <1>11, <2>1, FS_Subset
<1>13. Runs(n, mk, v, E, u)
  <2>1. u \in [0..n -> Int] /\ u[0] = 0 /\ \A k \in 1..n : u[k] = u[k - 1] + q[k].remaining
    BY <1>4, <1>5 DEF HeldRun
  <2>2. \A j \in 1..n : mk[j] \in E /\ v[j] = q[j].remaining
    BY <1>3, <1>4, <1>7, <1>8
  <2>3. QED
    BY <2>1, <2>2 DEF Runs
<1>14. PICK D : D = Volumes(m.orders, p, s, x)
  OBVIOUS
<1>15. Spread(n, mk, v, E, D)
  <2>1. D = [i \in E |-> i.remaining]
    BY <1>2, <1>14 DEF Volumes
  <2>2. \A i \in E : i.remaining \in Int
    <3>1. ASSUME NEW i \in E PROVE i.remaining \in Int
      <4>1. PICK k \in 1..n : i = View(q[k])
        BY <1>3, <1>4
      <4>2. QED
        BY <1>6, <4>1
    <3>2. QED
      BY <3>1
  <2>3. D \in [E -> Int]
    BY <2>1, <2>2
  <2>4. ASSUME NEW j \in 1..n, mk[j] \in E PROVE D[mk[j]] = v[j]
    <3>1. mk[j] = View(q[j]) /\ v[j] = q[j].remaining
      BY <1>7, <1>8
    <3>2. D[mk[j]] = mk[j].remaining
      BY <2>1, <2>4
    <3>3. QED
      BY <1>6, <3>1, <3>2
  <2>5. ASSUME NEW e \in E, \A j \in 1..n : mk[j] # e PROVE FALSE
    BY <1>3, <1>4, <1>7, <2>5
  <2>6. QED
    BY <2>3, <2>4, <2>5 DEF Spread
<1>16. SumFunction(D) = u[n]
  BY <1>9, <1>10, <1>12, <1>13, <1>15, SumAlong
<1>17. QED
  BY <1>1, <1>5, <1>11, <1>14, <1>16 DEF Volume

\* The orders of a level are the entries of its queue.
LEMMA IndexIsQueue ==
    ASSUME NEW b \in TypedBooks, NEW subs, NEW cans, BookOk(b, subs, cans), NEW m, Mirrors(m, b),
           NEW p \in Pairs, NEW s \in Sides, NEW x \in Prices
    PROVE  {<<o.id, o.remaining>> : o \in Stack(m.orders, p, s, x)}
           = {<<e.id, e.remaining>> : e \in ToSet(b[p][s].levels[x])}
<1>1. PICK q : q = b[p][s].levels[x]
  OBVIOUS
<1>2. PICK E : E = Stack(m.orders, p, s, x)
  OBVIOUS
<1>3. /\ q \in Seq(EntryType) /\ \A k \in DOMAIN q : View(q[k]) \in E
      /\ \A i \in E : \E k \in DOMAIN q : i = View(q[k])
  <2>1. Stacked(q, E)
    BY <1>1, <1>2, QueueStack
  <2>2. QED
    BY <2>1 DEF Stacked
<1>4. \A k \in DOMAIN q : View(q[k]).id = q[k].id /\ View(q[k]).remaining = q[k].remaining
  BY DEF View
<1>5. PICK Q : Q = ToSet(q)
  OBVIOUS
<1>6. \A e : e \in Q <=> \E k \in DOMAIN q : e = q[k]
  BY <1>5 DEF ToSet
<1>7. ASSUME NEW e \in Q PROVE \E o \in E : o.id = e.id /\ o.remaining = e.remaining
  BY <1>3, <1>4, <1>6
<1>8. ASSUME NEW o \in E PROVE \E e \in Q : o.id = e.id /\ o.remaining = e.remaining
  BY <1>3, <1>4, <1>6
<1>9. {<<o.id, o.remaining>> : o \in E} = {<<e.id, e.remaining>> : e \in Q}
  BY <1>7, <1>8
<1>10. QED
  BY <1>1, <1>2, <1>5, <1>9

-----------------------------------------------------------------------------
(* The history of the projection ends at the books.                         *)

Tracks(recs, f, b) ==
    /\ recs \in Seq(RecordType) /\ History(recs, f) /\ Mirrors(f[Len(recs)], b)
    /\ \A k \in 0..Len(recs) : f[k].ok
TrackInv == \E f : Tracks(records, f, books)

\* The empty projection shows empty books.
LEMMA EmptyMirrors ==
    ASSUME NEW b \in TypedBooks, All(b) = {}
    PROVE  Mirrors(EmptyMarket, b)
<1>1. PICK m \in MarketType : m = EmptyMarket
  BY EmptyTyped
<1>2. m.ok /\ m.orders = {} /\ \A p \in Pairs, s \in Sides, x \in Prices : m.levels[p][s][x] = 0
  BY <1>1 DEF EmptyMarket
<1>3. IsFiniteSet({})
  BY FS_EmptySet
<1>4. ASSUME NEW p \in Pairs, NEW s \in Sides, NEW x \in Prices PROVE Volume({}, p, s, x) = 0
  <2>1. PICK v : v = Volumes({}, p, s, x)
    OBVIOUS
  <2>2. Numeric(v)
    BY <1>3, <2>1, VolumeType
  <2>3. DOMAIN v = {}
    BY <2>1 DEF Volumes, Stack
  <2>4. QED
    BY <2>1, <2>2, <2>3, SumType DEF Volume
<1>5. Index(m)
  BY <1>2, <1>3, <1>4 DEF Index
<1>6. QED
  BY <1>1, <1>2, <1>5 DEF Mirrors

\* TrackInv holds at the start.
LEMMA TrackInit == MarketInit => TrackInv
<1> SUFFICES ASSUME MarketInit PROVE TrackInv
  OBVIOUS
<1>1. Init /\ records = <<>>
  BY DEF MarketInit
<1>2. books \in TypedBooks
  BY <1>1, FundsInit DEF CoreType
<1>3. All(books) = {}
  <2>1. ASSUME NEW e \in All(books) PROVE FALSE
    <3>1. PICK p, s, x, i : Place(books, p, s, x, i)
      BY <1>2, AllArePlaced
    <3>2. books[p][s] = EmptySide
      BY <1>1, <3>1 DEF Init, EmptyBook, Sides, Place
    <3>3. QED
      BY <3>1, <3>2 DEF Place, EmptySide
  <2>2. QED
    BY <2>1
<1>4. Mirrors(EmptyMarket, books)
  BY <1>2, <1>3, EmptyMirrors
<1>5. PICK f : Worker(records, f, market, outPc, unsent, cursor, topic, joined)
  BY WorkerInit DEF WorkerInv
<1>6. records \in Seq(RecordType) /\ History(records, f)
  BY <1>5, WorkerTypes
<1>7. Len(records) = 0
  BY <1>1
<1>8. f[0] = EmptyMarket
  BY <1>6 DEF History
<1>9. EmptyMarket.ok
  BY DEF EmptyMarket
<1>10. \A k \in 0..0 : k = 0
  OBVIOUS
<1>11. Tracks(records, f, books)
  BY <1>4, <1>6, <1>7, <1>8, <1>9, <1>10 DEF Tracks
<1>12. QED
  BY <1>11 DEF TrackInv

\* A record of the journal moves the history on as its command moved the books.
LEMMA EmitsMirrors ==
    ASSUME SoundInv, SoundInv', NEW rec \in RecordType, Emits(rec), NEW m, Mirrors(m, books), NEW seq \in Nat
    PROVE  Mirrors(ApplyRecord(m, rec, seq), books')
<1>1. CoreType /\ BookInv /\ SoundBooks(books) /\ books \in TypedBooks /\ BookOk(books, submissions, cancellations)
  BY DEF SoundInv, FundsInv, BookInv, CoreType
<1>2. books' \in TypedBooks
  BY DEF SoundInv, FundsInv, CoreType
<1>3. m \in MarketType
  BY DEF Mirrors, Index
<1>4. CASE rec = NoMarket /\ books' = books
  <2>1. rec.kind = "none"
    BY <1>4 DEF NoMarket
  <2>2. ApplyRecord(m, rec, seq) = m
    BY <1>3, <2>1, ApplyLinks
  <2>3. QED
    BY <1>4, <2>2
<1>5. PICK c : c = books'
  OBVIOUS
<1>6. ASSUME NEW o, NEW side, NEW plan,
             Accepts(books, books', submissions, cancellations, o, side, plan),
             rec = [kind |-> "submitted", order |-> o, trades |-> FillsOf(plan.trades)],
             \A s \in submissions : s.id # o.id
      PROVE  Mirrors(ApplyRecord(m, rec, seq), books')
  <2>1. Accepts(books, c, submissions, cancellations, o, side, plan)
    BY <1>5, <1>6
  <2>2. Mirrors(ApplyRecord(m, rec, seq), c)
    BY <1>1, <1>6, <2>1, SubmitMirrors
  <2>3. QED
    BY <1>5, <2>2
<1>7. ASSUME NEW user, NEW pair \in Pairs, NEW s, NEW x, NEW i, NEW e, Cancelled(user, pair, s, x, i, e),
             rec = [kind |-> "cancelled", order |-> e]
      PROVE  Mirrors(ApplyRecord(m, rec, seq), books')
  <2>1. e \in All(books) /\ All(books') = All(books) \ {e}
    BY <1>1, <1>2, <1>7, CancelledEntries
  <2>2. All(c) = All(books) \ {e}
    BY <1>5, <2>1
  <2>3. Mirrors(ApplyRecord(m, rec, seq), c)
    BY <1>1, <1>7, <2>1, <2>2, CancelMirrors
  <2>4. QED
    BY <1>5, <2>3
<1>8. QED
  BY <1>4, <1>6, <1>7 DEF Emits

\* Every step keeps TrackInv.
LEMMA TrackStep ==
    ASSUME SoundInv, TrackInv, [MarketNext]_allVars
    PROVE  TrackInv'
<1>1. [Next]_vars
  BY MarketSteps
<1>2. SoundInv'
  BY <1>1, SoundStep
<1>3. CASE UNCHANGED <<vars, records>>
  BY <1>3 DEF TrackInv, vars
<1>4. ASSUME NEW rec, Journals(rec) PROVE TrackInv'
  <2>1. rec \in RecordType /\ Emits(rec) /\ records' = Append(records, rec)
    BY <1>4 DEF Journals
  <2>2. PICK f : Tracks(records, f, books)
    BY DEF TrackInv
  <2>3. PICK n \in Nat : n = Len(records)
    BY <2>2 DEF Tracks
  <2>4. records \in Seq(RecordType) /\ History(records, f) /\ Mirrors(f[n], books) /\ \A k \in 0..n : f[k].ok
    BY <2>2, <2>3 DEF Tracks
  <2>5. PICK recs : recs = Append(records, rec)
    OBVIOUS
  <2>6. PICK g : /\ History(recs, g) /\ \A k \in 0..n : g[k] = f[k]
                 /\ g[n + 1] = ApplyRecord(f[n], rec, n + 1)
    BY <2>1, <2>3, <2>4, <2>5, HistoryGrows
  <2>7. recs \in Seq(RecordType) /\ Len(recs) = n + 1
    <3>1. PICK R : R = RecordType
      OBVIOUS
    <3>2. records \in Seq(R) /\ rec \in R
      BY <2>1, <2>4, <3>1
    <3>3. recs \in Seq(R) /\ Len(recs) = n + 1
      BY <2>3, <2>5, <3>2
    <3>4. QED
      BY <3>1, <3>3
  <2>8. PICK m : m = f[n]
    OBVIOUS
  <2>81. PICK seq \in Nat : seq = n + 1
    OBVIOUS
  <2>9. Mirrors(ApplyRecord(m, rec, seq), books')
    BY <1>2, <2>1, <2>4, <2>8, EmitsMirrors
  <2>10. Mirrors(g[n + 1], books')
    BY <2>6, <2>8, <2>81, <2>9
  <2>11. g[n + 1].ok
    BY <2>10 DEF Mirrors, Index
  <2>12. \A k \in 0..(n + 1) : k \in 0..n \/ k = n + 1
    OBVIOUS
  <2>13. Tracks(recs, g, books')
    BY <2>4, <2>6, <2>7, <2>10, <2>11, <2>12 DEF Tracks
  <2>14. QED
    BY <2>1, <2>5, <2>13 DEF TrackInv
<1>5. QED
  BY <1>3, <1>4, MarketSteps

\* The worker is always somewhere on that history.
LEMMA WorkerTracks ==
    ASSUME NEW recs, NEW f, NEW g, NEW m, NEW pc, NEW un, NEW c, NEW t, NEW j, NEW b,
           Worker(recs, f, m, pc, un, c, t, j), Tracks(recs, g, b)
    PROVE  m.ok /\ (pc = "loop" /\ c = Len(recs) => Mirrors(m, b))
<1>1. PICK n \in Nat : n = Len(recs) /\ c \in 0..n /\ recs \in Seq(RecordType) /\ History(recs, f)
  BY WorkerTypes
<1>2. ASSUME NEW k \in 0..n PROVE f[k] = g[k] /\ f[k].ok
  <2>1. ReplayOf(recs, [s \in 1..k |-> s]) = f[k]
    BY <1>1, ReplayIs
  <2>2. ReplayOf(recs, [s \in 1..k |-> s]) = g[k]
    BY <1>1, ReplayIs DEF Tracks
  <2>3. g[k].ok
    BY <1>1 DEF Tracks
  <2>4. QED
    BY <2>1, <2>2, <2>3
<1>3. /\ pc \in {"replay", "baseline", "loop", "mark"}
      /\ pc = "replay" => m = EmptyMarket
      /\ pc \in {"baseline", "loop"} => m = f[c]
      /\ pc = "mark" => c < n /\ m = f[c + 1]
  BY <1>1 DEF Worker
<1>4. EmptyMarket.ok
  BY DEF EmptyMarket
<1>5. c < n => c + 1 \in 0..n
  BY <1>1
<1>6. m.ok
  BY <1>1, <1>2, <1>3, <1>4, <1>5
<1>7. ASSUME pc = "loop", c = n PROVE Mirrors(m, b)
  BY <1>1, <1>2, <1>3, <1>7 DEF Tracks
<1>8. QED
  BY <1>1, <1>6, <1>7

\* The book the public sees is the book: apply never fails, not on a replay
\* either, and a worker that has caught up shows the quantities and the
\* orders that the queues of the core hold.
THEOREM PublicBookIsTrue == MarketSpec => []PublicBookIsCoreBook
<1> DEFINE Inv == MarketInv /\ TrackInv
<1>1. MarketInit => Inv
  BY MarketInitially, TrackInit
<1>2. Inv /\ [MarketNext]_allVars => Inv'
  BY MarketStep, TrackStep DEF MarketInv
<1>3. Inv => PublicBookIsCoreBook
  <2> SUFFICES ASSUME MarketInv, TrackInv PROVE PublicBookIsCoreBook
    OBVIOUS
  <2>1. PICK f : Worker(records, f, market, outPc, unsent, cursor, topic, joined)
    BY DEF MarketInv, WorkerInv
  <2>2. PICK g : Tracks(records, g, books)
    BY DEF TrackInv
  <2>3. market.ok /\ (outPc = "loop" /\ cursor = Len(records) => Mirrors(market, books))
    BY <2>1, <2>2, WorkerTracks
  <2>4. books \in TypedBooks /\ BookOk(books, submissions, cancellations)
    BY DEF MarketInv, SoundInv, FundsInv, BookInv, CoreType
  <2>5. ASSUME CaughtUp, NEW p \in Pairs, NEW s \in Sides, NEW x \in Prices
        PROVE  /\ market.levels[p][s][x]
                  = FoldLeft(LAMBDA sum, e : sum + e.remaining, 0, books[p][s].levels[x])
               /\ {<<o.id, o.remaining>> : o \in {i \in market.orders : i.pair = p /\ i.type = s /\ i.price = x}}
                  = {<<e.id, e.remaining>> : e \in ToSet(books[p][s].levels[x])}
    <3>1. Mirrors(market, books)
      BY <2>3, <2>5 DEF CaughtUp
    <3>2. market.levels[p][s][x] = HeldBy(books[p][s].levels[x])
      BY <2>4, <3>1, LevelIsQueue
    <3>3. {<<o.id, o.remaining>> : o \in Stack(market.orders, p, s, x)}
          = {<<e.id, e.remaining>> : e \in ToSet(books[p][s].levels[x])}
      BY <2>4, <3>1, IndexIsQueue
    <3>4. QED
      BY Zenon, <3>2, <3>3 DEF HeldBy, Stack, Stands
  <2>6. QED
    BY Zenon, <2>3, <2>5 DEF PublicBookIsCoreBook
<1>4. QED
  BY <1>1, <1>2, <1>3, PTL DEF MarketSpec
===============================================================================
