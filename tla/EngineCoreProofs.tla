--------------------------- MODULE EngineCoreProofs ---------------------------
(***************************************************************************)
(* The core, for any orders, deposits, withdrawals, prices and balances.   *)
(*                                                                         *)
(* Receipts: an id has one receipt (ReceiptInv), which only moves from     *)
(* reserved to released or completed (Final).                              *)
(*                                                                         *)
(* Queues: an order has one entry at most, in the queue of its market,     *)
(* side and price, and none once it was cancelled (BookOk).  Every command *)
(* takes entries out of queues without changing their sequence (Shrinks),  *)
(* and a submission may add one at the end (SubmitMoves), of an order that *)
(* no queue has seen.                                                      *)
(*                                                                         *)
(* Plans: the folds of a submission are runs (PlanRun, SettleRun): after k *)
(* makers the plan trades only with those, at most once with each, at      *)
(* their prices, and has filled every stranger before the one it stopped   *)
(* at (Planned).  The makers come best price first, in the order of their  *)
(* queues (Visits).                                                        *)
(*                                                                         *)
(* Funds: a settlement moves what it takes from one account to another and *)
(* to the fees, so the total of an asset changes by deposits, withdrawals  *)
(* and updates alone (FundsOk).  What an entry keeps after a trade can be  *)
(* released exactly (SoundBooks), the rest of an order meets nobody it     *)
(* could still have traded with (ApartBooks), and the locked amount of an  *)
(* account is the sum of the reservations of its entries, its reserved     *)
(* withdrawals and its own locks (LockedOk).                               *)
(***************************************************************************)
EXTENDS EngineCore, AmountProofs

-----------------------------------------------------------------------------
(* Receipts of the core.                                                    *)

\* One receipt per id: two deposits, or two withdrawals, never share one.
ReceiptInv ==
    /\ \A r, s \in deposits : r.credit.id = s.credit.id => r = s
    /\ \A r, s \in withdrawals : r.funds.id = s.funds.id => r = s

\* What a step does to the receipts.
Final ==
    /\ deposits \subseteq deposits'
    /\ submissions \subseteq submissions' /\ cancellations \subseteq cancellations'
    /\ \A r \in withdrawals :
          r \in withdrawals' \/ (r.status = "reserved" /\
              \E n \in withdrawals' : n.funds = r.funds
                                      /\ n.status \in {"released", "completed"})

\* A step that leaves deposits and withdrawals alone keeps the receipts.
LEMMA ReceiptsStay ==
    ASSUME ReceiptInv, UNCHANGED <<deposits, withdrawals>>,
           submissions \subseteq submissions', cancellations \subseteq cancellations'
    PROVE  ReceiptInv' /\ Final
BY DEF ReceiptInv, Final

\* A submission keeps the receipts.
LEMMA SubmitStep ==
    ASSUME ReceiptInv, NEW o, Submit(o)
    PROVE  ReceiptInv' /\ Final
<1>1. UNCHANGED <<deposits, withdrawals, cancellations>> /\ submissions \subseteq submissions'
  BY DEF Submit, vars
<1>2. QED
  BY <1>1, ReceiptsStay

\* A cancellation keeps the receipts.
LEMMA CancelStep ==
    ASSUME ReceiptInv, NEW id, NEW user, NEW pair, Cancel(id, user, pair)
    PROVE  ReceiptInv' /\ Final
<1>1. UNCHANGED <<deposits, withdrawals, submissions>> /\ cancellations \subseteq cancellations'
  BY DEF Cancel, vars
<1>2. QED
  BY <1>1, ReceiptsStay

\* A credit is for a new id, or changes nothing.
LEMMA CreditStep ==
    ASSUME ReceiptInv, NEW d, CreditDeposit(d)
    PROVE  ReceiptInv' /\ Final
<1>1. CASE UNCHANGED vars
  BY <1>1, ReceiptsStay DEF vars
<1>2. CASE ~ UNCHANGED vars
  <2>1. PICK f : deposits' = deposits \cup {[credit |-> d, rejected |-> f]}
    BY <1>2 DEF CreditDeposit
  <2>2. \A r \in deposits : r.credit.id # d.id
    BY <1>2 DEF CreditDeposit
  <2>3. UNCHANGED <<submissions, cancellations, withdrawals>>
    BY <1>2 DEF CreditDeposit
  <2>4. [credit |-> d, rejected |-> f].credit = d
    OBVIOUS
  <2>5. QED
    BY <2>1, <2>2, <2>3, <2>4, Zenon DEF ReceiptInv, Final
<1>3. QED
  BY <1>1, <1>2

\* A withdrawal command writes the receipt of its id, or changes nothing.
Written(w, action, status) ==
    /\ MayWithdraw(w, action)
    /\ withdrawals' = (withdrawals \ Receipts(w.id)) \cup {[funds |-> w, status |-> status]}
    /\ UNCHANGED <<deposits, submissions, cancellations>>
    /\ status = Result(action) \/ (action = "reserve" /\ status = "rejected")

\* A withdrawal command that changes anything writes one receipt.
LEMMA WithdrawWrites ==
    ASSUME NEW w, NEW action \in {"reserve", "release", "complete"}, Withdraw(w, action), ~ UNCHANGED vars
    PROVE  \E status : Written(w, action, status)
BY DEF Withdraw, Written

\* Only a reserved withdrawal moves, and to an end.
LEMMA WithdrawStep ==
    ASSUME ReceiptInv, NEW w, NEW action \in {"reserve", "release", "complete"}, Withdraw(w, action)
    PROVE  ReceiptInv' /\ Final
<1>1. CASE UNCHANGED vars
  BY <1>1, ReceiptsStay DEF vars
<1>2. CASE ~ UNCHANGED vars
  <2>1. PICK status : Written(w, action, status)
    BY <1>2, WithdrawWrites
  <2>2. PICK n : n = [funds |-> w, status |-> status]
    OBVIOUS
  <2>3. n.funds = w /\ n.status = status
    BY <2>2
  <2>4. withdrawals' = {r \in withdrawals : r.funds.id # w.id} \cup {n}
    BY <2>1, <2>2 DEF Written, Receipts
  <2>5. UNCHANGED <<deposits, submissions, cancellations>>
    BY <2>1 DEF Written
  <2>6. ReceiptInv'
    BY <2>3, <2>4, <2>5, Zenon DEF ReceiptInv
  <2>7. ASSUME NEW r \in withdrawals, r \notin withdrawals'
        PROVE  r.status = "reserved" /\ n.funds = r.funds /\ n.status \in {"released", "completed"}
    <3>1. r \in Receipts(w.id)
      BY <2>4, <2>7 DEF Receipts
    <3>2. PICK s \in Receipts(w.id) : s.funds = w /\ s.status = "reserved" /\ action # "reserve"
      BY <2>1, <3>1 DEF Written, MayWithdraw
    <3>3. r = s
      BY <3>1, <3>2 DEF ReceiptInv, Receipts
    <3>4. status \in {"released", "completed"}
      BY <2>1, <3>2 DEF Written, Result
    <3>5. QED
      BY <2>3, <3>2, <3>3, <3>4
  <2>8. QED
    BY <2>4, <2>5, <2>6, <2>7 DEF Final
<1>3. QED
  BY <1>1, <1>2

\* The balance commands keep the receipts.
LEMMA BalanceStep ==
    ASSUME ReceiptInv, NEW a, NEW v,
           Balance(a, v) \/ LockBalance(a, v) \/ UnlockBalance(a, v)
    PROVE  ReceiptInv' /\ Final
<1>1. UNCHANGED <<deposits, withdrawals, submissions, cancellations>>
  BY DEF Balance, LockBalance, UnlockBalance
<1>2. QED
  BY <1>1, ReceiptsStay

\* Nothing rewrites a receipt, whatever the sequence of commands: first
\* content and first result of a deposit, the submission index, the
\* cancellations, and a withdrawal that was rejected, released or completed.
THEOREM ReceiptsStayFinal == Spec => ReceiptsAreFinal
<1>1. Init => ReceiptInv
  BY DEF Init, ReceiptInv
<1>2. ReceiptInv /\ [Next]_vars => ReceiptInv' /\ Final
  <2> SUFFICES ASSUME ReceiptInv, [Next]_vars PROVE ReceiptInv' /\ Final
    OBVIOUS
  <2>1. CASE UNCHANGED vars
    BY <2>1, ReceiptsStay DEF vars
  <2>2. CASE Next
    BY <2>2, SubmitStep, CancelStep, CreditStep, WithdrawStep, BalanceStep, Zenon
    DEF Next
  <2>3. QED
    BY <2>1, <2>2
<1>3. QED
  BY <1>1, <1>2, PTL DEF Spec, ReceiptsAreFinal, Final

-----------------------------------------------------------------------------
(* Queues.                                                                  *)

\* The rank of a position among those that are kept.
Rank(kept, i) == Cardinality({j \in kept : j <= i})

\* The rank of a kept position grows with the position.
LEMMA RankGrows ==
    ASSUME NEW n \in Nat, NEW kept \in SUBSET (1..n), NEW i \in kept
    PROVE  /\ IsFiniteSet(kept) /\ Cardinality(kept) \in Nat
           /\ Rank(kept, i) \in 1..Cardinality(kept)
           /\ \A j \in kept : i < j => Rank(kept, i) < Rank(kept, j)
<1> DEFINE upTo(x) == {j \in kept : j <= x}
<1>1. IsFiniteSet(kept) /\ Cardinality(kept) \in Nat
  <2>1. IsFiniteSet(1..n)
    BY FS_Interval
  <2>2. IsFiniteSet(kept)
    BY <2>1, FS_Subset
  <2>3. QED
    BY <2>2, FS_CardinalityType
<1>2. ASSUME NEW x \in kept
      PROVE  IsFiniteSet(upTo(x)) /\ Cardinality(upTo(x)) \in Nat
             /\ Cardinality(upTo(x)) <= Cardinality(kept)
  <2>1. upTo(x) \in SUBSET kept
    OBVIOUS
  <2> HIDE DEF upTo
  <2>2. IsFiniteSet(upTo(x)) /\ Cardinality(upTo(x)) <= Cardinality(kept)
    BY <1>1, <2>1, FS_Subset
  <2>3. QED
    BY <2>2, FS_CardinalityType
<1>3. Cardinality(upTo(i)) # 0
  <2>1. i \in upTo(i)
    OBVIOUS
  <2> HIDE DEF upTo
  <2>2. QED
    BY <1>2, <2>1, FS_EmptySet
<1>4. ASSUME NEW j \in kept, i < j PROVE Cardinality(upTo(i)) < Cardinality(upTo(j))
  <2>1. upTo(i) \in SUBSET upTo(j) /\ j \in upTo(j) /\ j \notin upTo(i)
    <3>1. i \in Int /\ j \in Int /\ \A x \in kept : x \in Int
      OBVIOUS
    <3>2. j \in upTo(j) /\ j \notin upTo(i)
      BY <1>4, <3>1
    <3>3. \A x \in upTo(i) : x \in upTo(j)
      BY <1>4, <3>1
    <3>4. QED
      BY <3>2, <3>3
  <2> HIDE DEF upTo
  <2>2. /\ Cardinality(upTo(i)) <= Cardinality(upTo(j))
        /\ Cardinality(upTo(j)) = Cardinality(upTo(i)) => upTo(j) = upTo(i)
    BY <1>2, <2>1, FS_Subset
  <2>3. QED
    BY <1>2, <2>1, <2>2
<1>5. QED
  BY <1>1, <1>2, <1>3, <1>4 DEF Rank

\* Every rank is taken, so Keep takes each kept position once and in order.
LEMMA NthIsKept ==
    ASSUME NEW n \in Nat, NEW kept \in SUBSET (1..n)
    PROVE  /\ Cardinality(kept) \in Nat
           /\ \A k \in 1..Cardinality(kept) : Nth(kept, k) \in kept /\ Rank(kept, Nth(kept, k)) = k
           /\ \A k, m \in 1..Cardinality(kept) : k < m => Nth(kept, k) < Nth(kept, m)
<1>1. IsFiniteSet(kept) /\ Cardinality(kept) \in Nat
  <2>1. IsFiniteSet(1..n)
    BY FS_Interval
  <2>2. IsFiniteSet(kept)
    BY <2>1, FS_Subset
  <2>3. QED
    BY <2>2, FS_CardinalityType
<1>2. PICK size \in Nat : size = Cardinality(kept)
  BY <1>1
<1>3. \A i \in kept : Rank(kept, i) \in 1..size
  BY <1>2, RankGrows
<1>4. \A i, j \in kept : i < j => Rank(kept, i) < Rank(kept, j)
  BY RankGrows
<1>5. PICK f : f = [i \in kept |-> Rank(kept, i)]
  OBVIOUS
<1>6. f \in Injection(kept, 1..size)
  <2>1. \A i, j \in kept : f[i] = f[j] => i = j
    <3> SUFFICES ASSUME NEW i \in kept, NEW j \in kept, f[i] = f[j] PROVE i = j
      OBVIOUS
    <3>1. i \in Int /\ j \in Int /\ f[i] \in Int /\ f[j] \in Int
      BY <1>3, <1>5
    <3>2. ~(i < j) /\ ~(j < i)
      BY <1>4, <1>5, <3>1
    <3>3. QED
      BY <3>1, <3>2
  <2>2. f \in [kept -> 1..size]
    BY <1>3, <1>5
  <2>3. QED
    BY <2>1, <2>2 DEF Injection, IsInjective
<1>7. IsFiniteSet(1..size) /\ Cardinality(1..size) = size
  BY FS_Interval
<1>8. f \in Surjection(kept, 1..size)
  BY <1>2, <1>6, <1>7, FS_Injection
<1>9. ASSUME NEW k \in 1..size PROVE Nth(kept, k) \in kept /\ Rank(kept, Nth(kept, k)) = k
  <2>1. \E i \in kept : Rank(kept, i) = k
    BY <1>5, <1>8 DEF Surjection
  <2>2. QED
    BY <2>1 DEF Nth, Rank
<1>10. ASSUME NEW k \in 1..size, NEW m \in 1..size, k < m PROVE Nth(kept, k) < Nth(kept, m)
  <2>1. PICK a \in kept : a = Nth(kept, k) /\ Rank(kept, a) = k
    BY <1>9
  <2>2. PICK b \in kept : b = Nth(kept, m) /\ Rank(kept, b) = m
    BY <1>9
  <2>3. a \in Int /\ b \in Int
    OBVIOUS
  <2>4. a # b /\ ~(b < a)
    BY <1>4, <1>10, <2>1, <2>2, <2>3
  <2>5. QED
    BY <2>1, <2>2, <2>3, <2>4
<1>11. QED
  BY <1>1, <1>2, <1>9, <1>10

\* A queue, and the entries that say which order they are part of.
Queue(q) == q \in Seq(ToSet(q))
Named(e) == {"id", "user", "pair", "type", "price"} \subseteq DOMAIN e
SameOrder(m, e) ==
    /\ Named(m) => Named(e)
    /\ Named(m) => /\ e.id = m.id /\ e.user = m.user /\ e.pair = m.pair
                   /\ e.type = m.type /\ e.price = m.price

\* A queue from which entries left: the others are the same orders and keep
\* their sequence.
Shrinks(q, new) ==
    /\ Queue(new)
    /\ \E f \in [DOMAIN new -> DOMAIN q] :
          /\ \A k, m \in DOMAIN new : k < m => f[k] < f[m]
          /\ \A k \in DOMAIN new : SameOrder(q[f[k]], new[k])

\* The positions of a queue.
LEMMA QueueDomain ==
    ASSUME NEW q, Queue(q)
    PROVE  Len(q) \in Nat /\ DOMAIN q = 1..Len(q)
BY DEF Queue

\* A function on 1..n is a queue.
LEMMA FunctionIsQueue ==
    ASSUME NEW n \in Nat, NEW q, q = [i \in 1..n |-> q[i]]
    PROVE  Queue(q) /\ Len(q) = n /\ DOMAIN q = 1..n
<1>1. DOMAIN q = 1..n
  OBVIOUS
<1>2. q \in [1..n -> ToSet(q)]
  BY <1>1 DEF ToSet
<1>3. q \in Seq(ToSet(q))
  BY <1>2
<1>4. QED
  BY <1>1, <1>3 DEF Queue

\* A sequence is a queue.
LEMMA SeqIsQueue ==
    ASSUME NEW S, NEW q \in Seq(S)
    PROVE  Queue(q) /\ Len(q) \in Nat /\ DOMAIN q = 1..Len(q)
<1>1. Len(q) \in Nat /\ DOMAIN q = 1..Len(q) /\ q = [i \in 1..Len(q) |-> q[i]]
  OBVIOUS
<1>2. QED
  BY <1>1, FunctionIsQueue

\* A queue is a part of itself.
LEMMA UnchangedShrinks ==
    ASSUME NEW q, Queue(q)
    PROVE  Shrinks(q, q)
<1>1. PICK f : f = [k \in DOMAIN q |-> k]
  OBVIOUS
<1>2. f \in [DOMAIN q -> DOMAIN q] /\ \A k \in DOMAIN q : f[k] = k
  BY <1>1
<1>3. QED
  BY <1>2 DEF Shrinks, SameOrder

\* Keep takes some entries and leaves their sequence.
LEMMA KeepSelects ==
    ASSUME NEW q, Queue(q), NEW kept \in SUBSET DOMAIN q
    PROVE  /\ Queue(Keep(q, kept))
           /\ \E f \in [DOMAIN Keep(q, kept) -> kept] :
                /\ \A k, m \in DOMAIN Keep(q, kept) : k < m => f[k] < f[m]
                /\ \A k \in DOMAIN Keep(q, kept) : Keep(q, kept)[k] = q[f[k]]
<1>1. Len(q) \in Nat /\ DOMAIN q = 1..Len(q)
  BY QueueDomain
<1>2. PICK size \in Nat : size = Cardinality(kept)
  BY <1>1, NthIsKept
<1>3. /\ \A k \in 1..size : Nth(kept, k) \in kept
      /\ \A k, m \in 1..size : k < m => Nth(kept, k) < Nth(kept, m)
  BY <1>1, <1>2, NthIsKept
<1>4. PICK new : new = Keep(q, kept)
  OBVIOUS
<1>5. new = [k \in 1..size |-> q[Nth(kept, k)]]
  BY <1>2, <1>4 DEF Keep
<1>6. new = [k \in 1..size |-> new[k]] /\ DOMAIN new = 1..size
  BY <1>5
<1>7. Queue(new)
  BY <1>6, FunctionIsQueue
<1>8. PICK f : f = [k \in 1..size |-> Nth(kept, k)]
  OBVIOUS
<1>9. f \in [DOMAIN new -> kept] /\ \A k \in DOMAIN new : f[k] = Nth(kept, k)
  BY <1>3, <1>6, <1>8
<1>10. \A k \in DOMAIN new : new[k] = q[f[k]]
  BY <1>5, <1>6, <1>9
<1>11. QED
  BY <1>3, <1>4, <1>6, <1>7, <1>9, <1>10

\* A trade changes the quantities of a maker, not what order it is.
LEMMA TradeKeepsOrder ==
    ASSUME NEW plan, NEW m
    PROVE  SameOrder(m, AfterTrade(plan, m))
<1>1. CASE Traded(plan, m)
  <2>1. PICK left : left = m.remaining - TradedQty(plan, m)
    OBVIOUS
  <2>2. PICK done : done = m.filled + TradedQty(plan, m)
    OBVIOUS
  <2>4. PICK e : e = [m EXCEPT !.remaining = left, !.filled = done]
    OBVIOUS
  <2>6. SameOrder(m, e)
    BY <2>4 DEF SameOrder, Named
  <2>7. AfterTrade(plan, m) = e
    BY <1>1, <2>1, <2>2, <2>4 DEF AfterTrade
  <2>8. QED
    BY <2>6, <2>7
<1>2. CASE ~Traded(plan, m)
  BY <1>2 DEF AfterTrade, SameOrder
<1>3. QED
  BY <1>1, <1>2

-----------------------------------------------------------------------------
(* Books.                                                                   *)

ShapedSide(side) ==
    DOMAIN side.levels = Prices /\ \A x \in Prices : Queue(side.levels[x])
Shaped(b) ==
    /\ DOMAIN b = Pairs
    /\ \A p \in Pairs : DOMAIN b[p] = Sides /\ \A s \in Sides : ShapedSide(b[p][s])

\* apply_prepared_orders.
LEMMA PreparedSide ==
    ASSUME NEW side, ShapedSide(side), NEW plan
    PROVE  /\ ShapedSide(ApplyPrepared(side, plan))
           /\ \A x \in Prices : Shrinks(side.levels[x], ApplyPrepared(side, plan).levels[x])
<1>1. PICK new : new = ApplyPrepared(side, plan)
  OBVIOUS
<1>2. DOMAIN new.levels = Prices
  BY <1>1 DEF ApplyPrepared
<1>3. ASSUME NEW x \in Prices PROVE Shrinks(side.levels[x], new.levels[x])
  <2>1. PICK q : q = side.levels[x]
    OBVIOUS
  <2>2. Queue(q) /\ Len(q) \in Nat /\ DOMAIN q = 1..Len(q)
    BY <2>1, QueueDomain DEF ShapedSide
  <2>3. PICK t : t = [i \in DOMAIN q |-> AfterTrade(plan, q[i])]
    OBVIOUS
  <2>4. t = [i \in 1..Len(q) |-> t[i]] /\ \A i \in DOMAIN q : t[i] = AfterTrade(plan, q[i])
    BY <2>2, <2>3
  <2>5. Queue(t) /\ DOMAIN t = DOMAIN q
    BY <2>2, <2>4, FunctionIsQueue
  <2>6. PICK kept \in SUBSET DOMAIN t : kept = {i \in DOMAIN t : t[i].remaining > 0}
    OBVIOUS
  <2>7. new.levels[x] = Keep(t, kept)
    BY <1>1, <2>1, <2>3, <2>6 DEF ApplyPrepared
  <2>8. PICK r : r = Keep(t, kept)
    OBVIOUS
  <2>9. Queue(r)
    BY <2>5, <2>8, KeepSelects
  <2>10. PICK f \in [DOMAIN r -> kept] :
            /\ \A k, m \in DOMAIN r : k < m => f[k] < f[m]
            /\ \A k \in DOMAIN r : r[k] = t[f[k]]
    BY <2>5, <2>8, KeepSelects
  <2>11. ASSUME NEW k \in DOMAIN r PROVE SameOrder(q[f[k]], r[k])
    <3>1. f[k] \in DOMAIN q /\ r[k] = t[f[k]]
      BY <2>5, <2>10
    <3>2. PICK m : m = q[f[k]]
      OBVIOUS
    <3>3. r[k] = AfterTrade(plan, m)
      BY <2>4, <3>1, <3>2
    <3>4. QED
      BY <3>2, <3>3, TradeKeepsOrder
  <2>12. f \in [DOMAIN r -> DOMAIN q]
    BY <2>5, <2>10
  <2>13. Shrinks(q, r)
    BY <2>9, <2>10, <2>11, <2>12 DEF Shrinks
  <2>14. QED
    BY <2>1, <2>7, <2>8, <2>13
<1>4. QED
  BY <1>1, <1>2, <1>3 DEF ShapedSide, Shrinks

\* remove_order.
Removed(side, e, new) ==
    /\ ShapedSide(new)
    /\ \A x \in Prices : Shrinks(side.levels[x], new.levels[x])
    /\ \A x \in Prices : x = e.price =>
          \A k \in DOMAIN new.levels[x] : new.levels[x][k].id # e.id

\* What remove_order leaves.
LEMMA RemovedSide ==
    ASSUME NEW side, ShapedSide(side), NEW e
    PROVE  Removed(side, e, RemoveOrder(side, e))
<1>1. PICK new : new = RemoveOrder(side, e)
  OBVIOUS
<1>2. DOMAIN new.levels = Prices
  BY <1>1 DEF RemoveOrder, ShapedSide
<1>3. ASSUME NEW x \in Prices, x # e.price PROVE Shrinks(side.levels[x], new.levels[x])
  <2>1. new.levels[x] = side.levels[x]
    BY <1>1, <1>3 DEF RemoveOrder, ShapedSide
  <2>2. QED
    BY <2>1, UnchangedShrinks DEF ShapedSide
<1>4. ASSUME NEW x \in Prices, x = e.price
      PROVE  /\ Shrinks(side.levels[x], new.levels[x])
             /\ \A k \in DOMAIN new.levels[x] : new.levels[x][k].id # e.id
  <2>1. PICK q : q = side.levels[x]
    OBVIOUS
  <2>2. Queue(q)
    BY <2>1 DEF ShapedSide
  <2>3. PICK kept \in SUBSET DOMAIN q : kept = {i \in DOMAIN q : q[i].id # e.id}
    OBVIOUS
  <2>4. PICK r : r = Keep(q, kept)
    OBVIOUS
  <2>5. new.levels[x] = r
    BY <1>1, <1>4, <2>1, <2>3, <2>4 DEF RemoveOrder, ShapedSide
  <2>6. Queue(r)
    BY <2>2, <2>4, KeepSelects
  <2>7. PICK f \in [DOMAIN r -> kept] :
            /\ \A k, m \in DOMAIN r : k < m => f[k] < f[m]
            /\ \A k \in DOMAIN r : r[k] = q[f[k]]
    BY <2>2, <2>4, KeepSelects
  <2>8. f \in [DOMAIN r -> DOMAIN q]
    BY <2>7
  <2>9. Shrinks(q, r)
    BY <2>6, <2>7, <2>8 DEF Shrinks, SameOrder
  <2>10. \A k \in DOMAIN r : r[k].id # e.id
    BY <2>3, <2>7
  <2>11. QED
    BY <2>1, <2>5, <2>9, <2>10
<1>5. Removed(side, e, new)
  BY <1>1, <1>2, <1>3, <1>4 DEF Removed, ShapedSide, Shrinks
<1>6. QED
  BY <1>1, <1>5

\* add_order.
Added(side, e, new) ==
    /\ ShapedSide(new)
    /\ \A x \in Prices :
          new.levels[x] = IF x = e.price THEN Append(side.levels[x], e) ELSE side.levels[x]

\* What add_order adds.
LEMMA AddedSide ==
    ASSUME NEW side, ShapedSide(side), NEW e
    PROVE  Added(side, e, AddOrder(side, e))
<1>1. PICK new : new = AddOrder(side, e)
  OBVIOUS
<1>2. DOMAIN new.levels = Prices
  BY <1>1 DEF AddOrder, ShapedSide
<1>3. ASSUME NEW x \in Prices
      PROVE  new.levels[x] = IF x = e.price THEN Append(side.levels[x], e) ELSE side.levels[x]
  BY <1>1, <1>3 DEF AddOrder, ShapedSide
<1>4. ASSUME NEW x \in Prices PROVE Queue(new.levels[x])
  <2>1. CASE x = e.price
    <3>1. PICK q : q = side.levels[x]
      OBVIOUS
    <3>2. Queue(q)
      BY <3>1 DEF ShapedSide
    <3>3. PICK S : S = ToSet(q) \cup {e}
      OBVIOUS
    <3>4. q \in Seq(S) /\ e \in S
      BY <3>2, <3>3 DEF Queue
    <3>5. PICK r : r = Append(q, e)
      OBVIOUS
    <3>6. r \in Seq(S) /\ Len(r) \in Nat
      BY <3>4, <3>5
    <3>7. Queue(r)
      BY <3>6, SeqIsQueue
    <3>8. QED
      BY <1>3, <2>1, <3>1, <3>5, <3>7
  <2>2. CASE x # e.price
    BY <1>3, <2>2 DEF ShapedSide
  <2>3. QED
    BY <2>1, <2>2
<1>5. Added(side, e, new)
  BY Zenon, <1>1, <1>2, <1>3, <1>4 DEF Added, ShapedSide
<1>6. QED
  BY <1>1, <1>5

\* What a submission does to the queues: entries leave, and the rest of the
\* order joins the end of the queue at its price.
Rested(o, e) ==
    /\ Named(e) /\ e.id = o.id /\ e.user = o.user /\ e.pair = o.pair
    /\ e.type = o.type /\ e.price = o.price
SubmitMoves(b, o, c) ==
    /\ Shaped(c)
    /\ \A p \in Pairs, s \in Sides, x \in Prices :
          \/ Shrinks(b[p][s].levels[x], c[p][s].levels[x])
          \/ /\ p = o.pair /\ s = o.type /\ x = o.price
             /\ \E e : Rested(o, e) /\ c[p][s].levels[x] = Append(b[p][s].levels[x], e)

\* What a submission moves in the books, whatever the plan.
LEMMA SubmitBooks ==
    ASSUME NEW b, Shaped(b), NEW o \in Orders, NEW plan, NEW c,
           c = [b EXCEPT ![o.pair] = CommitBook(b[o.pair], o, plan)]
    PROVE  SubmitMoves(b, o, c)
<1>1. PICK book : book = b[o.pair]
  OBVIOUS
<1>2. /\ o.pair \in Pairs /\ o.type \in Sides /\ Opposite(o) \in Sides
      /\ Opposite(o) # o.type
  BY CoreAssumption DEF Sides, Opposite, IsBuy
<1>3. DOMAIN book = Sides /\ \A s \in Sides : ShapedSide(book[s])
  BY <1>1, <1>2 DEF Shaped
<1>4. PICK makers : makers = [book EXCEPT ![Opposite(o)] = ApplyPrepared(book[Opposite(o)], plan)]
  OBVIOUS
<1>5. DOMAIN makers = Sides /\ \A s \in Sides :
        /\ ShapedSide(makers[s])
        /\ \A x \in Prices : Shrinks(book[s].levels[x], makers[s].levels[x])
        /\ s = o.type => makers[s] = book[s]
  <2>1. DOMAIN makers = Sides
    BY <1>3, <1>4
  <2>2. makers[Opposite(o)] = ApplyPrepared(book[Opposite(o)], plan)
    BY <1>2, <1>3, <1>4
  <2>3. \A s \in Sides : s # Opposite(o) => makers[s] = book[s]
    BY <1>3, <1>4
  <2>4. ASSUME NEW s \in Sides, s # Opposite(o)
        PROVE  ShapedSide(book[s]) /\ \A x \in Prices : Shrinks(book[s].levels[x], book[s].levels[x])
    BY <1>3, UnchangedShrinks DEF ShapedSide
  <2>5. /\ ShapedSide(makers[Opposite(o)])
        /\ \A x \in Prices : Shrinks(book[Opposite(o)].levels[x], makers[Opposite(o)].levels[x])
    BY <1>2, <1>3, <2>2, PreparedSide
  <2>6. QED
    BY <1>2, <2>1, <2>3, <2>4, <2>5
<1>6. PICK rest : rest = Resting(o, plan)
  OBVIOUS
<1>7. Rested(o, rest)
  BY <1>6 DEF Rested, Resting, Named
<1>8. PICK new : new = CommitBook(book, o, plan)
  OBVIOUS
<1>9. new = makers \/ new = [makers EXCEPT ![o.type] = AddOrder(makers[o.type], rest)]
  BY <1>4, <1>6, <1>8 DEF CommitBook
<1>10. /\ DOMAIN new = Sides
       /\ \A s \in Sides :
            /\ ShapedSide(new[s])
            /\ \A x \in Prices :
                  \/ Shrinks(book[s].levels[x], new[s].levels[x])
                  \/ /\ s = o.type /\ x = o.price
                     /\ new[s].levels[x] = Append(book[s].levels[x], rest)
  <2>1. CASE new = makers
    BY <1>5, <2>1
  <2>2. CASE new = [makers EXCEPT ![o.type] = AddOrder(makers[o.type], rest)]
    <3>1. DOMAIN new = Sides /\ \A s \in Sides : s # o.type => new[s] = makers[s]
      BY <1>5, <2>2
    <3>2. new[o.type] = AddOrder(book[o.type], rest)
      BY <1>2, <1>5, <2>2
    <3>3. /\ ShapedSide(new[o.type])
          /\ \A x \in Prices : new[o.type].levels[x] =
                IF x = rest.price THEN Append(book[o.type].levels[x], rest)
                ELSE book[o.type].levels[x]
      <4>1. PICK old : old = book[o.type]
        OBVIOUS
      <4>2. PICK added : added = AddOrder(old, rest)
        OBVIOUS
      <4>3. ShapedSide(old)
        BY <1>2, <1>3, <4>1
      <4>4. /\ ShapedSide(added)
            /\ \A x \in Prices : added.levels[x] =
                  IF x = rest.price THEN Append(old.levels[x], rest) ELSE old.levels[x]
        <5>1. Added(old, rest, added)
          BY <4>2, <4>3, AddedSide
        <5>2. QED
          BY <5>1 DEF Added
      <4>5. QED
        BY <3>2, <4>1, <4>2, <4>4
    <3>4. rest.price = o.price
      BY <1>7 DEF Rested
    <3>5. \A x \in Prices : Shrinks(book[o.type].levels[x], book[o.type].levels[x])
      BY <1>2, <1>3, UnchangedShrinks DEF ShapedSide
    <3>6. QED
      BY <1>5, <3>1, <3>3, <3>4, <3>5
  <2>3. QED
    BY <1>9, <2>1, <2>2
<1>11. DOMAIN c = Pairs /\ c[o.pair] = new /\ \A p \in Pairs : p # o.pair => c[p] = b[p]
  BY <1>1, <1>2, <1>8 DEF Shaped
<1>12. Shaped(c)
  BY <1>10, <1>11 DEF Shaped
<1>13. \A p \in Pairs, s \in Sides, x \in Prices : Shrinks(b[p][s].levels[x], b[p][s].levels[x])
  BY Zenon, UnchangedShrinks DEF Shaped, ShapedSide
<1>14. ASSUME NEW p \in Pairs, NEW s \in Sides, NEW x \in Prices
       PROVE  \/ Shrinks(b[p][s].levels[x], c[p][s].levels[x])
              \/ /\ p = o.pair /\ s = o.type /\ x = o.price
                 /\ \E e : Rested(o, e) /\ c[p][s].levels[x] = Append(b[p][s].levels[x], e)
  <2>1. CASE p # o.pair
    BY Zenon, <1>11, <1>13, <2>1
  <2>2. CASE p = o.pair
    <3>1. b[p] = book /\ c[p] = new
      BY Zenon, <1>1, <1>11, <2>2
    <3>2. CASE Shrinks(book[s].levels[x], new[s].levels[x])
      BY Zenon, <3>1, <3>2
    <3>3. CASE /\ s = o.type /\ x = o.price
               /\ new[s].levels[x] = Append(book[s].levels[x], rest)
      BY Zenon, <1>7, <2>2, <3>1, <3>3
    <3>4. QED
      BY <1>10, <3>2, <3>3
  <2>3. QED
    BY <2>1, <2>2
<1>15. QED
  BY <1>12, <1>14 DEF SubmitMoves

\* What a cancellation does to the queues: the order is gone from its queue.
CancelMoves(b, pair, e, c) ==
    /\ Shaped(c)
    /\ \A p \in Pairs, s \in Sides, x \in Prices :
          Shrinks(b[p][s].levels[x], c[p][s].levels[x])
    /\ \A x \in Prices : x = e.price =>
          \A k \in DOMAIN c[pair][e.type].levels[x] : c[pair][e.type].levels[x][k].id # e.id

\* What a cancellation moves in the books.
LEMMA CancelBooks ==
    ASSUME NEW b, Shaped(b), NEW pair \in Pairs, NEW e, e.type \in Sides, NEW c,
           c = [b EXCEPT ![pair][e.type] = RemoveOrder(@, e)]
    PROVE  CancelMoves(b, pair, e, c)
<1>1. PICK book : book = b[pair]
  OBVIOUS
<1>2. DOMAIN book = Sides /\ \A s \in Sides : ShapedSide(book[s])
  BY <1>1 DEF Shaped
<1>3. PICK new : new = [book EXCEPT ![e.type] = RemoveOrder(book[e.type], e)]
  OBVIOUS
<1>4. c = [b EXCEPT ![pair] = new]
  BY <1>1, <1>3 DEF Shaped
<1>5. /\ DOMAIN new = Sides /\ new[e.type] = RemoveOrder(book[e.type], e)
      /\ \A s \in Sides : s # e.type => new[s] = book[s]
  BY <1>2, <1>3
<1>6. PICK old : old = book[e.type]
  OBVIOUS
<1>7. PICK left : left = RemoveOrder(old, e)
  OBVIOUS
<1>8. ShapedSide(old) /\ new[e.type] = left
  BY <1>2, <1>5, <1>6, <1>7
<1>9. Removed(old, e, left)
  BY <1>7, <1>8, RemovedSide
<1>10. \A p \in Pairs, s \in Sides, x \in Prices : Shrinks(b[p][s].levels[x], b[p][s].levels[x])
  BY UnchangedShrinks DEF Shaped, ShapedSide
<1>11. DOMAIN c = Pairs /\ c[pair] = new /\ \A p \in Pairs : p # pair => c[p] = b[p]
  BY <1>4 DEF Shaped
<1>12. Shaped(c)
  BY <1>2, <1>5, <1>8, <1>9, <1>11 DEF Shaped, Removed
<1>13. QED
  BY <1>1, <1>5, <1>6, <1>8, <1>9, <1>10, <1>11, <1>12 DEF CancelMoves, Removed

\* What the books say of the orders: an entry is where its order belongs and
\* is the only one of it, and what was cancelled does not rest.
Entry(subs, e, p, s, x) ==
    e.pair = p /\ e.type = s /\ e.price = x /\ \E o \in subs : Rested(o, e)
QueueOk(subs, q, p, s, x) ==
    /\ Queue(q)
    /\ \A i \in DOMAIN q : Entry(subs, q[i], p, s, x)
    /\ \A i, j \in DOMAIN q : q[i].id = q[j].id => i = j
Off(b, id) ==
    \A p \in Pairs, s \in Sides, x \in Prices :
        \A k \in DOMAIN b[p][s].levels[x] : b[p][s].levels[x][k].id # id
BookOk(b, subs, cans) ==
    /\ Shaped(b)
    /\ \A r, s \in subs : r.id = s.id => r = s
    /\ \A p \in Pairs, s \in Sides, x \in Prices : QueueOk(subs, b[p][s].levels[x], p, s, x)
    /\ \A e \in cans : (\E o \in subs : o.id = e.id) /\ Off(b, e.id)

\* Nobody overtakes, and only new orders appear.
Fifo(q, new) ==
    \A i, j \in DOMAIN q : \A k, n \in DOMAIN new :
        i < j /\ q[i].id = new[k].id /\ q[j].id = new[n].id => k < n
Steady(b, subs, c) ==
    /\ \A p \in Pairs, s \in Sides, x \in Prices : Fifo(b[p][s].levels[x], c[p][s].levels[x])
    /\ \A o \in subs : Off(b, o.id) => Off(c, o.id)
NewIds(o, q, new) ==
    \A k \in DOMAIN new : new[k].id = o.id \/ \E i \in DOMAIN q : new[k].id = q[i].id
OldIds(q, new) == \A k \in DOMAIN new : \E i \in DOMAIN q : new[k].id = q[i].id

\* A queue that only loses entries stays in order.
LEMMA ShrunkQueue ==
    ASSUME NEW subs, NEW p, NEW s, NEW x, NEW q, QueueOk(subs, q, p, s, x),
           NEW new, Shrinks(q, new)
    PROVE  QueueOk(subs, new, p, s, x) /\ Fifo(q, new) /\ OldIds(q, new)
<1>1. Len(q) \in Nat /\ DOMAIN q = 1..Len(q) /\ Len(new) \in Nat /\ DOMAIN new = 1..Len(new)
  BY QueueDomain DEF QueueOk, Shrinks
<1>2. PICK f \in [DOMAIN new -> DOMAIN q] :
          /\ \A k, m \in DOMAIN new : k < m => f[k] < f[m]
          /\ \A k \in DOMAIN new : SameOrder(q[f[k]], new[k])
  BY DEF Shrinks
<1>3. \A k \in DOMAIN new : f[k] \in DOMAIN q
  BY <1>2
<1>4. ASSUME NEW k \in DOMAIN new
      PROVE  Entry(subs, new[k], p, s, x) /\ new[k].id = q[f[k]].id
  <2>1. PICK m : m = q[f[k]]
    OBVIOUS
  <2>2. PICK e : e = new[k]
    OBVIOUS
  <2>3. Entry(subs, m, p, s, x)
    BY <1>3, <2>1 DEF QueueOk
  <2>4. SameOrder(m, e)
    BY <1>2, <2>1, <2>2
  <2>5. Named(m)
    BY <2>3 DEF Entry, Rested
  <2>6. Entry(subs, e, p, s, x) /\ e.id = m.id
    BY <2>3, <2>4, <2>5, Zenon DEF Entry, Rested, SameOrder
  <2>7. QED
    BY <2>1, <2>2, <2>6
<1>5. ASSUME NEW k \in DOMAIN new, NEW i \in DOMAIN q, q[i].id = new[k].id PROVE f[k] = i
  BY <1>3, <1>4, <1>5 DEF QueueOk
<1>6. ASSUME NEW k \in DOMAIN new, NEW n \in DOMAIN new PROVE f[k] < f[n] <=> k < n
  <2>1. k \in Int /\ n \in Int /\ f[k] \in Int /\ f[n] \in Int
    BY <1>1, <1>3
  <2>2. (k < n => f[k] < f[n]) /\ (n < k => f[n] < f[k]) /\ (k = n => f[k] = f[n])
    BY <1>2
  <2>3. QED
    BY <2>1, <2>2
<1>7. ASSUME NEW k \in DOMAIN new, NEW n \in DOMAIN new, new[k].id = new[n].id PROVE k = n
  <2>1. q[f[k]].id = q[f[n]].id
    BY <1>4, <1>7
  <2>2. f[k] = f[n]
    BY <1>3, <2>1 DEF QueueOk
  <2>3. k \in Int /\ n \in Int /\ f[k] \in Int /\ f[n] \in Int
    BY <1>1, <1>3
  <2>4. ~(k < n) /\ ~(n < k)
    BY <1>6, <2>2, <2>3
  <2>5. QED
    BY <2>3, <2>4
<1>8. QueueOk(subs, new, p, s, x)
  BY <1>4, <1>7 DEF QueueOk, Shrinks
<1>9. Fifo(q, new)
  <2> SUFFICES ASSUME NEW i \in DOMAIN q, NEW j \in DOMAIN q, NEW k \in DOMAIN new,
                      NEW n \in DOMAIN new, i < j, q[i].id = new[k].id, q[j].id = new[n].id
               PROVE  k < n
    BY DEF Fifo
  <2>1. f[k] = i /\ f[n] = j
    BY <1>5
  <2>2. QED
    BY <1>6, <2>1
<1>10. QED
  BY <1>3, <1>4, <1>8, <1>9 DEF OldIds

\* A larger index of submissions finds the same orders.
LEMMA MoreSubmissions ==
    ASSUME NEW subs, NEW more, subs \subseteq more, NEW p, NEW s, NEW x, NEW q,
           QueueOk(subs, q, p, s, x)
    PROVE  QueueOk(more, q, p, s, x)
BY DEF QueueOk, Entry

\* A queue stays in order when a new order is put at its end.
LEMMA GrownQueue ==
    ASSUME NEW subs, NEW q, NEW o, QueueOk(subs, q, o.pair, o.type, o.price),
           \A r \in subs : r.id # o.id, NEW e, Rested(o, e), NEW new, new = Append(q, e)
    PROVE  /\ QueueOk(subs \cup {o}, new, o.pair, o.type, o.price) /\ Fifo(q, new)
           /\ NewIds(o, q, new)
<1>1. Len(q) \in Nat /\ DOMAIN q = 1..Len(q)
  BY QueueDomain DEF QueueOk
<1>2. PICK n \in Nat : n = Len(q)
  BY Zenon, <1>1
<1>3. /\ DOMAIN new = 1..(n + 1) /\ new[n + 1] = e /\ \A k \in 1..n : new[k] = q[k]
      /\ Queue(new)
  <2>1. PICK S : S = ToSet(q) \cup {e}
    OBVIOUS
  <2>2. q \in Seq(S) /\ e \in S
    BY <2>1 DEF QueueOk, Queue
  <2>3. new \in Seq(S) /\ Len(new) = n + 1 /\ new[n + 1] = e /\ \A k \in 1..n : new[k] = q[k]
    BY <1>2, <2>2
  <2>4. Queue(new) /\ DOMAIN new = 1..Len(new)
    BY <2>3, SeqIsQueue
  <2>5. QED
    BY <2>3, <2>4
<1>4. \A k \in DOMAIN new : k \in DOMAIN q \/ k = n + 1
  BY <1>1, <1>2, <1>3
<1>5. \A i \in DOMAIN q : q[i].id # o.id
  BY DEF QueueOk, Entry, Rested
<1>6. e.id = o.id /\ Entry(subs \cup {o}, e, o.pair, o.type, o.price)
  BY DEF Entry, Rested
<1>7. \A k \in DOMAIN q : new[k] = q[k] /\ k \in Int /\ k < n + 1
  BY <1>1, <1>2, <1>3
<1>8. \A k \in DOMAIN new : Entry(subs \cup {o}, new[k], o.pair, o.type, o.price)
  <2>1. \A i \in DOMAIN q : Entry(subs \cup {o}, q[i], o.pair, o.type, o.price)
    BY ZenonT(60), MoreSubmissions DEF QueueOk
  <2>2. QED
    BY <1>3, <1>4, <1>6, <1>7, <2>1
<1>9. \A k, m \in DOMAIN new : new[k].id = new[m].id => k = m
  BY <1>3, <1>4, <1>5, <1>6, <1>7 DEF QueueOk
<1>10. Fifo(q, new)
  <2> SUFFICES ASSUME NEW i \in DOMAIN q, NEW j \in DOMAIN q, NEW k \in DOMAIN new,
                      NEW m \in DOMAIN new, i < j, q[i].id = new[k].id, q[j].id = new[m].id
               PROVE  k < m
    BY DEF Fifo
  <2>1. i \in DOMAIN new /\ j \in DOMAIN new /\ new[i] = q[i] /\ new[j] = q[j]
    BY <1>1, <1>2, <1>3
  <2>2. k = i /\ m = j
    BY <1>9, <2>1
  <2>3. QED
    BY <2>2
<1>11. QED
  BY <1>3, <1>4, <1>6, <1>7, <1>8, <1>9, <1>10 DEF QueueOk, NewIds

\* A submission keeps the books in order.
LEMMA SubmitKeepsBooks ==
    ASSUME NEW b, NEW subs, NEW cans, BookOk(b, subs, cans), NEW o \in Orders,
           \A r \in subs : r.id # o.id, NEW c, SubmitMoves(b, o, c)
    PROVE  BookOk(c, subs \cup {o}, cans) /\ Steady(b, subs, c)
<1>1. ASSUME NEW p \in Pairs, NEW s \in Sides, NEW x \in Prices, NEW q, q = b[p][s].levels[x],
             NEW new, new = c[p][s].levels[x]
      PROVE  /\ QueueOk(subs \cup {o}, new, p, s, x) /\ Fifo(q, new)
             /\ NewIds(o, q, new)
  <2>1. QueueOk(subs, q, p, s, x)
    BY <1>1 DEF BookOk
  <2>2. CASE Shrinks(q, new)
    <3>1. QueueOk(subs, new, p, s, x) /\ Fifo(q, new) /\ OldIds(q, new)
      BY <2>1, <2>2, ShrunkQueue
    <3>2. QueueOk(subs \cup {o}, new, p, s, x)
      BY <3>1, MoreSubmissions
    <3>3. NewIds(o, q, new)
      BY <3>1 DEF OldIds, NewIds
    <3>4. QED
      BY <3>1, <3>2, <3>3
  <2>3. CASE ~Shrinks(q, new)
    <3>0. \/ Shrinks(b[p][s].levels[x], c[p][s].levels[x])
          \/ /\ p = o.pair /\ s = o.type /\ x = o.price
             /\ \E e : Rested(o, e) /\ c[p][s].levels[x] = Append(b[p][s].levels[x], e)
      BY Zenon DEF SubmitMoves
    <3>1. p = o.pair /\ s = o.type /\ x = o.price
      BY ZenonT(60), <1>1, <2>3, <3>0
    <3>2. PICK e : Rested(o, e) /\ new = Append(q, e)
      BY Zenon, <1>1, <2>3, <3>0
    <3>3. QueueOk(subs, q, o.pair, o.type, o.price)
      BY <2>1, <3>1
    <3>4. /\ QueueOk(subs \cup {o}, new, o.pair, o.type, o.price) /\ Fifo(q, new)
          /\ NewIds(o, q, new)
      BY <3>2, <3>3, GrownQueue
    <3>5. QED
      BY Zenon, <3>1, <3>4
  <2>4. QED
    BY <2>2, <2>3
<1>2. ASSUME NEW id, id # o.id, Off(b, id) PROVE Off(c, id)
  <2> SUFFICES ASSUME NEW p \in Pairs, NEW s \in Sides, NEW x \in Prices,
                      NEW k \in DOMAIN c[p][s].levels[x]
               PROVE  c[p][s].levels[x][k].id # id
    BY DEF Off
  <2>1. PICK q : q = b[p][s].levels[x]
    OBVIOUS
  <2>2. PICK new : new = c[p][s].levels[x]
    OBVIOUS
  <2>3. new[k].id = o.id \/ \E i \in DOMAIN q : new[k].id = q[i].id
    <3>1. NewIds(o, q, new)
      BY <1>1, <2>1, <2>2
    <3>2. QED
      BY <2>2, <3>1 DEF NewIds
  <2>4. \A i \in DOMAIN q : q[i].id # id
    BY <1>2, <2>1 DEF Off
  <2>5. QED
    BY <1>2, <2>2, <2>3, <2>4
<1>3. Shaped(c)
  BY DEF SubmitMoves
<1>4. \A r, s \in subs \cup {o} : r.id = s.id => r = s
  BY DEF BookOk
<1>5. \A p \in Pairs, s \in Sides, x \in Prices :
        QueueOk(subs \cup {o}, c[p][s].levels[x], p, s, x) /\ Fifo(b[p][s].levels[x], c[p][s].levels[x])
  BY <1>1
<1>6. \A e \in cans : (\E r \in subs \cup {o} : r.id = e.id) /\ Off(c, e.id)
  BY <1>2 DEF BookOk
<1>7. \A r \in subs : Off(b, r.id) => Off(c, r.id)
  BY <1>2
<1>8. QED
  BY <1>3, <1>4, <1>5, <1>6, <1>7 DEF BookOk, Steady

\* A cancellation keeps the books in order, and takes the order off them.
LEMMA CancelKeepsBooks ==
    ASSUME NEW b, NEW subs, NEW cans, BookOk(b, subs, cans), NEW pair \in Pairs,
           NEW e, NEW s \in Sides, NEW x \in Prices, NEW i \in DOMAIN b[pair][s].levels[x],
           e = b[pair][s].levels[x][i], NEW c, CancelMoves(b, pair, e, c)
    PROVE  BookOk(c, subs, cans \cup {e}) /\ Steady(b, subs, c)
<1>1. ASSUME NEW p \in Pairs, NEW t \in Sides, NEW y \in Prices, NEW q, q = b[p][t].levels[y],
             NEW new, new = c[p][t].levels[y]
      PROVE  QueueOk(subs, new, p, t, y) /\ Fifo(q, new) /\ OldIds(q, new)
  <2>1. QueueOk(subs, q, p, t, y) /\ Shrinks(q, new)
    BY Zenon, <1>1 DEF BookOk, CancelMoves
  <2>2. QED
    BY Zenon, <2>1, ShrunkQueue
<1>2. ASSUME NEW id, Off(b, id) PROVE Off(c, id)
  <2> SUFFICES ASSUME NEW p \in Pairs, NEW t \in Sides, NEW y \in Prices,
                      NEW k \in DOMAIN c[p][t].levels[y]
               PROVE  c[p][t].levels[y][k].id # id
    BY DEF Off
  <2>1. PICK q : q = b[p][t].levels[y]
    OBVIOUS
  <2>2. PICK new : new = c[p][t].levels[y]
    OBVIOUS
  <2>3. \E j \in DOMAIN q : new[k].id = q[j].id
    <3>1. OldIds(q, new)
      BY <1>1, <2>1, <2>2
    <3>2. QED
      BY <2>2, <3>1 DEF OldIds
  <2>4. \A j \in DOMAIN q : q[j].id # id
    BY <1>2, <2>1 DEF Off
  <2>5. QED
    BY <2>2, <2>3, <2>4
<1>3. PICK o \in subs : Rested(o, e) /\ e.pair = pair /\ e.type = s /\ e.price = x
  <2>1. QueueOk(subs, b[pair][s].levels[x], pair, s, x)
    BY Zenon DEF BookOk
  <2>2. Entry(subs, e, pair, s, x)
    BY <2>1, Zenon DEF QueueOk
  <2>3. QED
    BY <2>2, Zenon DEF Entry
<1>4. Off(c, e.id)
  <2> SUFFICES ASSUME NEW p \in Pairs, NEW t \in Sides, NEW y \in Prices,
                      NEW k \in DOMAIN c[p][t].levels[y], c[p][t].levels[y][k].id = e.id
               PROVE  FALSE
    BY DEF Off
  <2>1. PICK new : new = c[p][t].levels[y]
    OBVIOUS
  <2>2. PICK m : m = new[k]
    OBVIOUS
  <2>3. QueueOk(subs, new, p, t, y)
    BY <1>1, <2>1
  <2>4. Entry(subs, m, p, t, y)
    BY <2>1, <2>2, <2>3 DEF QueueOk
  <2>5. PICK r \in subs : Rested(r, m)
    BY Zenon, <2>4 DEF Entry
  <2>6. r.id = o.id
    BY <1>3, <2>1, <2>2, <2>5 DEF Rested
  <2>7. r = o
    BY Zenon, <2>6 DEF BookOk
  <2>8. p = pair /\ t = s /\ y = x
    BY ZenonT(60), <1>3, <2>4, <2>5, <2>7 DEF Entry, Rested
  <2>9. \A z \in Prices : z = e.price =>
          \A j \in DOMAIN c[pair][e.type].levels[z] : c[pair][e.type].levels[z][j].id # e.id
    BY Zenon DEF CancelMoves
  <2>10. QED
    BY <1>3, <2>8, <2>9
<1>5. Shaped(c)
  BY Zenon DEF CancelMoves
<1>6. \A p \in Pairs, t \in Sides, y \in Prices :
        QueueOk(subs, c[p][t].levels[y], p, t, y) /\ Fifo(b[p][t].levels[y], c[p][t].levels[y])
  BY <1>1
<1>7. o.id = e.id
  BY <1>3 DEF Rested
<1>8. \A f \in cans \cup {e} : (\E r \in subs : r.id = f.id) /\ Off(c, f.id)
  BY <1>2, <1>4, <1>7 DEF BookOk
<1>9. \A r, t \in subs : r.id = t.id => r = t
  BY DEF BookOk
<1>10. QED
  BY <1>2, <1>5, <1>6, <1>8, <1>9 DEF BookOk, Steady

\* Nothing moves.
LEMMA StillBooks ==
    ASSUME NEW b, NEW subs, NEW cans, BookOk(b, subs, cans)
    PROVE  Steady(b, subs, b)
<1>1. ASSUME NEW p \in Pairs, NEW s \in Sides, NEW x \in Prices PROVE
        Fifo(b[p][s].levels[x], b[p][s].levels[x])
  <2>1. PICK q : q = b[p][s].levels[x]
    OBVIOUS
  <2>2. QueueOk(subs, q, p, s, x)
    BY <2>1 DEF BookOk
  <2>3. Fifo(q, q)
    BY <2>2 DEF QueueOk, Fifo
  <2>4. QED
    BY <2>1, <2>3
<1>2. QED
  BY <1>1 DEF Steady

-----------------------------------------------------------------------------
(* Submissions and cancellations.                                           *)

BookInv == BookOk(books, submissions, cancellations)

\* The book of a submission is the committed book of its plan.
LEMMA SubmissionBook ==
    ASSUME NEW o, NEW book, NEW b
    PROVE  \E plan : Submission(o, book, b).book = CommitBook(book, o, plan)
BY DEF Submission

\* A submission keeps BookInv and lets nobody overtake.
LEMMA SubmitStepBooks ==
    ASSUME BookInv, NEW o \in Orders, Submit(o)
    PROVE  BookInv' /\ Steady(books, submissions, books')
<1>1. CASE UNCHANGED vars
  BY <1>1, StillBooks DEF BookInv, vars
<1>2. CASE ~ UNCHANGED vars
  <2>1. \A r \in submissions : r.id # o.id
    BY <1>2 DEF Submit
  <2>2. submissions' = submissions \cup {o} /\ cancellations' = cancellations
    BY <1>2 DEF Submit
  <2>3. \/ books' = books
        \/ books' = [books EXCEPT ![o.pair] = Submission(o, books[o.pair], bal).book]
    BY <1>2 DEF Submit
  <2>4. Shaped(books)
    BY DEF BookInv, BookOk
  <2>5. SubmitMoves(books, o, books')
    <3>1. CASE books' = books
      <4>1. \A p \in Pairs, s \in Sides, x \in Prices :
              Shrinks(books[p][s].levels[x], books[p][s].levels[x])
        BY <2>4, UnchangedShrinks DEF Shaped, ShapedSide
      <4>2. QED
        BY <2>4, <3>1, <4>1 DEF SubmitMoves
    <3>2. CASE books' = [books EXCEPT ![o.pair] = Submission(o, books[o.pair], bal).book]
      <4>1. PICK plan : Submission(o, books[o.pair], bal).book = CommitBook(books[o.pair], o, plan)
        BY SubmissionBook
      <4>2. books' = [books EXCEPT ![o.pair] = CommitBook(books[o.pair], o, plan)]
        BY <3>2, <4>1
      <4>3. QED
        BY <2>4, <4>2, SubmitBooks
    <3>3. QED
      BY <2>3, <3>1, <3>2
  <2>6. BookOk(books', submissions \cup {o}, cancellations) /\ Steady(books, submissions, books')
    BY <2>1, <2>5, SubmitKeepsBooks DEF BookInv
  <2>7. QED
    BY <2>2, <2>6 DEF BookInv
<1>3. QED
  BY <1>1, <1>2

\* An entry of a book is somewhere in a queue.
LEMMA EntryIsPlaced ==
    ASSUME NEW b, Shaped(b), NEW p \in Pairs, NEW e
    PROVE  e \in BookEntries(b[p]) <=>
             \E s \in Sides, x \in Prices : \E i \in DOMAIN b[p][s].levels[x] :
                 e = b[p][s].levels[x][i]
<1>1. DOMAIN b[p] = Sides /\ b[p].buy = b[p]["buy"] /\ b[p].sell = b[p]["sell"]
  BY DEF Shaped
<1>2. ASSUME NEW side PROVE e \in Entries(side) <=>
             \E x \in Prices : \E i \in DOMAIN side.levels[x] : e = side.levels[x][i]
  BY DEF Entries, ToSet
<1>3. QED
  BY <1>1, <1>2, Zenon DEF BookEntries, Sides

\* A cancellation keeps BookInv and adds at most its own receipt.
LEMMA CancelStepBooks ==
    ASSUME BookInv, NEW id, NEW user, NEW pair \in Pairs, Cancel(id, user, pair)
    PROVE  /\ BookInv' /\ Steady(books, submissions, books')
           /\ cancellations' = cancellations
              \/ \E e : cancellations' = cancellations \cup {e} /\ e.user = user
<1>1. CASE UNCHANGED vars
  BY <1>1, StillBooks DEF BookInv, vars
<1>2. CASE ~ UNCHANGED vars
  <2>1. PICK found : found = {x \in BookEntries(books[pair]) : x.id = id}
    OBVIOUS
  <2>2. PICK e : e = CHOOSE x \in found : TRUE
    OBVIOUS
  <2>3. /\ found # {} /\ e.user = user
        /\ books' = [books EXCEPT ![pair][e.type] = RemoveOrder(@, e)]
        /\ cancellations' = cancellations \cup {e} /\ submissions' = submissions
    BY <1>2, <2>1, <2>2 DEF Cancel
  <2>4. e \in BookEntries(books[pair])
    BY <2>1, <2>2, <2>3
  <2>5. Shaped(books)
    BY DEF BookInv, BookOk
  <2>6. PICK s \in Sides, x \in Prices : \E i \in DOMAIN books[pair][s].levels[x] :
           e = books[pair][s].levels[x][i]
    BY <2>4, <2>5, EntryIsPlaced
  <2>7. e.type \in Sides
    BY <2>6 DEF BookInv, BookOk, QueueOk, Entry
  <2>8. CancelMoves(books, pair, e, books')
    BY <2>3, <2>5, <2>7, CancelBooks
  <2>9. BookOk(books', submissions, cancellations \cup {e}) /\ Steady(books, submissions, books')
    BY <2>6, <2>8, CancelKeepsBooks DEF BookInv
  <2>10. QED
    BY <2>3, <2>9 DEF BookInv
<1>3. QED
  BY <1>1, <1>2

\* The other commands leave the books alone.
LEMMA OtherStepBooks ==
    ASSUME BookInv, UNCHANGED <<books, submissions, cancellations>>
    PROVE  BookInv' /\ Steady(books, submissions, books')
BY StillBooks DEF BookInv

\* Empty books are in order.
LEMMA BookInit == Init => BookInv
<1> SUFFICES ASSUME Init PROVE BookInv
  OBVIOUS
<1>1. ASSUME NEW p \in Pairs, NEW s \in Sides
      PROVE  /\ DOMAIN books = Pairs /\ DOMAIN books[p] = Sides
             /\ DOMAIN books[p][s].levels = Prices /\ \A x \in Prices : books[p][s].levels[x] = <<>>
  BY DEF Init, EmptyBook, EmptySide, Sides
<1>2. DOMAIN books = Pairs
  BY DEF Init
<1>3. Queue(<<>>) /\ DOMAIN <<>> = {}
  <2>1. <<>> \in Seq({}) /\ Len(<<>>) = 0
    OBVIOUS
  <2>2. Queue(<<>>) /\ DOMAIN <<>> = 1..Len(<<>>)
    BY <2>1, SeqIsQueue
  <2>3. QED
    BY <2>1, <2>2
<1>4. Shaped(books)
  BY <1>1, <1>2, <1>3 DEF Shaped, ShapedSide, Sides
<1>5. \A p \in Pairs, s \in Sides, x \in Prices :
        QueueOk(submissions, books[p][s].levels[x], p, s, x)
  BY <1>1, <1>3 DEF QueueOk
<1>6. QED
  BY <1>4, <1>5 DEF BookInv, BookOk, Init

\* Every step keeps BookInv and lets nobody overtake.
LEMMA BookStep == BookInv /\ [Next]_vars => BookInv' /\ Steady(books, submissions, books')
<1> SUFFICES ASSUME BookInv, [Next]_vars PROVE BookInv' /\ Steady(books, submissions, books')
  OBVIOUS
<1>1. CASE \E o \in Orders : Submit(o)
  BY <1>1, SubmitStepBooks
<1>2. CASE \E o \in Orders, u \in Users : Cancel(o.id, u, o.pair)
  BY <1>2, CancelStepBooks, CoreAssumption
<1>3. CASE UNCHANGED vars
  BY <1>3, OtherStepBooks DEF vars
<1>4. CASE \E d \in Credits : CreditDeposit(d)
  BY <1>4, OtherStepBooks DEF CreditDeposit, vars
<1>5. CASE \E w \in Withdrawals, action \in {"reserve", "release", "complete"} : Withdraw(w, action)
  BY <1>5, OtherStepBooks DEF Withdraw, vars
<1>6. CASE \E x \in Adjustments :
             \/ Balance(x[1], x[2]) \/ Balance(x[1], -x[2])
             \/ LockBalance(x[1], x[2]) \/ UnlockBalance(x[1], x[2])
  BY <1>6, OtherStepBooks DEF Balance, LockBalance, UnlockBalance
<1>7. QED
  BY <1>1, <1>2, <1>3, <1>4, <1>5, <1>6 DEF Next

\* Off the book is not resting.
LEMMA OffOrRests ==
    ASSUME NEW b, Shaped(b), NEW id
    PROVE  Rests(b, id) <=> ~Off(b, id)
<1>1. ASSUME Rests(b, id) PROVE ~Off(b, id)
  <2>1. PICK p \in Pairs : \E e \in BookEntries(b[p]) : e.id = id
    BY <1>1 DEF Rests
  <2>2. PICK e \in BookEntries(b[p]) : e.id = id
    BY <2>1
  <2>3. QED
    BY <2>2, EntryIsPlaced DEF Off
<1>2. ASSUME ~Off(b, id) PROVE Rests(b, id)
  <2>1. PICK p \in Pairs, s \in Sides, x \in Prices :
           \E k \in DOMAIN b[p][s].levels[x] : b[p][s].levels[x][k].id = id
    BY <1>2 DEF Off
  <2>2. PICK k \in DOMAIN b[p][s].levels[x] : b[p][s].levels[x][k].id = id
    BY <2>1
  <2>3. b[p][s].levels[x][k] \in BookEntries(b[p])
    BY <2>2, EntryIsPlaced
  <2>4. QED
    BY <2>2, <2>3 DEF Rests
<1>3. QED
  BY <1>1, <1>2

\* An order that was filled, cancelled, expired or rejected never returns to
\* the book, whatever is submitted again and in whatever order
\* (submission.rs: the index of submissions is never pruned).
THEOREM OrdersRestOnce == Spec => NeverRestsAgain
<1>1. BookInv /\ [Next]_vars => \A s \in submissions : Rests(books', s.id) => Rests(books, s.id)
  <2> SUFFICES ASSUME BookInv, [Next]_vars, NEW s \in submissions, Rests(books', s.id)
               PROVE  Rests(books, s.id)
    OBVIOUS
  <2>1. BookInv' /\ Steady(books, submissions, books')
    BY BookStep
  <2>2. Shaped(books) /\ Shaped(books')
    BY <2>1 DEF BookInv, BookOk
  <2>3. ~Off(books', s.id)
    BY <2>2, OffOrRests
  <2>4. ~Off(books, s.id)
    BY <2>1, <2>3 DEF Steady
  <2>5. QED
    BY <2>2, <2>4, OffOrRests
<1>2. QED
  BY <1>1, BookInit, BookStep, PTL DEF Spec, NeverRestsAgain

\* Entries that stay in a queue keep their relative order: neither a partial
\* fill nor a skipped own order nor a cancellation lets anyone overtake
\* (orderbook.rs apply_prepared_orders and remove_order).
THEOREM NobodyOvertakes == Spec => FifoKept
<1>1. BookInv /\ [Next]_vars =>
        \A p \in Pairs : \A side \in {"buy", "sell"} : \A price \in Prices :
          LET old == books[p][side].levels[price]
              new == books'[p][side].levels[price]
          IN  \A i, j \in DOMAIN old : \A k, n \in DOMAIN new :
                  i < j /\ old[i].id = new[k].id /\ old[j].id = new[n].id => k < n
  <2> SUFFICES ASSUME BookInv, [Next]_vars, NEW p \in Pairs, NEW side \in {"buy", "sell"},
                      NEW price \in Prices
               PROVE  LET old == books[p][side].levels[price]
                          new == books'[p][side].levels[price]
                      IN  \A i, j \in DOMAIN old : \A k, n \in DOMAIN new :
                            i < j /\ old[i].id = new[k].id /\ old[j].id = new[n].id => k < n
    OBVIOUS
  <2>1. Fifo(books[p][side].levels[price], books'[p][side].levels[price])
    BY BookStep DEF Steady, Sides
  <2>2. QED
    BY Zenon, <2>1 DEF Fifo
<1>2. QED
  BY <1>1, BookInit, BookStep, PTL DEF Spec, FifoKept

-----------------------------------------------------------------------------
(* Balances: one change of an account.                                      *)

Row == [available : Int, locked : Int]
Candidate == [ok : BOOLEAN, bal : [Accounts -> Row]]
Holdings(b, a) == [u \in Users |-> b[<<u, a>>].available + b[<<u, a>>].locked]
Total(b, a) == SumFunction(Holdings(b, a))
WithinLimits(b) == \A a \in Accounts : b[a].available \in Units /\ b[a].locked \in Units
Checked(res) == res.ok => WithinLimits(res.bal)

\* What a change of delta units of an asset does, in one account or several.
Moved(res, new, asset, delta) ==
    /\ new \in Candidate
    /\ \A a \in Assets : Total(new.bal, a) = Total(res.bal, a) + (IF a = asset THEN delta ELSE 0)
    /\ Checked(res) => Checked(new)
    /\ new.ok => res.ok

\* What the users hold of an asset can be summed.
LEMMA HoldingsNumeric ==
    ASSUME NEW b \in [Accounts -> Row], NEW a \in Assets
    PROVE  Numeric(Holdings(b, a)) /\ Total(b, a) \in Int
<1>1. Holdings(b, a) \in [Users -> Int]
  BY DEF Holdings, Accounts, Row
<1>2. Numeric(Holdings(b, a))
  BY <1>1, CoreAssumption DEF Numeric
<1>3. QED
  BY <1>2, SumType DEF Total

\* A movement on one account changes the total of one asset by its amount.
LEMMA MoveTotal ==
    ASSUME NEW res \in Candidate, NEW user \in Users, NEW asset \in Assets,
           NEW available \in Int, NEW locked \in Int
    PROVE  Moved(res, Move(res, <<user, asset>>, available, locked), asset, available + locked)
<1>1. PICK account \in Accounts : account = <<user, asset>>
  BY DEF Accounts
<1>2. PICK b : b = res.bal
  OBVIOUS
<1>3. b \in [Accounts -> Row]
  BY <1>2 DEF Candidate
<1>4. PICK row : row = [available |-> b[account].available + available,
                        locked |-> b[account].locked + locked]
  OBVIOUS
<1>5. /\ row \in Row /\ row.available = b[account].available + available
      /\ row.locked = b[account].locked + locked
  BY <1>3, <1>4 DEF Row
<1>6. PICK c : c = [b EXCEPT ![account] = row]
  OBVIOUS
<1>7. c \in [Accounts -> Row] /\ c[account] = row /\ \A a \in Accounts : a # account => c[a] = b[a]
  BY <1>3, <1>5, <1>6
<1>8. PICK new : new = Move(res, account, available, locked)
  OBVIOUS
<1>9. /\ new.bal = c /\ new \in Candidate
      /\ new.ok = (res.ok /\ row.available \in Units /\ row.locked \in Units)
  BY <1>2, <1>4, <1>6, <1>7, <1>8 DEF Move, Candidate
<1>10. ASSUME NEW a \in Assets
       PROVE  Total(c, a) = Total(b, a) + (IF a = asset THEN available + locked ELSE 0)
  <2>1. Numeric(Holdings(b, a)) /\ Numeric(Holdings(c, a)) /\ Total(b, a) \in Int
    BY <1>3, <1>7, HoldingsNumeric
  <2>2. CASE a = asset
    <3>1. Changes(Holdings(c, a), Holdings(b, a), user)
      BY <1>1, <1>7, <2>2 DEF Changes, Holdings, Accounts
    <3>2. /\ Holdings(b, a)[user] = b[account].available + b[account].locked
          /\ Holdings(c, a)[user] = row.available + row.locked
      BY <1>1, <1>7, <2>2 DEF Holdings
    <3>3. b[account].available \in Int /\ b[account].locked \in Int
      BY <1>3 DEF Row
    <3>4. Total(c, a) = Total(b, a) - Holdings(b, a)[user] + Holdings(c, a)[user]
      BY <2>1, <3>1, SumChanges DEF Total
    <3>5. QED
      BY <1>5, <2>1, <2>2, <3>2, <3>3, <3>4
  <2>3. CASE a # asset
    <3>1. Holdings(c, a) = Holdings(b, a)
      BY <1>1, <1>7, <2>3 DEF Holdings, Accounts
    <3>2. QED
      BY <2>1, <2>3, <3>1 DEF Total
  <2>4. QED
    BY <2>2, <2>3
<1>11. Checked(res) => Checked(new)
  BY <1>2, <1>5, <1>7, <1>9 DEF Checked, WithinLimits
<1>12. QED
  BY <1>1, <1>2, <1>8, <1>9, <1>10, <1>11 DEF Moved

-----------------------------------------------------------------------------
(* Types of entries, books and plans.                                       *)

EntryType ==
    [id : {o.id : o \in Orders}, user : Users, pair : Pairs, type : Sides, side : {"limit"},
     price : Prices, amount : Int, budget : Int, fee : Int, remaining : Int, filled : Int]
SideType == [levels : [Prices -> Seq(EntryType)], total : Int]
TradeType == [maker : EntryType, price : Int, qty : Int]
PlanType == [ok : BOOLEAN, remaining : Int, budget : Int, amount : Int, quote : Int,
             trades : Seq(TradeType)]

\* Prices are finitely many positive numbers.
LEMMA PriceType == IsFiniteSet(Prices) /\ \A x \in Prices : x \in Nat /\ x # 0 /\ x > 0 /\ x \in Int
<1>1. Prices \subseteq Nat \ {0} /\ IsFiniteSet(Prices)
  BY PricesAssumption
<1>2. QED
  BY <1>1

\* The fields of an order.
LEMMA OrderType ==
    ASSUME NEW o \in Orders
    PROVE  /\ o.user \in Users /\ o.pair \in Pairs /\ o.pair[1] \in Assets /\ o.pair[2] \in Assets
           /\ o.pair[1] # o.pair[2] /\ o.type \in Sides /\ o.price \in Prices \cup {0}
           /\ o.amount \in Int /\ o.budget \in Int /\ o.fee \in Int /\ o.price \in Nat
<1>1. /\ o.user \in Users /\ o.pair \in Pairs /\ o.type \in {"buy", "sell"}
      /\ o.price \in Prices \cup {0} /\ {o.amount, o.budget, o.fee} \subseteq Int
  BY CoreAssumption
<1>2. \A p \in Pairs : p[1] \in Assets /\ p[2] \in Assets /\ p[1] # p[2]
  BY CoreAssumption
<1>3. o.price \in Nat
  BY <1>1, PriceType
<1>4. QED
  BY <1>1, <1>2, <1>3 DEF Sides

\* Quotes and fees of integers are integers.
LEMMA ArithmeticType ==
    ASSUME NEW x \in Int, NEW y \in Int
    PROVE  Quote(x, y) \in Int /\ Fee(x, y) \in Int /\ Smaller(x, y) \in Int
<1>1. Factor \in Nat \ {0} /\ x * y \in Int
  BY AmountAssumption
<1>2. (x * y) \div Factor \in Int
  BY <1>1
<1>3. QED
  BY <1>2 DEF Quote, Fee, Smaller

\* A budget buys an integer quantity.
LEMMA BudgetType ==
    ASSUME NEW budget \in Int, NEW price \in Prices, NEW remaining \in Int
    PROVE  QuantityForBudget(budget, price, remaining) \in Int
<1>1. price \in Nat \ {0} /\ Factor \in Nat \ {0}
  BY PriceType, AmountAssumption
<1>2. PICK s \in Nat \ {0} : s = Step(price)
  BY <1>1, StepIsExact DEF StepOf
<1>3. PICK funds \in Int : funds = budget * Factor
  BY <1>1
<1>4. PICK whole \in Int : whole = funds \div price
  BY <1>1
<1>5. PICK most \in Int : most = Smaller(whole, remaining)
  BY ArithmeticType
<1>6. most \div s \in Int
  OBVIOUS
<1>7. (most \div s) * s \in Int
  BY <1>6
<1>8. QED
  BY <1>2, <1>3, <1>4, <1>5, <1>7 DEF QuantityForBudget

-----------------------------------------------------------------------------
(* One maker of plan_levels.                                                *)

\* What one trade adds to a plan.
Wanted(o, plan, m) ==
    IF IsBudget(o) THEN QuantityForBudget(plan.budget, m.price, m.remaining)
    ELSE Smaller(plan.remaining, m.remaining)
Trades(o, plan, m, new) ==
    LET qty == Wanted(o, plan, m)
    IN  /\ ValidEntry(m, m.price) /\ m.id # o.id /\ m.user # o.user /\ qty # 0
        /\ ~Exhausted(o, plan)
        /\ new.ok => QuoteExact(m.price, qty)
        /\ new.remaining = IF IsBudget(o) THEN plan.remaining ELSE plan.remaining - qty
        /\ new.budget = IF IsBudget(o) THEN plan.budget - Quote(m.price, qty) ELSE plan.budget
        /\ new.amount = plan.amount + qty
        /\ new.quote = plan.quote + Quote(m.price, qty)
        /\ new.trades = Append(plan.trades, [maker |-> m, price |-> m.price, qty |-> qty])
PassedOver(o, plan, m, new) ==
    /\ new = plan
    /\ Exhausted(o, plan) \/ m.user = o.user \/ Wanted(o, plan, m) = 0
    /\ Exhausted(o, plan) \/ (ValidEntry(m, m.price) /\ m.id # o.id)

\* One maker in the plan is passed over or traded with.
LEMMA PlanMakerType ==
    ASSUME NEW o \in Orders, NEW plan \in PlanType, NEW m \in EntryType
    PROVE  /\ PlanMaker(o, plan, m) \in PlanType
           /\ Wanted(o, plan, m) \in Int
           /\ PlanMaker(o, plan, m).ok =>
                 /\ plan.ok
                 /\ \/ PassedOver(o, plan, m, PlanMaker(o, plan, m))
                    \/ Trades(o, plan, m, PlanMaker(o, plan, m))
<1>1. /\ m.price \in Prices /\ m.price \in Int /\ m.remaining \in Int
      /\ plan.budget \in Int /\ plan.remaining \in Int /\ plan.amount \in Int /\ plan.quote \in Int
      /\ plan.ok \in BOOLEAN /\ plan.trades \in Seq(TradeType)
  <2>1. m.price \in Prices /\ m.remaining \in Int
    BY DEF EntryType
  <2>2. m.price \in Int
    BY <2>1, PriceType
  <2>3. /\ plan.budget \in Int /\ plan.remaining \in Int /\ plan.amount \in Int /\ plan.quote \in Int
        /\ plan.ok \in BOOLEAN /\ plan.trades \in Seq(TradeType)
    BY DEF PlanType
  <2>4. QED
    BY <2>1, <2>2, <2>3
<1>2. PICK qty \in Int : qty = Wanted(o, plan, m)
  BY <1>1, BudgetType, ArithmeticType DEF Wanted
<1>3. PICK quote \in Int : quote = Quote(m.price, qty)
  BY <1>1, ArithmeticType
<1>4. PICK trade \in TradeType : trade = [maker |-> m, price |-> m.price, qty |-> qty]
  BY <1>1 DEF TradeType
<1>5. PICK ok \in BOOLEAN : ok = (/\ QuoteExact(m.price, qty)
                                 /\ plan.amount + qty \in Units /\ plan.quote + quote \in Units)
  OBVIOUS
<1>6. PICK left \in Int : left = IF IsBudget(o) THEN plan.remaining ELSE plan.remaining - qty
  BY <1>1
<1>7. PICK budget \in Int : budget = IF IsBudget(o) THEN plan.budget - quote ELSE plan.budget
  BY <1>1
<1>8. PICK new : new = [ok |-> ok, remaining |-> left, budget |-> budget, amount |-> plan.amount + qty,
                        quote |-> plan.quote + quote, trades |-> Append(plan.trades, trade)]
  OBVIOUS
<1>9. new \in PlanType
  BY <1>1, <1>8 DEF PlanType
<1>10. /\ new.ok = ok /\ new.remaining = left /\ new.budget = budget
       /\ new.amount = plan.amount + qty /\ new.quote = plan.quote + quote
       /\ new.trades = Append(plan.trades, trade)
  BY <1>8
<1>11. PICK failed : failed = [plan EXCEPT !.ok = FALSE]
  OBVIOUS
<1>12. failed \in PlanType /\ failed.ok = FALSE
  BY <1>11 DEF PlanType
<1>13. PlanMaker(o, plan, m) =
         IF ~plan.ok \/ Exhausted(o, plan) THEN plan
         ELSE IF ~ValidEntry(m, m.price) \/ m.id = o.id THEN failed
         ELSE IF m.user = o.user \/ qty = 0 THEN plan
         ELSE new
  BY <1>2, <1>3, <1>4, <1>5, <1>6, <1>7, <1>8, <1>11 DEF PlanMaker, Wanted
<1>14. CASE ~plan.ok \/ Exhausted(o, plan)
  BY <1>2, <1>13, <1>14 DEF PassedOver
<1>15. CASE ~(~plan.ok \/ Exhausted(o, plan)) /\ (~ValidEntry(m, m.price) \/ m.id = o.id)
  BY <1>2, <1>12, <1>13, <1>15
<1>16. CASE /\ ~(~plan.ok \/ Exhausted(o, plan)) /\ ~(~ValidEntry(m, m.price) \/ m.id = o.id)
            /\ m.user = o.user \/ qty = 0
  BY <1>2, <1>13, <1>16 DEF PassedOver
<1>17. CASE /\ ~(~plan.ok \/ Exhausted(o, plan)) /\ ~(~ValidEntry(m, m.price) \/ m.id = o.id)
            /\ ~(m.user = o.user \/ qty = 0)
  <2>1. PlanMaker(o, plan, m) = new
    BY <1>13, <1>17
  <2>2. Trades(o, plan, m, new)
    BY <1>2, <1>3, <1>4, <1>5, <1>6, <1>7, <1>10, <1>17 DEF Trades
  <2>3. QED
    BY <1>2, <1>9, <1>17, <2>1, <2>2
<1>18. QED
  BY <1>14, <1>15, <1>16, <1>17

-----------------------------------------------------------------------------
(* The walk over the makers.                                                *)

Levelled(side) == \A x \in Prices : side.levels[x] \in Seq(EntryType)

\* A typed side of a book is a queue per price.
LEMMA SideIsLevelled ==
    ASSUME NEW side \in SideType
    PROVE  /\ Levelled(side) /\ DOMAIN side.levels = Prices /\ ShapedSide(side)
           /\ \A x \in Prices : /\ Len(side.levels[x]) \in Nat
                                /\ DOMAIN side.levels[x] = 1..Len(side.levels[x])
<1>1. Levelled(side) /\ DOMAIN side.levels = Prices
  BY DEF SideType, Levelled
<1>2. \A x \in Prices : /\ Queue(side.levels[x]) /\ Len(side.levels[x]) \in Nat
                        /\ DOMAIN side.levels[x] = 1..Len(side.levels[x])
  BY <1>1, SeqIsQueue DEF Levelled
<1>3. QED
  BY <1>1, <1>2 DEF ShapedSide

\* A place that an order may reach.
IsPlace(o, side, x) ==
    /\ x = <<x[1], x[2]>> /\ x[1] \in Prices /\ Reachable(o, x[1])
    /\ x[2] \in DOMAIN side.levels[x[1]] /\ x[2] \in Int /\ x[1] \in Int

\* The places of reachable makers are finitely many.
LEMMA PlacesAre ==
    ASSUME NEW o, NEW side \in SideType
    PROVE  /\ IsFiniteSet(Places(o, side))
           /\ \A x \in Places(o, side) : IsPlace(o, side, x)
           /\ \A p \in Prices : \A i \in DOMAIN side.levels[p] :
                 Reachable(o, p) => <<p, i>> \in Places(o, side)
<1>1. \A x \in Prices : DOMAIN side.levels[x] = 1..Len(side.levels[x]) /\ Len(side.levels[x]) \in Nat
  BY SideIsLevelled
<1>2. ASSUME NEW x \in Places(o, side) PROVE IsPlace(o, side, x)
  <2>1. PICK p \in Prices : Reachable(o, p) /\ x \in {p} \X DOMAIN side.levels[p]
    BY DEF Places
  <2>2. x = <<p, x[2]>> /\ x[1] = p /\ x[2] \in DOMAIN side.levels[p]
    BY <2>1
  <2>3. x[2] \in Int /\ x[1] \in Int
    BY <1>1, <2>2, PriceType
  <2>4. QED
    BY <2>1, <2>2, <2>3 DEF IsPlace
<1>3. \A p \in Prices : \A i \in DOMAIN side.levels[p] :
        Reachable(o, p) => <<p, i>> \in Places(o, side)
  BY DEF Places
<1>4. IsFiniteSet(Places(o, side))
  <2>1. PICK f : f = [p \in Prices |-> {p} \X DOMAIN side.levels[p]]
    OBVIOUS
  <2>2. ASSUME NEW p \in Prices PROVE IsFiniteSet(f[p])
    <3>1. PICK d : d = DOMAIN side.levels[p]
      OBVIOUS
    <3>2. PICK n \in Nat : d = 1..n
      BY <1>1, <3>1
    <3>3. IsFiniteSet(d)
      BY <3>2, FS_Interval
    <3>4. PICK s : s = {p} /\ IsFiniteSet(s)
      BY FS_Singleton
    <3>5. IsFiniteSet(s \X d)
      BY <3>3, <3>4, FS_Product
    <3>6. QED
      BY <2>1, <3>1, <3>4, <3>5
  <2>3. ASSUME NEW y \in Places(o, side) PROVE \E p \in Prices : y \in f[p]
    BY <2>1 DEF Places
  <2>4. PICK T : T = Places(o, side)
    OBVIOUS
  <2>5. IsFiniteSet(T)
    BY <2>2, <2>3, <2>4, PriceType, FiniteUnion
  <2>6. QED
    BY <2>4, <2>5
<1>5. QED
  BY <1>2, <1>3, <1>4

\* Who is ahead of a place, itself included; the order is total.
LEMMA AheadOrder ==
    ASSUME NEW o, NEW side, NEW x, IsPlace(o, side, x), NEW y, IsPlace(o, side, y)
    PROVE  /\ Ahead(o, x, x)
           /\ Ahead(o, x, y) \/ Ahead(o, y, x)
           /\ Ahead(o, x, y) /\ Ahead(o, y, x) => x = y
           /\ \A z : IsPlace(o, side, z) /\ Ahead(o, x, y) /\ Ahead(o, z, x) => Ahead(o, z, y)
<1>1. x = <<x[1], x[2]>> /\ x[1] \in Int /\ x[2] \in Int
  BY DEF IsPlace
<1>2. y = <<y[1], y[2]>> /\ y[1] \in Int /\ y[2] \in Int
  BY DEF IsPlace
<1>3. Ahead(o, x, x) /\ (Ahead(o, x, y) \/ Ahead(o, y, x))
  BY <1>1, <1>2 DEF Ahead
<1>4. ASSUME Ahead(o, x, y), Ahead(o, y, x) PROVE x = y
  <2>1. x[1] = y[1] /\ x[2] = y[2]
    BY <1>1, <1>2, <1>4 DEF Ahead
  <2>2. QED
    BY <1>1, <1>2, <2>1, Zenon
<1>5. ASSUME NEW z, IsPlace(o, side, z), Ahead(o, x, y), Ahead(o, z, x) PROVE Ahead(o, z, y)
  <2>1. z[1] \in Int /\ z[2] \in Int
    BY <1>5 DEF IsPlace
  <2>2. QED
    BY <1>1, <1>2, <1>5, <2>1 DEF Ahead
<1>6. QED
  BY <1>3, <1>4, <1>5

\* A later place has a later turn.
LEMMA TurnGrows ==
    ASSUME NEW o, NEW side \in SideType, NEW x \in Places(o, side)
    PROVE  /\ Turn(o, side, x) \in 1..Cardinality(Places(o, side))
           /\ \A y \in Places(o, side) :
                 Ahead(o, x, y) /\ x # y => Turn(o, side, x) < Turn(o, side, y)
<1>1. PICK all : all = Places(o, side)
  OBVIOUS
<1>2. IsFiniteSet(all) /\ Cardinality(all) \in Nat /\ \A y \in all : IsPlace(o, side, y)
  BY <1>1, PlacesAre, FS_CardinalityType
<1>3. PICK up : up = [y \in all |-> {z \in all : Ahead(o, z, y)}]
  OBVIOUS
<1>4. ASSUME NEW y \in all
      PROVE  /\ up[y] \in SUBSET all /\ y \in up[y] /\ Turn(o, side, y) = Cardinality(up[y])
             /\ IsFiniteSet(up[y]) /\ Cardinality(up[y]) \in 1..Cardinality(all)
  <2>1. up[y] \in SUBSET all /\ Turn(o, side, y) = Cardinality(up[y])
    BY <1>1, <1>3 DEF Turn
  <2>2. y \in up[y]
    BY <1>2, <1>3, AheadOrder
  <2>3. PICK u : u = up[y]
    OBVIOUS
  <2>4. IsFiniteSet(u) /\ Cardinality(u) <= Cardinality(all)
    BY <1>2, <2>1, <2>3, FS_Subset
  <2>5. Cardinality(u) \in Nat /\ Cardinality(u) # 0
    BY <2>2, <2>3, <2>4, FS_CardinalityType, FS_EmptySet
  <2>6. QED
    BY <1>2, <2>1, <2>2, <2>3, <2>4, <2>5
<1>5. ASSUME NEW y \in all, Ahead(o, x, y), x # y PROVE Turn(o, side, x) < Turn(o, side, y)
  <2>1. up[x] \in SUBSET up[y]
    <3>1. ASSUME NEW z \in up[x] PROVE z \in up[y]
      <4>1. z \in all /\ Ahead(o, z, x)
        BY <1>1, <1>3
      <4>2. Ahead(o, z, y)
        BY <1>1, <1>2, <1>5, <4>1, AheadOrder
      <4>3. QED
        BY <1>3, <4>1, <4>2
    <3>2. QED
      BY <3>1
  <2>2. y \notin up[x]
    <3>1. ~Ahead(o, y, x)
      BY <1>1, <1>2, <1>5, AheadOrder
    <3>2. QED
      BY <1>1, <1>3, <3>1
  <2>3. PICK a : a = up[x]
    OBVIOUS
  <2>4. PICK b : b = up[y]
    OBVIOUS
  <2>5. /\ IsFiniteSet(b) /\ Cardinality(a) \in Nat /\ Cardinality(b) \in Nat /\ y \in b
        /\ Turn(o, side, x) = Cardinality(a) /\ Turn(o, side, y) = Cardinality(b)
    BY <1>1, <1>4, <2>3, <2>4
  <2>6. Cardinality(a) <= Cardinality(b) /\ (Cardinality(b) = Cardinality(a) => b = a)
    BY <2>1, <2>3, <2>4, <2>5, FS_Subset
  <2>7. QED
    BY <2>2, <2>3, <2>5, <2>6
<1>6. QED
  BY <1>1, <1>4, <1>5

\* The makers are visited each once, in the order of their places.
Visits(o, side, at) ==
    LET n == Len(Makers(o, side))
    IN  /\ n \in Nat /\ Makers(o, side) \in Seq(EntryType)
        /\ at \in [1..n -> Places(o, side)]
        /\ \A k \in 1..n : Makers(o, side)[k] = side.levels[at[k][1]][at[k][2]]
        /\ \A k, m \in 1..n : k < m <=> (Ahead(o, at[k], at[m]) /\ at[k] # at[m])
        /\ \A x \in Places(o, side) : \E k \in 1..n : at[k] = x

\* Makers visits every reachable place once, in price-time order.
LEMMA MakersAreVisited ==
    ASSUME NEW o, NEW side \in SideType
    PROVE  \E at : Visits(o, side, at)
<1>1. PICK all : all = Places(o, side)
  OBVIOUS
<1>2. PICK n \in Nat : n = Cardinality(all)
  BY <1>1, PlacesAre, FS_CardinalityType
<1>3. IsFiniteSet(all) /\ \A x \in all : IsPlace(o, side, x)
  BY <1>1, PlacesAre
<1>4. /\ \A x \in all : Turn(o, side, x) \in 1..n
      /\ \A x, y \in all : Ahead(o, x, y) /\ x # y => Turn(o, side, x) < Turn(o, side, y)
  BY <1>1, <1>2, TurnGrows
<1>5. PICK f : f = [x \in all |-> Turn(o, side, x)]
  OBVIOUS
<1>6. f \in Injection(all, 1..n)
  <2>1. \A x, y \in all : f[x] = f[y] => x = y
    <3> SUFFICES ASSUME NEW x \in all, NEW y \in all, f[x] = f[y] PROVE x = y
      OBVIOUS
    <3>1. PICK a \in Int : a = Turn(o, side, x) /\ a = Turn(o, side, y)
      <4>1. f[x] = Turn(o, side, x) /\ f[y] = Turn(o, side, y) /\ Turn(o, side, x) \in Int
        BY <1>4, <1>5
      <4>2. QED
        BY <4>1, Zenon
    <3>2. Ahead(o, x, y) \/ Ahead(o, y, x)
      BY <1>3, AheadOrder
    <3>3. ~(Turn(o, side, x) < Turn(o, side, y)) /\ ~(Turn(o, side, y) < Turn(o, side, x))
      BY <3>1
    <3>4. QED
      BY <1>4, <3>2, <3>3
  <2>2. f \in [all -> 1..n]
    BY <1>4, <1>5
  <2>3. QED
    BY <2>1, <2>2 DEF Injection, IsInjective
<1>7. IsFiniteSet(1..n) /\ Cardinality(1..n) = n
  BY FS_Interval
<1>8. f \in Surjection(all, 1..n)
  BY <1>2, <1>6, <1>7, FS_Injection
<1>9. PICK at : at = [k \in 1..n |-> CHOOSE x \in all : Turn(o, side, x) = k]
  OBVIOUS
<1>10. ASSUME NEW k \in 1..n PROVE at[k] \in all /\ Turn(o, side, at[k]) = k
  <2>1. \E x \in all : Turn(o, side, x) = k
    BY <1>5, <1>8 DEF Surjection
  <2>2. QED
    BY <1>9, <2>1
<1>11. PICK M : M = Makers(o, side)
  OBVIOUS
<1>12. M = [k \in 1..n |-> side.levels[at[k][1]][at[k][2]]]
  BY <1>1, <1>2, <1>9, <1>11 DEF Makers
<1>13. ASSUME NEW k \in 1..n PROVE side.levels[at[k][1]][at[k][2]] \in EntryType
  <2>1. IsPlace(o, side, at[k])
    BY <1>3, <1>10
  <2>2. PICK q : q = side.levels[at[k][1]]
    OBVIOUS
  <2>3. q \in Seq(EntryType) /\ at[k][2] \in DOMAIN q
    BY <2>1, <2>2, SideIsLevelled DEF IsPlace, Levelled
  <2>4. q[at[k][2]] \in EntryType
    BY <2>3
  <2>5. QED
    BY <2>2, <2>4
<1>14. M \in Seq(EntryType) /\ Len(M) = n
  <2>1. M \in [1..n -> EntryType]
    BY <1>12, <1>13
  <2>2. QED
    BY <2>1
<1>15. ASSUME NEW k \in 1..n, NEW m \in 1..n
       PROVE  k < m <=> (Ahead(o, at[k], at[m]) /\ at[k] # at[m])
  <2>1. PICK x \in all : x = at[k] /\ Turn(o, side, x) = k
    BY <1>10
  <2>2. PICK y \in all : y = at[m] /\ Turn(o, side, y) = m
    BY <1>10
  <2>3. Ahead(o, x, y) \/ Ahead(o, y, x)
    BY <1>3, AheadOrder
  <2>4. QED
    BY <1>4, <2>1, <2>2, <2>3
<1>16. ASSUME NEW x \in all PROVE \E k \in 1..n : at[k] = x
  <2>1. f[x] \in 1..n /\ Turn(o, side, at[f[x]]) = f[x] /\ at[f[x]] \in all
    BY <1>4, <1>5, <1>10
  <2>2. f[at[f[x]]] = f[x]
    BY <1>5, <2>1
  <2>3. at[f[x]] = x
    BY <1>6, <2>1, <2>2 DEF Injection, IsInjective
  <2>4. QED
    BY <2>1, <2>3
<1>17. at \in [1..n -> all]
  BY <1>9, <1>10
<1>18. QED
  BY <1>1, <1>11, <1>12, <1>14, <1>15, <1>16, <1>17 DEF Visits

-----------------------------------------------------------------------------
(* The folds of a submission, step by step.                                 *)

PlanStep(o, M, it) ==
    it = [s \in SUBSET DOMAIN M |-> IF s = {} THEN NewPlan(o)
                                    ELSE PlanMaker(o, it[s \ {Max(s)}], M[Max(s)])]
PlanRun(o, M, f) ==
    /\ f \in [0..Len(M) -> PlanType] /\ f[0] = NewPlan(o)
    /\ \A k \in 1..Len(M) : f[k] = PlanMaker(o, f[k - 1], M[k])

\* A plan starts empty.
LEMMA NewPlanType ==
    ASSUME NEW o \in Orders
    PROVE  NewPlan(o) \in PlanType
<1>1. o.amount \in Int /\ o.budget \in Int /\ <<>> \in Seq(TradeType)
  BY OrderType
<1>2. PICK ok \in BOOLEAN : ok = ValidOrder(o)
  BY DEF ValidOrder, RateValid
<1>3. QED
  BY <1>1, <1>2 DEF NewPlan, PlanType

\* plan_order runs through the makers one after the other.
LEMMA PlanRuns ==
    ASSUME NEW o \in Orders, NEW side, Makers(o, side) \in Seq(EntryType)
    PROVE  \E f : PlanRun(o, Makers(o, side), f) /\ PlanOrder(o, side) = f[Len(Makers(o, side))]
<1>1. PICK M \in Seq(EntryType) : M = Makers(o, side)
  OBVIOUS
<1>2. PICK n \in Nat : n = Len(M)
  OBVIOUS
<1>3. DOMAIN M = 1..n /\ \A k \in 1..n : M[k] \in EntryType
  BY <1>2
<1>4. PICK V : V = PlanType
  OBVIOUS
<1>5. PICK base \in V : base = NewPlan(o)
  BY <1>4, NewPlanType
<1>6. PICK G : G = [w \in V \X (1..n) |-> PlanMaker(o, w[1], M[w[2]])]
  OBVIOUS
<1>7. ASSUME NEW v \in V, NEW d \in 1..n
      PROVE  G[<<v, d>>] = PlanMaker(o, v, M[d]) /\ G[<<v, d>>] \in V
  <2>1. G[<<v, d>>] = PlanMaker(o, v, M[d])
    BY <1>6
  <2>2. QED
    BY <1>3, <1>4, <2>1, PlanMakerType
<1>8. PICK h \in [SUBSET (1..n) -> V] : Folds(n, base, G, h)
  BY <1>7, FoldExists
<1>9. ASSUME NEW x \in SUBSET (1..n)
      PROVE  h[x] = IF x = {} THEN base ELSE PlanMaker(o, h[x \ {Max(x)}], M[Max(x)])
  <2>1. h[x] = IF x = {} THEN base ELSE G[<<h[x \ {Max(x)}], Max(x)>>]
    BY <1>8 DEF Folds
  <2>2. CASE x = {}
    BY <2>1, <2>2
  <2>3. CASE x # {}
    <3>1. Max(x) \in 1..n
      BY <2>3, MaxInside
    <3>2. h[x \ {Max(x)}] \in V
      OBVIOUS
    <3>3. QED
      BY <1>7, <2>1, <2>3, <3>1, <3>2
  <2>4. QED
    BY <2>2, <2>3
<1>10. PlanStep(o, M, h)
  <2>1. h = [x \in SUBSET (1..n) |->
               IF x = {} THEN base ELSE PlanMaker(o, h[x \ {Max(x)}], M[Max(x)])]
    BY <1>9
  <2>2. QED
    BY <1>3, <1>5, <2>1 DEF PlanStep
<1>11. PICK it : it = CHOOSE g : PlanStep(o, M, g)
  OBVIOUS
<1>12. PlanStep(o, M, it)
  BY <1>10, <1>11
<1>13. PlanOrder(o, side) = it[1..n]
  <2>1. PlanOrder(o, side) = (CHOOSE g : PlanStep(o, M, g))[DOMAIN M]
    BY <1>1 DEF PlanOrder, FoldLeft, MapThenFoldSet, PlanStep
  <2>2. QED
    BY <1>3, <1>11, <2>1
<1>14. ASSUME NEW x \in SUBSET (1..n)
       PROVE  it[x] = IF x = {} THEN base ELSE PlanMaker(o, it[x \ {Max(x)}], M[Max(x)])
  <2>1. PICK j : j = [s \in SUBSET DOMAIN M |-> IF s = {} THEN NewPlan(o)
                                    ELSE PlanMaker(o, it[s \ {Max(s)}], M[Max(s)])]
    OBVIOUS
  <2>2. it = j
    BY <1>12, <2>1 DEF PlanStep
  <2>3. QED
    BY <1>3, <1>5, <2>1, <2>2
<1>15. PICK f : f = [k \in 0..n |-> it[1..k]]
  OBVIOUS
<1>16. f[0] = base
  <2>1. 1..0 = {}
    OBVIOUS
  <2>2. it[{}] = base
    BY <1>14
  <2>3. QED
    BY <1>15, <2>1, <2>2
<1>17. ASSUME NEW k \in 1..n PROVE f[k] = PlanMaker(o, f[k - 1], M[k])
  <2>1. PICK x : x = 1..k
    OBVIOUS
  <2>2. x \in SUBSET (1..n) /\ k \in x /\ k - 1 \in 0..n
    BY <2>1
  <2>3. Max(x) = k /\ x \ {k} = 1..(k - 1)
    BY <2>1, MaxInside
  <2>4. it[x] = PlanMaker(o, it[1..(k - 1)], M[k])
    BY <1>14, <2>2, <2>3
  <2>5. QED
    BY <1>15, <2>1, <2>2, <2>4
<1>18. \A k \in 0..n : f[k] \in V
  <2>1. PICK T : T = {k \in Nat : k \in 0..n => f[k] \in V}
    OBVIOUS
  <2>2. 0 \in T
    BY <1>16, <2>1
  <2>3. ASSUME NEW k \in Nat, k \in T PROVE k + 1 \in T
    <3>1. SUFFICES ASSUME k + 1 \in 0..n PROVE f[k + 1] \in V
      BY <2>1
    <3>2. k + 1 \in 1..n /\ (k + 1) - 1 = k /\ k \in 0..n
      BY <3>1
    <3>3. f[k + 1] = PlanMaker(o, f[k], M[k + 1]) /\ f[k] \in V /\ M[k + 1] \in EntryType
      BY <1>3, <1>17, <2>1, <2>3, <3>2
    <3>4. PICK v \in PlanType, m \in EntryType : v = f[k] /\ m = M[k + 1]
      BY <1>4, <3>3
    <3>5. PlanMaker(o, v, m) \in PlanType
      BY PlanMakerType
    <3>6. QED
      BY <1>4, <3>3, <3>4, <3>5
  <2>4. \A k \in Nat : k \in T
    BY <2>2, <2>3, Numbers
  <2>5. QED
    BY <2>1, <2>4
<1>19. f \in [0..n -> PlanType]
  BY <1>4, <1>15, <1>18
<1>20. PlanOrder(o, side) = f[n]
  BY <1>13, <1>15
<1>21. QED
  BY <1>1, <1>2, <1>5, <1>16, <1>17, <1>19, <1>20 DEF PlanRun

-----------------------------------------------------------------------------
(* Settlement of one trade.                                                 *)

\* What a change does to each account.
At(x, account, delta) == IF x = account THEN delta ELSE 0
Effect(res, new, account, available, locked) ==
    \A x \in Accounts :
        /\ new.bal[x].available = res.bal[x].available + At(x, account, available)
        /\ new.bal[x].locked = res.bal[x].locked + At(x, account, locked)

\* A movement changes one account and checks it.
LEMMA MoveEffect ==
    ASSUME NEW res \in Candidate, NEW account \in Accounts, NEW available \in Int, NEW locked \in Int
    PROVE  Effect(res, Move(res, account, available, locked), account, available, locked)
<1>1. PICK b : b = res.bal
  OBVIOUS
<1>2. b \in [Accounts -> Row]
  BY <1>1 DEF Candidate
<1>3. PICK row : row = [available |-> b[account].available + available,
                        locked |-> b[account].locked + locked]
  OBVIOUS
<1>4. row.available = b[account].available + available /\ row.locked = b[account].locked + locked
  BY <1>3
<1>5. PICK c : c = [b EXCEPT ![account] = row]
  OBVIOUS
<1>6. c[account] = row /\ \A a \in Accounts : a # account => c[a] = b[a]
  BY <1>2, <1>5
<1>7. PICK new : new = Move(res, account, available, locked)
  OBVIOUS
<1>8. new.bal = c
  BY <1>1, <1>3, <1>5, <1>7 DEF Move
<1>9. \A a \in Accounts : b[a].available \in Int /\ b[a].locked \in Int
  BY <1>2 DEF Row
<1>10. ASSUME NEW x \in Accounts
       PROVE  /\ c[x].available = b[x].available + At(x, account, available)
              /\ c[x].locked = b[x].locked + At(x, account, locked)
  BY <1>4, <1>6, <1>9 DEF At
<1>11. QED
  BY <1>1, <1>7, <1>8, <1>10 DEF Effect

\* A fee of one trade, in one asset.
FeePart(o, t, a) ==
    IF a = Base(o) THEN BuyerFee(o, t) ELSE IF a = QuoteMint(o) THEN SellerFee(o, t) ELSE 0

\* What the settlement of one trade does.
PaysQuote(o, t) == <<Buyer(o, t).user, QuoteMint(o)>>
GetsQuote(o, t) == <<Seller(o, t).user, QuoteMint(o)>>
PaysBase(o, t) == <<Seller(o, t).user, Base(o)>>
GetsBase(o, t) == <<Buyer(o, t).user, Base(o)>>
Settled(o, res, t, new) ==
    /\ new \in Candidate
    /\ \A a \in Assets : Total(new.bal, a) = Total(res.bal, a) - FeePart(o, t, a)
    /\ Checked(res) => Checked(new)
    /\ new.ok => res.ok
    /\ \A x \in Accounts :
          /\ new.bal[x].available = res.bal[x].available
                 + At(x, GetsQuote(o, t), Quote(t.price, t.qty) - SellerFee(o, t))
                 + At(x, GetsBase(o, t), t.qty - BuyerFee(o, t))
          /\ new.bal[x].locked = res.bal[x].locked - At(x, PaysQuote(o, t), Quote(t.price, t.qty))
                                                   - At(x, PaysBase(o, t), t.qty)

\* The parties, assets and fees of a trade.
LEMMA PartyType ==
    ASSUME NEW o \in Orders, NEW t \in TradeType
    PROVE  /\ Buyer(o, t).user \in Users /\ Seller(o, t).user \in Users
           /\ Base(o) \in Assets /\ QuoteMint(o) \in Assets /\ Base(o) # QuoteMint(o)
           /\ BuyerFee(o, t) \in Int /\ SellerFee(o, t) \in Int
           /\ t.qty \in Int /\ t.price \in Int /\ Quote(t.price, t.qty) \in Int
<1>1. t.qty \in Int /\ t.price \in Int /\ t.maker \in EntryType
  BY DEF TradeType
<1>2. t.maker.user \in Users /\ t.maker.fee \in Int
  BY <1>1 DEF EntryType
<1>3. PICK q \in Int : q = Quote(t.price, t.qty)
  BY <1>1, ArithmeticType
<1>4. Base(o) \in Assets /\ QuoteMint(o) \in Assets /\ Base(o) # QuoteMint(o)
  BY OrderType DEF Base, QuoteMint
<1>5. o.user \in Users /\ o.fee \in Int
  BY OrderType
<1>6. PICK f \in Int : f = Buyer(o, t).fee
  BY <1>2, <1>5 DEF Buyer
<1>7. PICK g \in Int : g = Seller(o, t).fee
  BY <1>2, <1>5 DEF Seller
<1>8. BuyerFee(o, t) \in Int /\ SellerFee(o, t) \in Int
  BY <1>1, <1>3, <1>6, <1>7, ArithmeticType DEF BuyerFee, SellerFee
<1>9. QED
  BY <1>1, <1>2, <1>3, <1>4, <1>5, <1>8 DEF Buyer, Seller

\* What settle_trade does to the accounts of both parties.
LEMMA SettleOne ==
    ASSUME NEW o \in Orders, NEW res \in Candidate, NEW t \in TradeType
    PROVE  Settled(o, res, t, SettleTrade(o, res, t))
<1>1. PICK b \in Users, s \in Users : b = Buyer(o, t).user /\ s = Seller(o, t).user
  BY PartyType
<1>2. PICK base \in Assets, mint \in Assets : base = Base(o) /\ mint = QuoteMint(o) /\ base # mint
  BY PartyType
<1>3. PICK bfee \in Int, sfee \in Int : bfee = BuyerFee(o, t) /\ sfee = SellerFee(o, t)
  BY PartyType
<1>4. PICK qty \in Int, quote \in Int : qty = t.qty /\ quote = Quote(t.price, t.qty)
  BY PartyType
<1>5. PICK a1 \in Accounts, a2 \in Accounts, a3 \in Accounts, a4 \in Accounts :
         a1 = <<b, mint>> /\ a2 = <<s, mint>> /\ a3 = <<s, base>> /\ a4 = <<b, base>>
  BY DEF Accounts
<1>6. PICK d1 \in Int, d2 \in Int, d3 \in Int, d4 \in Int :
         d1 = -quote /\ d2 = quote - sfee /\ d3 = -qty /\ d4 = qty - bfee
  OBVIOUS
<1>7. PICK r1 : r1 = Move(res, a1, 0, d1)
  OBVIOUS
<1>8. PICK r2 : r2 = Move(r1, a2, d2, 0)
  OBVIOUS
<1>9. PICK r3 : r3 = Move(r2, a3, 0, d3)
  OBVIOUS
<1>10. PICK r4 : r4 = Move(r3, a4, d4, 0)
  OBVIOUS
<1>11. SettleTrade(o, res, t) = r4
  BY <1>1, <1>2, <1>3, <1>4, <1>5, <1>6, <1>7, <1>8, <1>9, <1>10 DEF SettleTrade
<1>12. Moved(res, r1, mint, d1) /\ Effect(res, r1, a1, 0, d1) /\ r1 \in Candidate
  <2>1. Moved(res, r1, mint, 0 + d1)
    BY <1>5, <1>7, MoveTotal
  <2>2. QED
    BY <1>7, <2>1, MoveEffect DEF Moved
<1>13. Moved(r1, r2, mint, d2) /\ Effect(r1, r2, a2, d2, 0) /\ r2 \in Candidate
  <2>1. Moved(r1, r2, mint, d2 + 0)
    BY <1>5, <1>8, <1>12, MoveTotal
  <2>2. QED
    BY <1>8, <1>12, <2>1, MoveEffect DEF Moved
<1>14. Moved(r2, r3, base, d3) /\ Effect(r2, r3, a3, 0, d3) /\ r3 \in Candidate
  <2>1. Moved(r2, r3, base, 0 + d3)
    BY <1>5, <1>9, <1>13, MoveTotal
  <2>2. QED
    BY <1>9, <1>13, <2>1, MoveEffect DEF Moved
<1>15. Moved(r3, r4, base, d4) /\ Effect(r3, r4, a4, d4, 0) /\ r4 \in Candidate
  <2>1. Moved(r3, r4, base, d4 + 0)
    BY <1>5, <1>10, <1>14, MoveTotal
  <2>2. QED
    BY <1>10, <1>14, <2>1, MoveEffect DEF Moved
<1>16. ASSUME NEW a \in Assets PROVE Total(r4.bal, a) = Total(res.bal, a) - FeePart(o, t, a)
  <2>1. Total(res.bal, a) \in Int
    BY HoldingsNumeric DEF Candidate
  <2>2. /\ Total(r1.bal, a) = Total(res.bal, a) + (IF a = mint THEN d1 ELSE 0)
        /\ Total(r2.bal, a) = Total(r1.bal, a) + (IF a = mint THEN d2 ELSE 0)
        /\ Total(r3.bal, a) = Total(r2.bal, a) + (IF a = base THEN d3 ELSE 0)
        /\ Total(r4.bal, a) = Total(r3.bal, a) + (IF a = base THEN d4 ELSE 0)
    BY <1>12, <1>13, <1>14, <1>15 DEF Moved
  <2>3. FeePart(o, t, a) = IF a = base THEN bfee ELSE IF a = mint THEN sfee ELSE 0
    BY <1>2, <1>3 DEF FeePart
  <2>4. QED
    BY <1>2, <1>6, <2>1, <2>2, <2>3
<1>17. (Checked(res) => Checked(r4)) /\ (r4.ok => res.ok)
  BY <1>12, <1>13, <1>14, <1>15 DEF Moved
<1>18. ASSUME NEW x \in Accounts
       PROVE  /\ r4.bal[x].available = res.bal[x].available + At(x, a2, quote - sfee) + At(x, a4, qty - bfee)
              /\ r4.bal[x].locked = res.bal[x].locked - At(x, a1, quote) - At(x, a3, qty)
  <2>1. res.bal[x].available \in Int /\ res.bal[x].locked \in Int
    BY DEF Candidate, Row
  <2>2. /\ r1.bal[x].available = res.bal[x].available + 0
        /\ r2.bal[x].available = r1.bal[x].available + At(x, a2, d2)
        /\ r3.bal[x].available = r2.bal[x].available + 0
        /\ r4.bal[x].available = r3.bal[x].available + At(x, a4, d4)
    BY <1>12, <1>13, <1>14, <1>15 DEF Effect, At
  <2>3. /\ r1.bal[x].locked = res.bal[x].locked + At(x, a1, d1)
        /\ r2.bal[x].locked = r1.bal[x].locked + 0
        /\ r3.bal[x].locked = r2.bal[x].locked + At(x, a3, d3)
        /\ r4.bal[x].locked = r3.bal[x].locked + 0
    BY <1>12, <1>13, <1>14, <1>15 DEF Effect, At
  <2>4. At(x, a2, d2) \in Int /\ At(x, a4, d4) \in Int
    BY DEF At
  <2>5. At(x, a1, d1) = -At(x, a1, quote) /\ At(x, a3, d3) = -At(x, a3, qty)
        /\ At(x, a1, quote) \in Int /\ At(x, a3, qty) \in Int
    BY <1>6 DEF At
  <2>6. r4.bal[x].available = res.bal[x].available + At(x, a2, d2) + At(x, a4, d4)
    BY <2>1, <2>2, <2>4
  <2>7. r4.bal[x].locked = res.bal[x].locked - At(x, a1, quote) - At(x, a3, qty)
    BY <2>1, <2>3, <2>5
  <2>8. QED
    BY <1>6, <2>6, <2>7
<1>19. /\ PaysQuote(o, t) = a1 /\ GetsQuote(o, t) = a2 /\ PaysBase(o, t) = a3 /\ GetsBase(o, t) = a4
  BY <1>1, <1>2, <1>5 DEF PaysQuote, GetsQuote, PaysBase, GetsBase
<1>20. QED
  BY <1>3, <1>4, <1>11, <1>15, <1>16, <1>17, <1>18, <1>19 DEF Settled

-----------------------------------------------------------------------------
(* The settlements of a submission, one after the other.                    *)

\* The fee of a trade in an asset is an integer.
LEMMA FeePartType ==
    ASSUME NEW o \in Orders, NEW t \in TradeType, NEW a
    PROVE  FeePart(o, t, a) \in Int
BY PartyType DEF FeePart

SettleAll(o, base, trades) == FoldLeft(LAMBDA res, t : SettleTrade(o, res, t), base, trades)

SettleStep(o, base, trades, it) ==
    it = [s \in SUBSET DOMAIN trades |-> IF s = {} THEN base
                                    ELSE SettleTrade(o, it[s \ {Max(s)}], trades[Max(s)])]
SettleRun(o, base, trades, f) ==
    /\ f \in [0..Len(trades) -> Candidate] /\ f[0] = base
    /\ \A k \in 1..Len(trades) : f[k] = SettleTrade(o, f[k - 1], trades[k])

\* The settlement runs through the trades one after the other.
LEMMA SettleRuns ==
    ASSUME NEW o \in Orders, NEW base \in Candidate, NEW trades \in Seq(TradeType)
    PROVE  \E f : SettleRun(o, base, trades, f) /\ SettleAll(o, base, trades)
                                            = f[Len(trades)]
<1>1. PICK n \in Nat : n = Len(trades)
  OBVIOUS
<1>2. DOMAIN trades = 1..n /\ \A k \in 1..n : trades[k] \in TradeType
  BY <1>1
<1>3. PICK V : V = Candidate
  OBVIOUS
<1>4. PICK start \in V : start = base
  BY <1>3
<1>5. PICK G : G = [w \in V \X (1..n) |-> SettleTrade(o, w[1], trades[w[2]])]
  OBVIOUS
<1>6. ASSUME NEW v \in V, NEW d \in 1..n
      PROVE  G[<<v, d>>] = SettleTrade(o, v, trades[d]) /\ G[<<v, d>>] \in V
  <2>1. G[<<v, d>>] = SettleTrade(o, v, trades[d])
    BY <1>5
  <2>2. QED
    BY <1>2, <1>3, <2>1, SettleOne DEF Settled
<1>7. PICK h \in [SUBSET (1..n) -> V] : Folds(n, start, G, h)
  BY <1>6, FoldExists
<1>8. ASSUME NEW x \in SUBSET (1..n)
      PROVE  h[x] = IF x = {} THEN start ELSE SettleTrade(o, h[x \ {Max(x)}], trades[Max(x)])
  <2>1. h[x] = IF x = {} THEN start ELSE G[<<h[x \ {Max(x)}], Max(x)>>]
    BY <1>7 DEF Folds
  <2>2. CASE x = {}
    BY <2>1, <2>2
  <2>3. CASE x # {}
    <3>1. Max(x) \in 1..n
      BY <2>3, MaxInside
    <3>2. h[x \ {Max(x)}] \in V
      OBVIOUS
    <3>3. QED
      BY <1>6, <2>1, <2>3, <3>1, <3>2
  <2>4. QED
    BY <2>2, <2>3
<1>9. SettleStep(o, base, trades, h)
  <2>1. h = [x \in SUBSET (1..n) |->
               IF x = {} THEN start ELSE SettleTrade(o, h[x \ {Max(x)}], trades[Max(x)])]
    BY <1>8
  <2>2. QED
    BY <1>2, <1>4, <2>1 DEF SettleStep
<1>10. PICK it : it = CHOOSE g : SettleStep(o, base, trades, g)
  OBVIOUS
<1>11. SettleStep(o, base, trades, it)
  BY <1>9, <1>10
<1>12. SettleAll(o, base, trades) = it[1..n]
  <2>1. SettleAll(o, base, trades)
          = (CHOOSE g : SettleStep(o, base, trades, g))[DOMAIN trades]
    BY DEF SettleAll, FoldLeft, MapThenFoldSet, SettleStep
  <2>2. QED
    BY <1>2, <1>10, <2>1
<1>13. ASSUME NEW x \in SUBSET (1..n)
       PROVE  it[x] = IF x = {} THEN start ELSE SettleTrade(o, it[x \ {Max(x)}], trades[Max(x)])
  <2>1. PICK j : j = [s \in SUBSET DOMAIN trades |-> IF s = {} THEN base
                                    ELSE SettleTrade(o, it[s \ {Max(s)}], trades[Max(s)])]
    OBVIOUS
  <2>2. it = j
    BY <1>11, <2>1 DEF SettleStep
  <2>3. QED
    BY <1>2, <1>4, <2>1, <2>2
<1>14. PICK f : f = [k \in 0..n |-> it[1..k]]
  OBVIOUS
<1>15. f[0] = start
  <2>1. 1..0 = {}
    OBVIOUS
  <2>2. it[{}] = start
    BY <1>13
  <2>3. QED
    BY <1>14, <2>1, <2>2
<1>16. ASSUME NEW k \in 1..n PROVE f[k] = SettleTrade(o, f[k - 1], trades[k])
  <2>1. PICK x : x = 1..k
    OBVIOUS
  <2>2. x \in SUBSET (1..n) /\ k \in x /\ k - 1 \in 0..n
    BY <2>1
  <2>3. Max(x) = k /\ x \ {k} = 1..(k - 1)
    BY <2>1, MaxInside
  <2>4. it[x] = SettleTrade(o, it[1..(k - 1)], trades[k])
    BY <1>13, <2>2, <2>3
  <2>5. QED
    BY <1>14, <2>1, <2>2, <2>4
<1>17. \A k \in 0..n : f[k] \in V
  <2>1. PICK T : T = {k \in Nat : k \in 0..n => f[k] \in V}
    OBVIOUS
  <2>2. 0 \in T
    BY <1>15, <2>1
  <2>3. ASSUME NEW k \in Nat, k \in T PROVE k + 1 \in T
    <3>1. SUFFICES ASSUME k + 1 \in 0..n PROVE f[k + 1] \in V
      BY <2>1
    <3>2. k + 1 \in 1..n /\ (k + 1) - 1 = k /\ k \in 0..n
      BY <3>1
    <3>3. f[k + 1] = SettleTrade(o, f[k], trades[k + 1]) /\ f[k] \in V
      BY <1>16, <2>1, <2>3, <3>2
    <3>4. PICK v \in V, d \in 1..n : v = f[k] /\ d = k + 1
      BY <3>2, <3>3
    <3>5. QED
      BY <1>6, <3>3, <3>4
  <2>4. \A k \in Nat : k \in T
    BY <2>2, <2>3, Numbers
  <2>5. QED
    BY <2>1, <2>4
<1>18. f \in [0..n -> Candidate]
  BY <1>3, <1>14, <1>17
<1>19. SettleAll(o, base, trades) = f[n]
  BY <1>12, <1>14
<1>20. QED
  BY <1>1, <1>4, <1>15, <1>16, <1>18, <1>19 DEF SettleRun

FeeStep(o, trades, a, it) ==
    it = [s \in SUBSET DOMAIN trades |-> IF s = {} THEN 0
                                    ELSE it[s \ {Max(s)}] + FeePart(o, trades[Max(s)], a)]
FeeRun(o, trades, a, f) ==
    /\ f \in [0..Len(trades) -> Int] /\ f[0] = 0
    /\ \A k \in 1..Len(trades) : f[k] = f[k - 1] + FeePart(o, trades[k], a)

\* The fees are collected trade by trade.
LEMMA FeeRuns ==
    ASSUME NEW o \in Orders, NEW trades \in Seq(TradeType), NEW a
    PROVE  \E f : FeeRun(o, trades, a, f) /\ FeesOf(o, trades, a)
                                            = f[Len(trades)]
<1>1. PICK n \in Nat : n = Len(trades)
  OBVIOUS
<1>2. DOMAIN trades = 1..n /\ \A k \in 1..n : trades[k] \in TradeType
  BY <1>1
<1>3. PICK V : V = Int
  OBVIOUS
<1>4. PICK start \in V : start = 0
  BY <1>3
<1>5. PICK G : G = [w \in V \X (1..n) |-> w[1] + FeePart(o, trades[w[2]], a)]
  OBVIOUS
<1>6. ASSUME NEW v \in V, NEW d \in 1..n
      PROVE  G[<<v, d>>] = v + FeePart(o, trades[d], a) /\ G[<<v, d>>] \in V
  <2>1. G[<<v, d>>] = v + FeePart(o, trades[d], a)
    BY <1>5
  <2>2. QED
    BY <1>2, <1>3, <2>1, FeePartType
<1>7. PICK h \in [SUBSET (1..n) -> V] : Folds(n, start, G, h)
  BY <1>6, FoldExists
<1>8. ASSUME NEW x \in SUBSET (1..n)
      PROVE  h[x] = IF x = {} THEN start ELSE h[x \ {Max(x)}] + FeePart(o, trades[Max(x)], a)
  <2>1. h[x] = IF x = {} THEN start ELSE G[<<h[x \ {Max(x)}], Max(x)>>]
    BY <1>7 DEF Folds
  <2>2. CASE x = {}
    BY <2>1, <2>2
  <2>3. CASE x # {}
    <3>1. Max(x) \in 1..n
      BY <2>3, MaxInside
    <3>2. h[x \ {Max(x)}] \in V
      OBVIOUS
    <3>3. QED
      BY <1>6, <2>1, <2>3, <3>1, <3>2
  <2>4. QED
    BY <2>2, <2>3
<1>9. FeeStep(o, trades, a, h)
  <2>1. h = [x \in SUBSET (1..n) |->
               IF x = {} THEN start ELSE h[x \ {Max(x)}] + FeePart(o, trades[Max(x)], a)]
    BY <1>8
  <2>2. QED
    BY <1>2, <1>4, <2>1 DEF FeeStep
<1>10. PICK it : it = CHOOSE g : FeeStep(o, trades, a, g)
  OBVIOUS
<1>11. FeeStep(o, trades, a, it)
  BY <1>9, <1>10
<1>12. FeesOf(o, trades, a) = it[1..n]
  <2>1. FeesOf(o, trades, a)
          = (CHOOSE g : FeeStep(o, trades, a, g))[DOMAIN trades]
    BY DEF FeesOf, FoldLeft, MapThenFoldSet, FeeStep, FeePart
  <2>2. QED
    BY <1>2, <1>10, <2>1
<1>13. ASSUME NEW x \in SUBSET (1..n)
       PROVE  it[x] = IF x = {} THEN start ELSE it[x \ {Max(x)}] + FeePart(o, trades[Max(x)], a)
  <2>1. PICK j : j = [s \in SUBSET DOMAIN trades |-> IF s = {} THEN 0
                                    ELSE it[s \ {Max(s)}] + FeePart(o, trades[Max(s)], a)]
    OBVIOUS
  <2>2. it = j
    BY <1>11, <2>1 DEF FeeStep
  <2>3. QED
    BY <1>2, <1>4, <2>1, <2>2
<1>14. PICK f : f = [k \in 0..n |-> it[1..k]]
  OBVIOUS
<1>15. f[0] = start
  <2>1. 1..0 = {}
    OBVIOUS
  <2>2. it[{}] = start
    BY <1>13
  <2>3. QED
    BY <1>14, <2>1, <2>2
<1>16. ASSUME NEW k \in 1..n PROVE f[k] = f[k - 1] + FeePart(o, trades[k], a)
  <2>1. PICK x : x = 1..k
    OBVIOUS
  <2>2. x \in SUBSET (1..n) /\ k \in x /\ k - 1 \in 0..n
    BY <2>1
  <2>3. Max(x) = k /\ x \ {k} = 1..(k - 1)
    BY <2>1, MaxInside
  <2>4. it[x] = it[1..(k - 1)] + FeePart(o, trades[k], a)
    BY <1>13, <2>2, <2>3
  <2>5. QED
    BY <1>14, <2>1, <2>2, <2>4
<1>17. \A k \in 0..n : f[k] \in V
  <2>1. PICK T : T = {k \in Nat : k \in 0..n => f[k] \in V}
    OBVIOUS
  <2>2. 0 \in T
    BY <1>15, <2>1
  <2>3. ASSUME NEW k \in Nat, k \in T PROVE k + 1 \in T
    <3>1. SUFFICES ASSUME k + 1 \in 0..n PROVE f[k + 1] \in V
      BY <2>1
    <3>2. k + 1 \in 1..n /\ (k + 1) - 1 = k /\ k \in 0..n
      BY <3>1
    <3>3. f[k + 1] = f[k] + FeePart(o, trades[k + 1], a) /\ f[k] \in V
      BY <1>16, <2>1, <2>3, <3>2
    <3>4. PICK v \in V, d \in 1..n : v = f[k] /\ d = k + 1
      BY <3>2, <3>3
    <3>5. QED
      BY <1>6, <3>3, <3>4
  <2>4. \A k \in Nat : k \in T
    BY <2>2, <2>3, Numbers
  <2>5. QED
    BY <2>1, <2>4
<1>18. f \in [0..n -> Int]
  BY <1>3, <1>14, <1>17
<1>19. FeesOf(o, trades, a) = f[n]
  BY <1>12, <1>14
<1>20. QED
  BY <1>1, <1>4, <1>15, <1>16, <1>18, <1>19 DEF FeeRun

-----------------------------------------------------------------------------
(* Funds of a submission.                                                   *)

\* A reservation moves an amount within an account.
Reserves(res, new, account, value) ==
    /\ new \in Candidate /\ Effect(res, new, account, -value, value)
    /\ \A a \in Assets : Total(new.bal, a) = Total(res.bal, a)
    /\ Checked(res) => Checked(new)
    /\ new.ok => res.ok

\* Moving between available and locked keeps the holding.
LEMMA ReserveMoves ==
    ASSUME NEW res \in Candidate, NEW account \in Accounts, NEW value \in Int, NEW ok,
           NEW new, new = [Move(res, account, -value, value) EXCEPT !.ok = @ /\ ok]
    PROVE  Reserves(res, new, account, value)
<1>1. PICK user \in Users, asset \in Assets : account = <<user, asset>>
  BY DEF Accounts
<1>2. PICK minus \in Int : minus = -value
  OBVIOUS
<1>3. PICK mid : mid = Move(res, account, minus, value)
  OBVIOUS
<1>4. Moved(res, mid, asset, minus + value)
  BY <1>1, <1>3, MoveTotal
<1>5. minus + value = 0
  BY <1>2
<1>6. Effect(res, mid, account, minus, value)
  BY <1>3, MoveEffect
<1>7. mid \in Candidate /\ (Checked(res) => Checked(mid)) /\ (mid.ok => res.ok)
  BY <1>4 DEF Moved
<1>8. new = [mid EXCEPT !.ok = mid.ok /\ ok]
  BY <1>2, <1>3, <1>7 DEF Candidate
<1>9. new \in Candidate /\ new.bal = mid.bal /\ (new.ok => mid.ok)
  BY <1>7, <1>8 DEF Candidate
<1>10. Effect(res, new, account, minus, value)
  BY <1>6, <1>9 DEF Effect
<1>11. \A a \in Assets : Total(new.bal, a) = Total(res.bal, a)
  <2>1. \A a \in Assets : Total(res.bal, a) \in Int
    BY HoldingsNumeric DEF Candidate
  <2>2. QED
    BY <1>4, <1>5, <1>9, <2>1 DEF Moved
<1>12. Checked(res) => Checked(new)
  BY <1>7, <1>9 DEF Checked
<1>13. QED
  BY <1>2, <1>7, <1>9, <1>10, <1>11, <1>12 DEF Reserves

\* lock and unlock move between available and locked.
LEMMA LockReserves ==
    ASSUME NEW res \in Candidate, NEW account \in Accounts, NEW value \in Int
    PROVE  /\ Reserves(res, Lock(res, account, value), account, value)
           /\ Reserves(res, Unlock(res, account, value), account, -value)
<1>1. PICK minus \in Int : minus = -value
  OBVIOUS
<1>2. -minus = value
  BY <1>1
<1>3. PICK ok : ok = (value > 0)
  OBVIOUS
<1>4. Lock(res, account, value) = [Move(res, account, -value, value) EXCEPT !.ok = @ /\ ok]
  BY <1>3 DEF Lock
<1>5. Unlock(res, account, value) = [Move(res, account, -minus, minus) EXCEPT !.ok = @ /\ ok]
  BY <1>1, <1>2, <1>3 DEF Unlock
<1>6. QED
  BY <1>1, <1>4, <1>5, ReserveMoves

\* Settlement withholds the fees, and nothing else.
LEMMA SettleTotals ==
    ASSUME NEW o \in Orders, NEW base \in Candidate, NEW trades \in Seq(TradeType)
    PROVE  /\ SettleAll(o, base, trades) \in Candidate
           /\ \A a \in Assets : /\ FeesOf(o, trades, a) \in Int
                                /\ Total(SettleAll(o, base, trades).bal, a)
                                   = Total(base.bal, a) - FeesOf(o, trades, a)
           /\ Checked(base) => Checked(SettleAll(o, base, trades))
           /\ SettleAll(o, base, trades).ok => base.ok
<1>1. PICK g : SettleRun(o, base, trades, g) /\ SettleAll(o, base, trades) = g[Len(trades)]
  BY SettleRuns
<1>2. PICK n \in Nat : n = Len(trades)
  OBVIOUS
<1>3. /\ g \in [0..n -> Candidate] /\ g[0] = base
      /\ \A k \in 1..n : g[k] = SettleTrade(o, g[k - 1], trades[k])
  BY <1>1, <1>2 DEF SettleRun
<1>4. ASSUME NEW k \in 1..n PROVE Settled(o, g[k - 1], trades[k], g[k])
  <2>1. k - 1 \in 0..n
    OBVIOUS
  <2>2. PICK v \in Candidate, t \in TradeType : v = g[k - 1] /\ t = trades[k]
    BY <1>2, <1>3, <2>1
  <2>3. Settled(o, v, t, SettleTrade(o, v, t))
    BY SettleOne
  <2>4. QED
    BY <1>3, <2>2, <2>3
<1>5. (Checked(base) => Checked(g[n])) /\ (g[n].ok => base.ok)
  <2>1. PICK T : T = {k \in Nat : k \in 0..n => (Checked(base) => Checked(g[k])) /\ (g[k].ok => base.ok)}
    OBVIOUS
  <2>2. 0 \in T
    BY <1>3, <2>1
  <2>3. ASSUME NEW k \in Nat, k \in T PROVE k + 1 \in T
    <3>1. SUFFICES ASSUME k + 1 \in 0..n
                   PROVE  (Checked(base) => Checked(g[k + 1])) /\ (g[k + 1].ok => base.ok)
      BY <2>1
    <3>2. k + 1 \in 1..n /\ (k + 1) - 1 = k /\ k \in 0..n
      BY <3>1
    <3>3. Settled(o, g[k], trades[k + 1], g[k + 1])
      BY <1>4, <3>2
    <3>4. QED
      BY <2>1, <2>3, <3>2, <3>3 DEF Settled
  <2>4. \A k \in Nat : k \in T
    BY <2>2, <2>3, Numbers
  <2>5. QED
    BY <2>1, <2>4
<1>6. ASSUME NEW a \in Assets
      PROVE  FeesOf(o, trades, a) \in Int /\ Total(g[n].bal, a) = Total(base.bal, a) - FeesOf(o, trades, a)
  <2>1. PICK f : FeeRun(o, trades, a, f) /\ FeesOf(o, trades, a) = f[n]
    BY <1>2, FeeRuns
  <2>2. /\ f \in [0..n -> Int] /\ f[0] = 0
        /\ \A k \in 1..n : f[k] = f[k - 1] + FeePart(o, trades[k], a)
    BY <1>2, <2>1 DEF FeeRun
  <2>3. PICK tot \in Int : tot = Total(base.bal, a)
    BY HoldingsNumeric DEF Candidate
  <2>4. PICK T : T = {k \in Nat : k \in 0..n => Total(g[k].bal, a) = tot - f[k]}
    OBVIOUS
  <2>5. 0 \in T
    BY <1>3, <2>2, <2>3, <2>4
  <2>6. ASSUME NEW k \in Nat, k \in T PROVE k + 1 \in T
    <3>1. SUFFICES ASSUME k + 1 \in 0..n PROVE Total(g[k + 1].bal, a) = tot - f[k + 1]
      BY <2>4
    <3>2. k + 1 \in 1..n /\ (k + 1) - 1 = k /\ k \in 0..n
      BY <3>1
    <3>3. Settled(o, g[k], trades[k + 1], g[k + 1])
      BY <1>4, <3>2
    <3>4. PICK p \in Int : p = FeePart(o, trades[k + 1], a)
      BY <1>2, <3>2, FeePartType
    <3>5. Total(g[k + 1].bal, a) = Total(g[k].bal, a) - p
      BY <3>3, <3>4 DEF Settled
    <3>6. Total(g[k].bal, a) = tot - f[k] /\ f[k + 1] = f[k] + p /\ f[k] \in Int
      BY <2>2, <2>4, <2>6, <3>2, <3>4
    <3>7. QED
      BY <3>5, <3>6
  <2>7. \A k \in Nat : k \in T
    BY <2>5, <2>6, Numbers
  <2>8. n \in 0..n /\ f[n] \in Int
    BY <2>2
  <2>9. QED
    BY <2>1, <2>3, <2>4, <2>7, <2>8
<1>7. g[n] \in Candidate
  BY <1>3
<1>8. QED
  BY <1>1, <1>2, <1>5, <1>6, <1>7

\* The parts of a submission.
PayAccount(o) == <<o.user, PayMint(o)>>
Locked(o, plan, b) == Lock([ok |-> plan.ok, bal |-> b], PayAccount(o), Reserved(o))
Refund(o, plan) ==
    Reserved(o) - (IF IsBuy(o) THEN plan.quote ELSE plan.amount) - StillReserved(o, plan)
Freed(o, plan, settled) ==
    IF Refund(o, plan) = 0 THEN settled ELSE Unlock(settled, PayAccount(o), Refund(o, plan))

\* A submission is lock, settlement, refund and commit_book.
LEMMA SubmissionParts ==
    ASSUME NEW o, NEW book, NEW b, NEW plan, plan = PlanOrder(o, book[Opposite(o)])
    PROVE  /\ Submission(o, book, b).ok =
                  (/\ Freed(o, plan, SettleAll(o, Locked(o, plan, b), plan.trades)).ok
                   /\ IsLimit(o) /\ IsBuy(o) => QuoteExact(o.price, plan.remaining))
           /\ Submission(o, book, b).bal = Freed(o, plan, SettleAll(o, Locked(o, plan, b), plan.trades)).bal
           /\ Submission(o, book, b).book = CommitBook(book, o, plan)
           /\ Submission(o, book, b).trades = plan.trades
BY DEF Submission, SettleAll, Locked, Refund, Freed, PayAccount

\* The account and the amounts a submission reserves.
LEMMA AmountsType ==
    ASSUME NEW o \in Orders, NEW plan \in PlanType
    PROVE  /\ PayAccount(o) \in Accounts /\ Reserved(o) \in Int
           /\ StillReserved(o, plan) \in Int /\ Refund(o, plan) \in Int
<1>1. /\ o.price \in Int /\ o.amount \in Int /\ o.budget \in Int
      /\ o.user \in Users /\ Base(o) \in Assets /\ QuoteMint(o) \in Assets
  BY OrderType DEF Base, QuoteMint
<1>2. plan.remaining \in Int /\ plan.quote \in Int /\ plan.amount \in Int
  BY DEF PlanType
<1>3. PayAccount(o) \in Accounts
  BY <1>1 DEF PayAccount, PayMint, Accounts
<1>4. Reserved(o) \in Int
  BY <1>1, ArithmeticType DEF Reserved
<1>5. StillReserved(o, plan) \in Int
  <2>1. Quote(o.price, plan.remaining) \in Int
    BY <1>1, <1>2, ArithmeticType
  <2>2. QED
    BY <1>2, <2>1 DEF StillReserved
<1>6. QED
  BY <1>2, <1>3, <1>4, <1>5 DEF Refund

\* An accepted submission moves funds between users, apart from the fees.
LEMMA SubmissionFunds ==
    ASSUME NEW o \in Orders, NEW book, NEW b \in [Accounts -> Row], WithinLimits(b),
           PlanOrder(o, book[Opposite(o)]) \in PlanType, Submission(o, book, b).ok
    PROVE  /\ Submission(o, book, b).bal \in [Accounts -> Row]
           /\ WithinLimits(Submission(o, book, b).bal)
           /\ \A a \in Assets : /\ FeesOf(o, Submission(o, book, b).trades, a) \in Int
                                /\ Total(Submission(o, book, b).bal, a)
                                   = Total(b, a) - FeesOf(o, Submission(o, book, b).trades, a)
<1>1. PICK plan \in PlanType : plan = PlanOrder(o, book[Opposite(o)])
  OBVIOUS
<1>2. plan.trades \in Seq(TradeType) /\ plan.ok \in BOOLEAN
  BY DEF PlanType
<1>3. PICK account \in Accounts, reserved \in Int, refund \in Int :
         account = PayAccount(o) /\ reserved = Reserved(o) /\ refund = Refund(o, plan)
  BY AmountsType
<1>4. PICK start \in Candidate : start = [ok |-> plan.ok, bal |-> b]
  BY <1>2 DEF Candidate
<1>5. start.bal = b /\ Checked(start)
  BY <1>4 DEF Checked
<1>6. PICK locked : locked = Lock(start, account, reserved)
  OBVIOUS
<1>7. Reserves(start, locked, account, reserved)
  BY <1>6, LockReserves
<1>8. locked \in Candidate /\ Checked(locked) /\ \A a \in Assets : Total(locked.bal, a) = Total(b, a)
  BY <1>5, <1>7 DEF Reserves
<1>9. PICK settled : settled = SettleAll(o, locked, plan.trades)
  OBVIOUS
<1>10. /\ settled \in Candidate /\ Checked(settled)
       /\ \A a \in Assets : /\ FeesOf(o, plan.trades, a) \in Int
                            /\ Total(settled.bal, a) = Total(b, a) - FeesOf(o, plan.trades, a)
  BY <1>2, <1>8, <1>9, SettleTotals
<1>11. PICK freed : freed = Freed(o, plan, settled)
  OBVIOUS
<1>12. /\ freed \in Candidate /\ Checked(freed)
       /\ \A a \in Assets : Total(freed.bal, a) = Total(settled.bal, a)
  <2>1. CASE refund = 0
    BY <1>3, <1>10, <1>11, <2>1 DEF Freed
  <2>2. CASE refund # 0
    <3>1. freed = Unlock(settled, account, refund)
      BY <1>3, <1>11, <2>2 DEF Freed
    <3>2. Reserves(settled, freed, account, -refund)
      BY <1>10, <3>1, LockReserves
    <3>3. QED
      BY <1>10, <3>2 DEF Reserves
  <2>3. QED
    BY <2>1, <2>2
<1>13. locked = Locked(o, plan, b)
  BY <1>3, <1>4, <1>6 DEF Locked
<1>14. /\ Submission(o, book, b).bal = freed.bal /\ Submission(o, book, b).trades = plan.trades
       /\ freed.ok
  BY <1>1, <1>9, <1>11, <1>13, SubmissionParts
<1>15. WithinLimits(freed.bal) /\ freed.bal \in [Accounts -> Row]
  BY <1>12, <1>14 DEF Checked, Candidate
<1>16. QED
  BY <1>10, <1>12, <1>14, <1>15

-----------------------------------------------------------------------------
(* What plan_levels has planned after k makers.                             *)

TradesWith(p, m) == \E i \in DOMAIN p.trades : p.trades[i].maker = m
Fills(p, m) == \E i \in DOMAIN p.trades : p.trades[i].maker = m /\ p.trades[i].qty = m.remaining

Sourced(M, k, p) == \A i \in DOMAIN p.trades : \E j \in 1..k : p.trades[i].maker = M[j]
Distinct(p) ==
    \A i, j \in DOMAIN p.trades : p.trades[i].maker.id = p.trades[j].maker.id => i = j
FairTrade(o, t) ==
    /\ t.price = t.maker.price /\ t.qty > 0 /\ t.qty <= t.maker.remaining
    /\ QuoteExact(t.price, t.qty) /\ t.maker.user # o.user /\ t.maker.id # o.id
    /\ ValidEntry(t.maker, t.maker.price)
Accounted(o, p) ==
    IF IsBudget(o)
    THEN p.remaining = o.amount /\ p.budget = o.budget - p.quote /\ p.budget >= 0
    ELSE p.remaining = o.amount - p.amount /\ p.remaining >= 0
Complete(o, M, k, p) ==
    ~IsBudget(o) /\ p.remaining > 0 => \A j \in 1..k : M[j].user # o.user => Fills(p, M[j])
InTurn(o, M, k, p) ==
    ~IsBudget(o) => \A j \in 1..k : TradesWith(p, M[j]) =>
                        \A i \in 1..(j - 1) : M[i].user # o.user => Fills(p, M[i])
Planned(o, M, k, p) ==
    p.ok => /\ ValidOrder(o) /\ Accounted(o, p)
            /\ Sourced(M, k, p) /\ Distinct(p)
            /\ \A i \in DOMAIN p.trades : FairTrade(o, p.trades[i])
            /\ Complete(o, M, k, p) /\ InTurn(o, M, k, p)
\* No two makers have the same id.
OwnIds(M) == \A i, j \in DOMAIN M : M[i].id = M[j].id => i = j

\* Planned holds before the first maker.
LEMMA PlannedFirst ==
    ASSUME NEW o \in Orders, NEW M
    PROVE  Planned(o, M, 0, NewPlan(o))
<1>1. PICK p : p = NewPlan(o)
  OBVIOUS
<1>2. /\ p.ok = ValidOrder(o) /\ p.remaining = o.amount /\ p.budget = o.budget
      /\ p.amount = 0 /\ p.quote = 0 /\ p.trades = <<>>
  BY <1>1 DEF NewPlan
<1>3. o.amount \in Int /\ o.budget \in Int
  BY OrderType
<1>4. DOMAIN p.trades = {}
  <2>1. <<>> \in Seq({}) /\ Len(<<>>) = 0
    OBVIOUS
  <2>2. DOMAIN <<>> = 1..0
    BY <2>1, SeqIsQueue
  <2>3. QED
    BY <1>2, <2>2
<1>5. ValidOrder(o) => Accounted(o, p)
  BY <1>2, <1>3, AmountAssumption DEF ValidOrder, Accounted, Units
<1>6. 1..0 = {}
  OBVIOUS
<1>7. QED
  BY <1>1, <1>2, <1>4, <1>5, <1>6 DEF Planned, Sourced, Distinct, Complete, InTurn

\* Planned holds after one more maker.
LEMMA PlannedNext ==
    ASSUME NEW o \in Orders, NEW M \in Seq(EntryType), OwnIds(M), NEW k \in 1..Len(M),
           NEW plan \in PlanType, Planned(o, M, k - 1, plan)
    PROVE  Planned(o, M, k, PlanMaker(o, plan, M[k]))
<1>1. PICK m \in EntryType : m = M[k]
  OBVIOUS
<1>2. PICK new \in PlanType : new = PlanMaker(o, plan, m)
  BY PlanMakerType
<1>3. SUFFICES ASSUME new.ok
               PROVE  /\ ValidOrder(o) /\ Accounted(o, new)
                      /\ Sourced(M, k, new) /\ Distinct(new)
                      /\ \A i \in DOMAIN new.trades : FairTrade(o, new.trades[i])
                      /\ Complete(o, M, k, new) /\ InTurn(o, M, k, new)
  BY <1>1, <1>2 DEF Planned
<1>4. plan.ok /\ (PassedOver(o, plan, m, new) \/ Trades(o, plan, m, new))
  BY <1>2, <1>3, PlanMakerType
<1>5. /\ ValidOrder(o) /\ Accounted(o, plan)
      /\ Sourced(M, k - 1, plan) /\ Distinct(plan)
      /\ \A i \in DOMAIN plan.trades : FairTrade(o, plan.trades[i])
      /\ Complete(o, M, k - 1, plan) /\ InTurn(o, M, k - 1, plan)
  BY <1>4 DEF Planned
<1>6. /\ k \in Nat /\ k >= 1 /\ k \in 1..k /\ \A j \in 1..k : j # k => j \in 1..(k - 1)
      /\ \A j \in 1..(k - 1) : j \in 1..k /\ j # k /\ j \in DOMAIN M
      /\ k \in DOMAIN M
  OBVIOUS
<1>7. /\ m.remaining \in Int /\ m.price \in Prices /\ m.price \in Nat \ {0}
      /\ plan.remaining \in Int /\ plan.budget \in Int /\ plan.amount \in Int /\ plan.quote \in Int
      /\ o.amount \in Int /\ o.budget \in Int
  BY PriceType, OrderType DEF EntryType, PlanType
<1>8. CASE PassedOver(o, plan, m, new)
  <2>1. new = plan
    BY <1>8 DEF PassedOver
  <2>2. Sourced(M, k, new)
    BY <1>5, <1>6, <2>1 DEF Sourced
  <2>3. ASSUME ~IsBudget(o), new.remaining > 0 PROVE m.user = o.user
    <3>1. ~Exhausted(o, plan) /\ plan.remaining > 0
      BY <1>7, <2>1, <2>3 DEF Exhausted
    <3>2. m.remaining > 0
      BY <1>8, <3>1 DEF PassedOver, ValidEntry
    <3>3. Wanted(o, plan, m) # 0
      BY <1>7, <2>3, <3>1, <3>2 DEF Wanted, Smaller
    <3>4. QED
      BY <1>8, <3>1, <3>3 DEF PassedOver
  <2>4. Complete(o, M, k, new)
    BY <1>1, <1>5, <1>6, <2>1, <2>3 DEF Complete
  <2>5. ~TradesWith(plan, M[k])
    <3>1. ASSUME NEW i \in DOMAIN plan.trades, plan.trades[i].maker = M[k] PROVE FALSE
      <4>1. PICK j \in 1..(k - 1) : plan.trades[i].maker = M[j]
        BY <1>5 DEF Sourced
      <4>2. QED
        BY <1>6, <3>1, <4>1 DEF OwnIds
    <3>2. QED
      BY <3>1 DEF TradesWith
  <2>6. InTurn(o, M, k, new)
    BY <1>5, <1>6, <2>1, <2>5 DEF InTurn
  <2>7. QED
    BY <1>5, <2>1, <2>2, <2>4, <2>6
<1>9. CASE Trades(o, plan, m, new)
  <2>1. PICK qty \in Int : qty = Wanted(o, plan, m)
    BY PlanMakerType
  <2>2. PICK t : t = [maker |-> m, price |-> m.price, qty |-> qty]
    OBVIOUS
  <2>3. t.maker = m /\ t.price = m.price /\ t.qty = qty
    BY <2>2
  <2>4. PICK size \in Nat : size = Len(plan.trades) /\ DOMAIN plan.trades = 1..size
    BY DEF PlanType
  <2>5. /\ new.trades = Append(plan.trades, t) /\ plan.trades \in Seq(TradeType) /\ t \in TradeType
    <3>1. new.trades = Append(plan.trades, t)
      BY <1>9, <2>1, <2>2 DEF Trades
    <3>2. plan.trades \in Seq(TradeType)
      BY DEF PlanType
    <3>3. m.price \in Int
      BY <1>7
    <3>4. t \in TradeType
      BY <2>2, <3>3 DEF TradeType
    <3>5. QED
      BY <3>1, <3>2, <3>4
  <2>6. /\ DOMAIN new.trades = 1..(size + 1) /\ new.trades[size + 1] = t
        /\ \A i \in DOMAIN plan.trades : new.trades[i] = plan.trades[i]
    BY <2>4, <2>5
  <2>7. /\ \A i \in DOMAIN new.trades : i = size + 1 \/ i \in DOMAIN plan.trades
        /\ \A i \in DOMAIN plan.trades : i \in DOMAIN new.trades /\ i # size + 1
        /\ size + 1 \in DOMAIN new.trades
    BY <2>4, <2>6
  <2>8. /\ ValidEntry(m, m.price) /\ m.id # o.id /\ m.user # o.user /\ qty # 0
        /\ ~Exhausted(o, plan) /\ QuoteExact(m.price, qty)
        /\ new.remaining = (IF IsBudget(o) THEN plan.remaining ELSE plan.remaining - qty)
        /\ new.budget = (IF IsBudget(o) THEN plan.budget - Quote(m.price, qty) ELSE plan.budget)
        /\ new.amount = plan.amount + qty
        /\ new.quote = plan.quote + Quote(m.price, qty)
    BY <1>3, <1>9, <2>1 DEF Trades
  <2>9. m.remaining > 0
    BY <2>8 DEF ValidEntry
  <2>10. PICK quote \in Int : quote = Quote(m.price, qty)
    <3>1. m.price \in Int
      BY <1>7
    <3>2. Quote(m.price, qty) \in Int
      BY <3>1, ArithmeticType
    <3>3. QED
      BY <3>2
  <2>11. /\ qty > 0 /\ qty <= m.remaining
         /\ IF IsBudget(o) THEN quote <= plan.budget ELSE qty <= plan.remaining
         /\ ~IsBudget(o) => qty = plan.remaining \/ qty = m.remaining
    <3>1. CASE IsBudget(o)
      <4>1. plan.budget \in Nat /\ m.remaining \in Nat
        BY <1>5, <1>7, <2>9, <3>1 DEF Accounted
      <4>2. qty = QuantityForBudget(plan.budget, m.price, m.remaining)
        BY <2>1, <3>1 DEF Wanted
      <4>3. IsGreatest(Affordable(plan.budget, m.price, m.remaining), qty)
        BY <1>7, <4>1, <4>2, BudgetBuys
      <4>4. qty \in 0..m.remaining /\ Quote(m.price, qty) <= plan.budget
        BY <4>3 DEF IsGreatest, Affordable
      <4>5. QED
        BY <1>7, <2>8, <2>10, <3>1, <4>4
    <3>2. CASE ~IsBudget(o)
      <4>1. plan.remaining > 0
        BY <1>5, <1>7, <2>8, <3>2 DEF Accounted, Exhausted
      <4>2. QED
        BY <1>7, <2>1, <2>9, <3>2, <4>1 DEF Wanted, Smaller
    <3>3. QED
      BY <3>1, <3>2
  <2>12. Accounted(o, new)
    <3>1. CASE IsBudget(o)
      <4>1. plan.remaining = o.amount /\ plan.budget = o.budget - plan.quote
        BY <1>5, <3>1 DEF Accounted
      <4>2. /\ new.remaining = plan.remaining /\ new.budget = plan.budget - quote
            /\ new.quote = plan.quote + quote /\ quote <= plan.budget
        BY <2>8, <2>10, <2>11, <3>1
      <4>3. new.remaining = o.amount /\ new.budget = o.budget - new.quote /\ new.budget >= 0
        BY <1>7, <4>1, <4>2
      <4>4. QED
        BY <3>1, <4>3 DEF Accounted
    <3>2. CASE ~IsBudget(o)
      <4>1. plan.remaining = o.amount - plan.amount
        BY <1>5, <3>2 DEF Accounted
      <4>2. new.remaining = plan.remaining - qty /\ new.amount = plan.amount + qty /\ qty <= plan.remaining
        BY <2>8, <2>11, <3>2, Zenon
      <4>3. new.remaining = o.amount - new.amount /\ new.remaining >= 0
        BY <1>7, <4>1, <4>2
      <4>4. QED
        BY <3>2, <4>3 DEF Accounted
    <3>3. QED
      BY <3>1, <3>2
  <2>13. FairTrade(o, t)
    BY <2>3, <2>8, <2>11 DEF FairTrade
  <2>14. \A i \in DOMAIN new.trades : FairTrade(o, new.trades[i])
    BY <1>5, <2>6, <2>7, <2>13
  <2>15. Sourced(M, k, new)
    <3> SUFFICES ASSUME NEW i \in DOMAIN new.trades
                 PROVE  \E j \in 1..k : new.trades[i].maker = M[j]
      BY DEF Sourced
    <3>1. CASE i = size + 1
      BY <1>1, <1>6, <2>3, <2>6, <3>1
    <3>2. CASE i \in DOMAIN plan.trades
      <4>1. PICK j \in 1..(k - 1) : plan.trades[i].maker = M[j]
        BY <1>5, <3>2 DEF Sourced
      <4>2. QED
        BY <1>6, <2>6, <3>2, <4>1
    <3>3. QED
      BY <2>7, <3>1, <3>2
  <2>16. ASSUME NEW i \in DOMAIN plan.trades PROVE plan.trades[i].maker.id # m.id
    <3>1. PICK j \in 1..(k - 1) : plan.trades[i].maker = M[j]
      BY <1>5 DEF Sourced
    <3>2. QED
      BY <1>1, <1>6, <3>1 DEF OwnIds
  <2>17. Distinct(new)
    <3> SUFFICES ASSUME NEW i \in DOMAIN new.trades, NEW j \in DOMAIN new.trades,
                        new.trades[i].maker.id = new.trades[j].maker.id
                 PROVE  i = j
      BY DEF Distinct
    <3>1. CASE i \in DOMAIN plan.trades /\ j \in DOMAIN plan.trades
      BY <1>5, <2>6, <3>1 DEF Distinct
    <3>2. CASE i = size + 1 /\ j \in DOMAIN plan.trades
      BY <2>3, <2>6, <2>16, <3>2
    <3>3. CASE j = size + 1 /\ i \in DOMAIN plan.trades
      BY <2>3, <2>6, <2>16, <3>3
    <3>4. QED
      BY <2>7, <3>1, <3>2, <3>3
  <2>18. \A x : Fills(plan, x) => Fills(new, x)
    BY <2>6, <2>7 DEF Fills
  <2>19. ~IsBudget(o) => \A j \in 1..(k - 1) : M[j].user # o.user => Fills(plan, M[j])
    <3>1. ~IsBudget(o) => plan.remaining > 0
      BY <1>5, <1>7, <2>8 DEF Accounted, Exhausted
    <3>2. QED
      BY <1>5, <3>1 DEF Complete
  <2>20. ASSUME ~IsBudget(o), new.remaining > 0 PROVE Fills(new, M[k])
    <3>1. qty = m.remaining
      BY <1>7, <2>8, <2>11, <2>20
    <3>2. new.trades[size + 1].maker = m /\ new.trades[size + 1].qty = m.remaining
      BY <2>3, <2>6, <3>1
    <3>3. QED
      BY <1>1, <2>7, <3>2 DEF Fills
  <2>21. Complete(o, M, k, new)
    BY <1>6, <2>18, <2>19, <2>20 DEF Complete
  <2>22. InTurn(o, M, k, new)
    <3> SUFFICES ASSUME ~IsBudget(o), NEW j \in 1..k, NEW i \in 1..(j - 1), M[i].user # o.user
                 PROVE  Fills(new, M[i])
      BY DEF InTurn
    <3>1. i \in 1..(k - 1)
      BY <1>6
    <3>2. QED
      BY <2>18, <2>19, <3>1
  <2>23. QED
    BY <1>5, <2>12, <2>14, <2>15, <2>17, <2>21, <2>22
<1>10. QED
  BY <1>4, <1>8, <1>9

\* A plan with its makers.
LEMMA PlanIsPlanned ==
    ASSUME NEW o \in Orders, NEW side, Makers(o, side) \in Seq(EntryType), OwnIds(Makers(o, side))
    PROVE  /\ PlanOrder(o, side) \in PlanType
           /\ Planned(o, Makers(o, side), Len(Makers(o, side)), PlanOrder(o, side))
<1>1. PICK M \in Seq(EntryType) : M = Makers(o, side)
  OBVIOUS
<1>2. PICK n \in Nat : n = Len(M)
  OBVIOUS
<1>3. PICK f : PlanRun(o, M, f) /\ PlanOrder(o, side) = f[n]
  BY <1>1, <1>2, PlanRuns
<1>4. /\ f \in [0..n -> PlanType] /\ f[0] = NewPlan(o)
      /\ \A k \in 1..n : f[k] = PlanMaker(o, f[k - 1], M[k])
  BY <1>2, <1>3 DEF PlanRun
<1>5. PICK T : T = {k \in Nat : k \in 0..n => Planned(o, M, k, f[k])}
  OBVIOUS
<1>6. 0 \in T
  BY <1>4, <1>5, PlannedFirst
<1>7. ASSUME NEW k \in Nat, k \in T PROVE k + 1 \in T
  <2>1. SUFFICES ASSUME k + 1 \in 0..n PROVE Planned(o, M, k + 1, f[k + 1])
    BY <1>5
  <2>2. PICK j \in 1..n : j = k + 1
    BY <2>1
  <2>3. j - 1 = k /\ k \in 0..n
    BY <2>2
  <2>4. PICK plan \in PlanType : plan = f[k]
    BY <1>4, <2>3
  <2>5. Planned(o, M, j - 1, plan)
    BY <1>5, <1>7, <2>3, <2>4
  <2>6. Planned(o, M, j, PlanMaker(o, plan, M[j]))
    BY <1>1, <1>2, <2>5, PlannedNext
  <2>7. QED
    BY <1>4, <2>2, <2>3, <2>4, <2>6
<1>8. \A k \in Nat : k \in T
  BY Zenon, <1>6, <1>7, Numbers
<1>9. QED
  BY <1>1, <1>2, <1>3, <1>4, <1>5, <1>8

-----------------------------------------------------------------------------
(* Books of typed entries.                                                  *)

\* Keep keeps all the entries it is told to, each once and in their order.
Keeps(q, kept, new, f) ==
    /\ f \in [DOMAIN new -> kept]
    /\ \A k, m \in DOMAIN new : k < m => f[k] < f[m]
    /\ \A k \in DOMAIN new : new[k] = q[f[k]]
    /\ \A i \in kept : \E k \in DOMAIN new : f[k] = i

\* Keep selects a subsequence.
LEMMA KeepType ==
    ASSUME NEW S, NEW q \in Seq(S), NEW kept \in SUBSET DOMAIN q
    PROVE  /\ Keep(q, kept) \in Seq(S) /\ Len(Keep(q, kept)) = Cardinality(kept)
           /\ IsFiniteSet(kept) /\ Cardinality(kept) \in Nat
           /\ \E f : Keeps(q, kept, Keep(q, kept), f)
<1>1. Len(q) \in Nat /\ DOMAIN q = 1..Len(q)
  OBVIOUS
<1>2. PICK n \in Nat : n = Len(q)
  BY Zenon, <1>1
<1>3. kept \in SUBSET (1..n)
  BY <1>1, <1>2
<1>4. PICK size \in Nat : size = Cardinality(kept)
  BY <1>3, NthIsKept
<1>5. /\ \A k \in 1..size : Nth(kept, k) \in kept /\ Rank(kept, Nth(kept, k)) = k
      /\ \A k, m \in 1..size : k < m => Nth(kept, k) < Nth(kept, m)
  BY <1>3, <1>4, NthIsKept
<1>6. PICK new : new = Keep(q, kept)
  OBVIOUS
<1>7. new = [k \in 1..size |-> q[Nth(kept, k)]]
  BY <1>4, <1>6 DEF Keep
<1>8. PICK f : f = [k \in 1..size |-> Nth(kept, k)]
  OBVIOUS
<1>9. DOMAIN new = 1..size /\ new \in [1..size -> S]
  BY <1>1, <1>5, <1>7
<1>10. new \in Seq(S) /\ Len(new) = size
  BY <1>9
<1>11. IsFiniteSet(kept)
  BY <1>3, FS_Interval, FS_Subset
<1>12. ASSUME NEW i \in kept PROVE \E k \in DOMAIN new : f[k] = i
  <2>1. PICK k \in 1..size : k = Rank(kept, i)
    BY <1>3, <1>4, RankGrows
  <2>2. PICK j \in kept : j = Nth(kept, k) /\ Rank(kept, j) = k
    BY <1>5
  <2>3. i \in Int /\ j \in Int /\ k \in Int
    BY <1>3
  <2>4. \A x, y \in kept : x < y => Rank(kept, x) < Rank(kept, y)
    BY <1>3, RankGrows
  <2>5. ~(i < j) /\ ~(j < i)
    BY <2>1, <2>2, <2>3, <2>4
  <2>6. i = j
    BY <2>3, <2>5
  <2>7. QED
    BY <1>8, <1>9, <2>2, <2>6
<1>13. f \in [DOMAIN new -> kept]
  BY <1>5, <1>8, <1>9
<1>14. \A k, m \in DOMAIN new : k < m => f[k] < f[m]
  BY <1>5, <1>8, <1>9
<1>15. \A k \in DOMAIN new : new[k] = q[f[k]]
  BY <1>7, <1>8, <1>9
<1>16. Keeps(q, kept, new, f)
  BY <1>12, <1>13, <1>14, <1>15 DEF Keeps
<1>17. QED
  BY <1>4, <1>6, <1>10, <1>11, <1>16

\* What a plan takes from a maker.
Taken(plan, m) == IF Traded(plan, m) THEN TradedQty(plan, m) ELSE 0
Reduced(m, q, e) ==
    /\ e \in EntryType
    /\ e.id = m.id /\ e.user = m.user /\ e.pair = m.pair /\ e.type = m.type /\ e.side = m.side
    /\ e.price = m.price /\ e.amount = m.amount /\ e.budget = m.budget /\ e.fee = m.fee
    /\ e.remaining = m.remaining - q /\ e.filled = m.filled + q

\* What a trade leaves of a maker.
LEMMA AfterTradeType ==
    ASSUME NEW plan \in PlanType, NEW m \in EntryType
    PROVE  /\ Taken(plan, m) \in Int
           /\ Reduced(m, Taken(plan, m), AfterTrade(plan, m))
<1>1. CASE Traded(plan, m)
  <2>1. PICK q : q = TradedQty(plan, m)
    OBVIOUS
  <2>2. q \in Int
    <3>1. PICK i \in DOMAIN plan.trades : plan.trades[i].maker.id = m.id
      BY <1>1 DEF Traded
    <3>2. PICK j : j = CHOOSE k \in DOMAIN plan.trades : plan.trades[k].maker.id = m.id
      OBVIOUS
    <3>3. j \in DOMAIN plan.trades
      BY <3>1, <3>2
    <3>4. plan.trades \in Seq(TradeType)
      BY DEF PlanType
    <3>5. plan.trades[j] \in TradeType
      BY <3>3, <3>4
    <3>6. q = plan.trades[j].qty
      BY <2>1, <3>2 DEF TradedQty
    <3>7. QED
      BY <3>5, <3>6 DEF TradeType
  <2>3. PICK left \in Int : left = m.remaining - q
    BY <2>2 DEF EntryType
  <2>31. PICK done \in Int : done = m.filled + q
    BY <2>2 DEF EntryType
  <2>32. PICK e : e = [m EXCEPT !.remaining = left, !.filled = done]
    OBVIOUS
  <2>4. AfterTrade(plan, m) = e
    BY <1>1, <2>1, <2>3, <2>31, <2>32 DEF AfterTrade
  <2>5. Reduced(m, q, e)
    <3>1. e \in EntryType
      BY <2>32 DEF EntryType
    <3>2. e.remaining = left /\ e.filled = done
      BY <2>32 DEF EntryType
    <3>3. /\ e.id = m.id /\ e.user = m.user /\ e.pair = m.pair /\ e.type = m.type /\ e.side = m.side
          /\ e.price = m.price /\ e.amount = m.amount /\ e.budget = m.budget /\ e.fee = m.fee
      BY <2>32 DEF EntryType
    <3>4. QED
      BY <2>3, <2>31, <3>1, <3>2, <3>3 DEF Reduced
  <2>6. QED
    BY <1>1, <2>1, <2>2, <2>4, <2>5 DEF Taken
<1>2. CASE ~Traded(plan, m)
  <2>1. AfterTrade(plan, m) = m /\ Taken(plan, m) = 0
    BY <1>2 DEF AfterTrade, Taken
  <2>2. Reduced(m, 0, m)
    BY DEF Reduced, EntryType
  <2>3. QED
    BY <2>1, <2>2
<1>3. QED
  BY <1>1, <1>2

\* apply_prepared_orders, level by level.
After(plan, q) == [i \in DOMAIN q |-> AfterTrade(plan, q[i])]
Live(q) == {i \in DOMAIN q : q[i].remaining > 0}
Gone(side, plan) == {m \in Entries(side) : AfterTrade(plan, m).remaining = 0}

\* apply_prepared_orders, level by level.
LEMMA PreparedLevels ==
    ASSUME NEW side, NEW plan
    PROVE  /\ ApplyPrepared(side, plan).levels
                  = [p \in Prices |-> Keep(After(plan, side.levels[p]), Live(After(plan, side.levels[p])))]
           /\ ApplyPrepared(side, plan).total = side.total - Cardinality(Gone(side, plan))
           /\ ApplyPrepared(side, plan) = [levels |-> ApplyPrepared(side, plan).levels,
                                           total |-> ApplyPrepared(side, plan).total]
BY DEF ApplyPrepared, After, Live, Gone

\* A queue after the trades, before the filled makers are taken out.
LEMMA AfterType ==
    ASSUME NEW plan \in PlanType, NEW q \in Seq(EntryType)
    PROVE  /\ After(plan, q) \in Seq(EntryType) /\ DOMAIN After(plan, q) = DOMAIN q
           /\ Live(After(plan, q)) \in SUBSET DOMAIN q
           /\ \A i \in DOMAIN q : After(plan, q)[i] = AfterTrade(plan, q[i]) /\ q[i] \in EntryType
<1>1. PICK n \in Nat : n = Len(q) /\ DOMAIN q = 1..n
  OBVIOUS
<1>2. \A i \in 1..n : q[i] \in EntryType
  BY <1>1
<1>3. \A i \in 1..n : AfterTrade(plan, q[i]) \in EntryType
  BY <1>2, AfterTradeType DEF Reduced
<1>4. PICK t : t = After(plan, q)
  OBVIOUS
<1>5. t \in [1..n -> EntryType] /\ \A i \in 1..n : t[i] = AfterTrade(plan, q[i])
  BY <1>1, <1>3, <1>4 DEF After
<1>6. t \in Seq(EntryType) /\ DOMAIN t = 1..n
  BY <1>5
<1>7. Live(t) \in SUBSET (1..n)
  BY <1>6 DEF Live
<1>8. QED
  BY <1>1, <1>2, <1>4, <1>5, <1>6, <1>7

\* The entries of a side are finitely many.
LEMMA EntriesAre ==
    ASSUME NEW side \in SideType
    PROVE  /\ IsFiniteSet(Entries(side))
           /\ \A m : m \in Entries(side) <=> \E x \in Prices : \E i \in DOMAIN side.levels[x] : m = side.levels[x][i]
           /\ \A m \in Entries(side) : m \in EntryType
<1>1. \A m : m \in Entries(side) <=> \E x \in Prices : \E i \in DOMAIN side.levels[x] : m = side.levels[x][i]
  BY DEF Entries, ToSet
<1>2. PICK f : f = [x \in Prices |-> ToSet(side.levels[x])]
  OBVIOUS
<1>3. ASSUME NEW x \in Prices PROVE IsFiniteSet(f[x])
  <2>1. PICK q \in Seq(EntryType) : q = side.levels[x]
    BY SideIsLevelled DEF Levelled
  <2>2. IsFiniteSet(DOMAIN q)
    BY FS_Interval
  <2>3. ToSet(q) \subseteq {q[i] : i \in DOMAIN q}
    BY DEF ToSet
  <2>4. IsFiniteSet(ToSet(q))
    BY <2>2, <2>3, FiniteImage
  <2>5. QED
    BY <1>2, <2>1, <2>4
<1>4. \A m \in Entries(side) : \E x \in Prices : m \in f[x]
  BY <1>2 DEF Entries
<1>5. IsFiniteSet(Entries(side))
  BY <1>3, <1>4, FiniteUnion, PriceType
<1>6. \A x \in Prices : side.levels[x] \in Seq(EntryType)
  BY SideIsLevelled DEF Levelled
<1>7. \A m \in Entries(side) : m \in EntryType
  BY <1>1, <1>6
<1>8. QED
  BY <1>1, <1>5, <1>7

\* apply_prepared_orders keeps the type of a side.
LEMMA PreparedType ==
    ASSUME NEW side \in SideType, NEW plan \in PlanType
    PROVE  ApplyPrepared(side, plan) \in SideType
<1>1. ASSUME NEW x \in Prices
      PROVE  Keep(After(plan, side.levels[x]), Live(After(plan, side.levels[x]))) \in Seq(EntryType)
  <2>1. PICK q \in Seq(EntryType) : q = side.levels[x]
    BY SideIsLevelled DEF Levelled
  <2>2. After(plan, q) \in Seq(EntryType) /\ Live(After(plan, q)) \in SUBSET DOMAIN After(plan, q)
    BY AfterType
  <2>3. QED
    BY <2>1, <2>2, KeepType
<1>2. PICK new : new = ApplyPrepared(side, plan)
  OBVIOUS
<1>21. /\ new.levels = [p \in Prices |-> Keep(After(plan, side.levels[p]), Live(After(plan, side.levels[p])))]
       /\ new.total = side.total - Cardinality(Gone(side, plan))
  BY <1>2, PreparedLevels, Zenon
<1>3. new.levels \in [Prices -> Seq(EntryType)]
  BY <1>1, <1>21
<1>4. IsFiniteSet(Gone(side, plan))
  BY EntriesAre, FS_Subset DEF Gone
<1>5. Cardinality(Gone(side, plan)) \in Int /\ side.total \in Int
  BY <1>4, FS_CardinalityType DEF SideType
<1>6. new.total \in Int
  BY <1>21, <1>5
<1>7. new = [levels |-> new.levels, total |-> new.total]
  BY <1>2, PreparedLevels
<1>8. QED
  BY <1>2, <1>3, <1>6, <1>7 DEF SideType

\* add_order keeps the type of a side and counts one more.
LEMMA AddOrderType ==
    ASSUME NEW side \in SideType, NEW e \in EntryType
    PROVE  /\ AddOrder(side, e) \in SideType
           /\ AddOrder(side, e).total = side.total + 1
           /\ \A x \in Prices : AddOrder(side, e).levels[x]
                = IF x = e.price THEN Append(side.levels[x], e) ELSE side.levels[x]
<1>1. side.levels \in [Prices -> Seq(EntryType)] /\ side.total \in Int /\ e.price \in Prices
  BY DEF SideType, EntryType
<1>2. PICK l : l = side.levels
  OBVIOUS
<1>3. PICK x \in Prices : x = e.price
  BY <1>1
<1>4. PICK n : n = [l EXCEPT ![x] = Append(@, e)]
  OBVIOUS
<1>5. n \in [Prices -> Seq(EntryType)] /\ \A y \in Prices : n[y] = IF y = x THEN Append(l[y], e) ELSE l[y]
  BY <1>1, <1>2, <1>4
<1>6. AddOrder(side, e) = [levels |-> n, total |-> side.total + 1]
  BY <1>2, <1>3, <1>4 DEF AddOrder
<1>7. QED
  BY <1>1, <1>2, <1>3, <1>5, <1>6 DEF SideType

Others(q, e) == {i \in DOMAIN q : q[i].id # e.id}

\* remove_order keeps the type of a side and counts one less.
LEMMA RemoveOrderType ==
    ASSUME NEW side \in SideType, NEW e \in EntryType
    PROVE  /\ RemoveOrder(side, e) \in SideType
           /\ RemoveOrder(side, e).total = side.total - 1
           /\ \A x \in Prices : RemoveOrder(side, e).levels[x]
                = IF x = e.price THEN Keep(side.levels[x], Others(side.levels[x], e)) ELSE side.levels[x]
<1>1. side.levels \in [Prices -> Seq(EntryType)] /\ side.total \in Int /\ e.price \in Prices
  BY DEF SideType, EntryType
<1>2. PICK l : l = side.levels
  OBVIOUS
<1>3. PICK x \in Prices : x = e.price
  BY <1>1
<1>4. PICK n : n = [l EXCEPT ![x] = Keep(@, Others(@, e))]
  OBVIOUS
<1>5. PICK k : k = Keep(l[x], Others(l[x], e))
  OBVIOUS
<1>6. l[x] \in Seq(EntryType) /\ Others(l[x], e) \in SUBSET DOMAIN l[x]
  BY <1>1, <1>2 DEF Others
<1>7. k \in Seq(EntryType)
  BY <1>5, <1>6, KeepType
<1>8. n \in [Prices -> Seq(EntryType)] /\ \A y \in Prices : n[y] = IF y = x THEN k ELSE l[y]
  BY <1>1, <1>2, <1>4, <1>5, <1>7
<1>9. RemoveOrder(side, e) = [levels |-> n, total |-> side.total - 1]
  BY <1>2, <1>3, <1>4 DEF RemoveOrder, Others
<1>10. QED
  BY <1>1, <1>2, <1>3, <1>5, <1>8, <1>9 DEF SideType

-----------------------------------------------------------------------------
(* The books, and the plan of a submission.                                 *)

TypedBook == [Sides -> SideType]
TypedBooks == [Pairs -> TypedBook]

\* An id is in one place.
Place(b, p, s, x, i) == p \in Pairs /\ s \in Sides /\ x \in Prices /\ i \in DOMAIN b[p][s].levels[x]

\* An order is at one place of the books.
LEMMA IdHasOnePlace ==
    ASSUME NEW b, NEW subs, NEW cans, BookOk(b, subs, cans),
           NEW p, NEW s, NEW x, NEW i, Place(b, p, s, x, i),
           NEW q, NEW t, NEW y, NEW j, Place(b, q, t, y, j),
           b[p][s].levels[x][i].id = b[q][t].levels[y][j].id
    PROVE  p = q /\ s = t /\ x = y /\ i = j
<1>1. PICK e : e = b[p][s].levels[x][i]
  OBVIOUS
<1>2. PICK d : d = b[q][t].levels[y][j]
  OBVIOUS
<1>3. QueueOk(subs, b[p][s].levels[x], p, s, x) /\ QueueOk(subs, b[q][t].levels[y], q, t, y)
  BY Zenon DEF BookOk, Place
<1>4. Entry(subs, e, p, s, x) /\ Entry(subs, d, q, t, y)
  BY <1>1, <1>2, <1>3 DEF QueueOk, Place
<1>5. PICK o \in subs : Rested(o, e)
  BY <1>4 DEF Entry
<1>6. PICK r \in subs : Rested(r, d)
  BY Zenon, <1>4 DEF Entry
<1>7. o.id = r.id
  BY <1>1, <1>2, <1>5, <1>6 DEF Rested
<1>8. o = r
  BY <1>7 DEF BookOk
<1>9. p = q /\ s = t /\ x = y
  BY <1>4, <1>5, <1>6, <1>8 DEF Entry, Rested
<1>10. i = j
  BY <1>3, <1>9 DEF QueueOk, Place
<1>11. QED
  BY <1>9, <1>10

\* The two sides of a market.
LEMMA OppositeSide ==
    ASSUME NEW o \in Orders
    PROVE  Opposite(o) \in Sides /\ o.type \in Sides /\ Opposite(o) # o.type
BY OrderType DEF Opposite, Sides, IsBuy

\* The makers a plan visits are different orders.
LEMMA MakersOwnIds ==
    ASSUME NEW b \in TypedBooks, NEW subs, NEW cans, BookOk(b, subs, cans), NEW o \in Orders,
           NEW side, side = b[o.pair][Opposite(o)]
    PROVE  Makers(o, side) \in Seq(EntryType) /\ OwnIds(Makers(o, side))
<1>1. o.pair \in Pairs /\ Opposite(o) \in Sides
  BY OrderType, OppositeSide
<1>2. side \in SideType
  BY <1>1 DEF TypedBooks, TypedBook
<1>3. PICK at : Visits(o, side, at)
  BY <1>2, MakersAreVisited
<1>4. PICK M : M = Makers(o, side)
  BY Zenon
<1>5. PICK n \in Nat : n = Len(M)
  BY Zenon, <1>3, <1>4 DEF Visits
<1>6. /\ M \in Seq(EntryType) /\ at \in [1..n -> Places(o, side)]
      /\ \A k \in 1..n : M[k] = side.levels[at[k][1]][at[k][2]]
      /\ \A k, m \in 1..n : k < m <=> (Ahead(o, at[k], at[m]) /\ at[k] # at[m])
  BY <1>3, <1>4, <1>5 DEF Visits
<1>7. ASSUME NEW k \in 1..n, NEW m \in 1..n, M[k].id = M[m].id PROVE k = m
  <2>1. IsPlace(o, side, at[k]) /\ IsPlace(o, side, at[m])
    BY <1>2, <1>6, PlacesAre
  <2>2. PICK x, i : x = at[k][1] /\ i = at[k][2] /\ at[k] = <<x, i>> /\ x \in Prices /\ i \in DOMAIN side.levels[x]
    BY <2>1 DEF IsPlace
  <2>3. PICK y, j : y = at[m][1] /\ j = at[m][2] /\ at[m] = <<y, j>> /\ y \in Prices /\ j \in DOMAIN side.levels[y]
    BY <2>1 DEF IsPlace
  <2>4. Place(b, o.pair, Opposite(o), x, i) /\ Place(b, o.pair, Opposite(o), y, j)
    BY Zenon, <1>1, <2>2, <2>3 DEF Place
  <2>5. side.levels[x][i].id = side.levels[y][j].id
    BY <1>6, <1>7, <2>2, <2>3
  <2>6. x = y /\ i = j
    BY <2>4, <2>5, IdHasOnePlace
  <2>7. at[k] = at[m]
    BY <2>2, <2>3, <2>6
  <2>8. ~(k < m) /\ ~(m < k)
    BY <1>6, <2>7
  <2>9. QED
    BY <2>8
<1>8. DOMAIN M = 1..n
  BY <1>5, <1>6
<1>9. QED
  BY <1>4, <1>6, <1>7, <1>8 DEF OwnIds

\* The plan of a submission.
LEMMA SubmissionPlan ==
    ASSUME NEW b \in TypedBooks, NEW subs, NEW cans, BookOk(b, subs, cans), NEW o \in Orders,
           NEW side, side = b[o.pair][Opposite(o)]
    PROVE  /\ side \in SideType /\ o.pair \in Pairs
           /\ PlanOrder(o, side) \in PlanType
           /\ Planned(o, Makers(o, side), Len(Makers(o, side)), PlanOrder(o, side))
<1>1. o.pair \in Pairs /\ Opposite(o) \in Sides
  BY OrderType, OppositeSide
<1>2. side \in SideType
  BY <1>1 DEF TypedBooks, TypedBook
<1>3. QED
  BY <1>1, <1>2, MakersOwnIds, PlanIsPlanned

\* An accepted submission has a valid plan.
LEMMA AcceptedPlan ==
    ASSUME NEW o \in Orders, NEW book, NEW b \in [Accounts -> Row],
           NEW plan, plan = PlanOrder(o, book[Opposite(o)]), plan \in PlanType,
           Submission(o, book, b).ok
    PROVE  plan.ok /\ (IsLimit(o) /\ IsBuy(o) => QuoteExact(o.price, plan.remaining))
<1>1. /\ Freed(o, plan, SettleAll(o, Locked(o, plan, b), plan.trades)).ok
      /\ IsLimit(o) /\ IsBuy(o) => QuoteExact(o.price, plan.remaining)
  BY SubmissionParts
<1>2. /\ PayAccount(o) \in Accounts /\ Reserved(o) \in Int /\ Refund(o, plan) \in Int
      /\ plan.ok \in BOOLEAN /\ plan.trades \in Seq(TradeType)
  BY AmountsType DEF PlanType
<1>3. PICK base : base = [ok |-> plan.ok, bal |-> b]
  OBVIOUS
<1>4. base \in Candidate
  BY <1>2, <1>3 DEF Candidate
<1>5. PICK locked : locked = Locked(o, plan, b)
  OBVIOUS
<1>6. Reserves(base, locked, PayAccount(o), Reserved(o))
  BY <1>2, <1>3, <1>4, <1>5, LockReserves DEF Locked
<1>7. locked \in Candidate /\ (locked.ok => base.ok)
  BY <1>6 DEF Reserves
<1>8. PICK settled : settled = SettleAll(o, locked, plan.trades)
  OBVIOUS
<1>9. settled \in Candidate /\ (settled.ok => locked.ok)
  BY <1>2, <1>7, <1>8, SettleTotals
<1>10. PICK refund \in Int : refund = Refund(o, plan)
  BY <1>2
<1>11. Unlock(settled, PayAccount(o), refund).ok => settled.ok
  BY <1>2, <1>9, <1>10, LockReserves DEF Reserves
<1>12. settled.ok
  BY <1>1, <1>5, <1>8, <1>10, <1>11 DEF Freed
<1>13. base.ok = plan.ok
  BY <1>3
<1>14. QED
  BY <1>1, <1>7, <1>9, <1>12, <1>13

\* The entry that rests.
LEMMA RestingType ==
    ASSUME NEW o \in Orders, NEW plan \in PlanType, ValidOrder(o), IsLimit(o)
    PROVE  Resting(o, plan) \in EntryType
<1>1. o.price \in Prices
  BY OrderType DEF ValidOrder, IsBudget
<1>2. o.side = "limit"
  BY DEF IsLimit
<1>3. plan.remaining \in Int /\ plan.amount \in Int
  BY DEF PlanType
<1>4. o.user \in Users /\ o.pair \in Pairs /\ o.type \in Sides /\ o.amount \in Int /\ o.budget \in Int /\ o.fee \in Int
  BY OrderType
<1>5. QED
  BY <1>1, <1>2, <1>3, <1>4 DEF Resting, EntryType

\* What a committed submission does to the two sides of its market.
LeavesRest(o, plan) == IsLimit(o) /\ plan.remaining > 0
Committed(book, o, plan, new) ==
    /\ new \in TypedBook
    /\ new[Opposite(o)] = ApplyPrepared(book[Opposite(o)], plan)
    /\ new[o.type] = IF LeavesRest(o, plan) THEN AddOrder(book[o.type], Resting(o, plan)) ELSE book[o.type]

\* What commit_book makes of the two sides.
LEMMA CommitBookType ==
    ASSUME NEW book \in TypedBook, NEW o \in Orders, NEW plan \in PlanType, ValidOrder(o)
    PROVE  Committed(book, o, plan, CommitBook(book, o, plan))
<1>1. PICK s \in Sides : s = Opposite(o)
  BY OppositeSide
<1>2. PICK t \in Sides : t = o.type
  BY OppositeSide
<1>3. s # t
  BY <1>1, <1>2, OppositeSide
<1>4. PICK a \in SideType : a = ApplyPrepared(book[s], plan)
  BY PreparedType DEF TypedBook
<1>5. PICK makers : makers = [book EXCEPT ![s] = a]
  OBVIOUS
<1>6. makers \in TypedBook /\ makers[s] = a /\ makers[t] = book[t]
  BY <1>3, <1>5 DEF TypedBook
<1>7. [book EXCEPT ![Opposite(o)] = ApplyPrepared(@, plan)] = makers
  BY <1>1, <1>4, <1>5
<1>8. CASE LeavesRest(o, plan)
  <2>1. PICK e \in EntryType : e = Resting(o, plan)
    BY <1>8, RestingType DEF LeavesRest
  <2>2. PICK c \in SideType : c = AddOrder(book[t], e)
    BY AddOrderType DEF TypedBook
  <2>3. CommitBook(book, o, plan) = [makers EXCEPT ![t] = AddOrder(@, e)]
    BY <1>2, <1>7, <1>8, <2>1 DEF CommitBook, LeavesRest
  <2>4. CommitBook(book, o, plan) = [makers EXCEPT ![t] = c]
    BY <1>6, <2>2, <2>3
  <2>5. PICK new : new = CommitBook(book, o, plan)
    OBVIOUS
  <2>6. new \in TypedBook /\ new[s] = a /\ new[t] = c
    BY <1>3, <1>6, <2>4, <2>5 DEF TypedBook
  <2>7. QED
    BY <1>1, <1>2, <1>4, <1>8, <2>1, <2>2, <2>5, <2>6 DEF Committed
<1>9. CASE ~LeavesRest(o, plan)
  <2>1. CommitBook(book, o, plan) = makers
    BY <1>7, <1>9 DEF CommitBook, LeavesRest
  <2>2. QED
    BY <1>1, <1>2, <1>4, <1>6, <1>9, <2>1 DEF Committed
<1>10. QED
  BY <1>8, <1>9

-----------------------------------------------------------------------------
(* The accounts of an asset balance.                                        *)

Statuses == {"reserved", "released", "completed", "rejected"}
Deposit == [credit : Credits, rejected : BOOLEAN]
Withdrawal == [funds : Withdrawals, status : Statuses]

\* The type of the core's state.
CoreType ==
    /\ books \in TypedBooks /\ bal \in [Accounts -> Row]
    /\ deposits \subseteq Deposit /\ IsFiniteSet(deposits)
    /\ withdrawals \subseteq Withdrawal /\ IsFiniteSet(withdrawals)
    /\ fees \in [Assets -> Int] /\ adjusted \in [Assets -> Int] /\ manual \in [Accounts -> Int]

\* The accounts of one asset balance.
Accepted(ds, a) == {d \in ds : ~d.rejected /\ d.credit.asset = a}
Completed(ws, a) == {w \in ws : w.status = "completed" /\ w.funds.asset = a}
PaidIn(ds, a) == [r \in Accepted(ds, a) |-> r.credit.amount]
PaidOut(ws, a) == [r \in Completed(ws, a) |-> r.funds.amount]
Opening(a) == SumFunction([u \in Users |-> Genesis[<<u, a>>]])
Balanced(b, f, adj, ds, ws, a) ==
    Total(b, a) + f[a] = Opening(a) + adj[a] + SumFunction(PaidIn(ds, a)) - SumFunction(PaidOut(ws, a))
FundsOk == WithinLimits(bal) /\ \A a \in Assets : Balanced(bal, fees, adjusted, deposits, withdrawals, a)

\* FundsOk is Conservation written with named sums.
LEMMA FundsAre == FundsOk <=> Conservation
BY DEF FundsOk, Conservation, InRange, WithinLimits, Balanced, Total, Holdings, Opening, PaidIn, Accepted,
       PaidOut, Completed

\* The account and amount of a deposit or withdrawal.
LEMMA CreditType ==
    ASSUME NEW d \in Credits \cup Withdrawals
    PROVE  d.user \in Users /\ d.asset \in Assets /\ <<d.user, d.asset>> \in Accounts /\ d.amount \in Int
<1>1. <<d.user, d.asset>> \in Accounts /\ d.amount \in Int
  BY CoreAssumption
<1>2. QED
  BY <1>1 DEF Accounts

\* The opening balances.
LEMMA GenesisType ==
    /\ IsFiniteSet(Users) /\ \A a \in Accounts : Genesis[a] \in Units /\ Genesis[a] \in Int
    /\ 0 \in Units
<1>1. IsFiniteSet(Users) /\ Genesis \in [Accounts -> Units]
  BY CoreAssumption
<1>2. Units \subseteq Int /\ 0 \in Units
  BY AmountAssumption DEF Units
<1>3. QED
  BY <1>1, <1>2

\* The opening total of an asset.
LEMMA OpeningType ==
    ASSUME NEW a \in Assets
    PROVE  Opening(a) \in Int
<1>1. PICK f : f = [u \in Users |-> Genesis[<<u, a>>]]
  OBVIOUS
<1>2. \A u \in Users : Genesis[<<u, a>>] \in Int
  BY GenesisType DEF Accounts
<1>3. Numeric(f)
  BY <1>1, <1>2, GenesisType DEF Numeric
<1>4. QED
  BY <1>1, <1>3, SumType DEF Opening

\* The accepted deposits of an asset can be summed.
LEMMA CreditedType ==
    ASSUME NEW ds, ds \subseteq Deposit, IsFiniteSet(ds), NEW a
    PROVE  /\ Numeric(PaidIn(ds, a)) /\ SumFunction(PaidIn(ds, a)) \in Int
           /\ DOMAIN PaidIn(ds, a) = Accepted(ds, a)
           /\ \A r \in Accepted(ds, a) : PaidIn(ds, a)[r] = r.credit.amount
<1>1. PICK f : f = PaidIn(ds, a)
  OBVIOUS
<1>2. PICK S : S = Accepted(ds, a)
  OBVIOUS
<1>3. S \subseteq ds /\ IsFiniteSet(S)
  BY <1>2, FS_Subset DEF Accepted
<1>4. ASSUME NEW r \in S PROVE r.credit.amount \in Int
  <2>1. r.credit \in Credits
    BY <1>3 DEF Deposit
  <2>2. QED
    BY <2>1, CreditType
<1>5. DOMAIN f = S /\ f \in [S -> Int] /\ \A r \in S : f[r] = r.credit.amount
  BY <1>1, <1>2, <1>4 DEF PaidIn
<1>6. Numeric(f)
  BY <1>3, <1>5 DEF Numeric
<1>7. QED
  BY <1>1, <1>2, <1>5, <1>6, SumType

\* The completed withdrawals of an asset can be summed.
LEMMA PaidOutType ==
    ASSUME NEW ws, ws \subseteq Withdrawal, IsFiniteSet(ws), NEW a
    PROVE  /\ Numeric(PaidOut(ws, a)) /\ SumFunction(PaidOut(ws, a)) \in Int
           /\ DOMAIN PaidOut(ws, a) = Completed(ws, a)
           /\ \A r \in Completed(ws, a) : PaidOut(ws, a)[r] = r.funds.amount
<1>1. PICK f : f = PaidOut(ws, a)
  OBVIOUS
<1>2. PICK S : S = Completed(ws, a)
  OBVIOUS
<1>3. S \subseteq ws /\ IsFiniteSet(S)
  BY <1>2, FS_Subset DEF Completed
<1>4. ASSUME NEW r \in S PROVE r.funds.amount \in Int
  <2>1. r.funds \in Withdrawals
    BY <1>3 DEF Withdrawal
  <2>2. QED
    BY <2>1, CreditType
<1>5. DOMAIN f = S /\ f \in [S -> Int] /\ \A r \in S : f[r] = r.funds.amount
  BY <1>1, <1>2, <1>4 DEF PaidOut
<1>6. Numeric(f)
  BY <1>3, <1>5 DEF Numeric
<1>7. QED
  BY <1>1, <1>2, <1>5, <1>6, SumType

\* The funds balance at the start.
LEMMA FundsInit ==
    ASSUME Init
    PROVE  CoreType /\ FundsOk
<1>1. books \in TypedBooks
  <2>1. PICK e : e = EmptySide
    OBVIOUS
  <2>2. e \in SideType
    <3>1. <<>> \in Seq(EntryType)
      OBVIOUS
    <3>2. QED
      BY <2>1, <3>1 DEF EmptySide, SideType
  <2>3. EmptyBook \in TypedBook
    BY <2>1, <2>2 DEF EmptyBook, TypedBook, Sides
  <2>4. QED
    BY <2>3 DEF Init, TypedBooks
<1>2. \A a \in Accounts : bal[a] = [available |-> Genesis[a], locked |-> 0]
  BY DEF Init
<1>3. bal \in [Accounts -> Row] /\ WithinLimits(bal)
  <2>1. ASSUME NEW a \in Accounts PROVE bal[a] \in Row /\ bal[a].available \in Units /\ bal[a].locked \in Units
    <3>1. PICK g : g = Genesis[a] /\ g \in Units /\ g \in Int /\ 0 \in Units
      BY GenesisType
    <3>2. bal[a] = [available |-> g, locked |-> 0]
      BY <1>2, <3>1
    <3>3. QED
      BY <3>1, <3>2 DEF Row
  <2>2. QED
    BY <2>1 DEF Init, WithinLimits
<1>4. CoreType
  BY <1>1, <1>3, FS_EmptySet DEF CoreType, Init
<1>5. ASSUME NEW a \in Assets PROVE Balanced(bal, fees, adjusted, deposits, withdrawals, a)
  <2>1. Holdings(bal, a) = [u \in Users |-> Genesis[<<u, a>>]]
    <3>1. ASSUME NEW u \in Users
          PROVE  bal[<<u, a>>].available + bal[<<u, a>>].locked = Genesis[<<u, a>>]
      <4>1. <<u, a>> \in Accounts
        BY DEF Accounts
      <4>2. PICK g \in Int : g = Genesis[<<u, a>>]
        BY <4>1, GenesisType
      <4>3. bal[<<u, a>>] = [available |-> g, locked |-> 0]
        BY <1>2, <4>1, <4>2
      <4>4. QED
        BY <4>2, <4>3
    <3>2. QED
      BY <3>1 DEF Holdings
  <2>2. Total(bal, a) = Opening(a)
    BY <2>1 DEF Total, Opening
  <2>3. Accepted(deposits, a) = {} /\ Completed(withdrawals, a) = {}
    BY DEF Init, Accepted, Completed
  <2>4. SumFunction(PaidIn(deposits, a)) = 0 /\ SumFunction(PaidOut(withdrawals, a)) = 0
    BY <1>4, <2>3, CreditedType, PaidOutType, SumType DEF CoreType
  <2>5. fees[a] = 0 /\ adjusted[a] = 0 /\ Opening(a) \in Int
    BY OpeningType DEF Init
  <2>6. QED
    BY <2>2, <2>4, <2>5 DEF Balanced
<1>6. QED
  BY <1>3, <1>4, <1>5 DEF FundsOk

\* Submission.
LEMMA SubmitFunds ==
    ASSUME CoreType, BookInv, FundsOk, NEW o \in Orders, Submit(o)
    PROVE  CoreType' /\ FundsOk'
<1>1. CASE UNCHANGED <<books, bal, fees>>
  <2>1. UNCHANGED <<deposits, withdrawals, adjusted, manual>>
    BY DEF Submit, vars
  <2>2. QED
    BY <1>1, <2>1 DEF CoreType, FundsOk
<1>2. CASE ~ UNCHANGED <<books, bal, fees>>
  <2>1. PICK next : next = Submission(o, books[o.pair], bal)
    OBVIOUS
  <2>2. /\ next.ok /\ books' = [books EXCEPT ![o.pair] = next.book] /\ bal' = next.bal
        /\ fees' = [a \in Assets |-> fees[a] + FeesOf(o, next.trades, a)]
        /\ UNCHANGED <<deposits, withdrawals, adjusted, manual>>
    BY <1>2, <2>1 DEF Submit, vars
  <2>3. PICK book : book = books[o.pair]
    OBVIOUS
  <2>4. PICK side : side = book[Opposite(o)]
    OBVIOUS
  <2>5. PICK plan : plan = PlanOrder(o, side)
    OBVIOUS
  <2>6. /\ side \in SideType /\ o.pair \in Pairs /\ plan \in PlanType
        /\ Planned(o, Makers(o, side), Len(Makers(o, side)), plan)
    BY <2>3, <2>4, <2>5, SubmissionPlan DEF CoreType, BookInv
  <2>7. plan.ok
    BY <2>1, <2>2, <2>3, <2>4, <2>5, <2>6, AcceptedPlan DEF CoreType
  <2>8. ValidOrder(o)
    BY <2>6, <2>7 DEF Planned
  <2>9. next.book = CommitBook(book, o, plan)
    <3>1. plan = PlanOrder(o, book[Opposite(o)]) /\ next = Submission(o, book, bal)
      BY <2>1, <2>3, <2>4, <2>5
    <3>2. Submission(o, book, bal).book = CommitBook(book, o, plan)
      BY ZenonT(60), <3>1, SubmissionParts
    <3>3. QED
      BY <3>1, <3>2
  <2>10. next.book \in TypedBook
    BY <2>3, <2>6, <2>8, <2>9, CommitBookType DEF Committed, CoreType, TypedBooks
  <2>11. books' \in TypedBooks
    BY <2>2, <2>6, <2>10 DEF CoreType, TypedBooks
  <2>12. /\ next.bal \in [Accounts -> Row] /\ WithinLimits(next.bal)
         /\ \A a \in Assets : /\ FeesOf(o, next.trades, a) \in Int
                              /\ Total(next.bal, a) = Total(bal, a) - FeesOf(o, next.trades, a)
    BY <2>1, <2>2, <2>3, <2>4, <2>5, <2>6, SubmissionFunds DEF CoreType, FundsOk
  <2>13. CoreType'
    BY <2>2, <2>11, <2>12 DEF CoreType
  <2>14. ASSUME NEW a \in Assets PROVE Balanced(bal', fees', adjusted', deposits', withdrawals', a)
    <3>1. Balanced(bal, fees, adjusted, deposits, withdrawals, a)
      BY DEF FundsOk
    <3>2. PICK f \in Int : f = FeesOf(o, next.trades, a)
      BY <2>12
    <3>3. fees'[a] = fees[a] + f /\ fees[a] \in Int /\ adjusted[a] \in Int
      BY <2>2, <3>2 DEF CoreType
    <3>4. Total(bal', a) = Total(bal, a) - f /\ Total(bal, a) \in Int
      BY <2>2, <2>12, <3>2, HoldingsNumeric DEF CoreType
    <3>5. QED
      BY <2>2, <3>1, <3>3, <3>4 DEF Balanced
  <2>15. QED
    BY <2>2, <2>12, <2>13, <2>14 DEF FundsOk
<1>3. QED
  BY <1>1, <1>2

-----------------------------------------------------------------------------
(* Funds: cancellations, deposits, updates and locks.                       *)

\* A cancellation takes one entry, of the user who asks, off its queue.
Cancelled(user, pair, s, x, i, e) ==
    /\ Place(books, pair, s, x, i) /\ e = books[pair][s].levels[x][i]
    /\ e \in EntryType /\ e.user = user /\ e.pair = pair /\ e.type = s /\ e.price = x
    /\ Unlock(Unchecked, <<user, PayMint(e)>>, Reservation(e)).ok
    /\ bal' = Unlock(Unchecked, <<user, PayMint(e)>>, Reservation(e)).bal
    /\ books' = [books EXCEPT ![pair][s] = RemoveOrder(@, e)]
    /\ cancellations' = cancellations \cup {e} /\ \A c \in cancellations : c.id # e.id
    /\ UNCHANGED <<submissions, deposits, withdrawals, fees, adjusted, manual>>

\* A cancellation that changes anything takes the one entry of its order.
LEMMA CancelTakes ==
    ASSUME CoreType, BookInv, NEW id, NEW user, NEW pair \in Pairs, Cancel(id, user, pair), ~ UNCHANGED vars
    PROVE  \E s, x, i, e : Cancelled(user, pair, s, x, i, e)
<1>1. PICK found : found = {e \in BookEntries(books[pair]) : e.id = id}
  OBVIOUS
<1>2. PICK e : e = CHOOSE y \in found : TRUE
  OBVIOUS
<1>3. /\ found # {} /\ e.user = user
      /\ Unlock(Unchecked, <<user, PayMint(e)>>, Reservation(e)).ok
      /\ bal' = Unlock(Unchecked, <<user, PayMint(e)>>, Reservation(e)).bal
      /\ books' = [books EXCEPT ![pair][e.type] = RemoveOrder(@, e)]
      /\ cancellations' = cancellations \cup {e} /\ \A c \in cancellations : c.id # id
      /\ UNCHANGED <<submissions, deposits, withdrawals, fees, adjusted, manual>>
  BY <1>1, <1>2 DEF Cancel
<1>4. e \in BookEntries(books[pair]) /\ e.id = id
  BY <1>1, <1>2, <1>3
<1>5. Shaped(books)
  BY DEF BookInv, BookOk
<1>6. PICK s \in Sides, x \in Prices : \E i \in DOMAIN books[pair][s].levels[x] : e = books[pair][s].levels[x][i]
  BY <1>4, <1>5, EntryIsPlaced
<1>7. PICK i \in DOMAIN books[pair][s].levels[x] : e = books[pair][s].levels[x][i]
  BY <1>6
<1>8. Entry(submissions, e, pair, s, x)
  BY <1>7 DEF BookInv, BookOk, QueueOk
<1>9. e.pair = pair /\ e.type = s /\ e.price = x
  BY <1>8 DEF Entry
<1>10. e \in EntryType
  <2>1. books[pair][s] \in SideType
    BY DEF CoreType, TypedBooks, TypedBook
  <2>2. books[pair][s].levels[x] \in Seq(EntryType)
    BY <2>1, SideIsLevelled DEF Levelled
  <2>3. QED
    BY <1>7, <2>2
<1>11. Cancelled(user, pair, s, x, i, e)
  BY <1>3, <1>4, <1>7, <1>9, <1>10 DEF Cancelled, Place
<1>12. QED
  BY <1>11

\* The account and amount an entry reserves.
LEMMA ReservationType ==
    ASSUME NEW e \in EntryType
    PROVE  /\ Reservation(e) \in Int /\ PayMint(e) \in Assets /\ <<e.user, PayMint(e)>> \in Accounts
           /\ e.price \in Int /\ e.remaining \in Int
<1>1. e.user \in Users /\ e.price \in Int /\ e.remaining \in Int /\ e.pair \in Pairs
  BY PriceType DEF EntryType
<1>2. e.pair[1] \in Assets /\ e.pair[2] \in Assets
  BY <1>1, CoreAssumption
<1>3. Quote(e.price, e.remaining) \in Int
  BY <1>1, ArithmeticType
<1>4. PayMint(e) \in Assets
  BY <1>2 DEF PayMint, Base, QuoteMint
<1>5. QED
  BY <1>1, <1>3, <1>4 DEF Reservation, Accounts

\* A candidate starts from the balances.
LEMMA UncheckedType ==
    ASSUME CoreType
    PROVE  Unchecked \in Candidate /\ Unchecked.ok /\ Unchecked.bal = bal
BY DEF CoreType, Unchecked, Candidate

\* A cancellation keeps the funds.
LEMMA CancelFunds ==
    ASSUME CoreType, BookInv, FundsOk, NEW id, NEW user, NEW pair \in Pairs, Cancel(id, user, pair)
    PROVE  CoreType' /\ FundsOk'
<1>1. CASE UNCHANGED vars
  BY <1>1 DEF CoreType, FundsOk, vars
<1>2. CASE ~ UNCHANGED vars
  <2>1. PICK s, x, i, e : Cancelled(user, pair, s, x, i, e)
    BY <1>2, CancelTakes
  <2>2. PICK freed : freed = Unlock(Unchecked, <<user, PayMint(e)>>, Reservation(e))
    OBVIOUS
  <2>3. PICK value \in Int : value = Reservation(e)
    BY <2>1, ReservationType DEF Cancelled
  <2>4. PICK account \in Accounts : account = <<user, PayMint(e)>>
    BY <2>1, ReservationType DEF Cancelled
  <2>5. Reserves(Unchecked, freed, account, -value)
    BY Zenon, <2>2, <2>3, <2>4, UncheckedType, LockReserves
  <2>6. freed.ok /\ bal' = freed.bal /\ freed \in Candidate
    BY Zenon, <2>1, <2>2, <2>5 DEF Cancelled, Reserves
  <2>7. Checked(Unchecked)
    BY UncheckedType DEF FundsOk, Checked
  <2>8. bal' \in [Accounts -> Row] /\ WithinLimits(bal')
    BY <2>5, <2>6, <2>7 DEF Reserves, Checked, Candidate
  <2>9. \A a \in Assets : Total(bal', a) = Total(bal, a)
    BY <2>5, <2>6, UncheckedType DEF Reserves
  <2>10. books' \in TypedBooks
    <3>1. PICK r : r = RemoveOrder(books[pair][s], e)
      BY Zenon
    <3>2. s \in Sides /\ e \in EntryType /\ books' = [books EXCEPT ![pair][s] = r]
      BY <2>1, <3>1 DEF Cancelled, Place
    <3>3. r \in SideType
      BY <3>1, <3>2, RemoveOrderType DEF CoreType, TypedBooks, TypedBook
    <3>4. QED
      BY <3>2, <3>3 DEF CoreType, TypedBooks, TypedBook
  <2>11. UNCHANGED <<deposits, withdrawals, fees, adjusted, manual>>
    BY <2>1 DEF Cancelled
  <2>12. CoreType'
    BY <2>8, <2>10, <2>11 DEF CoreType
  <2>13. \A a \in Assets : Balanced(bal', fees', adjusted', deposits', withdrawals', a)
    BY <2>9, <2>11 DEF FundsOk, Balanced
  <2>14. QED
    BY <2>8, <2>12, <2>13 DEF FundsOk
<1>3. QED
  BY <1>1, <1>2

\* Deposits.
LEMMA CreditFunds ==
    ASSUME CoreType, FundsOk, NEW d \in Credits, CreditDeposit(d)
    PROVE  CoreType' /\ FundsOk'
<1>1. CASE UNCHANGED vars
  BY <1>1 DEF CoreType, FundsOk, vars
<1>2. CASE ~ UNCHANGED vars
  <2>1. PICK next : next = Move(Unchecked, <<d.user, d.asset>>, d.amount, 0)
    OBVIOUS
  <2>2. PICK r : r = [credit |-> d, rejected |-> ~next.ok]
    OBVIOUS
  <2>3. /\ deposits' = deposits \cup {r} /\ (\A n \in deposits : n.credit.id # d.id)
        /\ bal' = (IF next.ok THEN next.bal ELSE bal)
        /\ UNCHANGED <<books, submissions, cancellations, withdrawals, fees, adjusted, manual>>
    BY <1>2, <2>1, <2>2 DEF CreditDeposit
  <2>4. d.user \in Users /\ d.asset \in Assets /\ d.amount \in Int
    BY CreditType
  <2>5. PICK v \in Int : v = d.amount
    BY <2>4
  <2>6. Moved(Unchecked, next, d.asset, v + 0)
    BY <2>1, <2>4, <2>5, UncheckedType, MoveTotal
  <2>7. next \in Candidate /\ Checked(Unchecked)
    BY <2>6, UncheckedType DEF Moved, FundsOk, Checked
  <2>8. bal' \in [Accounts -> Row] /\ WithinLimits(bal')
    BY <2>3, <2>6, <2>7 DEF Moved, Checked, Candidate, FundsOk, CoreType
  <2>9. r.credit = d /\ r.rejected = ~next.ok /\ r \in Deposit
    BY <2>2, <2>7 DEF Deposit, Candidate
  <2>10. deposits' \subseteq Deposit /\ IsFiniteSet(deposits') /\ r \notin deposits
    BY <2>3, <2>9, FS_AddElement DEF CoreType
  <2>11. CoreType'
    BY <2>3, <2>8, <2>10 DEF CoreType
  <2>12. ASSUME NEW a \in Assets PROVE Balanced(bal', fees', adjusted', deposits', withdrawals', a)
    <3>1. Balanced(bal, fees, adjusted, deposits, withdrawals, a)
      BY DEF FundsOk
    <3>2. PICK f : f = PaidIn(deposits, a)
      OBVIOUS
    <3>3. PICK g : g = PaidIn(deposits', a)
      OBVIOUS
    <3>4. /\ Numeric(f) /\ DOMAIN f = Accepted(deposits, a) /\ \A n \in Accepted(deposits, a) : f[n] = n.credit.amount
      BY <3>2, CreditedType DEF CoreType
    <3>5. /\ Numeric(g) /\ DOMAIN g = Accepted(deposits', a) /\ \A n \in Accepted(deposits', a) : g[n] = n.credit.amount
      BY <2>10, <2>11, <3>3, CreditedType DEF CoreType
    <3>6. /\ Total(bal, a) \in Int /\ fees[a] \in Int /\ adjusted[a] \in Int /\ Opening(a) \in Int
          /\ SumFunction(f) \in Int /\ SumFunction(PaidOut(withdrawals, a)) \in Int
      BY <3>4, HoldingsNumeric, OpeningType, SumType, PaidOutType DEF CoreType
    <3>7. CASE next.ok /\ a = d.asset
      <4>1. Accepted(deposits', a) = Accepted(deposits, a) \cup {r} /\ r \notin Accepted(deposits, a)
        BY <2>3, <2>9, <2>10, <3>7 DEF Accepted
      <4>2. Extends(g, f, r)
        BY <3>4, <3>5, <4>1 DEF Extends
      <4>3. SumFunction(g) = SumFunction(f) + g[r] /\ g[r] = v
        BY <2>5, <2>9, <3>4, <3>5, <4>1, <4>2, SumExtends
      <4>4. Total(bal', a) = Total(bal, a) + (v + 0)
        BY <2>3, <2>6, <3>7, UncheckedType DEF Moved
      <4>5. fees' = fees /\ adjusted' = adjusted /\ withdrawals' = withdrawals
        BY <2>3
      <4>6. PICK paid \in Int : paid = SumFunction(PaidOut(withdrawals, a))
        BY <3>6
      <4>7. Total(bal, a) + fees[a] = Opening(a) + adjusted[a] + SumFunction(f) - paid
        BY <3>1, <3>2, <4>6 DEF Balanced
      <4>8. Total(bal', a) + fees[a] = Opening(a) + adjusted[a] + SumFunction(g) - paid
        BY <3>6, <4>3, <4>4, <4>7
      <4>9. Total(bal', a) + fees'[a] = Opening(a) + adjusted'[a] + SumFunction(g) - SumFunction(PaidOut(withdrawals', a))
        BY <4>5, <4>6, <4>8
      <4>10. QED
        BY <3>3, <4>9, Zenon DEF Balanced
    <3>8. CASE ~(next.ok /\ a = d.asset)
      <4>1. Accepted(deposits', a) = Accepted(deposits, a)
        BY <2>3, <2>9, <3>8 DEF Accepted
      <4>2. g = f
        BY <3>2, <3>3, <4>1 DEF PaidIn
      <4>3. Total(bal', a) = Total(bal, a)
        BY <2>3, <2>6, <3>6, <3>8, UncheckedType DEF Moved
      <4>4. QED
        BY <2>3, <3>1, <3>2, <3>3, <4>2, <4>3 DEF Balanced
    <3>9. QED
      BY <3>7, <3>8
  <2>13. QED
    BY <2>8, <2>11, <2>12 DEF FundsOk
<1>3. QED
  BY <1>1, <1>2

\* The balance commands.
LEMMA BalanceFunds ==
    ASSUME CoreType, FundsOk, NEW account \in Accounts, NEW delta \in Int, Balance(account, delta)
    PROVE  CoreType' /\ FundsOk'
<1>1. PICK next : next = Move(Unchecked, account, delta, 0)
  OBVIOUS
<1>2. /\ next.ok /\ bal' = next.bal /\ adjusted' = [adjusted EXCEPT ![account[2]] = @ + delta]
      /\ UNCHANGED <<books, submissions, cancellations, deposits, withdrawals, fees, manual>>
  BY <1>1 DEF Balance
<1>3. PICK user \in Users, asset \in Assets : account = <<user, asset>> /\ account[2] = asset
  BY DEF Accounts
<1>4. Moved(Unchecked, next, asset, delta + 0)
  BY <1>1, <1>3, UncheckedType, MoveTotal
<1>5. Checked(Unchecked)
  BY UncheckedType DEF FundsOk, Checked
<1>6. bal' \in [Accounts -> Row] /\ WithinLimits(bal')
  BY <1>2, <1>4, <1>5 DEF Moved, Checked, Candidate
<1>7. adjusted' \in [Assets -> Int] /\ \A a \in Assets : adjusted'[a] = adjusted[a] + (IF a = asset THEN delta ELSE 0)
  BY <1>2, <1>3 DEF CoreType
<1>8. CoreType'
  BY <1>2, <1>6, <1>7 DEF CoreType
<1>9. ASSUME NEW a \in Assets PROVE Balanced(bal', fees', adjusted', deposits', withdrawals', a)
  <2>1. Balanced(bal, fees, adjusted, deposits, withdrawals, a)
    BY DEF FundsOk
  <2>2. /\ Total(bal, a) \in Int /\ fees[a] \in Int /\ adjusted[a] \in Int /\ Opening(a) \in Int
        /\ SumFunction(PaidIn(deposits, a)) \in Int /\ SumFunction(PaidOut(withdrawals, a)) \in Int
    BY HoldingsNumeric, OpeningType, PaidOutType, CreditedType DEF CoreType
  <2>3. Total(bal', a) = Total(bal, a) + (IF a = asset THEN delta ELSE 0)
    BY <1>2, <1>4, UncheckedType DEF Moved
  <2>4. UNCHANGED <<fees, deposits, withdrawals>>
    BY <1>2
  <2>5. QED
    BY <1>7, <2>1, <2>2, <2>3, <2>4 DEF Balanced
<1>10. QED
  BY <1>6, <1>8, <1>9 DEF FundsOk

\* A step that only moves an amount within an account.
LEMMA ReserveFunds ==
    ASSUME CoreType, FundsOk, NEW next, NEW account \in Accounts, NEW value \in Int,
           Reserves(Unchecked, next, account, value), next.ok, bal' = next.bal,
           UNCHANGED <<fees, adjusted>>
    PROVE  /\ bal' \in [Accounts -> Row] /\ WithinLimits(bal')
           /\ \A a \in Assets : Total(bal', a) = Total(bal, a)
<1>1. Checked(Unchecked)
  BY UncheckedType DEF FundsOk, Checked
<1>2. QED
  BY <1>1, UncheckedType DEF Reserves, Checked, Candidate

\* Command::Lock and Command::Unlock reserve or release in one account.
Locks(account, v, next) ==
    /\ manual' = [manual EXCEPT ![account] = @ + v]
    /\ Reserves(Unchecked, next, account, v) /\ next.ok /\ bal' = next.bal

\* Lock and Unlock commands move between available and locked.
LEMMA LockMoves ==
    ASSUME CoreType, NEW account \in Accounts, NEW value \in Int,
           LockBalance(account, value) \/ UnlockBalance(account, value)
    PROVE  \E v \in Int : \E next : Locks(account, v, next)
<1>1. CASE LockBalance(account, value)
  BY <1>1, UncheckedType, LockReserves DEF LockBalance, Locks
<1>2. CASE UnlockBalance(account, value)
  <2>1. PICK v \in Int : v = -value
    OBVIOUS
  <2>2. PICK next : next = Unlock(Unchecked, account, value)
    OBVIOUS
  <2>3. Reserves(Unchecked, next, account, v)
    BY <2>1, <2>2, UncheckedType, LockReserves
  <2>4. next.ok /\ bal' = next.bal /\ manual' = [manual EXCEPT ![account] = @ - value]
    BY <1>2, <2>2 DEF UnlockBalance
  <2>5. manual[account] - value = manual[account] + v
    BY <2>1 DEF CoreType
  <2>6. manual' = [manual EXCEPT ![account] = @ + v]
    BY <2>4, <2>5
  <2>7. QED
    BY <2>1, <2>3, <2>4, <2>6 DEF Locks
<1>3. QED
  BY <1>1, <1>2

\* Lock and Unlock commands keep the funds.
LEMMA LockFunds ==
    ASSUME CoreType, FundsOk, NEW account \in Accounts, NEW value \in Int,
           LockBalance(account, value) \/ UnlockBalance(account, value)
    PROVE  CoreType' /\ FundsOk'
<1>1. PICK v \in Int : \E next : Locks(account, v, next)
  BY LockMoves
<1>11. PICK next : Locks(account, v, next)
  BY <1>1
<1>2. UNCHANGED <<books, submissions, cancellations, deposits, withdrawals, fees, adjusted>>
  BY DEF LockBalance, UnlockBalance
<1>3. Reserves(Unchecked, next, account, v) /\ next.ok /\ bal' = next.bal /\ manual' = [manual EXCEPT ![account] = @ + v]
  BY <1>11 DEF Locks
<1>4. /\ bal' \in [Accounts -> Row] /\ WithinLimits(bal')
      /\ \A a \in Assets : Total(bal', a) = Total(bal, a)
  BY <1>2, <1>3, ReserveFunds
<1>5. manual' \in [Accounts -> Int]
  BY <1>3 DEF CoreType
<1>6. CoreType'
  BY <1>2, <1>4, <1>5 DEF CoreType
<1>7. \A a \in Assets : Balanced(bal', fees', adjusted', deposits', withdrawals', a)
  BY <1>2, <1>4 DEF FundsOk, Balanced
<1>8. QED
  BY <1>4, <1>6, <1>7 DEF FundsOk

-----------------------------------------------------------------------------
(* Funds: withdrawals.                                                      *)

\* What a withdrawal command does to the balances and to the receipts.
Funded(w, action, next) ==
    /\ action = "reserve" => next = Lock(Unchecked, <<w.user, w.asset>>, w.amount)
    /\ action = "release" => next = Unlock(Unchecked, <<w.user, w.asset>>, w.amount)
    /\ action = "complete" => next = Move(Unchecked, <<w.user, w.asset>>, 0, -w.amount)
Withdrawn(w, action, next, old, n) ==
    /\ Funded(w, action, next)
    /\ bal' = IF next.ok THEN next.bal ELSE bal
    /\ withdrawals' = (withdrawals \ old) \cup {n} /\ n \notin withdrawals
    /\ n = [funds |-> w, status |-> n.status] /\ n.funds = w
    /\ \/ action = "reserve" /\ old = {} /\ n.status = (IF next.ok THEN "reserved" ELSE "rejected")
       \/ /\ action # "reserve" /\ next.ok
          /\ n.status = (IF action = "release" THEN "released" ELSE "completed")
          /\ \E r \in withdrawals : old = {r} /\ r.funds = w /\ r.status = "reserved"
    /\ UNCHANGED <<books, submissions, cancellations, deposits, fees, adjusted, manual>>

\* A withdrawal command moves its funds and its receipt together.
LEMMA WithdrawParts ==
    ASSUME ReceiptInv, NEW w, NEW action \in {"reserve", "release", "complete"}, Withdraw(w, action), ~ UNCHANGED vars
    PROVE  \E next, old, n : Withdrawn(w, action, next, old, n)
<1>1. PICK next : next = CASE action = "reserve"  -> Lock(Unchecked, <<w.user, w.asset>>, w.amount)
                           [] action = "release"  -> Unlock(Unchecked, <<w.user, w.asset>>, w.amount)
                           [] action = "complete" -> Move(Unchecked, <<w.user, w.asset>>, 0, -w.amount)
  OBVIOUS
<1>2. PICK status : status = IF next.ok THEN Result(action) ELSE "rejected"
  OBVIOUS
<1>3. PICK n : n = [funds |-> w, status |-> status]
  OBVIOUS
<1>4. /\ MayWithdraw(w, action) /\ (next.ok \/ action = "reserve")
      /\ withdrawals' = (withdrawals \ Receipts(w.id)) \cup {n}
      /\ bal' = IF next.ok THEN next.bal ELSE bal
      /\ UNCHANGED <<books, submissions, cancellations, deposits, fees, adjusted, manual>>
  BY <1>1, <1>2, <1>3 DEF Withdraw
<1>5. Funded(w, action, next)
  BY <1>1 DEF Funded
<1>6. n = [funds |-> w, status |-> n.status] /\ n.funds = w /\ n.status = status
  BY <1>3
<1>7. PICK old : old = Receipts(w.id)
  OBVIOUS
<1>8. n \in withdrawals => n \in old
  BY <1>6, <1>7 DEF Receipts
<1>9. CASE old = {}
  <2>1. action = "reserve"
    BY <1>4, <1>7, <1>9 DEF MayWithdraw
  <2>2. status = IF next.ok THEN "reserved" ELSE "rejected"
    BY <1>2, <2>1 DEF Result
  <2>3. Withdrawn(w, action, next, old, n)
    BY <1>4, <1>5, <1>6, <1>7, <1>8, <1>9, <2>1, <2>2 DEF Withdrawn
  <2>4. QED
    BY <2>3
<1>10. CASE old # {}
  <2>1. PICK r \in old : r.funds = w /\ r.status = "reserved" /\ action # "reserve"
    BY <1>4, <1>7, <1>10 DEF MayWithdraw
  <2>2. next.ok /\ status = (IF action = "release" THEN "released" ELSE "completed")
    BY <1>2, <1>4, <2>1 DEF Result
  <2>3. old = {r} /\ r \in withdrawals
    BY <1>7, <2>1 DEF Receipts, ReceiptInv
  <2>4. n \notin withdrawals
    BY <1>6, <1>8, <2>1, <2>2, <2>3
  <2>5. Withdrawn(w, action, next, old, n)
    BY <1>4, <1>5, <1>6, <1>7, <2>1, <2>2, <2>3, <2>4 DEF Withdrawn
  <2>6. QED
    BY <2>5
<1>11. QED
  BY <1>9, <1>10

\* What it does to the balances of an asset.
LEMMA WithdrawTotals ==
    ASSUME CoreType, FundsOk, NEW w \in Withdrawals, NEW action \in {"reserve", "release", "complete"},
           NEW next, Funded(w, action, next), next.ok
    PROVE  /\ next.bal \in [Accounts -> Row] /\ WithinLimits(next.bal)
           /\ \A a \in Assets : Total(next.bal, a)
                  = Total(bal, a) - (IF action = "complete" /\ a = w.asset THEN w.amount ELSE 0)
<1>1. w.user \in Users /\ w.asset \in Assets /\ <<w.user, w.asset>> \in Accounts /\ w.amount \in Int
  BY CreditType
<1>2. Checked(Unchecked)
  BY UncheckedType DEF FundsOk, Checked
<1>3. PICK v \in Int : v = w.amount
  BY <1>1
<1>4. PICK account \in Accounts : account = <<w.user, w.asset>>
  BY <1>1
<1>5. \A a \in Assets : Total(bal, a) \in Int
  BY HoldingsNumeric DEF CoreType
<1>6. CASE action # "complete"
  <2>1. PICK x \in Int : Reserves(Unchecked, next, account, x)
    <3>1. CASE action = "reserve"
      BY <1>3, <1>4, <3>1, UncheckedType, LockReserves DEF Funded
    <3>2. CASE action = "release"
      <4>1. PICK x \in Int : x = -v
        OBVIOUS
      <4>2. Reserves(Unchecked, next, account, x)
        BY <1>3, <1>4, <3>2, <4>1, UncheckedType, LockReserves DEF Funded
      <4>3. QED
        BY <4>2
    <3>3. QED
      BY <1>6, <3>1, <3>2
  <2>2. next \in Candidate /\ Checked(next) /\ \A a \in Assets : Total(next.bal, a) = Total(bal, a)
    BY <1>2, <2>1, UncheckedType DEF Reserves
  <2>3. QED
    BY <1>5, <1>6, <2>2 DEF Candidate, Checked
<1>7. CASE action = "complete"
  <2>1. PICK x \in Int : x = -v
    OBVIOUS
  <2>2. Moved(Unchecked, next, w.asset, 0 + x)
    BY <1>1, <1>3, <1>7, <2>1, UncheckedType, MoveTotal DEF Funded
  <2>3. next \in Candidate /\ Checked(next)
    BY <1>2, <2>2 DEF Moved
  <2>4. ASSUME NEW a \in Assets
        PROVE  Total(next.bal, a) = Total(bal, a) - (IF action = "complete" /\ a = w.asset THEN w.amount ELSE 0)
    <3>1. Total(next.bal, a) = Total(bal, a) + (IF a = w.asset THEN 0 + x ELSE 0)
      BY <2>2, UncheckedType DEF Moved
    <3>2. CASE a = w.asset
      BY <1>3, <1>5, <1>7, <2>1, <3>1, <3>2
    <3>3. CASE a # w.asset
      BY <1>5, <3>1, <3>3
    <3>4. QED
      BY <3>2, <3>3
  <2>5. QED
    BY <2>3, <2>4 DEF Candidate, Checked
<1>8. QED
  BY <1>6, <1>7

\* A withdrawal command keeps the funds.
LEMMA WithdrawFunds ==
    ASSUME CoreType, ReceiptInv, FundsOk, NEW w \in Withdrawals,
           NEW action \in {"reserve", "release", "complete"}, Withdraw(w, action)
    PROVE  CoreType' /\ FundsOk'
<1>1. CASE UNCHANGED vars
  BY <1>1 DEF CoreType, FundsOk, vars
<1>2. CASE ~ UNCHANGED vars
  <2>1. PICK next, old, n : Withdrawn(w, action, next, old, n)
    BY <1>2, WithdrawParts
  <2>2. /\ Funded(w, action, next) /\ bal' = (IF next.ok THEN next.bal ELSE bal)
        /\ withdrawals' = (withdrawals \ old) \cup {n} /\ n \notin withdrawals
        /\ n = [funds |-> w, status |-> n.status] /\ n.funds = w
        /\ UNCHANGED <<books, submissions, cancellations, deposits, fees, adjusted, manual>>
    BY <2>1 DEF Withdrawn
  <2>3. n.status \in Statuses
    BY <2>1 DEF Withdrawn, Statuses
  <2>4. n \in Withdrawal
    BY <2>2, <2>3 DEF Withdrawal
  <2>5. bal' \in [Accounts -> Row] /\ WithinLimits(bal')
    BY <2>2, WithdrawTotals DEF CoreType, FundsOk
  <2>6. withdrawals' \subseteq Withdrawal /\ IsFiniteSet(withdrawals')
    <3>1. IsFiniteSet(withdrawals \ old)
      BY FS_Subset DEF CoreType
    <3>2. IsFiniteSet((withdrawals \ old) \cup {n})
      BY <3>1, FS_AddElement
    <3>3. QED
      BY <2>2, <2>4, <3>2 DEF CoreType
  <2>7. CoreType'
    BY <2>2, <2>5, <2>6 DEF CoreType
  <2>8. ASSUME NEW a \in Assets PROVE Balanced(bal', fees', adjusted', deposits', withdrawals', a)
    <3>1. Balanced(bal, fees, adjusted, deposits, withdrawals, a)
      BY DEF FundsOk
    <3>2. PICK f : f = PaidOut(withdrawals, a)
      OBVIOUS
    <3>3. PICK g : g = PaidOut(withdrawals', a)
      OBVIOUS
    <3>4. /\ Numeric(f) /\ DOMAIN f = Completed(withdrawals, a) /\ \A r \in Completed(withdrawals, a) : f[r] = r.funds.amount
      BY <3>2, PaidOutType DEF CoreType
    <3>5. /\ Numeric(g) /\ DOMAIN g = Completed(withdrawals', a) /\ \A r \in Completed(withdrawals', a) : g[r] = r.funds.amount
      BY <2>6, <3>3, PaidOutType
    <3>6. /\ Total(bal, a) \in Int /\ fees[a] \in Int /\ adjusted[a] \in Int /\ Opening(a) \in Int
          /\ SumFunction(f) \in Int /\ SumFunction(PaidIn(deposits, a)) \in Int
      BY <3>4, HoldingsNumeric, OpeningType, SumType, CreditedType DEF CoreType
    <3>7. PICK v \in Int : v = w.amount
      BY CreditType
    <3>8. CASE action = "complete" /\ a = w.asset
      <4>1. next.ok /\ n.status = "completed" /\ \E r : old = {r} /\ r.status = "reserved"
        BY <2>1, <3>8 DEF Withdrawn
      <4>2. Completed(withdrawals', a) = Completed(withdrawals, a) \cup {n} /\ n \notin Completed(withdrawals, a)
        BY <2>2, <3>8, <4>1 DEF Completed
      <4>3. Extends(g, f, n)
        BY <3>4, <3>5, <4>2 DEF Extends
      <4>4. SumFunction(g) = SumFunction(f) + g[n] /\ g[n] = v
        <5>1. SumFunction(g) = SumFunction(f) + g[n]
          BY <3>4, <3>5, <4>3, SumExtends
        <5>2. n \in Completed(withdrawals', a) /\ n.funds = w
          BY <2>2, <4>2
        <5>3. g[n] = v
          BY <3>5, <3>7, <5>2
        <5>4. QED
          BY <5>1, <5>3
      <4>5. Total(bal', a) = Total(bal, a) - v
        BY <2>2, <3>7, <3>8, <4>1, WithdrawTotals
      <4>6. PICK paid \in Int : paid = SumFunction(PaidIn(deposits, a))
        BY <3>6
      <4>7. Total(bal, a) + fees[a] = Opening(a) + adjusted[a] + paid - SumFunction(f)
        BY <3>1, <3>2, <4>6 DEF Balanced
      <4>8. Total(bal', a) + fees[a] = Opening(a) + adjusted[a] + paid - SumFunction(g)
        BY <3>6, <4>4, <4>5, <4>7
      <4>9. fees' = fees /\ adjusted' = adjusted /\ deposits' = deposits
        BY <2>2
      <4>10. Total(bal', a) + fees'[a] = Opening(a) + adjusted'[a] + SumFunction(PaidIn(deposits', a)) - SumFunction(g)
        BY <4>6, <4>8, <4>9
      <4>11. QED
        BY <3>3, <4>10, Zenon DEF Balanced
    <3>9. CASE ~(action = "complete" /\ a = w.asset)
      <4>1. n.status = "completed" => action = "complete"
        BY <2>1 DEF Withdrawn
      <4>2. \A r \in old : r.status = "reserved"
        BY <2>1 DEF Withdrawn
      <4>3. Completed(withdrawals', a) = Completed(withdrawals, a)
        BY <2>2, <3>9, <4>1, <4>2 DEF Completed
      <4>4. g = f
        BY <3>2, <3>3, <4>3 DEF PaidOut
      <4>5. Total(bal', a) = Total(bal, a)
        BY <2>2, <3>6, <3>9, WithdrawTotals
      <4>6. QED
        BY <2>2, <3>1, <3>2, <3>3, <4>4, <4>5 DEF Balanced
    <3>10. QED
      BY <3>8, <3>9
  <2>9. QED
    BY <2>5, <2>7, <2>8 DEF FundsOk
<1>3. QED
  BY <1>1, <1>2

\* The core's state is typed and its accounts balance.
FundsInv == CoreType /\ ReceiptInv /\ BookInv /\ FundsOk

\* Every step keeps the funds.
LEMMA FundsStep == FundsInv /\ [Next]_vars => FundsInv'
<1> SUFFICES ASSUME FundsInv, [Next]_vars PROVE FundsInv'
  OBVIOUS
<1>1. CoreType /\ ReceiptInv /\ BookInv /\ FundsOk
  BY DEF FundsInv
<1>2. BookInv'
  BY <1>1, BookStep
<1>3. ReceiptInv'
  <2>1. CASE UNCHANGED vars
    BY <1>1, <2>1, ReceiptsStay DEF vars
  <2>2. CASE Next
    BY <1>1, <2>2, SubmitStep, CancelStep, CreditStep, WithdrawStep, BalanceStep, Zenon DEF Next
  <2>3. QED
    BY <2>1, <2>2
<1>4. CoreType' /\ FundsOk'
  <2>1. CASE UNCHANGED vars
    BY <1>1, <2>1 DEF CoreType, FundsOk, vars
  <2>2. CASE \E o \in Orders : Submit(o)
    BY <1>1, <2>2, SubmitFunds
  <2>3. CASE \E o \in Orders, u \in Users : Cancel(o.id, u, o.pair)
    BY <1>1, <2>3, CancelFunds, OrderType
  <2>4. CASE \E d \in Credits : CreditDeposit(d)
    BY <1>1, <2>4, CreditFunds
  <2>5. CASE \E w \in Withdrawals, action \in {"reserve", "release", "complete"} : Withdraw(w, action)
    BY <1>1, <2>5, WithdrawFunds
  <2>6. ASSUME NEW x \in Adjustments,
               \/ Balance(x[1], x[2]) \/ Balance(x[1], -x[2])
               \/ LockBalance(x[1], x[2]) \/ UnlockBalance(x[1], x[2])
        PROVE  CoreType' /\ FundsOk'
    <3>1. PICK a \in Accounts, v \in Int : a = x[1] /\ v = x[2]
      BY CoreAssumption
    <3>2. CASE Balance(a, v)
      BY <1>1, <3>2, BalanceFunds
    <3>3. CASE Balance(a, -v)
      <4>1. PICK y \in Int : y = -v
        OBVIOUS
      <4>2. QED
        BY <1>1, <3>3, <4>1, BalanceFunds
    <3>4. CASE LockBalance(a, v) \/ UnlockBalance(a, v)
      BY <1>1, <3>4, LockFunds
    <3>5. QED
      BY <2>6, <3>1, <3>2, <3>3, <3>4
  <2>7. QED
    BY <2>1, <2>2, <2>3, <2>4, <2>5, <2>6 DEF Next
<1>5. QED
  BY <1>2, <1>3, <1>4 DEF FundsInv

\* The funds balance at the start.
LEMMA FundsInitially == Init => FundsInv
<1>1. Init => ReceiptInv
  BY DEF Init, ReceiptInv
<1>2. QED
  BY <1>1, FundsInit, BookInit DEF FundsInv

\* No asset is created or lost and no account leaves its range, whatever the
\* orders, deposits, withdrawals and adjustments and however they interleave.
THEOREM NothingIsLost == Spec => []Conservation
<1>1. FundsInv => Conservation
  BY FundsAre DEF FundsInv
<1>2. QED
  BY <1>1, FundsInitially, FundsStep, PTL DEF Spec

-----------------------------------------------------------------------------
(* What a plan leaves of a maker.                                           *)

\* What remains after an exact part was taken is exact as well.
LEMMA ExactDifference ==
    ASSUME NEW p \in Nat, NEW r \in Nat, NEW q \in Nat, q <= r, QuoteExact(p, r), (p * q) % Factor = 0
    PROVE  QuoteExact(p, r - q) /\ Quote(p, r - q) = Quote(p, r) - Quote(p, q)
<1>1. Factor \in Nat \ {0} /\ Factor \in Int /\ Factor > 0
  BY AmountAssumption
<1>2. PICK k \in Nat : k = Quote(p, r) /\ p * r = Factor * k
  BY ExactQuote DEF QuoteExact
<1>3. PICK l \in Nat : l = Quote(p, q) /\ p * q = Factor * l
  BY ExactQuote
<1>4. PICK d \in Nat : d = r - q
  OBVIOUS
<1>5. PICK n \in Nat : n = p * d
  OBVIOUS
<1>6. n = Factor * (k - l)
  <2>1. n = p * r - p * q
    BY <1>4, <1>5
  <2>2. Factor * (k - l) = Factor * k - Factor * l
    BY <1>1
  <2>3. QED
    BY <1>2, <1>3, <2>1, <2>2
<1>7. Divides(Factor, n)
  BY <1>6 DEF Divides
<1>8. n % Factor = 0
  BY <1>7, ExactDivides
<1>9. PICK j \in Nat : j = Quote(p, d) /\ n = Factor * j
  BY <1>4, <1>5, <1>8, ExactQuote
<1>10. j = k - l
  BY <1>1, <1>6, <1>9
<1>11. k \in Units
  BY <1>2 DEF QuoteExact
<1>12. j \in Units
  BY <1>10, <1>11, AmountAssumption DEF Units
<1>13. QED
  BY <1>2, <1>3, <1>4, <1>5, <1>8, <1>9, <1>10, <1>12 DEF QuoteExact

\* The plan of an order that the books accept.
Plans(b, subs, cans, o, side, plan) ==
    /\ b \in TypedBooks /\ BookOk(b, subs, cans) /\ o \in Orders
    /\ side = b[o.pair][Opposite(o)] /\ plan = PlanOrder(o, side) /\ plan.ok

\* What is known of the plan of an order.
LEMMA PlanFacts ==
    ASSUME NEW b, NEW subs, NEW cans, NEW o, NEW side, NEW plan, Plans(b, subs, cans, o, side, plan)
    PROVE  /\ side \in SideType /\ o.pair \in Pairs /\ plan \in PlanType
           /\ Planned(o, Makers(o, side), Len(Makers(o, side)), plan)
BY SubmissionPlan DEF Plans

\* A maker of a plan is the entry of its id.
TakesFrom(plan, m) ==
    /\ \A i \in DOMAIN plan.trades : plan.trades[i].maker.id = m.id => plan.trades[i].maker = m
    /\ Traded(plan, m) => \E i \in DOMAIN plan.trades :
           plan.trades[i].maker = m /\ Taken(plan, m) = plan.trades[i].qty
    /\ ~Traded(plan, m) => Taken(plan, m) = 0

\* What a plan takes from a maker is at most what it has, and exact.
LEMMA TakenIs ==
    ASSUME NEW b, NEW subs, NEW cans, NEW o, NEW side, NEW plan, Plans(b, subs, cans, o, side, plan),
           NEW m \in Entries(side)
    PROVE  TakesFrom(plan, m)
<1>1. /\ side \in SideType /\ o.pair \in Pairs /\ plan \in PlanType
      /\ Planned(o, Makers(o, side), Len(Makers(o, side)), plan)
  BY PlanFacts
<1>11. /\ o \in Orders /\ BookOk(b, subs, cans) /\ side = b[o.pair][Opposite(o)] /\ plan.ok
  BY DEF Plans
<1>2. Opposite(o) \in Sides
  BY <1>11, OppositeSide
<1>3. PICK at : Visits(o, side, at)
  BY <1>1, MakersAreVisited
<1>4. PICK n \in Nat : n = Len(Makers(o, side))
  BY <1>3 DEF Visits
<1>5. Sourced(Makers(o, side), n, plan)
  BY <1>1, <1>11, <1>4 DEF Planned
<1>6. PICK y \in Prices : \E j \in DOMAIN side.levels[y] : m = side.levels[y][j]
  BY <1>1, EntriesAre
<1>7. PICK j \in DOMAIN side.levels[y] : m = side.levels[y][j]
  BY <1>6
<1>8. ASSUME NEW i \in DOMAIN plan.trades, plan.trades[i].maker.id = m.id PROVE plan.trades[i].maker = m
  <2>1. PICK k \in 1..n : plan.trades[i].maker = Makers(o, side)[k]
    BY <1>5 DEF Sourced
  <2>2. Makers(o, side)[k] = side.levels[at[k][1]][at[k][2]] /\ at[k] \in Places(o, side)
    BY <1>3, <1>4 DEF Visits
  <2>3. IsPlace(o, side, at[k])
    BY <1>1, <2>2, PlacesAre
  <2>4. PICK x, h : x = at[k][1] /\ h = at[k][2] /\ x \in Prices /\ h \in DOMAIN side.levels[x]
    BY <2>3 DEF IsPlace
  <2>5. Place(b, o.pair, Opposite(o), x, h) /\ Place(b, o.pair, Opposite(o), y, j)
    BY <1>1, <1>11, <1>2, <1>7, <2>4 DEF Place
  <2>6. plan.trades[i].maker = side.levels[x][h]
    BY <2>1, <2>2, <2>4
  <2>7. side.levels[x][h].id = side.levels[y][j].id
    BY Zenon, <1>7, <1>8, <2>6
  <2>8. x = y /\ h = j
    BY <1>11, <2>5, <2>7, IdHasOnePlace
  <2>9. QED
    BY <1>7, <2>6, <2>8
<1>9. ASSUME Traded(plan, m)
      PROVE  \E i \in DOMAIN plan.trades : plan.trades[i].maker = m /\ Taken(plan, m) = plan.trades[i].qty
  <2>1. PICK i : i = CHOOSE h \in DOMAIN plan.trades : plan.trades[h].maker.id = m.id
    OBVIOUS
  <2>2. \E h \in DOMAIN plan.trades : plan.trades[h].maker.id = m.id
    BY <1>9 DEF Traded
  <2>3. i \in DOMAIN plan.trades /\ plan.trades[i].maker.id = m.id
    BY <2>1, <2>2
  <2>4. Taken(plan, m) = plan.trades[i].qty
    BY <1>9, <2>1 DEF Taken, TradedQty
  <2>5. plan.trades[i].maker = m
    BY <1>8, <2>3
  <2>6. QED
    BY <2>3, <2>4, <2>5
<1>10. QED
  BY <1>8, <1>9 DEF Taken, TakesFrom

\* A sound entry and what is left of it.
Sound(e, x) == ValidEntry(e, x) /\ (IsBuy(e) => QuoteExact(x, e.remaining))
SoundSide(side) == \A x \in Prices : \A i \in DOMAIN side.levels[x] : Sound(side.levels[x][i], x)

Leaves(m, x, q, e) ==
    /\ q >= 0 /\ e.remaining >= 0
    /\ e.remaining > 0 => Sound(e, x)
    /\ IsBuy(e) => /\ QuoteExact(x, e.remaining)
                   /\ Quote(x, e.remaining) = Quote(x, m.remaining) - (IF q = 0 THEN 0 ELSE Quote(x, q))

\* A sound maker is sound or filled after a trade.
LEMMA SoundAfter ==
    ASSUME NEW m \in EntryType, NEW x \in Prices, Sound(m, x), NEW q \in Int, NEW e, Reduced(m, q, e),
           q = 0 \/ (q > 0 /\ q <= m.remaining /\ QuoteExact(x, q))
    PROVE  Leaves(m, x, q, e)
<1>1. /\ m.remaining \in Int /\ m.filled \in Int /\ m.amount \in Int /\ x \in Nat
      /\ m.remaining > 0 /\ m.filled + m.remaining = m.amount /\ m.price = x
  BY PriceType DEF EntryType, Sound, ValidEntry
<1>2. PICK r \in Nat : r = m.remaining
  BY <1>1
<1>3. q \in Nat /\ q <= r
  BY <1>1, <1>2
<1>4. e.remaining = r - q /\ e.filled = m.filled + q
  BY <1>2 DEF Reduced
<1>5. ValidOrder(e) /\ IsLimit(e)
  <2>1. ValidOrder(m) /\ IsLimit(m)
    BY DEF Sound, ValidEntry
  <2>2. IsLimit(e) /\ ~IsBudget(e) /\ ~IsBudget(m)
    BY <2>1 DEF Reduced, IsLimit, IsBudget
  <2>3. RateValid(e.fee) /\ e.amount \in Units \ {0} /\ e.price > 0 /\ QuoteExact(e.price, e.amount)
    BY <2>1, <2>2 DEF ValidOrder, Reduced
  <2>4. QED
    BY <2>2, <2>3 DEF ValidOrder
<1>6. e.remaining > 0 => ValidEntry(e, x)
  BY <1>1, <1>2, <1>3, <1>4, <1>5 DEF ValidEntry, Reduced
<1>7. ASSUME IsBuy(e)
      PROVE  QuoteExact(x, r - q) /\ Quote(x, r - q) = Quote(x, r) - (IF q = 0 THEN 0 ELSE Quote(x, q))
  <2>1. QuoteExact(x, r)
    BY <1>2, <1>7 DEF Sound, Reduced, IsBuy
  <2>2. Quote(x, r) \in Int
    BY <1>1, ArithmeticType
  <2>3. CASE q = 0
    <3>1. r - q = r
      BY <2>3
    <3>2. QED
      BY <2>1, <2>2, <2>3, <3>1
  <2>4. CASE q # 0
    <3>1. (x * q) % Factor = 0
      BY <2>4 DEF QuoteExact
    <3>2. QED
      BY <1>1, <1>3, <2>1, <2>4, <3>1, ExactDifference
  <2>5. QED
    BY <2>3, <2>4
<1>8. QED
  BY <1>2, <1>3, <1>4, <1>6, <1>7 DEF Sound, Leaves

\* What a plan leaves of each entry of the side it trades with.
LEMMA LeftOver ==
    ASSUME NEW b, NEW subs, NEW cans, NEW o, NEW side, NEW plan, Plans(b, subs, cans, o, side, plan),
           SoundSide(side), NEW x \in Prices, NEW i \in DOMAIN side.levels[x], NEW m, m = side.levels[x][i],
           NEW e, e = AfterTrade(plan, m)
    PROVE  /\ m \in EntryType /\ m.price = x /\ Sound(m, x) /\ Reduced(m, Taken(plan, m), e)
           /\ Taken(plan, m) \in Int /\ Leaves(m, x, Taken(plan, m), e)
<1>1. /\ side \in SideType /\ plan \in PlanType /\ plan.ok
      /\ Planned(o, Makers(o, side), Len(Makers(o, side)), plan)
  BY PlanFacts DEF Plans
<1>2. m \in EntryType /\ m \in Entries(side) /\ Sound(m, x)
  BY <1>1, EntriesAre DEF SoundSide
<1>3. PICK q \in Int : q = Taken(plan, m) /\ Reduced(m, q, e)
  BY <1>1, <1>2, AfterTradeType
<1>4. m.price = x
  BY <1>2 DEF Sound, ValidEntry
<1>5. q = 0 \/ (q > 0 /\ q <= m.remaining /\ QuoteExact(x, q))
  <2>1. CASE ~Traded(plan, m)
    BY <1>3, <2>1 DEF Taken
  <2>2. CASE Traded(plan, m)
    <3>0. TakesFrom(plan, m)
      BY <1>2, TakenIs
    <3>1. PICK k \in DOMAIN plan.trades : plan.trades[k].maker = m /\ q = plan.trades[k].qty
      BY <1>3, <2>2, <3>0 DEF TakesFrom
    <3>2. FairTrade(o, plan.trades[k])
      BY <1>1 DEF Planned
    <3>3. QED
      BY <1>4, <3>1, <3>2 DEF FairTrade
  <2>3. QED
    BY <2>1, <2>2
<1>6. Leaves(m, x, q, e)
  BY <1>2, <1>3, <1>5, SoundAfter
<1>7. QED
  BY <1>2, <1>3, <1>4, <1>6

-----------------------------------------------------------------------------
(* The counter of a side.                                                   *)

\* The cached counter of a side.
Lengths(side) == [x \in Prices |-> Len(side.levels[x])]
Counted(side) == side.total = SumFunction(Lengths(side))

\* The lengths of the queues can be summed.
LEMMA LengthsType ==
    ASSUME NEW side \in SideType
    PROVE  /\ Numeric(Lengths(side)) /\ SumFunction(Lengths(side)) \in Int /\ side.total \in Int
           /\ DOMAIN Lengths(side) = Prices /\ \A x \in Prices : Lengths(side)[x] = Len(side.levels[x])
<1>1. PICK f : f = Lengths(side)
  OBVIOUS
<1>2. \A x \in Prices : Len(side.levels[x]) \in Int
  BY SideIsLevelled
<1>3. DOMAIN f = Prices /\ f \in [Prices -> Int] /\ \A x \in Prices : f[x] = Len(side.levels[x])
  BY <1>1, <1>2 DEF Lengths
<1>4. Numeric(f)
  BY <1>3, PriceType DEF Numeric
<1>5. side.total \in Int
  BY DEF SideType
<1>6. QED
  BY <1>1, <1>3, <1>4, <1>5, SumType

\* The positions of a queue that a plan empties, and the entries there.
LEMMA QueueCount ==
    ASSUME NEW plan \in PlanType, NEW q \in Seq(EntryType),
           \A i, j \in DOMAIN q : q[i].id = q[j].id => i = j,
           \A i \in DOMAIN q : AfterTrade(plan, q[i]).remaining >= 0,
           NEW gone, gone = {m \in ToSet(q) : AfterTrade(plan, m).remaining = 0},
           NEW new, new = Keep(After(plan, q), Live(After(plan, q)))
    PROVE  /\ IsFiniteSet(gone) /\ Len(q) = Len(new) + Cardinality(gone)
           /\ Len(new) \in Nat /\ Cardinality(gone) \in Nat
<1>1. PICK n \in Nat : n = Len(q) /\ DOMAIN q = 1..n
  OBVIOUS
<1>2. PICK t : t = After(plan, q)
  OBVIOUS
<1>3. /\ t \in Seq(EntryType) /\ DOMAIN t = 1..n /\ \A i \in 1..n : t[i] = AfterTrade(plan, q[i]) /\ t[i] \in EntryType
  BY <1>1, <1>2, AfterType
<1>4. PICK live \in SUBSET (1..n) : live = Live(t)
  BY <1>1, <1>2, AfterType
<1>5. Len(new) = Cardinality(live) /\ Cardinality(live) \in Nat /\ IsFiniteSet(live)
  BY <1>2, <1>3, <1>4, KeepType
<1>6. PICK dead \in SUBSET (1..n) : dead = (1..n) \ live
  OBVIOUS
<1>7. IsFiniteSet(1..n) /\ Cardinality(1..n) = n
  BY FS_Interval
<1>8. IsFiniteSet(dead)
  BY <1>7, FS_Subset
<1>9. live \cup dead = 1..n /\ live \cap dead = {}
  BY <1>6
<1>10. n = Cardinality(live) + Cardinality(dead) /\ Cardinality(dead) \in Nat
  <2>1. Cardinality(live \cup dead) = Cardinality(live) + Cardinality(dead) - Cardinality(live \cap dead)
    BY <1>5, <1>8, FS_Union
  <2>2. Cardinality(live \cap dead) = 0
    BY <1>9, FS_EmptySet
  <2>3. Cardinality(dead) \in Nat
    BY <1>8, FS_CardinalityType
  <2>4. Cardinality(live \cup dead) = n
    BY <1>7, <1>9
  <2>5. PICK c \in Nat : c = Cardinality(live)
    BY <1>5
  <2>6. PICK d \in Nat : d = Cardinality(dead)
    BY <2>3
  <2>7. n = c + d - 0
    BY <2>1, <2>2, <2>4, <2>5, <2>6
  <2>8. QED
    BY <2>5, <2>6, <2>7
<1>11. ASSUME NEW i \in 1..n PROVE i \in dead <=> t[i].remaining = 0
  <2>1. t[i].remaining \in Int /\ t[i].remaining >= 0
    BY <1>1, <1>3 DEF EntryType
  <2>2. i \in live <=> t[i].remaining > 0
    BY <1>3, <1>4 DEF Live
  <2>3. QED
    BY <1>6, <2>1, <2>2
<1>12. \A i \in dead : q[i] \in gone
  BY <1>1, <1>3, <1>11 DEF ToSet
<1>13. \A m \in gone : \E i \in dead : q[i] = m
  BY <1>1, <1>3, <1>11 DEF ToSet
<1>14. PICK f : f = [i \in dead |-> q[i]]
  OBVIOUS
<1>15. f \in Bijection(dead, gone)
  <2>1. f \in [dead -> gone]
    BY <1>12, <1>14
  <2>2. \A i, j \in dead : f[i] = f[j] => i = j
    BY <1>1, <1>14
  <2>3. \A m \in gone : \E i \in dead : f[i] = m
    BY <1>13, <1>14
  <2>4. QED
    BY <2>1, <2>2, <2>3 DEF Bijection, Injection, Surjection, IsInjective
<1>16. IsFiniteSet(gone) /\ Cardinality(gone) = Cardinality(dead)
  <2>1. ExistsBijection(dead, gone)
    BY <1>15 DEF ExistsBijection
  <2>2. QED
    BY <1>8, <2>1, FS_Bijection
<1>17. QED
  BY <1>1, <1>5, <1>10, <1>16

\* The counter after a plan.
LEMMA PreparedCounted ==
    ASSUME NEW b, NEW subs, NEW cans, NEW o, NEW side, NEW plan, Plans(b, subs, cans, o, side, plan),
           SoundSide(side), Counted(side), NEW new, new = ApplyPrepared(side, plan)
    PROVE  Counted(new) /\ SoundSide(new)
<1>1. side \in SideType /\ plan \in PlanType /\ o.pair \in Pairs
  BY PlanFacts
<1>2. new \in SideType
  BY <1>1, PreparedType
<1>3. /\ new.levels = [p \in Prices |-> Keep(After(plan, side.levels[p]), Live(After(plan, side.levels[p])))]
      /\ new.total = side.total - Cardinality(Gone(side, plan))
  BY PreparedLevels, Zenon
<1>4. PICK part : part = [x \in Prices |-> {m \in ToSet(side.levels[x]) : AfterTrade(plan, m).remaining = 0}]
  OBVIOUS
<1>5. ASSUME NEW x \in Prices
      PROVE  /\ IsFiniteSet(part[x]) /\ Len(side.levels[x]) = Len(new.levels[x]) + Cardinality(part[x])
             /\ Len(new.levels[x]) \in Nat /\ Cardinality(part[x]) \in Nat
  <2>1. PICK q \in Seq(EntryType) : q = side.levels[x]
    BY <1>1, SideIsLevelled DEF Levelled
  <2>2. \A i, j \in DOMAIN q : q[i].id = q[j].id => i = j
    <3>1. QueueOk(subs, side.levels[x], o.pair, Opposite(o), x)
      BY <1>1, OppositeSide DEF Plans, BookOk
    <3>2. QED
      BY <2>1, <3>1 DEF QueueOk
  <2>3. \A i \in DOMAIN q : AfterTrade(plan, q[i]).remaining >= 0
    BY <2>1, LeftOver DEF Leaves
  <2>4. PICK gone : gone = {m \in ToSet(q) : AfterTrade(plan, m).remaining = 0}
    OBVIOUS
  <2>5. part[x] = gone
    BY <1>4, <2>1, <2>4
  <2>6. PICK l : l = Keep(After(plan, q), Live(After(plan, q)))
    OBVIOUS
  <2>7. new.levels[x] = l
    BY <1>3, <2>1, <2>6
  <2>8. /\ IsFiniteSet(gone) /\ Len(q) = Len(l) + Cardinality(gone)
        /\ Len(l) \in Nat /\ Cardinality(gone) \in Nat
    BY <1>1, <2>2, <2>3, <2>4, <2>6, QueueCount
  <2>9. QED
    BY <2>1, <2>5, <2>7, <2>8
<1>6. ASSUME NEW x \in Prices, NEW y \in Prices, x # y PROVE part[x] \cap part[y] = {}
  <2>1. \A i \in DOMAIN side.levels[x] : side.levels[x][i].price = x
    BY LeftOver
  <2>2. \A i \in DOMAIN side.levels[y] : side.levels[y][i].price = y
    BY LeftOver
  <2>3. \A m \in part[x] : m.price = x
    BY <1>4, <2>1 DEF ToSet
  <2>4. \A m \in part[y] : m.price = y
    BY <1>4, <2>2 DEF ToSet
  <2>5. QED
    BY <1>6, <2>3, <2>4
<1>7. PICK f : f = [x \in Prices |-> Cardinality(part[x])]
  OBVIOUS
<1>8. PICK U : U = Gone(side, plan)
  OBVIOUS
<1>9. Covers(part, Prices, U)
  <2>1. U = UNION {part[x] : x \in Prices}
    BY <1>4, <1>8 DEF Gone, Entries
  <2>2. QED
    BY <2>1 DEF Covers
<1>10. Numeric(f) /\ SumFunction(f) = Cardinality(U)
  BY <1>5, <1>6, <1>7, <1>9, PriceType, SumOfSizes
<1>11. Numeric(Lengths(side)) /\ Numeric(Lengths(new)) /\ DOMAIN Lengths(side) = Prices /\ DOMAIN Lengths(new) = Prices /\ DOMAIN f = Prices
  BY <1>1, <1>2, <1>7, LengthsType
<1>12. ASSUME NEW x \in Prices PROVE Lengths(side)[x] = Lengths(new)[x] + f[x]
  <2>1. Lengths(side)[x] = Len(side.levels[x]) /\ Lengths(new)[x] = Len(new.levels[x]) /\ f[x] = Cardinality(part[x])
    BY <1>1, <1>2, <1>7, LengthsType
  <2>2. QED
    BY <1>5, <2>1
<1>13. SumFunction(Lengths(side)) = SumFunction(Lengths(new)) + SumFunction(f)
  BY <1>10, <1>11, <1>12, SumAdds
<1>14. SumFunction(Lengths(new)) \in Int /\ SumFunction(f) \in Int /\ side.total \in Int
  BY <1>1, <1>2, <1>10, LengthsType, SumType
<1>15. Counted(new)
  <2>1. new.total = side.total - SumFunction(f)
    BY <1>3, <1>8, <1>10
  <2>2. side.total = SumFunction(Lengths(new)) + SumFunction(f)
    BY <1>13 DEF Counted
  <2>3. QED
    BY <1>14, <2>1, <2>2 DEF Counted
<1>16. ASSUME NEW x \in Prices, NEW k \in DOMAIN new.levels[x] PROVE Sound(new.levels[x][k], x)
  <2>1. PICK q \in Seq(EntryType) : q = side.levels[x]
    BY <1>1, SideIsLevelled DEF Levelled
  <2>2. PICK t : t = After(plan, q)
    OBVIOUS
  <2>3. PICK live : live = Live(t)
    OBVIOUS
  <2>4. t \in Seq(EntryType) /\ DOMAIN t = DOMAIN q /\ live \in SUBSET DOMAIN t /\ \A i \in DOMAIN q : t[i] = AfterTrade(plan, q[i])
    BY <1>1, <2>2, <2>3, AfterType
  <2>5. new.levels[x] = Keep(t, live)
    BY <1>3, <2>1, <2>2, <2>3
  <2>6. PICK g : Keeps(t, live, new.levels[x], g)
    BY <2>4, <2>5, KeepType
  <2>7. PICK i \in live : new.levels[x][k] = t[i]
    BY <2>6 DEF Keeps
  <2>8. i \in DOMAIN q /\ t[i] = AfterTrade(plan, q[i]) /\ t[i].remaining > 0
    BY <2>3, <2>4, <2>7 DEF Live
  <2>9. Sound(t[i], x)
    BY <2>1, <2>8, LeftOver DEF Leaves
  <2>10. QED
    BY <2>7, <2>9
<1>17. QED
  BY <1>15, <1>16 DEF SoundSide

-----------------------------------------------------------------------------
(* Resting orders stay sound.                                               *)

\* add_order keeps the counter and the sound entries.
LEMMA AddCounted ==
    ASSUME NEW side \in SideType, Counted(side), SoundSide(side), NEW e \in EntryType, Sound(e, e.price)
    PROVE  Counted(AddOrder(side, e)) /\ SoundSide(AddOrder(side, e))
<1>1. PICK new \in SideType : new = AddOrder(side, e)
  BY AddOrderType
<1>2. PICK x \in Prices : x = e.price
  BY DEF EntryType
<1>3. new.total = side.total + 1 /\ \A y \in Prices : new.levels[y] = IF y = x THEN Append(side.levels[y], e) ELSE side.levels[y]
  BY <1>1, <1>2, AddOrderType
<1>4. PICK q \in Seq(EntryType) : q = side.levels[x]
  BY SideIsLevelled DEF Levelled
<1>5. new.levels[x] = Append(q, e) /\ Len(Append(q, e)) = Len(q) + 1 /\ Len(q) \in Nat
  <2>1. new.levels[x] = Append(q, e)
    BY <1>3, <1>4
  <2>2. Len(Append(q, e)) = Len(q) + 1 /\ Len(q) \in Nat
    OBVIOUS
  <2>3. QED
    BY <2>1, <2>2
<1>6. PICK f : f = Lengths(side)
  OBVIOUS
<1>7. PICK g : g = Lengths(new)
  OBVIOUS
<1>8. Numeric(f) /\ DOMAIN f = Prices /\ (\A y \in Prices : f[y] = Len(side.levels[y])) /\ SumFunction(f) \in Int /\ side.total \in Int
  BY <1>6, LengthsType
<1>9. Numeric(g) /\ DOMAIN g = Prices /\ (\A y \in Prices : g[y] = Len(new.levels[y]))
  BY <1>7, LengthsType
<1>10. Changes(g, f, x)
  BY <1>3, <1>8, <1>9 DEF Changes
<1>11. SumFunction(g) = SumFunction(f) - f[x] + g[x]
  BY <1>8, <1>9, <1>10, SumChanges
<1>12. f[x] = Len(q) /\ g[x] = Len(q) + 1
  BY <1>4, <1>5, <1>8, <1>9
<1>13. Counted(new)
  <2>1. side.total = SumFunction(f)
    BY <1>6 DEF Counted
  <2>2. new.total = SumFunction(g)
    BY <1>3, <1>5, <1>8, <1>11, <1>12, <2>1
  <2>3. QED
    BY <1>7, <2>2 DEF Counted
<1>14. ASSUME NEW y \in Prices, NEW i \in DOMAIN new.levels[y] PROVE Sound(new.levels[y][i], y)
  <2>1. CASE y # x
    BY <1>3, <2>1 DEF SoundSide
  <2>2. CASE y = x
    <3>1. i \in DOMAIN Append(q, e)
      BY <1>5, <2>2
    <3>2. (i \in DOMAIN q /\ Append(q, e)[i] = q[i]) \/ (i = Len(q) + 1 /\ Append(q, e)[i] = e)
      BY <1>5, <3>1
    <3>3. i \in DOMAIN q => Sound(q[i], x)
      BY <1>4 DEF SoundSide
    <3>4. QED
      BY <1>2, <1>5, <2>2, <3>2, <3>3
  <2>3. QED
    BY <2>1, <2>2
<1>15. QED
  BY <1>1, <1>13, <1>14 DEF SoundSide

\* remove_order keeps the counter and the sound entries.
LEMMA RemoveCounted ==
    ASSUME NEW side \in SideType, Counted(side), SoundSide(side), NEW x \in Prices,
           NEW i \in DOMAIN side.levels[x], NEW e \in EntryType, e = side.levels[x][i], e.price = x,
           \A j, k \in DOMAIN side.levels[x] : side.levels[x][j].id = side.levels[x][k].id => j = k
    PROVE  Counted(RemoveOrder(side, e)) /\ SoundSide(RemoveOrder(side, e))
<1>1. PICK new \in SideType : new = RemoveOrder(side, e)
  BY RemoveOrderType
<1>3. new.total = side.total - 1 /\ \A y \in Prices : new.levels[y] = IF y = x THEN Keep(side.levels[y], Others(side.levels[y], e)) ELSE side.levels[y]
  BY <1>1, RemoveOrderType
<1>4. PICK q \in Seq(EntryType) : q = side.levels[x]
  BY SideIsLevelled DEF Levelled
<1>5. PICK kept : kept = Others(q, e)
  OBVIOUS
<1>51. kept = DOMAIN q \ {i} /\ i \in DOMAIN q
  BY <1>4, <1>5 DEF Others
<1>52. PICK n \in Nat : n = Len(q) /\ DOMAIN q = 1..n
  OBVIOUS
<1>53. new.levels[x] = Keep(q, kept)
  BY <1>3, <1>4, <1>5
<1>54. Len(new.levels[x]) = Cardinality(kept)
  BY <1>51, <1>53, KeepType
<1>55. Cardinality(kept) = n - 1
  <2>1. IsFiniteSet(1..n) /\ Cardinality(1..n) = n
    BY FS_Interval
  <2>2. Cardinality((1..n) \ {i}) = (IF i \in 1..n THEN Cardinality(1..n) - 1 ELSE Cardinality(1..n))
    BY <2>1, FS_RemoveElement
  <2>3. QED
    BY <1>51, <1>52, <2>1, <2>2
<1>6. PICK f : f = Lengths(side)
  OBVIOUS
<1>7. PICK g : g = Lengths(new)
  OBVIOUS
<1>8. Numeric(f) /\ DOMAIN f = Prices /\ (\A y \in Prices : f[y] = Len(side.levels[y])) /\ SumFunction(f) \in Int /\ side.total \in Int
  BY <1>6, LengthsType
<1>9. Numeric(g) /\ DOMAIN g = Prices /\ (\A y \in Prices : g[y] = Len(new.levels[y]))
  BY <1>7, LengthsType
<1>10. Changes(g, f, x)
  BY <1>3, <1>8, <1>9 DEF Changes
<1>11. SumFunction(g) = SumFunction(f) - f[x] + g[x]
  BY <1>8, <1>9, <1>10, SumChanges
<1>12. f[x] = n /\ g[x] = n - 1
  BY <1>4, <1>52, <1>54, <1>55, <1>8, <1>9
<1>13. Counted(new)
  <2>1. side.total = SumFunction(f)
    BY <1>6 DEF Counted
  <2>2. new.total = SumFunction(g)
    BY <1>3, <1>8, <1>11, <1>12, <2>1
  <2>3. QED
    BY <1>7, <2>2 DEF Counted
<1>14. ASSUME NEW y \in Prices, NEW k \in DOMAIN new.levels[y] PROVE Sound(new.levels[y][k], y)
  <2>1. CASE y # x
    BY <1>3, <2>1 DEF SoundSide
  <2>2. CASE y = x
    <3>1. PICK h : Keeps(q, kept, new.levels[x], h)
      BY <1>51, <1>53, KeepType
    <3>2. PICK j \in kept : new.levels[x][k] = q[j]
      BY <2>2, <3>1 DEF Keeps
    <3>3. Sound(q[j], x)
      BY <1>4, <1>51, <3>2 DEF SoundSide
    <3>4. QED
      BY <2>2, <3>2, <3>3
  <2>3. QED
    BY <2>1, <2>2
<1>15. QED
  BY <1>1, <1>13, <1>14 DEF SoundSide

\* The rest of an order is a sound entry.
LEMMA RestIsSound ==
    ASSUME NEW o \in Orders, NEW plan \in PlanType, ValidOrder(o), Accounted(o, plan), LeavesRest(o, plan),
           IsLimit(o) /\ IsBuy(o) => QuoteExact(o.price, plan.remaining)
    PROVE  Resting(o, plan) \in EntryType /\ Sound(Resting(o, plan), o.price)
<1>1. PICK e \in EntryType : e = Resting(o, plan)
  BY RestingType DEF LeavesRest
<1>2. /\ e.type = o.type /\ e.side = o.side /\ e.price = o.price /\ e.amount = o.amount /\ e.fee = o.fee
      /\ e.remaining = plan.remaining /\ e.filled = plan.amount /\ e.budget = o.budget
  BY <1>1 DEF Resting
<1>3. IsLimit(o) /\ plan.remaining > 0 /\ ~IsBudget(o) /\ ~IsBudget(e) /\ IsLimit(e)
  BY <1>2 DEF LeavesRest, IsBudget, IsLimit
<1>4. plan.remaining = o.amount - plan.amount
  BY <1>3 DEF Accounted
<1>5. plan.amount \in Int /\ o.amount \in Int
  BY OrderType DEF PlanType
<1>6. ValidOrder(e)
  BY <1>2, <1>3 DEF ValidOrder
<1>7. e.filled + e.remaining = e.amount /\ e.remaining > 0
  BY <1>2, <1>3, <1>4, <1>5
<1>8. IsBuy(e) => QuoteExact(o.price, e.remaining)
  BY <1>2, <1>3 DEF IsBuy
<1>9. QED
  BY <1>1, <1>2, <1>3, <1>6, <1>7, <1>8 DEF Sound, ValidEntry

\* What an accepted submission does, for the proofs about the books.
Accepts(b, c, subs, cans, o, side, plan) ==
    /\ Plans(b, subs, cans, o, side, plan)
    /\ ValidOrder(o) /\ Accounted(o, plan)
    /\ IsLimit(o) /\ IsBuy(o) => QuoteExact(o.price, plan.remaining)
    /\ c = [b EXCEPT ![o.pair] = CommitBook(b[o.pair], o, plan)]
    /\ c \in TypedBooks
    /\ \A p \in Pairs : p # o.pair => c[p] = b[p]
    /\ Committed(b[o.pair], o, plan, c[o.pair])

\* A new order that passes every check commits its plan.
LEMMA SubmitCommits ==
    ASSUME CoreType, BookInv, NEW o \in Orders, Submit(o),
           \A s \in submissions : s.id # o.id, Submission(o, books[o.pair], bal).ok
    PROVE  \E side, plan : /\ Accepts(books, books', submissions, cancellations, o, side, plan)
                           /\ side = books[o.pair][Opposite(o)] /\ plan = PlanOrder(o, side)
                           /\ Submission(o, books[o.pair], bal).ok
                           /\ bal' = Submission(o, books[o.pair], bal).bal
                           /\ submissions' = submissions \cup {o} /\ \A s \in submissions : s.id # o.id
                           /\ UNCHANGED <<cancellations, deposits, withdrawals, manual>>
<1>1. PICK next : next = Submission(o, books[o.pair], bal)
  OBVIOUS
<1>2. /\ next.ok /\ books' = [books EXCEPT ![o.pair] = next.book] /\ bal' = next.bal
      /\ submissions' = submissions \cup {o} /\ \A s \in submissions : s.id # o.id
      /\ UNCHANGED <<cancellations, deposits, withdrawals, manual>>
  BY <1>1 DEF Submit, vars
<1>3. PICK book : book = books[o.pair]
  OBVIOUS
<1>4. PICK side : side = book[Opposite(o)]
  OBVIOUS
<1>5. PICK plan : plan = PlanOrder(o, side)
  OBVIOUS
<1>6. /\ side \in SideType /\ o.pair \in Pairs /\ plan \in PlanType
      /\ Planned(o, Makers(o, side), Len(Makers(o, side)), plan)
  BY <1>3, <1>4, <1>5, SubmissionPlan DEF CoreType, BookInv
<1>7. plan.ok /\ (IsLimit(o) /\ IsBuy(o) => QuoteExact(o.price, plan.remaining))
  BY <1>1, <1>2, <1>3, <1>4, <1>5, <1>6, AcceptedPlan DEF CoreType
<1>8. ValidOrder(o) /\ Accounted(o, plan)
  BY <1>6, <1>7 DEF Planned
<1>9. next.book = CommitBook(book, o, plan)
  <2>1. plan = PlanOrder(o, book[Opposite(o)]) /\ next = Submission(o, book, bal)
    BY <1>1, <1>3, <1>4, <1>5
  <2>2. Submission(o, book, bal).book = CommitBook(book, o, plan)
    BY <2>1, SubmissionParts, Zenon
  <2>3. QED
    BY <2>1, <2>2
<1>10. PICK c : c = CommitBook(book, o, plan)
  OBVIOUS
<1>11. Committed(book, o, plan, c)
  BY <1>3, <1>6, <1>8, <1>10, CommitBookType DEF CoreType, TypedBooks
<1>12. c \in TypedBook
  BY <1>11 DEF Committed
<1>13. books' = [books EXCEPT ![o.pair] = c]
  BY <1>2, <1>9, <1>10
<1>14. books' \in TypedBooks /\ books'[o.pair] = c /\ \A p \in Pairs : p # o.pair => books'[p] = books[p]
  BY <1>6, <1>12, <1>13 DEF CoreType, TypedBooks
<1>15. Plans(books, submissions, cancellations, o, side, plan)
  BY <1>3, <1>4, <1>5, <1>7 DEF Plans, CoreType, BookInv
<1>16. Accepts(books, books', submissions, cancellations, o, side, plan)
  BY <1>3, <1>7, <1>8, <1>10, <1>11, <1>13, <1>14, <1>15 DEF Accepts
<1>17. QED
  BY <1>1, <1>2, <1>3, <1>4, <1>5, <1>16

\* A submission that changes books or balances commits its plan.
LEMMA SubmitAccepts ==
    ASSUME CoreType, BookInv, NEW o \in Orders, Submit(o), ~ UNCHANGED <<books, bal, fees>>
    PROVE  \E side, plan : /\ Accepts(books, books', submissions, cancellations, o, side, plan)
                           /\ side = books[o.pair][Opposite(o)] /\ plan = PlanOrder(o, side)
                           /\ Submission(o, books[o.pair], bal).ok
                           /\ bal' = Submission(o, books[o.pair], bal).bal
                           /\ submissions' = submissions \cup {o} /\ \A s \in submissions : s.id # o.id
                           /\ UNCHANGED <<cancellations, deposits, withdrawals, manual>>
<1>1. Submission(o, books[o.pair], bal).ok /\ \A s \in submissions : s.id # o.id
  BY DEF Submit, vars
<1>2. QED
  BY <1>1, SubmitCommits

\* Every side is counted and sound.
SoundBooks(b) == \A p \in Pairs, s \in Sides : Counted(b[p][s]) /\ SoundSide(b[p][s])

\* An accepted submission leaves sound entries and true counters.
LEMMA SubmitSound ==
    ASSUME NEW b, NEW c, NEW subs, NEW cans, NEW o, NEW side, NEW plan,
           Accepts(b, c, subs, cans, o, side, plan), SoundBooks(b)
    PROVE  SoundBooks(c)
<1>1. /\ Plans(b, subs, cans, o, side, plan) /\ ValidOrder(o) /\ Accounted(o, plan)
      /\ IsLimit(o) /\ IsBuy(o) => QuoteExact(o.price, plan.remaining)
      /\ \A p \in Pairs : p # o.pair => c[p] = b[p]
      /\ Committed(b[o.pair], o, plan, c[o.pair])
  BY DEF Accepts
<1>2. o \in Orders /\ side = b[o.pair][Opposite(o)] /\ b \in TypedBooks
  BY <1>1 DEF Plans
<1>3. side \in SideType /\ plan \in PlanType /\ o.pair \in Pairs
  BY <1>1, PlanFacts
<1>4. Opposite(o) \in Sides /\ o.type \in Sides /\ Sides = {Opposite(o), o.type}
  <2>1. Opposite(o) \in Sides /\ o.type \in Sides /\ Opposite(o) # o.type
    BY <1>2, OppositeSide
  <2>2. QED
    BY <2>1 DEF Sides
<1>5. Counted(side) /\ SoundSide(side)
  BY <1>2, <1>3, <1>4 DEF SoundBooks
<1>6. Counted(c[o.pair][Opposite(o)]) /\ SoundSide(c[o.pair][Opposite(o)])
  <2>1. PICK new : new = ApplyPrepared(side, plan)
    OBVIOUS
  <2>2. c[o.pair][Opposite(o)] = new
    BY <1>1, <1>2, <2>1 DEF Committed
  <2>3. QED
    BY <1>1, <1>5, <2>1, <2>2, PreparedCounted
<1>7. Counted(c[o.pair][o.type]) /\ SoundSide(c[o.pair][o.type])
  <2>1. PICK own \in SideType : own = b[o.pair][o.type]
    BY <1>2, <1>3, <1>4 DEF TypedBooks, TypedBook
  <2>2. Counted(own) /\ SoundSide(own)
    BY <1>3, <1>4, <2>1 DEF SoundBooks
  <2>3. CASE ~LeavesRest(o, plan)
    BY <1>1, <2>1, <2>2, <2>3 DEF Committed
  <2>4. CASE LeavesRest(o, plan)
    <3>1. PICK e \in EntryType : e = Resting(o, plan) /\ Sound(e, o.price)
      BY <1>1, <1>2, <1>3, <2>4, RestIsSound
    <3>2. e.price = o.price
      BY <3>1 DEF Resting
    <3>3. c[o.pair][o.type] = AddOrder(own, e)
      BY <1>1, <2>1, <2>4, <3>1 DEF Committed
    <3>4. QED
      BY <2>2, <3>1, <3>2, <3>3, AddCounted
  <2>5. QED
    BY <2>3, <2>4
<1>8. QED
  BY <1>1, <1>3, <1>4, <1>6, <1>7 DEF SoundBooks

\* A cancellation leaves sound entries and true counters.
LEMMA CancelSound ==
    ASSUME CoreType, BookInv, SoundBooks(books), NEW user, NEW pair \in Pairs, NEW s, NEW x, NEW i, NEW e,
           Cancelled(user, pair, s, x, i, e)
    PROVE  SoundBooks(books')
<1>1. /\ s \in Sides /\ x \in Prices /\ i \in DOMAIN books[pair][s].levels[x] /\ e = books[pair][s].levels[x][i]
      /\ e \in EntryType /\ e.price = x /\ books' = [books EXCEPT ![pair][s] = RemoveOrder(@, e)]
  BY DEF Cancelled, Place
<1>2. PICK side \in SideType : side = books[pair][s]
  BY <1>1 DEF CoreType, TypedBooks, TypedBook
<1>3. Counted(side) /\ SoundSide(side)
  BY <1>1, <1>2 DEF SoundBooks
<1>4. QueueOk(submissions, side.levels[x], pair, s, x)
  BY <1>1, <1>2 DEF BookInv, BookOk
<1>5. \A j, k \in DOMAIN side.levels[x] : side.levels[x][j].id = side.levels[x][k].id => j = k
  BY <1>4 DEF QueueOk
<1>6. PICK new : new = RemoveOrder(side, e)
  BY Zenon
<1>7. Counted(new) /\ SoundSide(new)
  BY <1>1, <1>2, <1>3, <1>5, <1>6, RemoveCounted
<1>8. books' = [books EXCEPT ![pair][s] = new]
  BY <1>1, <1>2, <1>6
<1>9. ASSUME NEW p \in Pairs, NEW t \in Sides PROVE books'[p][t] = IF p = pair /\ t = s THEN new ELSE books[p][t]
  BY <1>1, <1>8 DEF CoreType, TypedBooks, TypedBook
<1>10. QED
  BY <1>7, <1>9 DEF SoundBooks

\* Empty books are sound.
LEMMA EmptySound ==
    ASSUME Init
    PROVE  SoundBooks(books)
<1>1. PICK e : e = EmptySide
  OBVIOUS
<1>2. e.total = 0 /\ e.levels = [p \in Prices |-> <<>>] /\ e = [levels |-> [p \in Prices |-> <<>>], total |-> 0]
  BY <1>1 DEF EmptySide
<1>3. \A p \in Pairs, s \in Sides : books[p][s] = e
  BY <1>1 DEF Init, EmptyBook, Sides
<1>4. SoundSide(e)
  BY <1>2 DEF SoundSide
<1>5. e \in SideType
  <2>1. <<>> \in Seq(EntryType)
    OBVIOUS
  <2>2. QED
    BY <1>2, <2>1 DEF SideType
<1>6. Counted(e)
  <2>1. PICK f : f = Lengths(e)
    OBVIOUS
  <2>2. Numeric(f) /\ DOMAIN f = Prices /\ \A x \in Prices : f[x] = Len(e.levels[x])
    BY <1>5, <2>1, LengthsType
  <2>3. \A x \in Prices : f[x] = 0
    BY <1>2, <2>2
  <2>4. PICK none : none = [x \in {} |-> 0]
    OBVIOUS
  <2>5. Numeric(none) /\ DOMAIN none = {} /\ SumFunction(none) = 0
    <3>1. IsFiniteSet({})
      BY FS_EmptySet
    <3>2. DOMAIN none = {} /\ none \in [{} -> Int]
      BY <2>4
    <3>3. Numeric(none)
      BY <3>1, <3>2 DEF Numeric
    <3>4. QED
      BY <3>2, <3>3, SumType
  <2>6. none \in [DOMAIN none -> DOMAIN f]
    BY <2>4, <2>5
  <2>7. SumFunction(f) = SumFunction(none)
    BY <2>2, <2>3, <2>5, <2>6, SumMaps
  <2>8. QED
    BY <1>2, <2>1, <2>5, <2>7 DEF Counted
<1>7. QED
  BY <1>3, <1>4, <1>6 DEF SoundBooks

SoundInv == FundsInv /\ SoundBooks(books)

\* Every step keeps SoundInv.
LEMMA SoundStep == SoundInv /\ [Next]_vars => SoundInv'
<1> SUFFICES ASSUME SoundInv, [Next]_vars PROVE SoundBooks(books')
  BY FundsStep DEF SoundInv
<1>1. CoreType /\ BookInv /\ SoundBooks(books)
  BY DEF SoundInv, FundsInv
<1>2. CASE books' = books
  BY <1>1, <1>2
<1>3. ASSUME NEW o \in Orders, Submit(o), books' # books PROVE SoundBooks(books')
  BY <1>1, <1>3, SubmitAccepts, SubmitSound
<1>4. ASSUME NEW o \in Orders, NEW u \in Users, Cancel(o.id, u, o.pair), books' # books PROVE SoundBooks(books')
  <2>1. o.pair \in Pairs /\ ~ UNCHANGED vars
    BY <1>4, OrderType DEF vars
  <2>2. PICK s, x, i, e : Cancelled(u, o.pair, s, x, i, e)
    BY <1>1, <1>4, <2>1, CancelTakes
  <2>3. QED
    BY <1>1, <2>1, <2>2, CancelSound
<1>5. CASE books' # books
  <2>1. Next
    BY <1>5 DEF vars
  <2>2. ~(\E d \in Credits : CreditDeposit(d))
    BY <1>5 DEF CreditDeposit, vars
  <2>3. ~(\E w \in Withdrawals, action \in {"reserve", "release", "complete"} : Withdraw(w, action))
    BY <1>5 DEF Withdraw, vars
  <2>4. \A a, v : ~Balance(a, v) /\ ~LockBalance(a, v) /\ ~UnlockBalance(a, v)
    BY <1>5 DEF Balance, LockBalance, UnlockBalance
  <2>5. QED
    BY <1>3, <1>4, <1>5, <2>1, <2>2, <2>3, <2>4 DEF Next
<1>6. QED
  BY <1>2, <1>5

\* SoundInv holds at the start.
LEMMA SoundInitially == Init => SoundInv
BY FundsInitially, EmptySound DEF SoundInv

\* Every resting entry is at its price, adds up and can be released exactly,
\* and the cached counter of a side is the length of its queues.
THEOREM RestingStaysSound == Spec => []RestingSound
<1>1. SoundInv => RestingSound
  <2> SUFFICES ASSUME SoundInv, NEW p \in Pairs, NEW side \in {"buy", "sell"}
               PROVE  /\ books[p][side].total = SumFunction([x \in Prices |-> Len(books[p][side].levels[x])])
                      /\ \A price \in Prices : \A e \in ToSet(books[p][side].levels[price]) :
                            /\ ValidEntry(e, price) /\ e.type = side /\ e.pair = p
                            /\ IsBuy(e) => QuoteExact(price, e.remaining)
    BY DEF RestingSound
  <2>1. side \in Sides /\ Counted(books[p][side]) /\ SoundSide(books[p][side])
    BY DEF SoundInv, SoundBooks, Sides
  <2>2. ASSUME NEW price \in Prices, NEW e \in ToSet(books[p][side].levels[price])
        PROVE  /\ ValidEntry(e, price) /\ e.type = side /\ e.pair = p
               /\ IsBuy(e) => QuoteExact(price, e.remaining)
    <3>1. PICK i \in DOMAIN books[p][side].levels[price] : e = books[p][side].levels[price][i]
      BY DEF ToSet
    <3>2. Sound(e, price)
      BY <2>1, <3>1 DEF SoundSide
    <3>3. Entry(submissions, e, p, side, price)
      BY <2>1, <3>1 DEF SoundInv, FundsInv, BookInv, BookOk, QueueOk
    <3>4. QED
      BY <3>2, <3>3 DEF Sound, Entry
  <2>3. QED
    BY <2>1, <2>2 DEF Counted, Lengths
<1>2. QED
  BY <1>1, SoundInitially, SoundStep, PTL DEF Spec

-----------------------------------------------------------------------------
(* The books of strangers do not cross.                                     *)

\* Where the entries of a side come from.
LEMMA PreparedEntries ==
    ASSUME NEW side \in SideType, NEW plan \in PlanType, NEW x \in Prices, NEW new, new = ApplyPrepared(side, plan)
    PROVE  /\ \A k \in DOMAIN new.levels[x] : \E i \in DOMAIN side.levels[x] :
                 new.levels[x][k] = AfterTrade(plan, side.levels[x][i]) /\ new.levels[x][k].remaining > 0
           /\ \A i \in DOMAIN side.levels[x] : AfterTrade(plan, side.levels[x][i]).remaining > 0 =>
                 \E k \in DOMAIN new.levels[x] : new.levels[x][k] = AfterTrade(plan, side.levels[x][i])
<1>1. PICK q \in Seq(EntryType) : q = side.levels[x]
  BY SideIsLevelled DEF Levelled
<1>2. PICK t : t = After(plan, q)
  OBVIOUS
<1>3. PICK live : live = Live(t)
  OBVIOUS
<1>4. t \in Seq(EntryType) /\ DOMAIN t = DOMAIN q /\ live \in SUBSET DOMAIN t /\ \A i \in DOMAIN q : t[i] = AfterTrade(plan, q[i])
  BY <1>2, <1>3, AfterType
<1>5. new.levels = [p \in Prices |-> Keep(After(plan, side.levels[p]), Live(After(plan, side.levels[p])))]
  BY PreparedLevels, Zenon
<1>6. new.levels[x] = Keep(t, live)
  BY <1>1, <1>2, <1>3, <1>5
<1>7. PICK g : Keeps(t, live, new.levels[x], g)
  BY <1>4, <1>6, KeepType
<1>8. ASSUME NEW k \in DOMAIN new.levels[x]
      PROVE  \E i \in DOMAIN q : new.levels[x][k] = AfterTrade(plan, q[i]) /\ new.levels[x][k].remaining > 0
  <2>1. PICK i \in live : new.levels[x][k] = t[i]
    BY <1>7 DEF Keeps
  <2>2. i \in DOMAIN q /\ t[i] = AfterTrade(plan, q[i]) /\ t[i].remaining > 0
    BY <1>3, <1>4, <2>1 DEF Live
  <2>3. QED
    BY <2>1, <2>2
<1>9. ASSUME NEW i \in DOMAIN q, AfterTrade(plan, q[i]).remaining > 0
      PROVE  \E k \in DOMAIN new.levels[x] : new.levels[x][k] = AfterTrade(plan, q[i])
  <2>1. i \in live /\ t[i] = AfterTrade(plan, q[i])
    BY <1>3, <1>4, <1>9 DEF Live
  <2>2. PICK k \in DOMAIN new.levels[x] : g[k] = i
    BY <1>7, <2>1 DEF Keeps
  <2>3. new.levels[x][k] = t[i]
    BY <1>7, <2>2 DEF Keeps
  <2>4. QED
    BY <2>1, <2>3
<1>10. QED
  BY <1>1, <1>8, <1>9

Without(side, e, x, new) ==
    /\ \A k \in DOMAIN new.levels[x] : \E i \in DOMAIN side.levels[x] :
          new.levels[x][k] = side.levels[x][i] /\ (x = e.price => side.levels[x][i].id # e.id)
    /\ \A i \in DOMAIN side.levels[x] : (x = e.price => side.levels[x][i].id # e.id) =>
          \E k \in DOMAIN new.levels[x] : new.levels[x][k] = side.levels[x][i]

\* remove_order adds no entry.
LEMMA RemovedEntries ==
    ASSUME NEW side \in SideType, NEW e \in EntryType, NEW x \in Prices, NEW new, new = RemoveOrder(side, e)
    PROVE  Without(side, e, x, new)
<1>1. PICK q \in Seq(EntryType) : q = side.levels[x]
  BY SideIsLevelled DEF Levelled
<1>2. CASE x = e.price
  <2>1. PICK kept : kept = Others(q, e)
    OBVIOUS
  <2>2. new.levels[x] = Keep(q, kept)
    BY <1>1, <1>2, <2>1, RemoveOrderType
  <2>3. kept \in SUBSET DOMAIN q
    BY <2>1 DEF Others
  <2>4. PICK g : Keeps(q, kept, new.levels[x], g)
    BY <2>2, <2>3, KeepType
  <2>5. \A k \in DOMAIN new.levels[x] : \E i \in DOMAIN q : new.levels[x][k] = q[i] /\ q[i].id # e.id
    BY <2>1, <2>4 DEF Keeps, Others
  <2>6. \A i \in DOMAIN q : q[i].id # e.id => \E k \in DOMAIN new.levels[x] : new.levels[x][k] = q[i]
    <3> SUFFICES ASSUME NEW i \in DOMAIN q, q[i].id # e.id PROVE \E k \in DOMAIN new.levels[x] : new.levels[x][k] = q[i]
      OBVIOUS
    <3>1. i \in kept
      BY <2>1 DEF Others
    <3>2. PICK k \in DOMAIN new.levels[x] : g[k] = i
      BY <2>4, <3>1 DEF Keeps
    <3>3. QED
      BY <2>4, <3>2 DEF Keeps
  <2>7. QED
    BY <1>1, <1>2, <2>5, <2>6 DEF Without
<1>3. CASE x # e.price
  <2>1. new.levels[x] = side.levels[x]
    BY <1>3, RemoveOrderType
  <2>2. QED
    BY <1>3, <2>1 DEF Without
<1>4. QED
  BY <1>2, <1>3

\* A plan that fills a maker leaves nothing of it.
LEMMA FilledIsGone ==
    ASSUME NEW b, NEW subs, NEW cans, NEW o, NEW side, NEW plan, Plans(b, subs, cans, o, side, plan),
           NEW m \in Entries(side), Fills(plan, m)
    PROVE  Taken(plan, m) = m.remaining /\ AfterTrade(plan, m).remaining = 0
<1>1. /\ side \in SideType /\ plan \in PlanType /\ plan.ok
      /\ Planned(o, Makers(o, side), Len(Makers(o, side)), plan)
  BY PlanFacts DEF Plans
<1>2. PICK i \in DOMAIN plan.trades : plan.trades[i].maker = m /\ plan.trades[i].qty = m.remaining
  BY DEF Fills
<1>3. Traded(plan, m)
  BY <1>2 DEF Traded
<1>4. TakesFrom(plan, m)
  BY TakenIs
<1>5. PICK j \in DOMAIN plan.trades : plan.trades[j].maker = m /\ Taken(plan, m) = plan.trades[j].qty
  BY <1>3, <1>4 DEF TakesFrom
<1>6. i = j
  BY <1>1, <1>2, <1>5 DEF Planned, Distinct
<1>7. m \in EntryType
  BY <1>1, EntriesAre
<1>8. m.remaining \in Int
  BY <1>7 DEF EntryType
<1>9. AfterTrade(plan, m).remaining = m.remaining - Taken(plan, m)
  BY <1>1, <1>7, AfterTradeType DEF Reduced
<1>10. QED
  BY <1>2, <1>5, <1>6, <1>8, <1>9

\* Two orders that could trade with each other.
Crosses(e, d) == IF IsBuy(e) THEN e.price >= d.price ELSE d.price >= e.price
\* Nobody that the rest of an order could trade with is left on the other side.
LEMMA RestIsUncrossed ==
    ASSUME NEW b, NEW subs, NEW cans, NEW o, NEW side, NEW plan, Plans(b, subs, cans, o, side, plan),
           LeavesRest(o, plan), SoundSide(side),
           NEW x \in Prices, NEW i \in DOMAIN side.levels[x], NEW e, e = AfterTrade(plan, side.levels[x][i]), e.remaining > 0,
           Crosses(o, e)
    PROVE  o.user = e.user
<1>1. PICK m : m = side.levels[x][i]
  OBVIOUS
<1>2. m \in EntryType /\ m.price = x /\ Reduced(m, Taken(plan, m), e)
  BY <1>1, LeftOver
<1>3. e.price = x /\ e.user = m.user /\ x \in Int
  BY Zenon, <1>2, PriceType DEF Reduced
<1>4. /\ side \in SideType /\ plan \in PlanType /\ plan.ok /\ o \in Orders
      /\ Planned(o, Makers(o, side), Len(Makers(o, side)), plan)
  BY PlanFacts DEF Plans
<1>5. o.price \in Int
  BY <1>4, OrderType
<1>6. Reachable(o, x)
  BY <1>3, <1>5 DEF Reachable, Crosses
<1>7. <<x, i>> \in Places(o, side)
  BY <1>4, <1>6, PlacesAre
<1>8. PICK at : Visits(o, side, at)
  BY <1>4, MakersAreVisited
<1>9. PICK n \in Nat : n = Len(Makers(o, side))
  BY <1>8 DEF Visits
<1>10. PICK k \in 1..n : at[k] = <<x, i>>
  BY <1>7, <1>8, <1>9 DEF Visits
<1>11. Makers(o, side)[k] = m
  BY <1>1, <1>8, <1>9, <1>10 DEF Visits
<1>12. Complete(o, Makers(o, side), n, plan)
  BY <1>4, <1>9 DEF Planned
<1>13. ~IsBudget(o) /\ plan.remaining > 0
  BY DEF LeavesRest, IsBudget
<1>14. m.user # o.user => Fills(plan, m)
  BY <1>10, <1>11, <1>12, <1>13 DEF Complete
<1>15. m \in Entries(side)
  BY <1>1, <1>4, EntriesAre
<1>16. m.user # o.user => AfterTrade(plan, m).remaining = 0
  BY <1>14, <1>15, FilledIsGone
<1>17. QED
  BY <1>1, <1>3, <1>16

\* The two sides of a market.
\* Seen by an order that arrives.
Facing(o, own, side) ==
    \A x, y \in Prices : \A i \in DOMAIN own.levels[x], j \in DOMAIN side.levels[y] :
        (IF IsBuy(o) THEN x >= y ELSE y >= x) => own.levels[x][i].user = side.levels[y][j].user
ApartAt(c) ==
    \A x, y \in Prices :
        \A i \in DOMAIN c["buy"].levels[x], j \in DOMAIN c["sell"].levels[y] :
            x >= y => c["buy"].levels[x][i].user = c["sell"].levels[y][j].user

\* Strangers do not cross, seen from one order.
LEMMA ApartFaces ==
    ASSUME NEW o \in Orders, NEW c
    PROVE  ApartAt(c) <=> Facing(o, c[o.type], c[Opposite(o)])
<1>1. o.type \in {"buy", "sell"}
  BY OrderType DEF Sides
<1>2. CASE o.type = "buy"
  <2>1. IsBuy(o) /\ Opposite(o) = "sell"
    BY <1>2 DEF IsBuy, Opposite
  <2>2. PICK u : u = c["buy"]
    OBVIOUS
  <2>3. PICK v : v = c["sell"]
    OBVIOUS
  <2>4. ApartAt(c) => Facing(o, u, v)
    BY <2>1, <2>2, <2>3 DEF ApartAt, Facing
  <2>5. Facing(o, u, v) => ApartAt(c)
    BY <2>1, <2>2, <2>3 DEF ApartAt, Facing
  <2>6. QED
    BY <1>2, <2>1, <2>2, <2>3, <2>4, <2>5
<1>3. CASE o.type = "sell"
  <2>1. ~IsBuy(o) /\ Opposite(o) = "buy"
    BY <1>3 DEF IsBuy, Opposite
  <2>2. PICK u : u = c["buy"]
    OBVIOUS
  <2>3. PICK v : v = c["sell"]
    OBVIOUS
  <2>4. ApartAt(c) => Facing(o, v, u)
    BY <2>1, <2>2, <2>3 DEF ApartAt, Facing
  <2>5. Facing(o, v, u) => ApartAt(c)
    BY <2>1, <2>2, <2>3 DEF ApartAt, Facing
  <2>6. QED
    BY <1>3, <2>1, <2>2, <2>3, <2>4, <2>5
<1>4. QED
  BY <1>1, <1>2, <1>3

ApartBooks(b) == \A p \in Pairs : ApartAt(b[p])

\* An accepted submission leaves no crossed strangers.
LEMMA SubmitApart ==
    ASSUME NEW b, NEW c, NEW subs, NEW cans, NEW o, NEW side, NEW plan,
           Accepts(b, c, subs, cans, o, side, plan), SoundBooks(b), ApartBooks(b)
    PROVE  ApartBooks(c)
<1>1. /\ Plans(b, subs, cans, o, side, plan) /\ ValidOrder(o)
      /\ \A p \in Pairs : p # o.pair => c[p] = b[p]
      /\ Committed(b[o.pair], o, plan, c[o.pair])
  BY DEF Accepts
<1>2. o \in Orders /\ side = b[o.pair][Opposite(o)] /\ b \in TypedBooks
  BY <1>1 DEF Plans
<1>3. side \in SideType /\ plan \in PlanType /\ o.pair \in Pairs
  BY <1>1, PlanFacts
<1>4. Opposite(o) \in Sides /\ o.type \in Sides
  BY <1>2, OppositeSide
<1>5. SoundSide(side)
  BY <1>2, <1>3, <1>4 DEF SoundBooks
<1>6. PICK own \in SideType : own = b[o.pair][o.type]
  BY <1>2, <1>3, <1>4 DEF TypedBooks, TypedBook
<1>7. Facing(o, own, side)
  BY <1>2, <1>3, <1>6, ApartFaces DEF ApartBooks
<1>8. PICK new : new = ApplyPrepared(side, plan)
  OBVIOUS
<1>9. c[o.pair][Opposite(o)] = new
  BY <1>1, <1>2, <1>8 DEF Committed
<1>10. ASSUME NEW y \in Prices, NEW j \in DOMAIN new.levels[y]
       PROVE  \E i \in DOMAIN side.levels[y] : /\ new.levels[y][j] = AfterTrade(plan, side.levels[y][i])
                                               /\ new.levels[y][j].remaining > 0
                                               /\ new.levels[y][j].user = side.levels[y][i].user
                                               /\ new.levels[y][j].price = y
  <2>1. PICK i \in DOMAIN side.levels[y] : new.levels[y][j] = AfterTrade(plan, side.levels[y][i]) /\ new.levels[y][j].remaining > 0
    BY <1>3, <1>8, PreparedEntries
  <2>2. PICK m : m = side.levels[y][i]
    OBVIOUS
  <2>3. Reduced(m, Taken(plan, m), AfterTrade(plan, m)) /\ m.price = y
    BY <1>1, <1>5, <2>2, LeftOver
  <2>4. QED
    BY <2>1, <2>2, <2>3 DEF Reduced
<1>11. Facing(o, own, new)
  BY <1>7, <1>10 DEF Facing
<1>12. Facing(o, c[o.pair][o.type], new)
  <2>1. CASE ~LeavesRest(o, plan)
    BY <1>1, <1>6, <1>11, <2>1 DEF Committed
  <2>2. CASE LeavesRest(o, plan)
    <3>1. PICK e \in EntryType : e = Resting(o, plan)
      BY <1>1, <1>2, <1>3, <2>2, RestingType DEF LeavesRest
    <3>2. e.price = o.price /\ e.user = o.user
      BY <3>1 DEF Resting
    <3>3. PICK more : more = AddOrder(own, e)
      OBVIOUS
    <3>4. c[o.pair][o.type] = more
      BY <1>1, <1>6, <2>2, <3>1, <3>3 DEF Committed
    <3>5. \A x \in Prices : more.levels[x] = IF x = e.price THEN Append(own.levels[x], e) ELSE own.levels[x]
      BY <3>3, AddOrderType
    <3>6. ASSUME NEW x \in Prices, NEW y \in Prices, NEW i \in DOMAIN more.levels[x], NEW j \in DOMAIN new.levels[y],
                 IF IsBuy(o) THEN x >= y ELSE y >= x
          PROVE  more.levels[x][i].user = new.levels[y][j].user
      <4>1. CASE i \in DOMAIN own.levels[x] /\ more.levels[x][i] = own.levels[x][i]
        BY <1>11, <3>6, <4>1 DEF Facing
      <4>2. CASE x = e.price /\ more.levels[x][i] = e
        <5>1. PICK h \in DOMAIN side.levels[y] : /\ new.levels[y][j] = AfterTrade(plan, side.levels[y][h])
                                                 /\ new.levels[y][j].remaining > 0 /\ new.levels[y][j].price = y
          BY <1>10
        <5>2. PICK d : d = new.levels[y][j]
          OBVIOUS
        <5>3. Crosses(o, d)
          BY <3>2, <3>6, <4>2, <5>1, <5>2 DEF Crosses
        <5>4. o.user = d.user
          BY <1>1, <1>5, <2>2, <5>1, <5>2, <5>3, RestIsUncrossed
        <5>5. QED
          BY <3>2, <4>2, <5>2, <5>4
      <4>3. (i \in DOMAIN own.levels[x] /\ more.levels[x][i] = own.levels[x][i]) \/ (x = e.price /\ more.levels[x][i] = e)
        <5>1. PICK q \in Seq(EntryType) : q = own.levels[x]
          BY SideIsLevelled DEF Levelled
        <5>2. CASE x # e.price
          BY <3>5, <5>2
        <5>3. CASE x = e.price
          <6>1. more.levels[x] = Append(q, e) /\ i \in DOMAIN Append(q, e)
            BY <3>5, <5>1, <5>3
          <6>2. (i \in DOMAIN q /\ Append(q, e)[i] = q[i]) \/ (i = Len(q) + 1 /\ Append(q, e)[i] = e)
            BY <6>1
          <6>3. QED
            BY <5>1, <5>3, <6>1, <6>2
        <5>4. QED
          BY <5>2, <5>3
      <4>4. QED
        BY <4>1, <4>2, <4>3
    <3>7. QED
      BY <3>4, <3>6 DEF Facing
  <2>3. QED
    BY <2>1, <2>2
<1>13. ApartAt(c[o.pair])
  BY <1>2, <1>9, <1>12, ApartFaces
<1>14. QED
  BY <1>1, <1>13 DEF ApartBooks

\* A cancellation leaves no crossed strangers.
LEMMA CancelApart ==
    ASSUME CoreType, ApartBooks(books), NEW user, NEW pair \in Pairs, NEW s, NEW x, NEW i, NEW e,
           Cancelled(user, pair, s, x, i, e)
    PROVE  ApartBooks(books')
<1>1. s \in Sides /\ e \in EntryType /\ books' = [books EXCEPT ![pair][s] = RemoveOrder(@, e)]
  BY DEF Cancelled, Place
<1>2. PICK side \in SideType : side = books[pair][s]
  BY <1>1 DEF CoreType, TypedBooks, TypedBook
<1>3. PICK new : new = RemoveOrder(side, e)
  OBVIOUS
<1>4. books' = [books EXCEPT ![pair][s] = new]
  BY <1>1, <1>2, <1>3
<1>5. ASSUME NEW p \in Pairs, NEW t \in Sides PROVE books'[p][t] = IF p = pair /\ t = s THEN new ELSE books[p][t]
  BY <1>1, <1>4 DEF CoreType, TypedBooks, TypedBook
<1>6. ASSUME NEW p \in Pairs, NEW t \in Sides, NEW y \in Prices, NEW k \in DOMAIN books'[p][t].levels[y]
      PROVE  \E j \in DOMAIN books[p][t].levels[y] : books'[p][t].levels[y][k] = books[p][t].levels[y][j]
  <2>1. CASE p = pair /\ t = s
    <3>1. books'[p][t] = new /\ books[p][t] = side
      BY <1>2, <1>5, <2>1
    <3>2. QED
      BY <1>1, <1>3, <1>6, <3>1, RemovedEntries DEF Without
  <2>2. CASE ~(p = pair /\ t = s)
    BY <1>5, <1>6, <2>2
  <2>3. QED
    BY <2>1, <2>2
<1>7. "buy" \in Sides /\ "sell" \in Sides
  BY DEF Sides
<1>8. ASSUME NEW p \in Pairs, NEW y \in Prices, NEW z \in Prices,
             NEW k \in DOMAIN books'[p]["buy"].levels[y], NEW h \in DOMAIN books'[p]["sell"].levels[z], y >= z
      PROVE  books'[p]["buy"].levels[y][k].user = books'[p]["sell"].levels[z][h].user
  <2>1. PICK j \in DOMAIN books[p]["buy"].levels[y] : books'[p]["buy"].levels[y][k] = books[p]["buy"].levels[y][j]
    BY <1>6, <1>7
  <2>2. PICK g \in DOMAIN books[p]["sell"].levels[z] : books'[p]["sell"].levels[z][h] = books[p]["sell"].levels[z][g]
    BY <1>6, <1>7
  <2>3. books[p]["buy"].levels[y][j].user = books[p]["sell"].levels[z][g].user
    BY <1>8 DEF ApartBooks, ApartAt
  <2>4. QED
    BY <2>1, <2>2, <2>3
<1>9. QED
  BY <1>8 DEF ApartBooks, ApartAt

\* A step that changes the books is a submission or a cancellation.
LEMMA BookChange ==
    ASSUME CoreType, BookInv, [Next]_vars, books' # books
    PROVE  \/ \E o \in Orders : \E side, plan :
                 /\ Submit(o) /\ Accepts(books, books', submissions, cancellations, o, side, plan)
           \/ \E p \in Pairs : \E u, s, x, i, e : Cancelled(u, p, s, x, i, e)
<1>1. ASSUME NEW o \in Orders, Submit(o)
      PROVE  \E side, plan : Accepts(books, books', submissions, cancellations, o, side, plan)
  BY <1>1, SubmitAccepts
<1>2. ASSUME NEW o \in Orders, NEW u \in Users, Cancel(o.id, u, o.pair)
      PROVE  \E p \in Pairs : \E s, x, i, e : Cancelled(u, p, s, x, i, e)
  <2>1. o.pair \in Pairs /\ ~ UNCHANGED vars
    BY OrderType DEF vars
  <2>2. QED
    BY <1>2, <2>1, CancelTakes
<1>3. Next
  BY DEF vars
<1>4. ~(\E d \in Credits : CreditDeposit(d))
  BY DEF CreditDeposit, vars
<1>5. ~(\E w \in Withdrawals, action \in {"reserve", "release", "complete"} : Withdraw(w, action))
  BY DEF Withdraw, vars
<1>6. \A a, v : ~Balance(a, v) /\ ~LockBalance(a, v) /\ ~UnlockBalance(a, v)
  BY DEF Balance, LockBalance, UnlockBalance
<1>7. (\E o \in Orders : Submit(o)) \/ (\E o \in Orders, u \in Users : Cancel(o.id, u, o.pair))
  BY <1>3, <1>4, <1>5, <1>6 DEF Next
<1>8. QED
  BY <1>1, <1>2, <1>7

ApartInv == SoundInv /\ ApartBooks(books)

\* Every step keeps ApartInv.
LEMMA ApartStep == ApartInv /\ [Next]_vars => ApartInv'
<1> SUFFICES ASSUME ApartInv, [Next]_vars PROVE ApartBooks(books')
  BY SoundStep DEF ApartInv
<1>1. CoreType /\ BookInv /\ SoundBooks(books) /\ ApartBooks(books)
  BY DEF ApartInv, SoundInv, FundsInv
<1>2. CASE books' = books
  BY <1>1, <1>2
<1>3. CASE books' # books
  BY <1>1, <1>3, BookChange, SubmitApart, CancelApart
<1>4. QED
  BY <1>2, <1>3

\* ApartInv holds at the start.
LEMMA ApartInitially == Init => ApartInv
<1> SUFFICES ASSUME Init PROVE ApartBooks(books)
  BY SoundInitially DEF ApartInv
<1>1. \A p \in Pairs, x \in Prices : books[p]["buy"].levels[x] = <<>>
  BY DEF Init, EmptyBook, EmptySide
<1>2. QED
  BY <1>1 DEF ApartBooks, ApartAt

\* Two customers' resting orders never cross, whatever was skipped, filled in
\* part or cancelled (matcher.rs plan_levels: whoever could trade did).
THEOREM StrangersNeverCross == Spec => []NoCrossedStrangers
<1>1. ApartInv => NoCrossedStrangers
  <2> SUFFICES ASSUME ApartInv, NEW p \in Pairs, NEW b \in Entries(books[p].buy), NEW s \in Entries(books[p].sell),
                      b.price >= s.price
               PROVE  b.user = s.user
    BY DEF NoCrossedStrangers
  <2>1. books[p].buy \in SideType /\ books[p].sell \in SideType
    BY DEF ApartInv, SoundInv, FundsInv, CoreType, TypedBooks, TypedBook, Sides
  <2>2. PICK x \in Prices : \E i \in DOMAIN books[p].buy.levels[x] : b = books[p].buy.levels[x][i]
    BY <2>1, EntriesAre
  <2>3. PICK i \in DOMAIN books[p].buy.levels[x] : b = books[p].buy.levels[x][i]
    BY <2>2
  <2>4. PICK y \in Prices : \E j \in DOMAIN books[p].sell.levels[y] : s = books[p].sell.levels[y][j]
    BY <2>1, EntriesAre
  <2>5. PICK j \in DOMAIN books[p].sell.levels[y] : s = books[p].sell.levels[y][j]
    BY <2>4
  <2>6. Entry(submissions, b, p, "buy", x) /\ Entry(submissions, s, p, "sell", y)
    BY <2>3, <2>5 DEF ApartInv, SoundInv, FundsInv, BookInv, BookOk, QueueOk, Sides
  <2>7. x >= y
    BY <2>6 DEF Entry
  <2>8. QED
    BY <2>3, <2>5, <2>7 DEF ApartInv, ApartBooks, ApartAt
<1>2. QED
  BY <1>1, ApartInitially, ApartStep, PTL DEF Spec

-----------------------------------------------------------------------------
(* What the taker pays.                                                     *)

\* What the taker pays is the sum over the trades.
TakerPays(o, t) == IF IsBuy(o) THEN Quote(t.price, t.qty) ELSE t.qty
UsedBy(o, p) == IF IsBuy(o) THEN p.quote ELSE p.amount
Paying(o, p, u) ==
    /\ u \in [0..Len(p.trades) -> Int] /\ u[0] = 0
    /\ \A j \in 1..Len(p.trades) : u[j] = u[j - 1] + TakerPays(o, p.trades[j])
    /\ u[Len(p.trades)] = UsedBy(o, p)
Summed(o, p) == p.ok => \E u : Paying(o, p, u)

\* The spent and filled amounts of a plan follow one more maker.
LEMMA SummedNext ==
    ASSUME NEW o \in Orders, NEW plan \in PlanType, NEW m \in EntryType, Summed(o, plan)
    PROVE  Summed(o, PlanMaker(o, plan, m))
<1>1. PICK new : new = PlanMaker(o, plan, m)
  OBVIOUS
<1>2. SUFFICES ASSUME new.ok PROVE \E u : Paying(o, new, u)
  BY <1>1 DEF Summed
<1>3. /\ new \in PlanType /\ plan.ok
      /\ PassedOver(o, plan, m, new) \/ Trades(o, plan, m, new)
      /\ Wanted(o, plan, m) \in Int
  BY <1>1, <1>2, PlanMakerType
<1>4. PICK u : Paying(o, plan, u)
  BY <1>3 DEF Summed
<1>5. CASE PassedOver(o, plan, m, new)
  <2>1. new = plan
    BY <1>5 DEF PassedOver
  <2>2. QED
    BY <1>4, <2>1
<1>6. CASE Trades(o, plan, m, new)
  <2>1. PICK q \in Int : q = Wanted(o, plan, m)
    BY <1>3
  <2>2. PICK t : t = [maker |-> m, price |-> m.price, qty |-> q]
    OBVIOUS
  <2>3. t.price = m.price /\ t.qty = q /\ m.price \in Int
    BY <2>2, PriceType DEF EntryType
  <2>4. PICK w \in Int : w = Quote(m.price, q)
    BY <2>3, ArithmeticType
  <2>5. new.amount = plan.amount + q /\ new.quote = plan.quote + w /\ new.trades = Append(plan.trades, t)
    BY <1>6, <2>1, <2>2, <2>4 DEF Trades
  <2>6. PICK ts \in Seq(TradeType) : ts = plan.trades
    BY DEF PlanType
  <2>7. PICK n \in Nat : n = Len(ts)
    OBVIOUS
  <2>8. t \in TradeType
    BY <2>2, <2>3 DEF TradeType
  <2>9. Len(new.trades) = n + 1 /\ new.trades[n + 1] = t /\ \A j \in 1..n : new.trades[j] = ts[j]
    BY <2>5, <2>6, <2>7, <2>8
  <2>10. PICK pay \in Int : pay = TakerPays(o, t)
    BY <2>3, <2>4 DEF TakerPays
  <2>11. u \in [0..n -> Int] /\ u[0] = 0 /\ (\A j \in 1..n : u[j] = u[j - 1] + TakerPays(o, ts[j])) /\ u[n] = UsedBy(o, plan)
    BY <1>4, <2>6, <2>7 DEF Paying
  <2>12. UsedBy(o, new) = UsedBy(o, plan) + pay
    BY <2>3, <2>4, <2>5, <2>10 DEF UsedBy, TakerPays
  <2>13. PICK x : x = [j \in 0..(n + 1) |-> IF j = n + 1 THEN u[n] + pay ELSE u[j]]
    OBVIOUS
  <2>14. n \in 0..n /\ u[n] \in Int
    BY <2>11
  <2>15. x \in [0..(n + 1) -> Int] /\ x[0] = 0 /\ x[n + 1] = u[n] + pay /\ \A j \in 0..n : x[j] = u[j]
    <3>1. \A j \in 0..(n + 1) : j # n + 1 => j \in 0..n
      OBVIOUS
    <3>2. \A j \in 0..(n + 1) : x[j] = IF j = n + 1 THEN u[n] + pay ELSE u[j]
      BY <2>13
    <3>3. ASSUME NEW j \in 0..(n + 1) PROVE x[j] \in Int
      <4>1. CASE j = n + 1
        BY <2>14, <3>2, <4>1
      <4>2. CASE j # n + 1
        <5>1. j \in 0..n /\ x[j] = u[j]
          BY <3>1, <3>2, <4>2
        <5>2. QED
          BY <2>11, <5>1
      <4>3. QED
        BY <4>1, <4>2
    <3>4. x \in [0..(n + 1) -> Int]
      BY <2>13, <3>3
    <3>5. 0 \in 0..(n + 1) /\ 0 # n + 1 /\ n + 1 \in 0..(n + 1)
      OBVIOUS
    <3>6. \A j \in 0..n : j \in 0..(n + 1) /\ j # n + 1
      OBVIOUS
    <3>7. QED
      BY <2>11, <3>2, <3>4, <3>5, <3>6
  <2>16. ASSUME NEW j \in 1..(n + 1) PROVE x[j] = x[j - 1] + TakerPays(o, new.trades[j])
    <3>1. CASE j = n + 1
      <4>1. j - 1 = n
        BY <3>1
      <4>2. QED
        BY <2>9, <2>10, <2>14, <2>15, <3>1, <4>1
    <3>2. CASE j # n + 1
      <4>1. j \in 1..n /\ j \in 0..n /\ j - 1 \in 0..n
        BY <3>2
      <4>2. QED
        BY <2>9, <2>11, <2>15, <4>1
    <3>3. QED
      BY <3>1, <3>2
  <2>17. Paying(o, new, x)
    BY <2>9, <2>11, <2>12, <2>15, <2>16 DEF Paying
  <2>18. QED
    BY <2>17
<1>7. QED
  BY <1>3, <1>5, <1>6

\* A plan spends and fills what its trades say.
LEMMA PlanIsSummed ==
    ASSUME NEW o \in Orders, NEW side, Makers(o, side) \in Seq(EntryType)
    PROVE  Summed(o, PlanOrder(o, side))
<1>1. PICK M \in Seq(EntryType) : M = Makers(o, side)
  OBVIOUS
<1>2. PICK f : PlanRun(o, M, f) /\ PlanOrder(o, side) = f[Len(M)]
  BY <1>1, PlanRuns
<1>3. PICK n \in Nat : n = Len(M) /\ DOMAIN M = 1..n
  OBVIOUS
<1>4. PICK T : T = {k \in Nat : k <= n => Summed(o, f[k])}
  OBVIOUS
<1>5. 0 \in T
  <2>1. PICK p : p = NewPlan(o)
    OBVIOUS
  <2>2. p.trades = <<>> /\ UsedBy(o, p) = 0
    BY <2>1 DEF NewPlan, UsedBy
  <2>3. PICK u : u = [j \in {0} |-> 0]
    OBVIOUS
  <2>4. 0..0 = {0} /\ 1..0 = {} /\ Len(<<>>) = 0
    OBVIOUS
  <2>5. u \in [0..0 -> Int] /\ u[0] = 0
    BY <2>3, <2>4
  <2>6. Paying(o, p, u)
    BY <2>2, <2>4, <2>5 DEF Paying
  <2>7. f[0] = p
    BY <1>2, <2>1 DEF PlanRun
  <2>8. QED
    BY <1>4, <2>6, <2>7 DEF Summed
<1>6. ASSUME NEW k \in Nat, k \in T PROVE k + 1 \in T
  <2>1. CASE k + 1 > n
    BY <1>4, <2>1
  <2>2. CASE k + 1 <= n
    <3>1. k + 1 \in 1..n /\ k \in 0..n /\ (k + 1) - 1 = k /\ k <= n
      BY <2>2
    <3>2. f[k + 1] = PlanMaker(o, f[k], M[k + 1]) /\ f[k] \in PlanType
      BY <1>2, <1>3, <3>1 DEF PlanRun
    <3>3. M[k + 1] \in EntryType
      BY <1>3, <3>1
    <3>4. Summed(o, f[k])
      BY <1>4, <1>6, <3>1
    <3>5. Summed(o, f[k + 1])
      BY <3>2, <3>3, <3>4, SummedNext
    <3>6. QED
      BY <1>4, <3>5
  <2>3. QED
    BY <2>1, <2>2
<1>7. \A k \in Nat : k \in T
  BY <1>5, <1>6, Numbers
<1>8. QED
  BY <1>2, <1>3, <1>4, <1>7

-----------------------------------------------------------------------------
(* The resting orders of an account.                                        *)

\* All entries of the books, and who holds a share of an account's locked
\* amount.
All(b) == UNION {BookEntries(b[p]) : p \in Pairs}
Account(e) == <<e.user, PayMint(e)>>
Shares(b, a) == {e \in All(b) : Account(e) = a}
Share(b, a) == [e \in Shares(b, a) |-> Reservation(e)]

\* The entries of the books are those at their places.
LEMMA AllArePlaced ==
    ASSUME NEW b \in TypedBooks
    PROVE  \A e : e \in All(b) <=> \E p, s, x, i : Place(b, p, s, x, i) /\ e = b[p][s].levels[x][i]
<1>1. ASSUME NEW p \in Pairs PROVE b[p].buy = b[p]["buy"] /\ b[p].sell = b[p]["sell"]
                                   /\ b[p]["buy"] \in SideType /\ b[p]["sell"] \in SideType
  BY DEF TypedBooks, TypedBook, Sides
<1>2. ASSUME NEW e, e \in All(b) PROVE \E p, s, x, i : Place(b, p, s, x, i) /\ e = b[p][s].levels[x][i]
  <2>1. PICK p \in Pairs : e \in BookEntries(b[p])
    BY <1>2 DEF All
  <2>2. PICK s \in Sides : e \in Entries(b[p][s]) /\ b[p][s] \in SideType
    BY <1>1, <2>1 DEF BookEntries, Sides
  <2>3. PICK side \in SideType : side = b[p][s]
    BY <2>2
  <2>4. PICK x \in Prices : \E i \in DOMAIN side.levels[x] : e = side.levels[x][i]
    BY <2>2, <2>3, EntriesAre
  <2>5. PICK i \in DOMAIN side.levels[x] : e = side.levels[x][i]
    BY <2>4
  <2>6. Place(b, p, s, x, i) /\ e = b[p][s].levels[x][i]
    BY <2>3, <2>5 DEF Place
  <2>7. QED
    BY <2>6
<1>3. ASSUME NEW e, NEW p, NEW s, NEW x, NEW i, Place(b, p, s, x, i), e = b[p][s].levels[x][i] PROVE e \in All(b)
  <2>1. p \in Pairs /\ s \in Sides /\ x \in Prices /\ i \in DOMAIN b[p][s].levels[x]
    BY <1>3 DEF Place
  <2>2. b[p][s] \in SideType
    BY <2>1 DEF TypedBooks, TypedBook
  <2>3. e \in Entries(b[p][s])
    BY <1>3, <2>1, <2>2, EntriesAre
  <2>4. e \in BookEntries(b[p])
    BY <1>1, <2>1, <2>3 DEF BookEntries, Sides
  <2>5. QED
    BY <2>1, <2>4 DEF All
<1>4. QED
  BY <1>2, <1>3

\* An entry, its reservation and its account.
LEMMA AllTyped ==
    ASSUME NEW b \in TypedBooks, NEW e \in All(b)
    PROVE  e \in EntryType /\ Reservation(e) \in Int /\ Account(e) \in Accounts
<1>1. PICK p, s, x, i : Place(b, p, s, x, i) /\ e = b[p][s].levels[x][i]
  BY AllArePlaced
<1>2. p \in Pairs /\ s \in Sides /\ x \in Prices /\ i \in DOMAIN b[p][s].levels[x]
  BY <1>1 DEF Place
<1>3. PICK side \in SideType : side = b[p][s]
  BY <1>2 DEF TypedBooks, TypedBook
<1>4. e \in EntryType
  BY <1>1, <1>2, <1>3, EntriesAre
<1>5. QED
  BY <1>4, ReservationType DEF Account

\* The reservations of an account can be summed.
LEMMA ShareType ==
    ASSUME NEW b \in TypedBooks, IsFiniteSet(All(b)), NEW a
    PROVE  /\ IsFiniteSet(Shares(b, a)) /\ Numeric(Share(b, a)) /\ SumFunction(Share(b, a)) \in Int
           /\ DOMAIN Share(b, a) = Shares(b, a) /\ \A e \in Shares(b, a) : Share(b, a)[e] = Reservation(e)
<1>1. PICK f : f = Share(b, a)
  OBVIOUS
<1>2. PICK S : S = Shares(b, a)
  OBVIOUS
<1>3. S \subseteq All(b) /\ IsFiniteSet(S)
  BY <1>2, FS_Subset DEF Shares
<1>4. \A e \in S : Reservation(e) \in Int
  BY <1>3, AllTyped
<1>5. DOMAIN f = S /\ f \in [S -> Int] /\ \A e \in S : f[e] = Reservation(e)
  BY <1>1, <1>2, <1>4 DEF Share
<1>6. Numeric(f)
  BY <1>3, <1>5 DEF Numeric
<1>7. QED
  BY <1>1, <1>2, <1>3, <1>5, <1>6, SumType

\* An entry of another side is left alone by a plan.
LEMMA Elsewhere ==
    ASSUME NEW b, NEW subs, NEW cans, NEW o, NEW side, NEW plan, Plans(b, subs, cans, o, side, plan),
           NEW p, NEW s, NEW x, NEW i, Place(b, p, s, x, i), p # o.pair \/ s # Opposite(o)
    PROVE  /\ ~Traded(plan, b[p][s].levels[x][i]) /\ AfterTrade(plan, b[p][s].levels[x][i]) = b[p][s].levels[x][i]
           /\ \A k \in DOMAIN plan.trades : plan.trades[k].maker # b[p][s].levels[x][i]
<1>1. /\ side \in SideType /\ o.pair \in Pairs /\ plan \in PlanType
      /\ Planned(o, Makers(o, side), Len(Makers(o, side)), plan)
  BY PlanFacts
<1>2. /\ o \in Orders /\ BookOk(b, subs, cans) /\ side = b[o.pair][Opposite(o)] /\ plan.ok
  BY DEF Plans
<1>3. PICK m : m = b[p][s].levels[x][i]
  OBVIOUS
<1>4. ASSUME NEW k \in DOMAIN plan.trades, plan.trades[k].maker.id = m.id PROVE FALSE
  <2>1. PICK at : Visits(o, side, at)
    BY <1>1, MakersAreVisited
  <2>2. PICK n \in Nat : n = Len(Makers(o, side))
    BY <2>1 DEF Visits
  <2>3. Sourced(Makers(o, side), n, plan)
    BY <1>1, <1>2, <2>2 DEF Planned
  <2>4. PICK j \in 1..n : plan.trades[k].maker = Makers(o, side)[j]
    BY <2>3 DEF Sourced
  <2>5. Makers(o, side)[j] = side.levels[at[j][1]][at[j][2]] /\ at[j] \in Places(o, side)
    BY <2>1, <2>2 DEF Visits
  <2>6. IsPlace(o, side, at[j])
    BY <1>1, <2>5, PlacesAre
  <2>7. PICK y, h : y = at[j][1] /\ h = at[j][2] /\ y \in Prices /\ h \in DOMAIN side.levels[y]
    BY <2>6 DEF IsPlace
  <2>8. Opposite(o) \in Sides
    BY <1>2, OppositeSide
  <2>9. Place(b, o.pair, Opposite(o), y, h)
    BY Zenon, <1>1, <1>2, <2>7, <2>8 DEF Place
  <2>10. b[o.pair][Opposite(o)].levels[y][h].id = b[p][s].levels[x][i].id
    BY <1>2, <1>3, <1>4, <2>4, <2>5, <2>7
  <2>11. o.pair = p /\ Opposite(o) = s
    BY <1>2, <2>9, <2>10, IdHasOnePlace
  <2>12. QED
    BY <2>11
<1>5. ~Traded(plan, m)
  BY <1>4 DEF Traded
<1>6. AfterTrade(plan, m) = m
  BY <1>5 DEF AfterTrade
<1>7. \A k \in DOMAIN plan.trades : plan.trades[k].maker # m
  BY <1>4
<1>8. QED
  BY <1>3, <1>5, <1>6, <1>7

\* Entries after an accepted submission: what is left of the old ones, and
\* the rest of the order.
Survives(b, plan, e) == \E m \in All(b) : e = AfterTrade(plan, m) /\ e.remaining > 0

\* After a submission the books hold what survives and the rest of the order.
LEMMA AcceptedEntries ==
    ASSUME NEW b, NEW c, NEW subs, NEW cans, NEW o, NEW side, NEW plan,
           Accepts(b, c, subs, cans, o, side, plan), SoundBooks(b)
    PROVE  \A e : e \in All(c) <=> Survives(b, plan, e) \/ (LeavesRest(o, plan) /\ e = Resting(o, plan))
<1>1. /\ Plans(b, subs, cans, o, side, plan) /\ ValidOrder(o) /\ c \in TypedBooks
      /\ \A p \in Pairs : p # o.pair => c[p] = b[p]
      /\ Committed(b[o.pair], o, plan, c[o.pair])
  BY DEF Accepts
<1>2. o \in Orders /\ side = b[o.pair][Opposite(o)] /\ b \in TypedBooks
  BY <1>1 DEF Plans
<1>3. side \in SideType /\ plan \in PlanType /\ o.pair \in Pairs
  BY <1>1, PlanFacts
<1>4. Opposite(o) \in Sides /\ o.type \in Sides /\ Opposite(o) # o.type /\ \A s \in Sides : s = Opposite(o) \/ s = o.type
  <2>1. Opposite(o) \in Sides /\ o.type \in Sides /\ Opposite(o) # o.type
    BY <1>2, OppositeSide
  <2>2. QED
    BY <2>1 DEF Sides
<1>5. PICK own \in SideType : own = b[o.pair][o.type]
  BY <1>2, <1>3, <1>4 DEF TypedBooks, TypedBook
<1>6. PICK new : new = ApplyPrepared(side, plan)
  OBVIOUS
<1>7. c[o.pair][Opposite(o)] = new
  BY <1>1, <1>2, <1>6 DEF Committed
<1>8. c[o.pair][o.type] = IF LeavesRest(o, plan) THEN AddOrder(own, Resting(o, plan)) ELSE own
  BY <1>1, <1>5 DEF Committed
<1>9. LeavesRest(o, plan) => /\ Resting(o, plan) \in EntryType
                         /\ Resting(o, plan).price = o.price /\ o.price \in Prices
  <2>1. ASSUME LeavesRest(o, plan) PROVE Resting(o, plan) \in EntryType
    BY <1>1, <1>2, <1>3, <2>1, RestingType DEF LeavesRest
  <2>2. Resting(o, plan).price = o.price
    BY DEF Resting
  <2>3. QED
    BY <2>1, <2>2 DEF EntryType
<1>10. ASSUME NEW p, NEW s, NEW x, NEW i, Place(b, p, s, x, i), p # o.pair \/ s # Opposite(o)
       PROVE  Survives(b, plan, b[p][s].levels[x][i])
  <2>1. PICK m : m = b[p][s].levels[x][i]
    OBVIOUS
  <2>2. m \in All(b)
    BY <1>2, <1>10, <2>1, AllArePlaced
  <2>3. AfterTrade(plan, m) = m
    BY <1>1, <1>10, <2>1, Elsewhere
  <2>4. Sound(m, x)
    BY <1>10, <2>1 DEF SoundBooks, SoundSide, Place
  <2>5. m.remaining > 0
    BY <2>4 DEF Sound, ValidEntry
  <2>6. QED
    BY <2>1, <2>2, <2>3, <2>5 DEF Survives
<1>11. ASSUME NEW e, NEW p, NEW s, NEW x, NEW k, Place(c, p, s, x, k), e = c[p][s].levels[x][k]
       PROVE  Survives(b, plan, e) \/ (LeavesRest(o, plan) /\ e = Resting(o, plan))
  <2>1. p \in Pairs /\ s \in Sides /\ x \in Prices /\ k \in DOMAIN c[p][s].levels[x]
    BY <1>11 DEF Place
  <2>2. CASE p # o.pair
    <3>1. c[p] = b[p]
      BY <1>1, <2>1, <2>2
    <3>2. Place(b, p, s, x, k) /\ e = b[p][s].levels[x][k]
      BY <1>11, <2>1, <3>1 DEF Place
    <3>3. QED
      BY <1>10, <2>2, <3>2
  <2>3. CASE p = o.pair /\ s = Opposite(o)
    <3>1. k \in DOMAIN new.levels[x] /\ e = new.levels[x][k]
      BY <1>7, <1>11, <2>1, <2>3
    <3>2. PICK i \in DOMAIN side.levels[x] : e = AfterTrade(plan, side.levels[x][i]) /\ e.remaining > 0
      BY <1>3, <1>6, <2>1, <3>1, PreparedEntries
    <3>3. Place(b, p, s, x, i) /\ side.levels[x][i] = b[p][s].levels[x][i]
      BY <1>2, <2>1, <2>3, <3>2 DEF Place
    <3>4. side.levels[x][i] \in All(b)
      BY <1>2, <3>3, AllArePlaced
    <3>5. QED
      BY <3>2, <3>4 DEF Survives
  <2>4. CASE p = o.pair /\ s = o.type
    <3>1. PICK q \in Seq(EntryType) : q = own.levels[x]
      BY <2>1, SideIsLevelled DEF Levelled
    <3>2. CASE k \in DOMAIN q /\ e = q[k]
      <4>1. Place(b, p, s, x, k) /\ e = b[p][s].levels[x][k]
        BY <1>5, <2>1, <2>4, <3>1, <3>2 DEF Place
      <4>2. s # Opposite(o)
        BY <1>4, <2>4
      <4>3. QED
        BY <1>10, <4>1, <4>2
    <3>3. CASE LeavesRest(o, plan) /\ e = Resting(o, plan)
      BY <3>3
    <3>4. CASE ~LeavesRest(o, plan)
      <4>1. c[p][s] = own
        BY <1>8, <2>4, <3>4
      <4>2. k \in DOMAIN q /\ e = q[k]
        BY <1>11, <2>1, <3>1, <4>1
      <4>3. QED
        BY <3>2, <4>2
    <3>5. CASE LeavesRest(o, plan)
      <4>1. PICK r \in EntryType : r = Resting(o, plan)
        BY <1>9, <3>5
      <4>2. c[p][s] = AddOrder(own, r)
        BY <1>8, <2>4, <3>5, <4>1
      <4>3. c[p][s].levels[x] = IF x = r.price THEN Append(q, r) ELSE q
        BY <2>1, <3>1, <4>2, AddOrderType
      <4>4. CASE x # r.price
        BY <1>11, <2>1, <3>2, <4>3, <4>4
      <4>5. CASE x = r.price
        <5>1. k \in DOMAIN Append(q, r) /\ e = Append(q, r)[k]
          BY <1>11, <2>1, <4>3, <4>5
        <5>2. (k \in DOMAIN q /\ Append(q, r)[k] = q[k]) \/ (k = Len(q) + 1 /\ Append(q, r)[k] = r)
          BY <5>1
        <5>3. QED
          BY <3>2, <3>3, <3>5, <4>1, <5>1, <5>2
      <4>6. QED
        BY <4>4, <4>5
    <3>6. QED
      BY <3>4, <3>5
  <2>5. QED
    BY <1>4, <2>1, <2>2, <2>3, <2>4
<1>12. ASSUME NEW e, Survives(b, plan, e) PROVE e \in All(c)
  <2>1. PICK m \in All(b) : e = AfterTrade(plan, m) /\ e.remaining > 0
    BY <1>12 DEF Survives
  <2>2. PICK p, s, x, i : Place(b, p, s, x, i) /\ m = b[p][s].levels[x][i]
    BY <1>2, <2>1, AllArePlaced
  <2>3. p \in Pairs /\ s \in Sides /\ x \in Prices /\ i \in DOMAIN b[p][s].levels[x]
    BY <2>2 DEF Place
  <2>4. CASE p = o.pair /\ s = Opposite(o)
    <3>1. i \in DOMAIN side.levels[x] /\ m = side.levels[x][i]
      BY <1>2, <2>2, <2>3, <2>4
    <3>2. PICK k \in DOMAIN new.levels[x] : new.levels[x][k] = e
      BY <1>3, <1>6, <2>1, <2>3, <3>1, PreparedEntries
    <3>3. Place(c, p, s, x, k) /\ e = c[p][s].levels[x][k]
      BY <1>7, <2>3, <2>4, <3>2 DEF Place
    <3>4. QED
      BY <1>1, <3>3, AllArePlaced
  <2>5. CASE p # o.pair
    <3>1. c[p] = b[p] /\ e = m
      BY <1>1, <2>1, <2>2, <2>3, <2>5, Elsewhere
    <3>2. Place(c, p, s, x, i) /\ e = c[p][s].levels[x][i]
      BY <2>2, <2>3, <3>1 DEF Place
    <3>3. QED
      BY <1>1, <3>2, AllArePlaced
  <2>6. CASE p = o.pair /\ s = o.type
    <3>1. e = m
      <4>1. Place(b, p, s, x, i) /\ s # Opposite(o)
        BY <1>4, <2>2, <2>6, Zenon
      <4>2. Plans(b, subs, cans, o, side, plan)
        BY <1>1, Zenon
      <4>3. AfterTrade(plan, b[p][s].levels[x][i]) = b[p][s].levels[x][i]
        BY <4>1, <4>2, Elsewhere
      <4>4. QED
        BY <2>1, <2>2, <4>3, Zenon
    <3>2. PICK q \in Seq(EntryType) : q = own.levels[x]
      BY <2>3, SideIsLevelled DEF Levelled
    <3>3. i \in DOMAIN q /\ e = q[i]
      BY <1>5, <2>2, <2>3, <2>6, <3>1, <3>2
    <3>4. i \in DOMAIN c[p][s].levels[x] /\ c[p][s].levels[x][i] = q[i]
      <4>1. CASE ~LeavesRest(o, plan)
        <5>1. c[p][s] = own
          BY <1>8, <2>6, <4>1
        <5>2. QED
          BY <3>2, <3>3, <5>1
      <4>2. CASE LeavesRest(o, plan)
        <5>1. PICK r \in EntryType : r = Resting(o, plan)
          BY <1>9, <4>2
        <5>2. c[p][s] = AddOrder(own, r)
          BY <1>8, <2>6, <4>2, <5>1
        <5>3. c[p][s].levels[x] = IF x = r.price THEN Append(q, r) ELSE q
          BY <2>3, <3>2, <5>2, AddOrderType
        <5>4. i \in DOMAIN Append(q, r) /\ Append(q, r)[i] = q[i]
          BY <3>3
        <5>5. QED
          BY <3>3, <5>3, <5>4
      <4>3. QED
        BY <4>1, <4>2
    <3>5. Place(c, p, s, x, i) /\ e = c[p][s].levels[x][i]
      BY <2>3, <3>3, <3>4 DEF Place
    <3>6. QED
      BY Zenon, <1>1, <3>5, AllArePlaced
  <2>7. QED
    BY <1>4, <2>3, <2>4, <2>5, <2>6
<1>13. ASSUME LeavesRest(o, plan) PROVE Resting(o, plan) \in All(c)
  <2>1. PICK r \in EntryType : r = Resting(o, plan) /\ r.price \in Prices
    BY <1>9, <1>13
  <2>2. PICK x \in Prices : x = r.price
    BY <2>1
  <2>3. PICK q \in Seq(EntryType) : q = own.levels[x]
    BY SideIsLevelled DEF Levelled
  <2>4. c[o.pair][o.type] = AddOrder(own, r)
    BY <1>8, <1>13, <2>1
  <2>5. c[o.pair][o.type].levels[x] = Append(q, r)
    <3>1. c[o.pair][o.type].levels[x] = IF x = r.price THEN Append(q, r) ELSE q
      BY <2>3, <2>4, AddOrderType
    <3>2. QED
      BY <2>2, <3>1
  <2>6. PICK k : k = Len(q) + 1
    OBVIOUS
  <2>7. k \in DOMAIN Append(q, r) /\ Append(q, r)[k] = r
    BY <2>6
  <2>8. Place(c, o.pair, o.type, x, k) /\ r = c[o.pair][o.type].levels[x][k]
    BY <1>3, <1>4, <2>5, <2>7 DEF Place
  <2>9. QED
    BY <1>1, <2>1, <2>8, AllArePlaced
<1>14. QED
  <2>1. \A e : e \in All(c) => Survives(b, plan, e) \/ (LeavesRest(o, plan) /\ e = Resting(o, plan))
    BY <1>1, <1>11, AllArePlaced
  <2>2. QED
    BY <1>12, <1>13, <2>1

-----------------------------------------------------------------------------
(* What the makers give from their reservations.                            *)

\* What a trade takes from a maker's reservation.
MakerPays(o, e, q) == IF IsBuy(o) THEN q ELSE Quote(e.price, q)
Given(b, o, plan, a) == [e \in Shares(b, a) |-> MakerPays(o, e, Taken(plan, e))]

\* The quote of nothing is nothing.
LEMMA NothingQuoted ==
    ASSUME NEW x \in Int
    PROVE  Quote(x, 0) = 0
<1>1. x * 0 = 0
  OBVIOUS
<1>2. 0 \div Factor = 0
  BY AmountAssumption
<1>3. QED
  BY <1>1, <1>2 DEF Quote

\* What is left of an entry and what was given make up what it reserved.
SplitsInto(o, plan, e) ==
    /\ AfterTrade(plan, e) \in EntryType /\ AfterTrade(plan, e).remaining >= 0
    /\ Account(AfterTrade(plan, e)) = Account(e) /\ AfterTrade(plan, e).id = e.id
    /\ MakerPays(o, e, Taken(plan, e)) \in Int /\ Reservation(AfterTrade(plan, e)) \in Int
    /\ Reservation(e) = Reservation(AfterTrade(plan, e)) + MakerPays(o, e, Taken(plan, e))
    /\ AfterTrade(plan, e).remaining = 0 => Reservation(AfterTrade(plan, e)) = 0

\* The reservation of a maker splits into what is taken and what stays.
LEMMA ReservationSplits ==
    ASSUME NEW b, NEW subs, NEW cans, NEW o, NEW side, NEW plan, Plans(b, subs, cans, o, side, plan),
           SoundBooks(b), NEW e \in All(b)
    PROVE  SplitsInto(o, plan, e)
<1>1. /\ side \in SideType /\ o.pair \in Pairs /\ plan \in PlanType
  BY PlanFacts
<1>2. /\ o \in Orders /\ BookOk(b, subs, cans) /\ side = b[o.pair][Opposite(o)] /\ b \in TypedBooks
  BY DEF Plans
<1>3. PICK p, s, x, i : Place(b, p, s, x, i) /\ e = b[p][s].levels[x][i]
  BY <1>2, AllArePlaced
<1>4. p \in Pairs /\ s \in Sides /\ x \in Prices /\ i \in DOMAIN b[p][s].levels[x]
  BY <1>3 DEF Place
<1>5. e \in EntryType /\ Reservation(e) \in Int /\ e.price \in Int /\ e.remaining \in Int
  BY <1>2, AllTyped, ReservationType
<1>6. PICK d : d = AfterTrade(plan, e)
  OBVIOUS
<1>7. PICK q \in Int : q = Taken(plan, e) /\ Reduced(e, q, d)
  BY <1>1, <1>5, <1>6, AfterTradeType
<1>8. /\ d \in EntryType /\ d.id = e.id /\ d.user = e.user /\ d.pair = e.pair /\ d.type = e.type /\ d.price = e.price
      /\ d.remaining = e.remaining - q
  BY <1>7 DEF Reduced
<1>9. Account(d) = Account(e) /\ (IsBuy(d) <=> IsBuy(e))
  BY <1>8 DEF Account, PayMint, IsBuy, Base, QuoteMint
<1>10. Reservation(d) \in Int /\ d.remaining \in Int /\ Quote(e.price, q) \in Int
  BY <1>5, <1>8, ReservationType, ArithmeticType
<1>11. MakerPays(o, e, q) \in Int
  BY <1>10 DEF MakerPays
<1>12. d.remaining = 0 => Reservation(d) = 0
  BY <1>5, <1>8, NothingQuoted DEF Reservation
<1>13. CASE p # o.pair \/ s # Opposite(o)
  <2>1. ~Traded(plan, e) /\ d = e
    BY <1>3, <1>6, <1>13, Elsewhere
  <2>2. q = 0
    BY <1>7, <2>1 DEF Taken
  <2>3. MakerPays(o, e, q) = 0
    BY <1>5, <2>2, NothingQuoted DEF MakerPays
  <2>4. Sound(e, x)
    BY <1>3, <1>4 DEF SoundBooks, SoundSide
  <2>5. e.remaining > 0
    BY <2>4 DEF Sound, ValidEntry
  <2>6. Reservation(e) = Reservation(d) + MakerPays(o, e, q)
    BY <1>5, <2>1, <2>3
  <2>7. d.remaining >= 0
    BY <1>5, <2>1, <2>5
  <2>8. QED
    BY <1>6, <1>7, <1>8, <1>9, <1>10, <1>11, <1>12, <2>6, <2>7 DEF SplitsInto
<1>14. CASE p = o.pair /\ s = Opposite(o)
  <2>1. i \in DOMAIN side.levels[x] /\ e = side.levels[x][i]
    BY <1>2, <1>3, <1>4, <1>14
  <2>2. SoundSide(side)
    BY <1>2, <1>4, <1>14 DEF SoundBooks
  <2>3. e.price = x /\ Leaves(e, x, Taken(plan, e), d)
    BY <1>4, <1>6, <2>1, <2>2, LeftOver
  <2>4. Leaves(e, x, q, d)
    BY <1>7, <2>3
  <2>5. Entry(subs, e, p, s, x)
    BY <1>2, <1>3, <1>4 DEF BookOk, QueueOk
  <2>6. IsBuy(e) <=> ~IsBuy(o)
    <3>1. e.type = Opposite(o)
      BY <1>14, <2>5 DEF Entry
    <3>2. QED
      BY <3>1 DEF Opposite, IsBuy
  <2>7. Reservation(e) = Reservation(d) + MakerPays(o, e, q)
    <3>1. CASE IsBuy(o)
      <4>1. Reservation(e) = e.remaining /\ Reservation(d) = d.remaining /\ MakerPays(o, e, q) = q
        BY <1>9, <2>6, <3>1 DEF Reservation, MakerPays
      <4>2. QED
        BY <1>5, <1>8, <4>1
    <3>2. CASE ~IsBuy(o)
      <4>1. Reservation(e) = Quote(x, e.remaining) /\ Reservation(d) = Quote(x, d.remaining) /\ MakerPays(o, e, q) = Quote(x, q)
        BY <1>8, <1>9, <2>3, <2>6, <3>2 DEF Reservation, MakerPays
      <4>2. Quote(x, d.remaining) = Quote(x, e.remaining) - (IF q = 0 THEN 0 ELSE Quote(x, q))
        BY <1>9, <2>4, <2>6, <3>2 DEF Leaves
      <4>3. q = 0 => Quote(x, q) = 0
        BY <1>4, NothingQuoted, PriceType
      <4>4. Quote(x, e.remaining) \in Int /\ Quote(x, q) \in Int
        BY <1>5, <1>10, <2>3, <4>1
      <4>5. QED
        BY <4>1, <4>2, <4>3, <4>4
    <3>3. QED
      BY <3>1, <3>2
  <2>8. d.remaining >= 0
    BY <2>4 DEF Leaves
  <2>9. QED
    BY <1>6, <1>7, <1>8, <1>9, <1>10, <1>11, <1>12, <2>7, <2>8 DEF SplitsInto
<1>15. QED
  BY <1>13, <1>14

\* The books stay finite.
LEMMA AcceptedFinite ==
    ASSUME NEW b, NEW c, NEW subs, NEW cans, NEW o, NEW side, NEW plan,
           Accepts(b, c, subs, cans, o, side, plan), SoundBooks(b), IsFiniteSet(All(b))
    PROVE  IsFiniteSet(All(c))
<1>1. PICK f : f = [m \in All(b) |-> AfterTrade(plan, m)]
  OBVIOUS
<1>2. PICK S : S = {f[m] : m \in All(b)}
  OBVIOUS
<1>3. IsFiniteSet(S)
  BY <1>2, FiniteImage
<1>4. IsFiniteSet(S \cup {Resting(o, plan)})
  BY <1>3, FS_AddElement
<1>5. \A e : e \in All(c) <=> Survives(b, plan, e) \/ (LeavesRest(o, plan) /\ e = Resting(o, plan))
  BY AcceptedEntries
<1>6. \A e \in All(c) : e \in S \cup {Resting(o, plan)}
  BY <1>1, <1>2, <1>5 DEF Survives
<1>7. QED
  BY <1>4, <1>6, FS_Subset

\* The rest of an order.
LEMMA RestShare ==
    ASSUME NEW o \in Orders, NEW plan \in PlanType, LeavesRest(o, plan)
    PROVE  /\ Resting(o, plan).id = o.id /\ Account(Resting(o, plan)) = PayAccount(o)
           /\ Reservation(Resting(o, plan)) = StillReserved(o, plan)
<1>1. PICK e : e = Resting(o, plan)
  OBVIOUS
<1>2. e.id = o.id /\ e.user = o.user /\ e.pair = o.pair /\ e.type = o.type /\ e.price = o.price /\ e.remaining = plan.remaining
  BY <1>1 DEF Resting
<1>3. Account(e) = PayAccount(o)
  BY <1>2 DEF Account, PayAccount, PayMint, IsBuy, Base, QuoteMint
<1>4. Reservation(e) = StillReserved(o, plan)
  BY <1>2 DEF Reservation, StillReserved, LeavesRest, IsBuy
<1>5. QED
  BY <1>1, <1>2, <1>3, <1>4

\* The shares in one account after an accepted submission.
LEMMA AcceptedShares ==
    ASSUME NEW b, NEW c, NEW subs, NEW cans, NEW o, NEW side, NEW plan,
           Accepts(b, c, subs, cans, o, side, plan), SoundBooks(b), IsFiniteSet(All(b)),
           \A r \in subs : r.id # o.id, NEW a \in Accounts
    PROVE  /\ Numeric(Given(b, o, plan, a)) /\ SumFunction(Given(b, o, plan, a)) \in Int
           /\ SumFunction(Share(c, a)) = SumFunction(Share(b, a)) - SumFunction(Given(b, o, plan, a))
                  + (IF LeavesRest(o, plan) /\ PayAccount(o) = a THEN StillReserved(o, plan) ELSE 0)
<1>1. /\ Plans(b, subs, cans, o, side, plan) /\ ValidOrder(o) /\ c \in TypedBooks
  BY DEF Accepts
<1>2. o \in Orders /\ side = b[o.pair][Opposite(o)] /\ b \in TypedBooks /\ BookOk(b, subs, cans)
  BY <1>1 DEF Plans
<1>3. side \in SideType /\ plan \in PlanType /\ o.pair \in Pairs
  BY <1>1, PlanFacts
<1>4. IsFiniteSet(All(c))
  BY AcceptedFinite
<1>5. PICK E : E = Shares(b, a)
  OBVIOUS
<1>6. \A e \in E : SplitsInto(o, plan, e) /\ e \in All(b) /\ Account(e) = a
  BY <1>1, <1>5, ReservationSplits DEF Shares
<1>7. PICK whole : whole = Share(b, a)
  OBVIOUS
<1>8. Numeric(whole) /\ DOMAIN whole = E /\ SumFunction(whole) \in Int /\ IsFiniteSet(E) /\ \A e \in E : whole[e] = Reservation(e)
  BY <1>2, <1>5, <1>7, ShareType
<1>9. PICK left : left = [e \in E |-> Reservation(AfterTrade(plan, e))]
  OBVIOUS
<1>10. PICK given : given = Given(b, o, plan, a)
  OBVIOUS
<1>11. DOMAIN left = E /\ Numeric(left) /\ \A e \in E : left[e] = Reservation(AfterTrade(plan, e))
  <2>1. left \in [E -> Int]
    BY <1>6, <1>9 DEF SplitsInto
  <2>2. QED
    BY <1>8, <1>9, <2>1 DEF Numeric
<1>12. DOMAIN given = E /\ Numeric(given) /\ \A e \in E : given[e] = MakerPays(o, e, Taken(plan, e))
  <2>1. given = [e \in E |-> MakerPays(o, e, Taken(plan, e))]
    BY <1>5, <1>10 DEF Given
  <2>2. given \in [E -> Int]
    BY <1>6, <2>1 DEF SplitsInto
  <2>3. QED
    BY <1>8, <2>1, <2>2 DEF Numeric
<1>13. \A e \in E : whole[e] = left[e] + given[e]
  BY <1>6, <1>8, <1>11, <1>12 DEF SplitsInto
<1>14. SumFunction(whole) = SumFunction(left) + SumFunction(given)
  BY <1>8, <1>11, <1>12, <1>13, SumAdds
<1>15. SumFunction(left) \in Int /\ SumFunction(given) \in Int
  BY <1>11, <1>12, SumType
<1>16. PICK S : S = {e \in Shares(c, a) : Survives(b, plan, e)}
  OBVIOUS
<1>17. PICK next : next = Share(c, a)
  OBVIOUS
<1>18. Numeric(next) /\ DOMAIN next = Shares(c, a) /\ IsFiniteSet(Shares(c, a)) /\ \A e \in Shares(c, a) : next[e] = Reservation(e)
  BY <1>1, <1>4, <1>17, ShareType
<1>19. PICK old : old = [e \in S |-> Reservation(e)]
  OBVIOUS
<1>20. DOMAIN old = S /\ Numeric(old) /\ \A e \in S : old[e] = Reservation(e)
  <2>1. IsFiniteSet(S)
    BY <1>16, <1>18, FS_Subset
  <2>2. \A e \in S : Reservation(e) \in Int
    BY <1>1, <1>16, AllTyped DEF Shares
  <2>3. old \in [S -> Int]
    BY <1>19, <2>2
  <2>4. QED
    BY <1>19, <2>1, <2>3 DEF Numeric
<1>21. \A e \in S : \E m \in E : e = AfterTrade(plan, m)
  <2> SUFFICES ASSUME NEW e \in S PROVE \E m \in E : e = AfterTrade(plan, m)
    OBVIOUS
  <2>1. Account(e) = a /\ Survives(b, plan, e)
    BY <1>16 DEF Shares
  <2>2. PICK m \in All(b) : e = AfterTrade(plan, m)
    BY <2>1 DEF Survives
  <2>3. Account(e) = Account(m)
    BY <1>1, <2>2, ReservationSplits DEF SplitsInto
  <2>4. m \in E
    BY <1>5, <2>1, <2>2, <2>3 DEF Shares
  <2>5. QED
    BY <2>2, <2>4
<1>22. PICK h : h = [e \in S |-> CHOOSE m \in E : e = AfterTrade(plan, m)]
  OBVIOUS
<1>23. \A e \in S : h[e] \in E /\ e = AfterTrade(plan, h[e])
  <2> SUFFICES ASSUME NEW e \in S PROVE h[e] \in E /\ e = AfterTrade(plan, h[e])
    OBVIOUS
  <2>1. h[e] = CHOOSE m \in E : e = AfterTrade(plan, m)
    BY <1>22
  <2>2. \E m \in E : e = AfterTrade(plan, m)
    BY <1>21
  <2>3. QED
    BY <2>1, <2>2, Zenon
<1>24. h \in [DOMAIN old -> DOMAIN left]
  BY <1>11, <1>20, <1>22, <1>23
<1>25. \A x, y \in DOMAIN old : h[x] = h[y] => x = y
  BY <1>20, <1>23
<1>26. \A x \in DOMAIN old : old[x] = left[h[x]]
  BY <1>11, <1>20, <1>23
<1>27. ASSUME NEW m \in DOMAIN left, \A x \in DOMAIN old : h[x] # m PROVE left[m] = 0
  <2>1. m \in E /\ SplitsInto(o, plan, m) /\ m \in All(b) /\ Account(m) = a
    BY <1>6, <1>11
  <2>2. PICK d : d = AfterTrade(plan, m)
    OBVIOUS
  <2>3. d \in EntryType /\ d.remaining >= 0 /\ Account(d) = a /\ d.id = m.id /\ (d.remaining = 0 => Reservation(d) = 0)
    BY <2>1, <2>2 DEF SplitsInto
  <2>4. d.remaining \in Int
    BY <2>3 DEF EntryType
  <2>5. CASE d.remaining = 0
    BY <1>11, <2>1, <2>2, <2>3, <2>5
  <2>6. CASE d.remaining > 0
    <3>1. Survives(b, plan, d)
      BY <2>1, <2>2, <2>6 DEF Survives
    <3>2. d \in All(c)
      BY <3>1, AcceptedEntries
    <3>3. d \in S
      BY <1>16, <2>3, <3>1, <3>2 DEF Shares
    <3>4. h[d] \in E /\ d = AfterTrade(plan, h[d]) /\ h[d] # m
      BY <1>20, <1>23, <1>27, <3>3
    <3>5. PICK n : n = h[d]
      OBVIOUS
    <3>6. n \in All(b) /\ n.id = d.id
      BY <1>6, <3>4, <3>5 DEF SplitsInto
    <3>7. PICK p, s, x, i : Place(b, p, s, x, i) /\ m = b[p][s].levels[x][i]
      BY <1>2, <2>1, AllArePlaced
    <3>8. PICK q, t, y, j : Place(b, q, t, y, j) /\ n = b[q][t].levels[y][j]
      BY <1>2, <3>6, AllArePlaced
    <3>9. b[p][s].levels[x][i].id = b[q][t].levels[y][j].id
      BY <2>3, <3>6, <3>7, <3>8
    <3>10. p = q /\ s = t /\ x = y /\ i = j
      BY <1>2, <3>7, <3>8, <3>9, IdHasOnePlace
    <3>11. QED
      BY <3>4, <3>5, <3>7, <3>8, <3>10
  <2>7. QED
    BY <2>3, <2>4, <2>5, <2>6
<1>28. SumFunction(left) = SumFunction(old)
  BY <1>11, <1>20, <1>24, <1>25, <1>26, <1>27, SumMaps
<1>29. PICK r : r = Resting(o, plan)
  OBVIOUS
<1>30. ~Survives(b, plan, r)
  <2> SUFFICES ASSUME Survives(b, plan, r) PROVE FALSE
    OBVIOUS
  <2>1. PICK m \in All(b) : r = AfterTrade(plan, m)
    BY DEF Survives
  <2>2. m.id = r.id
    BY <1>1, <2>1, ReservationSplits DEF SplitsInto
  <2>3. r.id = o.id
    BY <1>29 DEF Resting
  <2>4. PICK p, s, x, i : Place(b, p, s, x, i) /\ m = b[p][s].levels[x][i]
    BY <1>2, <2>1, AllArePlaced
  <2>5. Entry(subs, m, p, s, x)
    BY <1>2, <2>4 DEF BookOk, QueueOk, Place
  <2>6. QED
    BY <2>2, <2>3, <2>5 DEF Entry, Rested
<1>31. \A e : e \in All(c) <=> Survives(b, plan, e) \/ (LeavesRest(o, plan) /\ e = r)
  BY <1>29, AcceptedEntries
<1>32. CASE LeavesRest(o, plan) /\ PayAccount(o) = a
  <2>1. Account(r) = a /\ Reservation(r) = StillReserved(o, plan)
    BY <1>2, <1>3, <1>29, <1>32, RestShare
  <2>2. Shares(c, a) = S \cup {r} /\ r \notin S
    BY <1>16, <1>30, <1>31, <1>32, <2>1 DEF Shares
  <2>3. Extends(next, old, r)
    BY <1>18, <1>20, <2>2 DEF Extends
  <2>4. SumFunction(next) = SumFunction(old) + next[r]
    BY <1>18, <1>20, <2>3, SumExtends
  <2>5. next[r] = StillReserved(o, plan)
    BY <1>18, <2>1, <2>2
  <2>6. StillReserved(o, plan) \in Int
    BY <1>2, <1>3, AmountsType
  <2>7. SumFunction(next) = SumFunction(whole) - SumFunction(given) + StillReserved(o, plan)
    BY <1>14, <1>15, <1>28, <2>4, <2>5, <2>6
  <2>8. QED
    BY <1>7, <1>10, <1>12, <1>15, <1>17, <1>32, <2>7
<1>33. CASE ~(LeavesRest(o, plan) /\ PayAccount(o) = a)
  <2>1. Shares(c, a) = S
    <3>1. LeavesRest(o, plan) => Account(r) # a
      BY <1>2, <1>3, <1>29, <1>33, RestShare
    <3>2. QED
      BY <1>16, <1>31, <3>1 DEF Shares
  <2>2. next = old
    BY <1>17, <1>19, <2>1 DEF Share
  <2>3. SumFunction(next) = SumFunction(whole) - SumFunction(given) + 0
    BY <1>14, <1>15, <1>28, <2>2
  <2>4. QED
    BY <1>7, <1>10, <1>12, <1>15, <1>17, <1>33, <2>3
<1>34. QED
  BY <1>32, <1>33

-----------------------------------------------------------------------------
(* What a settlement takes from the locked amounts.                         *)

\* The maker of a planned trade rests on the side the order trades with.
MakerOf(b, o, side, t) ==
    /\ t \in TradeType /\ FairTrade(o, t)
    /\ t.maker \in Entries(side) /\ t.maker \in All(b)
    /\ t.maker.pair = o.pair /\ (IsBuy(t.maker) <=> ~IsBuy(o))

\* The maker of a trade is on the book.
LEMMA MakersRest ==
    ASSUME NEW b, NEW subs, NEW cans, NEW o, NEW side, NEW plan, Plans(b, subs, cans, o, side, plan),
           NEW k \in DOMAIN plan.trades
    PROVE  MakerOf(b, o, side, plan.trades[k])
<1>1. /\ side \in SideType /\ o.pair \in Pairs /\ plan \in PlanType
      /\ Planned(o, Makers(o, side), Len(Makers(o, side)), plan)
  BY PlanFacts
<1>2. /\ o \in Orders /\ b \in TypedBooks /\ BookOk(b, subs, cans) /\ side = b[o.pair][Opposite(o)] /\ plan.ok
  BY DEF Plans
<1>3. PICK at : Visits(o, side, at)
  BY <1>1, MakersAreVisited
<1>4. PICK n \in Nat : n = Len(Makers(o, side))
  BY <1>3 DEF Visits
<1>5. Sourced(Makers(o, side), n, plan) /\ FairTrade(o, plan.trades[k])
  BY <1>1, <1>2, <1>4 DEF Planned
<1>6. PICK j \in 1..n : plan.trades[k].maker = Makers(o, side)[j]
  BY <1>5 DEF Sourced
<1>7. Makers(o, side)[j] = side.levels[at[j][1]][at[j][2]] /\ at[j] \in Places(o, side)
  BY <1>3, <1>4 DEF Visits
<1>8. IsPlace(o, side, at[j])
  BY <1>1, <1>7, PlacesAre
<1>9. PICK y, h : y = at[j][1] /\ h = at[j][2] /\ y \in Prices /\ h \in DOMAIN side.levels[y]
  BY <1>8 DEF IsPlace
<1>10. Opposite(o) \in Sides
  BY <1>2, OppositeSide
<1>11. Place(b, o.pair, Opposite(o), y, h)
  BY <1>1, <1>2, <1>9, <1>10 DEF Place
<1>12. PICK m : m = plan.trades[k].maker
  BY Zenon
<1>13. m = side.levels[y][h] /\ m = b[o.pair][Opposite(o)].levels[y][h]
  BY <1>2, <1>6, <1>7, <1>9, <1>12
<1>14. m \in All(b)
  BY <1>2, <1>11, <1>13, AllArePlaced
<1>15. m \in Entries(side)
  BY <1>1, <1>9, <1>13, EntriesAre
<1>16. Entry(subs, m, o.pair, Opposite(o), y)
  BY <1>1, <1>2, <1>9, <1>10, <1>13 DEF BookOk, QueueOk
<1>17. m.pair = o.pair /\ (IsBuy(m) <=> ~IsBuy(o))
  BY <1>16 DEF Entry, Opposite, IsBuy
<1>18. plan.trades[k] \in TradeType
  BY <1>1 DEF PlanType
<1>19. QED
  BY <1>5, <1>12, <1>14, <1>15, <1>17, <1>18 DEF MakerOf

\* A settled trade takes the taker's part from the taker's reservation and
\* the maker's part from the maker's.
LEMMA SettleTakes ==
    ASSUME NEW b, NEW o \in Orders, NEW side, NEW t, MakerOf(b, o, side, t), NEW res, NEW new,
           Settled(o, res, t, new), NEW a \in Accounts, res \in Candidate
    PROVE  /\ TakerPays(o, t) \in Int /\ MakerPays(o, t.maker, t.qty) \in Int
           /\ new.bal[a].locked = res.bal[a].locked - At(a, PayAccount(o), TakerPays(o, t))
                                                    - At(a, Account(t.maker), MakerPays(o, t.maker, t.qty))
<1>1. t \in TradeType /\ t.price = t.maker.price /\ t.maker.pair = o.pair /\ (IsBuy(t.maker) <=> ~IsBuy(o))
  BY DEF MakerOf, FairTrade
<1>2. PICK q \in Int, w \in Int : q = t.qty /\ w = Quote(t.price, t.qty)
  BY <1>1, PartyType
<1>3. PICK l \in Int : l = res.bal[a].locked
  BY DEF Candidate, Row
<1>4. new.bal[a].locked = l - At(a, PaysQuote(o, t), w) - At(a, PaysBase(o, t), q)
  BY <1>2, <1>3 DEF Settled
<1>5. CASE IsBuy(o)
  <2>1. PaysQuote(o, t) = PayAccount(o) /\ PaysBase(o, t) = Account(t.maker)
    BY <1>1, <1>5 DEF PaysQuote, PaysBase, PayAccount, Account, PayMint, Buyer, Seller, Base, QuoteMint
  <2>2. TakerPays(o, t) = w /\ MakerPays(o, t.maker, t.qty) = q
    BY <1>1, <1>2, <1>5 DEF TakerPays, MakerPays
  <2>3. QED
    BY <1>2, <1>3, <1>4, <2>1, <2>2
<1>6. CASE ~IsBuy(o)
  <2>1. PaysBase(o, t) = PayAccount(o) /\ PaysQuote(o, t) = Account(t.maker)
    BY <1>1, <1>6 DEF PaysQuote, PaysBase, PayAccount, Account, PayMint, Buyer, Seller, Base, QuoteMint
  <2>2. TakerPays(o, t) = q /\ MakerPays(o, t.maker, t.qty) = w
    BY <1>1, <1>2, <1>6 DEF TakerPays, MakerPays
  <2>3. At(a, PayAccount(o), q) \in Int /\ At(a, Account(t.maker), w) \in Int
    BY DEF At
  <2>4. l - At(a, Account(t.maker), w) - At(a, PayAccount(o), q)
        = l - At(a, PayAccount(o), q) - At(a, Account(t.maker), w)
    BY <2>3
  <2>5. QED
    BY <1>2, <1>3, <1>4, <2>1, <2>2, <2>4
<1>7. QED
  BY <1>5, <1>6

\* Settlement takes from each account's locked amount what its trades pay.
LEMMA SettlementTakes ==
    ASSUME NEW b, NEW subs, NEW cans, NEW o, NEW side, NEW plan, Plans(b, subs, cans, o, side, plan),
           SoundBooks(b), IsFiniteSet(All(b)), NEW base \in Candidate, NEW a \in Accounts
    PROVE  /\ UsedBy(o, plan) \in Int /\ SumFunction(Given(b, o, plan, a)) \in Int
           /\ SettleAll(o, base, plan.trades).bal[a].locked
              = base.bal[a].locked - At(a, PayAccount(o), UsedBy(o, plan)) - SumFunction(Given(b, o, plan, a))
<1>1. /\ side \in SideType /\ o.pair \in Pairs /\ plan \in PlanType
      /\ Planned(o, Makers(o, side), Len(Makers(o, side)), plan)
  BY PlanFacts
<1>2. /\ o \in Orders /\ b \in TypedBooks /\ plan = PlanOrder(o, side) /\ plan.ok /\ Distinct(plan)
  BY <1>1 DEF Plans, Planned
<1>3. PICK ts \in Seq(TradeType) : ts = plan.trades
  BY <1>1 DEF PlanType
<1>4. PICK n \in Nat : n = Len(ts) /\ DOMAIN ts = 1..n
  OBVIOUS
<1>5. PICK f : SettleRun(o, base, ts, f) /\ SettleAll(o, base, ts) = f[n]
  BY <1>2, <1>4, SettleRuns
<1>6. f \in [0..n -> Candidate] /\ f[0] = base /\ \A k \in 1..n : f[k] = SettleTrade(o, f[k - 1], ts[k])
  BY <1>4, <1>5 DEF SettleRun
<1>7. PICK u : Paying(o, plan, u)
  <2>1. Makers(o, side) \in Seq(EntryType)
    BY <1>1, MakersAreVisited DEF Visits
  <2>2. QED
    BY <1>2, <2>1, PlanIsSummed DEF Summed
<1>8. u \in [0..n -> Int] /\ u[0] = 0 /\ u[n] = UsedBy(o, plan) /\ \A k \in 1..n : u[k] = u[k - 1] + TakerPays(o, ts[k])
  BY <1>3, <1>4, <1>7 DEF Paying
<1>9. PICK E : E = Shares(b, a)
  OBVIOUS
<1>10. IsFiniteSet(E)
  BY <1>2, <1>9, ShareType
<1>11. PICK mk : mk = [k \in 1..n |-> ts[k].maker]
  OBVIOUS
<1>12. PICK v : v = [k \in 1..n |-> MakerPays(o, ts[k].maker, ts[k].qty)]
  OBVIOUS
<1>13. ASSUME NEW k \in 1..n
       PROVE  /\ MakerOf(b, o, side, ts[k]) /\ mk[k] = ts[k].maker /\ v[k] = MakerPays(o, mk[k], ts[k].qty)
              /\ (mk[k] \in E <=> Account(mk[k]) = a)
              /\ TakerPays(o, ts[k]) \in Int /\ v[k] \in Int
              /\ f[k].bal[a].locked = f[k - 1].bal[a].locked - At(a, PayAccount(o), TakerPays(o, ts[k]))
                                                             - (IF mk[k] \in E THEN v[k] ELSE 0)
  <2>1. MakerOf(b, o, side, ts[k])
    BY <1>3, <1>4, MakersRest
  <2>2. mk[k] = ts[k].maker /\ v[k] = MakerPays(o, mk[k], ts[k].qty)
    BY <1>11, <1>12
  <2>3. mk[k] \in E <=> Account(mk[k]) = a
    BY <1>9, <2>1, <2>2 DEF MakerOf, Shares
  <2>4. k - 1 \in 0..n
    OBVIOUS
  <2>5. PICK r \in Candidate : r = f[k - 1]
    BY <1>6, <2>4
  <2>6. Settled(o, r, ts[k], f[k])
    BY <1>2, <1>4, <1>6, <2>5, SettleOne
  <2>7. /\ TakerPays(o, ts[k]) \in Int /\ MakerPays(o, ts[k].maker, ts[k].qty) \in Int
        /\ f[k].bal[a].locked = r.bal[a].locked - At(a, PayAccount(o), TakerPays(o, ts[k]))
                                                - At(a, Account(ts[k].maker), MakerPays(o, ts[k].maker, ts[k].qty))
    <3>1. PICK t : t = ts[k]
      OBVIOUS
    <3>2. PICK d : d = f[k]
      OBVIOUS
    <3>3. MakerOf(b, o, side, t) /\ Settled(o, r, t, d)
      BY <2>1, <2>6, <3>1, <3>2
    <3>4. /\ TakerPays(o, t) \in Int /\ MakerPays(o, t.maker, t.qty) \in Int
          /\ d.bal[a].locked = r.bal[a].locked - At(a, PayAccount(o), TakerPays(o, t))
                                               - At(a, Account(t.maker), MakerPays(o, t.maker, t.qty))
      BY <1>2, <3>3, SettleTakes
    <3>5. QED
      BY <3>1, <3>2, <3>4
  <2>8. At(a, Account(ts[k].maker), MakerPays(o, ts[k].maker, ts[k].qty)) = IF mk[k] \in E THEN v[k] ELSE 0
    BY <2>2, <2>3 DEF At
  <2>9. QED
    BY <2>1, <2>2, <2>3, <2>5, <2>7, <2>8
<1>14. PICK L : L = [k \in 0..n |-> f[k].bal[a].locked]
  OBVIOUS
<1>15. L \in [0..n -> Int] /\ \A k \in 0..n : L[k] = f[k].bal[a].locked
  BY <1>6, <1>14 DEF Candidate, Row
<1>16. PICK P : P = [k \in 0..n |-> At(a, PayAccount(o), u[k])]
  OBVIOUS
<1>17. P \in [0..n -> Int] /\ P[0] = 0 /\ \A k \in 0..n : P[k] = At(a, PayAccount(o), u[k])
  BY <1>8, <1>16 DEF At
<1>18. PICK w : w = [k \in 0..n |-> L[0] - L[k] - P[k]]
  OBVIOUS
<1>19. 0 \in 0..n /\ n \in 0..n
  OBVIOUS
<1>20. w \in [0..n -> Int] /\ w[0] = 0 /\ \A k \in 0..n : w[k] = L[0] - L[k] - P[k]
  <2>1. \A k \in 0..n : L[0] - L[k] - P[k] \in Int
    BY <1>15, <1>17, <1>19
  <2>2. L[0] - L[0] - P[0] = 0
    BY <1>15, <1>17, <1>19
  <2>3. QED
    BY <1>18, <1>19, <2>1, <2>2
<1>21. ASSUME NEW k \in 1..n PROVE w[k] = w[k - 1] + (IF mk[k] \in E THEN v[k] ELSE 0)
  <2>1. k \in 0..n /\ k - 1 \in 0..n
    OBVIOUS
  <2>2. PICK x \in Int : x = IF mk[k] \in E THEN v[k] ELSE 0
    <3>1. v[k] \in Int
      BY <1>13, Zenon
    <3>2. QED
      BY <3>1
  <2>3. PICK y \in Int : y = At(a, PayAccount(o), TakerPays(o, ts[k]))
    BY <1>13 DEF At
  <2>4. L[k] = L[k - 1] - y - x
    BY <1>13, <1>15, <2>1, <2>2, <2>3
  <2>5. P[k] = P[k - 1] + y
    <3>1. PICK t \in Int : t = TakerPays(o, ts[k])
      BY <1>13
    <3>2. PICK u1 \in Int, u2 \in Int : u1 = u[k - 1] /\ u2 = u[k]
      BY <1>8, <2>1
    <3>3. u2 = u1 + t
      BY <1>8, <3>1, <3>2
    <3>4. P[k] = At(a, PayAccount(o), u2) /\ P[k - 1] = At(a, PayAccount(o), u1) /\ y = At(a, PayAccount(o), t)
      BY <1>17, <2>1, <2>3, <3>1, <3>2
    <3>5. CASE a = PayAccount(o)
      BY <3>3, <3>4, <3>5 DEF At
    <3>6. CASE a # PayAccount(o)
      BY <3>4, <3>6 DEF At
    <3>7. QED
      BY <3>5, <3>6
  <2>6. L[k] \in Int /\ L[k - 1] \in Int /\ P[k] \in Int /\ P[k - 1] \in Int /\ L[0] \in Int
    BY <1>15, <1>17, <1>19, <2>1
  <2>7. w[k] = L[0] - L[k] - P[k] /\ w[k - 1] = L[0] - L[k - 1] - P[k - 1]
    BY <1>20, <2>1
  <2>8. w[k] = w[k - 1] + x
    <3>1. PICK l0 \in Int, l1 \in Int, l2 \in Int, p1 \in Int, p2 \in Int :
             l0 = L[0] /\ l1 = L[k - 1] /\ l2 = L[k] /\ p1 = P[k - 1] /\ p2 = P[k]
      BY <2>6
    <3>2. l0 - l2 - p2 = (l0 - l1 - p1) + x
      <4>1. l2 = l1 - y - x /\ p2 = p1 + y
        BY <2>4, <2>5, <3>1, Zenon
      <4>2. QED
        BY <4>1
    <3>3. QED
      BY <2>7, <3>1, <3>2
  <2>9. QED
    BY <2>2, <2>8
<1>22. Runs(n, mk, v, E, w)
  BY <1>20, <1>21 DEF Runs
<1>23. PICK D : D = Given(b, o, plan, a)
  OBVIOUS
<1>24. \A e \in E : SplitsInto(o, plan, e) /\ e \in All(b)
  BY <1>9, ReservationSplits DEF Shares
<1>25. D \in [E -> Int] /\ \A e \in E : D[e] = MakerPays(o, e, Taken(plan, e))
  BY <1>9, <1>23, <1>24 DEF Given, SplitsInto
<1>26. ASSUME NEW j \in 1..n, mk[j] \in E PROVE D[mk[j]] = v[j]
  <2>1. PICK m : m = mk[j]
    OBVIOUS
  <2>2. m = ts[j].maker /\ m \in Entries(side) /\ j \in DOMAIN plan.trades
    BY <1>3, <1>4, <1>13, <2>1 DEF MakerOf
  <2>3. TakesFrom(plan, m) /\ Traded(plan, m)
    BY <1>3, <2>2, TakenIs DEF Traded
  <2>4. PICK i \in DOMAIN plan.trades : plan.trades[i].maker = m /\ Taken(plan, m) = plan.trades[i].qty
    BY <2>3 DEF TakesFrom
  <2>5. i = j
    BY <1>2, <1>3, <2>2, <2>4 DEF Distinct
  <2>6. QED
    BY <1>3, <1>13, <1>25, <1>26, <2>1, <2>4, <2>5
<1>27. ASSUME NEW e \in E, \A j \in 1..n : mk[j] # e PROVE D[e] = 0
  <2>1. Taken(plan, e) = 0
    <3>1. CASE ~Traded(plan, e)
      BY <3>1 DEF Taken
    <3>2. CASE Traded(plan, e)
      <4>1. PICK j \in 1..n : ts[j].maker.id = e.id
        BY <1>3, <1>4, <3>2 DEF Traded
      <4>2. ts[j].maker \in All(b) /\ e \in All(b) /\ ts[j].maker # e
        BY <1>13, <1>24, <1>27 DEF MakerOf
      <4>3. PICK m : m = ts[j].maker
        OBVIOUS
      <4>4. PICK p, s, x, i : Place(b, p, s, x, i) /\ m = b[p][s].levels[x][i]
        BY <1>2, <4>2, <4>3, AllArePlaced
      <4>5. PICK q, t, y, h : Place(b, q, t, y, h) /\ e = b[q][t].levels[y][h]
        BY <1>2, <4>2, AllArePlaced
      <4>6. b[p][s].levels[x][i].id = b[q][t].levels[y][h].id
        BY <4>1, <4>3, <4>4, <4>5
      <4>7. BookOk(b, subs, cans)
        BY DEF Plans
      <4>8. p = q /\ s = t /\ x = y /\ i = h
        BY <4>4, <4>5, <4>6, <4>7, IdHasOnePlace
      <4>9. QED
        BY <4>2, <4>3, <4>4, <4>5, <4>8
    <3>3. QED
      BY <3>1, <3>2
  <2>2. e.price \in Int
    BY <1>2, <1>24, AllTyped, ReservationType
  <2>3. QED
    BY <1>25, <2>1, <2>2, NothingQuoted DEF MakerPays
<1>28. Spread(n, mk, v, E, D)
  BY <1>25, <1>26, <1>27 DEF Spread
<1>29. Once(n, mk)
  <2>1. \A i, j \in 1..n : ts[i].maker.id = ts[j].maker.id => i = j
    BY <1>2, <1>3, <1>4 DEF Distinct
  <2>2. \A i \in 1..n : mk[i] = ts[i].maker
    BY <1>13
  <2>3. QED
    BY <2>1, <2>2 DEF Once
<1>30. v \in [1..n -> Int]
  BY <1>12, <1>13
<1>31. SumFunction(D) = w[n]
  BY <1>10, <1>22, <1>28, <1>29, <1>30, SumAlong
<1>32. w[n] = L[0] - L[n] - P[n] /\ w[n] \in Int /\ L[0] \in Int /\ L[n] \in Int /\ P[n] \in Int
  BY <1>15, <1>17, <1>19, <1>20
<1>33. L[n] = L[0] - P[n] - w[n]
  BY <1>32
<1>34. L[n] = f[n].bal[a].locked /\ L[0] = base.bal[a].locked /\ P[n] = At(a, PayAccount(o), UsedBy(o, plan))
  BY <1>6, <1>8, <1>15, <1>17, <1>19
<1>35. UsedBy(o, plan) \in Int
  BY <1>8, <1>19
<1>36. QED
  BY <1>3, <1>5, <1>23, <1>31, <1>32, <1>33, <1>34, <1>35

-----------------------------------------------------------------------------
(* Locked is reserved: submissions.                                         *)

\* What a submission leaves locked.
LEMMA SubmissionLocks ==
    ASSUME NEW b, NEW subs, NEW cans, NEW o, NEW side, NEW plan, Plans(b, subs, cans, o, side, plan),
           SoundBooks(b), IsFiniteSet(All(b)), NEW m \in [Accounts -> Row], NEW a \in Accounts
    PROVE  /\ SumFunction(Given(b, o, plan, a)) \in Int
           /\ Submission(o, b[o.pair], m).bal[a].locked
              = m[a].locked + At(a, PayAccount(o), StillReserved(o, plan)) - SumFunction(Given(b, o, plan, a))
<1>1. o \in Orders /\ plan \in PlanType /\ plan = PlanOrder(o, b[o.pair][Opposite(o)])
  BY PlanFacts DEF Plans
<1>2. PICK account \in Accounts, reserved \in Int, refund \in Int, still \in Int :
         account = PayAccount(o) /\ reserved = Reserved(o) /\ refund = Refund(o, plan) /\ still = StillReserved(o, plan)
  BY <1>1, AmountsType
<1>3. PICK start \in Candidate : start = [ok |-> plan.ok, bal |-> m] /\ start.bal = m
  <2>1. plan.ok \in BOOLEAN
    BY <1>1 DEF PlanType
  <2>2. PICK start \in Candidate : start = [ok |-> plan.ok, bal |-> m]
    BY <2>1 DEF Candidate
  <2>3. QED
    BY <2>2
<1>4. PICK locked : locked = Lock(start, account, reserved)
  OBVIOUS
<1>5. Reserves(start, locked, account, reserved)
  BY <1>4, LockReserves
<1>6. locked \in Candidate /\ locked.bal[a].locked = m[a].locked + At(a, account, reserved) /\ m[a].locked \in Int
  BY <1>3, <1>5 DEF Reserves, Effect, Row
<1>7. PICK settled : settled = SettleAll(o, locked, plan.trades)
  OBVIOUS
<1>8. PICK used : used = UsedBy(o, plan)
  OBVIOUS
<1>9. PICK given : given = SumFunction(Given(b, o, plan, a))
  OBVIOUS
<1>10. /\ used \in Int /\ given \in Int
       /\ settled.bal[a].locked = locked.bal[a].locked - At(a, account, used) - given
  BY <1>2, <1>6, <1>7, <1>8, <1>9, SettlementTakes
<1>11. settled \in Candidate
  <2>1. plan.trades \in Seq(TradeType)
    BY <1>1 DEF PlanType
  <2>2. QED
    BY <1>1, <1>6, <1>7, <2>1, SettleTotals
<1>12. PICK freed : freed = Freed(o, plan, settled)
  OBVIOUS
<1>13. freed.bal[a].locked = settled.bal[a].locked - At(a, account, refund)
  <2>1. settled.bal[a].locked \in Int
    BY <1>11 DEF Candidate, Row
  <2>2. CASE refund = 0
    BY <1>2, <1>12, <2>1, <2>2 DEF Freed, At
  <2>3. CASE refund # 0
    <3>1. freed = Unlock(settled, account, refund)
      BY <1>2, <1>12, <2>3 DEF Freed
    <3>2. PICK minus \in Int : minus = -refund
      OBVIOUS
    <3>3. Reserves(settled, freed, account, minus)
      BY <1>11, <3>1, <3>2, LockReserves
    <3>4. freed.bal[a].locked = settled.bal[a].locked + At(a, account, minus)
      BY <3>3 DEF Reserves, Effect
    <3>5. QED
      BY <2>1, <3>2, <3>4 DEF At
  <2>4. QED
    BY <2>2, <2>3
<1>14. refund = reserved - used - still
  BY <1>2, <1>8 DEF Refund, UsedBy
<1>15. freed.bal[a].locked = m[a].locked + At(a, account, still) - given
  <2>1. PICK l \in Int : l = m[a].locked
    BY <1>6
  <2>2. CASE a = account
    <3>1. freed.bal[a].locked = ((l + reserved) - used - given) - refund
      BY <1>6, <1>10, <1>13, <2>1, <2>2 DEF At
    <3>2. QED
      BY <1>10, <1>14, <2>1, <2>2, <3>1 DEF At
  <2>3. CASE a # account
    <3>1. freed.bal[a].locked = ((l + 0) - 0 - given) - 0
      BY <1>6, <1>10, <1>13, <2>1, <2>3 DEF At
    <3>2. QED
      BY <1>10, <2>1, <2>3, <3>1 DEF At
  <2>4. QED
    BY <2>2, <2>3
<1>16. locked = Locked(o, plan, m)
  BY <1>2, <1>3, <1>4 DEF Locked
<1>17. Submission(o, b[o.pair], m).bal = freed.bal
  <2>1. PICK book : book = b[o.pair]
    OBVIOUS
  <2>2. plan = PlanOrder(o, book[Opposite(o)])
    BY <1>1, <2>1
  <2>3. Submission(o, book, m).bal = Freed(o, plan, SettleAll(o, Locked(o, plan, m), plan.trades)).bal
    BY <2>2, SubmissionParts, Zenon
  <2>4. QED
    BY <1>7, <1>12, <1>16, <2>1, <2>3
<1>18. QED
  BY <1>2, <1>9, <1>10, <1>15, <1>17

\* Reserved withdrawals, and the shares of an account's locked amount.
Reserving(ws, a) == {w \in ws : w.status = "reserved" /\ <<w.funds.user, w.funds.asset>> = a}
Held(ws, a) == [r \in Reserving(ws, a) |-> r.funds.amount]
SharedAt(m, man, b, ws, a) ==
    m[a].locked = man[a] + SumFunction(Share(b, a)) + SumFunction(Held(ws, a))
LockedOk == IsFiniteSet(All(books)) /\ \A a \in Accounts : SharedAt(bal, manual, books, withdrawals, a)

\* LockedOk is LockedIsReserved written with named sums.
LEMMA LockedAre == LockedOk => LockedIsReserved
BY DEF LockedOk, LockedIsReserved, SharedAt, Share, Shares, All, AllEntries, Account, Held, Reserving

\* The reserving withdrawals of an account can be summed.
LEMMA HeldType ==
    ASSUME NEW ws, ws \subseteq Withdrawal, IsFiniteSet(ws), NEW a
    PROVE  /\ Numeric(Held(ws, a)) /\ SumFunction(Held(ws, a)) \in Int
           /\ DOMAIN Held(ws, a) = Reserving(ws, a)
           /\ \A r \in Reserving(ws, a) : Held(ws, a)[r] = r.funds.amount
<1>1. PICK f : f = Held(ws, a)
  OBVIOUS
<1>2. PICK S : S = Reserving(ws, a)
  OBVIOUS
<1>3. S \subseteq ws /\ IsFiniteSet(S)
  BY <1>2, FS_Subset DEF Reserving
<1>4. ASSUME NEW r \in S PROVE r.funds.amount \in Int
  <2>1. r.funds \in Withdrawals
    BY <1>3 DEF Withdrawal
  <2>2. QED
    BY <2>1, CreditType
<1>5. DOMAIN f = S /\ f \in [S -> Int] /\ \A r \in S : f[r] = r.funds.amount
  BY <1>1, <1>2, <1>4 DEF Held
<1>6. Numeric(f)
  BY <1>3, <1>5 DEF Numeric
<1>7. QED
  BY <1>1, <1>2, <1>5, <1>6, SumType

\* The summands of a locked amount are integers.
LEMMA SharesTyped ==
    ASSUME CoreType, IsFiniteSet(All(books)), NEW a \in Accounts
    PROVE  /\ bal[a].locked \in Int /\ manual[a] \in Int
           /\ SumFunction(Share(books, a)) \in Int /\ SumFunction(Held(withdrawals, a)) \in Int
<1>1. bal[a].locked \in Int /\ manual[a] \in Int
  BY DEF CoreType, Row
<1>2. QED
  BY <1>1, ShareType, HeldType DEF CoreType

\* A submission keeps locked amounts equal to the reservations.
LEMMA SubmitLocked ==
    ASSUME CoreType, BookInv, SoundBooks(books), LockedOk, NEW o \in Orders, Submit(o)
    PROVE  LockedOk'
<1>1. CASE UNCHANGED <<books, bal, fees>>
  <2>1. UNCHANGED <<withdrawals, manual>>
    BY DEF Submit, vars
  <2>2. QED
    BY <1>1, <2>1 DEF LockedOk
<1>2. CASE ~ UNCHANGED <<books, bal, fees>>
  <2>1. PICK side, plan : /\ Accepts(books, books', submissions, cancellations, o, side, plan)
                          /\ bal' = Submission(o, books[o.pair], bal).bal
                          /\ \A s \in submissions : s.id # o.id
                          /\ UNCHANGED <<withdrawals, manual>>
    BY <1>2, SubmitAccepts
  <2>2. /\ Plans(books, submissions, cancellations, o, side, plan) /\ Accounted(o, plan)
    BY <2>1 DEF Accepts
  <2>3. IsFiniteSet(All(books)) /\ IsFiniteSet(All(books'))
    BY <2>1, AcceptedFinite DEF LockedOk
  <2>4. plan \in PlanType
    BY <2>2, PlanFacts
  <2>5. PICK still \in Int : still = StillReserved(o, plan)
    BY <2>4, AmountsType
  <2>6. ~LeavesRest(o, plan) => still = 0
    <3>1. CASE ~IsLimit(o)
      BY <2>5, <3>1 DEF StillReserved
    <3>2. CASE IsLimit(o) /\ ~(plan.remaining > 0)
      <4>1. plan.remaining \in Int /\ o.price \in Int
        BY <2>4, OrderType DEF PlanType
      <4>2. plan.remaining = 0
        BY <2>2, <3>2, <4>1 DEF Accounted, IsBudget
      <4>3. QED
        BY <2>5, <3>2, <4>1, <4>2, NothingQuoted DEF StillReserved
    <3>3. QED
      BY <3>1, <3>2 DEF LeavesRest
  <2>7. ASSUME NEW a \in Accounts PROVE SharedAt(bal', manual', books', withdrawals', a)
    <3>1. PICK given \in Int : given = SumFunction(Given(books, o, plan, a))
      BY <2>2, <2>3, SubmissionLocks DEF CoreType
    <3>2. bal'[a].locked = bal[a].locked + At(a, PayAccount(o), still) - given
      BY <2>1, <2>2, <2>3, <2>5, <3>1, SubmissionLocks DEF CoreType
    <3>3. SumFunction(Share(books', a)) = SumFunction(Share(books, a)) - given
             + (IF LeavesRest(o, plan) /\ PayAccount(o) = a THEN still ELSE 0)
      BY <2>1, <2>3, <2>5, <3>1, AcceptedShares
    <3>4. PICK l \in Int, mn \in Int, sh \in Int, hd \in Int :
             /\ l = bal[a].locked /\ mn = manual[a] /\ sh = SumFunction(Share(books, a))
             /\ hd = SumFunction(Held(withdrawals, a))
      BY <2>3, SharesTyped
    <3>5. l = mn + sh + hd
      BY <3>4 DEF LockedOk, SharedAt
    <3>6. PICK x \in Int : x = At(a, PayAccount(o), still)
      BY DEF At
    <3>7. x = IF LeavesRest(o, plan) /\ PayAccount(o) = a THEN still ELSE 0
      BY <2>6, <3>6 DEF At
    <3>8. bal'[a].locked = l + x - given /\ SumFunction(Share(books', a)) = sh - given + x
      BY <3>2, <3>3, <3>4, <3>6, <3>7, Zenon
    <3>9. l + x - given = mn + (sh - given + x) + hd
      BY <3>5
    <3>10. withdrawals' = withdrawals /\ manual' = manual
      BY <2>1
    <3>11. bal'[a].locked = manual'[a] + SumFunction(Share(books', a)) + SumFunction(Held(withdrawals', a))
      BY <3>4, <3>8, <3>9, <3>10
    <3>12. QED
      BY <3>11, Zenon DEF SharedAt
  <2>8. QED
    BY <2>3, <2>7 DEF LockedOk
<1>3. QED
  BY <1>1, <1>2

-----------------------------------------------------------------------------
(* Locked is reserved: cancellations.                                       *)

\* A cancellation removes one entry and no other.
LEMMA CancelledEntries ==
    ASSUME CoreType, BookInv, NEW user, NEW pair \in Pairs, NEW s, NEW x, NEW i, NEW e,
           Cancelled(user, pair, s, x, i, e), books' \in TypedBooks
    PROVE  e \in All(books) /\ All(books') = All(books) \ {e}
<1>1. /\ s \in Sides /\ x \in Prices /\ i \in DOMAIN books[pair][s].levels[x] /\ e = books[pair][s].levels[x][i]
      /\ e \in EntryType /\ e.price = x /\ books' = [books EXCEPT ![pair][s] = RemoveOrder(@, e)]
      /\ Place(books, pair, s, x, i)
  BY DEF Cancelled, Place
<1>2. PICK side \in SideType : side = books[pair][s]
  BY <1>1 DEF CoreType, TypedBooks, TypedBook
<1>3. PICK new : new = RemoveOrder(side, e)
  OBVIOUS
<1>31. ASSUME NEW y \in Prices
       PROVE  Without(side, e, y, new)
  BY <1>1, <1>3, RemovedEntries
<1>4. books' = [books EXCEPT ![pair][s] = new]
  BY <1>1, <1>2, <1>3
<1>5. \A p \in Pairs, t \in Sides : books'[p][t] = IF p = pair /\ t = s THEN new ELSE books[p][t]
  BY <1>1, <1>4 DEF CoreType, TypedBooks, TypedBook
<1>6. books \in TypedBooks /\ BookOk(books, submissions, cancellations)
  BY DEF CoreType, BookInv
<1>7. e \in All(books)
  BY <1>1, <1>6, AllArePlaced
<1>8. PICK c : c = books'
  OBVIOUS
<1>9. c \in TypedBooks /\ \A p \in Pairs, t \in Sides : c[p][t] = IF p = pair /\ t = s THEN new ELSE books[p][t]
  BY <1>5, <1>8
<1>10. ASSUME NEW d, d \in All(c) PROVE d \in All(books) /\ d # e
  <2>1. PICK p, t, y, k : Place(c, p, t, y, k) /\ d = c[p][t].levels[y][k]
    BY <1>9, <1>10, AllArePlaced
  <2>2. p \in Pairs /\ t \in Sides /\ y \in Prices /\ k \in DOMAIN c[p][t].levels[y]
    BY <2>1 DEF Place
  <2>3. CASE p = pair /\ t = s
    <3>1. k \in DOMAIN new.levels[y] /\ d = new.levels[y][k]
      BY <1>9, <2>1, <2>2, <2>3
    <3>2. PICK j \in DOMAIN side.levels[y] : d = side.levels[y][j] /\ (y = e.price => side.levels[y][j].id # e.id)
      BY <1>31, <2>2, <3>1 DEF Without
    <3>3. Place(books, pair, s, y, j) /\ d = books[pair][s].levels[y][j]
      BY <1>1, <1>2, <2>2, <3>2 DEF Place
    <3>4. d \in All(books)
      BY <1>6, <3>3, AllArePlaced
    <3>5. d # e
      <4>1. CASE y = x
        BY <1>1, <3>2, <4>1
      <4>2. CASE y # x
        <5>1. Entry(submissions, d, pair, s, y)
          BY <1>1, <1>6, <2>2, <3>2, <3>3, <1>2 DEF BookOk, QueueOk
        <5>2. QED
          BY Zenon, <1>1, <4>2, <5>1 DEF Entry
      <4>3. QED
        BY <4>1, <4>2
    <3>6. QED
      BY <3>4, <3>5
  <2>4. CASE ~(p = pair /\ t = s)
    <3>1. Place(books, p, t, y, k) /\ d = books[p][t].levels[y][k]
      BY <1>9, <2>1, <2>2, <2>4 DEF Place
    <3>2. d \in All(books)
      BY <1>6, <3>1, AllArePlaced
    <3>3. ASSUME d = e PROVE FALSE
      <4>1. books[p][t].levels[y][k].id = books[pair][s].levels[x][i].id
        BY Zenon, <1>1, <3>1, <3>3
      <4>2. p = pair /\ t = s
        BY <1>1, <1>6, <3>1, <4>1, IdHasOnePlace
      <4>3. QED
        BY <2>4, <4>2
    <3>4. QED
      BY <3>2, <3>3
  <2>5. QED
    BY <2>3, <2>4
<1>11. ASSUME NEW d, d \in All(books), d # e PROVE d \in All(c)
  <2>1. PICK p, t, y, k : Place(books, p, t, y, k) /\ d = books[p][t].levels[y][k]
    BY <1>6, <1>11, AllArePlaced
  <2>2. p \in Pairs /\ t \in Sides /\ y \in Prices /\ k \in DOMAIN books[p][t].levels[y]
    BY <2>1 DEF Place
  <2>3. CASE p = pair /\ t = s
    <3>1. k \in DOMAIN side.levels[y] /\ d = side.levels[y][k]
      BY <1>2, <2>1, <2>2, <2>3
    <3>2. d.id # e.id
      <4>1. ASSUME d.id = e.id PROVE FALSE
        <5>1. books[p][t].levels[y][k].id = books[pair][s].levels[x][i].id
          BY Zenon, <1>1, <2>1, <4>1
        <5>2. y = x /\ k = i
          BY <1>1, <1>6, <2>1, <5>1, IdHasOnePlace
        <5>3. QED
          BY <1>1, <1>11, <2>1, <2>3, <5>2
      <4>2. QED
        BY <4>1
    <3>3. PICK j \in DOMAIN new.levels[y] : new.levels[y][j] = d
      BY <1>31, <2>2, <3>1, <3>2 DEF Without
    <3>4. Place(c, p, t, y, j) /\ d = c[p][t].levels[y][j]
      BY <1>9, <2>2, <2>3, <3>3 DEF Place
    <3>5. QED
      BY <1>9, <3>4, AllArePlaced
  <2>4. CASE ~(p = pair /\ t = s)
    <3>1. Place(c, p, t, y, k) /\ d = c[p][t].levels[y][k]
      BY <1>9, <2>1, <2>2, <2>4 DEF Place
    <3>2. QED
      BY <1>9, <3>1, AllArePlaced
  <2>5. QED
    BY <2>3, <2>4
<1>12. All(c) = All(books) \ {e}
  BY <1>10, <1>11
<1>13. QED
  BY <1>7, <1>8, <1>12

\* A cancellation frees exactly the reservation of its entry.
LEMMA CancelLocked ==
    ASSUME CoreType, CoreType', BookInv, LockedOk, NEW id, NEW user, NEW pair \in Pairs, Cancel(id, user, pair)
    PROVE  LockedOk'
<1>1. CASE UNCHANGED vars
  BY <1>1 DEF LockedOk, vars
<1>2. CASE ~ UNCHANGED vars
  <2>1. PICK s, x, i, e : Cancelled(user, pair, s, x, i, e)
    BY <1>2, CancelTakes
  <2>2. PICK c : c = books'
    OBVIOUS
  <2>3. c \in TypedBooks
    BY <2>2 DEF CoreType
  <2>4. e \in All(books) /\ All(c) = All(books) \ {e} /\ books \in TypedBooks
    BY <2>1, <2>2, <2>3, CancelledEntries DEF CoreType
  <2>5. IsFiniteSet(All(books)) /\ IsFiniteSet(All(c))
    BY <2>4, FS_RemoveElement DEF LockedOk
  <2>6. PICK freed : freed = Unlock(Unchecked, <<user, PayMint(e)>>, Reservation(e))
    OBVIOUS
  <2>7. PICK value \in Int : value = Reservation(e)
    BY <2>1, ReservationType DEF Cancelled
  <2>8. PICK account \in Accounts : account = <<user, PayMint(e)>> /\ account = Account(e)
    BY <2>1, ReservationType DEF Cancelled, Account
  <2>9. PICK minus \in Int : minus = -value
    OBVIOUS
  <2>10. Reserves(Unchecked, freed, account, minus)
    BY Zenon, <2>6, <2>7, <2>8, <2>9, UncheckedType, LockReserves
  <2>11. bal' = freed.bal /\ UNCHANGED <<withdrawals, manual>>
    BY <2>1, <2>6 DEF Cancelled
  <2>12. ASSUME NEW a \in Accounts PROVE SharedAt(bal', manual', books', withdrawals', a)
    <3>1. PICK l \in Int, mn \in Int, sh \in Int, hd \in Int :
             /\ l = bal[a].locked /\ mn = manual[a] /\ sh = SumFunction(Share(books, a))
             /\ hd = SumFunction(Held(withdrawals, a))
      BY <2>5, SharesTyped
    <3>2. l = mn + sh + hd
      BY <3>1 DEF LockedOk, SharedAt
    <3>3. bal'[a].locked = l + At(a, account, minus)
      BY <2>10, <2>11, <3>1, UncheckedType DEF Reserves, Effect
    <3>4. PICK f : f = Share(books, a)
      OBVIOUS
    <3>5. PICK g : g = Share(c, a)
      OBVIOUS
    <3>6. Numeric(f) /\ DOMAIN f = Shares(books, a) /\ \A d \in Shares(books, a) : f[d] = Reservation(d)
      BY <2>4, <2>5, <3>4, ShareType
    <3>7. Numeric(g) /\ DOMAIN g = Shares(c, a) /\ (\A d \in Shares(c, a) : g[d] = Reservation(d)) /\ SumFunction(g) \in Int
      BY <2>3, <2>5, <3>5, ShareType
    <3>8. PICK ng \in Int : ng = SumFunction(g)
      BY <3>7
    <3>9. sh = ng + At(a, account, value)
      <4>1. CASE a = account
        <5>1. Shares(books, a) = Shares(c, a) \cup {e} /\ e \notin Shares(c, a)
          BY <2>4, <2>8, <4>1 DEF Shares
        <5>2. Extends(f, g, e)
          BY <3>6, <3>7, <5>1 DEF Extends
        <5>3. SumFunction(f) = SumFunction(g) + f[e]
          BY <3>6, <3>7, <5>2, SumExtends
        <5>4. f[e] = value
          BY <2>7, <3>6, <5>1
        <5>5. QED
          BY <3>1, <3>4, <3>8, <4>1, <5>3, <5>4 DEF At
      <4>2. CASE a # account
        <5>1. Shares(books, a) = Shares(c, a)
          BY <2>4, <2>8, <4>2 DEF Shares
        <5>2. g = f
          BY <3>4, <3>5, <5>1 DEF Share
        <5>3. QED
          BY <3>1, <3>4, <3>8, <4>2, <5>2 DEF At
      <4>3. QED
        BY <4>1, <4>2
    <3>10. l + At(a, account, minus) = mn + ng + hd
      <4>1. CASE a = account
        <5>1. sh = ng + value /\ At(a, account, minus) = minus
          BY <3>9, <4>1 DEF At
        <5>2. QED
          BY <2>9, <3>2, <5>1
      <4>2. CASE a # account
        <5>1. sh = ng + 0 /\ At(a, account, minus) = 0
          BY <3>9, <4>2 DEF At
        <5>2. QED
          BY <3>2, <5>1
      <4>3. QED
        BY <4>1, <4>2
    <3>11. withdrawals' = withdrawals /\ manual' = manual
      BY <2>11
    <3>12. bal'[a].locked = manual'[a] + SumFunction(Share(books', a)) + SumFunction(Held(withdrawals', a))
      BY <2>2, <3>1, <3>3, <3>5, <3>8, <3>10, <3>11
    <3>13. QED
      BY <3>12, Zenon DEF SharedAt
  <2>13. QED
    BY <2>2, <2>5, <2>12 DEF LockedOk
<1>3. QED
  BY <1>1, <1>2

-----------------------------------------------------------------------------
(* Locked is reserved: updates, locks and withdrawals.                      *)

\* Deposits and balance commands leave every locked amount alone.
LEMMA AvailableOnly ==
    ASSUME CoreType, LockedOk, NEW account \in Accounts, NEW value \in Int, NEW next,
           next = Move(Unchecked, account, value, 0), bal' = next.bal \/ bal' = bal,
           UNCHANGED <<books, withdrawals, manual>>
    PROVE  LockedOk'
<1>1. ASSUME NEW a \in Accounts PROVE bal'[a].locked = bal[a].locked
  <2>1. Effect(Unchecked, next, account, value, 0)
    BY UncheckedType, MoveEffect
  <2>2. next.bal[a].locked = bal[a].locked + 0 /\ bal[a].locked \in Int
    BY <2>1, UncheckedType DEF Effect, At, CoreType, Row
  <2>3. QED
    BY <2>2
<1>2. \A a \in Accounts : SharedAt(bal', manual', books', withdrawals', a)
  BY <1>1 DEF LockedOk, SharedAt
<1>3. QED
  BY <1>2 DEF LockedOk

\* Lock and Unlock commands change the manual part only.
LEMMA ManualLocked ==
    ASSUME CoreType, LockedOk, NEW account \in Accounts, NEW value \in Int,
           LockBalance(account, value) \/ UnlockBalance(account, value)
    PROVE  LockedOk'
<1>1. PICK v \in Int : \E next : Locks(account, v, next)
  BY LockMoves
<1>11. PICK next : Locks(account, v, next)
  BY <1>1
<1>2. UNCHANGED <<books, withdrawals>>
  BY DEF LockBalance, UnlockBalance
<1>3. Effect(Unchecked, next, account, -v, v) /\ bal' = next.bal /\ manual' = [manual EXCEPT ![account] = @ + v]
  BY <1>11 DEF Locks, Reserves
<1>4. ASSUME NEW a \in Accounts PROVE SharedAt(bal', manual', books', withdrawals', a)
  <2>1. PICK l \in Int, mn \in Int, sh \in Int, hd \in Int :
           /\ l = bal[a].locked /\ mn = manual[a] /\ sh = SumFunction(Share(books, a))
           /\ hd = SumFunction(Held(withdrawals, a))
    BY SharesTyped DEF LockedOk
  <2>2. l = mn + sh + hd
    BY <2>1 DEF LockedOk, SharedAt
  <2>3. PICK x \in Int : x = At(a, account, v)
    BY DEF At
  <2>4. bal'[a].locked = l + x
    BY <1>3, <2>1, <2>3, UncheckedType DEF Effect
  <2>5. manual'[a] = mn + x
    <3>1. CASE a = account
      BY <1>3, <2>1, <2>3, <3>1 DEF At, CoreType
    <3>2. CASE a # account
      BY <1>3, <2>1, <2>3, <3>2 DEF At, CoreType
    <3>3. QED
      BY <3>1, <3>2
  <2>6. l + x = (mn + x) + sh + hd
    BY <2>2
  <2>7. bal'[a].locked = manual'[a] + SumFunction(Share(books', a)) + SumFunction(Held(withdrawals', a))
    BY <1>2, <2>1, <2>4, <2>5, <2>6
  <2>8. QED
    BY <2>7, Zenon DEF SharedAt
<1>5. QED
  BY <1>2, <1>4 DEF LockedOk

\* A withdrawal command changes the locked amount by what it reserves or
\* gives up.
LEMMA FundedLocks ==
    ASSUME CoreType, NEW w \in Withdrawals, NEW action \in {"reserve", "release", "complete"},
           NEW next, Funded(w, action, next), NEW a \in Accounts
    PROVE  next.bal[a].locked = bal[a].locked
              + At(a, <<w.user, w.asset>>, IF action = "reserve" THEN w.amount ELSE -w.amount)
<1>1. PICK account \in Accounts, v \in Int : account = <<w.user, w.asset>> /\ v = w.amount
  BY CreditType
<1>2. PICK minus \in Int : minus = -v
  OBVIOUS
<1>3. CASE action = "reserve"
  <2>1. Reserves(Unchecked, next, account, v)
    BY <1>1, <1>3, UncheckedType, LockReserves DEF Funded
  <2>2. QED
    BY <1>1, <1>3, <2>1, UncheckedType DEF Reserves, Effect
<1>4. CASE action = "release"
  <2>1. Reserves(Unchecked, next, account, minus)
    BY <1>1, <1>2, <1>4, UncheckedType, LockReserves DEF Funded
  <2>2. QED
    BY <1>1, <1>2, <1>4, <2>1, UncheckedType DEF Reserves, Effect
<1>5. CASE action = "complete"
  <2>1. Effect(Unchecked, next, account, 0, minus)
    BY <1>1, <1>2, <1>5, UncheckedType, MoveEffect DEF Funded
  <2>2. QED
    BY <1>1, <1>2, <1>5, <2>1, UncheckedType DEF Effect
<1>6. QED
  BY <1>3, <1>4, <1>5

\* A withdrawal command keeps locked amounts equal to the reservations.
LEMMA WithdrawLocked ==
    ASSUME CoreType, CoreType', ReceiptInv, LockedOk, NEW w \in Withdrawals,
           NEW action \in {"reserve", "release", "complete"}, Withdraw(w, action)
    PROVE  LockedOk'
<1>1. CASE UNCHANGED vars
  BY <1>1 DEF LockedOk, vars
<1>2. CASE ~ UNCHANGED vars
  <2>1. PICK next, old, n : Withdrawn(w, action, next, old, n)
    BY <1>2, WithdrawParts
  <2>2. /\ Funded(w, action, next) /\ bal' = (IF next.ok THEN next.bal ELSE bal)
        /\ withdrawals' = (withdrawals \ old) \cup {n} /\ n \notin withdrawals /\ n.funds = w
        /\ UNCHANGED <<books, manual>>
    BY <2>1 DEF Withdrawn
  <2>3. PICK account \in Accounts, v \in Int : account = <<w.user, w.asset>> /\ v = w.amount
    BY CreditType
  <2>4. PICK ws : ws = withdrawals'
    OBVIOUS
  <2>5. ws \subseteq Withdrawal /\ IsFiniteSet(ws) /\ withdrawals \subseteq Withdrawal /\ IsFiniteSet(withdrawals)
    BY <2>4 DEF CoreType
  <2>6. ASSUME NEW a \in Accounts PROVE SharedAt(bal', manual', books', withdrawals', a)
    <3>1. PICK l \in Int, mn \in Int, sh \in Int, hd \in Int :
             /\ l = bal[a].locked /\ mn = manual[a] /\ sh = SumFunction(Share(books, a))
             /\ hd = SumFunction(Held(withdrawals, a))
      BY SharesTyped DEF LockedOk
    <3>2. l = mn + sh + hd
      BY <3>1 DEF LockedOk, SharedAt
    <3>3. PICK f : f = Held(withdrawals, a)
      OBVIOUS
    <3>4. PICK g : g = Held(ws, a)
      OBVIOUS
    <3>5. Numeric(f) /\ DOMAIN f = Reserving(withdrawals, a) /\ \A r \in Reserving(withdrawals, a) : f[r] = r.funds.amount
      BY <2>5, <3>3, HeldType
    <3>6. Numeric(g) /\ DOMAIN g = Reserving(ws, a) /\ (\A r \in Reserving(ws, a) : g[r] = r.funds.amount) /\ SumFunction(g) \in Int
      BY <2>5, <3>4, HeldType
    <3>7. PICK ng \in Int : ng = SumFunction(g)
      BY <3>6
    <3>8. next.bal[a].locked = l + At(a, account, IF action = "reserve" THEN v ELSE -v)
      BY <2>2, <2>3, <3>1, FundedLocks
    <3>9. bal'[a].locked = mn + sh + ng
      <4>1. CASE a = account /\ action = "reserve" /\ next.ok
        <5>1. old = {} /\ n.status = "reserved"
          BY <2>1, <4>1 DEF Withdrawn
        <5>2. Reserving(ws, a) = Reserving(withdrawals, a) \cup {n} /\ n \notin Reserving(withdrawals, a)
          BY <2>2, <2>3, <2>4, <4>1, <5>1 DEF Reserving
        <5>3. Extends(g, f, n)
          BY <3>5, <3>6, <5>2 DEF Extends
        <5>4. SumFunction(g) = SumFunction(f) + g[n]
          BY <3>5, <3>6, <5>3, SumExtends
        <5>5. g[n] = v
          BY <2>2, <2>3, <3>6, <5>2
        <5>6. ng = hd + v
          BY <3>1, <3>3, <3>7, <5>4, <5>5
        <5>7. bal'[a].locked = l + v
          BY <2>2, <3>8, <4>1 DEF At
        <5>8. QED
          BY <3>2, <5>6, <5>7
      <4>2. CASE a = account /\ action # "reserve"
        <5>1. PICK r \in withdrawals : old = {r} /\ r.funds = w /\ r.status = "reserved"
          BY <2>1, <4>2 DEF Withdrawn
        <5>2. next.ok /\ n.status # "reserved"
          BY <2>1, <4>2 DEF Withdrawn
        <5>3. Reserving(withdrawals, a) = Reserving(ws, a) \cup {r} /\ r \notin Reserving(ws, a)
          BY <2>2, <2>3, <2>4, <4>2, <5>1, <5>2 DEF Reserving
        <5>4. Extends(f, g, r)
          BY <3>5, <3>6, <5>3 DEF Extends
        <5>5. SumFunction(f) = SumFunction(g) + f[r]
          BY <3>5, <3>6, <5>4, SumExtends
        <5>6. f[r] = v
          BY <2>3, <3>5, <5>1, <5>3
        <5>7. hd = ng + v
          BY <3>1, <3>3, <3>7, <5>5, <5>6
        <5>8. bal'[a].locked = l - v
          <6>1. next.bal[a].locked = l + (-v)
            BY <3>8, <4>2 DEF At
          <6>2. QED
            BY <2>2, <5>2, <6>1
        <5>9. QED
          BY <3>2, <5>7, <5>8
      <4>3. CASE a # account \/ (action = "reserve" /\ ~next.ok)
        <5>1. bal'[a].locked = l
          <6>1. CASE next.ok
            <7>1. next.bal[a].locked = l + 0
              BY <3>8, <4>3, <6>1 DEF At
            <7>2. QED
              BY <2>2, <6>1, <7>1
          <6>2. CASE ~next.ok
            BY <2>2, <3>1, <6>2
          <6>3. QED
            BY <6>1, <6>2
        <5>2. Reserving(ws, a) = Reserving(withdrawals, a)
          <6>1. CASE a # account
            <7>1. \A r \in old : r.funds = w
              BY <2>1 DEF Withdrawn
            <7>2. QED
              BY <2>2, <2>3, <2>4, <6>1, <7>1 DEF Reserving
          <6>2. CASE action = "reserve" /\ ~next.ok
            <7>1. old = {} /\ n.status = "rejected"
              BY <2>1, <6>2 DEF Withdrawn
            <7>2. QED
              BY <2>2, <2>4, <7>1 DEF Reserving
          <6>3. QED
            BY <4>3, <6>1, <6>2
        <5>3. g = f
          BY <3>3, <3>4, <5>2 DEF Held
        <5>4. QED
          BY <3>1, <3>2, <3>3, <3>7, <5>1, <5>3
      <4>4. QED
        BY <4>1, <4>2, <4>3
    <3>10. bal'[a].locked = manual'[a] + SumFunction(Share(books', a)) + SumFunction(Held(withdrawals', a))
      BY <2>2, <2>4, <3>1, <3>4, <3>7, <3>9
    <3>11. QED
      BY <3>10, Zenon DEF SharedAt
  <2>7. QED
    BY <2>2, <2>6 DEF LockedOk
<1>3. QED
  BY <1>1, <1>2

LockedInv == SoundInv /\ LockedOk

\* Every step keeps LockedInv.
LEMMA LockedStep == LockedInv /\ [Next]_vars => LockedInv'
<1> SUFFICES ASSUME LockedInv, [Next]_vars PROVE LockedOk'
  BY SoundStep DEF LockedInv
<1>1. CoreType /\ ReceiptInv /\ BookInv /\ SoundBooks(books) /\ LockedOk
  BY DEF LockedInv, SoundInv, FundsInv
<1>2. CoreType'
  BY SoundStep DEF LockedInv, SoundInv, FundsInv
<1>3. CASE UNCHANGED vars
  BY <1>1, <1>3 DEF LockedOk, vars
<1>4. CASE \E o \in Orders : Submit(o)
  BY <1>1, <1>4, SubmitLocked
<1>5. CASE \E o \in Orders, u \in Users : Cancel(o.id, u, o.pair)
  BY <1>1, <1>2, <1>5, CancelLocked, OrderType
<1>6. ASSUME NEW d \in Credits, CreditDeposit(d) PROVE LockedOk'
  <2>1. CASE UNCHANGED vars
    BY <1>3, <2>1
  <2>2. CASE ~ UNCHANGED vars
    <3>1. PICK next : next = Move(Unchecked, <<d.user, d.asset>>, d.amount, 0)
      OBVIOUS
    <3>2. (bal' = next.bal \/ bal' = bal) /\ UNCHANGED <<books, withdrawals, manual>>
      BY <1>6, <2>2, <3>1 DEF CreditDeposit
    <3>3. PICK account \in Accounts, v \in Int : account = <<d.user, d.asset>> /\ v = d.amount
      BY CreditType
    <3>4. QED
      BY <1>1, <3>1, <3>2, <3>3, AvailableOnly
  <2>3. QED
    BY <2>1, <2>2
<1>7. CASE \E w \in Withdrawals, action \in {"reserve", "release", "complete"} : Withdraw(w, action)
  BY <1>1, <1>2, <1>7, WithdrawLocked
<1>8. ASSUME NEW account \in Accounts, NEW v \in Int, Balance(account, v) PROVE LockedOk'
  <2>1. PICK next : next = Move(Unchecked, account, v, 0)
    OBVIOUS
  <2>2. bal' = next.bal /\ UNCHANGED <<books, withdrawals, manual>>
    BY <1>8, <2>1 DEF Balance
  <2>3. QED
    BY <1>1, <2>1, <2>2, AvailableOnly
<1>9. ASSUME NEW x \in Adjustments,
             \/ Balance(x[1], x[2]) \/ Balance(x[1], -x[2])
             \/ LockBalance(x[1], x[2]) \/ UnlockBalance(x[1], x[2])
      PROVE  LockedOk'
  <2>1. PICK a \in Accounts, v \in Int : a = x[1] /\ v = x[2]
    BY CoreAssumption
  <2>2. PICK minus \in Int : minus = -v
    OBVIOUS
  <2>3. CASE Balance(a, v) \/ Balance(a, minus)
    BY <1>8, <2>3
  <2>4. CASE LockBalance(a, v) \/ UnlockBalance(a, v)
    BY <1>1, <2>4, ManualLocked
  <2>5. QED
    BY <1>9, <2>1, <2>2, <2>3, <2>4
<1>10. QED
  BY <1>3, <1>4, <1>5, <1>6, <1>7, <1>9 DEF Next

\* LockedInv holds at the start.
LEMMA LockedInitially == Init => LockedInv
<1> SUFFICES ASSUME Init PROVE LockedOk
  BY SoundInitially DEF LockedInv
<1>1. CoreType
  BY SoundInitially DEF SoundInv, FundsInv
<1>2. All(books) = {}
  <2>1. ASSUME NEW e \in All(books) PROVE FALSE
    <3>1. PICK p, s, x, i : Place(books, p, s, x, i)
      BY <1>1, AllArePlaced DEF CoreType
    <3>2. books[p][s].levels[x] = <<>>
      BY <3>1 DEF Place, Init, EmptyBook, EmptySide, Sides
    <3>3. QED
      BY <3>1, <3>2 DEF Place
  <2>2. QED
    BY <2>1
<1>3. ASSUME NEW a \in Accounts PROVE SharedAt(bal, manual, books, withdrawals, a)
  <2>1. Shares(books, a) = {} /\ Reserving(withdrawals, a) = {}
    BY <1>2 DEF Shares, Reserving, Init
  <2>2. SumFunction(Share(books, a)) = 0
    BY <1>1, <1>2, <2>1, FS_EmptySet, ShareType, SumType DEF CoreType
  <2>3. SumFunction(Held(withdrawals, a)) = 0
    BY <1>1, <2>1, HeldType, SumType DEF CoreType
  <2>4. bal[a].locked = 0 /\ manual[a] = 0
    BY DEF Init
  <2>5. QED
    BY <2>2, <2>3, <2>4 DEF SharedAt
<1>4. QED
  BY <1>2, <1>3, FS_EmptySet DEF LockedOk

\* The locked amount of an account is exactly the sum of the shares of its
\* resting orders, its reserved withdrawals and its manual reservations: no
\* fill, refund, cancellation, release or completion takes from another's.
THEOREM SharesAddUp == Spec => []LockedIsReserved
<1>1. LockedInv => LockedIsReserved
  BY LockedAre DEF LockedInv
<1>2. QED
  BY <1>1, LockedInitially, LockedStep, PTL DEF Spec

-----------------------------------------------------------------------------
(* What a step leaves of a maker.                                           *)

\* What is left of a maker, if one entry or none has its id.
LEMMA LeftOne ==
    ASSUME NEW side, NEW m, NEW d, d.remaining \in Int
    PROVE  /\ {x \in Entries(side) : x.id = m.id} = {d} => Left(side, m) = d.remaining
           /\ {x \in Entries(side) : x.id = m.id} = {} => Left(side, m) = 0
<1>1. PICK S : S = {x \in Entries(side) : x.id = m.id}
  OBVIOUS
<1>2. Left(side, m) = SumFunction([e \in S |-> e.remaining])
  BY <1>1 DEF Left
<1>3. PICK none : none = [e \in {} |-> e.remaining]
  OBVIOUS
<1>4. DOMAIN none = {} /\ Numeric(none)
  BY <1>3, FS_EmptySet DEF Numeric
<1>5. SumFunction(none) = 0
  BY <1>4, SumType
<1>6. PICK one : one = [e \in {d} |-> e.remaining]
  OBVIOUS
<1>7. DOMAIN one = {d} /\ one[d] = d.remaining /\ Numeric(one)
  <2>1. one \in [{d} -> Int] /\ DOMAIN one = {d} /\ one[d] = d.remaining
    BY <1>6
  <2>2. QED
    BY <2>1, FS_Singleton DEF Numeric
<1>8. Extends(one, none, d)
  BY <1>4, <1>7 DEF Extends
<1>9. SumFunction(one) = SumFunction(none) + one[d]
  BY <1>4, <1>7, <1>8, SumExtends
<1>10. SumFunction(one) = d.remaining
  BY <1>5, <1>7, <1>9
<1>11. S = {d} => [e \in S |-> e.remaining] = one
  BY <1>6
<1>12. S = {} => [e \in S |-> e.remaining] = none
  BY <1>3
<1>13. QED
  BY <1>1, <1>2, <1>5, <1>10, <1>11, <1>12

\* A side as it was holds all of a maker.
LEMMA LeftAlone ==
    ASSUME NEW b \in TypedBooks, NEW subs, NEW cans, BookOk(b, subs, cans), NEW p \in Pairs, NEW s \in Sides,
           NEW m \in Entries(b[p][s])
    PROVE  Left(b[p][s], m) = m.remaining /\ m.remaining \in Int /\ m.price \in Int
<1>1. PICK side \in SideType : side = b[p][s]
  BY DEF TypedBooks, TypedBook
<1>2. m \in EntryType
  BY <1>1, EntriesAre
<1>3. m.remaining \in Int /\ m.price \in Int
  BY <1>2, PriceType DEF EntryType
<1>4. PICK y \in Prices : \E j \in DOMAIN side.levels[y] : m = side.levels[y][j]
  BY <1>1, EntriesAre
<1>5. PICK j \in DOMAIN side.levels[y] : m = side.levels[y][j]
  BY <1>4
<1>6. ASSUME NEW x \in Entries(side), x.id = m.id PROVE x = m
  <2>1. PICK z \in Prices : \E i \in DOMAIN side.levels[z] : x = side.levels[z][i]
    BY EntriesAre
  <2>2. PICK i \in DOMAIN side.levels[z] : x = side.levels[z][i]
    BY <2>1
  <2>3. Place(b, p, s, z, i) /\ Place(b, p, s, y, j) /\ b[p][s].levels[z][i].id = b[p][s].levels[y][j].id
    BY <1>1, <1>5, <1>6, <2>2 DEF Place
  <2>4. z = y /\ i = j
    BY <2>3, IdHasOnePlace
  <2>5. QED
    BY <1>5, <2>2, <2>4
<1>7. {x \in Entries(side) : x.id = m.id} = {m}
  BY <1>1, <1>6
<1>8. Left(side, m) = m.remaining
  BY <1>3, <1>7, LeftOne
<1>9. QED
  BY <1>1, <1>3, <1>8

\* A committed plan leaves of a maker what it did not take.
LeavesOf(o, side, plan, m) ==
    /\ m \in EntryType /\ Taken(plan, m) \in Int /\ m.remaining \in Int
    /\ Left(ApplyPrepared(side, plan), m) = m.remaining - Taken(plan, m)
    /\ Taken(plan, m) > 0 <=> \E i \in DOMAIN plan.trades : plan.trades[i].maker = m

\* What a submission leaves of a maker.
LEMMA LeftAfter ==
    ASSUME NEW b, NEW subs, NEW cans, NEW o, NEW side, NEW plan, Plans(b, subs, cans, o, side, plan),
           SoundSide(side), NEW m \in Entries(side)
    PROVE  LeavesOf(o, side, plan, m)
<1>1. /\ side \in SideType /\ o.pair \in Pairs /\ plan \in PlanType
      /\ Planned(o, Makers(o, side), Len(Makers(o, side)), plan)
  BY PlanFacts
<1>2. o \in Orders /\ b \in TypedBooks /\ BookOk(b, subs, cans) /\ side = b[o.pair][Opposite(o)] /\ plan.ok
  BY DEF Plans
<1>3. Opposite(o) \in Sides
  BY <1>2, OppositeSide
<1>4. PICK y \in Prices : \E j \in DOMAIN side.levels[y] : m = side.levels[y][j]
  BY <1>1, EntriesAre
<1>5. PICK j \in DOMAIN side.levels[y] : m = side.levels[y][j]
  BY <1>4
<1>6. PICK d : d = AfterTrade(plan, m)
  OBVIOUS
<1>7. m \in EntryType /\ Taken(plan, m) \in Int /\ Reduced(m, Taken(plan, m), d) /\ Leaves(m, y, Taken(plan, m), d)
  BY <1>5, <1>6, LeftOver
<1>8. PICK q \in Int : q = Taken(plan, m)
  BY <1>7
<1>9. m.remaining \in Int /\ d.remaining = m.remaining - q /\ d.remaining \in Int /\ d.id = m.id /\ d.remaining >= 0
  <2>1. m.remaining \in Int
    BY <1>7 DEF EntryType
  <2>2. d.remaining = m.remaining - q /\ d.id = m.id /\ d.remaining >= 0
    BY <1>7, <1>8 DEF Reduced, Leaves
  <2>3. QED
    BY <2>1, <2>2
<1>10. PICK new : new = ApplyPrepared(side, plan)
  OBVIOUS
<1>11. new \in SideType
  BY <1>1, <1>10, PreparedType
<1>12. PICK S : S = {x \in Entries(new) : x.id = m.id}
  OBVIOUS
<1>13. ASSUME NEW x \in S PROVE x = d /\ d.remaining > 0
  <2>1. x \in Entries(new) /\ x.id = m.id
    BY <1>12
  <2>2. PICK z \in Prices : \E k \in DOMAIN new.levels[z] : x = new.levels[z][k]
    BY <1>11, <2>1, EntriesAre
  <2>3. PICK k \in DOMAIN new.levels[z] : x = new.levels[z][k]
    BY <2>2
  <2>4. PICK i \in DOMAIN side.levels[z] : x = AfterTrade(plan, side.levels[z][i]) /\ x.remaining > 0
    BY <1>1, <1>10, <2>3, PreparedEntries
  <2>5. PICK e : e = side.levels[z][i]
    OBVIOUS
  <2>6. e \in EntryType
    BY <1>1, <2>4, <2>5, EntriesAre
  <2>7. x.id = e.id
    BY Zenon, <1>1, <2>4, <2>5, <2>6, AfterTradeType DEF Reduced
  <2>8. Place(b, o.pair, Opposite(o), z, i) /\ Place(b, o.pair, Opposite(o), y, j)
    BY <1>1, <1>2, <1>3, <1>5, <2>4 DEF Place
  <2>9. side.levels[z][i].id = side.levels[y][j].id
    BY Zenon, <1>5, <2>1, <2>5, <2>7
  <2>10. z = y /\ i = j
    BY <1>2, <2>8, <2>9, IdHasOnePlace
  <2>11. QED
    BY <1>5, <1>6, <2>4, <2>10
<1>14. d.remaining > 0 => d \in S
  <2> SUFFICES ASSUME d.remaining > 0 PROVE d \in S
    OBVIOUS
  <2>1. AfterTrade(plan, side.levels[y][j]).remaining > 0
    BY <1>5, <1>6
  <2>2. PICK k \in DOMAIN new.levels[y] : new.levels[y][k] = AfterTrade(plan, side.levels[y][j])
    BY <1>1, <1>5, <1>10, <2>1, PreparedEntries
  <2>3. d \in Entries(new)
    BY <1>5, <1>6, <1>11, <2>2, EntriesAre
  <2>4. QED
    BY <1>9, <1>12, <2>3
<1>15. Left(new, m) = m.remaining - q
  <2>1. CASE d.remaining > 0
    <3>1. S = {d}
      BY <1>13, <1>14, <2>1
    <3>2. Left(new, m) = d.remaining
      BY <1>9, <1>12, <3>1, LeftOne
    <3>3. QED
      BY <1>9, <3>2
  <2>2. CASE d.remaining = 0
    <3>1. S = {}
      BY <1>13, <2>2
    <3>2. Left(new, m) = 0
      BY <1>9, <1>12, <3>1, LeftOne
    <3>3. QED
      BY <1>9, <2>2, <3>2
  <2>3. QED
    BY <1>9, <2>1, <2>2
<1>16. TakesFrom(plan, m)
  BY TakenIs
<1>17. q > 0 => \E i \in DOMAIN plan.trades : plan.trades[i].maker = m
  BY <1>8, <1>16 DEF TakesFrom
<1>18. ASSUME NEW i \in DOMAIN plan.trades, plan.trades[i].maker = m PROVE q > 0
  <2>1. Traded(plan, m)
    BY <1>18 DEF Traded
  <2>2. PICK k \in DOMAIN plan.trades : q = plan.trades[k].qty
    BY <1>8, <1>16, <2>1 DEF TakesFrom
  <2>3. FairTrade(o, plan.trades[k])
    BY <1>1, <1>2 DEF Planned
  <2>4. QED
    BY <2>2, <2>3 DEF FairTrade
<1>19. QED
  BY <1>7, <1>8, <1>9, <1>10, <1>15, <1>17, <1>18 DEF LeavesOf

-----------------------------------------------------------------------------
(* Price-time priority.                                                     *)

Differing(q) == \A i, j \in DOMAIN q : q[i] = q[j] => i = j
\* An entry is once in its queue.
LEMMA OneInQueue ==
    ASSUME NEW b, NEW subs, NEW cans, BookOk(b, subs, cans), NEW p \in Pairs, NEW s \in Sides, NEW x \in Prices,
           NEW q, q = b[p][s].levels[x]
    PROVE  Differing(q)
<1> SUFFICES ASSUME NEW i \in DOMAIN q, NEW j \in DOMAIN q, q[i] = q[j] PROVE i = j
  BY Zenon DEF Differing
<1>1. Place(b, p, s, x, i) /\ Place(b, p, s, x, j)
  BY Zenon DEF Place
<1>2. b[p][s].levels[x][i].id = b[p][s].levels[x][j].id
  BY Zenon
<1>3. QED
  BY <1>1, <1>2, IdHasOnePlace

\* Everyone ahead of a maker that trades is filled, or is the taker's own.
LEMMA PlanKeepsPriority ==
    ASSUME NEW b, NEW subs, NEW cans, NEW o, NEW side, NEW plan, Plans(b, subs, cans, o, side, plan),
           SoundSide(side), ~IsBudget(o), NEW m \in Entries(side), NEW n \in Entries(side),
           Before(side, m, n), Left(ApplyPrepared(side, plan), n) < n.remaining, m.user # o.user
    PROVE  Left(ApplyPrepared(side, plan), m) = 0
<1>1. /\ side \in SideType /\ o.pair \in Pairs /\ plan \in PlanType
      /\ Planned(o, Makers(o, side), Len(Makers(o, side)), plan)
  BY PlanFacts
<1>2. o \in Orders /\ BookOk(b, subs, cans) /\ side = b[o.pair][Opposite(o)] /\ plan.ok
  BY DEF Plans
<1>3. Opposite(o) \in Sides
  BY <1>2, OppositeSide
<1>4. LeavesOf(o, side, plan, m) /\ LeavesOf(o, side, plan, n)
  BY LeftAfter
<1>5. PICK t \in DOMAIN plan.trades : plan.trades[t].maker = n
  <2>1. Taken(plan, n) \in Int /\ n.remaining \in Int /\ Left(ApplyPrepared(side, plan), n) = n.remaining - Taken(plan, n)
    BY <1>4 DEF LeavesOf
  <2>2. Taken(plan, n) > 0
    BY <2>1
  <2>3. QED
    BY <1>4, <2>2 DEF LeavesOf
<1>6. PICK at : Visits(o, side, at)
  BY <1>1, MakersAreVisited
<1>7. PICK M : M = Makers(o, side)
  OBVIOUS
<1>8. PICK size \in Nat : size = Len(M)
  BY <1>6, <1>7 DEF Visits
<1>9. /\ at \in [1..size -> Places(o, side)]
      /\ \A k \in 1..size : M[k] = side.levels[at[k][1]][at[k][2]]
      /\ \A k, h \in 1..size : k < h <=> (Ahead(o, at[k], at[h]) /\ at[k] # at[h])
      /\ \A x \in Places(o, side) : \E k \in 1..size : at[k] = x
  BY <1>6, <1>7, <1>8 DEF Visits
<1>10. Sourced(M, size, plan) /\ InTurn(o, M, size, plan)
  BY <1>1, <1>2, <1>7, <1>8 DEF Planned
<1>11. PICK h \in 1..size : n = M[h]
  BY <1>5, <1>10 DEF Sourced
<1>12. PICK x, i : x = at[h][1] /\ i = at[h][2] /\ IsPlace(o, side, at[h])
  BY <1>1, <1>9, <1>11, PlacesAre
<1>13. x \in Prices /\ x \in Int /\ Reachable(o, x) /\ i \in DOMAIN side.levels[x] /\ i \in Int /\ n = side.levels[x][i]
  BY <1>9, <1>11, <1>12 DEF IsPlace
<1>14. PICK y \in Prices : \E j \in DOMAIN side.levels[y] : m = side.levels[y][j]
  BY <1>1, EntriesAre
<1>15. PICK j \in DOMAIN side.levels[y] : m = side.levels[y][j]
  BY <1>14
<1>16. y \in Int /\ j \in Int
  <2>1. Len(side.levels[y]) \in Nat /\ DOMAIN side.levels[y] = 1..Len(side.levels[y])
    BY <1>1, SideIsLevelled, Zenon
  <2>2. PICK deep \in Nat : j \in 1..deep
    BY <2>1, Zenon
  <2>3. QED
    BY <2>2, PriceType
<1>17. Entry(subs, m, o.pair, Opposite(o), y) /\ Entry(subs, n, o.pair, Opposite(o), x)
  BY Zenon, <1>1, <1>2, <1>3, <1>13, <1>15 DEF BookOk, QueueOk
<1>18. m.price = y /\ n.price = x /\ (IsBuy(m) <=> ~IsBuy(o))
  BY <1>17 DEF Entry, Opposite, IsBuy
<1>19. (y = x /\ j < i) \/ (IF IsBuy(o) THEN y < x ELSE y > x)
  <2>1. CASE IF IsBuy(m) THEN m.price > n.price ELSE m.price < n.price
    BY <1>13, <1>16, <1>18, <2>1
  <2>2. CASE /\ m.price = n.price
             /\ \E g, f \in DOMAIN side.levels[m.price] :
                   g < f /\ side.levels[m.price][g] = m /\ side.levels[m.price][f] = n
    <3>1. y = x
      BY <1>18, <2>2
    <3>2. PICK g \in DOMAIN side.levels[y], f \in DOMAIN side.levels[y] :
             g < f /\ side.levels[y][g] = m /\ side.levels[y][f] = n
      BY Zenon, <1>18, <2>2
    <3>4. PICK q : q = side.levels[y]
      OBVIOUS
    <3>5. /\ q = b[o.pair][Opposite(o)].levels[y] /\ g \in DOMAIN q /\ f \in DOMAIN q /\ i \in DOMAIN q /\ j \in DOMAIN q
          /\ q[g] = q[j] /\ q[f] = q[i]
      BY <1>2, <1>13, <1>15, <3>1, <3>2, <3>4, Zenon
    <3>6. Differing(q)
      <4>1. BookOk(b, subs, cans) /\ o.pair \in Pairs /\ Opposite(o) \in Sides /\ q = b[o.pair][Opposite(o)].levels[y]
        BY <1>1, <1>2, <1>3, <3>5, Zenon
      <4>2. QED
        BY <4>1, OneInQueue
    <3>7. g = j /\ f = i
      BY <3>5, <3>6, Zenon DEF Differing
    <3>8. QED
      BY <3>1, <3>2, <3>7
  <2>3. QED
    BY <2>1, <2>2 DEF Before
<1>20. Reachable(o, y)
  BY <1>13, <1>16, <1>19, <1>2, OrderType DEF Reachable
<1>21. <<y, j>> \in Places(o, side)
  BY <1>1, <1>15, <1>20, PlacesAre
<1>22. PICK k \in 1..size : at[k] = <<y, j>>
  BY <1>9, <1>21
<1>23. M[k] = m
  BY <1>9, <1>15, <1>22
<1>24. k < h
  <2>1. at[h] = <<x, i>>
    BY <1>12 DEF IsPlace
  <2>2. Ahead(o, at[k], at[h])
    BY <1>13, <1>16, <1>19, <1>22, <2>1 DEF Ahead
  <2>3. at[k] # at[h]
    BY <1>13, <1>16, <1>19, <1>22, <2>1
  <2>4. QED
    BY <1>9, <2>2, <2>3
<1>25. TradesWith(plan, M[h])
  BY <1>5, <1>11 DEF TradesWith
<1>26. k \in 1..(h - 1)
  BY <1>24
<1>27. Fills(plan, m)
  BY <1>10, <1>23, <1>25, <1>26 DEF InTurn
<1>28. Taken(plan, m) = m.remaining
  BY <1>27, FilledIsGone
<1>29. QED
  BY <1>4, <1>28 DEF LeavesOf

-----------------------------------------------------------------------------
(* Submissions keep price-time priority.                                    *)

\* A new submission is the order of the step.
LEMMA NewSubmission ==
    ASSUME [Next]_vars, NEW o \in submissions' \ submissions
    PROVE  o \in Orders /\ Submit(o)
<1>1. submissions' # submissions
  OBVIOUS
<1>2. Next
  BY <1>1 DEF vars
<1>3. ~(\E x \in Orders, u \in Users : Cancel(x.id, u, x.pair))
  BY <1>1 DEF Cancel, vars
<1>4. ~(\E d \in Credits : CreditDeposit(d))
  BY <1>1 DEF CreditDeposit, vars
<1>5. ~(\E w \in Withdrawals, action \in {"reserve", "release", "complete"} : Withdraw(w, action))
  BY <1>1 DEF Withdraw, vars
<1>6. \A a, v : ~Balance(a, v) /\ ~LockBalance(a, v) /\ ~UnlockBalance(a, v)
  BY <1>1 DEF Balance, LockBalance, UnlockBalance
<1>7. PICK x \in Orders : Submit(x)
  BY <1>2, <1>3, <1>4, <1>5, <1>6 DEF Next
<1>8. submissions' = submissions \cup {x}
  BY <1>1, <1>7 DEF Submit, vars
<1>9. x = o
  BY <1>8
<1>10. QED
  BY <1>7, <1>9

\* What a step that submits an order does to the side it trades with.
LEMMA SubmitSide ==
    ASSUME SoundInv, NEW o \in Orders, Submit(o), NEW side, side = books[o.pair][Opposite(o)]
    PROVE  \/ UNCHANGED <<books, bal>>
           \/ \E plan : /\ Plans(books, submissions, cancellations, o, side, plan) /\ SoundSide(side)
                        /\ books'[o.pair][Opposite(o)] = ApplyPrepared(side, plan)
                        /\ bal' = Submission(o, books[o.pair], bal).bal
<1>1. CASE UNCHANGED <<books, bal, fees>>
  BY <1>1
<1>2. CASE ~ UNCHANGED <<books, bal, fees>>
  <2>1. PICK plan : /\ Accepts(books, books', submissions, cancellations, o, side, plan)
                    /\ bal' = Submission(o, books[o.pair], bal).bal
    BY <1>2, SubmitAccepts DEF SoundInv, FundsInv
  <2>2. Plans(books, submissions, cancellations, o, side, plan) /\ Committed(books[o.pair], o, plan, books'[o.pair])
    BY <2>1 DEF Accepts
  <2>3. o.pair \in Pairs /\ Opposite(o) \in Sides
    BY OrderType, OppositeSide
  <2>4. SoundSide(side)
    BY <2>3 DEF SoundInv, SoundBooks
  <2>5. books'[o.pair][Opposite(o)] = ApplyPrepared(side, plan)
    BY <2>2 DEF Committed
  <2>6. QED
    BY <2>1, <2>2, <2>4, <2>5
<1>3. QED
  BY <1>1, <1>2

\* A submission by quantity takes nothing from behind a maker with something left.
LEMMA SubmitKeepsPriority ==
    ASSUME SoundInv, NEW o \in Orders, Submit(o), ~IsBudget(o)
    PROVE  PriorityKept(o)
<1>1. PICK old : old = books[o.pair][Opposite(o)]
  OBVIOUS
<1>2. PICK new : new = books'[o.pair][Opposite(o)]
  OBVIOUS
<1>3. SUFFICES ASSUME NEW m \in Entries(old), NEW n \in Entries(old),
                      Before(old, m, n), Left(new, n) < n.remaining, m.user # o.user
               PROVE  Left(new, m) = 0
  BY <1>1, <1>2 DEF PriorityKept
<1>4. o.pair \in Pairs /\ Opposite(o) \in Sides
  BY OrderType, OppositeSide
<1>5. CASE UNCHANGED <<books, bal>>
  <2>1. new = old
    BY <1>1, <1>2, <1>5
  <2>2. Left(old, n) = n.remaining /\ n.remaining \in Int
    BY <1>1, <1>4, LeftAlone DEF SoundInv, FundsInv, CoreType, BookInv
  <2>3. QED
    BY <1>3, <2>1, <2>2
<1>6. CASE \E plan : /\ Plans(books, submissions, cancellations, o, old, plan) /\ SoundSide(old)
                     /\ books'[o.pair][Opposite(o)] = ApplyPrepared(old, plan)
                     /\ bal' = Submission(o, books[o.pair], bal).bal
  <2>1. PICK plan : /\ Plans(books, submissions, cancellations, o, old, plan) /\ SoundSide(old)
                    /\ new = ApplyPrepared(old, plan)
    BY <1>2, <1>6
  <2>2. QED
    BY <1>3, <2>1, PlanKeepsPriority
<1>7. QED
  BY <1>1, <1>5, <1>6, SubmitSide

\* In a step that submits an order with a quantity, a maker trades only if
\* everyone ahead of it in price-time order is filled or is the taker's own.
THEOREM PriorityIsKept == Spec => QuantityOrdersKeepPriority
<1>1. SoundInv /\ [Next]_vars
      => [\A o \in submissions' \ submissions : ~IsBudget(o) => PriorityKept(o)]_vars
  BY NewSubmission, SubmitKeepsPriority
<1>2. QED
  BY <1>1, SoundInitially, SoundStep, PTL DEF Spec, QuantityOrdersKeepPriority

-----------------------------------------------------------------------------
(* What the makers are paid.                                                *)

\* What the makers of a side give for what a step takes from them.
Paid(side, new) == [m \in Entries(side) |-> Quote(m.price, m.remaining - Left(new, m))]

\* What the order trades is paid at the makers' prices.
LEMMA PlanPays ==
    ASSUME NEW b, NEW subs, NEW cans, NEW o, NEW side, NEW plan, Plans(b, subs, cans, o, side, plan),
           SoundSide(side), IsBuy(o)
    PROVE  plan.quote \in Int /\ SumFunction(Paid(side, ApplyPrepared(side, plan))) = plan.quote
<1>1. /\ side \in SideType /\ o.pair \in Pairs /\ plan \in PlanType
      /\ Planned(o, Makers(o, side), Len(Makers(o, side)), plan)
  BY PlanFacts
<1>2. /\ o \in Orders /\ b \in TypedBooks /\ plan = PlanOrder(o, side) /\ plan.ok /\ Distinct(plan)
  BY <1>1 DEF Plans, Planned
<1>3. PICK ts \in Seq(TradeType) : ts = plan.trades
  BY <1>1 DEF PlanType
<1>4. PICK n \in Nat : n = Len(ts) /\ DOMAIN ts = 1..n
  OBVIOUS
<1>5. PICK u : Paying(o, plan, u)
  <2>1. Makers(o, side) \in Seq(EntryType)
    BY <1>1, MakersAreVisited DEF Visits
  <2>2. QED
    BY <1>2, <2>1, PlanIsSummed DEF Summed
<1>6. /\ u \in [0..n -> Int] /\ u[0] = 0 /\ u[n] = plan.quote
      /\ \A k \in 1..n : u[k] = u[k - 1] + Quote(ts[k].price, ts[k].qty)
  BY <1>3, <1>4, <1>5 DEF Paying, UsedBy, TakerPays
<1>7. PICK E : E = Entries(side) /\ IsFiniteSet(E)
  BY <1>1, EntriesAre
<1>8. PICK mk : mk = [k \in 1..n |-> ts[k].maker]
  OBVIOUS
<1>9. PICK v : v = [k \in 1..n |-> Quote(ts[k].price, ts[k].qty)]
  OBVIOUS
<1>10. ASSUME NEW k \in 1..n
       PROVE  /\ mk[k] = ts[k].maker /\ v[k] = Quote(ts[k].price, ts[k].qty) /\ v[k] \in Int
              /\ mk[k] \in E /\ ts[k].price = mk[k].price
  <2>1. MakerOf(b, o, side, ts[k])
    BY <1>3, <1>4, MakersRest
  <2>2. mk[k] = ts[k].maker /\ v[k] = Quote(ts[k].price, ts[k].qty)
    BY <1>8, <1>9
  <2>3. Quote(ts[k].price, ts[k].qty) \in Int
    BY <1>2, <2>1, PartyType DEF MakerOf
  <2>4. QED
    BY <1>7, <2>1, <2>2, <2>3 DEF MakerOf, FairTrade
<1>11. v \in [1..n -> Int]
  BY <1>9, <1>10
<1>12. Runs(n, mk, v, E, u)
  BY <1>6, <1>10 DEF Runs
<1>13. Once(n, mk)
  <2>1. \A i, j \in 1..n : ts[i].maker.id = ts[j].maker.id => i = j
    BY <1>2, <1>3, <1>4 DEF Distinct
  <2>2. \A i \in 1..n : mk[i] = ts[i].maker
    BY <1>10
  <2>3. QED
    BY <2>1, <2>2 DEF Once
<1>14. PICK new : new = ApplyPrepared(side, plan)
  OBVIOUS
<1>15. PICK D : D = Paid(side, new)
  OBVIOUS
<1>16. ASSUME NEW m \in E
       PROVE  /\ D[m] = Quote(m.price, Taken(plan, m)) /\ D[m] \in Int /\ m.price \in Int
              /\ Taken(plan, m) \in Int /\ LeavesOf(o, side, plan, m)
  <2>1. LeavesOf(o, side, plan, m)
    BY <1>7, LeftAfter
  <2>2. PICK q \in Int, r \in Int, l \in Int : q = Taken(plan, m) /\ r = m.remaining /\ l = Left(new, m) /\ l = r - q
    BY <1>14, <2>1 DEF LeavesOf
  <2>3. r - l = q
    BY <2>2
  <2>4. D[m] = Quote(m.price, m.remaining - Left(new, m))
    BY <1>7, <1>15 DEF Paid
  <2>5. m.price \in Int
    BY <2>1, PriceType DEF LeavesOf, EntryType
  <2>6. D[m] = Quote(m.price, q)
    BY <2>2, <2>3, <2>4
  <2>7. QED
    BY <2>1, <2>2, <2>5, <2>6, ArithmeticType
<1>17. D \in [E -> Int]
  BY <1>7, <1>15, <1>16 DEF Paid
<1>18. ASSUME NEW j \in 1..n, mk[j] \in E PROVE D[mk[j]] = v[j]
  <2>1. PICK m : m = mk[j]
    OBVIOUS
  <2>2. m = ts[j].maker /\ m \in E /\ j \in DOMAIN plan.trades
    BY <1>3, <1>4, <1>10, <2>1
  <2>3. TakesFrom(plan, m) /\ Traded(plan, m)
    BY <1>3, <1>7, <2>2, TakenIs DEF Traded
  <2>4. PICK i \in DOMAIN plan.trades : plan.trades[i].maker = m /\ Taken(plan, m) = plan.trades[i].qty
    BY <2>3 DEF TakesFrom
  <2>5. i = j
    BY <1>2, <1>3, <2>2, <2>4 DEF Distinct
  <2>6. Taken(plan, m) = ts[j].qty /\ ts[j].price = m.price
    BY <1>3, <1>10, <2>1, <2>4, <2>5
  <2>7. QED
    BY <1>10, <1>16, <2>1, <2>2, <2>6
<1>19. ASSUME NEW m \in E, \A j \in 1..n : mk[j] # m PROVE D[m] = 0
  <2>1. Taken(plan, m) = 0
    <3>1. TakesFrom(plan, m)
      BY <1>7, TakenIs
    <3>2. ~Traded(plan, m)
      <4> SUFFICES ASSUME Traded(plan, m) PROVE FALSE
        OBVIOUS
      <4>1. PICK i \in DOMAIN plan.trades : plan.trades[i].maker = m
        BY <3>1 DEF TakesFrom
      <4>2. i \in 1..n /\ mk[i] = m
        BY <1>3, <1>4, <1>10, <4>1
      <4>3. QED
        BY <1>19, <4>2
    <3>3. QED
      BY <3>1, <3>2 DEF TakesFrom
  <2>2. QED
    BY <1>16, <2>1, NothingQuoted
<1>20. Spread(n, mk, v, E, D)
  BY <1>17, <1>18, <1>19 DEF Spread
<1>21. SumFunction(D) = u[n]
  BY <1>7, <1>11, <1>12, <1>13, <1>20, SumAlong
<1>22. plan.quote \in Int
  BY <1>1 DEF PlanType
<1>23. QED
  BY <1>6, <1>14, <1>15, <1>21, <1>22

\* Settlement takes from a buyer's holding what the plan quotes.
LEMMA SettlementPays ==
    ASSUME NEW b, NEW subs, NEW cans, NEW o, NEW side, NEW plan, Plans(b, subs, cans, o, side, plan),
           IsBuy(o), NEW base \in Candidate, NEW a, a = <<o.user, QuoteMint(o)>>
    PROVE  /\ SettleAll(o, base, plan.trades) \in Candidate
           /\ Holding(SettleAll(o, base, plan.trades).bal, a) = Holding(base.bal, a) - plan.quote
<1>1. /\ side \in SideType /\ o.pair \in Pairs /\ plan \in PlanType
      /\ Planned(o, Makers(o, side), Len(Makers(o, side)), plan)
  BY PlanFacts
<1>2. o \in Orders /\ plan = PlanOrder(o, side) /\ plan.ok
  BY DEF Plans
<1>3. PICK ts \in Seq(TradeType) : ts = plan.trades
  BY <1>1 DEF PlanType
<1>4. PICK n \in Nat : n = Len(ts) /\ DOMAIN ts = 1..n
  OBVIOUS
<1>5. PICK f : SettleRun(o, base, ts, f) /\ SettleAll(o, base, ts) = f[n]
  BY <1>2, <1>4, SettleRuns
<1>6. f \in [0..n -> Candidate] /\ f[0] = base /\ \A k \in 1..n : f[k] = SettleTrade(o, f[k - 1], ts[k])
  BY <1>4, <1>5 DEF SettleRun
<1>7. PICK u : Paying(o, plan, u)
  <2>1. Makers(o, side) \in Seq(EntryType)
    BY <1>1, MakersAreVisited DEF Visits
  <2>2. QED
    BY <1>2, <2>1, PlanIsSummed DEF Summed
<1>8. /\ u \in [0..n -> Int] /\ u[0] = 0 /\ u[n] = plan.quote
      /\ \A k \in 1..n : u[k] = u[k - 1] + Quote(ts[k].price, ts[k].qty)
  BY <1>3, <1>4, <1>7 DEF Paying, UsedBy, TakerPays
<1>9. a \in Accounts
  <2>1. o.user \in Users /\ QuoteMint(o) \in Assets
    BY <1>2, OrderType DEF QuoteMint
  <2>2. QED
    BY <2>1 DEF Accounts
<1>10. ASSUME NEW r \in Candidate PROVE Holding(r.bal, a) \in Int
  BY <1>9 DEF Candidate, Row, Holding
<1>11. ASSUME NEW k \in 1..n
       PROVE  Holding(f[k].bal, a) = Holding(f[k - 1].bal, a) - Quote(ts[k].price, ts[k].qty)
  <2>1. MakerOf(b, o, side, ts[k])
    BY <1>3, <1>4, MakersRest
  <2>2. PICK t : t = ts[k]
    OBVIOUS
  <2>3. k - 1 \in 0..n /\ k \in 0..n
    OBVIOUS
  <2>4. PICK r \in Candidate : r = f[k - 1]
    BY <1>6, <2>3
  <2>5. PICK d : d = f[k]
    OBVIOUS
  <2>6. Settled(o, r, t, d)
    BY <1>2, <1>4, <1>6, <2>2, <2>4, <2>5, SettleOne
  <2>7. t \in TradeType /\ t.maker.user # o.user
    BY <2>1, <2>2 DEF MakerOf, FairTrade
  <2>8. /\ Base(o) # QuoteMint(o) /\ BuyerFee(o, t) \in Int /\ SellerFee(o, t) \in Int
        /\ t.qty \in Int /\ Quote(t.price, t.qty) \in Int
    BY <1>2, <2>7, PartyType
  <2>9. PaysQuote(o, t) = a /\ GetsQuote(o, t) # a /\ PaysBase(o, t) # a /\ GetsBase(o, t) # a
    BY <2>7, <2>8 DEF PaysQuote, GetsQuote, PaysBase, GetsBase, Buyer, Seller
  <2>10. PICK av \in Int, lk \in Int, w \in Int :
            av = r.bal[a].available /\ lk = r.bal[a].locked /\ w = Quote(t.price, t.qty)
    BY <1>9, <2>8 DEF Candidate, Row
  <2>11. d.bal[a].available = av + 0 + 0 /\ d.bal[a].locked = lk - w - 0
    BY <1>9, <2>6, <2>9, <2>10 DEF Settled, At
  <2>12. d.bal[a].available + d.bal[a].locked = (av + lk) - w
    BY <2>11
  <2>13. Holding(d.bal, a) = Holding(r.bal, a) - w
    BY <2>10, <2>12, Zenon DEF Holding
  <2>14. QED
    BY <2>2, <2>4, <2>5, <2>10, <2>13
<1>12. PICK T : T = {k \in Nat : k <= n => Holding(f[k].bal, a) = Holding(base.bal, a) - u[k]}
  OBVIOUS
<1>13. PICK h \in Int : h = Holding(base.bal, a)
  BY <1>10
<1>14. 0 \in T
  BY <1>6, <1>8, <1>12, <1>13
<1>15. ASSUME NEW k \in Nat, k \in T PROVE k + 1 \in T
  <2>1. CASE k + 1 > n
    BY <1>12, <2>1
  <2>2. CASE k + 1 <= n
    <3>1. k + 1 \in 1..n /\ k \in 0..n /\ k + 1 \in 0..n /\ (k + 1) - 1 = k /\ k <= n
      BY <2>2
    <3>2. PICK w \in Int : w = Quote(ts[k + 1].price, ts[k + 1].qty)
      <4>1. ts[k + 1] \in TradeType
        BY <1>4, <3>1
      <4>2. QED
        BY <1>2, <4>1, PartyType
    <3>3. PICK x \in Int, y \in Int : x = u[k] /\ y = u[k + 1] /\ y = x + w
      BY <1>8, <3>1, <3>2
    <3>4. Holding(f[k].bal, a) = h - x
      BY <1>12, <1>13, <1>15, <3>1, <3>3
    <3>5. Holding(f[k + 1].bal, a) = Holding(f[k].bal, a) - w
      BY <1>11, <3>1, <3>2
    <3>6. Holding(f[k + 1].bal, a) = h - y
      BY <3>3, <3>4, <3>5
    <3>7. Holding(f[k + 1].bal, a) = Holding(base.bal, a) - u[k + 1]
      BY <1>13, <3>3, <3>6
    <3>8. k + 1 \in Nat
      OBVIOUS
    <3>9. QED
      BY <1>12, <3>7, <3>8
  <2>3. QED
    BY <2>1, <2>2
<1>16. \A k \in Nat : k \in T
  BY <1>14, <1>15, Numbers
<1>17. Holding(f[n].bal, a) = Holding(base.bal, a) - u[n]
  BY <1>12, <1>16
<1>18. f[n] \in Candidate
  BY <1>6
<1>19. QED
  BY <1>3, <1>5, <1>8, <1>17, <1>18

-----------------------------------------------------------------------------
(* The buyer pays the prices of the makers.                                 *)

\* Moving between available and locked keeps the holding.
LEMMA ReserveKeepsHolding ==
    ASSUME NEW res, NEW new, NEW account, NEW v \in Int, Reserves(res, new, account, v), NEW a \in Accounts,
           res \in Candidate
    PROVE  Holding(new.bal, a) = Holding(res.bal, a)
<1>1. PICK av \in Int, lk \in Int : av = res.bal[a].available /\ lk = res.bal[a].locked
  BY DEF Candidate, Row
<1>2. new.bal[a].available = av + At(a, account, -v) /\ new.bal[a].locked = lk + At(a, account, v)
  BY <1>1 DEF Reserves, Effect
<1>3. (av + At(a, account, -v)) + (lk + At(a, account, v)) = av + lk
  <2>1. CASE a = account
    BY <2>1 DEF At
  <2>2. CASE a # account
    BY <2>2 DEF At
  <2>3. QED
    BY <2>1, <2>2
<1>4. QED
  BY <1>1, <1>2, <1>3, Zenon DEF Holding

\* An accepted purchase costs the buyer what its plan quotes.
LEMMA SubmissionPays ==
    ASSUME NEW b, NEW subs, NEW cans, NEW o, NEW side, NEW plan, Plans(b, subs, cans, o, side, plan),
           IsBuy(o), NEW m \in [Accounts -> Row], NEW a, a = <<o.user, QuoteMint(o)>>
    PROVE  Holding(Submission(o, b[o.pair], m).bal, a) = Holding(m, a) - plan.quote
<1>1. o \in Orders /\ plan \in PlanType /\ plan = PlanOrder(o, b[o.pair][Opposite(o)])
  BY PlanFacts DEF Plans
<1>2. PICK account \in Accounts, reserved \in Int, refund \in Int :
         account = PayAccount(o) /\ reserved = Reserved(o) /\ refund = Refund(o, plan)
  BY <1>1, AmountsType
<1>3. a \in Accounts
  <2>1. o.user \in Users /\ QuoteMint(o) \in Assets
    BY <1>1, OrderType DEF QuoteMint
  <2>2. QED
    BY <2>1 DEF Accounts
<1>4. PICK start \in Candidate : start = [ok |-> plan.ok, bal |-> m] /\ start.bal = m
  <2>1. plan.ok \in BOOLEAN
    BY <1>1 DEF PlanType
  <2>2. PICK start \in Candidate : start = [ok |-> plan.ok, bal |-> m]
    BY <2>1 DEF Candidate
  <2>3. QED
    BY <2>2
<1>5. PICK locked : locked = Lock(start, account, reserved)
  OBVIOUS
<1>6. Reserves(start, locked, account, reserved)
  BY <1>5, LockReserves
<1>7. locked \in Candidate
  BY <1>6 DEF Reserves
<1>8. Holding(locked.bal, a) = Holding(m, a)
  BY <1>3, <1>4, <1>6, ReserveKeepsHolding
<1>9. PICK settled : settled = SettleAll(o, locked, plan.trades)
  OBVIOUS
<1>10. settled \in Candidate /\ Holding(settled.bal, a) = Holding(locked.bal, a) - plan.quote
  BY <1>7, <1>9, SettlementPays
<1>11. PICK freed : freed = Freed(o, plan, settled)
  OBVIOUS
<1>12. Holding(freed.bal, a) = Holding(settled.bal, a)
  <2>1. CASE refund = 0
    BY <1>2, <1>11, <2>1 DEF Freed
  <2>2. CASE refund # 0
    <3>1. freed = Unlock(settled, account, refund)
      BY <1>2, <1>11, <2>2 DEF Freed
    <3>2. PICK minus \in Int : minus = -refund
      OBVIOUS
    <3>3. Reserves(settled, freed, account, minus)
      BY <1>10, <3>1, <3>2, LockReserves
    <3>4. QED
      BY <1>3, <1>10, <3>3, ReserveKeepsHolding
  <2>3. QED
    BY <2>1, <2>2
<1>13. locked = Locked(o, plan, m)
  BY <1>2, <1>4, <1>5 DEF Locked
<1>14. Submission(o, b[o.pair], m).bal = freed.bal
  <2>1. PICK book : book = b[o.pair]
    OBVIOUS
  <2>2. plan = PlanOrder(o, book[Opposite(o)])
    BY <1>1, <2>1
  <2>3. Submission(o, book, m).bal = Freed(o, plan, SettleAll(o, Locked(o, plan, m), plan.trades)).bal
    BY <2>2, SubmissionParts, Zenon
  <2>4. QED
    BY <1>9, <1>11, <1>13, <2>1, <2>3
<1>15. QED
  BY <1>8, <1>10, <1>12, <1>14

\* The buyer pays the makers' prices for what it takes.
LEMMA SubmitPaysMakers ==
    ASSUME SoundInv, NEW o \in Orders, Submit(o), IsBuy(o), NEW a, a = <<o.user, QuoteMint(o)>>
    PROVE  Holding(bal, a) - Holding(bal', a) = SumFunction(Paid(books[o.pair].sell, books'[o.pair].sell))
<1>1. o.pair \in Pairs /\ Opposite(o) = "sell" /\ "sell" \in Sides
  BY OrderType DEF Opposite, Sides
<1>2. PICK side : side = books[o.pair][Opposite(o)]
  OBVIOUS
<1>3. PICK new : new = books'[o.pair][Opposite(o)]
  OBVIOUS
<1>4. books[o.pair].sell = side /\ books'[o.pair].sell = new
  BY <1>1, <1>2, <1>3
<1>5. a \in Accounts
  <2>1. o.user \in Users /\ QuoteMint(o) \in Assets
    BY OrderType DEF QuoteMint
  <2>2. QED
    BY <2>1 DEF Accounts
<1>6. bal \in [Accounts -> Row] /\ books \in TypedBooks /\ BookOk(books, submissions, cancellations)
  BY DEF SoundInv, FundsInv, CoreType, BookInv
<1>7. PICK h \in Int : h = Holding(bal, a)
  BY <1>5, <1>6 DEF Row, Holding
<1>8. CASE UNCHANGED <<books, bal>>
  <2>1. new = side
    BY <1>2, <1>3, <1>8
  <2>2. side \in SideType
    BY <1>1, <1>2, <1>6 DEF TypedBooks, TypedBook
  <2>3. PICK D : D = Paid(side, side)
    OBVIOUS
  <2>4. DOMAIN D = Entries(side) /\ IsFiniteSet(Entries(side))
    BY <2>2, <2>3, EntriesAre DEF Paid
  <2>5. ASSUME NEW m \in Entries(side) PROVE D[m] = 0
    <3>1. Left(side, m) = m.remaining /\ m.remaining \in Int /\ m.price \in Int
      BY <1>1, <1>2, <1>6, LeftAlone
    <3>2. m.remaining - Left(side, m) = 0
      BY <3>1
    <3>3. D[m] = Quote(m.price, m.remaining - Left(side, m))
      BY <2>3 DEF Paid
    <3>4. QED
      BY <3>1, <3>2, <3>3, NothingQuoted
  <2>6. D \in [Entries(side) -> Int]
    BY <2>3, <2>5 DEF Paid
  <2>7. SumFunction(D) = 0
    <3>1. Numeric(D)
      BY <2>4, <2>6 DEF Numeric
    <3>2. QED
      BY <2>4, <2>5, <3>1, SumZero
  <2>8. Holding(bal', a) = h
    BY <1>7, <1>8
  <2>9. Holding(bal, a) - Holding(bal', a) = 0
    BY <1>7, <2>8
  <2>10. QED
    BY <1>4, <2>1, <2>3, <2>7, <2>9
<1>9. CASE \E plan : /\ Plans(books, submissions, cancellations, o, side, plan) /\ SoundSide(side)
                     /\ books'[o.pair][Opposite(o)] = ApplyPrepared(side, plan)
                     /\ bal' = Submission(o, books[o.pair], bal).bal
  <2>1. PICK plan : /\ Plans(books, submissions, cancellations, o, side, plan) /\ SoundSide(side)
                    /\ new = ApplyPrepared(side, plan) /\ bal' = Submission(o, books[o.pair], bal).bal
    BY <1>3, <1>9
  <2>2. plan.quote \in Int /\ SumFunction(Paid(side, new)) = plan.quote
    BY <2>1, PlanPays
  <2>3. Holding(bal', a) = h - plan.quote
    BY <1>6, <1>7, <2>1, SubmissionPays
  <2>4. Holding(bal, a) - Holding(bal', a) = plan.quote
    BY <1>7, <2>2, <2>3
  <2>5. QED
    BY <1>4, <2>2, <2>4
<1>10. QED
  BY <1>2, <1>8, <1>9, SubmitSide

\* A buyer pays for a submission exactly what its trades cost at the makers'
\* prices: the reservation beyond that comes back in the same step.
THEOREM BuyerPaysMakerPrice == Spec => TradesAtMakerPrice
<1>1. SoundInv /\ [Next]_vars
      => [\A o \in submissions' \ submissions : IsBuy(o) =>
             Holding(bal, <<o.user, QuoteMint(o)>>) - Holding(bal', <<o.user, QuoteMint(o)>>)
             = SumFunction([m \in Entries(books[o.pair].sell) |->
                               Quote(m.price, m.remaining - Left(books'[o.pair].sell, m))])]_vars
  BY NewSubmission, SubmitPaysMakers DEF Paid
<1>2. QED
  BY <1>1, SoundInitially, SoundStep, PTL DEF Spec, TradesAtMakerPrice
===============================================================================
