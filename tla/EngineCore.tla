------------------------------ MODULE EngineCore ------------------------------
(***************************************************************************)
(* The state the core thread owns (EngineState) and journal::apply on it:  *)
(* one action per Command.  The core is single threaded and replay calls   *)
(* the same function, so an action is one application.                     *)
(***************************************************************************)
EXTENDS Matching

CONSTANTS
    Users, Assets,
    Pairs,        \* trading pairs <<base, quote>>
    Orders,       \* the orders that may be submitted
    Credits,      \* the deposits that may be credited
    Withdrawals,  \* the withdrawals (funds) that may be commanded
    Adjustments,  \* <<account, amount>> of the Balance, Lock and Unlock commands
    Genesis       \* available balances of the genesis record

Accounts == Users \X Assets

ASSUME CoreAssumption ==
    /\ Pairs \subseteq {p \in Assets \X Assets : p[1] # p[2]}
    /\ Genesis \in [Accounts -> Units] /\ IsFiniteSet(Users)
    /\ \A o \in Orders : /\ o.user \in Users /\ o.pair \in Pairs
                         /\ o.type \in {"buy", "sell"} /\ o.price \in Prices \cup {0}
                         /\ {o.amount, o.budget, o.fee} \subseteq Int
    /\ \A d \in Credits \cup Withdrawals : <<d.user, d.asset>> \in Accounts /\ d.amount \in Int
    /\ Adjustments \subseteq Accounts \X Int

VARIABLES
    books,          \* orderbooks
    bal,            \* balance cache
    submissions,    \* every order submitted, rejected ones too
    cancellations,  \* entries as they were when cancelled
    deposits,       \* deposit receipts: [credit, rejected]
    withdrawals,    \* withdrawal receipts: [funds, status]
    fees,           \* history: fees withheld, per asset
    adjusted,       \* history: net amount of Balance commands, per asset
    manual          \* history: net amount of Lock commands, per account

vars == <<books, bal, submissions, cancellations, deposits, withdrawals,
          fees, adjusted, manual>>

Init ==
    /\ books = [p \in Pairs |-> EmptyBook]
    /\ bal = [a \in Accounts |-> [available |-> Genesis[a], locked |-> 0]]
    /\ submissions = {} /\ cancellations = {}
    /\ deposits = {} /\ withdrawals = {}
    /\ fees = [a \in Assets |-> 0]
    /\ adjusted = [a \in Assets |-> 0]
    /\ manual = [a \in Accounts |-> 0]

BookEntries(b) == Entries(b.buy) \cup Entries(b.sell)
AllEntries == UNION {BookEntries(books[p]) : p \in Pairs}
Unchecked == [ok |-> TRUE, bal |-> bal]

-----------------------------------------------------------------------------
\* Fees of a submission's trades in one asset.
FeesOf(o, trades, a) ==
    FoldLeft(LAMBDA sum, t : sum + (IF a = Base(o) THEN BuyerFee(o, t)
                                    ELSE IF a = QuoteMint(o) THEN SellerFee(o, t) ELSE 0),
             0, trades)

\* Mutation of Submit: a repeated id is recognised only while it rests.
SubmitChecksBook(o) ==
    \/ /\ \E e \in AllEntries : e.id = o.id
       /\ UNCHANGED vars
    \/ /\ \A e \in AllEntries : e.id # o.id
       /\ submissions' = submissions \cup {o}
       /\ LET next == Submission(o, books[o.pair], bal)
          IN  IF next.ok
              THEN /\ books' = [books EXCEPT ![o.pair] = next.book]
                   /\ bal' = next.bal
                   /\ fees' = [a \in Assets |-> fees[a] + FeesOf(o, next.trades, a)]
              ELSE UNCHANGED <<books, bal, fees>>
       /\ UNCHANGED <<cancellations, deposits, withdrawals, adjusted, manual>>

\* Command::Submit.  A known id changes nothing, whether the content agrees
\* (Ok) or not (Conflict); a new one is remembered even when it is rejected.
Submit(o) ==
    \/ /\ \E s \in submissions : s.id = o.id
       /\ UNCHANGED vars
    \/ /\ \A s \in submissions : s.id # o.id
       /\ submissions' = submissions \cup {o}
       /\ LET next == Submission(o, books[o.pair], bal)
          IN  IF next.ok
              THEN /\ books' = [books EXCEPT ![o.pair] = next.book]
                   /\ bal' = next.bal
                   /\ fees' = [a \in Assets |-> fees[a] + FeesOf(o, next.trades, a)]
              ELSE UNCHANGED <<books, bal, fees>>
       /\ UNCHANGED <<cancellations, deposits, withdrawals, adjusted, manual>>

\* Command::Cancel.  Order not found, not the owner, or a failed release of
\* the reservation leave the book alone; a repeated cancellation is answered
\* from the first one.
Reservation(e) == IF IsBuy(e) THEN Quote(e.price, e.remaining) ELSE e.remaining
Cancel(id, user, pair) ==
    LET found == {e \in BookEntries(books[pair]) : e.id = id}
        e     == CHOOSE x \in found : TRUE
        freed == Unlock(Unchecked, <<user, PayMint(e)>>, Reservation(e))
    IN  IF /\ \A c \in cancellations : c.id # id
           /\ found # {} /\ e.user = user
           /\ IsBuy(e) => QuoteExact(e.price, e.remaining)
           /\ books[pair][e.type].total > 0
           /\ freed.ok
        THEN /\ bal' = freed.bal
             /\ books' = [books EXCEPT ![pair][e.type] = RemoveOrder(@, e)]
             /\ cancellations' = cancellations \cup {e}
             /\ UNCHANGED <<submissions, deposits, withdrawals, fees, adjusted, manual>>
        ELSE UNCHANGED vars

\* Mutation of CreditDeposit: only the same content is a repetition.
CreditByContent(d) ==
    LET next == Move(Unchecked, <<d.user, d.asset>>, d.amount, 0)
    IN  IF [credit |-> d, rejected |-> FALSE] \in deposits \/ d.amount \notin Units \ {0}
        THEN UNCHANGED vars
        ELSE /\ deposits' = {r \in deposits : r.credit.id # d.id}
                            \cup {[credit |-> d, rejected |-> ~next.ok]}
             /\ bal' = IF next.ok THEN next.bal ELSE bal
             /\ UNCHANGED <<books, submissions, cancellations, withdrawals, fees,
                            adjusted, manual>>

\* Command::CreditDeposit.  The receipt binds the id to the first content
\* and to the first result, a rejection included.
CreditDeposit(d) ==
    LET next == Move(Unchecked, <<d.user, d.asset>>, d.amount, 0)
    IN  IF (\E r \in deposits : r.credit.id = d.id) \/ d.amount \notin Units \ {0}
        THEN UNCHANGED vars
        ELSE /\ deposits' = deposits \cup {[credit |-> d, rejected |-> ~next.ok]}
             /\ bal' = IF next.ok THEN next.bal ELSE bal
             /\ UNCHANGED <<books, submissions, cancellations, withdrawals, fees,
                            adjusted, manual>>

\* Command::Withdrawal.  Only a reserved withdrawal can be released or
\* completed, only an unknown one reserved, and only with the same content.
Receipts(id) == {r \in withdrawals : r.funds.id = id}
Result(action) == CASE action = "reserve"  -> "reserved"
                    [] action = "release"  -> "released"
                    [] action = "complete" -> "completed"
\* Mutation of MayWithdraw: a released withdrawal can be released again.
MayReleaseAgain(w, action) ==
    /\ w.amount \in Units \ {0}
    /\ IF Receipts(w.id) = {} THEN action = "reserve"
       ELSE \E r \in Receipts(w.id) :
                /\ r.funds = w /\ action # "reserve"
                /\ r.status = "reserved" \/ (r.status = "released" /\ action = "release")

\* Mutation of MayWithdraw: a rejected reservation can be tried again.
MayRetryRejected(w, action) ==
    /\ w.amount \in Units \ {0}
    /\ IF Receipts(w.id) = {} THEN action = "reserve"
       ELSE \E r \in Receipts(w.id) :
                r.funds = w /\ IF r.status = "rejected" THEN action = "reserve"
                               ELSE r.status = "reserved" /\ action # "reserve"

MayWithdraw(w, action) ==
    /\ w.amount \in Units \ {0}
    /\ IF Receipts(w.id) = {} THEN action = "reserve"
       ELSE \E r \in Receipts(w.id) :
                r.funds = w /\ r.status = "reserved" /\ action # "reserve"
Withdraw(w, action) ==
    LET account == <<w.user, w.asset>>
        next    == CASE action = "reserve"  -> Lock(Unchecked, account, w.amount)
                     [] action = "release"  -> Unlock(Unchecked, account, w.amount)
                     [] action = "complete" -> Move(Unchecked, account, 0, -w.amount)
        status  == IF next.ok THEN Result(action) ELSE "rejected"
    IN  IF MayWithdraw(w, action) /\ (next.ok \/ action = "reserve")
        THEN /\ withdrawals' = (withdrawals \ Receipts(w.id))
                               \cup {[funds |-> w, status |-> status]}
             /\ bal' = IF next.ok THEN next.bal ELSE bal
             /\ UNCHANGED <<books, submissions, cancellations, deposits, fees,
                            adjusted, manual>>
        ELSE UNCHANGED vars

\* Command::Balance: an exact signed change of the available amount.
Balance(account, delta) ==
    LET next == Move(Unchecked, account, delta, 0)
    IN  /\ next.ok
        /\ bal' = next.bal
        /\ adjusted' = [adjusted EXCEPT ![account[2]] = @ + delta]
        /\ UNCHANGED <<books, submissions, cancellations, deposits, withdrawals,
                       fees, manual>>

\* Command::Lock and Command::Unlock: reservations without an order.
LockBalance(account, value) ==
    LET next == Lock(Unchecked, account, value)
    IN  /\ next.ok
        /\ bal' = next.bal
        /\ manual' = [manual EXCEPT ![account] = @ + value]
        /\ UNCHANGED <<books, submissions, cancellations, deposits, withdrawals,
                       fees, adjusted>>

UnlockBalance(account, value) ==
    LET next == Unlock(Unchecked, account, value)
    IN  /\ next.ok
        /\ bal' = next.bal
        /\ manual' = [manual EXCEPT ![account] = @ - value]
        /\ UNCHANGED <<books, submissions, cancellations, deposits, withdrawals,
                       fees, adjusted>>

-----------------------------------------------------------------------------
Next ==
    \/ \E o \in Orders : Submit(o)
    \/ \E o \in Orders, u \in Users : Cancel(o.id, u, o.pair)
    \/ \E d \in Credits : CreditDeposit(d)
    \/ \E w \in Withdrawals, action \in {"reserve", "release", "complete"} :
           Withdraw(w, action)
    \/ \E x \in Adjustments :
           \/ Balance(x[1], x[2]) \/ Balance(x[1], -x[2])
           \/ LockBalance(x[1], x[2]) \/ UnlockBalance(x[1], x[2])

Spec == Init /\ [][Next]_vars

-----------------------------------------------------------------------------
(* Properties.                                                              *)

\* No asset is created or lost: what customers hold plus the fees withheld is
\* what the genesis, the deposits and the adjustments brought in less what
\* the completed withdrawals took out (settlement.rs, deposit.rs,
\* withdrawal.rs, and the refund of submission.rs); and no account is ever
\* negative or beyond NUMERIC(30,9), whatever fails half way.
InRange == \A a \in Accounts : bal[a].available \in Units /\ bal[a].locked \in Units
Conservation ==
    InRange /\ \A a \in Assets :
        SumFunction([u \in Users |-> bal[<<u, a>>].available + bal[<<u, a>>].locked]) + fees[a]
        = SumFunction([u \in Users |-> Genesis[<<u, a>>]]) + adjusted[a]
          + SumFunction([r \in {d \in deposits : ~d.rejected /\ d.credit.asset = a}
                            |-> r.credit.amount])
          - SumFunction([r \in {w \in withdrawals : w.status = "completed" /\ w.funds.asset = a}
                            |-> r.funds.amount])

\* Orders and withdrawals share one locked amount, and it is exactly the sum
\* of their shares: no partial fill, refund, cancellation, release or
\* completion takes from another reservation (docs/decisions/023).
LockedIsReserved ==
    \A a \in Accounts :
        bal[a].locked = manual[a]
            + SumFunction([e \in {x \in AllEntries : <<x.user, PayMint(x)>> = a}
                              |-> Reservation(e)])
            + SumFunction([r \in {w \in withdrawals : w.status = "reserved"
                                                      /\ <<w.funds.user, w.funds.asset>> = a}
                              |-> r.funds.amount])

\* Two customers' resting orders never cross: whatever could trade did, in
\* spite of skipped own orders (matcher.rs plan_levels).
NoCrossedStrangers ==
    \A p \in Pairs : \A b \in Entries(books[p].buy), s \in Entries(books[p].sell) :
        b.price >= s.price => b.user = s.user

\* Every resting entry is at its price, adds up, and can be released exactly,
\* and the cached counter of a side agrees with its queues: a cancellation
\* fails neither for rounding nor for a counter that is zero too early
\* (matcher.rs, threads.rs).
RestingSound ==
    \A p \in Pairs : \A side \in {"buy", "sell"} :
        /\ books[p][side].total = SumFunction([x \in Prices |-> Len(books[p][side].levels[x])])
        /\ \A price \in Prices : \A e \in ToSet(books[p][side].levels[price]) :
              /\ ValidEntry(e, price) /\ e.type = side /\ e.pair = p
              /\ IsBuy(e) => QuoteExact(price, e.remaining)

\* An order that is filled, cancelled, expired or rejected never comes back
\* to the book: the submission index survives whatever happened to it.
Rests(b, id) == \E p \in Pairs : \E e \in BookEntries(b[p]) : e.id = id
NeverRestsAgain ==
    [][\A s \in submissions : Rests(books', s.id) => Rests(books, s.id)]_vars

\* Nothing rewrites a receipt: first content and first result of a deposit
\* stay, a rejected, released or completed withdrawal stays what it is.
ReceiptsAreFinal ==
    [][/\ deposits \subseteq deposits'
       /\ submissions \subseteq submissions' /\ cancellations \subseteq cancellations'
       /\ \A r \in withdrawals :
             r \in withdrawals' \/ (r.status = "reserved" /\
                 \E n \in withdrawals' : n.funds = r.funds
                                         /\ n.status \in {"released", "completed"})]_vars

\* Price-time order of two makers on the same side.
Before(side, m, n) ==
    \/ IF IsBuy(m) THEN m.price > n.price ELSE m.price < n.price
    \/ /\ m.price = n.price
       /\ \E i, j \in DOMAIN side.levels[m.price] :
             i < j /\ side.levels[m.price][i] = m /\ side.levels[m.price][j] = n
Left(side, m) == SumFunction([e \in {x \in Entries(side) : x.id = m.id} |-> e.remaining])

\* In a step that submits o, a maker trades only if everyone ahead of it is
\* filled or belongs to the taker.
PriorityKept(o) ==
    LET old == books[o.pair][Opposite(o)]
        new == books'[o.pair][Opposite(o)]
    IN  \A m, n \in Entries(old) :
            Before(old, m, n) /\ Left(new, n) < n.remaining /\ m.user # o.user
                => Left(new, m) = 0

\* Orders that give a quantity keep price-time priority, also after partial
\* fills and skipped own orders (orderbook.rs apply_prepared_orders).
QuantityOrdersKeepPriority ==
    [][\A o \in submissions' \ submissions : ~IsBudget(o) => PriorityKept(o)]_vars

\* Every order keeps price-time priority.
AllOrdersKeepPriority ==
    [][\A o \in submissions' \ submissions : PriorityKept(o)]_vars

\* Nobody overtakes in a queue: entries that stay keep their relative order,
\* whoever traded, was skipped or was cancelled.
FifoKept ==
    [][\A p \in Pairs : \A side \in {"buy", "sell"} : \A price \in Prices :
          LET old == books[p][side].levels[price]
              new == books'[p][side].levels[price]
          IN  \A i, j \in DOMAIN old : \A k, n \in DOMAIN new :
                  i < j /\ old[i].id = new[k].id /\ old[j].id = new[n].id => k < n]_vars

\* Trades execute at the maker's price: what the taker pays or is charged
\* for is the sum over the makers of price times quantity, never its own
\* limit (matcher.rs; submission.rs returns the price improvement).
Holding(b, account) == b[account].available + b[account].locked
TradesAtMakerPrice ==
    [][\A o \in submissions' \ submissions : IsBuy(o) =>
          LET new == books'[o.pair].sell
          IN  Holding(bal, <<o.user, QuoteMint(o)>>) - Holding(bal', <<o.user, QuoteMint(o)>>)
              = SumFunction([m \in Entries(books[o.pair].sell) |->
                                Quote(m.price, m.remaining - Left(new, m))])]_vars
===============================================================================
