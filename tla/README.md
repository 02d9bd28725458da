# Cex-Engine: TLA+ models, checks and proofs

Cex-Engine is a single-writer matching engine. Callers send commands through two
bounded channels; one core thread owns all trading state and computes; a journal
worker commits commands with their outcomes to SQLite in groups and only then
answers; an output worker publishes committed outcomes to Kafka and moves a
delivery cursor. A restart replays the journal and delivers what is outstanding
before it opens.

All source paths below are relative to `src/src/`; `engine/` stands for
`domains/cex/engine/` and `runtime/` for `domains/cex/engine/runtime/`.

## 1. Inventory

| Component | State it keeps | Operations | What makes it correct |
|---|---|---|---|
| Exact amounts, `engine/amount.rs` | none | quote, quantity_for_budget, fee, add, subtract | exact or refused, largest exact quantity, fees never exceed |
| Order book and matcher, `engine/orderbook.rs`, `engine/matcher.rs` | queues per price, cached counter | add, remove, plan_order, commit_book | price-time priority, nobody overtakes, no crossed strangers, counter agrees |
| Balances and settlement, `engine/balance_cache*`, `engine/executor.rs` | available and locked per account | lock, unlock, settle_trade, commit_prepared | conservation, locked = sum of reservations, limits |
| Command application, `runtime/journal.rs`, `submission.rs`, `deposit.rs`, `withdrawal.rs`, `threads.rs::cancel_order` | books, balances, four receipt indexes | Submit, Cancel, CreditDeposit, Withdrawal, Balance, Lock, Unlock | all or nothing, receipts final, a known order never rests again |
| Core thread, `runtime/threads.rs` | owns EngineState | receive, apply, publish | a reserved slot stays free, order of effects |
| Journal worker, `runtime/journal/store.rs` | records, Progress.durable | group, append, answer | answer after commit, journal is the core's history |
| Output worker, `runtime/output.rs` | cursor, Progress.delivered | baseline, send, mark_delivered | no gap, no foreign result, cursor after acknowledgement, drained at halt |
| Control, `runtime/engine.rs`, `main.rs` | thread handles, flags | start, halt | start delivers first, halt returns |
| Callers, `runtime/handle.rs` | one reply channel per call | send_order, send_balance, timeouts | refusal, answer and unknown outcome are told apart |
| Ownership, genesis, `runtime/journal/store.rs`, `runtime/startup.rs` | owner.lock, genesis row | acquire, open, initialize, load_balances, recover | one owner, one genesis, nothing answered is forgotten, a stopped engine can be started again |
| Market projection, `runtime/market.rs` | aggregated book, latest snapshots | apply, reduce, baseline | agrees with the core book, snapshots form a chain |
| Audit reader, `runtime/audit.rs` | none (reads the journal) | page | a walk is complete although the journal grows |
| Order receipt and service, `domains/cex/services/` | receipts in the platform database | create_order, accept, cancel_order | one content per order id, refusals and successes are final |
| HTTP handlers, `domains/cex/handlers/` | none | create_order, cancel_order, credit_deposit, change_withdrawal | a status code stays true |
| Routes, service identity, health, order repository, Kafka client, configuration, bench mode | none of their own | | |

How they interact: HTTP request → (for an order: acceptance transaction in the
platform database) → two channels → core (priority to the balance
channel) → journal channel with the outcome and the reply sender → SQLite → reply,
and `Progress.durable` → output worker → Kafka → cursor in the same SQLite file.
`closed` is one flag that any worker sets when it ends and that callers and the
core read. The hard behaviours are the ones between these steps: crashes, a
commit whose result is unknown, an acknowledgement that is lost, a channel that is
full while the engine halts, two atomics read one after the other, retries after an
unknown outcome, and in the core long sequences of partial fills, refunds, releases
and cancellations that share one locked amount. `PROJECT.json` lists them as
hazards, each at its line.

## 2. Modules

| Module | Contents |
|---|---|
| `EnginePipeline` | the three threads, the control thread and the callers |
| `CommandLog` | abstract: what callers and the platform are promised |
| `EngineRefinement` | the refinement mapping from EnginePipeline to CommandLog |
| `Amount`, `AmountCheck` | amounts as operators; the comparison with reference definitions |
| `Matching` | books, matching, settlement and submission as operators on values |
| `EngineCore` | EngineState and one action per command |
| `MarketProjection` | EngineCore composed with the public aggregation of the output worker |
| `CommandHttp` | EngineCore composed with the handlers and EngineHandle: deposits, withdrawals, cancellations |
| `OrderIntake` | orders over HTTP: validation, acceptance transaction, submission |
| `Startup` | ownership, first bootstrap, replay, several processes on one directory |
| `Audit` | Startup composed with an auditor who pages through the journal |
| `MCEnginePipeline`, `MCEngineCore`, `MCMarketProjection`, `MCCommandHttp`, `MCOrderIntake`, `MCStartup`, `MCAudit` | instances for TLC |
| `AmountProofs` | induction in its set form, folds as runs, sums over finite sets, Euclid's algorithm |
| `AmountCheckProofs` | quantities bought by a budget, fees of split fills |
| `EngineCoreProofs` | receipts, queues, plans, funds, reservations, priority |
| `MarketProofs` | the feed and the public book |
| `PipelineProofs` | the threads: durability, later calls, delivery and halt, the step simulation of CommandLog |
| `OrderIntakeProofs` | refusals, successes and contents of orders |
| `StartupProofs` | ownership, genesis and replay, and the auditor's walk |
| `CommandHttpProofs` | status codes of deposits, withdrawals and cancellations |

### EnginePipeline

The two models meet at `journal::apply`. It is deterministic, so `EnginePipeline`
represents EngineState by the sequence of records whose application produced it
(`state`), and `EngineCore` says what an application does. A record keeps the
request, the attempt and `batch`, whether the outcome carries an OutputBatch. A new
request may succeed or fail here, a request that already gave a result gives no
second one (the receipts are part of the state, so of the records).

| Variable | Code |
|---|---|
| `orderQ`, `balanceQ` | the input channels, `bounded(100_000)` |
| `corePc`, `hand` | position in `engine_thread_loop`, the order command received |
| `pipe`, `grp`, `ins`, `txn` | Pending items from the worker's group to the end of the channel; the first `grp` are the group, `ins` of them handled by the open transaction, `txn` its rows |
| `durable`, `jDone`, `delivered` | `Progress` and the delivery row |
| `journal`, `kafka` | what survives a crash, with `delivered` |
| `closed`, `phase` | the entrance flag; `running` is its negation once the core runs |
| `client`, `acked` | what each caller knows; history of the largest acknowledged position |

Each action is one step between two points where another thread can act: the
capacity check, `try_recv`, `recv_timeout` and the second check of `closed` are
separate steps of the core; receiving a group, each insert, the commit, the store
of `durable` and each reply are separate steps of the journal worker; the two reads
of `durable` are separate steps of the output worker. `JournalFail` stands for a
failure anywhere in `append`; when the commit itself fails the rows may or may not
be on disk. `OutFail` stands for a failed send, a lost acknowledgement, a failed
read and a failed cursor update. `Crash` may happen in any step; the memory is gone.

The market snapshot of a record counts as its last message. Snapshots repeated at
start (`OutBaseline`) are not recorded in `kafka`, they repeat earlier ones. A
command without an identifier (Balance, Lock, Unlock) is a new request at each call.

### Amount, Matching, EngineCore

A Decimal is its number of units; `Factor` (10^9) is small in the instances so that
inexact quotes occur. `MaxUnits` is the NUMERIC(30,9) limit and also stands for the
values that Decimal cannot represent. Missing balance rows behave as zero rows in
every operation. Format checks on identifiers, asset names and fee scale are left
out. `Submission` computes the candidate and a flag that says whether every check
passed; `Submit` publishes it or leaves books and balances alone, and in both cases
remembers the order. `Keep` is SelectSeq by positions, and `Makers` lists the reachable entries by the
number of entries ahead of them (better price, or same price and earlier in the
queue): the nested loops of `plan_levels` in a form the prover can reason about. `fees`, `adjusted` and `manual` are history variables that only
the properties read (the code keeps the fees in the journal).

### CommandLog, EngineRefinement

`CommandLog` has no threads: a log of committed commands that only grows
(`Settle`), callers that are pending, refused, answered with a position of the log
or left without an answer, and an outlet whose messages appear in order, possibly
again. Its promises: what is refused is never committed, an attempt is committed at
most once and a command gives at most one result, a command is answered with the
position of its own record, a query with a prefix of the log that holds everything
anyone had been told before it was sent, the cursor passes only what the outlet has.

The mapping: `log` is the journal file, `outlet` is Kafka, `told` and `cursor` are
the history variable `acked` and the delivery row. `open` is the set of attempts
that may still be committed: a command between the check of `closed` and `try_send`,
in a channel, in the hand of the core, or in the journal pipe before the commit. So
an attempt leaves `open` by its commit, by a refusal, or when a worker or the
process is gone.

### MarketProjection

A step of the core and its commit are one step here (that nothing uncommitted is
read is EnginePipeline's matter). `market` is `Projection`: the index of resting
orders, the quantity per level (0 for an absent level), the last sequence and the
latest snapshot per market; `ok` becomes false where `apply` returns an error or
panics. `Replay`, `Baseline`, `ApplyAndSend`, `MarkDelivered` are the parts of
`run_store` between which the process may end. A failed send is a `Restart` before
or after the step, with the message on the topic or not. Decimal text is left out, the depth
(20) is the constant `Depth`.

### OrderIntake

One action per SQL statement of `accept`, so that other requests and the platform
act between any two of them. `receipts` are committed rows, `inserted` the
uncommitted row that makes a second insert wait for the primary key, `shared` the
FOR SHARE locks that make an update of the platform wait. `Readable` is the join
with its conditions. An error drops the transaction, which rolls back and frees the
locks (`Answer`): `StatementFails` stands for an error of any statement before the
commit, a fee rate that `amount::fee` refuses ends the request in the same way, and
`CommitFails` leaves the row stored or not. The engine is the one
CommandLog promises, reduced to a queue, the set of known submissions and an answer
that may come after the timeout. A second content under a known id reaches the
handler as an error without a ReceiptError inside (the outcome is a string by
then), hence 503. The platform may close the order or change the fee of its
original by SQL, both only while nobody holds the row.

### CommandHttp

`Arrive`, `Send` and `Expire` are the handler and EngineHandle up to the check of
`closed`, `try_send` and the timeout (the engine object keeps a receiver of each
channel, so `try_send` meets a full channel but never a disconnected one); `ServeBalance` and `ServeOrder` are the core
with the actions of EngineCore and the reply of `Pending::finish`. Every error of a
cancellation is 400. A command whose caller has gone stays in its channel. `Close`
and `Restart` refuse new calls and drop what is in the channels.

### Startup, Audit

The state of an engine is the sequence of commands it has executed, so "counted
twice" and "forgotten" are visible without amounts. The steps are those of
`Ownership::acquire` (look, open, flock), `start` (check, open the store, schema,
load, initialize, recover) and `halt`. The platform writes its own record before it
sends (pending order, dispatch attempt, withdrawal row): that is what
`load_balances` inspects. Faults: a crash or an error in any step, a power failure
that may take each file name that was not flushed with the directory, and, while no
process is up, loss of the journal file, loss of the directory (or another path),
a damaged record (`Damage`) and a missing one (`LoseRecord`). `Whole` is what
`recover` checks: the genesis, no gap before the last record that is there, every
checksum, and a cursor that is not ahead. A record missing in the middle is a gap
(`gone`), and a missing end is seen when the cursor has passed it. Records that vanish
from the end before they were delivered are seen by neither check
(`runtime/journal/store.rs:199-214`): the shorter journal is accepted, and the next
commit writes at the old place. The history variable `cut` collects those commands,
and the properties except them. A page of the audit is one SQLite read transaction
and so one step.

## 3. Runs

| Run | Instance | Shows |
|---|---|---|
| `pipeline_crash` | one order command, one balance command; channels of 1, journal channel of 2, groups of 2; two crashes, two faults | durability, journal and core agree, Kafka without gap, halt drains, RealTimeOrder with both channels in use, CommandLog is implemented |
| `pipeline_retry` | one order command and one query, each sent up to twice, one crash | AppliedOnce, RealTimeOrder with a query, PublishHasRoom, CommandLog is implemented |
| `pipeline_live` | one command per channel, journal channel of 1, one crash, one fault, fairness | halt returns, durable is delivered, accepted is answered |
| `trading` | eight orders of three customers, all submissions and cancellations | eight properties of books, balances and trades |
| `funds` | three orders (one id with two contents), deposits and withdrawals with repeated and conflicting ids, Balance, Lock and Unlock commands, limit 8 | conservation, reservations, final receipts |
| `amounts` | Factor 12, amounts to 14, prices to 26, rates to 5/12 | reference definitions |
| `market` | two markets with one quote asset, six orders (one a market buy by budget) and a deposit, four records, one restart, published depth 1 | public book = core book, unbroken chain, complete baseline |
| `intake` | three requests for one order, one with another content, two tries, three fees of which one is refused, one failed statement or commit, crash or edit | refusals and successes are final, one content per id, everyone is answered |
| `http` | three mixes of calls (one deposit id with two contents and an invalid one; one withdrawal reserved, released and completed at once; cancellations by owner and stranger beside a deposit) around two orders, channels of 2, two tries, one stop | status codes stay true |
| `startup` | two processes, one directory, one command of each kind of which two are sent, two crashes or power failures, two losses | nothing answered is forgotten, one lineage, refused directories have served nobody, restartable |
| `audit` | one process, three commands, one crash, one loss; pages of up to three records of which two fit | the walk is complete |
| `priority` | as `trading` | expected violation, see below |

What the less obvious properties say:

- *ImplementsCommandLog*: group commit, two channels, queries in the journal queue,
  failed commits, halts and crashes are invisible from outside. A `try_send` that is
  done before the check of `closed` breaks it: a refused call would be executed.
- *RealTimeOrder*: what anybody was told before a call began is visible to that call:
  `pipeline_crash` has a balance command that overtakes an order, `pipeline_retry` a
  query behind commands that are not on disk yet.
- *PublicBookIsCoreBook*: two independent computations of the resting quantities
  agree, and the worker never meets a record it cannot apply.
- *ChainIsUnbroken*: `previous_sequence` is a snapshot already on the topic, and no
  record of that market lies between; what is sent twice is identical.
- *RefusedNeverAccepted*: 400 for the command the platform itself has stored is
  final. It needs the lock and the second lookup of `accept`.
- *SuccessIsJournaled*: nothing is executed without its receipt, with the accepted fee;
  the refusal of a second bootstrap in `startup.rs` relies on it.
- *AnswersHold*: whatever late commands and retries do, 200 and 409 remain true; a
  rejected deposit is never credited afterwards, a finished withdrawal never changes.
- *NothingAnsweredIsForgotten*: an engine that serves knows every command that any
  engine answered, once, except those that vanished undelivered from the end of the
  journal. A `recover` without the check for gaps breaks it, and so does a bootstrap
  that overlooks deposits on their way.
- *AuditIsComplete*: three commands let the journal grow inside an unfinished walk and
  make a page too large for its limit of bytes.
- *RefusedHasServedNobody*: the directory that a crash between `owner.lock` and the
  journal leaves behind, and that every later start refuses, can be cleared.

Bounds. An order command and a query, or two commands, are enough for a group with a
query behind a command, for both channels to be occupied and for a second group
behind a committed one; two attempts reach a retry after a restart. A journal channel of
one slot is the case in which halt meets a full channel. Factor 12 has divisors, so
the step of a price takes several values; Factor 2 with price 3 makes odd
quantities inexact. Four records reach two partial fills of one maker or a fill and
a cancellation, with the second market between. Three requests give a winner, a loser and
a conflicting one; two valid fees make a stale one visible. Two processes are the smallest
race for the directory, two commands are a delivered and an undelivered one, and a crash with
a later loss of the file is the worst order of faults; two losses are a missing record before a damaged
one, or a lost end after a gap. MaxAttempts, MaxCrashes, MaxFaults and the like bound
the models, not the code; the theorems hold for every value of them.

Fairness. `pipeline_live`: weak fairness for the core, the journal worker, the
output worker and the control thread: they are operating system threads that never
wait for a condition only a caller can give, and the container is restarted
(`restart: unless-stopped` in `docker-compose.yml` and `docker-compose.prod.yml`).
`intake`: weak fairness for the steps of a request, statements, submission and
timer, because the database answers or fails and the timer of ten seconds expires;
neither the engine nor the platform is fair. `startup`: weak fairness for the steps
of a start (restarted container), the commit of what is pending and the end of a
halt. Nothing obliges a caller to call, a halt, a fault or a crash to happen, and no fault
is obliged to end. DurableIsDelivered excepts an engine that has closed itself after
a fault and keeps serving refusals until an operator stops it: main does not stop by
itself.

Deadlock is checked except in `amounts`, which ends after two steps, and in
`market`, `intake` and `http`, where nothing is left to do once the bounded records,
tries and restarts are used up.

Expected violation.

- `priority`: `engine/orderbook.rs:11-13` states price-time priority for all
  orders. A market buy by budget passes over a maker from whom the budget buys no exact
  quantity (`engine/matcher.rs:109`) and trades with a worse-priced one
  (AllOrdersKeepPriority). Orders that give a quantity keep the
  priority (QuantityOrdersKeepPriority, run `trading`).

The comment at `services/order_receipt.rs:171-172`, that the loser of the primary key
must not send a new command, holds in the sense that matters: what the loser sends is
the winner's receipt again (EngineNeverConflicts, run `intake`).

## 4. Proofs

Theorems about `EnginePipeline!Spec` hold for arbitrary disjoint sets of requests,
arbitrary message counts, any positive capacities and group size and any bounds
(`RequestsAssumption`, `BoundsAssumption`).

| Theorem | Statement | Inductive invariant |
|---|---|---|
| `TypeCorrect` | `[]TypeOK` | `TypeInv`: TypeOK, and cursors within the journal (CursorInv) |
| `JournalIsCoreHistory` | `[]JournalFollowsCore` | `LogInv` |
| `AnswersSurvive` | `[]AnswersAreDurable` | `LogInv` and the property |
| `PublishNeverFull` | `[]PublishHasRoom` | the property, over `LogInv` |
| `ResultsAreUnique` | `[]AppliedOnce` | `RetryInv`: once on disk and once in the core's history |
| `LaterCallsSeeEarlierAnswers` | `[]RealTimeOrder` | `TimeInv`: every attempt in a channel or in flight carries at least the floor of its caller |
| `DeliveryCorrect` | `[](KafkaMatchesJournal /\ CursorIsDelivered /\ KafkaHasNoGap)` | `DeliveryInv`: with the messages already sent of the record at the cursor |
| `HaltLeavesNothing` | `[]HaltDrains` | `HaltInv`: which thread has ended, and what it left in the channel, on disk and at the cursor |
| `ThreadsImplementTheLog` | `ImplementsCommandLog` | `FlightInv`, with TypeInv, LogInv, RetryInv, TimeInv and DeliveryInv |

`LogInv` is the heart. An answer is given by item, a commit is made by group, and a
query has no record of its own, so neither property is inductive by itself. A
Pending item carries `seen`, the number of records its result depends on. Along the
channel `seen` grows by one at a command and stays at a query (ChainInv); each item
is the record of the core it says it is (SeenInv); disk followed by the open
transaction is a prefix of the core's records (PrefixInv); stopped threads hold
nothing (QuietInv). Hence the first unhandled item is the next record, a commit
extends the prefix, and everything in a committed group depends only on the journal.

`HaltInv`: the output worker reads `journal_done` and then `durable` once more. Once
the journal worker is done nobody writes `durable`, so the second read is final; and
the journal worker is done only when the core has left and the channel is empty.

`ThreadsImplementTheLog` is proved step by step: one lemma per kind of step says
which abstract step it is. A call is Invoke; a refusal Refuse; a commit, an expired
or failed call, the end of a worker and a crash are Settle (with the records that
became durable, and the attempts that can no longer become durable); a reply is
Answer; a send Emit; a cursor update Acknowledge; everything else a stutter. The hard
part is the set `OpenAttempts` of the mapping: a step must remove from it exactly what it
loses. That needs `FlightInv`: an attempt is in at most one of the places between
its caller and the journal (PlaceInv, DistinctInv), each channel carries only its own
kind of command (RouteInv), and everything on disk or in the open transaction comes
from a call (SourceInv).

The other components:

| Theorem | Statement | Inductive invariant |
|---|---|---|
| `RefusalIsFinal` | `OrderIntake!Spec => []RefusedNeverAccepted` | `IntakeInv` |
| `AnsweredOrdersAreJournaled` | `OrderIntake!Spec => []SuccessIsJournaled` | `IntakeInv` |
| `OneContentPerOrder` | `OrderIntake!Spec => []EngineNeverConflicts` | `IntakeInv` |
| `NothingIsForgotten` | `Startup!Spec => []NothingAnsweredIsForgotten` | `StartInv` |
| `OneIdentifierPerDirectory` | `Startup!Spec => []OneLineage` | `StartInv` |
| `RefusedDirectoryIsEmpty` | `Startup!Spec => []RefusedHasServedNobody` | `StartInv` |
| `AuditCopiesTheJournal` | `AuditSpec => []AuditIsComplete` | `StartInv` and `WalkInv` |
| `RefusedSendsStayOut` | `HttpSpec => []NotAcceptedIsNeverApplied` | `HttpInv` |
| `AnswersStayTrue` | `HttpSpec => []AnswersHold` | `HttpInv` and `BookInv` |

- `OrderIntake`, for any callers, ids, contents, fees and bounds (`IntakeRequests`: every
  request and original is a command). `IntakeInv` says per caller what it knows at each
  statement of `accept` (Local): while it holds the shared lock the order is open and
  is the one it states, only one caller has an uncommitted row for an order, and what it
  carries as accepted is the stored receipt. A stored
  receipt never changes, so everything queued (QueueInv) and everything the engine
  knows (EngineInv) is the receipt of its order; a receipt equal to the
  platform's own command was valid (ReceiptInv).
- `Startup`, for any processes, commands and numbers of faults. LockInv: past `flock`
  there is at most one process, and only it changes the journal. ProcessInv: at each step
  of `start` what a process has read is what the directory holds. DirectoryInv: a
  directory that looks new has no genesis and no answers; a journal with a genesis
  whose cursor is not ahead of it has everything answered and not `cut`, counting the
  gaps, which recover refuses. TraceInv: everything executed is on record at the
  platform, which is why a second bootstrap refuses itself after a loss. The journal
  only grows, disappears, starts over under an identifier never used before, or loses
  records, and then shows it or has them in `cut` (JournalMove, Keeps), so a walk that
  still sees its identifier in an accepted journal sees a longer version of what it has
  copied, but for `cut` (WalkInv).
- `EngineCore`, queues: `BookInv`: an entry lies in the queue of its market, side and price and belongs to a
  known submission, an order has one entry at most, and a cancelled order has none.
  Whatever the matcher plans, a submission takes entries out of queues without
  changing their sequence and adds at most one, at the end, under an id no submission
  had (SubmitMoves); a cancellation takes out the one entry of its order
  (CancelMoves). `Keep` is shown to be increasing in the positions by counting
  (NthIsKept), so no induction over the queue is needed.
- `CommandHttp`, for any mixes of requests (`HttpRequests`, `HttpBounds`). The
  receipts of a command decide every later answer to it: what a call was told is a statement
  about receipts that no step of the core can make false (AnswerInv, `ReceiptInv`); a
  try is in one channel, applied or refused, never two of them (SendInv).

The core, the amounts and the market data, for any finite set of users, any orders,
deposits, withdrawals, adjustments and opening balances, any finite set of positive
prices and any scale and limit of amounts (`CoreAssumption`, `PricesAssumption`,
`AmountAssumption`, `CheckAssumption`, `MarketBounds`). Prices are finite in the
code too: a price has at most 30 digits.

| Theorem | Statement | Inductive invariant |
|---|---|---|
| `ReceiptsStayFinal` | `EngineCore!Spec => ReceiptsAreFinal` | `ReceiptInv`: one receipt per identifier |
| `OrdersRestOnce` | `EngineCore!Spec => NeverRestsAgain` | `BookInv` |
| `NobodyOvertakes` | `EngineCore!Spec => FifoKept` | `BookInv` |
| `NothingIsLost` | `EngineCore!Spec => []Conservation` | `FundsInv`: types, ReceiptInv, BookInv, FundsOk |
| `RestingStaysSound` | `EngineCore!Spec => []RestingSound` | `SoundInv`: FundsInv and SoundBooks |
| `StrangersNeverCross` | `EngineCore!Spec => []NoCrossedStrangers` | `ApartInv`: SoundInv and ApartBooks |
| `SharesAddUp` | `EngineCore!Spec => []LockedIsReserved` | `LockedInv`: SoundInv and LockedOk |
| `PriorityIsKept` | `EngineCore!Spec => QuantityOrdersKeepPriority` | `SoundInv` |
| `BuyerPaysMakerPrice` | `EngineCore!Spec => TradesAtMakerPrice` | `SoundInv` |
| `BudgetBuysLargest` | `AmountCheck!Spec => []LargestExactQuantity` | inputs in range |
| `SplitFillsPayNoMore` | `AmountCheck!Spec => []FeesFavourCustomer` | inputs in range |
| `FeedStaysChained` | `MarketSpec => []ChainIsUnbroken` | `MarketInv`: SoundInv and WorkerInv |
| `ListenersCatchUp` | `MarketSpec => []NewListenerSeesEveryMarket` | `MarketInv` |
| `PublicBookIsTrue` | `MarketSpec => []PublicBookIsCoreBook` | `MarketInv` and `TrackInv` |

- Induction without operator parameters. The provers cannot instantiate an induction
  theorem that takes a predicate, so `AmountProofs` states induction about a *set* T: if T
  holds 0 and is closed under successor it holds Nat (`Numbers`, by a least
  counterexample), and the same for the subsets of a finite set (`Subsets`). With that the
  recursion behind the folds of the community modules is shown to have a solution
  (`SolutionExists`), so a fold over 1..n is the last value of a run of n steps (`FoldExists`),
  and a sum over a finite set follows a summand that is added, taken out or changed
  (`SumExtends`, `SumChanges`) and equals the end of a run that meets every member once
  (`SumAlong`). Everything below is an induction along such a run.
- Amounts. Euclid's algorithm returns a common divisor of price and scale that is a
  combination of both (`EuclidIsGcd`), hence the step of a price divides exactly the
  quantities that need no rounding (`StepIsExact`), and the multiple below the budget is
  the largest.
- Plans. `Makers` is a bijection between positions and places that respects price and time
  (Visits). After k makers the plan trades only with those, at most once with each, at
  their price and for an exact quote; every stranger it has passed is filled while something
  remains, and whoever trades has only filled strangers or the taker's own orders ahead (Planned).
- Funds. A movement changes one account (Moved); settling a trade takes from two accounts
  and gives to two accounts and to the fees (Settled), so an accepted submission changes
  the total of an asset by its fees alone. Conservation is inductive once the books are known to
  be typed and receipts to be unique: a cancellation must find the entry whose reservation it frees.
- Reservations. A maker's reservation splits into what the trade takes and what the rest
  still needs, without rounding, because a resting buy and each trade have exact quotes
  (ReservationSplits needs SoundBooks); the taker's splits into what is paid, refunded and
  still reserved. Summed along the run of the trades that gives LockedIsReserved.
- Market data. WorkerInv says there is one history of projections, one per record
  (History); the worker is at a place of it whatever restarts did, because a replay
  reproduces it (ReplayIs), and the topic holds what the records before that place
  published (Feed). TrackInv says the last projection of that history mirrors the core: the index
  holds exactly the resting entries (Mirrors), every level is the sum of its index (Index).
  A submission keeps that because its fills drain exactly the makers the plan took from
  (Drained) and add up to what it filled (AddsUp).

Before they were proved the strengthenings of the threads, of intake, startup, HTTP commands and queues
were model-checked. Those of the core and of the market data are the checked properties
themselves with types (FundsOk, SoundBooks, ApartBooks, LockedOk name the parts of
Conservation, RestingSound, NoCrossedStrangers and LockedIsReserved).

Every safety invariant and every action property of a passing run is a theorem; the
types of EnginePipeline (TypeOK) are left to the theorem alone. Only
model-checked are the liveness properties (HaltTerminates, DurableIsDelivered,
AcceptedIsAnswered, EveryRequestAnswered, Restartable): fairness and ENABLED are out of the
prover's reach. AllOrdersKeepPriority is false of the code, see section 3.

## 5. Not modelled

- Routes, service tokens, health, configuration: stateless or read-only.
- `order_repository.rs`: nothing but its own tests calls it.
- Kafka client, SQLite and PostgreSQL internals, `flock` and the file system: external, modelled by what the
  code relies on.
- Bench mode without a journal. Panics of the core are covered as crashes only.
- Rows of `user_balances` that `load_balances` refuses (negative, locked, too long), and format checks of requests.
- A journal restored from an old backup, two directories in use at the same time (the
  lock is per directory), and files lost while a process runs.

Assumptions about the surroundings: the platform stores its record of an order,
deposit or withdrawal before it sends it and applies an event once; a directory flush makes names durable.

Hazards without a property: starvation of the order channel by an endless stream of
balance commands (needs an unbounded stream), commands without identifier that are retried (excluded by
their documentation), sell rests whose quote is not exact (nothing states what should happen),
and records that vanish undelivered from the end of the journal (the file does not tell where it
ended, and `docs/decisions/009` leaves the loss of the disk to backups that are not there yet).

## 6. Plan

Done: the core (`EnginePipeline`, `Amount`, `Matching`, `EngineCore`), the abstract
log and its refinement, market data, order intake, HTTP commands, startup and
audit, their runs, and the theorems of section 4: every safety invariant and action
property that a passing run checks, and the refinement of CommandLog.

Left: the liveness properties, should a prover for ENABLED become available; their safety
part is there (HaltInv, DeliveryInv, LogInv). Extensions of the model: configuration and
readiness, a journal restored from a backup.
