----------------------------- MODULE OrderIntake ------------------------------
(***************************************************************************)
(* How an order reaches the engine over HTTP: validation, the acceptance   *)
(* transaction that binds the order id to the platform's original command  *)
(* (order_receipt.rs, READ COMMITTED), then the submission to the engine,  *)
(* whose answer alone makes the HTTP call a success.  Several requests for *)
(* the same order run at the same time, each statement of a transaction is *)
(* a step; the platform closes orders and edits its rows in between.       *)
(*                                                                         *)
(* The engine is the one CommandLog promises: an order that is taken may   *)
(* be lost, or committed once and answered, in its own time.  PostgreSQL   *)
(* is external: row locks, the primary key and the visibility of commits   *)
(* are modelled from how these statements use them.                        *)
(***************************************************************************)
EXTENDS Integers, Sequences, FiniteSets

CONSTANTS
    Callers,      \* HTTP requests
    Request,      \* the body of each: [id, user, type, side, price, amount, quote]
    Original,     \* platform row of an order id: the same fields, or NoRow
    FeeRates,     \* fee rates the platform may have on an original
    InvalidFees,  \* the ones that amount::fee refuses
    MaxId,        \* largest identifier an i64 holds
    MaxTries,     \* bound: times a request is sent
    MaxFaults     \* bound: failed statements, crashes and edits by the platform

NoRow == <<>>
Missing == -1     \* a field the request leaves out
Ids == {Request[c].id : c \in Callers}

\* CreateOrderRequest, and the platform's row with the same fields.
Command == [id : Int, user : Int, type : STRING, side : STRING, price : Int,
            amount : Int, quote : Int]

ASSUME IntakeRequests ==
    /\ Request \in [Callers -> Command]
    /\ \A i \in Ids : Original[i] \in Command \cup {NoRow}

ASSUME IntakeBounds == MaxTries \in Nat \ {0} /\ MaxFaults \in Nat /\ MaxId \in Nat

VARIABLES
    receipts,   \* engine_order_receipts: committed rows [cmd, fee]
    inserted,   \* per id: the callers with an uncommitted row (at most one)
    shared,     \* per id: the callers that hold FOR SHARE locks
    orderOpen,  \* per id: the platform's order is pending and not filled
    fee,        \* per id: fee_rate of the platform's original
    call,       \* per caller: [pc, row, created, tries, code]
    queue,      \* commands taken by the engine and not applied yet
    engine,     \* submissions the engine's journal holds: [cmd, fee] per id
    conflicts,  \* history: ids the engine has met with two contents
    faults

vars == <<receipts, inserted, shared, orderOpen, fee, call, queue, engine, conflicts, faults>>
dbVars == <<receipts, inserted, shared, orderOpen, fee>>
engineVars == <<queue, engine, conflicts>>

Id(c) == Request[c].id
Idle == [pc |-> "idle", row |-> NoRow, created |-> FALSE, tries |-> 0, code |-> 0]

Init ==
    /\ receipts = [i \in Ids |-> NoRow] /\ inserted = [i \in Ids |-> {}]
    /\ shared = [i \in Ids |-> {}] /\ orderOpen = [i \in Ids |-> TRUE]
    /\ fee \in [Ids -> FeeRates]
    /\ call = [c \in Callers |-> Idle]
    /\ queue = <<>> /\ engine = [i \in Ids |-> NoRow] /\ conflicts = {} /\ faults = 0

\* Where a request goes next, and the answer it ends with: the transaction
\* is dropped, which rolls it back and frees its locks.
To(c, pc) == call' = [call EXCEPT ![c].pc = pc]
Released(locks, c) == [i \in Ids |-> locks[i] \ {c}]
Answer(c, code) ==
    /\ call' = [call EXCEPT ![c].pc = "done", ![c].code = code]
    /\ shared' = Released(shared, c) /\ inserted' = Released(inserted, c)

-----------------------------------------------------------------------------
(* validate_order_request.                                                  *)

\* A price exactly for limit orders; a budget for a market buy, a quantity
\* for every other order; what is given is positive.
ValidRequest(q) ==
    /\ q.type \in {"buy", "sell"} /\ q.side \in {"limit", "market"}
    /\ (q.side = "limit") <=> (q.price # Missing)
    /\ IF q.type = "buy" /\ q.side = "market"
       THEN q.amount = Missing /\ q.quote > 0
       ELSE q.amount # Missing /\ q.amount > 0 /\ q.quote = Missing
    /\ q.price # Missing => q.price > 0

ValidIds(q) == q.id \in 1..MaxId /\ q.user \in 1..MaxId

\* matches: every field of the command; the fee is not part of the request.
Matches(row, q) == row.cmd = q

-----------------------------------------------------------------------------
(* The acceptance transaction: order_receipt::accept.                       *)

\* create_order up to the begin of the transaction; 503 may be tried again.
Begin(c) ==
    /\ \/ call[c].pc = "idle"
       \/ call[c].pc = "done" /\ call[c].code = 503 /\ call[c].tries < MaxTries
    /\ LET ok == ValidRequest(Request[c]) /\ ValidIds(Request[c])
       IN  call' = [call EXCEPT ![c] = [pc |-> IF ok THEN "select" ELSE "done",
                                        row |-> NoRow, created |-> FALSE, tries |-> @.tries + 1,
                                        code |-> IF ok THEN 0 ELSE 400]]
    /\ UNCHANGED <<dbVars, engineVars, faults>>

\* A receipt that was read: the same command goes on, another one conflicts.
Found(c, row) ==
    IF Matches(row, Request[c])
    THEN /\ call' = [call EXCEPT ![c].pc = "commit", ![c].row = row]
         /\ UNCHANGED <<shared, inserted>>
    ELSE Answer(c, 409)

\* The first SELECT sees committed receipts only.
Select(c) ==
    /\ call[c].pc = "select"
    /\ IF receipts[Id(c)] # NoRow THEN Found(c, receipts[Id(c)])
       ELSE To(c, "lock") /\ UNCHANGED <<shared, inserted>>
    /\ UNCHANGED <<receipts, orderOpen, fee, engineVars, faults>>

\* The original with the order still pending, joined on the user.
Readable(c) ==
    /\ Original[Id(c)] # NoRow /\ Original[Id(c)].user = Request[c].user
    /\ orderOpen[Id(c)]

\* Mutation of LockOriginal: a plain SELECT takes no lock.
ReadOriginal(c) ==
    /\ call[c].pc = "lock"
    /\ IF ~Readable(c) THEN To(c, "recheck") /\ UNCHANGED <<shared, inserted>>
       ELSE IF Original[Id(c)] # Request[c] THEN Answer(c, 409)
       ELSE IF fee[Id(c)] \in InvalidFees THEN Answer(c, 503)
       ELSE /\ call' = [call EXCEPT ![c].pc = "insert",
                                    ![c].row = [cmd |-> Original[Id(c)], fee |-> fee[Id(c)]]]
            /\ UNCHANGED <<shared, inserted>>
    /\ UNCHANGED <<receipts, orderOpen, fee, engineVars, faults>>

\* SELECT ... FOR SHARE OF s, o, then the comparison with the request and the
\* check of the fee rate, which fails without a ReceiptError.
LockOriginal(c) ==
    /\ call[c].pc = "lock"
    /\ IF ~Readable(c) THEN To(c, "recheck") /\ UNCHANGED <<shared, inserted>>
       ELSE IF Original[Id(c)] # Request[c] THEN Answer(c, 409)
       ELSE IF fee[Id(c)] \in InvalidFees THEN Answer(c, 503)
       ELSE /\ call' = [call EXCEPT ![c].pc = "insert",
                                    ![c].row = [cmd |-> Original[Id(c)], fee |-> fee[Id(c)]]]
            /\ shared' = [shared EXCEPT ![Id(c)] = @ \cup {c}]
            /\ UNCHANGED inserted
    /\ UNCHANGED <<receipts, orderOpen, fee, engineVars, faults>>

\* No original: a competing request may have been accepted and even executed
\* since the first SELECT, so the receipt is looked up again.
Recheck(c) ==
    /\ call[c].pc = "recheck"
    /\ IF receipts[Id(c)] # NoRow THEN Found(c, receipts[Id(c)]) ELSE Answer(c, 400)
    /\ UNCHANGED <<receipts, orderOpen, fee, engineVars, faults>>

\* INSERT ... ON CONFLICT DO NOTHING: the primary key makes the statement
\* wait for another uncommitted row; a committed one gives no row back.
Insert(c) ==
    /\ call[c].pc = "insert" /\ inserted[Id(c)] = {}
    /\ IF receipts[Id(c)] = NoRow
       THEN /\ inserted' = [inserted EXCEPT ![Id(c)] = {c}]
            /\ call' = [call EXCEPT ![c].pc = "commit", ![c].created = TRUE]
       ELSE To(c, "reread") /\ UNCHANGED inserted
    /\ UNCHANGED <<receipts, shared, orderOpen, fee, engineVars, faults>>

\* Mutation of Reread: the loser keeps the row it read from the platform.
KeepOwnRow(c) ==
    /\ call[c].pc = "reread"
    /\ Found(c, call[c].row)
    /\ UNCHANGED <<receipts, orderOpen, fee, engineVars, faults>>

\* The loser reads the winner's row in a new snapshot.
Reread(c) ==
    /\ call[c].pc = "reread"
    /\ Found(c, receipts[Id(c)])
    /\ UNCHANGED <<receipts, orderOpen, fee, engineVars, faults>>

Stored(c) == IF c \in inserted[Id(c)] THEN [receipts EXCEPT ![Id(c)] = call[c].row]
             ELSE receipts

Commit(c) ==
    /\ call[c].pc = "commit"
    /\ receipts' = Stored(c)
    /\ shared' = Released(shared, c) /\ inserted' = Released(inserted, c)
    /\ To(c, "submit")
    /\ UNCHANGED <<orderOpen, fee, engineVars, faults>>

\* Mutation of CommitFails: the transaction keeps its row locked.
CommitFailsLocked(c) ==
    /\ call[c].pc = "commit" /\ faults < MaxFaults
    /\ faults' = faults + 1
    /\ call' = [call EXCEPT ![c].pc = "done", ![c].code = 503]
    /\ UNCHANGED <<dbVars, engineVars>>

\* The commit returns an error; the row may be there all the same.
CommitFails(c) ==
    /\ call[c].pc = "commit" /\ faults < MaxFaults
    /\ faults' = faults + 1
    /\ receipts' \in {receipts, Stored(c)}
    /\ Answer(c, 503)
    /\ UNCHANGED <<orderOpen, fee, engineVars>>

\* Any earlier statement returns an error, which drops the transaction.
StatementFails(c) ==
    /\ call[c].pc \in {"select", "lock", "recheck", "insert", "reread"} /\ faults < MaxFaults
    /\ faults' = faults + 1
    /\ Answer(c, 503)
    /\ UNCHANGED <<receipts, orderOpen, fee, engineVars>>

-----------------------------------------------------------------------------
(* The submission to the engine, after either kind of acceptance.           *)

\* Mutation of Entry: the entry is built with the fee the platform has now.
EntryCurrentFee(c) == [cmd |-> Request[c], fee |-> fee[Id(c)]]

\* OrderEntry: the fields of the request, of which ValidRequest has checked
\* that the ones unwrapped here are given, and the fee of the receipt.
Entry(c) == [cmd |-> Request[c], fee |-> call[c].row.fee]

\* submit_order: the engine refuses at once (closed, full) or takes it.
Submit(c) ==
    /\ call[c].pc = "submit"
    /\ \/ call' = [call EXCEPT ![c].pc = "done", ![c].code = 503] /\ UNCHANGED queue
       \/ /\ To(c, "wait")
          /\ queue' = Append(queue, [caller |-> c, try |-> call[c].tries, entry |-> Entry(c)])
    /\ UNCHANGED <<dbVars, engine, conflicts, faults>>

\* Ten seconds without an answer: the command stays where it is.
Timeout(c) ==
    /\ call[c].pc = "wait"
    /\ call' = [call EXCEPT ![c].pc = "done", ![c].code = 503]
    /\ UNCHANGED <<dbVars, engineVars, faults>>

Waits(item) ==
    call[item.caller].pc = "wait" /\ call[item.caller].tries = item.try

\* The status of an acknowledged submission.
Success(c) == IF call[c].created THEN 202 ELSE 200

\* The engine commits the next command and answers: a new id, or the same
\* content again; a different content is an error without a ReceiptError
\* inside, so that the handler answers 503.
EngineApply ==
    /\ queue # <<>>
    /\ LET item == Head(queue)
           id   == Id(item.caller)
           ok   == engine[id] \in {NoRow, item.entry}
       IN  /\ engine' = IF ok THEN [engine EXCEPT ![id] = item.entry] ELSE engine
           /\ conflicts' = IF ok THEN conflicts ELSE conflicts \cup {id}
           /\ call' = IF Waits(item)
                      THEN [call EXCEPT ![item.caller].pc = "done",
                                        ![item.caller].code =
                                            IF ok THEN Success(item.caller) ELSE 503]
                      ELSE call
    /\ queue' = Tail(queue)
    /\ UNCHANGED <<dbVars, faults>>

\* The process stops: open transactions roll back, commands in memory are
\* gone, callers are left without an answer, which they treat as 503.
Crash ==
    /\ faults < MaxFaults
    /\ faults' = faults + 1
    /\ call' = [c \in Callers |-> IF call[c].pc \in {"idle", "done"} THEN call[c]
                                  ELSE [call[c] EXCEPT !.pc = "done", !.code = 503]]
    /\ queue' = <<>>
    /\ inserted' = [i \in Ids |-> {}] /\ shared' = [i \in Ids |-> {}]
    /\ UNCHANGED <<receipts, orderOpen, fee, engine, conflicts>>

-----------------------------------------------------------------------------
(* The platform.                                                            *)

\* The order is filled, cancelled or rejected there; the update waits for
\* the readers that hold the row.
PlatformClose(id) ==
    /\ orderOpen[id] /\ shared[id] = {}
    /\ orderOpen' = [orderOpen EXCEPT ![id] = FALSE]
    /\ UNCHANGED <<receipts, inserted, shared, fee, call, engineVars, faults>>

\* Direct SQL changes the fee rate of an original.
PlatformEdit(id) ==
    /\ shared[id] = {} /\ faults < MaxFaults
    /\ faults' = faults + 1
    /\ \E f \in FeeRates \ {fee[id]} : fee' = [fee EXCEPT ![id] = f]
    /\ UNCHANGED <<receipts, inserted, shared, orderOpen, call, engineVars>>

-----------------------------------------------------------------------------
Statement(c) == Select(c) \/ LockOriginal(c) \/ Recheck(c) \/ Insert(c) \/ Reread(c) \/ Commit(c)
Step(c) == Statement(c) \/ Submit(c) \/ Timeout(c)

Next ==
    \/ \E c \in Callers : Begin(c) \/ Step(c) \/ CommitFails(c) \/ StatementFails(c)
    \/ EngineApply \/ Crash
    \/ \E id \in Ids : PlatformClose(id) \/ PlatformEdit(id)

\* The database and the runtime run every request on; the timer expires.
Spec == Init /\ [][Next]_vars /\ \A c \in Callers : WF_vars(Step(c))

-----------------------------------------------------------------------------
(* Properties.                                                              *)

\* A request that states the platform's command and is told that it is
\* invalid can be forgotten by the platform: the order has no receipt and
\* never gets one, although another request for it, or the platform, may act
\* between any two statements (accept: FOR SHARE and the second lookup).
RefusedNeverAccepted ==
    \A c \in Callers :
        call[c].pc = "done" /\ call[c].code = 400 /\ Original[Id(c)] = Request[c]
            => receipts[Id(c)] = NoRow /\ engine[Id(c)] = NoRow

\* 202 and 200 are for the request's command in the engine's journal, and
\* whatever the journal holds, for a request that got an answer or not, is
\* the accepted command with the accepted fee.  That no order is executed
\* without a receipt is what a first start over lost engine files relies on.
SuccessIsJournaled ==
    /\ \A i \in Ids : engine[i] # NoRow => engine[i] = receipts[i]
    /\ \A c \in Callers : call[c].code \in {200, 202} =>
          engine[Id(c)] # NoRow /\ engine[Id(c)].cmd = Request[c]

\* The engine never sees one order id with two contents, although winners,
\* losers, retries and late commands all send it, and the platform's fee may
\* change between them.
EngineNeverConflicts == conflicts = {}

\* Every request comes to an answer: nobody waits for ever for a row lock or
\* the primary key of another request.
EveryRequestAnswered ==
    \A c \in Callers : call[c].pc = "select" ~> call[c].pc = "done"
===============================================================================
