---------------------------- MODULE EnginePipeline ----------------------------
(***************************************************************************)
(* The three worker threads of the engine and the control thread that      *)
(* starts and halts them: requests enter two bounded channels, the core    *)
(* applies them in memory, the journal worker commits them in groups and   *)
(* only then answers, the output worker publishes committed records to     *)
(* Kafka and moves the delivery cursor.  The process may crash anywhere;   *)
(* only the journal file, its delivery cursor and Kafka survive.           *)
(*                                                                         *)
(* The engine state is represented by the sequence of records whose        *)
(* application produced it: journal::apply is deterministic, so two equal  *)
(* sequences stand for equal states (EngineCore models apply itself).      *)
(***************************************************************************)
EXTENDS Integers, Sequences

CONSTANTS
    OrderCommands,    \* journaled requests of the order channel
    BalanceCommands,  \* journaled requests of the balance channel
    Queries,          \* GetBalance / GetOrderbook: order channel, not journaled
    Events,           \* Kafka messages of an outcome with an output batch
    QueueCap,         \* capacity of each input channel (100_000)
    JournalCap,       \* capacity of the journal channel (100_000)
    GroupMax,         \* largest group of one transaction (256)
    MaxAttempts,      \* bound: times a client sends the same request
    MaxCrashes,       \* bound: process crashes
    MaxFaults         \* bound: failed commits and failed Kafka deliveries

Commands == OrderCommands \cup BalanceCommands
Requests == Commands \cup Queries

ASSUME RequestsAssumption ==
    /\ OrderCommands \cap BalanceCommands = {}
    /\ Commands \cap Queries = {}
    /\ Events \in [Commands -> Nat]

ASSUME BoundsAssumption ==
    /\ QueueCap \in Nat \ {0}
    /\ JournalCap \in Nat \ {0}
    /\ GroupMax \in Nat \ {0}
    /\ MaxAttempts \in Nat \ {0}
    /\ MaxCrashes \in Nat
    /\ MaxFaults \in Nat

VARIABLES
    phase,      \* control thread: down, recovering, serving, joinCore, ...
    closed,     \* EngineHandle.closed; HighPerformanceEngine.running is its
                \* negation from the moment the core runs, so it is not kept
    orderQ,     \* commands waiting in order_rx
    balanceQ,   \* commands waiting in balance_rx
    corePc,     \* where engine_thread_loop is
    hand,       \* the order command received and not yet applied, or <<>>
    state,      \* EngineState, as the records that produced it
    pipe,       \* Pending items: the journal worker's group, then the channel
    jPc,        \* where journal::store::run is
    grp,        \* length of the group at the head of pipe
    ins,        \* items of the group the open transaction has handled
    txn,        \* records inserted by the open transaction
    durable,    \* Progress.durable
    jDone,      \* Progress.journal_done
    outPc,      \* where output::run_store is
    sent,       \* messages of the current record acknowledged by Kafka
    journal,    \* records table on disk
    delivered,  \* delivery cursor on disk (cursor and Progress.delivered
                \* follow it in the same step)
    kafka,      \* messages the broker holds
    client,     \* the caller's side of every request
    acked,      \* history: largest position any caller has been told
    crashes, faults

coreVars    == <<corePc, hand, state>>
journalVars == <<jPc, grp, ins, txn, durable, jDone>>
outputVars  == <<outPc, sent, delivered, kafka>>
boundVars   == <<crashes, faults>>
vars == <<phase, closed, orderQ, balanceQ, coreVars, pipe, journalVars,
          journal, outputVars, client, acked, boundVars>>

-----------------------------------------------------------------------------
\* `batch` says whether the outcome carries an OutputBatch: a duplicate, a
\* failed command and a Balance, Lock or Unlock command carry none.
Attempt == [req : Requests, att : 1..MaxAttempts]
Record  == [req : Commands, att : 1..MaxAttempts, batch : BOOLEAN]
\* Command, outcome and reply handed to the journal worker. `seen` is the
\* number of records the engine state had when the outcome was computed.
Pending == [req : Requests, att : 1..MaxAttempts, batch : BOOLEAN, seen : Nat]
Message == [seq : Nat, idx : Nat, req : Commands]
Client  == [pc : {"idle", "checked", "waiting", "refused", "unknown", "replied"},
            att : 0..MaxAttempts, floor : Nat, pos : Nat]

IsCommand(p) == p.req \in Commands
RecordOf(p)  == [req |-> p.req, att |-> p.att, batch |-> p.batch]
Queued == Len(pipe) - grp                     \* items in the journal channel
\* Messages record s gives: the financial events, then the market snapshot.
EventCount(s) == IF journal[s].batch THEN Events[journal[s].req] ELSE 0

Init ==
    /\ phase = "down" /\ closed = TRUE
    /\ orderQ = <<>> /\ balanceQ = <<>>
    /\ corePc = "off" /\ hand = <<>> /\ state = <<>>
    /\ pipe = <<>> /\ jPc = "off" /\ grp = 0 /\ ins = 0 /\ txn = <<>>
    /\ durable = 0 /\ jDone = FALSE
    /\ outPc = "off" /\ sent = 0
    /\ journal = <<>> /\ delivered = 0 /\ kafka = <<>>
    /\ client = [r \in Requests |-> [pc |-> "idle", att |-> 0, floor |-> 0, pos |-> 0]]
    /\ acked = 0 /\ crashes = 0 /\ faults = 0

-----------------------------------------------------------------------------
(* Callers: EngineHandle.  The closed flag is read before the channel is    *)
(* tried, so the engine may close in between.                               *)

\* A new call, or the retry of the same identified request after an unknown
\* outcome or a refusal (a command without an identifier is a new request
\* each time).  The call is refused at once when closed is seen.
Call(r) ==
    /\ phase # "down" /\ phase # "recovering"
    /\ client[r].pc \in {"idle", "unknown", "refused"}
    /\ client[r].att < MaxAttempts
    /\ client' = [client EXCEPT ![r] =
                    [pc |-> IF closed THEN "refused" ELSE "checked",
                     att |-> @.att + 1, floor |-> acked, pos |-> 0]]
    /\ UNCHANGED <<phase, closed, orderQ, balanceQ, coreVars, pipe, journalVars,
                   journal, outputVars, acked, boundVars>>

\* Mutation of TrySend: closed is read after the channel was tried instead of
\* before, and the caller of a queued command is told it was refused.
TrySendThenCheck(r) ==
    LET q    == IF r \in BalanceCommands THEN balanceQ ELSE orderQ
        item == [req |-> r, att |-> client[r].att]
        ok   == Len(q) < QueueCap
    IN  /\ client[r].pc = "checked"
        /\ client' = [client EXCEPT ![r].pc = IF ok /\ ~closed THEN "waiting" ELSE "refused"]
        /\ balanceQ' = IF ok /\ r \in BalanceCommands
                       THEN Append(balanceQ, item) ELSE balanceQ
        /\ orderQ' = IF ok /\ r \notin BalanceCommands
                     THEN Append(orderQ, item) ELSE orderQ
        /\ UNCHANGED <<phase, closed, coreVars, pipe, journalVars, journal,
                       outputVars, acked, boundVars>>

\* try_send: a full channel refuses the call, it never blocks it.
TrySend(r) ==
    LET q    == IF r \in BalanceCommands THEN balanceQ ELSE orderQ
        item == [req |-> r, att |-> client[r].att]
        ok   == Len(q) < QueueCap
    IN  /\ client[r].pc = "checked"
        /\ client' = [client EXCEPT ![r].pc = IF ok THEN "waiting" ELSE "refused"]
        /\ balanceQ' = IF ok /\ r \in BalanceCommands
                       THEN Append(balanceQ, item) ELSE balanceQ
        /\ orderQ' = IF ok /\ r \notin BalanceCommands
                     THEN Append(orderQ, item) ELSE orderQ
        /\ UNCHANGED <<phase, closed, coreVars, pipe, journalVars, journal,
                       outputVars, acked, boundVars>>

\* The caller's timeout expires: the outcome stays unknown to it.
Timeout(r) ==
    /\ client[r].pc = "waiting"
    /\ client' = [client EXCEPT ![r].pc = "unknown"]
    /\ UNCHANGED <<phase, closed, orderQ, balanceQ, coreVars, pipe, journalVars,
                   journal, outputVars, acked, boundVars>>

\* Reply senders are dropped without an answer: a receiver still waiting for
\* one of the attempts S ends with an unknown outcome.
DropReplies(S) ==
    [r \in Requests |->
        IF client[r].pc = "waiting" /\ [req |-> r, att |-> client[r].att] \in S
        THEN [client[r] EXCEPT !.pc = "unknown"] ELSE client[r]]

-----------------------------------------------------------------------------
(* The core thread: engine_thread_loop.                                     *)

\* Mutation of CoreTop: the capacity of the journal channel is not checked.
CoreTopUnchecked ==
    /\ corePc = "top" /\ ~closed
    /\ corePc' = "room"
    /\ UNCHANGED <<phase, closed, orderQ, balanceQ, hand, state, pipe, journalVars,
                   journal, outputVars, client, acked, boundVars>>

\* The loop condition, then the capacity check; a full journal channel makes
\* the core spin, re-reading closed each time round.
CoreTop ==
    /\ corePc = "top" /\ ~closed
    /\ Queued < JournalCap
    /\ corePc' = "room"
    /\ UNCHANGED <<phase, closed, orderQ, balanceQ, hand, state, pipe, journalVars,
                   journal, outputVars, client, acked, boundVars>>

\* Mutation of CoreExit: a core that spins on a full channel ignores closed.
CoreExitWithRoom ==
    /\ \/ corePc = "top" /\ Queued < JournalCap
       \/ corePc = "got"
    /\ closed
    /\ corePc' = "exited" /\ hand' = <<>>
    /\ client' = DropReplies(IF hand = <<>> THEN {} ELSE {hand})
    /\ UNCHANGED <<phase, closed, orderQ, balanceQ, state, pipe, journalVars,
                   journal, outputVars, acked, boundVars>>

\* Leaving the loop: CloseCore closes the entrance, then the journal sender
\* is dropped.  A received order command goes with its reply.
CoreExit ==
    /\ corePc \in {"top", "got"} /\ closed
    /\ corePc' = "exited" /\ hand' = <<>>
    /\ client' = DropReplies(IF hand = <<>> THEN {} ELSE {hand})
    /\ UNCHANGED <<phase, closed, orderQ, balanceQ, state, pipe, journalVars,
                   journal, outputVars, acked, boundVars>>

\* journal::apply may find the request's receipt: the first application that
\* gave a result is remembered in the state.
New(a, records) == \A k \in DOMAIN records : records[k].req = a.req => ~records[k].batch

\* Mutation of ApplyAndPublish: queries read what has been delivered.
ReadDelivered(a) ==
    LET isCmd == a.req \in Commands
    IN  \E batch \in BOOLEAN :
        /\ batch => isCmd /\ New(a, state)
        /\ state' = IF isCmd
                    THEN Append(state, [req |-> a.req, att |-> a.att, batch |-> batch])
                    ELSE state
        /\ pipe' = Append(pipe, [req |-> a.req, att |-> a.att, batch |-> batch,
                                 seen |-> IF isCmd THEN Len(state') ELSE delivered])

\* Mutation of ApplyAndPublish: each channel has a state of its own.
StatePerChannel(a) ==
    LET isCmd   == a.req \in Commands
        Same(r) == r.req \in BalanceCommands <=> a.req \in BalanceCommands
    IN  \E batch \in BOOLEAN :
        /\ batch => isCmd /\ New(a, state)
        /\ state' = IF isCmd
                    THEN Append(state, [req |-> a.req, att |-> a.att, batch |-> batch])
                    ELSE state
        /\ pipe' = Append(pipe, [req |-> a.req, att |-> a.att, batch |-> batch,
                                 seen |-> Len(SelectSeq(state', Same))])

\* Mutation of ApplyAndPublish: duplicates are looked up among the records in
\* flight only, the receipts are not consulted.
ForgetsHistory(a) ==
    LET isCmd == a.req \in Commands
    IN  \E batch \in BOOLEAN :
        /\ batch => isCmd /\ New(a, pipe)
        /\ state' = IF isCmd
                    THEN Append(state, [req |-> a.req, att |-> a.att, batch |-> batch])
                    ELSE state
        /\ pipe' = Append(pipe, [req |-> a.req, att |-> a.att, batch |-> batch,
                                 seen |-> Len(state')])

\* journal::apply on the state, then publish into the reserved slot.  Whether
\* a new command succeeds is EngineCore's matter, either is possible here.  A
\* query takes a slot too, with the value it read, so that it cannot overtake
\* the commits of what it saw.
ApplyAndPublish(a) ==
    LET isCmd == a.req \in Commands
    IN  \E batch \in BOOLEAN :
        /\ batch => isCmd /\ New(a, state)
        /\ state' = IF isCmd
                    THEN Append(state, [req |-> a.req, att |-> a.att, batch |-> batch])
                    ELSE state
        /\ pipe' = Append(pipe, [req |-> a.req, att |-> a.att, batch |-> batch,
                                 seen |-> Len(state')])

\* balances.try_recv comes first: a waiting balance command is taken now.
CoreBalance ==
    /\ corePc = "room" /\ balanceQ # <<>>
    /\ balanceQ' = Tail(balanceQ)
    /\ ApplyAndPublish(Head(balanceQ))
    /\ corePc' = "top"
    /\ UNCHANGED <<phase, closed, orderQ, hand, journalVars, journal,
                   outputVars, client, acked, boundVars>>

CoreNoBalance ==
    /\ corePc = "room" /\ balanceQ = <<>>
    /\ corePc' = "orders"
    /\ UNCHANGED <<phase, closed, orderQ, balanceQ, hand, state, pipe, journalVars,
                   journal, outputVars, client, acked, boundVars>>

\* orders.recv_timeout: an order command, or back to the top after 1 ms.
CoreReceive ==
    /\ corePc = "orders"
    /\ IF orderQ = <<>>
       THEN corePc' = "top" /\ UNCHANGED <<hand, orderQ>>
       ELSE /\ corePc' = "got" /\ hand' = Head(orderQ)
            /\ orderQ' = Tail(orderQ)
    /\ UNCHANGED <<phase, closed, balanceQ, state, pipe, journalVars,
                   journal, outputVars, client, acked, boundVars>>

\* closed is read again after the wait; CoreExit is the other branch.
CoreOrder ==
    /\ corePc = "got" /\ ~closed
    /\ ApplyAndPublish(hand)
    /\ corePc' = "top" /\ hand' = <<>>
    /\ UNCHANGED <<phase, closed, orderQ, balanceQ, journalVars, journal,
                   outputVars, client, acked, boundVars>>

-----------------------------------------------------------------------------
(* The journal worker: journal::store::run and Store::append.               *)

\* Mutation of JournalTake: replies are sent before the group is appended.
AnswerBeforeCommit ==
    /\ jPc = "recv" /\ pipe # <<>>
    /\ jPc' = "finish" /\ txn' = <<>>
    /\ grp' = (IF Len(pipe) < GroupMax THEN Len(pipe) ELSE GroupMax) /\ ins' = grp'
    /\ UNCHANGED <<phase, closed, orderQ, balanceQ, coreVars, pipe, durable, jDone,
                   journal, outputVars, client, acked, boundVars>>

\* Mutation of JournalTake: the worker waits until a group is full.
WaitForFullGroup ==
    /\ jPc = "recv" /\ Len(pipe) >= GroupMax
    /\ jPc' = "insert" /\ ins' = 0 /\ txn' = <<>> /\ grp' = GroupMax
    /\ UNCHANGED <<phase, closed, orderQ, balanceQ, coreVars, pipe, durable, jDone,
                   journal, outputVars, client, acked, boundVars>>

\* recv, then whatever else has already arrived, up to the group limit.
JournalTake ==
    /\ jPc = "recv" /\ pipe # <<>>
    /\ jPc' = "insert" /\ ins' = 0 /\ txn' = <<>>
    /\ grp' = IF Len(pipe) < GroupMax THEN Len(pipe) ELSE GroupMax
    /\ UNCHANGED <<phase, closed, orderQ, balanceQ, coreVars, pipe, durable, jDone,
                   journal, outputVars, client, acked, boundVars>>

\* One item of append's loop: only an item with a command becomes a record.
JournalInsert ==
    /\ jPc = "insert" /\ ins < grp
    /\ ins' = ins + 1
    /\ txn' = IF IsCommand(pipe[ins + 1])
              THEN Append(txn, RecordOf(pipe[ins + 1])) ELSE txn
    /\ UNCHANGED <<phase, closed, orderQ, balanceQ, coreVars, pipe, jPc, grp, durable,
                   jDone, journal, outputVars, client, acked, boundVars>>

\* The synchronous FULL commit returns.
JournalCommit ==
    /\ jPc = "insert" /\ ins = grp
    /\ jPc' = "committed"
    /\ journal' = journal \o txn /\ txn' = <<>>
    /\ UNCHANGED <<phase, closed, orderQ, balanceQ, coreVars, pipe, grp, ins, durable,
                   jDone, outputVars, client, acked, boundVars>>

\* Mutation of JournalFail: the worker drops the group and keeps serving.
CarryOnAfterFailure ==
    /\ jPc = "insert" /\ faults < MaxFaults
    /\ faults' = faults + 1
    /\ jPc' = "recv"
    /\ client' = DropReplies({[req |-> pipe[k].req, att |-> pipe[k].att] : k \in 1..grp})
    /\ pipe' = SubSeq(pipe, grp + 1, Len(pipe))
    /\ grp' = 0 /\ ins' = 0 /\ txn' = <<>>
    /\ UNCHANGED <<phase, closed, orderQ, balanceQ, coreVars, durable, jDone, journal,
                   outputVars, acked, crashes>>

\* append fails; after a failed commit the records may or may not be on disk.
\* The group and its replies are dropped, the entrance is closed.
JournalFail ==
    /\ jPc = "insert" /\ faults < MaxFaults
    /\ faults' = faults + 1
    /\ \/ journal' = journal
       \/ ins = grp /\ journal' = journal \o txn
    /\ jPc' = "failed" /\ jDone' = TRUE /\ closed' = TRUE
    /\ client' = DropReplies({[req |-> pipe[k].req, att |-> pipe[k].att] : k \in 1..grp})
    /\ pipe' = SubSeq(pipe, grp + 1, Len(pipe))
    /\ grp' = 0 /\ ins' = 0 /\ txn' = <<>>
    /\ UNCHANGED <<phase, orderQ, balanceQ, coreVars, durable, outputVars, acked,
                   crashes>>

\* Progress.durable becomes visible to the output worker.
JournalPublish ==
    /\ jPc = "committed"
    /\ jPc' = "finish" /\ durable' = Len(journal)
    /\ UNCHANGED <<phase, closed, orderQ, balanceQ, coreVars, pipe, grp, ins, txn,
                   jDone, journal, outputVars, client, acked, boundVars>>

\* Pending::finish of the next item; a caller that gave up is not reached.
JournalFinish ==
    /\ jPc = "finish" /\ grp > 0
    /\ LET p   == Head(pipe)
           hit == client[p.req].pc = "waiting" /\ client[p.req].att = p.att
       IN  /\ client' = IF hit
                        THEN [client EXCEPT ![p.req].pc = "replied", ![p.req].pos = p.seen]
                        ELSE client
           /\ acked' = IF hit /\ p.seen > acked THEN p.seen ELSE acked
    /\ pipe' = Tail(pipe)
    /\ grp' = grp - 1 /\ ins' = ins - 1
    /\ jPc' = IF grp = 1 THEN "recv" ELSE "finish"
    /\ UNCHANGED <<phase, closed, orderQ, balanceQ, coreVars, txn, durable, jDone,
                   journal, outputVars, boundVars>>

\* recv fails once the core's sender is gone and the channel is empty.
JournalEnd ==
    /\ jPc = "recv" /\ pipe = <<>> /\ corePc = "exited"
    /\ jPc' = "done" /\ jDone' = TRUE
    /\ UNCHANGED <<phase, closed, orderQ, balanceQ, coreVars, pipe, grp, ins, txn,
                   durable, journal, outputVars, client, acked, boundVars>>

-----------------------------------------------------------------------------
(* The output worker: output::run_store.                                    *)

\* Projection replayed to the cursor, latest market snapshots sent again.
OutBaseline ==
    /\ outPc = "baseline"
    /\ outPc' = "loop"
    /\ UNCHANGED <<phase, closed, orderQ, balanceQ, coreVars, pipe, journalVars,
                   journal, sent, delivered, kafka, client, acked, boundVars>>

\* The first read of durable decides between a record and the idle branch.
OutLook ==
    /\ outPc = "loop"
    /\ outPc' = IF delivered < durable THEN "send" ELSE "idle"
    /\ sent' = 0
    /\ UNCHANGED <<phase, closed, orderQ, balanceQ, coreVars, pipe, journalVars,
                   journal, delivered, kafka, client, acked, boundVars>>

\* Mutation of NextMessage: the events of a record are sent last first.
MessageBackwards == [seq |-> delivered + 1, idx |-> EventCount(delivered + 1) - sent,
                     req |-> journal[delivered + 1].req]

NextMessage == [seq |-> delivered + 1, idx |-> sent + 1, req |-> journal[delivered + 1].req]

OutSend ==
    /\ outPc = "send" /\ sent < EventCount(delivered + 1)
    /\ kafka' = Append(kafka, NextMessage)
    /\ sent' = sent + 1
    /\ UNCHANGED <<phase, closed, orderQ, balanceQ, coreVars, pipe, journalVars,
                   journal, outPc, delivered, client, acked, boundVars>>

\* Every message of the record is acknowledged: mark_delivered.
OutMark ==
    /\ outPc = "send" /\ sent = EventCount(delivered + 1)
    /\ delivered' = delivered + 1
    /\ outPc' = "loop" /\ sent' = 0
    /\ UNCHANGED <<phase, closed, orderQ, balanceQ, coreVars, pipe, journalVars,
                   journal, kafka, client, acked, boundVars>>

\* A delivery fails, or its acknowledgement is lost; CloseOnExit closes.
OutFail ==
    /\ outPc \in {"baseline", "send"} /\ faults < MaxFaults
    /\ faults' = faults + 1
    /\ \/ kafka' = kafka
       \/ /\ outPc = "send" /\ sent < EventCount(delivered + 1)
          /\ kafka' = Append(kafka, NextMessage)
    /\ outPc' = "failed" /\ sent' = 0 /\ closed' = TRUE
    /\ UNCHANGED <<phase, orderQ, balanceQ, coreVars, pipe, journalVars,
                   journal, delivered, client, acked, crashes>>

\* Mutation of OutIdle: durable is not read again after journal_done.
LeaveOnDone ==
    /\ outPc = "idle"
    /\ IF jDone
       THEN outPc' = "done" /\ closed' = TRUE
       ELSE outPc' = "loop" /\ UNCHANGED closed
    /\ UNCHANGED <<phase, orderQ, balanceQ, coreVars, pipe, journalVars,
                   journal, sent, delivered, kafka, client, acked, boundVars>>

\* journal_done first, then durable read a second time: a group committed
\* between the two reads of durable is not left behind.
OutIdle ==
    /\ outPc = "idle"
    /\ IF jDone /\ delivered = durable
       THEN outPc' = "done" /\ closed' = TRUE
       ELSE outPc' = "loop" /\ UNCHANGED closed
    /\ UNCHANGED <<phase, orderQ, balanceQ, coreVars, pipe, journalVars,
                   journal, sent, delivered, kafka, client, acked, boundVars>>

-----------------------------------------------------------------------------
(* The control thread: HighPerformanceEngine::start and halt, and main.     *)

\* Mutation of Start: durable starts at the delivery cursor.
StartAtCursor ==
    /\ phase = "down"
    /\ phase' = "recovering" /\ closed' = FALSE
    /\ state' = journal
    /\ durable' = delivered /\ jDone' = FALSE
    /\ outPc' = "baseline" /\ sent' = 0
    /\ UNCHANGED <<orderQ, balanceQ, corePc, hand, pipe, jPc, grp, ins, txn, journal,
                   delivered, kafka, client, acked, boundVars>>

\* start up to output::spawn: a new handle, the state replayed from the
\* journal, Progress from disk, the output worker started.
Start ==
    /\ phase = "down"
    /\ phase' = "recovering" /\ closed' = FALSE
    /\ state' = journal
    /\ durable' = Len(journal) /\ jDone' = FALSE
    /\ outPc' = "baseline" /\ sent' = 0
    /\ UNCHANGED <<orderQ, balanceQ, corePc, hand, pipe, jPc, grp, ins, txn, journal,
                   delivered, kafka, client, acked, boundVars>>

\* ready: the worker has caught up with startup_end.  The journal worker and
\* the core start, then main begins to serve.
Open ==
    /\ phase = "recovering" /\ outPc \in {"loop", "idle"}
    /\ delivered >= durable
    /\ phase' = "serving" /\ corePc' = "top" /\ jPc' = "recv"
    /\ UNCHANGED <<closed, orderQ, balanceQ, hand, state, pipe, grp, ins, txn, durable,
                   jDone, journal, outputVars, client, acked, boundVars>>

\* halt, called by stop or by Drop: closes the entrance, then joins.
Halt ==
    /\ phase = "serving"
    /\ phase' = "joinCore" /\ closed' = TRUE
    /\ UNCHANGED <<orderQ, balanceQ, coreVars, pipe, journalVars, journal, outputVars,
                   client, acked, boundVars>>

Join(from, to, ended) ==
    /\ phase = from /\ ended
    /\ phase' = to
    /\ UNCHANGED <<closed, orderQ, balanceQ, coreVars, pipe, journalVars, journal,
                   outputVars, client, acked, boundVars>>

JoinCore    == Join("joinCore", "joinJournal", corePc = "exited")
JoinJournal == Join("joinJournal", "joinOutput", jPc \in {"done", "failed"})
JoinOutput  == Join("joinOutput", "halted", outPc \in {"done", "failed"})

\* The process is gone: every channel, buffer and thread is lost, callers
\* still waiting never learn the outcome.
Gone ==
    /\ phase' = "down" /\ closed' = TRUE
    /\ orderQ' = <<>> /\ balanceQ' = <<>>
    /\ corePc' = "off" /\ hand' = <<>> /\ state' = <<>>
    /\ pipe' = <<>> /\ jPc' = "off" /\ grp' = 0 /\ ins' = 0 /\ txn' = <<>>
    /\ durable' = 0 /\ jDone' = FALSE /\ outPc' = "off" /\ sent' = 0
    /\ client' = [r \in Requests |->
                    IF client[r].pc \in {"checked", "waiting"}
                    THEN [client[r] EXCEPT !.pc = "unknown"] ELSE client[r]]
    /\ UNCHANGED <<journal, delivered, kafka, acked, faults>>

\* The joined engine's process ends; a start that failed ends it too.
Exit ==
    /\ \/ phase = "halted"
       \/ phase = "recovering" /\ outPc = "failed"
    /\ Gone /\ UNCHANGED crashes

Crash ==
    /\ phase # "down" /\ crashes < MaxCrashes
    /\ Gone /\ crashes' = crashes + 1

-----------------------------------------------------------------------------
CoreStep    == CoreTop \/ CoreExit \/ CoreBalance \/ CoreNoBalance \/ CoreReceive \/ CoreOrder
JournalStep == JournalTake \/ JournalInsert \/ JournalCommit \/ JournalPublish
               \/ JournalFinish \/ JournalEnd
OutputStep  == OutBaseline \/ OutLook \/ OutSend \/ OutMark \/ OutIdle
ControlStep == Start \/ Open \/ JoinCore \/ JoinJournal \/ JoinOutput \/ Exit

Next ==
    \/ \E r \in Requests : Call(r) \/ TrySend(r) \/ Timeout(r)
    \/ CoreStep \/ JournalStep \/ JournalFail \/ OutputStep \/ OutFail
    \/ ControlStep \/ Halt \/ Crash

Spec == Init /\ [][Next]_vars

\* Every thread that can run eventually does, and the container is restarted
\* (restart: unless-stopped).  Nothing obliges a caller, a halt, a crash or a
\* fault to happen.
FairSpec == Spec /\ WF_vars(CoreStep) /\ WF_vars(JournalStep)
                 /\ WF_vars(OutputStep) /\ WF_vars(ControlStep)

-----------------------------------------------------------------------------
(* Properties.                                                              *)

\* Every variable keeps the shape its Rust type gives it, and an item is
\* handled only inside the group that was taken from the channel.
FlagType == closed \in BOOLEAN /\ jDone \in BOOLEAN
ControlType ==
    /\ phase \in {"down", "recovering", "serving", "joinCore", "joinJournal",
                  "joinOutput", "halted"}
    /\ crashes \in 0..MaxCrashes /\ faults \in 0..MaxFaults
CoreType ==
    /\ orderQ \in Seq(Attempt) /\ balanceQ \in Seq(Attempt)
    /\ corePc \in {"off", "top", "room", "orders", "got", "exited"}
    /\ hand \in Attempt \cup {<<>>} /\ (corePc = "got" => hand \in Attempt)
    /\ state \in Seq(Record)
JournalType ==
    /\ pipe \in Seq(Pending)
    /\ jPc \in {"off", "recv", "insert", "committed", "finish", "done", "failed"}
    /\ grp \in 0..Len(pipe) /\ ins \in 0..grp
    /\ txn \in Seq(Record) /\ journal \in Seq(Record)
    /\ durable \in Nat
OutputType ==
    /\ outPc \in {"off", "baseline", "loop", "send", "idle", "done", "failed"}
    /\ sent \in Nat /\ delivered \in Nat
    /\ kafka \in Seq(Message)
ClientType ==
    /\ client \in [Requests -> Client] /\ acked \in Nat
    /\ \A r \in Requests : client[r].pc = "idle" \/ client[r].att > 0
TypeOK == FlagType /\ ControlType /\ CoreType /\ JournalType /\ OutputType /\ ClientType

\* A caller that got an answer got it for something on disk: its command is
\* the journal record at the position it was told, and a query exposed only
\* committed records. Neither a crash nor a failed commit undoes it
\* (journal::store::run answers after append; threads.rs queues queries).
AnswersAreDurable ==
    \A r \in Requests : client[r].pc = "replied" =>
        /\ client[r].pos <= Len(journal)
        /\ r \in Commands =>
              /\ client[r].pos > 0
              /\ journal[client[r].pos].req = r
              /\ journal[client[r].pos].att = client[r].att

\* The journal never holds anything but what the core applied, in the order
\* it applied it: group commit and the removal of queries keep the order, so
\* replay rebuilds the core's state (store.rs, append and recover).
JournalFollowsCore ==
    phase # "down" =>
        /\ Len(journal) <= Len(state)
        /\ \A k \in 1..Len(journal) : journal[k] = state[k]

\* What a caller was told before another call began is visible to that call:
\* the later command gets a later position and the later query sees it, in
\* spite of two input channels with a priority between them.
RealTimeOrder ==
    \A r \in Requests : client[r].pc = "replied" =>
        IF r \in Commands THEN client[r].pos > client[r].floor
                          ELSE client[r].pos >= client[r].floor

\* An identified request that is sent again after an unknown outcome gives
\* its result once, across crashes too: no two of its records carry an output
\* batch (journal.rs execute, and the receipts that recover rebuilds).
AppliedOnce ==
    \A j, k \in DOMAIN journal :
        journal[j].req = journal[k].req /\ journal[j].batch /\ journal[k].batch => j = k

\* publish's assertion holds: the slot seen free at the top of the loop is
\* still free when the command has been computed.
PublishHasRoom == corePc \in {"room", "orders", "got"} => Queued < JournalCap

\* Kafka never carries a result that is not on disk, nor two different
\* results under one event identifier (output.rs run_store, Progress.durable).
KafkaMatchesJournal ==
    \A i \in DOMAIN kafka :
        /\ kafka[i].seq \in DOMAIN journal
        /\ kafka[i].req = journal[kafka[i].seq].req
        /\ kafka[i].idx \in 1..EventCount(kafka[i].seq)

\* A consumer that drops repeated identifiers sees every event of every
\* record in journal order with none missing, whatever was retried.
Precedes(s, x, m) == s < m.seq \/ (s = m.seq /\ x < m.idx)
KafkaHasNoGap ==
    \A i \in DOMAIN kafka : \A s \in 1..kafka[i].seq : \A x \in 1..EventCount(s) :
        Precedes(s, x, kafka[i]) =>
            \E j \in 1..(i - 1) : kafka[j].seq = s /\ kafka[j].idx = x

\* The stored cursor covers only records whose every event the broker holds
\* (output.rs: mark_delivered after the last acknowledgement).
CursorIsDelivered ==
    /\ delivered <= Len(journal)
    /\ \A s \in 1..delivered : \A x \in 1..EventCount(s) :
          \E j \in DOMAIN kafka : kafka[j].seq = s /\ kafka[j].idx = x

\* The two ensure! checks at the end of halt never fire on a fault-free stop:
\* the journal channel is empty and every durable record has been delivered.
HaltDrains ==
    phase = "halted" /\ jPc = "done" /\ outPc = "done" =>
        pipe = <<>> /\ durable = Len(journal) /\ delivered = durable

\* halt comes back: no join waits for ever, even when the journal channel is
\* full or a worker failed before (only a crash of the process cuts it short).
HaltTerminates == phase = "joinCore" ~> phase \in {"halted", "down"}

\* A committed record reaches Kafka unless the engine has closed itself after
\* a fault and waits for the operator.
DurableIsDelivered ==
    \A n \in 1..2 :
        Len(journal) >= n ~> (delivered >= n \/ (phase = "serving" /\ closed))

\* An accepted request is answered, or its caller stops waiting, or the
\* engine has closed.
AcceptedIsAnswered ==
    \A r \in Requests : client[r].pc = "waiting" ~> (client[r].pc # "waiting" \/ closed)
===============================================================================
