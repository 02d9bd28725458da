---------------------------- MODULE PipelineProofs ----------------------------
(***************************************************************************)
(* The engine threads, for any number of requests, crashes, retries and    *)
(* faults and any capacities.                                              *)
(*                                                                         *)
(* Types: the type alone is not inductive: a message is built from the     *)
(* journal record after the cursor, which must therefore exist             *)
(* (CursorInv).                                                            *)
(*                                                                         *)
(* Durability: an answer is durable, the journal is a prefix of what the   *)
(* core did, the journal channel never overflows, and a request sent again *)
(* gives its result once.  A Pending item carries the number of records    *)
(* its result depends on (seen).  Along the channel seen grows by one at   *)
(* each command and by nothing at a query (ChainInv), the first item the   *)
(* transaction has not handled is the next record, and everything handled  *)
(* is staged.  So when a group is committed every item in it depends only  *)
(* on the journal.                                                         *)
(*                                                                         *)
(* Delivery: Kafka carries only what is on disk, without a gap, and the    *)
(* stored cursor covers only what Kafka holds.  The invariant says which   *)
(* messages of the record at the cursor are already held (SendInv).        *)
(*                                                                         *)
(* Real time: an item in flight belongs to a call that was made (MadeInv), *)
(* and a result computed after a call began depends on at least everything *)
(* answered before it (FloorInv).                                          *)
(*                                                                         *)
(* Refinement: every step is a step of CommandLog, seen through            *)
(* EngineRefinement, or changes nothing of it.  An attempt is in one place *)
(* at a time (FlightInv): it moves from the caller through a channel, the  *)
(* core's hand and the journal pipe to the journal, or is dropped on the   *)
(* way; the log sees it leave `open` when its group is committed or lost.  *)
(***************************************************************************)
EXTENDS EngineRefinement, TLAPS

-----------------------------------------------------------------------------
(* Types and durability.                                                    *)

\* The output worker reads only what Progress.durable says is committed, and
\* a committed group has been handled to its last item.
CursorInv ==
    /\ durable <= Len(journal)
    /\ outPc = "send" => delivered < durable
    /\ jPc \in {"committed", "finish"} => ins = grp

\* The part with arithmetic; the two flags are proved apart from it.
ShapeInv == ControlType /\ CoreType /\ JournalType /\ OutputType /\ ClientType /\ CursorInv
TypeInv == TypeOK /\ CursorInv

\* Applying a command keeps the types of the state and of the channel, which
\* grows by one item.
LEMMA ApplyType ==
    ASSUME state \in Seq(Record), pipe \in Seq(Pending),
           NEW a \in Attempt, ApplyAndPublish(a)
    PROVE  state' \in Seq(Record) /\ pipe' \in Seq(Pending) /\ Len(pipe') = Len(pipe) + 1
<1>0. PICK batch \in BOOLEAN :
          /\ state' = IF a.req \in Commands
                      THEN Append(state, [req |-> a.req, att |-> a.att, batch |-> batch])
                      ELSE state
          /\ pipe' = Append(pipe, [req |-> a.req, att |-> a.att, batch |-> batch,
                                   seen |-> Len(state')])
    BY DEF ApplyAndPublish
<1>1. CASE a.req \in Commands
    <2> DEFINE r == [req |-> a.req, att |-> a.att, batch |-> batch]
    <2>1. r \in Record
        BY <1>1 DEF Record, Attempt
    <2>2. state' = Append(state, r)
        BY <1>0, <1>1
    <2>3. state' \in Seq(Record) /\ Len(state') \in Nat
        BY <2>1, <2>2
    <2> QED BY <1>0, <2>3 DEF Attempt, Pending, Requests
<1>2. CASE a.req \notin Commands
    BY <1>0, <1>2 DEF Attempt, Pending, Requests
<1> QED BY <1>1, <1>2

\* Whoever is past the first call has a numbered attempt.
Called(c) == \A r \in Requests : c[r].pc = "idle" \/ c[r].att > 0

\* Dropping reply senders leaves well-formed callers.
LEMMA DropType ==
    ASSUME ClientType, NEW S
    PROVE  DropReplies(S) \in [Requests -> Client] /\ Called(DropReplies(S))
<1>1. ASSUME NEW r \in Requests
      PROVE  /\ DropReplies(S)[r] \in Client
             /\ DropReplies(S)[r].pc = "idle" \/ DropReplies(S)[r].att > 0
    <2>1. client[r] \in Client /\ (client[r].pc = "idle" \/ client[r].att > 0)
        BY DEF ClientType
    <2>2. CASE DropReplies(S)[r] = client[r]
        BY <2>1, <2>2
    <2>3. CASE client[r].pc = "waiting" /\ DropReplies(S)[r] = [client[r] EXCEPT !.pc = "unknown"]
        <3>1. client[r].att > 0 
            BY <2>1, <2>3
        <3> QED BY <2>1, <2>3, <3>1 DEF Client
    <2> QED BY <2>2, <2>3 DEF DropReplies
<1>2. DropReplies(S) = [r \in Requests |-> DropReplies(S)[r]]
    BY DEF DropReplies
<1> QED BY <1>1, <1>2 DEF Called

\* Answering, timing out or refusing a call only changes where its caller is.
LEMMA ClientMove ==
    ASSUME ClientType, NEW r \in Requests, client[r].pc # "idle",
           NEW pc \in {"checked", "waiting", "refused", "unknown", "replied"}
    PROVE  LET c == [client EXCEPT ![r].pc = pc]
           IN  c \in [Requests -> Client] /\ Called(c)
<1> DEFINE e == [client[r] EXCEPT !.pc = pc]
<1>1. e \in Client /\ e.att > 0
    BY DEF Client, ClientType
<1>2. [client EXCEPT ![r].pc = pc] = [client EXCEPT ![r] = e]
    OBVIOUS
<1> HIDE DEF e
<1> QED BY <1>1, <1>2 DEF ClientType, Called

\* The two atomic flags stay Boolean.
LEMMA FlagStep == FlagType /\ [Next]_vars => FlagType'
<1> SUFFICES ASSUME FlagType, [Next]_vars PROVE FlagType'
    OBVIOUS
<1> USE DEF FlagType, journalVars
<1>1. ASSUME NEW r \in Requests, Call(r) \/ TrySend(r) \/ Timeout(r) PROVE FlagType'
    BY <1>1 DEF Call, TrySend, Timeout
<1>2. CASE CoreStep
    BY <1>2 DEF CoreStep, CoreTop, CoreExit, CoreBalance, CoreNoBalance, CoreReceive, CoreOrder
<1>3. CASE JournalStep
    BY <1>3 DEF JournalStep, JournalTake, JournalInsert, JournalCommit, JournalPublish,
                JournalFinish, JournalEnd
<1>4. CASE OutputStep
    BY <1>4 DEF OutputStep, OutBaseline, OutLook, OutSend, OutMark, OutIdle
<1>5. CASE ControlStep
    BY <1>5 DEF ControlStep, Start, Open, JoinCore, JoinJournal, JoinOutput, Join, Exit, Gone
<1>6. CASE JournalFail \/ OutFail \/ Halt \/ Crash
    BY <1>6 DEF JournalFail, OutFail, Halt, Crash, Gone
<1>7. CASE UNCHANGED vars
    BY <1>7 DEF vars
<1> QED BY <1>1, <1>2, <1>3, <1>4, <1>5, <1>6, <1>7 DEF Next

\* The record being sent is in the journal, so its message is well formed.
LEMMA NextMessageType ==
    ASSUME JournalType, OutputType, CursorInv, outPc = "send"
    PROVE  NextMessage \in Message
<1>1. delivered + 1 \in 1..Len(journal)
    BY DEF JournalType, OutputType, CursorInv
<1>2. journal[delivered + 1] \in Record
    BY <1>1 DEF JournalType
<1> QED BY <1>1, <1>2 DEF NextMessage, Message, Record, OutputType

\* The loss of the process leaves a well-formed state.
LEMMA GoneType ==
    ASSUME ShapeInv, Gone, crashes' \in 0..MaxCrashes
    PROVE  ShapeInv'
<1>1. ClientType'
    BY DEF ShapeInv, ClientType, Gone, Client
<1>2. ControlType' /\ CoreType' /\ JournalType' /\ OutputType' /\ CursorInv'
    BY DEF ShapeInv, ControlType, CoreType, JournalType, OutputType, CursorInv, Gone
<1> QED BY <1>1, <1>2 DEF ShapeInv

\* The initial state is well formed.
LEMMA TypeInit == Init => ShapeInv
<1> SUFFICES ASSUME Init PROVE ShapeInv
    OBVIOUS
<1>1. ClientType
    BY BoundsAssumption DEF Init, ClientType, Client
<1>2. ControlType /\ CoreType /\ JournalType /\ OutputType /\ CursorInv
    BY BoundsAssumption DEF Init, ControlType, CoreType, JournalType, OutputType, CursorInv
<1> QED BY <1>1, <1>2 DEF ShapeInv

\* Every action of the threads, callers and faults keeps the shape.
LEMMA TypeStep == ShapeInv /\ [Next]_vars => ShapeInv'
<1> SUFFICES ASSUME ShapeInv, [Next]_vars PROVE ShapeInv'
    OBVIOUS
<1> USE BoundsAssumption, RequestsAssumption
<1> USE DEF ShapeInv, CursorInv, ControlType, CoreType, JournalType, OutputType, ClientType
<1>1. ASSUME NEW r \in Requests, Call(r) PROVE ShapeInv'
    <2> DEFINE e == [pc |-> IF closed THEN "refused" ELSE "checked",
                     att |-> client[r].att + 1, floor |-> acked, pos |-> 0]
    <2>1. e \in Client /\ e.att > 0
        <3>1. client[r] \in Client /\ client[r].att < MaxAttempts
            BY <1>1 DEF Call
        <3> QED BY <3>1 DEF Client
    <2>2. client' = [client EXCEPT ![r] = e]
        BY <1>1 DEF Call
    <2>3. ClientType'
        <3> HIDE DEF e
        <3> QED BY <1>1, <2>1, <2>2 DEF Call
    <2> QED BY <1>1, <2>3 DEF Call, coreVars, journalVars, outputVars, boundVars
<1>2. ASSUME NEW r \in Requests, TrySend(r) PROVE ShapeInv'
    <2>1. ClientType'
        <3>1. client' \in [Requests -> Client] /\ Called(client')
            BY <1>2, ClientMove DEF TrySend
        <3> QED BY <1>2, <3>1 DEF TrySend, Called
    <2>2. orderQ' \in Seq(Attempt) /\ balanceQ' \in Seq(Attempt)
        <3>1. client[r] \in Client /\ client[r].att > 0
            BY <1>2 DEF TrySend
        <3>2. [req |-> r, att |-> client[r].att] \in Attempt
            BY <3>1 DEF Attempt, Client
        <3> QED BY <1>2, <3>2 DEF TrySend
    <2> QED BY <1>2, <2>1, <2>2 DEF TrySend, coreVars, journalVars, outputVars, boundVars
<1>3. ASSUME NEW r \in Requests, Timeout(r) PROVE ShapeInv'
    <2>1. ClientType'
        BY <1>3, ClientMove DEF Timeout, Called
    <2> QED BY <1>3, <2>1 DEF Timeout, coreVars, journalVars, outputVars, boundVars
<1>4. CASE CoreTop
    BY <1>4 DEF CoreTop, journalVars, outputVars, boundVars
<1>5. CASE CoreExit
    <2>1. ClientType'
        BY <1>5, DropType DEF CoreExit, Called
    <2> QED BY <1>5, <2>1 DEF CoreExit, journalVars, outputVars, boundVars
<1>6. CASE CoreBalance
    <2>1. Head(balanceQ) \in Attempt /\ Tail(balanceQ) \in Seq(Attempt)
        BY <1>6 DEF CoreBalance
    <2> QED BY <1>6, <2>1, ApplyType DEF CoreBalance, journalVars, outputVars, boundVars
<1>7. CASE CoreNoBalance
    BY <1>7 DEF CoreNoBalance, journalVars, outputVars, boundVars
<1>8. CASE CoreReceive
    <2>1. CASE orderQ = <<>>
        BY <1>8, <2>1 DEF CoreReceive, journalVars, outputVars, boundVars
    <2>2. CASE orderQ # <<>>
        <3>1. Head(orderQ) \in Attempt /\ Tail(orderQ) \in Seq(Attempt)
            BY <2>2
        <3> QED BY <1>8, <2>2, <3>1 DEF CoreReceive, journalVars, outputVars, boundVars
    <2> QED BY <2>1, <2>2
<1>9. CASE CoreOrder
    <2>1. hand \in Attempt
        BY <1>9 DEF CoreOrder
    <2> QED BY <1>9, <2>1, ApplyType DEF CoreOrder, journalVars, outputVars, boundVars
<1>10. CASE JournalTake
    BY <1>10 DEF JournalTake, coreVars, outputVars, boundVars
<1>11. CASE JournalInsert
    <2>1. ins + 1 \in 1..Len(pipe) /\ pipe[ins + 1] \in Pending
        BY <1>11 DEF JournalInsert
    <2>2. IsCommand(pipe[ins + 1]) => RecordOf(pipe[ins + 1]) \in Record
        BY <2>1 DEF IsCommand, RecordOf, Pending, Record
    <2>3. txn' \in Seq(Record)
        BY <1>11, <2>2 DEF JournalInsert
    <2>4. ins' \in 0..grp'
        BY <1>11 DEF JournalInsert
    <2> QED BY <1>11, <2>3, <2>4 DEF JournalInsert, coreVars, outputVars, boundVars
<1>12. CASE JournalCommit
    BY <1>12 DEF JournalCommit, coreVars, outputVars, boundVars
<1>13. CASE JournalFail
    <2>1. ClientType'
        BY <1>13, DropType DEF JournalFail, Called
    <2>2. /\ pipe' = SubSeq(pipe, grp + 1, Len(pipe)) /\ grp' = 0 /\ ins' = 0 /\ txn' = <<>>
          /\ journal' = journal \/ journal' = journal \o txn
          /\ faults < MaxFaults /\ faults' = faults + 1
          /\ jPc' = "failed"
          /\ UNCHANGED <<phase, crashes, orderQ, balanceQ, coreVars, durable, outputVars>>
        BY <1>13 DEF JournalFail
    <2>3. journal' \in Seq(Record) /\ Len(journal) <= Len(journal')
        <3>1. CASE journal' = journal
            BY <3>1
        <3>2. CASE journal' = journal \o txn
            BY <3>2
        <3> QED BY <2>2, <3>1, <3>2
    <2>4. pipe' \in Seq(Pending) /\ Len(pipe') \in Nat
        BY <2>2
    <2>5. ControlType'
        BY <2>2
    <2>6. CoreType' /\ OutputType'
        BY <2>2 DEF coreVars, outputVars
    <2>7. JournalType' /\ CursorInv'
        BY <2>2, <2>3, <2>4 DEF outputVars
    <2> QED BY <2>1, <2>5, <2>6, <2>7
<1>14. CASE JournalPublish
    BY <1>14 DEF JournalPublish, coreVars, outputVars, boundVars
<1>15. CASE JournalFinish
    <2> DEFINE p == Head(pipe)
               e == [client[p.req] EXCEPT !.pc = "replied", !.pos = p.seen]
    <2>1. pipe # <<>>
        BY <1>15 DEF JournalFinish
    <2>2. p \in Pending /\ Tail(pipe) \in Seq(Pending) /\ Len(Tail(pipe)) = Len(pipe) - 1
        BY <2>1
    <2>3. p.req \in Requests /\ p.seen \in Nat
        BY <2>2 DEF Pending
    <2>4. client' \in [Requests -> Client] /\ Called(client')
        <3>1. CASE client' = client
            BY <3>1 DEF Called
        <3>2. CASE client[p.req].pc = "waiting" /\ client' = [client EXCEPT ![p.req] = e]
            <4>1. e \in Client /\ e.att > 0
                BY <2>3, <3>2 DEF Client
            <4> HIDE DEF e
            <4> QED BY <2>3, <3>2, <4>1 DEF Called
        <3> QED BY <1>15, <3>1, <3>2 DEF JournalFinish
    <2>5. acked' \in Nat
        BY <1>15, <2>3 DEF JournalFinish
    <2>6. ClientType'
        BY <2>4, <2>5 DEF Called
    <2>7. pipe' \in Seq(Pending) /\ grp' \in 0..Len(pipe') /\ ins' = grp'
        <3>1. /\ jPc = "finish" /\ grp > 0
              /\ pipe' = Tail(pipe) /\ grp' = grp - 1 /\ ins' = ins - 1
            BY <1>15 DEF JournalFinish
        <3> QED BY <2>2, <3>1
    <2>8. JournalType' /\ CursorInv'
        BY <1>15, <2>7 DEF JournalFinish, outputVars
    <2> QED BY <1>15, <2>6, <2>8 DEF JournalFinish, coreVars, outputVars, boundVars
<1>16. CASE JournalEnd
    BY <1>16 DEF JournalEnd, coreVars, outputVars, boundVars
<1>17. CASE OutBaseline
    BY <1>17 DEF OutBaseline, coreVars, journalVars, boundVars
<1>18. CASE OutLook
    BY <1>18 DEF OutLook, coreVars, journalVars, boundVars
<1>19. CASE OutSend
    <2>1. NextMessage \in Message
        BY <1>19, NextMessageType DEF OutSend
    <2> QED BY <1>19, <2>1 DEF OutSend, coreVars, journalVars, boundVars
<1>20. CASE OutMark
    BY <1>20 DEF OutMark, coreVars, journalVars, boundVars
<1>21. CASE OutFail
    <2>1. kafka' \in Seq(Message)
        <3>1. CASE kafka' = kafka
            BY <3>1
        <3>2. CASE outPc = "send" /\ kafka' = Append(kafka, NextMessage)
            <4>1. NextMessage \in Message
                BY <3>2, NextMessageType
            <4> QED BY <3>2, <4>1
        <3> QED BY <1>21, <3>1, <3>2 DEF OutFail
    <2> QED BY <1>21, <2>1 DEF OutFail, coreVars, journalVars
<1>22. CASE OutIdle
    BY <1>22 DEF OutIdle, coreVars, journalVars, boundVars
<1>23. CASE Start
    BY <1>23 DEF Start, boundVars
<1>24. CASE Open
    BY <1>24 DEF Open, outputVars, boundVars
<1>25. CASE Halt
    BY <1>25 DEF Halt, coreVars, journalVars, outputVars, boundVars
<1>26. CASE JoinCore \/ JoinJournal \/ JoinOutput
    <2>1. CASE JoinCore
        BY <2>1 DEF JoinCore, Join, coreVars, journalVars, outputVars, boundVars
    <2>2. CASE JoinJournal
        BY <2>2 DEF JoinJournal, Join, coreVars, journalVars, outputVars, boundVars
    <2>3. CASE JoinOutput
        BY <2>3 DEF JoinOutput, Join, coreVars, journalVars, outputVars, boundVars
    <2> QED BY <1>26, <2>1, <2>2, <2>3
<1>27. CASE Exit
    BY <1>27, GoneType DEF Exit
<1>28. CASE Crash
    <2>1. crashes' \in 0..MaxCrashes
        BY <1>28 DEF Crash
    <2> QED BY <1>28, <2>1, GoneType DEF Crash
<1>29. CASE UNCHANGED vars
    BY <1>29 DEF vars, coreVars, journalVars, outputVars, boundVars
<1> QED
    BY <1>1, <1>2, <1>3, <1>4, <1>5, <1>6, <1>7, <1>8, <1>9, <1>10, <1>11, <1>12,
       <1>13, <1>14, <1>15, <1>16, <1>17, <1>18, <1>19, <1>20, <1>21, <1>22, <1>23,
       <1>24, <1>25, <1>26, <1>27, <1>28, <1>29
       DEF Next, CoreStep, JournalStep, OutputStep, ControlStep

\* Base case of the inductive type invariant.
LEMMA TypeInitial == Init => TypeInv
<1>1. Init => FlagType
    BY DEF Init, FlagType
<1> QED BY <1>1, TypeInit DEF TypeInv, TypeOK, ShapeInv

\* Step of the inductive type invariant.
LEMMA TypePreserved == TypeInv /\ [Next]_vars => TypeInv'
BY FlagStep, TypeStep DEF TypeInv, TypeOK, ShapeInv

\* Every variable always keeps the shape its Rust type gives it, and the
\* handled items stay inside the group taken from the channel.
THEOREM TypeCorrect == Spec => []TypeOK
<1>1. TypeInv => TypeOK
    BY DEF TypeInv
<1> QED BY TypeInitial, TypePreserved, <1>1, PTL DEF Spec

-----------------------------------------------------------------------------
(* The journal and the core.                                               *)

\* Records on disk or in the open transaction.
Staged == Len(journal) + Len(txn)

\* Records an item adds to the journal.
Weight(p) == IF IsCommand(p) THEN 1 ELSE 0

\* Threads that do not run hold nothing, and only an open transaction has
\* records that are not on disk.
QuietInv ==
    /\ jPc \in {"off", "recv", "done", "failed"} => grp = 0
    /\ jPc # "insert" => txn = <<>>
    /\ phase \in {"down", "recovering"} => corePc = "off" /\ jPc = "off" /\ pipe = <<>>

\* Disk, then open transaction, are a prefix of the records the core applied.
PrefixInv ==
    phase # "down" =>
        /\ Staged <= Len(state)
        /\ \A k \in 1..Len(journal) : journal[k] = state[k]
        /\ \A k \in 1..Len(txn) : txn[k] = state[Len(journal) + k]

\* An item in flight is the record of the core it says it is.
SeenInv ==
    \A k \in 1..Len(pipe) :
        /\ pipe[k].seen <= Len(state)
        /\ IsCommand(pipe[k]) => pipe[k].seen > 0 /\ state[pipe[k].seen] = RecordOf(pipe[k])

\* The items in flight continue the staged records without a gap, up to the
\* last record of the core (until an append has failed).
ChainInv ==
    jPc # "failed" /\ phase # "down" =>
        /\ \A k \in 1..ins : pipe[k].seen <= Staged
        /\ ins < Len(pipe) => pipe[ins + 1].seen = Staged + Weight(pipe[ins + 1])
        /\ \A k \in 1..(Len(pipe) - 1) : pipe[k + 1].seen = pipe[k].seen + Weight(pipe[k + 1])
        /\ pipe # <<>> => pipe[Len(pipe)].seen = Len(state)
        /\ ins = Len(pipe) => Staged = Len(state)

\* The inductive invariant, next to TypeInv.
LogInv == QuietInv /\ PrefixInv /\ SeenInv /\ ChainInv

\* Most steps leave the journal, the transaction and the channel alone.
LEMMA LogFrame ==
    ASSUME LogInv, UNCHANGED <<state, pipe, jPc, grp, ins, txn, journal>>,
           phase' # "down", phase # "down",
           phase' = "recovering" => phase = "recovering",
           corePc' # corePc => phase' # "recovering"
    PROVE  LogInv'
<1>1. QuietInv'
    BY DEF LogInv, QuietInv
<1>2. PrefixInv' /\ SeenInv' /\ ChainInv'
    BY DEF LogInv, PrefixInv, SeenInv, ChainInv, Staged, Weight, IsCommand, RecordOf
<1> QED BY <1>1, <1>2 DEF LogInv

\* A step that touches none of the variables of LogInv keeps it.
LEMMA LogStutter ==
    ASSUME LogInv, UNCHANGED <<phase, corePc, state, pipe, jPc, grp, ins, txn, journal>>
    PROVE  LogInv'
BY DEF LogInv, QuietInv, PrefixInv, SeenInv, ChainInv, Staged, Weight, IsCommand, RecordOf

\* What ApplyAndPublish does to the state and to the channel.
LEMMA PublishEffect ==
    ASSUME TypeInv, NEW a \in Attempt, ApplyAndPublish(a)
    PROVE  \E p \in Pending :
              /\ p.req = a.req /\ p.att = a.att /\ p.seen = Len(state')
              /\ pipe' = Append(pipe, p)
              /\ state' = IF IsCommand(p) THEN Append(state, RecordOf(p)) ELSE state
<1>2. PICK batch \in BOOLEAN :
          /\ state' = IF a.req \in Commands
                      THEN Append(state, [req |-> a.req, att |-> a.att, batch |-> batch])
                      ELSE state
          /\ pipe' = Append(pipe, [req |-> a.req, att |-> a.att, batch |-> batch,
                                   seen |-> Len(state')])
    BY DEF ApplyAndPublish
<1> DEFINE p == [req |-> a.req, att |-> a.att, batch |-> batch, seen |-> Len(state')]
<1>1. state' \in Seq(Record) /\ Len(state') \in Nat
    BY ApplyType DEF TypeInv, TypeOK, CoreType, JournalType
<1>3. p \in Pending
    BY <1>1, <1>2 DEF Pending, Attempt
<1>4. p.req = a.req /\ p.att = a.att /\ p.seen = Len(state')
    OBVIOUS
<1>5. pipe' = Append(pipe, p)
    BY <1>2
<1>6. state' = IF IsCommand(p) THEN Append(state, RecordOf(p)) ELSE state
    BY <1>2 DEF IsCommand, RecordOf
<1> HIDE DEF p
<1> QED BY <1>3, <1>4, <1>5, <1>6

\* The core applies one request and publishes it into its reserved slot.
LEMMA PublishLog ==
    ASSUME TypeInv, LogInv, NEW a \in Attempt, ApplyAndPublish(a),
           phase \notin {"down", "recovering"},
           UNCHANGED <<phase, jPc, grp, ins, txn, journal>>
    PROVE  LogInv'
<1>0. PICK p \in Pending :
          /\ p.req = a.req /\ p.att = a.att /\ p.seen = Len(state')
          /\ pipe' = Append(pipe, p)
          /\ state' = IF IsCommand(p) THEN Append(state, RecordOf(p)) ELSE state
    BY PublishEffect
<1>1. /\ Len(pipe') = Len(pipe) + 1
      /\ pipe'[Len(pipe')] = p
      /\ \A k \in 1..Len(pipe) : pipe'[k] = pipe[k] /\ pipe[k].seen \in Nat
    <2>1. pipe \in Seq(Pending)
        BY DEF TypeInv, TypeOK, JournalType
    <2>2. \A k \in 1..Len(pipe) : pipe[k] \in Pending
        BY <2>1
    <2>3. \A k \in 1..Len(pipe) : pipe[k].seen \in Nat
        BY <2>2 DEF Pending
    <2> QED BY <1>0, <2>1, <2>3
<1>2. /\ Len(state') = Len(state) + Weight(p)
      /\ \A k \in 1..Len(state) : state'[k] = state[k]
      /\ IsCommand(p) => state'[Len(state')] = RecordOf(p)
    <2>1. CASE IsCommand(p)
        BY <1>0, <2>1 DEF Weight, TypeInv, TypeOK, CoreType
    <2>2. CASE ~IsCommand(p)
        BY <1>0, <2>2 DEF Weight, TypeInv, TypeOK, CoreType
    <2> QED BY <2>1, <2>2
<1>3. Weight(p) \in {0, 1} /\ (IsCommand(p) => Weight(p) = 1)
    BY DEF Weight
<1>4. /\ Len(state) \in Nat /\ Len(pipe) \in Nat /\ Len(journal) \in Nat /\ Len(txn) \in Nat
      /\ ins \in 0..Len(pipe)
    BY DEF TypeInv, TypeOK, CoreType, JournalType
<1>5. QuietInv'
    BY DEF LogInv, QuietInv
<1>6. PrefixInv'
    <2>1. /\ Staged <= Len(state)
          /\ \A k \in 1..Len(journal) : journal[k] = state[k]
          /\ \A k \in 1..Len(txn) : txn[k] = state[Len(journal) + k]
        BY DEF LogInv, PrefixInv
    <2>2. Staged <= Len(state')
        BY <1>2, <1>3, <1>4, <2>1 DEF Staged
    <2>3. \A k \in 1..Len(journal) : journal[k] = state'[k]
        BY <1>2, <1>4, <2>1 DEF Staged
    <2>4. \A k \in 1..Len(txn) : txn[k] = state'[Len(journal) + k]
        <3> SUFFICES ASSUME NEW k \in 1..Len(txn)
                     PROVE  txn[k] = state'[Len(journal) + k]
            OBVIOUS
        <3>1. Len(journal) + k \in 1..Len(state)
            BY <1>4, <2>1 DEF Staged
        <3> QED BY <1>2, <2>1, <3>1
    <2> QED BY <2>2, <2>3, <2>4 DEF PrefixInv, Staged
<1>7. SeenInv'
    <2> SUFFICES ASSUME NEW k \in 1..Len(pipe')
                 PROVE  /\ pipe'[k].seen <= Len(state')
                        /\ IsCommand(pipe'[k]) => /\ pipe'[k].seen > 0
                                                  /\ state'[pipe'[k].seen] = RecordOf(pipe'[k])
        BY Zenon DEF SeenInv, IsCommand, RecordOf
    <2>1. CASE k \in 1..Len(pipe)
        <3>1. pipe[k].seen \in Nat
            BY <1>1, <2>1
        <3>2. pipe'[k] = pipe[k] /\ pipe[k].seen <= Len(state)
            BY <1>1, <2>1 DEF LogInv, SeenInv
        <3>3. IsCommand(pipe[k]) => pipe[k].seen \in 1..Len(state)
                                    /\ state[pipe[k].seen] = RecordOf(pipe[k])
            BY <2>1, <3>1, <3>2 DEF LogInv, SeenInv
        <3> QED BY <1>2, <1>3, <1>4, <3>1, <3>2, <3>3
    <2>2. CASE k = Len(pipe')
        BY <1>0, <1>1, <1>2, <1>3, <1>4, <2>2
    <2> QED BY <1>1, <1>4, <2>1, <2>2
<1>8. ChainInv'
    <2> SUFFICES ASSUME jPc # "failed"
                 PROVE  /\ \A k \in 1..ins : pipe'[k].seen <= Staged
                        /\ ins < Len(pipe') => pipe'[ins + 1].seen = Staged + Weight(pipe'[ins + 1])
                        /\ \A k \in 1..(Len(pipe') - 1) :
                              pipe'[k + 1].seen = pipe'[k].seen + Weight(pipe'[k + 1])
                        /\ pipe'[Len(pipe')].seen = Len(state')
                        /\ ins # Len(pipe')
        BY DEF ChainInv, Staged, Weight, IsCommand
    <2>0. /\ \A k \in 1..ins : pipe[k].seen <= Staged
          /\ ins < Len(pipe) => pipe[ins + 1].seen = Staged + Weight(pipe[ins + 1])
          /\ \A k \in 1..(Len(pipe) - 1) : pipe[k + 1].seen = pipe[k].seen + Weight(pipe[k + 1])
          /\ Len(pipe) > 0 => pipe[Len(pipe)].seen = Len(state)
          /\ ins = Len(pipe) => Staged = Len(state)
        BY DEF LogInv, ChainInv
    <2>1. \A k \in 1..ins : pipe'[k].seen <= Staged
        BY <1>1, <1>4, <2>0
    <2>2. ins < Len(pipe') => pipe'[ins + 1].seen = Staged + Weight(pipe'[ins + 1])
        <3>1. CASE ins < Len(pipe)
            BY <1>1, <1>4, <2>0, <3>1
        <3>2. CASE ins = Len(pipe)
            BY <1>0, <1>1, <1>2, <1>4, <2>0, <3>2
        <3> QED BY <1>4, <3>1, <3>2
    <2>3. ASSUME NEW k \in 1..(Len(pipe') - 1)
          PROVE  pipe'[k + 1].seen = pipe'[k].seen + Weight(pipe'[k + 1])
        <3>1. CASE k < Len(pipe)
            BY <1>1, <1>4, <2>0, <3>1
        <3>2. CASE k = Len(pipe)
            BY <1>0, <1>1, <1>2, <1>4, <2>0, <3>2
        <3> QED BY <1>1, <1>4, <3>1, <3>2
    <2>4. pipe'[Len(pipe')].seen = Len(state') /\ ins # Len(pipe')
        BY <1>0, <1>1, <1>4
    <2> QED BY <2>1, <2>2, <2>3, <2>4
<1> QED BY <1>5, <1>6, <1>7, <1>8 DEF LogInv

\* The transaction takes the next item of its group.
LEMMA InsertLog ==
    ASSUME TypeInv, LogInv, JournalInsert
    PROVE  LogInv'
<1> DEFINE p == pipe[ins + 1]
<1>1. /\ jPc = "insert" /\ ins < grp /\ ins' = ins + 1
      /\ txn' = IF IsCommand(p) THEN Append(txn, RecordOf(p)) ELSE txn
      /\ UNCHANGED <<phase, state, pipe, jPc, grp, journal, corePc>>
    BY DEF JournalInsert, coreVars
<1>2. /\ Len(state) \in Nat /\ Len(pipe) \in Nat /\ Len(journal) \in Nat /\ Len(txn) \in Nat
      /\ grp \in 0..Len(pipe) /\ ins \in 0..grp
    BY DEF TypeInv, TypeOK, CoreType, JournalType
<1>3. phase \notin {"down", "recovering"}
    BY <1>1 DEF LogInv, QuietInv
<1>4. ins + 1 \in 1..Len(pipe) /\ p \in Pending /\ p.seen \in Nat
    <2>1. ins + 1 \in 1..Len(pipe)
        BY <1>1, <1>2
    <2>2. p \in Pending
        BY <2>1 DEF TypeInv, TypeOK, JournalType
    <2> QED BY <2>1, <2>2 DEF Pending
<1>5. /\ p.seen = Staged + Weight(p) /\ p.seen <= Len(state)
      /\ IsCommand(p) => state[p.seen] = RecordOf(p)
    BY <1>1, <1>2, <1>3, <1>4 DEF LogInv, ChainInv, SeenInv
<1> HIDE DEF p
<1>6. /\ Len(txn') = Len(txn) + Weight(p)
      /\ \A k \in 1..Len(txn) : txn'[k] = txn[k]
      /\ IsCommand(p) => txn'[Len(txn) + 1] = RecordOf(p)
    <2>1. CASE IsCommand(p)
        BY <1>1, <2>1 DEF Weight, TypeInv, TypeOK, JournalType
    <2>2. CASE ~IsCommand(p)
        BY <1>1, <1>2, <2>2 DEF Weight
    <2> QED BY <2>1, <2>2
<1>7. Weight(p) \in {0, 1} /\ (Weight(p) = 1 => IsCommand(p))
    BY DEF Weight
<1>8. Staged' = p.seen
    BY <1>1, <1>2, <1>5, <1>6, <1>7 DEF Staged
<1>9. QuietInv'
    BY <1>1 DEF LogInv, QuietInv
<1>10. PrefixInv'
    <2>1. /\ Staged <= Len(state)
          /\ \A k \in 1..Len(journal) : journal[k] = state[k]
          /\ \A k \in 1..Len(txn) : txn[k] = state[Len(journal) + k]
        BY <1>3 DEF LogInv, PrefixInv
    <2>2. ASSUME NEW k \in 1..Len(txn')
          PROVE  txn'[k] = state[Len(journal) + k]
        <3>1. CASE k \in 1..Len(txn)
            BY <1>6, <2>1, <3>1
        <3>2. CASE k = Len(txn) + 1 /\ IsCommand(p)
            <4>1. p.seen = Len(journal) + k
                BY <1>2, <1>5, <3>2 DEF Staged, Weight
            <4> QED BY <1>5, <1>6, <3>2, <4>1
        <3> QED BY <1>2, <1>6, <1>7, <3>1, <3>2
    <2> QED BY <1>1, <1>5, <1>8, <2>1, <2>2 DEF PrefixInv
<1>11. SeenInv'
    BY <1>1 DEF LogInv, SeenInv, IsCommand, RecordOf
<1>12. ChainInv'
    <2>0. /\ \A k \in 1..ins : pipe[k].seen <= Staged
          /\ \A k \in 1..(Len(pipe) - 1) : pipe[k + 1].seen = pipe[k].seen + Weight(pipe[k + 1])
          /\ pipe # <<>> => pipe[Len(pipe)].seen = Len(state)
        BY <1>1, <1>3 DEF LogInv, ChainInv
    <2>1. \A k \in 1..(ins + 1) : pipe[k].seen <= p.seen
        <3> SUFFICES ASSUME NEW k \in 1..(ins + 1) PROVE pipe[k].seen <= p.seen
            OBVIOUS
        <3>1. CASE k = ins + 1
            BY <1>4, <3>1 DEF p
        <3>2. CASE k \in 1..ins
            <4>1. pipe[k] \in Pending
                BY <1>2, <3>2 DEF TypeInv, TypeOK, JournalType
            <4>2. pipe[k].seen \in Nat
                BY <4>1 DEF Pending
            <4> QED BY <1>2, <1>5, <1>7, <2>0, <3>2, <4>2 DEF Staged
        <3> QED BY <1>2, <3>1, <3>2
    <2>2. ins + 1 < Len(pipe) => pipe[ins + 2].seen = p.seen + Weight(pipe[ins + 2])
        <3> SUFFICES ASSUME ins + 1 < Len(pipe)
                     PROVE  pipe[ins + 2].seen = p.seen + Weight(pipe[ins + 2])
            OBVIOUS
        <3>1. ins + 1 \in 1..(Len(pipe) - 1) /\ (ins + 1) + 1 = ins + 2
            BY <1>2
        <3> QED BY <2>0, <3>1 DEF p
    <2>3. ins + 1 = Len(pipe) => p.seen = Len(state)
        BY <1>2, <1>4, <2>0 DEF p
    <2>4. (ins + 1) + 1 = ins + 2
        BY <1>2
    <2> QED BY <1>1, <1>8, <2>0, <2>1, <2>2, <2>3, <2>4 DEF ChainInv, Weight, IsCommand
<1> QED BY <1>9, <1>10, <1>11, <1>12 DEF LogInv

\* What the disk holds once the open transaction is on it.
LEMMA CommitEffect ==
    ASSUME TypeInv, LogInv, jPc = "insert"
    PROVE  /\ journal \o txn \in Seq(Record)
           /\ Len(journal \o txn) = Staged
           /\ \A k \in 1..Len(journal) : (journal \o txn)[k] = journal[k]
           /\ \A k \in 1..Staged : (journal \o txn)[k] = state[k]
           /\ Staged <= Len(state)
<1>1. journal \in Seq(Record) /\ txn \in Seq(Record)
    BY DEF TypeInv, TypeOK, JournalType
<1>2. /\ journal \o txn \in Seq(Record) /\ Len(journal \o txn) = Staged
      /\ \A k \in 1..Len(journal) : (journal \o txn)[k] = journal[k]
    BY <1>1 DEF Staged
<1>3. /\ Staged <= Len(state)
      /\ \A k \in 1..Len(journal) : journal[k] = state[k]
      /\ \A k \in 1..Len(txn) : txn[k] = state[Len(journal) + k]
    BY DEF LogInv, QuietInv, PrefixInv
<1>4. ASSUME NEW k \in 1..Staged PROVE (journal \o txn)[k] = state[k]
    <2>1. CASE k \in 1..Len(journal)
        BY <1>2, <1>3, <2>1
    <2>2. CASE k \in (Len(journal) + 1)..Staged
        <3>1. (journal \o txn)[k] = txn[k - Len(journal)]
            BY <1>1, <2>2 DEF Staged
        <3>2. k - Len(journal) \in 1..Len(txn) /\ Len(journal) + (k - Len(journal)) = k
            BY <1>1, <2>2 DEF Staged
        <3> QED BY <1>3, <3>1, <3>2
    <2> QED BY <1>1, <2>1, <2>2 DEF Staged
<1> QED BY <1>2, <1>3, <1>4

\* The FULL commit of a group returns.
LEMMA CommitLog ==
    ASSUME TypeInv, LogInv, JournalCommit
    PROVE  LogInv'
<1>1. /\ jPc = "insert" /\ ins = grp /\ jPc' = "committed"
      /\ journal' = journal \o txn /\ txn' = <<>>
      /\ UNCHANGED <<phase, state, pipe, grp, ins, corePc>>
    BY DEF JournalCommit, coreVars
<1>2. /\ Len(journal') = Staged /\ Staged <= Len(state)
      /\ \A k \in 1..Staged : journal'[k] = state[k]
    BY <1>1, CommitEffect
<1>3. Staged \in Nat /\ Len(txn') = 0 /\ Staged' = Staged
    BY <1>1, <1>2 DEF Staged, TypeInv, TypeOK, JournalType
<1>4. phase \notin {"down", "recovering"}
    BY <1>1 DEF LogInv, QuietInv
<1>5. QuietInv'
    BY <1>1, <1>4 DEF QuietInv
<1>6. PrefixInv'
    BY <1>1, <1>2, <1>3 DEF PrefixInv
<1>7. SeenInv'
    BY <1>1 DEF LogInv, SeenInv, IsCommand, RecordOf
<1>8. ChainInv'
    BY <1>1, <1>3, <1>4 DEF LogInv, ChainInv, Weight, IsCommand
<1> QED BY <1>5, <1>6, <1>7, <1>8 DEF LogInv

\* The first item of a committed group is answered and leaves the channel.
LEMMA FinishLog ==
    ASSUME TypeInv, LogInv, JournalFinish
    PROVE  LogInv'
<1>1. /\ jPc = "finish" /\ grp > 0 /\ pipe' = Tail(pipe)
      /\ grp' = grp - 1 /\ ins' = ins - 1 /\ jPc' = IF grp = 1 THEN "recv" ELSE "finish"
      /\ UNCHANGED <<phase, state, txn, journal, corePc>>
    BY DEF JournalFinish, coreVars
<1>2. /\ Len(state) \in Nat /\ Len(pipe) \in Nat /\ Len(journal) \in Nat /\ Len(txn) \in Nat
      /\ grp \in 0..Len(pipe) /\ ins = grp
    BY <1>1 DEF TypeInv, CursorInv, TypeOK, CoreType, JournalType
<1>3. phase \notin {"down", "recovering"} /\ Staged' = Staged /\ txn = <<>>
    BY <1>1 DEF LogInv, QuietInv, Staged
<1>4. /\ Len(pipe') = Len(pipe) - 1
      /\ \A k \in 1..(Len(pipe) - 1) : pipe'[k] = pipe[k + 1]
    <2>1. pipe \in Seq(Pending) /\ pipe # <<>>
        BY <1>1, <1>2 DEF TypeInv, TypeOK, JournalType
    <2> QED BY <1>1, <2>1
<1>5. QuietInv'
    BY <1>1, <1>2, <1>3 DEF QuietInv
<1>6. PrefixInv'
    BY <1>1 DEF LogInv, PrefixInv, Staged
<1>7. SeenInv'
    <2> SUFFICES ASSUME NEW k \in 1..Len(pipe')
                 PROVE  /\ pipe'[k].seen <= Len(state)
                        /\ IsCommand(pipe'[k]) => /\ pipe'[k].seen > 0
                                                  /\ state[pipe'[k].seen] = RecordOf(pipe'[k])
        BY <1>1 DEF SeenInv, IsCommand, RecordOf
    <2>1. k + 1 \in 1..Len(pipe) /\ pipe'[k] = pipe[k + 1]
        BY <1>2, <1>4
    <2> QED BY <2>1 DEF LogInv, SeenInv
<1>8. ChainInv'
    <2>0. /\ \A k \in 1..ins : pipe[k].seen <= Staged
          /\ ins < Len(pipe) => pipe[ins + 1].seen = Staged + Weight(pipe[ins + 1])
          /\ \A k \in 1..(Len(pipe) - 1) : pipe[k + 1].seen = pipe[k].seen + Weight(pipe[k + 1])
          /\ pipe # <<>> => pipe[Len(pipe)].seen = Len(state)
          /\ ins = Len(pipe) => Staged = Len(state)
        BY <1>1, <1>3 DEF LogInv, ChainInv
    <2>1. ASSUME NEW k \in 1..(ins - 1) PROVE pipe'[k].seen <= Staged
        <3>1. k \in 1..(Len(pipe) - 1) /\ k + 1 \in 1..ins
            BY <1>2
        <3> QED BY <1>4, <2>0, <3>1
    <2>2. ins - 1 < Len(pipe') => pipe'[ins].seen = Staged + Weight(pipe'[ins])
        <3> SUFFICES ASSUME ins - 1 < Len(pipe')
                     PROVE  pipe'[ins].seen = Staged + Weight(pipe'[ins])
            OBVIOUS
        <3>1. ins \in 1..(Len(pipe) - 1)
            BY <1>1, <1>2, <1>4
        <3> QED BY <1>2, <1>4, <2>0, <3>1
    <2>3. ASSUME NEW k \in 1..(Len(pipe') - 1)
          PROVE  pipe'[k + 1].seen = pipe'[k].seen + Weight(pipe'[k + 1])
        <3>1. k \in 1..(Len(pipe) - 1) /\ k + 1 \in 1..(Len(pipe) - 1)
            BY <1>2, <1>4
        <3> QED BY <1>4, <2>0, <3>1
    <2>4. pipe' # <<>> => pipe'[Len(pipe')].seen = Len(state)
        <3> SUFFICES ASSUME pipe' # <<>> PROVE pipe'[Len(pipe')].seen = Len(state)
            OBVIOUS
        <3>1. Len(pipe') > 0 /\ pipe # <<>>
            <4>1. pipe \in Seq(Pending) /\ pipe # <<>>
                BY <1>1, <1>2 DEF TypeInv, TypeOK, JournalType
            <4>2. pipe' \in Seq(Pending)
                BY <1>1, <4>1
            <4> QED BY <4>1, <4>2
        <3>2. Len(pipe) - 1 \in 1..(Len(pipe) - 1) /\ (Len(pipe) - 1) + 1 = Len(pipe)
            BY <1>2, <1>4, <3>1
        <3> QED BY <1>4, <2>0, <3>1, <3>2
    <2>5. ins - 1 = Len(pipe') => Staged = Len(state)
        BY <1>2, <1>4, <2>0
    <2>6. (ins - 1) + 1 = ins
        BY <1>2
    <2> QED BY <1>1, <1>3, <2>1, <2>2, <2>3, <2>4, <2>5, <2>6 DEF ChainInv, Weight, IsCommand
<1> QED BY <1>5, <1>6, <1>7, <1>8 DEF LogInv

\* append fails, with or without the records having reached the disk.
LEMMA FailLog ==
    ASSUME TypeInv, LogInv, JournalFail
    PROVE  LogInv'
<1>1. /\ jPc = "insert" /\ jPc' = "failed" /\ grp' = 0 /\ txn' = <<>>
      /\ pipe' = SubSeq(pipe, grp + 1, Len(pipe))
      /\ journal' = journal \/ journal' = journal \o txn
      /\ UNCHANGED <<phase, state, corePc>>
    BY DEF JournalFail, coreVars
<1>2. phase \notin {"down", "recovering"}
    BY <1>1 DEF LogInv, QuietInv
<1>3. /\ pipe \in Seq(Pending) /\ Len(pipe) \in Nat /\ grp \in 0..Len(pipe)
      /\ Len(txn) \in Nat /\ Len(journal) \in Nat /\ Len(state) \in Nat
    BY DEF TypeInv, TypeOK, JournalType, CoreType
<1>4. QuietInv'
    BY <1>1, <1>2 DEF QuietInv
<1>5. PrefixInv'
    <2>0. Len(txn') = 0
        BY <1>1
    <2>1. CASE journal' = journal
        BY <1>1, <1>2, <1>3, <2>0, <2>1 DEF LogInv, PrefixInv, Staged
    <2>2. CASE journal' = journal \o txn
        <3>1. /\ Len(journal') = Staged /\ Staged <= Len(state) /\ Staged \in Nat
              /\ \A k \in 1..Staged : journal'[k] = state[k]
            BY <1>1, <1>3, <2>2, CommitEffect DEF Staged
        <3>2. Staged' = Staged
            BY <2>0, <3>1 DEF Staged
        <3> QED BY <1>1, <2>0, <3>1, <3>2 DEF PrefixInv
    <2> QED BY <1>1, <2>1, <2>2
<1>6. SeenInv'
    <2> SUFFICES ASSUME NEW k \in 1..Len(pipe')
                 PROVE  /\ pipe'[k].seen <= Len(state)
                        /\ IsCommand(pipe'[k]) => /\ pipe'[k].seen > 0
                                                  /\ state[pipe'[k].seen] = RecordOf(pipe'[k])
        BY <1>1 DEF SeenInv, IsCommand, RecordOf
    <2>1. grp + k \in 1..Len(pipe) /\ pipe'[k] = pipe[grp + k]
        BY <1>1, <1>3
    <2> QED BY <2>1 DEF LogInv, SeenInv
<1>7. ChainInv'
    BY <1>1 DEF ChainInv
<1> QED BY <1>4, <1>5, <1>6, <1>7 DEF LogInv

\* Nothing is in flight once the process is gone.
LEMMA GoneLog ==
    ASSUME Gone PROVE LogInv'
<1>1. phase' = "down" /\ corePc' = "off" /\ pipe' = <<>> /\ jPc' = "off" /\ grp' = 0 /\ txn' = <<>>
    BY DEF Gone
<1> QED BY <1>1 DEF LogInv, QuietInv, PrefixInv, SeenInv, ChainInv

\* Base case.
LEMMA LogInit == Init => LogInv
BY DEF Init, LogInv, QuietInv, PrefixInv, SeenInv, ChainInv

\* Every step keeps LogInv.
LEMMA LogStep == TypeInv /\ LogInv /\ [Next]_vars => LogInv'
<1> SUFFICES ASSUME TypeInv, LogInv, [Next]_vars PROVE LogInv'
    OBVIOUS
<1> USE DEF coreVars, journalVars, outputVars, boundVars
<1>1. ASSUME NEW r \in Requests, Call(r) PROVE LogInv'
    BY <1>1, LogFrame DEF Call
<1>2. ASSUME NEW r \in Requests, TrySend(r) \/ Timeout(r) PROVE LogInv'
    <2>1. UNCHANGED <<phase, corePc, state, pipe, jPc, grp, ins, txn, journal>>
        BY <1>2 DEF TrySend, Timeout
    <2> QED BY <2>1, LogStutter
<1>3. CASE CoreTop \/ CoreExit \/ CoreNoBalance \/ CoreReceive
    <2>1. /\ corePc # "off"
          /\ UNCHANGED <<phase, state, pipe, jPc, grp, ins, txn, journal>>
        BY <1>3 DEF CoreTop, CoreExit, CoreNoBalance, CoreReceive
    <2>2. phase \notin {"down", "recovering"}
        BY <2>1 DEF LogInv, QuietInv
    <2> QED BY <2>1, <2>2, LogFrame
<1>4. CASE CoreBalance
    <2>1. Head(balanceQ) \in Attempt
        BY <1>4 DEF CoreBalance, TypeInv, TypeOK, CoreType
    <2>2. phase \notin {"down", "recovering"}
        BY <1>4 DEF CoreBalance, LogInv, QuietInv
    <2> QED BY <1>4, <2>1, <2>2, PublishLog DEF CoreBalance
<1>5. CASE CoreOrder
    <2>1. hand \in Attempt
        BY <1>5 DEF CoreOrder, TypeInv, TypeOK, CoreType
    <2>2. phase \notin {"down", "recovering"}
        BY <1>5 DEF CoreOrder, LogInv, QuietInv
    <2> QED BY <1>5, <2>1, <2>2, PublishLog DEF CoreOrder
<1>6. CASE JournalTake
    <2>1. /\ jPc = "recv" /\ jPc' = "insert" /\ ins' = 0 /\ txn' = <<>>
          /\ UNCHANGED <<phase, corePc, state, pipe, journal>>
        BY <1>6 DEF JournalTake
    <2>2. ins = 0 /\ txn = <<>> /\ phase \notin {"down", "recovering"}
        BY <2>1 DEF LogInv, QuietInv, TypeInv, TypeOK, JournalType
    <2>3. QuietInv'
        BY <2>1, <2>2 DEF QuietInv
    <2> QED BY <2>1, <2>2, <2>3 DEF LogInv, PrefixInv, SeenInv, ChainInv, Staged, Weight,
                                   IsCommand, RecordOf
<1>7. CASE JournalPublish \/ JournalEnd
    <2>1. /\ (jPc = "committed" /\ jPc' = "finish") \/ (jPc = "recv" /\ jPc' = "done")
          /\ UNCHANGED <<phase, corePc, state, pipe, grp, ins, txn, journal>>
        BY <1>7 DEF JournalPublish, JournalEnd
    <2>2. QuietInv'
        BY <2>1 DEF LogInv, QuietInv
    <2> QED BY <2>1, <2>2 DEF LogInv, PrefixInv, SeenInv, ChainInv, Staged, Weight,
                              IsCommand, RecordOf
<1>8. CASE OutputStep \/ OutFail
    <2>1. UNCHANGED <<phase, corePc, state, pipe, jPc, grp, ins, txn, journal>>
        BY <1>8 DEF OutputStep, OutBaseline, OutLook, OutSend, OutMark, OutIdle, OutFail
    <2> QED BY <2>1, LogStutter
<1>9. CASE Start
    <2>1. /\ phase = "down" /\ phase' = "recovering" /\ state' = journal
          /\ UNCHANGED <<corePc, pipe, jPc, grp, ins, txn, journal>>
        BY <1>9 DEF Start
    <2>2. /\ corePc = "off" /\ jPc = "off" /\ pipe = <<>> /\ grp = 0 /\ txn = <<>> /\ ins = 0
          /\ Len(journal) \in Nat
        BY <2>1 DEF LogInv, QuietInv, TypeInv, TypeOK, JournalType
    <2>3. Len(pipe') = 0 /\ Len(txn') = 0 /\ Staged' = Len(journal)
        BY <2>1, <2>2 DEF Staged
    <2>4. QuietInv'
        BY <2>1, <2>2 DEF QuietInv
    <2>5. PrefixInv' /\ SeenInv' /\ ChainInv'
        BY <2>1, <2>2, <2>3 DEF PrefixInv, SeenInv, ChainInv
    <2> QED BY <2>4, <2>5 DEF LogInv
<1>10. CASE Open
    <2>1. /\ phase = "recovering" /\ phase' = "serving" /\ jPc' = "recv"
          /\ UNCHANGED <<state, pipe, grp, ins, txn, journal>>
        BY <1>10 DEF Open
    <2>2. jPc = "off" /\ grp = 0 /\ txn = <<>>
        BY <2>1 DEF LogInv, QuietInv
    <2>3. QuietInv'
        BY <2>1, <2>2 DEF QuietInv
    <2> QED BY <2>1, <2>2, <2>3 DEF LogInv, PrefixInv, SeenInv, ChainInv, Staged, Weight,
                                    IsCommand, RecordOf
<1>11. CASE Halt \/ JoinCore \/ JoinJournal \/ JoinOutput
    <2>1. /\ phase \notin {"down", "recovering"} /\ phase' \notin {"down", "recovering"}
          /\ UNCHANGED <<corePc, state, pipe, jPc, grp, ins, txn, journal>>
        BY <1>11 DEF Halt, JoinCore, JoinJournal, JoinOutput, Join
    <2> QED BY <2>1, LogFrame
<1>12. CASE Exit \/ Crash
    BY <1>12, GoneLog DEF Exit, Crash
<1>13. CASE UNCHANGED vars
    <2>1. UNCHANGED <<phase, corePc, state, pipe, jPc, grp, ins, txn, journal>>
        BY <1>13 DEF vars
    <2> QED BY <2>1, LogStutter
<1> QED
    BY <1>1, <1>2, <1>3, <1>4, <1>5, <1>6, <1>7, <1>8, <1>9, <1>10, <1>11, <1>12, <1>13,
       InsertLog, CommitLog, FinishLog, FailLog
       DEF Next, CoreStep, JournalStep, ControlStep

\* The journal never holds anything but what the core applied, in that order,
\* so the replay of recover rebuilds the state the core had.
THEOREM JournalIsCoreHistory == Spec => []JournalFollowsCore
<1>1. TypeInv /\ LogInv => JournalFollowsCore
    BY DEF TypeInv, TypeOK, JournalType, CoreType, LogInv, PrefixInv, Staged, JournalFollowsCore
<1> QED BY TypeInitial, TypePreserved, LogInit, LogStep, <1>1, PTL DEF Spec

\* Nothing on disk is ever rewritten or removed.
LEMMA JournalGrows ==
    ASSUME TypeInv, LogInv, [Next]_vars
    PROVE  Len(journal) <= Len(journal') /\ \A k \in 1..Len(journal) : journal'[k] = journal[k]
<1>0. Len(journal) \in Nat
    BY DEF TypeInv, TypeOK, JournalType
<1>1. CASE JournalCommit \/ JournalFail
    <2>1. jPc = "insert" /\ (journal' = journal \/ journal' = journal \o txn)
        BY <1>1 DEF JournalCommit, JournalFail
    <2>2. Len(journal) <= Staged
        BY DEF Staged, TypeInv, TypeOK, JournalType
    <2> QED BY <1>0, <2>1, <2>2, CommitEffect
<1>2. CASE ~(JournalCommit \/ JournalFail)
    <2>1. journal' = journal
        BY <1>2 DEF Next, Call, TrySend, Timeout, CoreStep, CoreTop, CoreExit, CoreBalance,
            CoreNoBalance, CoreReceive, CoreOrder, JournalStep, JournalTake, JournalInsert,
            JournalPublish, JournalFinish, JournalEnd, OutputStep, OutBaseline, OutLook, OutSend,
            OutMark, OutIdle, OutFail, ControlStep, Start, Open, Halt, JoinCore, JoinJournal,
            JoinOutput, Join, Exit, Crash, Gone, vars
    <2> QED BY <1>0, <2>1
<1> QED BY <1>1, <1>2

\* Moving one caller touches no other caller.
LEMMA PcMove ==
    ASSUME client \in [Requests -> Client], NEW q \in Requests, NEW r \in Requests, NEW pc
    PROVE  LET c == [client EXCEPT ![q].pc = pc]
           IN  (r # q => c[r] = client[r]) /\ c[q].pc = pc
<1>1. client[q] \in Client
    OBVIOUS
<1> QED BY <1>1 DEF Client

\* Only Pending::finish answers a caller, and an answer is not taken back.
LEMMA OnlyFinishReplies ==
    ASSUME TypeInv, [Next]_vars, ~JournalFinish, NEW r \in Requests, client'[r].pc = "replied"
    PROVE  client'[r] = client[r]
<1>0. client \in [Requests -> Client] /\ client[r] \in Client
    BY DEF TypeInv, TypeOK, ClientType
<1>1. ASSUME NEW q \in Requests, Call(q) PROVE client'[r] = client[r]
    BY <1>0, <1>1 DEF Call
<1>2. ASSUME NEW q \in Requests, TrySend(q) PROVE client'[r] = client[r]
    <2>1. PICK pc \in {"waiting", "refused"} : client' = [client EXCEPT ![q].pc = pc]
        BY <1>2 DEF TrySend
    <2> QED BY <1>0, <2>1, PcMove
<1>3. ASSUME NEW q \in Requests, Timeout(q) PROVE client'[r] = client[r]
    BY <1>0, <1>3, PcMove DEF Timeout
<1>4. CASE CoreExit \/ JournalFail
    <2>1. PICK S : client' = DropReplies(S)
        BY <1>4 DEF CoreExit, JournalFail
    <2>2. client'[r] = client[r] \/ client'[r] = [client[r] EXCEPT !.pc = "unknown"]
        BY <2>1 DEF DropReplies
    <2> QED BY <1>0, <2>2 DEF Client
<1>5. CASE Exit \/ Crash
    <2>1. client'[r] = client[r] \/ client'[r] = [client[r] EXCEPT !.pc = "unknown"]
        BY <1>5 DEF Exit, Crash, Gone
    <2> QED BY <1>0, <2>1 DEF Client
<1>6. CASE UNCHANGED client
    BY <1>6
<1>7. \/ \E q \in Requests : Call(q) \/ TrySend(q) \/ Timeout(q)
      \/ CoreExit \/ JournalFail \/ Exit \/ Crash \/ UNCHANGED client
    BY DEF Next, CoreStep, CoreTop, CoreBalance, CoreNoBalance, CoreReceive, CoreOrder,
        JournalStep, JournalTake, JournalInsert, JournalCommit, JournalPublish, JournalEnd,
        OutputStep, OutBaseline, OutLook, OutSend, OutMark, OutIdle, OutFail, ControlStep,
        Start, Open, Halt, JoinCore, JoinJournal, JoinOutput, Join, vars
<1> QED BY <1>1, <1>2, <1>3, <1>4, <1>5, <1>6, <1>7

\* Base case.
LEMMA AnswersInit == Init => AnswersAreDurable
BY DEF Init, AnswersAreDurable

\* Every step keeps the answers durable; JournalFinish is the one that adds
\* an answer, and its item is on disk by ChainInv.
LEMMA AnswersStep ==
    TypeInv /\ LogInv /\ AnswersAreDurable /\ [Next]_vars => AnswersAreDurable'
<1> SUFFICES ASSUME TypeInv, LogInv, AnswersAreDurable, [Next]_vars,
                    NEW r \in Requests, client'[r].pc = "replied"
             PROVE  /\ client'[r].pos <= Len(journal')
                    /\ r \in Commands => /\ client'[r].pos > 0
                                         /\ journal'[client'[r].pos].req = r
                                         /\ journal'[client'[r].pos].att = client'[r].att
    BY DEF AnswersAreDurable
<1>0. Len(journal) \in Nat /\ client \in [Requests -> Client] /\ client[r].pos \in Nat
    BY DEF TypeInv, TypeOK, JournalType, ClientType, Client
<1>1. CASE client'[r] = client[r]
    <2>1. /\ client[r].pos <= Len(journal)
          /\ r \in Commands => /\ client[r].pos > 0
                               /\ journal[client[r].pos].req = r
                               /\ journal[client[r].pos].att = client[r].att
        BY <1>1 DEF AnswersAreDurable
    <2>2. Len(journal') \in Nat
        BY TypePreserved DEF TypeInv, TypeOK, JournalType
    <2>3. r \in Commands => client[r].pos \in 1..Len(journal)
        BY <1>0, <2>1
    <2> QED BY <1>0, <1>1, <2>1, <2>2, <2>3, JournalGrows
<1>2. CASE JournalFinish /\ client'[r] # client[r]
    <2> DEFINE p == Head(pipe)
    <2>1. jPc = "finish" /\ grp > 0 /\ UNCHANGED <<journal, txn>>
        BY <1>2 DEF JournalFinish
    <2>2. pipe \in Seq(Pending) /\ ins = grp /\ 1 \in 1..ins /\ 1 \in 1..Len(pipe)
        BY <2>1 DEF TypeInv, CursorInv, TypeOK, JournalType
    <2>3. p = pipe[1] /\ p \in Pending
        BY <2>2
    <2>4. p.req \in Requests /\ p.att \in Nat /\ p.seen \in Nat
        BY <2>3, BoundsAssumption DEF Pending
    <2>5. client' = [client EXCEPT ![p.req].pc = "replied", ![p.req].pos = p.seen]
          /\ client[p.req].att = p.att
        BY <1>2 DEF JournalFinish
    <2>6. r = p.req /\ client'[r].pos = p.seen /\ client'[r].att = p.att
        <3> HIDE DEF p
        <3> QED BY <1>0, <1>2, <2>4, <2>5 DEF Client
    <2>7. phase \notin {"down", "recovering"} /\ txn = <<>>
        BY <2>1 DEF LogInv, QuietInv
    <2>8. p.seen <= Len(journal)
        BY <1>0, <2>1, <2>2, <2>3, <2>7 DEF LogInv, ChainInv, Staged
    <2>9. r \in Commands => p.seen > 0 /\ journal[p.seen].req = r /\ journal[p.seen].att = p.att
        <3> SUFFICES ASSUME r \in Commands
                     PROVE  p.seen > 0 /\ journal[p.seen].req = r /\ journal[p.seen].att = p.att
            OBVIOUS
        <3>1. p.seen > 0 /\ state[p.seen] = RecordOf(p)
            BY <2>2, <2>3, <2>6 DEF LogInv, SeenInv, IsCommand
        <3>2. journal[p.seen] = state[p.seen]
            BY <1>0, <2>4, <2>7, <2>8, <3>1 DEF LogInv, PrefixInv
        <3> QED BY <2>6, <3>1, <3>2 DEF RecordOf
    <2> QED BY <2>1, <2>6, <2>8, <2>9
<1> QED BY <1>1, <1>2, OnlyFinishReplies

\* A caller that got an answer got it for something on disk, for ever: no
\* crash, failed commit or later group undoes what journal::store::run
\* answered.
THEOREM AnswersSurvive == Spec => []AnswersAreDurable
BY TypeInitial, TypePreserved, LogInit, LogStep, AnswersInit, AnswersStep, PTL DEF Spec

\* publish's assertion holds in every run: the slot seen free at the top of
\* the core's loop is still free when the command has been computed.
THEOREM PublishNeverFull == Spec => []PublishHasRoom
<1>1. Init => PublishHasRoom
    BY DEF Init, PublishHasRoom
<1>2. TypeInv /\ LogInv /\ PublishHasRoom /\ [Next]_vars => PublishHasRoom'
    <2> SUFFICES ASSUME TypeInv, LogInv, PublishHasRoom, [Next]_vars PROVE PublishHasRoom'
        OBVIOUS
    <2>0. /\ pipe \in Seq(Pending) /\ Len(pipe) \in Nat /\ grp \in 0..Len(pipe)
          /\ (jPc = "recv" => grp = 0) /\ JournalCap \in Nat
        BY BoundsAssumption DEF TypeInv, TypeOK, JournalType, LogInv, QuietInv
    <2>1. CASE CoreStep
        <3>1. CASE CoreTop \/ CoreNoBalance \/ CoreReceive
            BY <3>1 DEF CoreTop, CoreNoBalance, CoreReceive, PublishHasRoom, Queued, journalVars
        <3>2. CASE CoreExit \/ CoreBalance \/ CoreOrder
            BY <3>2 DEF CoreExit, CoreBalance, CoreOrder, PublishHasRoom
        <3> QED BY <2>1, <3>1, <3>2 DEF CoreStep
    <2>2. CASE JournalTake
        <3>1. grp = 0 /\ grp' \in Nat /\ UNCHANGED <<corePc, pipe>>
            BY <2>0, <2>2, BoundsAssumption DEF JournalTake, coreVars
        <3> QED BY <2>0, <3>1 DEF PublishHasRoom, Queued
    <2>3. CASE JournalFinish
        <3>1. pipe # <<>> /\ pipe' = Tail(pipe) /\ grp' = grp - 1 /\ UNCHANGED corePc
            BY <2>0, <2>3 DEF JournalFinish, coreVars
        <3>2. Len(pipe') = Len(pipe) - 1
            BY <2>0, <3>1
        <3> QED BY <2>0, <3>1, <3>2 DEF PublishHasRoom, Queued
    <2>4. CASE JournalFail
        <3>1. pipe' = SubSeq(pipe, grp + 1, Len(pipe)) /\ grp' = 0 /\ UNCHANGED corePc
            BY <2>4 DEF JournalFail, coreVars
        <3>2. Len(pipe') = Len(pipe) - grp
            BY <2>0, <3>1
        <3> QED BY <2>0, <3>1, <3>2 DEF PublishHasRoom, Queued
    <2>5. CASE corePc' \notin {"room", "orders", "got"}
        BY <2>5 DEF PublishHasRoom
    <2>6. CASE UNCHANGED <<corePc, pipe, grp>>
        BY <2>6 DEF PublishHasRoom, Queued
    <2>7. \/ CoreStep \/ JournalTake \/ JournalFinish \/ JournalFail
          \/ corePc' \notin {"room", "orders", "got"} \/ UNCHANGED <<corePc, pipe, grp>>
        BY DEF Next, Call, TrySend, Timeout, JournalStep, JournalInsert, JournalCommit,
            JournalPublish, JournalEnd, OutputStep, OutBaseline, OutLook, OutSend, OutMark,
            OutIdle, OutFail, ControlStep, Start, Open, Halt, JoinCore, JoinJournal,
            JoinOutput, Join, Exit, Crash, Gone, vars, coreVars, journalVars
    <2> QED BY <2>1, <2>2, <2>3, <2>4, <2>5, <2>6, <2>7
<1> QED BY TypeInitial, TypePreserved, LogInit, LogStep, <1>1, <1>2, PTL DEF Spec

-----------------------------------------------------------------------------
(* A request that is sent again gives its result once.  The core decides    *)
(* from the records in memory, the property is about the records on disk:   *)
(* the two meet because the journal is a prefix of the core's history       *)
(* (LogInv) and because a restart rebuilds the history from the journal.    *)

\* No two records of a sequence give a result for the same request.
Once(s) == \A j, k \in 1..Len(s) : s[j].req = s[k].req /\ s[j].batch /\ s[k].batch => j = k

\* The inductive invariant, next to TypeInv and LogInv.
RetryInv == Once(journal) /\ (phase # "down" => Once(state))

\* Applying a command checks the receipts of the whole history.
LEMMA ApplyOnce ==
    ASSUME TypeInv, NEW a \in Attempt, ApplyAndPublish(a), Once(state)
    PROVE  Once(state')
<1>0. state \in Seq(Record)
    BY DEF TypeInv, TypeOK, CoreType
<1>1. PICK batch \in BOOLEAN :
          /\ batch => New(a, state)
          /\ state' = IF a.req \in Commands
                      THEN Append(state, [req |-> a.req, att |-> a.att, batch |-> batch])
                      ELSE state
    BY DEF ApplyAndPublish
<1>2. CASE a.req \in Commands
    <2> DEFINE r == [req |-> a.req, att |-> a.att, batch |-> batch]
    <2>1. /\ Len(state') = Len(state) + 1 /\ state'[Len(state) + 1] = r
          /\ \A k \in 1..Len(state) : state'[k] = state[k]
        BY <1>0, <1>1, <1>2
    <2>2. \A k \in 1..Len(state) : state[k].req = a.req /\ state[k].batch => ~batch
        BY <1>0, <1>1 DEF New
    <2>3. r.req = a.req /\ r.batch = batch
        OBVIOUS
    <2> HIDE DEF r
    <2> QED BY <1>0, <2>1, <2>2, <2>3 DEF Once
<1>3. CASE a.req \notin Commands
    BY <1>1, <1>3
<1> QED BY <1>2, <1>3

\* Every step keeps RetryInv: the core's history grows by ApplyAndPublish only,
\* and whatever a commit adds to the journal is part of that history.
LEMMA RetryStep == TypeInv /\ LogInv /\ RetryInv /\ [Next]_vars => RetryInv'
<1> SUFFICES ASSUME TypeInv, LogInv, RetryInv, [Next]_vars PROVE RetryInv'
    OBVIOUS
<1>0. TypeInv' /\ LogInv'
    BY TypePreserved, LogStep
<1>1. CASE CoreBalance \/ CoreOrder
    <2>1. phase # "down" /\ UNCHANGED <<phase, journal>>
        BY <1>1 DEF CoreBalance, CoreOrder, LogInv, QuietInv, journalVars
    <2>2. PICK a \in Attempt : ApplyAndPublish(a)
        <3>1. CASE CoreBalance
            <4>1. Head(balanceQ) \in Attempt
                BY <3>1 DEF CoreBalance, TypeInv, TypeOK, CoreType
            <4> QED BY <3>1, <4>1 DEF CoreBalance
        <3>2. CASE CoreOrder
            BY <3>2 DEF CoreOrder, TypeInv, TypeOK, CoreType
        <3> QED BY <1>1, <3>1, <3>2
    <2>3. Once(state')
        BY <2>1, <2>2, ApplyOnce DEF RetryInv
    <2> QED BY <2>1, <2>3 DEF RetryInv
<1>2. CASE JournalCommit \/ JournalFail
    <2>1. jPc = "insert" /\ UNCHANGED <<phase, state>>
        BY <1>2 DEF JournalCommit, JournalFail, coreVars
    <2>2. phase # "down"
        BY <2>1 DEF LogInv, QuietInv
    <2>3. Once(state')
        BY <2>1, <2>2 DEF RetryInv
    <2>4. Once(journal')
        <3>1. /\ Len(journal') \in Nat /\ Len(state') \in Nat /\ Len(txn') \in Nat
              /\ Len(journal') + Len(txn') <= Len(state')
              /\ \A k \in 1..Len(journal') : journal'[k] = state'[k]
            BY <1>0, <2>1, <2>2
                DEF TypeInv, TypeOK, JournalType, CoreType, LogInv, PrefixInv, Staged
        <3>2. \A k \in 1..Len(journal') : k \in 1..Len(state')
            BY <3>1
        <3> QED BY <2>3, <3>1, <3>2 DEF Once
    <2> QED BY <2>3, <2>4 DEF RetryInv
<1>3. CASE Start
    BY <1>3 DEF Start, RetryInv
<1>4. CASE phase' = "down" /\ UNCHANGED journal
    BY <1>4 DEF RetryInv
<1>5. CASE UNCHANGED <<state, journal>> /\ phase # "down"
    BY <1>5 DEF RetryInv
<1>6. CASE UNCHANGED <<phase, state, journal>>
    BY <1>6 DEF RetryInv
<1>7. \/ CoreBalance \/ CoreOrder \/ JournalCommit \/ JournalFail \/ Start
      \/ phase' = "down" /\ UNCHANGED journal
      \/ UNCHANGED <<state, journal>> /\ phase # "down"
      \/ UNCHANGED <<phase, state, journal>>
    BY DEF Next, Call, TrySend, Timeout, CoreStep, CoreTop, CoreExit, CoreNoBalance,
        CoreReceive, JournalStep, JournalTake, JournalInsert, JournalPublish, JournalFinish,
        JournalEnd, OutputStep, OutBaseline, OutLook, OutSend, OutMark, OutIdle, OutFail,
        ControlStep, Open, Halt, JoinCore, JoinJournal, JoinOutput, Join, Exit, Crash, Gone,
        vars, coreVars, journalVars
<1> QED BY <1>1, <1>2, <1>3, <1>4, <1>5, <1>6, <1>7

\* An identified request gives its result at most once, however often it is
\* sent again and wherever the process crashes in between (journal.rs execute
\* with the receipts rebuilt by recover).
THEOREM ResultsAreUnique == Spec => []AppliedOnce
<1>1. Init => RetryInv
    BY DEF Init, RetryInv, Once
<1>2. TypeInv /\ RetryInv => AppliedOnce
    <2>1. TypeInv => DOMAIN journal = 1..Len(journal)
        BY DEF TypeInv, TypeOK, JournalType
    <2> QED BY <2>1 DEF RetryInv, Once, AppliedOnce
<1> QED BY TypeInitial, TypePreserved, LogInit, LogStep, RetryStep, <1>1, <1>2, PTL DEF Spec

-----------------------------------------------------------------------------
(* Delivery to Kafka.                                                       *)

\* Message x of record s is on the broker.
Held(s, x) == \E j \in DOMAIN kafka : kafka[j].seq = s /\ kafka[j].idx = x

\* The first `sent` messages of the record at the cursor are on the broker.
SendInv ==
    outPc = "send" =>
        /\ sent <= EventCount(delivered + 1)
        /\ \A x \in 1..sent : Held(delivered + 1, x)

\* The inductive invariant, next to TypeInv and LogInv.
DeliveryInv == KafkaMatchesJournal /\ CursorIsDelivered /\ KafkaHasNoGap /\ SendInv

\* A record gives a number of messages.
LEMMA EventCountType ==
    ASSUME TypeInv, NEW s \in 1..Len(journal)
    PROVE  EventCount(s) \in Nat
<1>1. journal[s] \in Record
    BY DEF TypeInv, TypeOK, JournalType
<1>2. journal[s].batch \in BOOLEAN /\ journal[s].req \in Commands
    BY <1>1 DEF Record
<1>3. Events[journal[s].req] \in Nat
    BY <1>2, RequestsAssumption
<1> QED BY <1>3 DEF EventCount

\* A record keeps its messages.
LEMMA EventCountStable ==
    ASSUME TypeInv, LogInv, [Next]_vars, NEW s \in 1..Len(journal)
    PROVE  EventCount(s)' = EventCount(s) /\ s \in 1..Len(journal')
<1>1. Len(journal) \in Nat /\ Len(journal') \in Nat
    BY TypePreserved DEF TypeInv, TypeOK, JournalType
<1>2. journal'[s] = journal[s] /\ Len(journal) <= Len(journal')
    BY JournalGrows
<1> QED BY <1>1, <1>2 DEF EventCount

\* Base case.
LEMMA DeliveryInit == Init => DeliveryInv
<1> SUFFICES ASSUME Init PROVE DeliveryInv
    OBVIOUS
<1>1. Len(journal) = 0 /\ delivered = 0 /\ Len(kafka) = 0 /\ outPc = "off" /\ DOMAIN kafka = {}
    BY DEF Init
<1> QED BY <1>1 DEF DeliveryInv, KafkaMatchesJournal, CursorIsDelivered, KafkaHasNoGap, SendInv

\* A step that neither sends nor moves the cursor.
LEMMA DeliveryFrame ==
    ASSUME TypeInv, LogInv, DeliveryInv, [Next]_vars, UNCHANGED <<kafka, delivered>>,
           outPc' = "send" => sent' = 0 \/ (outPc = "send" /\ sent' = sent),
           outPc' = "send" => delivered < Len(journal)
    PROVE  DeliveryInv'
<1>0. /\ Len(journal) \in Nat /\ Len(journal') \in Nat /\ Len(journal) <= Len(journal')
      /\ delivered \in Nat /\ sent \in Nat /\ delivered <= Len(journal)
      /\ \A i \in DOMAIN kafka : kafka[i].seq \in 1..Len(journal)
      /\ \A s \in 1..Len(journal) : /\ EventCount(s)' = EventCount(s)
                                    /\ EventCount(s) \in Nat
                                    /\ journal'[s] = journal[s]
    <2>1. Len(journal) \in Nat /\ Len(journal') \in Nat /\ DOMAIN journal = 1..Len(journal)
        BY TypePreserved DEF TypeInv, TypeOK, JournalType
    <2>2. delivered \in Nat /\ sent \in Nat
        BY DEF TypeInv, TypeOK, OutputType
    <2> QED BY <2>1, <2>2, JournalGrows, EventCountStable, EventCountType
            DEF DeliveryInv, KafkaMatchesJournal, CursorIsDelivered
<1>1. KafkaMatchesJournal'
    <2> SUFFICES ASSUME NEW i \in DOMAIN kafka
                 PROVE  /\ kafka[i].seq \in DOMAIN journal'
                        /\ kafka[i].req = journal'[kafka[i].seq].req
                        /\ kafka[i].idx \in 1..EventCount(kafka[i].seq)'
        BY DEF KafkaMatchesJournal, EventCount
    <2>1. DOMAIN journal' = 1..Len(journal')
        BY TypePreserved DEF TypeInv, TypeOK, JournalType
    <2> QED BY <1>0, <2>1 DEF DeliveryInv, KafkaMatchesJournal
<1>2. CursorIsDelivered'
    <2> SUFFICES ASSUME NEW s \in 1..delivered, NEW x \in 1..EventCount(s)'
                 PROVE  \E j \in DOMAIN kafka : kafka[j].seq = s /\ kafka[j].idx = x
        BY <1>0 DEF CursorIsDelivered, EventCount
    <2>1. s \in 1..Len(journal) /\ EventCount(s)' = EventCount(s)
        BY <1>0
    <2> QED BY <2>1 DEF DeliveryInv, CursorIsDelivered
<1>3. KafkaHasNoGap'
    <2> SUFFICES ASSUME NEW i \in DOMAIN kafka, NEW s \in 1..kafka[i].seq,
                        NEW x \in 1..EventCount(s)', Precedes(s, x, kafka[i])
                 PROVE  \E j \in 1..(i - 1) : kafka[j].seq = s /\ kafka[j].idx = x
        BY DEF KafkaHasNoGap, Precedes, EventCount
    <2>1. s \in 1..Len(journal) /\ EventCount(s)' = EventCount(s)
        BY <1>0
    <2> QED BY <2>1 DEF DeliveryInv, KafkaHasNoGap
<1>4. SendInv'
    <2> SUFFICES ASSUME outPc' = "send"
                 PROVE  /\ sent' <= EventCount(delivered + 1)'
                        /\ \A x \in 1..sent' :
                              \E j \in DOMAIN kafka : kafka[j].seq = delivered + 1 /\ kafka[j].idx = x
        BY DEF SendInv, Held, EventCount
    <2>1. /\ EventCount(delivered + 1)' = EventCount(delivered + 1)
          /\ EventCount(delivered + 1) \in Nat
        BY <1>0
    <2>2. CASE sent' = 0
        BY <2>1, <2>2
    <2>3. CASE outPc = "send" /\ sent' = sent
        BY <2>1, <2>3 DEF DeliveryInv, SendInv, Held
    <2> QED BY <2>2, <2>3
<1> QED BY <1>1, <1>2, <1>3, <1>4 DEF DeliveryInv

\* A message of the record at the cursor reaches the broker.
LEMMA SendEffect ==
    ASSUME TypeInv, DeliveryInv, outPc = "send", sent < EventCount(delivered + 1),
           kafka' = Append(kafka, NextMessage), UNCHANGED <<journal, delivered>>
    PROVE  /\ KafkaMatchesJournal' /\ CursorIsDelivered' /\ KafkaHasNoGap'
           /\ \A x \in 1..(sent + 1) : Held(delivered + 1, x)'
<1>0. /\ Len(journal) \in Nat /\ DOMAIN journal = 1..Len(journal)
      /\ delivered \in Nat /\ sent \in Nat /\ delivered + 1 \in 1..Len(journal)
      /\ kafka \in Seq(Message) /\ Len(kafka) \in Nat /\ DOMAIN kafka = 1..Len(kafka)
    BY DEF TypeInv, CursorInv, TypeOK, JournalType, OutputType
<1>1. NextMessage \in Message
    BY NextMessageType DEF TypeInv, TypeOK
<1>2. /\ DOMAIN kafka' = 1..(Len(kafka) + 1)
      /\ \A j \in 1..Len(kafka) : kafka'[j] = kafka[j]
      /\ kafka'[Len(kafka) + 1] = NextMessage
    BY <1>0, <1>1
<1>3. /\ NextMessage.seq = delivered + 1 /\ NextMessage.idx = sent + 1
      /\ NextMessage.req = journal[delivered + 1].req
    BY DEF NextMessage
<1>4. EventCount(delivered + 1) \in Nat
    BY <1>0, EventCountType
<1>5. \A s, x : Held(s, x) => Held(s, x)'
    <2> SUFFICES ASSUME NEW s, NEW x, Held(s, x)
                 PROVE  \E j \in DOMAIN kafka' : kafka'[j].seq = s /\ kafka'[j].idx = x
        BY DEF Held
    <2>1. PICK j \in 1..Len(kafka) : kafka[j].seq = s /\ kafka[j].idx = x
        BY <1>0 DEF Held
    <2>2. j \in DOMAIN kafka' /\ kafka'[j] = kafka[j]
        BY <1>0, <1>2
    <2> QED BY <2>1, <2>2
<1>6. KafkaMatchesJournal'
    <2> SUFFICES ASSUME NEW i \in DOMAIN kafka'
                 PROVE  /\ kafka'[i].seq \in DOMAIN journal
                        /\ kafka'[i].req = journal[kafka'[i].seq].req
                        /\ kafka'[i].idx \in 1..EventCount(kafka'[i].seq)
        BY DEF KafkaMatchesJournal, EventCount
    <2>1. CASE i \in 1..Len(kafka)
        BY <1>0, <1>2, <2>1 DEF DeliveryInv, KafkaMatchesJournal
    <2>2. CASE i = Len(kafka) + 1
        BY <1>0, <1>2, <1>3, <1>4, <2>2
    <2> QED BY <1>0, <1>2, <2>1, <2>2
<1>7. CursorIsDelivered'
    <2>1. /\ delivered <= Len(journal)
          /\ \A s \in 1..delivered : \A x \in 1..EventCount(s) : Held(s, x)
        BY DEF DeliveryInv, CursorIsDelivered, Held
    <2>2. \A s : EventCount(s)' = EventCount(s)
        BY DEF EventCount
    <2>3. /\ delivered' <= Len(journal')
          /\ \A s \in 1..delivered' : \A x \in 1..EventCount(s)' : Held(s, x)'
        BY <1>5, <2>1, <2>2
    <2> QED BY <2>3 DEF CursorIsDelivered, Held
<1>8. KafkaHasNoGap'
    <2> SUFFICES ASSUME NEW i \in DOMAIN kafka', NEW s \in 1..kafka'[i].seq,
                        NEW x \in 1..EventCount(s), Precedes(s, x, kafka'[i])
                 PROVE  \E j \in 1..(i - 1) : kafka'[j].seq = s /\ kafka'[j].idx = x
        BY DEF KafkaHasNoGap, Precedes, EventCount
    <2>1. CASE i \in 1..Len(kafka)
        <3>1. \E j \in 1..(i - 1) : kafka[j].seq = s /\ kafka[j].idx = x
            BY <1>0, <1>2, <2>1 DEF DeliveryInv, KafkaHasNoGap
        <3> QED BY <1>0, <1>2, <2>1, <3>1
    <2>2. CASE i = Len(kafka) + 1
        <3>0. s \in 1..(delivered + 1) /\ EventCount(s) \in Nat
            <4>1. s \in 1..(delivered + 1)
                BY <1>2, <1>3, <2>2
            <4>2. s \in 1..Len(journal)
                BY <1>0, <4>1
            <4> QED BY <4>1, <4>2, EventCountType
        <3>1. Held(s, x)
            <4>1. CASE s \in 1..delivered
                BY <4>1 DEF DeliveryInv, CursorIsDelivered, Held
            <4>2. CASE s = delivered + 1
                <5>1. x < sent + 1
                    BY <1>0, <1>2, <1>3, <2>2, <4>2 DEF Precedes
                <5>2. x \in 1..sent
                    BY <1>0, <3>0, <5>1
                <5> QED BY <4>2, <5>2 DEF DeliveryInv, SendInv
            <4> QED BY <1>0, <3>0, <4>1, <4>2
        <3>2. PICK j \in 1..Len(kafka) : kafka[j].seq = s /\ kafka[j].idx = x
            BY <1>0, <3>1 DEF Held
        <3>3. j \in 1..(i - 1) /\ kafka'[j] = kafka[j]
            BY <1>0, <1>2, <2>2
        <3> QED BY <3>2, <3>3
    <2> QED BY <1>0, <1>2, <2>1, <2>2
<1>9. ASSUME NEW x \in 1..(sent + 1) PROVE Held(delivered + 1, x)'
    <2>1. CASE x \in 1..sent
        BY <1>5, <2>1 DEF DeliveryInv, SendInv
    <2>2. CASE x = sent + 1
        <3>1. Len(kafka) + 1 \in DOMAIN kafka'
            BY <1>0, <1>2
        <3> QED BY <1>2, <1>3, <2>2, <3>1 DEF Held
    <2> QED BY <1>0, <2>1, <2>2
<1> QED BY <1>6, <1>7, <1>8, <1>9

\* Every step keeps the delivery invariant.
LEMMA DeliveryStep == TypeInv /\ LogInv /\ DeliveryInv /\ [Next]_vars => DeliveryInv'
<1> SUFFICES ASSUME TypeInv, LogInv, DeliveryInv, [Next]_vars PROVE DeliveryInv'
    OBVIOUS
<1>0. /\ Len(journal) \in Nat /\ durable \in Nat /\ delivered \in Nat /\ sent \in Nat
      /\ durable <= Len(journal) /\ (outPc = "send" => delivered < durable)
    BY DEF TypeInv, CursorInv, TypeOK, JournalType, OutputType
<1>1. CASE OutSend
    <2>1. /\ outPc = "send" /\ outPc' = "send" /\ sent < EventCount(delivered + 1)
          /\ kafka' = Append(kafka, NextMessage) /\ sent' = sent + 1
          /\ UNCHANGED <<journal, delivered>>
        BY <1>1 DEF OutSend
    <2>2. EventCount(delivered + 1) \in Nat
        <3>1. delivered + 1 \in 1..Len(journal)
            BY <1>0, <2>1
        <3> QED BY <3>1, EventCountType
    <2>3. SendInv'
        <3>1. sent' <= EventCount(delivered + 1)'
            BY <1>0, <2>1, <2>2 DEF EventCount
        <3> QED BY <2>1, <3>1, SendEffect DEF SendInv, Held
    <2> QED BY <2>1, <2>3, SendEffect DEF DeliveryInv
<1>2. CASE OutMark
    <2>1. /\ outPc = "send" /\ outPc' = "loop" /\ sent = EventCount(delivered + 1)
          /\ delivered' = delivered + 1 /\ UNCHANGED <<journal, kafka>>
        BY <1>2 DEF OutMark
    <2>2. SendInv'
        BY <2>1 DEF SendInv
    <2>3. KafkaMatchesJournal' /\ KafkaHasNoGap'
        BY <2>1 DEF DeliveryInv, KafkaMatchesJournal, KafkaHasNoGap, EventCount, Precedes
    <2>4. CursorIsDelivered'
        <3>1. ASSUME NEW s \in 1..(delivered + 1), NEW x \in 1..EventCount(s)
              PROVE  \E j \in DOMAIN kafka : kafka[j].seq = s /\ kafka[j].idx = x
            <4>1. CASE s \in 1..delivered
                BY <4>1 DEF DeliveryInv, CursorIsDelivered
            <4>2. CASE s = delivered + 1
                BY <2>1, <4>2 DEF DeliveryInv, SendInv, Held
            <4> QED BY <1>0, <4>1, <4>2
        <3>2. delivered + 1 <= Len(journal)
            BY <1>0, <2>1
        <3> QED BY <2>1, <3>1, <3>2 DEF CursorIsDelivered, EventCount
    <2> QED BY <2>2, <2>3, <2>4 DEF DeliveryInv
<1>3. CASE OutFail
    <2>1. outPc' = "failed" /\ UNCHANGED <<journal, delivered>>
        BY <1>3 DEF OutFail, journalVars
    <2>2. CASE kafka' = kafka
        BY <2>1, <2>2, DeliveryFrame
    <2>3. CASE outPc = "send" /\ sent < EventCount(delivered + 1)
               /\ kafka' = Append(kafka, NextMessage)
        <3>1. SendInv'
            BY <2>1 DEF SendInv
        <3> QED BY <2>1, <2>3, <3>1, SendEffect DEF DeliveryInv
    <2> QED BY <1>3, <2>2, <2>3 DEF OutFail
<1>4. CASE OutLook
    BY <1>0, <1>4, DeliveryFrame DEF OutLook
<1>5. CASE OutBaseline \/ OutIdle \/ Start
    BY <1>5, DeliveryFrame DEF OutBaseline, OutIdle, Start
<1>6. CASE Exit \/ Crash
    BY <1>6, DeliveryFrame DEF Exit, Crash, Gone
<1>7. CASE UNCHANGED <<kafka, delivered, outPc, sent>>
    BY <1>0, <1>7, DeliveryFrame
<1>8. \/ OutSend \/ OutMark \/ OutFail \/ OutLook \/ OutBaseline \/ OutIdle \/ Start
      \/ Exit \/ Crash \/ UNCHANGED <<kafka, delivered, outPc, sent>>
    BY DEF Next, Call, TrySend, Timeout, CoreStep, CoreTop, CoreExit, CoreBalance,
        CoreNoBalance, CoreReceive, CoreOrder, JournalStep, JournalTake, JournalInsert,
        JournalCommit, JournalPublish, JournalFinish, JournalEnd, JournalFail, OutputStep,
        ControlStep, Open, Halt, JoinCore, JoinJournal, JoinOutput, Join, vars, outputVars
<1> QED BY <1>1, <1>2, <1>3, <1>4, <1>5, <1>6, <1>7, <1>8

\* Kafka never carries a result that is not on disk or two results under one
\* identifier, a consumer that drops repetitions sees no gap, and the cursor
\* of mark_delivered covers only records whose every message Kafka holds.
THEOREM DeliveryCorrect == Spec => [](KafkaMatchesJournal /\ CursorIsDelivered /\ KafkaHasNoGap)
<1>1. DeliveryInv => KafkaMatchesJournal /\ CursorIsDelivered /\ KafkaHasNoGap
    BY DEF DeliveryInv
<1> QED BY TypeInitial, TypePreserved, LogInit, LogStep, DeliveryInit, DeliveryStep, <1>1,
           PTL DEF Spec

\* How far each worker has come when it ends: journal_done is the end of the
\* journal worker, durable is the whole journal except between a commit and
\* its publication or after a failed append, a worker that ended in order
\* left nothing in the channel, and the output worker ends at the cursor.
HaltInv ==
    /\ jDone <=> jPc \in {"done", "failed"}
    /\ phase # "down" /\ jPc \notin {"committed", "failed"} => durable = Len(journal)
    /\ jPc = "done" => pipe = <<>> /\ corePc = "exited"
    /\ outPc = "done" => jDone /\ delivered = durable

\* Every step keeps HaltInv.  The worker that reads journal_done before it
\* reads durable again can rely on durable: nobody writes it any more.
LEMMA HaltStep == TypeInv /\ LogInv /\ HaltInv /\ [Next]_vars => HaltInv'
<1> SUFFICES ASSUME TypeInv, LogInv, HaltInv, [Next]_vars PROVE HaltInv'
    OBVIOUS
<1>0. /\ jDone \in BOOLEAN /\ closed \in BOOLEAN /\ durable \in Nat /\ delivered \in Nat
      /\ (outPc = "send" => delivered < durable)
      /\ (jPc # "insert" => txn = <<>>)
      /\ (phase \in {"down", "recovering"} => corePc = "off" /\ jPc = "off" /\ pipe = <<>>)
    BY DEF TypeInv, CursorInv, TypeOK, FlagType, JournalType, OutputType, LogInv, QuietInv
<1> USE <1>0 DEF HaltInv
<1>1. CASE CoreStep
    BY <1>1 DEF CoreStep, CoreTop, CoreExit, CoreBalance, CoreNoBalance, CoreReceive,
        CoreOrder, journalVars, outputVars
<1>2. CASE JournalStep
    BY <1>2 DEF JournalStep, JournalTake, JournalInsert, JournalCommit, JournalPublish,
        JournalFinish, JournalEnd, coreVars, outputVars
<1>3. CASE JournalFail
    BY <1>3 DEF JournalFail, coreVars, outputVars
<1>4. CASE OutputStep \/ OutFail
    BY <1>4 DEF OutputStep, OutBaseline, OutLook, OutSend, OutMark, OutIdle, OutFail,
        coreVars, journalVars
<1>5. CASE Start \/ Open
    BY <1>5 DEF Start, Open, outputVars
<1>6. CASE Exit \/ Crash
    BY <1>6 DEF Exit, Crash, Gone
<1>7. CASE UNCHANGED <<coreVars, pipe, journalVars, journal, outputVars>>
           /\ (phase = "down" <=> phase' = "down")
    BY <1>7 DEF coreVars, journalVars, outputVars
<1>8. \/ CoreStep \/ JournalStep \/ JournalFail \/ OutputStep \/ OutFail
      \/ Start \/ Open \/ Exit \/ Crash
      \/ UNCHANGED <<coreVars, pipe, journalVars, journal, outputVars>>
         /\ (phase = "down" <=> phase' = "down")
    BY DEF Next, Call, TrySend, Timeout, ControlStep, Halt, JoinCore, JoinJournal,
        JoinOutput, Join, vars
<1> QED BY <1>1, <1>2, <1>3, <1>4, <1>5, <1>6, <1>7, <1>8

\* The two ensure! checks at the end of halt never fire on a fault-free stop:
\* whatever the interleaving of the three workers' ends, the journal channel
\* is empty, all of the journal is durable and all of it has been delivered.
THEOREM HaltLeavesNothing == Spec => []HaltDrains
<1>1. Init => HaltInv
    BY DEF Init, HaltInv
<1>2. HaltInv => HaltDrains
    BY DEF HaltInv, HaltDrains
<1> QED BY TypeInitial, TypePreserved, LogInit, LogStep, HaltStep, <1>1, <1>2, PTL DEF Spec

-----------------------------------------------------------------------------
(* Real-time order.                                                         *)

\* An item of attempt a.att belongs to a call that was made.
Made(a, c) == a.att <= c[a.req].att

\* Every item on its way belongs to a call that was made.
MadeInv ==
    /\ \A k \in 1..Len(orderQ) : Made(orderQ[k], client)
    /\ \A k \in 1..Len(balanceQ) : Made(balanceQ[k], client)
    /\ corePc = "got" => Made(hand, client)
    /\ \A k \in 1..Len(pipe) : Made(pipe[k], client)

\* pos is late enough for the current call of r.
After(r, pos) == IF r \in Commands THEN pos > client[r].floor ELSE pos >= client[r].floor

\* What was answered is on disk, and the items of the current calls are late
\* enough for them.
FloorInv ==
    /\ acked <= Len(journal)
    /\ \A r \in Requests : client[r].floor <= acked
    /\ \A k \in 1..Len(pipe) :
          pipe[k].att = client[pipe[k].req].att => After(pipe[k].req, pipe[k].seen)

\* The inductive invariant, next to TypeInv and LogInv.
TimeInv == MadeInv /\ FloorInv /\ RealTimeOrder

\* Only a new call of r changes its attempt and what it must see.
LEMMA CallerKept ==
    ASSUME TypeInv, [Next]_vars, NEW r \in Requests, ~Call(r)
    PROVE  client'[r].att = client[r].att /\ client'[r].floor = client[r].floor
<1>0. client \in [Requests -> Client] /\ client[r] \in Client
    BY DEF TypeInv, TypeOK, ClientType
<1>1. ASSUME NEW q \in Requests, Call(q)
      PROVE  client'[r].att = client[r].att /\ client'[r].floor = client[r].floor
    <2>1. CASE q = r
        BY <1>1, <2>1
    <2>2. CASE q # r
        BY <1>0, <1>1, <2>2 DEF Call
    <2> QED BY <2>1, <2>2
<1>2. ASSUME NEW q \in Requests, TrySend(q) \/ Timeout(q)
      PROVE  client'[r].att = client[r].att /\ client'[r].floor = client[r].floor
    <2>1. PICK pc : client' = [client EXCEPT ![q].pc = pc]
        BY <1>2 DEF TrySend, Timeout
    <2> QED BY <1>0, <2>1 DEF Client
<1>3. CASE CoreExit \/ JournalFail
    <2>1. PICK S : client' = DropReplies(S)
        BY <1>3 DEF CoreExit, JournalFail
    <2>2. client'[r] = client[r] \/ client'[r] = [client[r] EXCEPT !.pc = "unknown"]
        BY <2>1 DEF DropReplies
    <2> QED BY <1>0, <2>2 DEF Client
<1>4. CASE Exit \/ Crash
    <2>1. client'[r] = client[r] \/ client'[r] = [client[r] EXCEPT !.pc = "unknown"]
        BY <1>4 DEF Exit, Crash, Gone
    <2> QED BY <1>0, <2>1 DEF Client
<1>5. CASE JournalFinish
    <2>1. PICK q, n : client' = client \/ client' = [client EXCEPT ![q].pc = "replied", ![q].pos = n]
        BY <1>5 DEF JournalFinish
    <2> QED BY <1>0, <2>1 DEF Client
<1>6. CASE UNCHANGED client
    BY <1>6
<1>7. \/ \E q \in Requests : Call(q) \/ TrySend(q) \/ Timeout(q)
      \/ CoreExit \/ JournalFail \/ Exit \/ Crash \/ JournalFinish \/ UNCHANGED client
    BY DEF Next, CoreStep, CoreTop, CoreBalance, CoreNoBalance, CoreReceive, CoreOrder,
        JournalStep, JournalTake, JournalInsert, JournalCommit, JournalPublish, JournalEnd,
        OutputStep, OutBaseline, OutLook, OutSend, OutMark, OutIdle, OutFail, ControlStep,
        Start, Open, Halt, JoinCore, JoinJournal, JoinOutput, Join, vars
<1> QED BY <1>1, <1>2, <1>3, <1>4, <1>5, <1>6, <1>7

\* The number of calls of a request never goes down.
LEMMA MadeKept ==
    ASSUME TypeInv, [Next]_vars, NEW a, a.req \in Requests, a.att \in Nat, Made(a, client)
    PROVE  Made(a, client')
<1> DEFINE r == a.req
<1>0. client \in [Requests -> Client] /\ client[r].att \in Nat
    BY BoundsAssumption DEF TypeInv, TypeOK, ClientType, Client
<1>1. CASE Call(r)
    <2>1. client'[r].att = client[r].att + 1
        BY <1>0, <1>1 DEF Call
    <2> QED BY <1>0, <2>1 DEF Made
<1>2. CASE ~Call(r)
    BY <1>0, <1>2, CallerKept DEF Made
<1> QED BY <1>1, <1>2

\* The types of the items, field by field.
LEMMA ItemTypes ==
    ASSUME TypeInv
    PROVE  /\ \A k \in 1..Len(orderQ) : orderQ[k].req \in Requests /\ orderQ[k].att \in Nat
           /\ \A k \in 1..Len(balanceQ) : balanceQ[k].req \in Requests /\ balanceQ[k].att \in Nat
           /\ \A k \in 1..Len(pipe) : /\ pipe[k].req \in Requests /\ pipe[k].att \in Nat
                                      /\ pipe[k].seen \in Nat
           /\ corePc = "got" => hand.req \in Requests /\ hand.att \in Nat
           /\ \A r \in Requests : client[r].att \in Nat /\ client[r].floor \in Nat
<1>1. /\ \A k \in 1..Len(orderQ) : orderQ[k] \in Attempt
      /\ \A k \in 1..Len(balanceQ) : balanceQ[k] \in Attempt
      /\ \A k \in 1..Len(pipe) : pipe[k] \in Pending
      /\ corePc = "got" => hand \in Attempt
      /\ \A r \in Requests : client[r] \in Client
    BY DEF TypeInv, TypeOK, CoreType, JournalType, ClientType
<1>2. 1..MaxAttempts \subseteq Nat /\ 0..MaxAttempts \subseteq Nat
    BY BoundsAssumption
<1> QED BY <1>1, <1>2 DEF Attempt, Pending, Client

\* The items of a queue move up by one.
LEMMA TailItem ==
    ASSUME NEW q \in Seq(Attempt), q # <<>>
    PROVE  \A k \in 1..(Len(q) - 1) : Tail(q)[k] = q[k + 1]
OBVIOUS

\* A queue that only loses items.
LEMMA ShrinkKeeps ==
    ASSUME NEW q \in Seq(Attempt), NEW t \in Seq(Attempt),
           t = q \/ t = <<>> \/ (q # <<>> /\ t = Tail(q))
    PROVE  \A k \in 1..Len(t) : \E j \in 1..Len(q) : t[k] = q[j]
<1>1. CASE t = q
    BY <1>1
<1>2. CASE t = <<>>
    BY <1>2
<1>3. CASE q # <<>> /\ t = Tail(q)
    <2> SUFFICES ASSUME NEW k \in 1..Len(t) PROVE \E j \in 1..Len(q) : t[k] = q[j]
        OBVIOUS
    <2>1. Len(t) = Len(q) - 1 /\ Len(q) \in Nat
        BY <1>3
    <2>2. k + 1 \in 1..Len(q)
        BY <2>1
    <2>3. Tail(q)[k] = q[k + 1]
        BY Zenon, <1>3, <2>1, TailItem
    <2> QED BY <1>3, <2>2, <2>3
<1> QED BY <1>1, <1>2, <1>3

\* The two input channels hold only calls that were made.
LEMMA QueuesMade ==
    ASSUME TypeInv, TimeInv, [Next]_vars
    PROVE  /\ \A k \in 1..Len(orderQ') : Made(orderQ'[k], client')
           /\ \A k \in 1..Len(balanceQ') : Made(balanceQ'[k], client')
<1>0. /\ orderQ \in Seq(Attempt) /\ balanceQ \in Seq(Attempt) /\ client \in [Requests -> Client]
      /\ orderQ' \in Seq(Attempt) /\ balanceQ' \in Seq(Attempt)
    BY TypePreserved DEF TypeInv, TypeOK, CoreType, ClientType
<1>1. /\ \A k \in 1..Len(orderQ) : Made(orderQ[k], client')
      /\ \A k \in 1..Len(balanceQ) : Made(balanceQ[k], client')
    BY ItemTypes, MadeKept DEF TimeInv, MadeInv
<1>2. ASSUME NEW r \in Requests, TrySend(r)
      PROVE  /\ \A k \in 1..Len(orderQ') : Made(orderQ'[k], client')
             /\ \A k \in 1..Len(balanceQ') : Made(balanceQ'[k], client')
    <2> DEFINE item == [req |-> r, att |-> client[r].att]
    <2>1. item \in Attempt /\ Made(item, client')
        <3>1. client[r].pc = "checked"
            BY <1>2 DEF TrySend
        <3>2. client[r] \in Client /\ client[r].att > 0
            BY <3>1 DEF TypeInv, TypeOK, ClientType
        <3>3. item \in Attempt /\ item.req \in Requests /\ item.att \in Nat /\ Made(item, client)
            BY <3>2, BoundsAssumption DEF Attempt, Client, Made
        <3> HIDE DEF item
        <3> QED BY <3>3, MadeKept
    <2>2. orderQ' = orderQ \/ orderQ' = Append(orderQ, item)
        BY <1>2 DEF TrySend
    <2>3. balanceQ' = balanceQ \/ balanceQ' = Append(balanceQ, item)
        BY <1>2 DEF TrySend
    <2> HIDE DEF item
    <2>4. \A k \in 1..Len(orderQ') : orderQ'[k] = item \/ (k \in 1..Len(orderQ) /\ orderQ'[k] = orderQ[k])
        <3>1. CASE orderQ' = orderQ
            BY <3>1
        <3>2. CASE orderQ' = Append(orderQ, item)
            BY <1>0, <2>1, <3>2
        <3> QED BY <2>2, <3>1, <3>2
    <2>5. \A k \in 1..Len(balanceQ') :
              balanceQ'[k] = item \/ (k \in 1..Len(balanceQ) /\ balanceQ'[k] = balanceQ[k])
        <3>1. CASE balanceQ' = balanceQ
            BY <3>1
        <3>2. CASE balanceQ' = Append(balanceQ, item)
            BY <1>0, <2>1, <3>2
        <3> QED BY <2>3, <3>1, <3>2
    <2> QED BY <1>1, <2>1, <2>4, <2>5 DEF Made
<1>3. CASE \A r \in Requests : ~TrySend(r)
    <2>1. \/ orderQ' = orderQ \/ orderQ' = <<>>
          \/ (orderQ # <<>> /\ orderQ' = Tail(orderQ))
        BY <1>3 DEF Next, Call, Timeout, CoreStep, CoreTop, CoreExit, CoreBalance,
            CoreNoBalance, CoreReceive, CoreOrder, JournalStep, JournalTake, JournalInsert,
            JournalCommit, JournalPublish, JournalFinish, JournalEnd, JournalFail, OutputStep,
            OutBaseline, OutLook, OutSend, OutMark, OutIdle, OutFail, ControlStep, Start, Open,
            Halt, JoinCore, JoinJournal, JoinOutput, Join, Exit, Crash, Gone, vars
    <2>2. \/ balanceQ' = balanceQ \/ balanceQ' = <<>>
          \/ (balanceQ # <<>> /\ balanceQ' = Tail(balanceQ))
        BY <1>3 DEF Next, Call, Timeout, CoreStep, CoreTop, CoreExit, CoreBalance,
            CoreNoBalance, CoreReceive, CoreOrder, JournalStep, JournalTake, JournalInsert,
            JournalCommit, JournalPublish, JournalFinish, JournalEnd, JournalFail, OutputStep,
            OutBaseline, OutLook, OutSend, OutMark, OutIdle, OutFail, ControlStep, Start, Open,
            Halt, JoinCore, JoinJournal, JoinOutput, Join, Exit, Crash, Gone, vars
    <2>3. \A k \in 1..Len(orderQ') : \E j \in 1..Len(orderQ) : orderQ'[k] = orderQ[j]
        BY <1>0, <2>1, ShrinkKeeps
    <2>4. \A k \in 1..Len(balanceQ') : \E j \in 1..Len(balanceQ) : balanceQ'[k] = balanceQ[j]
        BY <1>0, <2>2, ShrinkKeeps
    <2> QED BY <1>1, <2>3, <2>4 DEF Made
<1> QED BY <1>2, <1>3

\* So does the hand of the core.
LEMMA HandMade ==
    ASSUME TypeInv, TimeInv, [Next]_vars, corePc' = "got"
    PROVE  Made(hand', client')
<1>1. CASE CoreReceive /\ orderQ # <<>>
    <2>1. orderQ \in Seq(Attempt) /\ hand' = orderQ[1] /\ 1 \in 1..Len(orderQ)
        BY <1>1 DEF CoreReceive, TypeInv, TypeOK, CoreType
    <2>2. Made(orderQ[1], client')
        BY <2>1, ItemTypes, MadeKept DEF TimeInv, MadeInv
    <2> QED BY <2>1, <2>2 DEF Made
<1>2. CASE corePc = "got" /\ hand' = hand
    <2>1. Made(hand, client')
        BY <1>2, ItemTypes, MadeKept DEF TimeInv, MadeInv
    <2> QED BY <1>2, <2>1 DEF Made
<1>3. (CoreReceive /\ orderQ # <<>>) \/ (corePc = "got" /\ hand' = hand)
    BY DEF Next, Call, TrySend, Timeout, CoreStep, CoreTop, CoreExit, CoreBalance,
        CoreNoBalance, CoreReceive, CoreOrder, JournalStep, JournalTake, JournalInsert,
        JournalCommit, JournalPublish, JournalFinish, JournalEnd, JournalFail, OutputStep,
        OutBaseline, OutLook, OutSend, OutMark, OutIdle, OutFail, ControlStep, Start, Open,
        Halt, JoinCore, JoinJournal, JoinOutput, Join, Exit, Crash, Gone, vars, coreVars
<1> QED BY <1>1, <1>2, <1>3

\* An item of the channel was there before, or has just been computed.
LEMMA PipeItems ==
    ASSUME TypeInv, TimeInv, LogInv, [Next]_vars, NEW k \in 1..Len(pipe')
    PROVE  \/ \E j \in 1..Len(pipe) : pipe'[k] = pipe[j]
           \/ \E a \in Attempt :
                 /\ a.req \in Requests /\ a.att \in Nat /\ Made(a, client)
                 /\ pipe'[k].req = a.req /\ pipe'[k].att = a.att
                 /\ IF a.req \in Commands THEN pipe'[k].seen > Len(state)
                                          ELSE pipe'[k].seen = Len(state)
                 /\ phase # "down" /\ UNCHANGED client
<1>0. pipe \in Seq(Pending) /\ pipe' \in Seq(Pending) /\ grp \in 0..Len(pipe) /\ Len(pipe) \in Nat
    BY TypePreserved DEF TypeInv, TypeOK, JournalType
<1>1. ASSUME NEW a \in Attempt, ApplyAndPublish(a), Made(a, client),
             phase # "down", UNCHANGED client
      PROVE  \/ \E j \in 1..Len(pipe) : pipe'[k] = pipe[j]
             \/ \E b \in Attempt :
                   /\ b.req \in Requests /\ b.att \in Nat /\ Made(b, client)
                   /\ pipe'[k].req = b.req /\ pipe'[k].att = b.att
                   /\ IF b.req \in Commands THEN pipe'[k].seen > Len(state)
                                            ELSE pipe'[k].seen = Len(state)
                   /\ phase # "down" /\ UNCHANGED client
    <2>1. PICK p \in Pending :
              /\ p.req = a.req /\ p.att = a.att /\ p.seen = Len(state')
              /\ pipe' = Append(pipe, p)
              /\ state' = IF IsCommand(p) THEN Append(state, RecordOf(p)) ELSE state
        BY <1>1, PublishEffect
    <2>2. Len(pipe') = Len(pipe) + 1 /\ pipe'[Len(pipe) + 1] = p
          /\ \A j \in 1..Len(pipe) : pipe'[j] = pipe[j]
        BY <1>0, <2>1
    <2>3. CASE k \in 1..Len(pipe)
        BY <2>2, <2>3
    <2>4. CASE k = Len(pipe) + 1
        <3>1. state \in Seq(Record) /\ Len(state) \in Nat
            BY DEF TypeInv, TypeOK, CoreType
        <3>2. IF a.req \in Commands THEN Len(state') > Len(state) ELSE Len(state') = Len(state)
            <4>1. CASE IsCommand(p)
                <5>1. Len(state') = Len(state) + 1
                    BY <2>1, <3>1, <4>1
                <5> QED BY <2>1, <3>1, <4>1, <5>1 DEF IsCommand
            <4>2. CASE ~IsCommand(p)
                BY <2>1, <4>2 DEF IsCommand
            <4> QED BY <4>1, <4>2
        <3>3. a.req \in Requests /\ a.att \in Nat
            BY BoundsAssumption DEF Attempt
        <3> QED BY <1>1, <2>1, <2>2, <2>4, <3>2, <3>3
    <2> QED BY <1>0, <2>2, <2>3, <2>4
<1>2. CASE CoreBalance
    <2>1. balanceQ \in Seq(Attempt) /\ Head(balanceQ) = balanceQ[1] /\ 1 \in 1..Len(balanceQ)
          /\ balanceQ[1] \in Attempt
        BY <1>2 DEF CoreBalance, TypeInv, TypeOK, CoreType
    <2>2. phase # "down"
        BY <1>2 DEF CoreBalance, LogInv, QuietInv
    <2>3. Made(balanceQ[1], client)
        BY <2>1 DEF TimeInv, MadeInv
    <2>4. ApplyAndPublish(balanceQ[1]) /\ UNCHANGED client
        BY <1>2, <2>1 DEF CoreBalance
    <2> QED BY <1>1, <2>1, <2>2, <2>3, <2>4
<1>3. CASE CoreOrder
    <2>1. corePc = "got" /\ ApplyAndPublish(hand) /\ UNCHANGED client
        BY <1>3 DEF CoreOrder
    <2>2. hand \in Attempt /\ Made(hand, client) /\ phase # "down"
        BY <2>1 DEF TypeInv, TypeOK, CoreType, TimeInv, MadeInv, LogInv, QuietInv
    <2> QED BY <1>1, <2>1, <2>2
<1>4. CASE JournalFinish
    <2>1. pipe # <<>> /\ pipe' = Tail(pipe)
        BY <1>0, <1>4 DEF JournalFinish
    <2>2. Len(pipe') = Len(pipe) - 1 /\ \A j \in 1..(Len(pipe) - 1) : pipe'[j] = pipe[j + 1]
        BY <1>0, <2>1
    <2>3. k \in 1..(Len(pipe) - 1) /\ k + 1 \in 1..Len(pipe)
        BY <1>0, <2>2
    <2> QED BY <2>2, <2>3
<1>5. CASE JournalFail
    <2>1. pipe' = SubSeq(pipe, grp + 1, Len(pipe))
        BY <1>5 DEF JournalFail
    <2>2. grp + k \in 1..Len(pipe) /\ pipe'[k] = pipe[grp + k]
        BY <1>0, <2>1
    <2> QED BY <2>2
<1>6. CASE pipe' = pipe
    BY <1>6
<1>7. CASE pipe' = <<>>
    BY <1>7
<1>8. CoreBalance \/ CoreOrder \/ JournalFinish \/ JournalFail \/ pipe' = pipe \/ pipe' = <<>>
    BY DEF Next, Call, TrySend, Timeout, CoreStep, CoreTop, CoreExit, CoreNoBalance, CoreReceive,
        JournalStep, JournalTake, JournalInsert, JournalCommit, JournalPublish, JournalEnd,
        OutputStep, OutBaseline, OutLook, OutSend, OutMark, OutIdle, OutFail, ControlStep,
        Start, Open, Halt, JoinCore, JoinJournal, JoinOutput, Join, Exit, Crash, Gone, vars
<1> QED BY <1>2, <1>3, <1>4, <1>5, <1>6, <1>7, <1>8

\* The answer that JournalFinish gives depends only on what is on disk.
LEMMA FinishAnswer ==
    ASSUME TypeInv, LogInv, JournalFinish
    PROVE  /\ 1 \in 1..Len(pipe) /\ pipe[1].seen \in Nat /\ pipe[1].seen <= Len(journal)
           /\ pipe[1].req \in Requests
           /\ acked' = acked \/ (acked' = pipe[1].seen /\ acked' > acked)
           /\ \/ client' = client
              \/ /\ client[pipe[1].req].att = pipe[1].att
                 /\ client' = [client EXCEPT ![pipe[1].req].pc = "replied",
                                             ![pipe[1].req].pos = pipe[1].seen]
<1>1. jPc = "finish" /\ grp > 0
    BY DEF JournalFinish
<1>2. pipe \in Seq(Pending) /\ ins = grp /\ 1 \in 1..ins /\ 1 \in 1..Len(pipe) /\ Len(journal) \in Nat
    BY <1>1 DEF TypeInv, CursorInv, TypeOK, JournalType
<1>3. Head(pipe) = pipe[1]
    BY <1>2
<1>4. phase \notin {"down", "recovering"} /\ txn = <<>>
    BY <1>1 DEF LogInv, QuietInv
<1>5. pipe[1].seen <= Len(journal)
    BY <1>1, <1>2, <1>4 DEF LogInv, ChainInv, Staged
<1>6. pipe[1].seen \in Nat /\ pipe[1].req \in Requests
    BY <1>2, ItemTypes
<1>7. acked' = acked \/ (acked' = pipe[1].seen /\ acked' > acked)
    BY <1>3 DEF JournalFinish
<1>8. \/ client' = client
      \/ /\ client[pipe[1].req].att = pipe[1].att
         /\ client' = [client EXCEPT ![pipe[1].req].pc = "replied",
                                     ![pipe[1].req].pos = pipe[1].seen]
    BY <1>3 DEF JournalFinish
<1> QED BY <1>2, <1>5, <1>6, <1>7, <1>8

\* What callers have been told only grows and is on disk.
LEMMA AckedBounded ==
    ASSUME TypeInv, LogInv, TimeInv, [Next]_vars
    PROVE  acked <= acked' /\ acked' <= Len(journal')
<1>0. /\ acked \in Nat /\ acked <= Len(journal) /\ Len(journal) \in Nat /\ Len(journal') \in Nat
      /\ Len(journal) <= Len(journal')
    BY TypePreserved, JournalGrows DEF TypeInv, TypeOK, ClientType, JournalType, TimeInv, FloorInv
<1>1. CASE JournalFinish
    BY <1>0, <1>1, FinishAnswer
<1>2. CASE UNCHANGED acked
    BY <1>0, <1>2
<1>3. JournalFinish \/ UNCHANGED acked
    BY DEF Next, Call, TrySend, Timeout, CoreStep, CoreTop, CoreExit, CoreBalance, CoreNoBalance,
        CoreReceive, CoreOrder, JournalStep, JournalTake, JournalInsert, JournalCommit,
        JournalPublish, JournalEnd, JournalFail, OutputStep, OutBaseline, OutLook, OutSend,
        OutMark, OutIdle, OutFail, ControlStep, Start, Open, Halt, JoinCore, JoinJournal,
        JoinOutput, Join, Exit, Crash, Gone, vars
<1> QED BY <1>1, <1>2, <1>3

\* Base case.
LEMMA TimeInit == Init => TimeInv
<1> SUFFICES ASSUME Init PROVE TimeInv
    OBVIOUS
<1>1. /\ Len(orderQ) = 0 /\ Len(balanceQ) = 0 /\ Len(pipe) = 0 /\ Len(journal) = 0 /\ acked = 0
      /\ corePc = "off" /\ \A r \in Requests : client[r].floor = 0 /\ client[r].pc = "idle"
    BY DEF Init
<1> QED BY <1>1 DEF TimeInv, MadeInv, FloorInv, RealTimeOrder

\* Every step keeps the real-time invariant.
LEMMA TimeStep == TypeInv /\ LogInv /\ TimeInv /\ [Next]_vars => TimeInv'
<1> SUFFICES ASSUME TypeInv, LogInv, TimeInv, [Next]_vars PROVE TimeInv'
    OBVIOUS
<1>0. /\ acked \in Nat /\ acked' \in Nat /\ Len(state) \in Nat /\ Len(journal) \in Nat
      /\ client \in [Requests -> Client]
      /\ \A r \in Requests : client[r].att \in Nat /\ client[r].floor \in Nat
                             /\ client[r].floor <= acked
    <2>1. acked \in Nat /\ acked' \in Nat /\ client \in [Requests -> Client]
        BY TypePreserved DEF TypeInv, TypeOK, ClientType
    <2>2. Len(state) \in Nat /\ Len(journal) \in Nat
        BY DEF TypeInv, TypeOK, CoreType, JournalType
    <2>3. \A r \in Requests : client[r].att \in Nat /\ client[r].floor \in Nat
        BY ItemTypes
    <2>4. \A r \in Requests : client[r].floor <= acked
        BY DEF TimeInv, FloorInv
    <2> QED BY <2>1, <2>2, <2>3, <2>4
<1>1. MadeInv'
    <2>1. ASSUME NEW k \in 1..Len(pipe') PROVE Made(pipe'[k], client')
        <3>1. CASE \E j \in 1..Len(pipe) : pipe'[k] = pipe[j]
            <4>1. PICK j \in 1..Len(pipe) : pipe'[k] = pipe[j]
                BY <3>1
            <4>2. Made(pipe[j], client')
                BY ItemTypes, MadeKept DEF TimeInv, MadeInv
            <4> QED BY <4>1, <4>2
        <3>2. CASE \E a \in Attempt : /\ Made(a, client) /\ UNCHANGED client
                                      /\ pipe'[k].req = a.req /\ pipe'[k].att = a.att
            BY <3>2 DEF Made
        <3> QED BY <3>1, <3>2, PipeItems
    <2> QED BY <2>1, QueuesMade, HandMade DEF MadeInv, Made
<1>2. ASSUME NEW r \in Requests PROVE client'[r].floor <= acked'
    <2>1. CASE Call(r)
        BY <1>0, <2>1 DEF Call
    <2>2. CASE ~Call(r)
        BY <1>0, <2>2, CallerKept, AckedBounded
    <2> QED BY <2>1, <2>2
<1>3. ASSUME NEW k \in 1..Len(pipe'), pipe'[k].att = client'[pipe'[k].req].att
      PROVE  IF pipe'[k].req \in Commands THEN pipe'[k].seen > client'[pipe'[k].req].floor
                                          ELSE pipe'[k].seen >= client'[pipe'[k].req].floor
    <2>1. CASE \E j \in 1..Len(pipe) : pipe'[k] = pipe[j]
        <3>1. PICK j \in 1..Len(pipe) : pipe'[k] = pipe[j]
            BY <2>1
        <3>2. pipe[j].req \in Requests /\ pipe[j].att \in Nat /\ Made(pipe[j], client)
            BY ItemTypes DEF TimeInv, MadeInv
        <3>3. CASE Call(pipe[j].req)
            <4>1. client'[pipe[j].req].att = client[pipe[j].req].att + 1
                BY <1>0, <3>2, <3>3 DEF Call
            <4> QED BY <1>0, <1>3, <3>1, <3>2, <4>1 DEF Made
        <3>4. CASE ~Call(pipe[j].req)
            BY <1>3, <3>1, <3>2, <3>4, CallerKept DEF TimeInv, FloorInv, After
        <3> QED BY <3>3, <3>4
    <2>2. CASE \E a \in Attempt :
                 /\ a.req \in Requests /\ pipe'[k].req = a.req
                 /\ IF a.req \in Commands THEN pipe'[k].seen > Len(state)
                                          ELSE pipe'[k].seen = Len(state)
                 /\ phase # "down" /\ UNCHANGED client
        <3>1. PICK a \in Attempt :
                 /\ a.req \in Requests /\ pipe'[k].req = a.req
                 /\ IF a.req \in Commands THEN pipe'[k].seen > Len(state)
                                          ELSE pipe'[k].seen = Len(state)
                 /\ phase # "down" /\ UNCHANGED client
            BY <2>2
        <3>2. client[a.req].floor <= Len(state)
            <4>1. Len(journal) <= Len(state) /\ acked <= Len(journal)
                BY <3>1 DEF LogInv, PrefixInv, Staged, TypeInv, TypeOK, JournalType, CoreType,
                            TimeInv, FloorInv
            <4> QED BY <1>0, <3>1, <4>1
        <3>3. pipe'[k].seen \in Nat
            <4>1. pipe' \in Seq(Pending)
                BY TypePreserved DEF TypeInv, TypeOK, JournalType
            <4>2. pipe'[k] \in Pending
                BY <4>1
            <4> QED BY <4>2 DEF Pending
        <3> QED BY <1>0, <3>1, <3>2, <3>3
    <2> QED BY <2>1, <2>2, PipeItems
<1>4. FloorInv'
    BY <1>2, <1>3, AckedBounded DEF FloorInv, After
<1>5. RealTimeOrder'
    <2> SUFFICES ASSUME NEW r \in Requests, client'[r].pc = "replied"
                 PROVE  IF r \in Commands THEN client'[r].pos > client'[r].floor
                                          ELSE client'[r].pos >= client'[r].floor
        BY DEF RealTimeOrder
    <2>1. CASE client'[r] = client[r]
        BY <2>1 DEF TimeInv, RealTimeOrder
    <2>2. CASE JournalFinish /\ client'[r] # client[r]
        <3>1. /\ pipe[1].req \in Requests /\ client[pipe[1].req].att = pipe[1].att
              /\ 1 \in 1..Len(pipe)
              /\ client' = [client EXCEPT ![pipe[1].req].pc = "replied",
                                          ![pipe[1].req].pos = pipe[1].seen]
            BY <2>2, FinishAnswer
        <3>2. r = pipe[1].req /\ client'[r].pos = pipe[1].seen /\ client'[r].floor = client[r].floor
            BY <1>0, <2>2, <3>1 DEF Client
        <3> QED BY <3>1, <3>2 DEF TimeInv, FloorInv, After
    <2> QED BY <2>1, <2>2, OnlyFinishReplies
<1> QED BY <1>1, <1>4, <1>5 DEF TimeInv

\* What a caller was told before another call began is visible to that call,
\* in spite of two channels with a priority between them, group commit,
\* timeouts, retries and crashes.
THEOREM LaterCallsSeeEarlierAnswers == Spec => []RealTimeOrder
<1>1. TimeInv => RealTimeOrder
    BY DEF TimeInv
<1> QED BY TypeInitial, TypePreserved, LogInit, LogStep, TimeInit, TimeStep, <1>1, PTL DEF Spec

-----------------------------------------------------------------------------
(* The threads implement the command log.                                   *)

\* Attempts in the journal pipe, answered or not, and in the journal.
Piped  == {AttemptIn(pipe[k]) : k \in 1..Len(pipe)}
Logged == {AttemptIn(journal[k]) : k \in 1..Len(journal)}

\* No attempt is twice in one queue.
Distinct(q) == \A j, k \in 1..Len(q) : q[j].req = q[k].req /\ q[j].att = q[k].att => j = k

\* Each channel gets its own requests.
RouteInv ==
    /\ \A k \in 1..Len(balanceQ) : balanceQ[k].req \in BalanceCommands
    /\ \A k \in 1..Len(orderQ) : orderQ[k].req \notin BalanceCommands
    /\ hand # <<>> => corePc = "got"

DistinctInv == Distinct(orderQ) /\ Distinct(balanceQ) /\ Distinct(pipe) /\ Distinct(journal)

\* An attempt is in one place.
PlaceInv ==
    /\ Calling \cap (Waiting \cup InHand \cup Piped \cup Logged) = {}
    /\ Waiting \cap (InHand \cup Piped \cup Logged) = {}
    /\ InHand \cap (Piped \cup Logged) = {}
    /\ Computed \cap Logged = {}

\* What is on disk was called, and what the open transaction holds came from
\* the items it has handled.
SourceInv ==
    /\ \A k \in 1..Len(journal) : Made(journal[k], client)
    /\ \A k \in 1..Len(txn) : \E i \in 1..ins :
          IsCommand(pipe[i]) /\ pipe[i].seen = Len(journal) + k

\* The inductive invariant, next to TypeInv, LogInv and TimeInv.
FlightInv == RouteInv /\ DistinctInv /\ PlaceInv /\ SourceInv

-----------------------------------------------------------------------------
(* Attempts and queues.                                                     *)

Items(q) == {q[k] : k \in 1..Len(q)}

\* The fields of an attempt.
LEMMA AttemptIsItself ==
    ASSUME NEW a \in Attempt
    PROVE  AttemptIn(a) = a /\ a.req \in Requests /\ a.att \in Nat
BY BoundsAssumption DEF Attempt, AttemptIn

\* Taking the head of a channel.
LEMMA TakeHead ==
    ASSUME NEW q \in Seq(Attempt), q # <<>>, Distinct(q)
    PROVE  /\ Head(q) \in Attempt /\ Head(q) \in Items(q)
           /\ Distinct(Tail(q)) /\ Items(Tail(q)) = Items(q) \ {Head(q)}
<1>1. /\ Len(q) \in Nat /\ Len(q) > 0 /\ Head(q) = q[1] /\ 1 \in 1..Len(q)
      /\ Tail(q) \in Seq(Attempt) /\ Len(Tail(q)) = Len(q) - 1
    OBVIOUS
<1>2. \A k \in 1..(Len(q) - 1) : Tail(q)[k] = q[k + 1]
    BY TailItem
<1>3. \A k \in 1..(Len(q) - 1) : k + 1 \in 1..Len(q) /\ k + 1 # 1
    BY <1>1
<1>4. \A k \in 1..Len(q) : k # 1 => k - 1 \in 1..(Len(q) - 1) /\ (k - 1) + 1 = k
    BY <1>1
<1>5. Distinct(Tail(q))
    BY <1>1, <1>2, <1>3 DEF Distinct
<1>6. \A k \in 1..Len(q) : q[k] = q[1] => k = 1
    BY <1>1 DEF Distinct
<1>7. Items(Tail(q)) = Items(q) \ {q[1]}
    <2>1. ASSUME NEW x \in Items(Tail(q)) PROVE x \in Items(q) \ {q[1]}
        BY <1>1, <1>2, <1>3, <1>6 DEF Items
    <2>2. ASSUME NEW x \in Items(q) \ {q[1]} PROVE x \in Items(Tail(q))
        <3>1. PICK k \in 1..Len(q) : x = q[k] /\ k # 1
            BY DEF Items
        <3>2. k - 1 \in 1..(Len(q) - 1) /\ Tail(q)[k - 1] = q[k]
            BY <1>2, <1>4, <3>1
        <3> QED BY <1>1, <3>1, <3>2 DEF Items
    <2> QED BY <2>1, <2>2
<1>8. q[1] \in Attempt /\ q[1] \in Items(q)
    BY <1>1 DEF Items
<1> QED BY <1>1, <1>5, <1>7, <1>8

\* Adding to the end of a channel.
LEMMA PutLast ==
    ASSUME NEW q \in Seq(Attempt), NEW a \in Attempt, a \notin Items(q), Distinct(q)
    PROVE  Distinct(Append(q, a)) /\ Items(Append(q, a)) = Items(q) \cup {a}
<1>1. /\ Len(q) \in Nat /\ Len(Append(q, a)) = Len(q) + 1 /\ Append(q, a)[Len(q) + 1] = a
      /\ \A k \in 1..Len(q) : Append(q, a)[k] = q[k]
    OBVIOUS
<1>2. \A k \in 1..Len(q) : q[k] \in Attempt /\ q[k] # a
    BY DEF Items
<1>3. \A k \in 1..Len(q) : ~(q[k].req = a.req /\ q[k].att = a.att)
    <2> SUFFICES ASSUME NEW k \in 1..Len(q), q[k].req = a.req, q[k].att = a.att PROVE FALSE
        OBVIOUS
    <2>1. AttemptIn(q[k]) = q[k] /\ AttemptIn(a) = a
        BY <1>2, AttemptIsItself
    <2>2. AttemptIn(q[k]) = AttemptIn(a)
        BY DEF AttemptIn
    <2> QED BY <1>2, <2>1, <2>2
<1>4. \A k \in 1..(Len(q) + 1) : k \in 1..Len(q) \/ k = Len(q) + 1
    BY <1>1
<1>5. \A k \in 1..Len(q) : k \in 1..(Len(q) + 1)
    BY <1>1
<1>6. Len(q) + 1 \in 1..(Len(q) + 1)
    BY <1>1
<1>7. Distinct(Append(q, a))
    BY <1>1, <1>3, <1>4 DEF Distinct
<1>8. Items(Append(q, a)) = Items(q) \cup {a}
    BY <1>1, <1>4, <1>5, <1>6 DEF Items
<1> QED BY <1>7, <1>8

\* The places an attempt can be in, as TypeInv knows them.
LEMMA FlightTypes ==
    ASSUME TypeInv
    PROVE  /\ orderQ \in Seq(Attempt) /\ balanceQ \in Seq(Attempt)
           /\ Waiting = Items(orderQ) \cup Items(balanceQ)
           /\ pipe \in Seq(Pending) /\ DOMAIN pipe = 1..Len(pipe) /\ Len(pipe) \in Nat
           /\ journal \in Seq(Record) /\ Len(journal) \in Nat
           /\ txn \in Seq(Record) /\ Len(txn) \in Nat
           /\ grp \in 0..Len(pipe) /\ ins \in 0..grp
           /\ client \in [Requests -> Client] /\ hand \in Attempt \cup {<<>>}
           /\ Computed \subseteq Piped
<1>1. /\ orderQ \in Seq(Attempt) /\ balanceQ \in Seq(Attempt) /\ hand \in Attempt \cup {<<>>}
    BY DEF TypeInv, TypeOK, CoreType
<1>2. /\ pipe \in Seq(Pending) /\ journal \in Seq(Record) /\ txn \in Seq(Record)
      /\ grp \in 0..Len(pipe) /\ ins \in 0..grp
    BY DEF TypeInv, TypeOK, JournalType
<1>3. Waiting = Items(orderQ) \cup Items(balanceQ)
    BY <1>1 DEF Waiting, Items
<1>4. DOMAIN pipe = 1..Len(pipe)
    BY <1>2
<1>5. Computed \subseteq Piped
    BY <1>4 DEF Computed, Piped, Uncommitted
<1>6. client \in [Requests -> Client]
    BY DEF TypeInv, TypeOK, ClientType
<1> QED BY <1>1, <1>2, <1>3, <1>4, <1>5, <1>6

\* The same after a step.
LEMMA TypesNext ==
    ASSUME TypeInv, [Next]_vars
    PROVE  /\ Waiting' = Items(orderQ') \cup Items(balanceQ')
           /\ pipe' \in Seq(Pending) /\ DOMAIN pipe' = 1..Len(pipe') /\ Len(pipe') \in Nat
           /\ Computed' \subseteq Piped'
<1>1. orderQ' \in Seq(Attempt) /\ balanceQ' \in Seq(Attempt) /\ pipe' \in Seq(Pending)
    BY TypePreserved DEF TypeInv, TypeOK, CoreType, JournalType
<1>2. Waiting' = Items(orderQ') \cup Items(balanceQ')
    BY <1>1 DEF Waiting, Items
<1>3. DOMAIN pipe' = 1..Len(pipe') /\ Len(pipe') \in Nat
    BY <1>1
<1>4. Computed' \subseteq Piped'
    BY <1>3 DEF Computed, Piped, Uncommitted
<1> QED BY <1>1, <1>2, <1>3, <1>4

-----------------------------------------------------------------------------
(* Callers.                                                                 *)

\* Who has passed the closed check and not yet tried a channel.
Checked(r) == client[r].pc = "checked"

\* Only Call makes a caller ready to send.
LEMMA OnlyCallChecks ==
    ASSUME TypeInv, [Next]_vars, NEW r \in Requests, ~Call(r), Checked(r)'
    PROVE  Checked(r) /\ client'[r].att = client[r].att
<1>0. client \in [Requests -> Client] /\ client[r] \in Client
    BY DEF TypeInv, TypeOK, ClientType
<1>1. ASSUME NEW q \in Requests, Call(q) PROVE Checked(r)
    BY <1>0, <1>1 DEF Call, Checked
<1>2. ASSUME NEW q \in Requests, TrySend(q) PROVE Checked(r)
    <2>1. PICK pc \in {"waiting", "refused"} : client' = [client EXCEPT ![q].pc = pc]
        BY <1>2 DEF TrySend
    <2> QED BY <1>0, <2>1, PcMove DEF Checked
<1>3. ASSUME NEW q \in Requests, Timeout(q) PROVE Checked(r)
    BY <1>0, <1>3, PcMove DEF Timeout, Checked
<1>4. CASE CoreExit \/ JournalFail
    <2>1. PICK S : client' = DropReplies(S)
        BY <1>4 DEF CoreExit, JournalFail
    <2>2. client'[r] = client[r] \/ client'[r] = [client[r] EXCEPT !.pc = "unknown"]
        BY <2>1 DEF DropReplies
    <2>3. Checked(r)
        BY <1>0, <2>2 DEF Client, Checked
    <2> QED BY <2>3, CallerKept
<1>5. CASE Exit \/ Crash
    <2>1. client'[r] = client[r] \/ client'[r] = [client[r] EXCEPT !.pc = "unknown"]
        BY <1>5 DEF Exit, Crash, Gone
    <2>2. Checked(r)
        BY <1>0, <2>1 DEF Client, Checked
    <2> QED BY <2>2, CallerKept
<1>6. CASE JournalFinish
    <2>1. PICK q, n : client' = client \/ client' = [client EXCEPT ![q].pc = "replied", ![q].pos = n]
        BY <1>6 DEF JournalFinish
    <2>2. Checked(r)
        BY <1>0, <2>1 DEF Client, Checked
    <2> QED BY <2>2, CallerKept
<1>7. CASE UNCHANGED client
    BY <1>7 DEF Checked
<1>8. \/ \E q \in Requests : Call(q) \/ TrySend(q) \/ Timeout(q)
      \/ CoreExit \/ JournalFail \/ Exit \/ Crash \/ JournalFinish \/ UNCHANGED client
    BY DEF Next, CoreStep, CoreTop, CoreBalance, CoreNoBalance, CoreReceive, CoreOrder,
        JournalStep, JournalTake, JournalInsert, JournalCommit, JournalPublish, JournalEnd,
        OutputStep, OutBaseline, OutLook, OutSend, OutMark, OutIdle, OutFail, ControlStep,
        Start, Open, Halt, JoinCore, JoinJournal, JoinOutput, Join, vars
<1>9. Checked(r)
    BY <1>1, <1>2, <1>3, <1>4, <1>5, <1>6, <1>7, <1>8
<1> QED BY <1>9, CallerKept

\* No attempt is added to those about to be sent, unless by a call.
LEMMA CallingShrinks ==
    ASSUME TypeInv, [Next]_vars, \A r \in Requests : ~Call(r)
    PROVE  Calling' \subseteq Calling
<1> SUFFICES ASSUME NEW a \in Calling' PROVE a \in Calling
    OBVIOUS
<1>1. PICK r \in Requests : Checked(r)' /\ a = [req |-> r, att |-> client'[r].att]
    BY DEF Calling, Checked
<1>2. Checked(r) /\ client'[r].att = client[r].att
    BY <1>1, OnlyCallChecks
<1> QED BY <1>1, <1>2 DEF Calling, Checked

\* Attempts are lost, none moves.
LEMMA PlacesShrink ==
    ASSUME PlaceInv, Calling' \subseteq Calling, Waiting' \subseteq Waiting,
           InHand' \subseteq InHand, Piped' \subseteq Piped, Computed' \subseteq Computed,
           Logged' = Logged
    PROVE  PlaceInv'
BY DEF PlaceInv

\* What is on disk was called before.
LEMMA LoggedWasMade ==
    ASSUME TypeInv, FlightInv, [Next]_vars, UNCHANGED journal
    PROVE  \A k \in 1..Len(journal') : Made(journal'[k], client')
<1> SUFFICES ASSUME NEW k \in 1..Len(journal) PROVE Made(journal[k], client')
    BY DEF Made
<1>1. journal[k] \in Record
    BY DEF TypeInv, TypeOK, JournalType
<1>2. journal[k].req \in Requests /\ journal[k].att \in Nat
    BY <1>1, BoundsAssumption DEF Record, Requests
<1> QED BY <1>2, MadeKept DEF FlightInv, SourceInv

-----------------------------------------------------------------------------
(* Every step keeps FlightInv.                                              *)

\* The open transaction comes from the items it has handled.
TxnSource == \A k \in 1..Len(txn) : \E i \in 1..ins :
                 IsCommand(pipe[i]) /\ pipe[i].seen = Len(journal) + k

\* A step that moves no attempt, although it may answer or drop a caller.
LEMMA QuietFlight ==
    ASSUME TypeInv, FlightInv, [Next]_vars, \A r \in Requests : ~Call(r),
           UNCHANGED <<orderQ, balanceQ, hand, pipe, journal>>, Computed' \subseteq Computed,
           hand # <<>> => corePc' = "got", TxnSource'
    PROVE  FlightInv'
<1>1. RouteInv' /\ DistinctInv'
    BY DEF FlightInv, RouteInv, DistinctInv, Distinct
<1>2. Calling' \subseteq Calling
    BY CallingShrinks
<1>3. Waiting' = Waiting /\ InHand' = InHand /\ Piped' = Piped /\ Logged' = Logged
    BY DEF Waiting, InHand, Piped, Logged
<1>4. PlaceInv'
    BY <1>2, <1>3, PlacesShrink DEF FlightInv
<1>5. SourceInv'
    BY LoggedWasMade DEF SourceInv, TxnSource
<1> QED BY <1>1, <1>4, <1>5 DEF FlightInv

\* A new attempt is new: every attempt anywhere was called before.
LEMMA CallFlight ==
    ASSUME TypeInv, TimeInv, FlightInv, [Next]_vars, NEW r \in Requests, Call(r)
    PROVE  FlightInv'
<1>1. /\ UNCHANGED <<orderQ, balanceQ, hand, corePc, pipe, jPc, grp, journal, txn, ins>>
    BY DEF Call, coreVars, journalVars
<1>2. client \in [Requests -> Client] /\ client[r].att \in Nat
    BY FlightTypes, ItemTypes
<1>3. client'[r].att = client[r].att + 1 /\ \A q \in Requests : q # r => client'[q] = client[q]
    BY <1>2 DEF Call
<1>4. PICK new : new = [req |-> r, att |-> client[r].att + 1]
    OBVIOUS
<1>5. new.req = r /\ new.att = client[r].att + 1
    BY <1>4
<1>6. Calling' \subseteq Calling \cup {new}
    BY <1>3, <1>4 DEF Calling
<1>7. Waiting' = Waiting /\ InHand' = InHand /\ Piped' = Piped /\ Logged' = Logged /\ Computed' = Computed
    BY <1>1 DEF Waiting, InHand, Piped, Logged, Computed, Uncommitted
<1>8. \A x : x.req = r /\ x.att \in Nat /\ Made(x, client) => x.att # new.att
    BY <1>2, <1>5 DEF Made
<1>9. new \notin Waiting
    <2>1. \A k \in 1..Len(orderQ) : orderQ[k] # new
        BY <1>5, <1>8, ItemTypes DEF TimeInv, MadeInv
    <2>2. \A k \in 1..Len(balanceQ) : balanceQ[k] # new
        BY <1>5, <1>8, ItemTypes DEF TimeInv, MadeInv
    <2> QED BY <2>1, <2>2, FlightTypes DEF Items
<1>10. new \notin InHand
    BY <1>5, <1>8, ItemTypes DEF TimeInv, MadeInv, InHand, FlightInv, RouteInv
<1>11. new \notin Piped
    <2>1. ASSUME NEW k \in 1..Len(pipe), new = AttemptIn(pipe[k]) PROVE FALSE
        <3>1. pipe[k].req = r /\ pipe[k].att = new.att
            BY <1>5, <2>1 DEF AttemptIn
        <3> QED BY <1>8, <3>1, ItemTypes DEF TimeInv, MadeInv
    <2> QED BY <2>1 DEF Piped
<1>12. new \notin Logged
    <2>1. ASSUME NEW k \in 1..Len(journal), new = AttemptIn(journal[k]) PROVE FALSE
        <3>1. journal[k].req = r /\ journal[k].att = new.att
            BY <1>5, <2>1 DEF AttemptIn
        <3>2. journal[k] \in Record
            BY DEF TypeInv, TypeOK, JournalType
        <3>3. journal[k].att \in Nat
            BY <3>2, BoundsAssumption DEF Record
        <3> QED BY <1>8, <3>1, <3>3 DEF FlightInv, SourceInv
    <2> QED BY <2>1 DEF Logged
<1>13. PlaceInv'
    BY <1>6, <1>7, <1>9, <1>10, <1>11, <1>12 DEF FlightInv, PlaceInv
<1>14. RouteInv' /\ DistinctInv'
    BY <1>1 DEF FlightInv, RouteInv, DistinctInv, Distinct
<1>15. SourceInv'
    <2>1. TxnSource'
        BY <1>1 DEF FlightInv, SourceInv, TxnSource, IsCommand
    <2> QED BY <1>1, <2>1, LoggedWasMade DEF SourceInv, TxnSource
<1> QED BY <1>13, <1>14, <1>15 DEF FlightInv

\* try_send puts a checked attempt into its channel, or it is gone.
LEMMA SendFlight ==
    ASSUME TypeInv, FlightInv, [Next]_vars, \A q \in Requests : ~Call(q),
           NEW r \in Requests, TrySend(r)
    PROVE  FlightInv'
<1>1. UNCHANGED <<hand, corePc, pipe, jPc, grp, journal, txn, ins>> /\ Checked(r)
    BY DEF TrySend, coreVars, journalVars, Checked
<1>2. PICK a : a = [req |-> r, att |-> client[r].att]
    OBVIOUS
<1>3. /\ client \in [Requests -> Client] /\ client[r] \in Client
      /\ orderQ \in Seq(Attempt) /\ balanceQ \in Seq(Attempt)
      /\ Waiting = Items(orderQ) \cup Items(balanceQ)
    BY FlightTypes
<1>4. a \in Attempt /\ a.req = r
    <2>1. client[r].att \in 1..MaxAttempts
        BY <1>1, <1>3, BoundsAssumption DEF Checked, Client, TypeInv, TypeOK, ClientType
    <2> QED BY <1>2, <2>1 DEF Attempt
<1>5. a \in Calling /\ a \notin Waiting
    <2>1. a \in Calling
        BY <1>1, <1>2 DEF Calling, Checked
    <2> QED BY <2>1 DEF FlightInv, PlaceInv
<1>6. a \notin Calling'
    <2>1. PICK pc \in {"waiting", "refused"} : client' = [client EXCEPT ![r].pc = pc]
        BY DEF TrySend
    <2>2. ~Checked(r)'
        BY <1>3, <2>1, PcMove DEF Checked
    <2>3. ASSUME NEW q \in Requests, Checked(q)', a = [req |-> q, att |-> client'[q].att] PROVE FALSE
        BY <1>4, <2>2, <2>3
    <2> QED BY <2>3 DEF Calling, Checked
<1>7. Calling' \subseteq Calling
    BY CallingShrinks
<1>8. /\ orderQ' = orderQ \/ (orderQ' = Append(orderQ, a) /\ r \notin BalanceCommands)
      /\ balanceQ' = balanceQ \/ (balanceQ' = Append(balanceQ, a) /\ r \in BalanceCommands)
    BY <1>2 DEF TrySend
<1>9. Distinct(orderQ) /\ Distinct(balanceQ) /\ a \notin Items(orderQ) /\ a \notin Items(balanceQ)
    BY <1>3, <1>5 DEF FlightInv, DistinctInv
<1>10. /\ Distinct(orderQ') /\ Items(orderQ') \subseteq Items(orderQ) \cup {a}
       /\ \A k \in 1..Len(orderQ') : orderQ'[k].req \notin BalanceCommands
    <2>1. CASE orderQ' = orderQ
        BY <1>9, <2>1 DEF FlightInv, RouteInv
    <2>2. CASE orderQ' = Append(orderQ, a) /\ r \notin BalanceCommands
        <3>1. Distinct(orderQ') /\ Items(orderQ') = Items(orderQ) \cup {a}
            BY <1>3, <1>4, <1>9, <2>2, PutLast
        <3>2. ASSUME NEW k \in 1..Len(orderQ') PROVE orderQ'[k].req \notin BalanceCommands
            <4>1. orderQ'[k] \in Items(orderQ) \cup {a}
                BY <3>1 DEF Items
            <4> QED BY <1>4, <2>2, <4>1 DEF Items, FlightInv, RouteInv
        <3> QED BY <3>1, <3>2
    <2> QED BY <1>8, <2>1, <2>2
<1>11. /\ Distinct(balanceQ') /\ Items(balanceQ') \subseteq Items(balanceQ) \cup {a}
       /\ \A k \in 1..Len(balanceQ') : balanceQ'[k].req \in BalanceCommands
    <2>1. CASE balanceQ' = balanceQ
        BY <1>9, <2>1 DEF FlightInv, RouteInv
    <2>2. CASE balanceQ' = Append(balanceQ, a) /\ r \in BalanceCommands
        <3>1. Distinct(balanceQ') /\ Items(balanceQ') = Items(balanceQ) \cup {a}
            BY <1>3, <1>4, <1>9, <2>2, PutLast
        <3>2. ASSUME NEW k \in 1..Len(balanceQ') PROVE balanceQ'[k].req \in BalanceCommands
            <4>1. balanceQ'[k] \in Items(balanceQ) \cup {a}
                BY <3>1 DEF Items
            <4> QED BY <1>4, <2>2, <4>1 DEF Items, FlightInv, RouteInv
        <3> QED BY <3>1, <3>2
    <2> QED BY <1>8, <2>1, <2>2
<1>12. Waiting' = Items(orderQ') \cup Items(balanceQ')
    BY TypesNext
<1>13. InHand' = InHand /\ Piped' = Piped /\ Logged' = Logged /\ Computed' = Computed
    BY <1>1 DEF InHand, Piped, Logged, Computed, Uncommitted
<1>14. PlaceInv'
    <2>1. Waiting' \subseteq Waiting \cup {a}
        BY <1>3, <1>10, <1>11, <1>12
    <2>2. a \notin InHand \cup Piped \cup Logged
        BY <1>5 DEF FlightInv, PlaceInv
    <2> QED BY <1>6, <1>7, <1>13, <2>1, <2>2 DEF FlightInv, PlaceInv
<1>15. RouteInv' /\ DistinctInv'
    BY <1>1, <1>10, <1>11 DEF FlightInv, RouteInv, DistinctInv, Distinct
<1>16. SourceInv'
    <2>1. TxnSource'
        BY <1>1 DEF FlightInv, SourceInv, TxnSource, IsCommand
    <2> QED BY <1>1, <2>1, LoggedWasMade DEF SourceInv, TxnSource
<1> QED BY <1>14, <1>15, <1>16 DEF FlightInv

\* orders.recv_timeout takes the oldest order command into the core's hand.
LEMMA ReceiveFlight ==
    ASSUME TypeInv, FlightInv, [Next]_vars, \A q \in Requests : ~Call(q),
           CoreReceive, orderQ # <<>>
    PROVE  FlightInv' /\ InFlight' = InFlight
<1>1. /\ UNCHANGED <<balanceQ, pipe, jPc, grp, journal, txn, ins>>
      /\ corePc = "orders" /\ corePc' = "got" /\ hand' = Head(orderQ) /\ orderQ' = Tail(orderQ)
    BY DEF CoreReceive, journalVars
<1>2. orderQ \in Seq(Attempt) /\ Waiting = Items(orderQ) \cup Items(balanceQ)
    BY FlightTypes
<1>3. PICK a : a = Head(orderQ)
    OBVIOUS
<1>4. /\ a \in Attempt /\ a \in Items(orderQ)
      /\ Distinct(orderQ') /\ Items(orderQ') = Items(orderQ) \ {a}
    BY <1>1, <1>2, <1>3, TakeHead DEF FlightInv, DistinctInv
<1>5. a \notin Items(balanceQ)
    BY <1>4 DEF Items, FlightInv, RouteInv
<1>6. Waiting' = Waiting \ {a} /\ a \in Waiting
    BY <1>1, <1>2, <1>4, <1>5, TypesNext
<1>7. InHand' \subseteq {a}
    BY <1>1, <1>3 DEF InHand
<1>8. Calling' \subseteq Calling
    BY CallingShrinks
<1>9. Piped' = Piped /\ Logged' = Logged /\ Computed' = Computed
    BY <1>1 DEF Piped, Logged, Computed, Uncommitted
<1>10. PlaceInv'
    <2>1. a \notin Calling \cup Piped \cup Logged
        BY <1>6 DEF FlightInv, PlaceInv
    <2> QED BY <1>6, <1>7, <1>8, <1>9, <2>1 DEF FlightInv, PlaceInv
<1>11. RouteInv'
    <2>1. \A k \in 1..Len(orderQ') : orderQ'[k] \in Items(orderQ)
        BY <1>4 DEF Items
    <2> QED BY <1>1, <2>1 DEF FlightInv, RouteInv, Items
<1>12. DistinctInv'
    BY <1>1, <1>4 DEF FlightInv, DistinctInv, Distinct
<1>13. SourceInv'
    <2>1. TxnSource'
        BY <1>1 DEF FlightInv, SourceInv, TxnSource, IsCommand
    <2> QED BY <1>1, <2>1, LoggedWasMade DEF SourceInv, TxnSource
<1>14. InFlight' = InFlight
    <2>1. DOMAIN a = {"req", "att"}
        BY <1>4 DEF Attempt
    <2>2. a # <<>>
        BY <2>1
    <2>3. InHand' = {a} /\ InHand = {}
        BY <1>1, <1>3, <2>2 DEF InHand, FlightInv, RouteInv
    <2>4. Calling' = Calling
        BY DEF CoreReceive, Calling
    <2> QED BY <1>6, <1>9, <2>3, <2>4 DEF InFlight
<1> QED BY <1>10, <1>11, <1>12, <1>13, <1>14 DEF FlightInv

\* A computed result joins the journal pipe.
LEMMA PublishPlaces ==
    ASSUME TypeInv, LogInv, FlightInv, NEW a \in Attempt, ApplyAndPublish(a), a \notin Piped,
           UNCHANGED <<jPc, grp, journal, txn, ins>>
    PROVE  /\ Distinct(pipe') /\ TxnSource' /\ Logged' = Logged
           /\ Piped' = Piped \cup {a} /\ Computed' = Computed \cup {a}
<1>1. PICK p \in Pending : p.req = a.req /\ p.att = a.att /\ pipe' = Append(pipe, p)
    BY PublishEffect
<1>2. /\ pipe \in Seq(Pending) /\ DOMAIN pipe = 1..Len(pipe) /\ Len(pipe) \in Nat
      /\ grp \in 0..Len(pipe) /\ ins \in 0..grp
    BY FlightTypes
<1>3. /\ Len(pipe') = Len(pipe) + 1 /\ pipe'[Len(pipe) + 1] = p
      /\ \A k \in 1..Len(pipe) : pipe'[k] = pipe[k]
      /\ DOMAIN pipe' = 1..(Len(pipe) + 1)
    BY <1>1, <1>2
<1>4. /\ \A k \in 1..(Len(pipe) + 1) : k \in 1..Len(pipe) \/ k = Len(pipe) + 1
      /\ \A k \in 1..Len(pipe) : k \in 1..(Len(pipe) + 1)
      /\ Len(pipe) + 1 \in 1..(Len(pipe) + 1) /\ Len(pipe) + 1 > grp
    BY <1>2
<1>5. AttemptIn(p) = a
    <2>1. AttemptIn(p) = AttemptIn(a)
        BY <1>1 DEF AttemptIn
    <2> QED BY <2>1, AttemptIsItself
<1>6. \A k \in 1..Len(pipe) : ~(pipe[k].req = p.req /\ pipe[k].att = p.att)
    <2> SUFFICES ASSUME NEW k \in 1..Len(pipe), pipe[k].req = p.req, pipe[k].att = p.att
                 PROVE  FALSE
        OBVIOUS
    <2>1. AttemptIn(pipe[k]) = AttemptIn(p)
        BY DEF AttemptIn
    <2> QED BY <1>5, <2>1 DEF Piped
<1>7. Distinct(pipe')
    BY <1>3, <1>4, <1>6 DEF Distinct, FlightInv, DistinctInv
<1>8. Piped' = Piped \cup {a}
    BY <1>3, <1>4, <1>5 DEF Piped
<1>9. Computed' = Computed \cup {a}
    <2>1. Uncommitted' = Uncommitted \cup {Len(pipe) + 1}
        BY <1>2, <1>3, <1>4 DEF Uncommitted
    <2>2. \A k \in Uncommitted : pipe'[k] = pipe[k]
        BY <1>2, <1>3 DEF Uncommitted
    <2> QED BY <1>3, <1>5, <2>1, <2>2 DEF Computed
<1>10. TxnSource'
    <2>1. \A i \in 1..ins : i \in 1..Len(pipe)
        BY <1>2
    <2> QED BY <1>3, <2>1 DEF TxnSource, IsCommand, FlightInv, SourceInv
<1>11. Logged' = Logged
    BY DEF Logged
<1> QED BY <1>7, <1>8, <1>9, <1>10, <1>11

\* A balance command goes from its channel to the pipe.
LEMMA BalanceFlight ==
    ASSUME TypeInv, LogInv, FlightInv, [Next]_vars, \A q \in Requests : ~Call(q), CoreBalance
    PROVE  FlightInv' /\ InFlight' = InFlight
<1>1. /\ UNCHANGED <<orderQ, hand, jPc, grp, journal, txn, ins>>
      /\ corePc = "room" /\ balanceQ # <<>> /\ balanceQ' = Tail(balanceQ)
    BY DEF CoreBalance, journalVars
<1>2. balanceQ \in Seq(Attempt) /\ Waiting = Items(orderQ) \cup Items(balanceQ)
    BY FlightTypes
<1>3. PICK a : a = Head(balanceQ)
    OBVIOUS
<1>4. /\ a \in Attempt /\ a \in Items(balanceQ)
      /\ Distinct(balanceQ') /\ Items(balanceQ') = Items(balanceQ) \ {a}
    BY <1>1, <1>2, <1>3, TakeHead DEF FlightInv, DistinctInv
<1>5. a \notin Items(orderQ)
    BY <1>4 DEF Items, FlightInv, RouteInv
<1>6. Waiting' = Waiting \ {a} /\ a \in Waiting
    BY <1>1, <1>2, <1>4, <1>5, TypesNext
<1>7. a \notin Calling \cup InHand \cup Piped \cup Logged
    BY <1>6 DEF FlightInv, PlaceInv
<1>8. /\ Distinct(pipe') /\ TxnSource' /\ Logged' = Logged
      /\ Piped' = Piped \cup {a} /\ Computed' = Computed \cup {a}
    BY <1>1, <1>3, <1>4, <1>7, PublishPlaces DEF CoreBalance
<1>9. Calling' \subseteq Calling /\ InHand' = InHand
    BY <1>1, CallingShrinks DEF InHand
<1>10. PlaceInv'
    BY <1>6, <1>7, <1>8, <1>9 DEF FlightInv, PlaceInv
<1>11. RouteInv'
    <2>1. \A k \in 1..Len(balanceQ') : balanceQ'[k] \in Items(balanceQ)
        BY <1>4 DEF Items
    <2>2. hand = <<>>
        BY <1>1 DEF FlightInv, RouteInv
    <2> QED BY <1>1, <2>1, <2>2 DEF FlightInv, RouteInv, Items
<1>12. DistinctInv'
    BY <1>1, <1>4, <1>8 DEF FlightInv, DistinctInv, Distinct
<1>13. SourceInv'
    BY <1>1, <1>8, LoggedWasMade DEF SourceInv, TxnSource
<1>14. InFlight' = InFlight
    <2>1. Calling' = Calling
        BY DEF CoreBalance, Calling
    <2> QED BY <1>6, <1>8, <1>9, <2>1 DEF InFlight
<1> QED BY <1>10, <1>11, <1>12, <1>13, <1>14 DEF FlightInv

\* An order command goes from the core's hand to the pipe.
LEMMA OrderFlight ==
    ASSUME TypeInv, LogInv, FlightInv, [Next]_vars, \A q \in Requests : ~Call(q), CoreOrder
    PROVE  FlightInv' /\ InFlight' = InFlight
<1>1. /\ UNCHANGED <<orderQ, balanceQ, jPc, grp, journal, txn, ins>>
      /\ corePc = "got" /\ hand' = <<>> /\ ApplyAndPublish(hand)
    BY DEF CoreOrder, journalVars
<1>2. PICK a \in Attempt : a = hand
    BY <1>1 DEF TypeInv, TypeOK, CoreType
<1>3. a \in InHand
    <2>1. DOMAIN a = {"req", "att"}
        BY DEF Attempt
    <2>2. a # <<>>
        BY <2>1
    <2> QED BY <1>2, <2>2 DEF InHand
<1>4. a \notin Calling \cup Waiting \cup Piped \cup Logged
    BY <1>3 DEF FlightInv, PlaceInv
<1>5. /\ Distinct(pipe') /\ TxnSource' /\ Logged' = Logged
      /\ Piped' = Piped \cup {a} /\ Computed' = Computed \cup {a}
    BY <1>1, <1>2, <1>4, PublishPlaces
<1>6. Calling' \subseteq Calling /\ InHand' = {} /\ Waiting' = Waiting
    BY <1>1, CallingShrinks DEF InHand, Waiting
<1>7. PlaceInv'
    BY <1>4, <1>5, <1>6, <1>3 DEF FlightInv, PlaceInv
<1>8. RouteInv' /\ DistinctInv'
    BY <1>1, <1>5 DEF FlightInv, RouteInv, DistinctInv, Distinct
<1>9. SourceInv'
    BY <1>1, <1>5, LoggedWasMade DEF SourceInv, TxnSource
<1>10. InFlight' = InFlight
    <2>1. Calling' = Calling
        BY DEF CoreOrder, Calling
    <2>2. InHand = {a}
        BY <1>2, <1>3 DEF InHand
    <2> QED BY <1>5, <1>6, <2>1, <2>2 DEF InFlight
<1> QED BY <1>7, <1>8, <1>9, <1>10 DEF FlightInv

\* The item at the head of the pipe, already committed, is answered.
LEMMA FinishFlight ==
    ASSUME TypeInv, LogInv, FlightInv, [Next]_vars, \A q \in Requests : ~Call(q), JournalFinish
    PROVE  FlightInv' /\ Computed' = Computed
<1>1. /\ UNCHANGED <<orderQ, balanceQ, hand, corePc, journal, txn>>
      /\ jPc = "finish" /\ grp > 0 /\ pipe' = Tail(pipe) /\ grp' = grp - 1
      /\ jPc' = IF grp = 1 THEN "recv" ELSE "finish"
    BY DEF JournalFinish, coreVars
<1>2. /\ pipe \in Seq(Pending) /\ DOMAIN pipe = 1..Len(pipe) /\ Len(pipe) \in Nat
      /\ grp \in 0..Len(pipe)
    BY FlightTypes
<1>3. /\ Len(pipe') = Len(pipe) - 1 /\ \A k \in 1..(Len(pipe) - 1) : pipe'[k] = pipe[k + 1]
      /\ DOMAIN pipe' = 1..(Len(pipe) - 1)
    <2>1. pipe # <<>>
        BY <1>1, <1>2
    <2> QED BY <1>1, <1>2, <2>1
<1>4. /\ \A k \in 1..(Len(pipe) - 1) : k + 1 \in 1..Len(pipe)
      /\ \A k \in 1..Len(pipe) : k # 1 => k - 1 \in 1..(Len(pipe) - 1) /\ (k - 1) + 1 = k
    BY <1>2
<1>5. Distinct(pipe')
    BY <1>3, <1>4 DEF FlightInv, DistinctInv, Distinct
<1>6. Piped' \subseteq Piped
    BY <1>3, <1>4 DEF Piped
<1>7. Computed' = Computed
    <2>1. ASSUME NEW k \in 1..(Len(pipe) - 1) PROVE k \in Uncommitted' <=> k + 1 \in Uncommitted
        BY <1>1, <1>2, <1>3, <1>4 DEF Uncommitted
    <2>2. 1 \notin Uncommitted
        BY <1>1, <1>2 DEF Uncommitted
    <2>3. ASSUME NEW x \in Computed' PROVE x \in Computed
        <3>1. PICK k \in Uncommitted' : x = AttemptIn(pipe'[k])
            BY DEF Computed
        <3>2. k \in 1..(Len(pipe) - 1)
            BY <1>3, <3>1 DEF Uncommitted
        <3> QED BY <1>3, <2>1, <3>1, <3>2 DEF Computed
    <2>4. ASSUME NEW x \in Computed PROVE x \in Computed'
        <3>1. PICK k \in Uncommitted : x = AttemptIn(pipe[k])
            BY DEF Computed
        <3>2. k \in 1..Len(pipe) /\ k # 1
            BY <1>2, <2>2, <3>1 DEF Uncommitted
        <3>3. k - 1 \in Uncommitted' /\ pipe'[k - 1] = pipe[k]
            BY <1>3, <1>4, <2>1, <3>1, <3>2
        <3> QED BY <3>1, <3>3 DEF Computed
    <2> QED BY <2>3, <2>4
<1>8. Calling' \subseteq Calling /\ InHand' = InHand /\ Waiting' = Waiting /\ Logged' = Logged
    BY <1>1, CallingShrinks DEF InHand, Waiting, Logged
<1>9. PlaceInv'
    BY <1>6, <1>7, <1>8, PlacesShrink DEF FlightInv
<1>10. RouteInv' /\ DistinctInv'
    BY <1>1, <1>5 DEF FlightInv, RouteInv, DistinctInv, Distinct
<1>11. SourceInv'
    <2>1. Len(txn') = 0
        BY <1>1 DEF LogInv, QuietInv
    <2>2. TxnSource'
        BY <2>1 DEF TxnSource
    <2> QED BY <1>1, <2>2, LoggedWasMade DEF SourceInv, TxnSource
<1> QED BY <1>7, <1>9, <1>10, <1>11 DEF FlightInv

\* What a transaction adds to the journal comes from its group, each item once.
LEMMA CommitRecords ==
    ASSUME TypeInv, LogInv, FlightInv, jPc = "insert",
           journal' = journal \/ (ins = grp /\ journal' = journal \o txn)
    PROVE  /\ Len(journal') \in Nat /\ Len(journal) <= Len(journal')
           /\ \A k \in 1..Len(journal) : journal'[k] = journal[k]
           /\ \A k \in (Len(journal) + 1)..Len(journal') : \E i \in 1..grp :
                 /\ pipe[i].req \in Commands /\ pipe[i].seen = k
                 /\ journal'[k].req = pipe[i].req /\ journal'[k].att = pipe[i].att
<1>0. /\ Len(journal) \in Nat /\ Len(txn) \in Nat /\ grp \in 0..Len(pipe) /\ Len(pipe) \in Nat
      /\ Staged = Len(journal) + Len(txn)
    BY FlightTypes DEF Staged
<1>1. CASE journal' = journal
    BY <1>0, <1>1
<1>2. CASE ins = grp /\ journal' = journal \o txn
    <2>1. /\ Len(journal') = Staged /\ \A k \in 1..Len(journal) : journal'[k] = journal[k]
          /\ \A k \in 1..Staged : journal'[k] = state[k]
        BY <1>2, CommitEffect
    <2>2. ASSUME NEW k \in (Len(journal) + 1)..Len(journal')
          PROVE  \E i \in 1..grp :
                    /\ pipe[i].req \in Commands /\ pipe[i].seen = k
                    /\ journal'[k].req = pipe[i].req /\ journal'[k].att = pipe[i].att
        <3>1. k - Len(journal) \in 1..Len(txn) /\ Len(journal) + (k - Len(journal)) = k /\ k \in 1..Staged
            BY <1>0, <2>1
        <3>2. PICK i \in 1..ins : IsCommand(pipe[i]) /\ pipe[i].seen = k
            BY <3>1 DEF FlightInv, SourceInv
        <3>3. i \in 1..Len(pipe) /\ i \in 1..grp
            BY <1>0, <1>2
        <3>4. state[k] = RecordOf(pipe[i])
            BY <3>2, <3>3 DEF LogInv, SeenInv
        <3>5. journal'[k].req = pipe[i].req /\ journal'[k].att = pipe[i].att
            BY <2>1, <3>1, <3>4 DEF RecordOf
        <3> QED BY <3>2, <3>3, <3>5 DEF IsCommand
    <2>3. Len(journal') \in Nat /\ Len(journal) <= Len(journal')
        BY <1>0, <2>1
    <2> QED BY <2>1, <2>2, <2>3
<1> QED BY <1>1, <1>2

\* The journal takes over what the group held, or the group is lost.
LEMMA CommitPlaces ==
    ASSUME TypeInv, LogInv, TimeInv, FlightInv, [Next]_vars, jPc = "insert",
           journal' = journal \/ (ins = grp /\ journal' = journal \o txn)
    PROVE  /\ Distinct(journal')
           /\ Logged' \subseteq Logged \cup {AttemptIn(pipe[i]) : i \in 1..grp}
           /\ \A k \in 1..Len(journal') : Made(journal'[k], client')
<1>1. /\ Len(journal') \in Nat /\ Len(journal) <= Len(journal') /\ Len(journal) \in Nat
      /\ \A k \in 1..Len(journal) : journal'[k] = journal[k]
      /\ \A k \in (Len(journal) + 1)..Len(journal') : \E i \in 1..grp :
            /\ pipe[i].req \in Commands /\ pipe[i].seen = k
            /\ journal'[k].req = pipe[i].req /\ journal'[k].att = pipe[i].att
    BY CommitRecords, FlightTypes
<1>2. \A k \in 1..Len(journal') : k \in 1..Len(journal) \/ k \in (Len(journal) + 1)..Len(journal')
    BY <1>1
<1>3. \A i \in 1..grp : i \in 1..Len(pipe) /\ i \in Uncommitted
    <2>1. grp \in 0..Len(pipe) /\ DOMAIN pipe = 1..Len(pipe) /\ Len(pipe) \in Nat
        BY FlightTypes
    <2> QED BY <2>1 DEF Uncommitted
<1>4. ASSUME NEW j \in 1..Len(journal), NEW k \in (Len(journal) + 1)..Len(journal'),
             journal'[j].req = journal'[k].req, journal'[j].att = journal'[k].att
      PROVE  FALSE
    <2>1. PICK i \in 1..grp : journal'[k].req = pipe[i].req /\ journal'[k].att = pipe[i].att
        BY <1>1
    <2>2. AttemptIn(journal[j]) = AttemptIn(pipe[i])
        BY <1>1, <1>4, <2>1 DEF AttemptIn
    <2>3. AttemptIn(journal[j]) \in Logged /\ AttemptIn(pipe[i]) \in Computed
        BY <1>3 DEF Logged, Computed
    <2> QED BY <2>2, <2>3 DEF FlightInv, PlaceInv
<1>5. ASSUME NEW j \in (Len(journal) + 1)..Len(journal'), NEW k \in (Len(journal) + 1)..Len(journal'),
             journal'[j].req = journal'[k].req, journal'[j].att = journal'[k].att
      PROVE  j = k
    <2>1. PICK i \in 1..grp : /\ journal'[k].req = pipe[i].req /\ journal'[k].att = pipe[i].att
                              /\ pipe[i].seen = k
        BY <1>1
    <2>2. PICK h \in 1..grp : /\ journal'[j].req = pipe[h].req /\ journal'[j].att = pipe[h].att
                              /\ pipe[h].seen = j
        BY <1>1
    <2>3. i = h
        BY <1>3, <1>5, <2>1, <2>2 DEF FlightInv, DistinctInv, Distinct
    <2> QED BY <2>1, <2>2, <2>3
<1>6. ASSUME NEW j \in 1..Len(journal), NEW k \in 1..Len(journal),
             journal'[j].req = journal'[k].req, journal'[j].att = journal'[k].att
      PROVE  j = k
    BY <1>1, <1>6 DEF FlightInv, DistinctInv, Distinct
<1>7. Distinct(journal')
    BY <1>2, <1>4, <1>5, <1>6 DEF Distinct
<1>8. Logged' \subseteq Logged \cup {AttemptIn(pipe[i]) : i \in 1..grp}
    <2> SUFFICES ASSUME NEW k \in 1..Len(journal')
                 PROVE  AttemptIn(journal'[k]) \in Logged \cup {AttemptIn(pipe[i]) : i \in 1..grp}
        BY DEF Logged
    <2>1. CASE k \in 1..Len(journal)
        BY <1>1, <2>1 DEF Logged
    <2>2. CASE k \in (Len(journal) + 1)..Len(journal')
        <3>1. PICK i \in 1..grp : journal'[k].req = pipe[i].req /\ journal'[k].att = pipe[i].att
            BY <1>1, <2>2
        <3>2. AttemptIn(journal'[k]) = AttemptIn(pipe[i])
            BY <3>1 DEF AttemptIn
        <3> QED BY <3>2
    <2> QED BY <1>2, <2>1, <2>2
<1>9. ASSUME NEW k \in 1..Len(journal') PROVE Made(journal'[k], client')
    <2>1. CASE k \in 1..Len(journal)
        <3>1. journal[k] \in Record
            BY <2>1 DEF TypeInv, TypeOK, JournalType
        <3>2. journal[k].req \in Requests /\ journal[k].att \in Nat
            BY <3>1, BoundsAssumption DEF Record, Requests
        <3>3. Made(journal[k], client')
            BY <2>1, <3>2, MadeKept DEF FlightInv, SourceInv
        <3> QED BY <1>1, <2>1, <3>3
    <2>2. CASE k \in (Len(journal) + 1)..Len(journal')
        <3>1. PICK i \in 1..grp : journal'[k].req = pipe[i].req /\ journal'[k].att = pipe[i].att
            BY <1>1, <2>2
        <3>2. Made(pipe[i], client')
            BY <1>3, ItemTypes, MadeKept DEF TimeInv, MadeInv
        <3> QED BY <3>1, <3>2 DEF Made
    <2> QED BY <1>2, <2>1, <2>2
<1> QED BY <1>7, <1>8, <1>9

\* The FULL commit returns.
LEMMA CommitFlight ==
    ASSUME TypeInv, LogInv, TimeInv, FlightInv, [Next]_vars, \A q \in Requests : ~Call(q),
           JournalCommit
    PROVE  FlightInv'
<1>1. /\ UNCHANGED <<orderQ, balanceQ, hand, corePc, pipe, grp, ins>> /\ txn' = <<>>
      /\ jPc = "insert" /\ ins = grp /\ jPc' = "committed" /\ journal' = journal \o txn
    BY DEF JournalCommit, coreVars
<1>2. /\ Distinct(journal')
      /\ Logged' \subseteq Logged \cup {AttemptIn(pipe[i]) : i \in 1..grp}
      /\ \A k \in 1..Len(journal') : Made(journal'[k], client')
    BY <1>1, CommitPlaces
<1>3. /\ DOMAIN pipe = 1..Len(pipe) /\ Len(pipe) \in Nat /\ grp \in 0..Len(pipe)
    BY FlightTypes
<1>4. {AttemptIn(pipe[i]) : i \in 1..grp} \subseteq Piped
    BY <1>3 DEF Piped
<1>5. Uncommitted = 1..Len(pipe) /\ Uncommitted' = (grp + 1)..Len(pipe)
    BY <1>1, <1>3 DEF Uncommitted
<1>6. Computed' \subseteq Computed
    BY <1>1, <1>3, <1>5 DEF Computed
<1>7. Computed' \cap {AttemptIn(pipe[i]) : i \in 1..grp} = {}
    <2>1. ASSUME NEW k \in (grp + 1)..Len(pipe), NEW i \in 1..grp, AttemptIn(pipe[k]) = AttemptIn(pipe[i])
          PROVE  FALSE
        <3>1. k \in 1..Len(pipe) /\ i \in 1..Len(pipe) /\ k # i
            BY <1>3
        <3>2. pipe[k].req = pipe[i].req /\ pipe[k].att = pipe[i].att
            BY <2>1 DEF AttemptIn
        <3> QED BY <3>1, <3>2 DEF FlightInv, DistinctInv, Distinct
    <2> QED BY <1>1, <1>5, <2>1 DEF Computed
<1>8. Calling' \subseteq Calling /\ InHand' = InHand /\ Waiting' = Waiting /\ Piped' = Piped
    BY <1>1, CallingShrinks DEF InHand, Waiting, Piped
<1>9. PlaceInv'
    BY <1>2, <1>4, <1>6, <1>7, <1>8 DEF FlightInv, PlaceInv
<1>10. RouteInv' /\ DistinctInv'
    BY <1>1, <1>2 DEF FlightInv, RouteInv, DistinctInv, Distinct
<1>11. SourceInv'
    BY <1>1, <1>2 DEF SourceInv
<1> QED BY <1>9, <1>10, <1>11 DEF FlightInv

\* append fails: the group is gone, its records may be on disk.
LEMMA FailFlight ==
    ASSUME TypeInv, LogInv, TimeInv, FlightInv, [Next]_vars, \A q \in Requests : ~Call(q),
           JournalFail
    PROVE  FlightInv' /\ Computed' = {AttemptIn(pipe[k]) : k \in (grp + 1)..Len(pipe)}
<1>1. /\ UNCHANGED <<orderQ, balanceQ, hand, corePc>> /\ txn' = <<>>
      /\ jPc = "insert" /\ jPc' = "failed" /\ pipe' = SubSeq(pipe, grp + 1, Len(pipe))
      /\ journal' = journal \/ (ins = grp /\ journal' = journal \o txn)
    BY DEF JournalFail, coreVars
<1>2. /\ Distinct(journal')
      /\ Logged' \subseteq Logged \cup {AttemptIn(pipe[i]) : i \in 1..grp}
      /\ \A k \in 1..Len(journal') : Made(journal'[k], client')
    BY <1>1, CommitPlaces
<1>3. /\ pipe \in Seq(Pending) /\ DOMAIN pipe = 1..Len(pipe) /\ Len(pipe) \in Nat /\ grp \in 0..Len(pipe)
    BY FlightTypes
<1>4. /\ Len(pipe') = Len(pipe) - grp /\ DOMAIN pipe' = 1..(Len(pipe) - grp)
      /\ \A k \in 1..(Len(pipe) - grp) : pipe'[k] = pipe[grp + k]
    <2>0. /\ pipe' = SubSeq(pipe, grp + 1, Len(pipe))
          /\ pipe \in Seq(Pending) /\ Len(pipe) \in Nat /\ grp \in 0..Len(pipe)
        BY <1>1, <1>3
    <2>1. Len(pipe') = Len(pipe) - grp
        BY <2>0
    <2>2. DOMAIN pipe' = 1..(Len(pipe) - grp)
        BY <2>1, TypesNext
    <2>3. ASSUME NEW k \in 1..(Len(pipe) - grp) PROVE pipe'[k] = pipe[grp + k]
        BY <2>0
    <2> QED BY <2>1, <2>2, <2>3
<1>5. /\ \A k \in 1..(Len(pipe) - grp) : grp + k \in (grp + 1)..Len(pipe) /\ grp + k \in 1..Len(pipe)
      /\ \A k \in (grp + 1)..Len(pipe) : k - grp \in 1..(Len(pipe) - grp) /\ grp + (k - grp) = k
      /\ \A j, k \in 1..(Len(pipe) - grp) : grp + j = grp + k => j = k
    BY <1>3
<1>6. Distinct(pipe')
    BY <1>4, <1>5 DEF FlightInv, DistinctInv, Distinct
<1>7. Uncommitted = 1..Len(pipe) /\ Uncommitted' = 1..(Len(pipe) - grp)
    BY <1>1, <1>3, <1>4 DEF Uncommitted
<1>8. Computed' = {AttemptIn(pipe[k]) : k \in (grp + 1)..Len(pipe)} /\ Piped' = Computed'
    <2>1. Piped' = Computed'
        BY <1>4, <1>7 DEF Computed, Piped
    <2>2. ASSUME NEW k \in 1..(Len(pipe) - grp)
          PROVE  AttemptIn(pipe'[k]) \in {AttemptIn(pipe[n]) : n \in (grp + 1)..Len(pipe)}
        BY <1>4, <1>5
    <2>3. ASSUME NEW n \in (grp + 1)..Len(pipe)
          PROVE  \E k \in 1..(Len(pipe) - grp) : AttemptIn(pipe[n]) = AttemptIn(pipe'[k])
        <3>1. n - grp \in 1..(Len(pipe) - grp) /\ pipe'[n - grp] = pipe[n]
            BY <1>4, <1>5
        <3> QED BY <3>1
    <2> QED BY <1>7, <2>1, <2>2, <2>3 DEF Computed
<1>9. /\ Computed' \subseteq Computed /\ Piped' \subseteq Piped
      /\ {AttemptIn(pipe[i]) : i \in 1..grp} \subseteq Piped
    <2>1. \A k \in (grp + 1)..Len(pipe) : k \in 1..Len(pipe)
        BY <1>3
    <2>2. \A i \in 1..grp : i \in 1..Len(pipe)
        BY <1>3
    <2>3. Piped = Computed
        BY <1>7 DEF Computed, Piped
    <2>4. Computed' \subseteq Piped
        BY <1>8, <2>1 DEF Piped
    <2>5. {AttemptIn(pipe[i]) : i \in 1..grp} \subseteq Piped
        BY <2>2 DEF Piped
    <2> QED BY <1>8, <2>3, <2>4, <2>5
<1>10. Computed' \cap {AttemptIn(pipe[i]) : i \in 1..grp} = {}
    <2>1. ASSUME NEW k \in (grp + 1)..Len(pipe), NEW i \in 1..grp, AttemptIn(pipe[k]) = AttemptIn(pipe[i])
          PROVE  FALSE
        <3>1. k \in 1..Len(pipe) /\ i \in 1..Len(pipe) /\ k # i
            BY <1>3
        <3>2. pipe[k].req = pipe[i].req /\ pipe[k].att = pipe[i].att
            BY <2>1 DEF AttemptIn
        <3> QED BY <3>1, <3>2 DEF FlightInv, DistinctInv, Distinct
    <2> QED BY <1>8, <2>1
<1>11. Calling' \subseteq Calling /\ InHand' = InHand /\ Waiting' = Waiting
    BY <1>1, CallingShrinks DEF InHand, Waiting
<1>12. PlaceInv'
    BY <1>2, <1>8, <1>9, <1>10, <1>11 DEF FlightInv, PlaceInv
<1>13. RouteInv' /\ DistinctInv'
    BY <1>1, <1>2, <1>6 DEF FlightInv, RouteInv, DistinctInv, Distinct
<1>14. SourceInv'
    BY <1>1, <1>2 DEF SourceInv
<1> QED BY <1>8, <1>12, <1>13, <1>14 DEF FlightInv

\* The core leaves its loop with an order command in its hand.
LEMMA ExitFlight ==
    ASSUME TypeInv, FlightInv, [Next]_vars, \A q \in Requests : ~Call(q), CoreExit
    PROVE  FlightInv'
<1>1. UNCHANGED <<orderQ, balanceQ, pipe, jPc, grp, journal, txn, ins>> /\ hand' = <<>>
    BY DEF CoreExit, journalVars
<1>2. /\ Calling' \subseteq Calling /\ InHand' = {} /\ Waiting' = Waiting /\ Piped' = Piped
      /\ Logged' = Logged /\ Computed' = Computed
    BY <1>1, CallingShrinks DEF InHand, Waiting, Piped, Logged, Computed, Uncommitted
<1>3. PlaceInv'
    BY <1>2, PlacesShrink DEF FlightInv
<1>4. RouteInv' /\ DistinctInv'
    BY <1>1 DEF FlightInv, RouteInv, DistinctInv, Distinct
<1>5. SourceInv'
    <2>1. TxnSource'
        BY <1>1 DEF FlightInv, SourceInv, TxnSource, IsCommand
    <2> QED BY <1>1, <2>1, LoggedWasMade DEF SourceInv, TxnSource
<1> QED BY <1>3, <1>4, <1>5 DEF FlightInv

\* The process is gone, and with it every attempt that was on its way.
LEMMA GoneFlight ==
    ASSUME TypeInv, FlightInv, [Next]_vars, \A q \in Requests : ~Call(q), Gone
    PROVE  FlightInv' /\ InFlight' = {}
<1>1. /\ Len(orderQ') = 0 /\ Len(balanceQ') = 0 /\ Len(pipe') = 0 /\ Len(txn') = 0
      /\ hand' = <<>> /\ UNCHANGED journal
      /\ orderQ' = <<>> /\ balanceQ' = <<>> /\ pipe' = <<>>
    BY DEF Gone
<1>2. InHand' = {} /\ Waiting' = {} /\ Piped' = {} /\ Computed' = {} /\ Logged' = Logged
    <2>1. Waiting' = {}
        BY <1>1, TypesNext DEF Items
    <2>2. Piped' = {} /\ Computed' = {}
        BY <1>1, TypesNext DEF Piped
    <2> QED BY <1>1, <2>1, <2>2 DEF InHand, Logged
<1>3. Calling' = {}
    <2> SUFFICES ASSUME NEW r \in Requests, Checked(r)' PROVE FALSE
        BY DEF Calling, Checked
    <2>1. client \in [Requests -> Client] /\ client[r] \in Client
        BY FlightTypes
    <2>2. client'[r] = IF client[r].pc \in {"checked", "waiting"}
                       THEN [client[r] EXCEPT !.pc = "unknown"] ELSE client[r]
        BY DEF Gone
    <2> QED BY <2>1, <2>2 DEF Client, Checked
<1>4. PlaceInv'
    BY <1>2, <1>3, PlacesShrink DEF FlightInv
<1>5. RouteInv' /\ DistinctInv'
    BY <1>1 DEF FlightInv, RouteInv, DistinctInv, Distinct
<1>6. SourceInv'
    BY <1>1, LoggedWasMade DEF SourceInv
<1> QED BY <1>2, <1>3, <1>4, <1>5, <1>6 DEF FlightInv, InFlight

\* The transaction takes the next item of its group.
LEMMA InsertFlight ==
    ASSUME TypeInv, LogInv, FlightInv, [Next]_vars, \A q \in Requests : ~Call(q), JournalInsert
    PROVE  FlightInv'
<1>1. /\ UNCHANGED <<orderQ, balanceQ, hand, corePc, pipe, jPc, grp, journal>>
      /\ jPc = "insert" /\ ins < grp /\ ins' = ins + 1
      /\ txn' = IF IsCommand(pipe[ins + 1]) THEN Append(txn, RecordOf(pipe[ins + 1])) ELSE txn
    BY DEF JournalInsert, coreVars
<1>2. /\ pipe \in Seq(Pending) /\ Len(pipe) \in Nat /\ grp \in 0..Len(pipe) /\ ins \in 0..grp
      /\ Len(txn) \in Nat /\ txn \in Seq(Record) /\ Len(journal) \in Nat
    BY FlightTypes
<1>3. ins + 1 \in 1..ins' /\ \A i \in 1..ins : i \in 1..ins'
    BY <1>1, <1>2
<1>4. TxnSource'
    <2>1. CASE ~IsCommand(pipe[ins + 1])
        BY <1>1, <1>3, <2>1 DEF TxnSource, IsCommand, FlightInv, SourceInv
    <2>2. CASE IsCommand(pipe[ins + 1])
        <3>1. Len(txn') = Len(txn) + 1
            BY <1>1, <1>2, <2>2
        <3>2. pipe[ins + 1].seen = Len(journal) + (Len(txn) + 1)
            <4>1. phase # "down" /\ ins < Len(pipe)
                BY <1>1, <1>2 DEF LogInv, QuietInv
            <4>2. pipe[ins + 1].seen = Staged + 1
                BY <1>1, <2>2, <4>1 DEF LogInv, ChainInv, Weight
            <4> QED BY <1>2, <4>2 DEF Staged
        <3>3. \A k \in 1..(Len(txn) + 1) : k \in 1..Len(txn) \/ k = Len(txn) + 1
            BY <1>2
        <3>4. ASSUME NEW k \in 1..Len(txn')
              PROVE  \E i \in 1..ins' : IsCommand(pipe[i]) /\ pipe[i].seen = Len(journal) + k
            <4>1. CASE k \in 1..Len(txn)
                BY <1>3, <4>1 DEF FlightInv, SourceInv
            <4>2. CASE k = Len(txn) + 1
                BY <1>3, <2>2, <3>2, <4>2
            <4> QED BY <3>1, <3>3, <4>1, <4>2
        <3> QED BY <1>1, <3>4 DEF TxnSource, IsCommand
    <2> QED BY <2>1, <2>2
<1>5. Computed' \subseteq Computed
    BY <1>1 DEF Computed, Uncommitted
<1>6. hand # <<>> => corePc' = "got"
    BY <1>1 DEF FlightInv, RouteInv
<1> QED BY <1>1, <1>4, <1>5, <1>6, QuietFlight

\* Steps that touch neither an attempt nor the transaction's content.
Still ==
    /\ UNCHANGED <<orderQ, balanceQ, hand, pipe, journal>>
    /\ Computed' = Computed
    /\ hand # <<>> => corePc' = "got"
    /\ txn' = <<>> \/ UNCHANGED <<txn, ins>>

\* A step that moves no attempt keeps FlightInv.
LEMMA StillFlight ==
    ASSUME TypeInv, FlightInv, [Next]_vars, \A q \in Requests : ~Call(q), Still
    PROVE  FlightInv'
<1>1. TxnSource'
    <2>1. CASE txn' = <<>>
        <3>1. Len(txn') = 0
            BY <2>1
        <3> QED BY <3>1 DEF TxnSource
    <2>2. CASE UNCHANGED <<txn, ins>>
        BY <2>2 DEF Still, TxnSource, IsCommand, FlightInv, SourceInv
    <2> QED BY <2>1, <2>2 DEF Still
<1> QED BY <1>1, QuietFlight DEF Still

\* The steps that are neither of the moves above.
LEMMA OtherSteps ==
    ASSUME TypeInv, LogInv, FlightInv,
           \/ \E r \in Requests : Timeout(r)
           \/ CoreTop \/ CoreNoBalance \/ (CoreReceive /\ orderQ = <<>>)
           \/ JournalTake \/ JournalPublish \/ JournalEnd
           \/ OutputStep \/ OutFail \/ Start \/ Open \/ JoinCore \/ JoinJournal \/ JoinOutput
           \/ Halt \/ UNCHANGED vars
    PROVE  Still
<1>1. hand # <<>> => corePc = "got"
    BY DEF FlightInv, RouteInv
<1>2. ASSUME UNCHANGED <<pipe, jPc, grp>> PROVE Computed' = Computed
    BY <1>2 DEF Computed, Uncommitted
<1>3. CASE \E r \in Requests : Timeout(r)
    BY <1>1, <1>2, <1>3 DEF Timeout, Still, coreVars, journalVars
<1>4. CASE CoreTop \/ CoreNoBalance \/ (CoreReceive /\ orderQ = <<>>)
    BY <1>1, <1>2, <1>4 DEF CoreTop, CoreNoBalance, CoreReceive, Still, journalVars
<1>5. CASE JournalTake \/ JournalPublish \/ JournalEnd
    <2>1. UNCHANGED pipe
        BY <1>5 DEF JournalTake, JournalPublish, JournalEnd
    <2>2. Uncommitted' = Uncommitted
        BY <1>5, <2>1 DEF JournalTake, JournalPublish, JournalEnd, Uncommitted
    <2>3. Computed' = Computed
        BY <2>1, <2>2 DEF Computed
    <2> QED BY <1>1, <1>5, <2>3 DEF JournalTake, JournalPublish, JournalEnd, Still, coreVars
<1>6. CASE OutputStep \/ OutFail
    BY <1>1, <1>2, <1>6 DEF OutputStep, OutBaseline, OutLook, OutSend, OutMark, OutIdle, OutFail,
        Still, coreVars, journalVars
<1>7. CASE Start \/ JoinCore \/ JoinJournal \/ JoinOutput \/ Halt \/ UNCHANGED vars
    BY <1>1, <1>2, <1>7 DEF Start, JoinCore, JoinJournal, JoinOutput, Join, Halt, vars,
        Still, coreVars, journalVars
<1>8. CASE Open
    <2>1. UNCHANGED <<pipe, grp>> /\ jPc = "off" /\ jPc' = "recv" /\ corePc = "off"
        BY <1>8 DEF Open, LogInv, QuietInv
    <2>2. Uncommitted' = Uncommitted
        BY <2>1 DEF Uncommitted
    <2>3. Computed' = Computed
        BY <2>1, <2>2 DEF Computed
    <2> QED BY <1>1, <1>8, <2>1, <2>3 DEF Open, Still
<1> QED BY <1>3, <1>4, <1>5, <1>6, <1>7, <1>8

\* Every step keeps FlightInv.
LEMMA FlightStep ==
    TypeInv /\ LogInv /\ TimeInv /\ FlightInv /\ [Next]_vars => FlightInv'
<1> SUFFICES ASSUME TypeInv, LogInv, TimeInv, FlightInv, [Next]_vars PROVE FlightInv'
    OBVIOUS
<1>1. CASE \E r \in Requests : Call(r)
    BY <1>1, CallFlight
<1>2. CASE \A r \in Requests : ~Call(r)
    <2>1. CASE \E r \in Requests : TrySend(r)
        BY <1>2, <2>1, SendFlight
    <2>2. CASE CoreReceive /\ orderQ # <<>>
        BY <1>2, <2>2, ReceiveFlight
    <2>3. CASE CoreBalance
        BY <1>2, <2>3, BalanceFlight
    <2>4. CASE CoreOrder
        BY <1>2, <2>4, OrderFlight
    <2>5. CASE CoreExit
        BY <1>2, <2>5, ExitFlight
    <2>6. CASE JournalInsert
        BY <1>2, <2>6, InsertFlight
    <2>7. CASE JournalCommit
        BY <1>2, <2>7, CommitFlight
    <2>8. CASE JournalFail
        BY <1>2, <2>8, FailFlight
    <2>9. CASE JournalFinish
        BY <1>2, <2>9, FinishFlight
    <2>10. CASE Exit \/ Crash
        BY <1>2, <2>10, GoneFlight DEF Exit, Crash
    <2>11. CASE \/ \E r \in Requests : Timeout(r)
                \/ CoreTop \/ CoreNoBalance \/ (CoreReceive /\ orderQ = <<>>)
                \/ JournalTake \/ JournalPublish \/ JournalEnd
                \/ OutputStep \/ OutFail \/ Start \/ Open \/ JoinCore \/ JoinJournal \/ JoinOutput
                \/ Halt \/ UNCHANGED vars
        BY <1>2, <2>11, OtherSteps, StillFlight
    <2> QED BY <1>2, <2>1, <2>2, <2>3, <2>4, <2>5, <2>6, <2>7, <2>8, <2>9, <2>10, <2>11
            DEF Next, CoreStep, JournalStep, ControlStep
<1> QED BY <1>1, <1>2

\* FlightInv holds at the start.
LEMMA FlightInit == Init => FlightInv
<1> SUFFICES ASSUME Init PROVE FlightInv
    OBVIOUS
<1>1. /\ Len(orderQ) = 0 /\ Len(balanceQ) = 0 /\ Len(pipe) = 0 /\ Len(journal) = 0 /\ Len(txn) = 0
      /\ hand = <<>> /\ \A r \in Requests : ~Checked(r)
    BY DEF Init, Checked
<1>2. RouteInv /\ DistinctInv /\ SourceInv
    BY <1>1 DEF RouteInv, DistinctInv, SourceInv, Distinct
<1>3. Calling = {} /\ InHand = {} /\ Logged = {} /\ Piped = {}
    BY <1>1 DEF Calling, Checked, InHand, Logged, Piped
<1>4. PlaceInv
    BY <1>3 DEF PlaceInv
<1> QED BY <1>2, <1>4 DEF FlightInv

-----------------------------------------------------------------------------
(* What callers see of a step.                                              *)

\* What the log sees of a caller.
LEMMA KnowledgeFields ==
    ASSUME NEW c \in Client
    PROVE  /\ Knowledge(c) = [pc |-> IF c.pc \in {"checked", "waiting"} THEN "pending" ELSE c.pc,
                              att |-> c.att, floor |-> c.floor, pos |-> c.pos]
           /\ Knowledge(c).att = c.att /\ Knowledge(c).floor = c.floor
           /\ Knowledge(c).pc = IF c.pc \in {"checked", "waiting"} THEN "pending" ELSE c.pc
<1>1. c = [pc |-> c.pc, att |-> c.att, floor |-> c.floor, pos |-> c.pos]
    BY DEF Client
<1> QED BY <1>1 DEF Knowledge

\* What the log sees of each caller.
LEMMA CallerFields ==
    ASSUME TypeInv, NEW r \in Requests
    PROVE  /\ client[r] \in Client /\ Callers[r] = Knowledge(client[r])
           /\ Callers[r].att = client[r].att /\ Callers[r].floor = client[r].floor
           /\ Callers[r].pc = IF client[r].pc \in {"checked", "waiting"} THEN "pending" ELSE client[r].pc
<1>1. client[r] \in Client
    BY FlightTypes
<1> QED BY <1>1, KnowledgeFields DEF Callers

\* One caller learns something.
LEMMA CallerMove ==
    ASSUME NEW r \in Requests, NEW k, Knowledge(client'[r]) = k,
           \A q \in Requests : q # r => client'[q] = client[q]
    PROVE  Callers' = [Callers EXCEPT ![r] = k]
BY DEF Callers

\* Callers only give up.
GiveUp == \A r \in Requests :
              \/ client'[r] = client[r]
              \/ client[r].pc \in {"checked", "waiting"} /\ client'[r] = [client[r] EXCEPT !.pc = "unknown"]

\* Callers that give up become unknown in the log.
LEMMA GiveUpSeen ==
    ASSUME TypeInv, GiveUp
    PROVE  \E gone \in SUBSET {r \in Requests : Callers[r].pc = "pending"} :
              Callers' = [r \in Requests |-> IF r \in gone THEN [Callers[r] EXCEPT !.pc = "unknown"]
                                             ELSE Callers[r]]
<1> DEFINE gone == {r \in Requests : client'[r] # client[r]}
<1>1. gone \in SUBSET {r \in Requests : Callers[r].pc = "pending"}
    BY CallerFields DEF GiveUp
<1>2. ASSUME NEW r \in Requests, r \notin gone PROVE Callers'[r] = Callers[r]
    BY <1>2 DEF Callers
<1>3. ASSUME NEW r \in Requests, r \in gone PROVE Callers'[r] = [Callers[r] EXCEPT !.pc = "unknown"]
    <2>1. client[r] \in Client /\ client'[r] = [client[r] EXCEPT !.pc = "unknown"]
        BY <1>3, CallerFields DEF GiveUp
    <2>2. client'[r] \in Client /\ client'[r].pc = "unknown" /\ client'[r].att = client[r].att
          /\ client'[r].floor = client[r].floor /\ client'[r].pos = client[r].pos
        BY <2>1 DEF Client
    <2>3. Knowledge(client'[r]) = [pc |-> "unknown", att |-> client[r].att,
                                   floor |-> client[r].floor, pos |-> client[r].pos]
        BY <2>2, KnowledgeFields
    <2>4. [Knowledge(client[r]) EXCEPT !.pc = "unknown"] =
              [pc |-> "unknown", att |-> client[r].att, floor |-> client[r].floor, pos |-> client[r].pos]
        BY <2>1, KnowledgeFields
    <2> QED BY <2>3, <2>4 DEF Callers
<1>4. Callers' = [r \in Requests |-> IF r \in gone THEN [Callers[r] EXCEPT !.pc = "unknown"]
                                     ELSE Callers[r]]
    <2>1. Callers' = [r \in Requests |-> Callers'[r]]
        BY DEF Callers
    <2> HIDE DEF gone
    <2> QED BY <1>2, <1>3, <2>1
<1> QED BY <1>1, <1>4

\* Unchanged callers look unchanged.
LEMMA SameCallers ==
    ASSUME UNCHANGED client PROVE Callers' = Callers
BY DEF Callers

-----------------------------------------------------------------------------
(* Every step is a step of the log.                                         *)

\* Attempts are lost and callers give up; the log stays as it is.
LEMMA LossSettles ==
    ASSUME TypeInv, GiveUp, OpenAttempts' \subseteq OpenAttempts,
           UNCHANGED <<journal, acked, kafka, delivered>>
    PROVE  Promise!Settle
<1>1. Len(journal) \in Nat
    BY FlightTypes
<1>2. Promise!IsPrefix(journal, journal')
    BY <1>1 DEF Promise!IsPrefix
<1>3. (Len(journal) + 1)..Len(journal') = {}
    BY <1>1
<1> QED BY <1>2, <1>3, GiveUpSeen DEF Promise!Settle

\* A call is taken or refused at once.
LEMMA CallInvokes ==
    ASSUME TypeInv, NEW r \in Requests, Call(r)
    PROVE  Promise!Invoke(r)
<1>1. /\ UNCHANGED <<orderQ, balanceQ, hand, pipe, jPc, grp, journal, acked, kafka, delivered>>
    BY DEF Call, coreVars, journalVars, outputVars
<1>2. /\ client \in [Requests -> Client] /\ client[r].att \in Nat /\ client[r].att < MaxAttempts
      /\ client[r].pc \in {"idle", "unknown", "refused"} /\ acked \in Nat
    BY FlightTypes, ItemTypes DEF Call, TypeInv, TypeOK, ClientType
<1>3. /\ client'[r] = [pc |-> IF closed THEN "refused" ELSE "checked",
                       att |-> client[r].att + 1, floor |-> acked, pos |-> 0]
      /\ \A q \in Requests : q # r => client'[q] = client[q]
    BY <1>2 DEF Call
<1>4. PICK pc : pc = IF closed THEN "refused" ELSE "pending"
    OBVIOUS
<1>5. PICK new : new = [req |-> r, att |-> client[r].att + 1]
    OBVIOUS
<1>6. Knowledge(client'[r]) = [pc |-> pc, att |-> client[r].att + 1, floor |-> acked, pos |-> 0]
    BY <1>3, <1>4 DEF Knowledge
<1>7. Callers' = [Callers EXCEPT ![r] = [pc |-> pc, att |-> client[r].att + 1, floor |-> acked, pos |-> 0]]
    BY <1>3, <1>6, CallerMove
<1>8. Callers[r].pc \in {"idle", "unknown", "refused"} /\ Callers[r].att = client[r].att
    BY <1>2, CallerFields
<1>9. Callers'[r].att = client[r].att + 1
    BY <1>3, <1>6 DEF Callers
<1>10. Calling' = IF closed THEN Calling ELSE Calling \cup {new}
    <2>1. \A q \in Requests : q # r => (Checked(q)' <=> Checked(q)) /\ client'[q].att = client[q].att
        BY <1>3 DEF Checked
    <2>2. ~Checked(r) /\ (Checked(r)' <=> ~closed) /\ client'[r].att = client[r].att + 1
        BY <1>2, <1>3 DEF Checked
    <2>3. Calling = {[req |-> q, att |-> client[q].att] : q \in {c \in Requests : Checked(c)}}
        BY DEF Calling, Checked
    <2>4. Calling' = {[req |-> q, att |-> client'[q].att] : q \in {c \in Requests : Checked(c)'}}
        BY DEF Calling, Checked
    <2>5. CASE closed
        BY <2>1, <2>2, <2>3, <2>4, <2>5
    <2>6. CASE ~closed
        BY <1>5, <2>1, <2>2, <2>3, <2>4, <2>6
    <2> QED BY <2>5, <2>6
<1>11. InFlight' = Calling' \cup (Waiting \cup InHand \cup Computed)
    BY <1>1 DEF InFlight, Waiting, InHand, Computed, Uncommitted
<1>12. OpenAttempts' = IF pc = "pending" /\ r \in Commands THEN OpenAttempts \cup {new} ELSE OpenAttempts
    <2>1. new.req = r /\ (pc = "pending" <=> ~closed)
        BY <1>4, <1>5
    <2> QED BY <1>10, <1>11, <2>1 DEF OpenAttempts, InFlight
<1> QED BY <1>1, <1>2, <1>4, <1>5, <1>7, <1>8, <1>9, <1>12 DEF Promise!Invoke

\* A sent command looks like one yet to be sent, a full channel takes the
\* call back.
LEMMA SendSeen ==
    ASSUME TypeInv, FlightInv, [Next]_vars, NEW r \in Requests, TrySend(r)
    PROVE  Promise!Refuse(r) \/ UNCHANGED Promise!logVars
<1>1. /\ UNCHANGED <<hand, pipe, jPc, grp, journal, acked, kafka, delivered>> /\ Checked(r)
    BY DEF TrySend, coreVars, journalVars, outputVars, Checked
<1>2. PICK a : a = [req |-> r, att |-> client[r].att]
    OBVIOUS
<1>3. PICK pc \in {"waiting", "refused"} :
          /\ client' = [client EXCEPT ![r].pc = pc]
          /\ pc = "waiting" => \/ orderQ' = Append(orderQ, a) /\ UNCHANGED balanceQ
                               \/ balanceQ' = Append(balanceQ, a) /\ UNCHANGED orderQ
          /\ pc = "refused" => UNCHANGED <<orderQ, balanceQ>>
    BY <1>2 DEF TrySend
<1>4. /\ client \in [Requests -> Client] /\ client[r] \in Client
      /\ orderQ \in Seq(Attempt) /\ balanceQ \in Seq(Attempt)
      /\ Waiting = Items(orderQ) \cup Items(balanceQ)
    BY FlightTypes
<1>5. a \in Attempt /\ a.req = r
    <2>1. client[r].att \in 1..MaxAttempts
        BY <1>1, <1>4, BoundsAssumption DEF Checked, Client, TypeInv, TypeOK, ClientType
    <2> QED BY <1>2, <2>1 DEF Attempt
<1>6. /\ \A q \in Requests : q # r => client'[q] = client[q]
      /\ client'[r] = [client[r] EXCEPT !.pc = pc]
    BY <1>3, <1>4
<1>7. Calling' = Calling \ {a} /\ a \in Calling
    <2>1. \A q \in Requests : q # r => (Checked(q)' <=> Checked(q)) /\ client'[q].att = client[q].att
        BY <1>6 DEF Checked
    <2>2. ~Checked(r)'
        BY <1>4, <1>6 DEF Checked, Client
    <2>3. Calling = {[req |-> q, att |-> client[q].att] : q \in {c \in Requests : Checked(c)}}
        BY DEF Calling, Checked
    <2>4. Calling' = {[req |-> q, att |-> client'[q].att] : q \in {c \in Requests : Checked(c)'}}
        BY DEF Calling, Checked
    <2>5. ASSUME NEW q \in Requests, q # r PROVE [req |-> q, att |-> client[q].att] # a
        BY <1>5, <2>5
    <2> QED BY <1>1, <1>2, <2>1, <2>2, <2>3, <2>4, <2>5
<1>8. InHand' = InHand /\ Computed' = Computed
    BY <1>1 DEF InHand, Computed, Uncommitted
<1>9. a \notin Waiting \cup InHand \cup Computed
    BY <1>7, FlightTypes DEF FlightInv, PlaceInv
<1>10. CASE pc = "waiting"
    <2>1. Waiting' = Waiting \cup {a}
        <3>1. a \notin Items(orderQ) /\ a \notin Items(balanceQ) /\ Distinct(orderQ) /\ Distinct(balanceQ)
            BY <1>4, <1>9 DEF FlightInv, DistinctInv
        <3>2. \/ Items(orderQ') = Items(orderQ) \cup {a} /\ Items(balanceQ') = Items(balanceQ)
              \/ Items(balanceQ') = Items(balanceQ) \cup {a} /\ Items(orderQ') = Items(orderQ)
            BY <1>3, <1>4, <1>5, <1>10, <3>1, PutLast
        <3> QED BY <1>4, <3>2, TypesNext
    <2>2. InFlight' = InFlight
        BY <1>7, <1>8, <2>1 DEF InFlight
    <2>3. Knowledge(client'[r]) = Knowledge(client[r])
        <3>1. /\ client'[r] \in Client /\ client'[r].pc = "waiting" /\ client'[r].att = client[r].att
              /\ client'[r].floor = client[r].floor /\ client'[r].pos = client[r].pos
              /\ client[r].pc = "checked"
            BY <1>1, <1>4, <1>6, <1>10 DEF Client, Checked
        <3> QED BY <1>4, <3>1, KnowledgeFields
    <2>4. Callers' = Callers
        BY <1>6, <2>3 DEF Callers
    <2> QED BY <1>1, <2>2, <2>4 DEF OpenAttempts, Promise!logVars
<1>11. CASE pc = "refused"
    <2>1. Waiting' = Waiting
        BY <1>3, <1>11 DEF Waiting
    <2>2. InFlight' = InFlight \ {a} /\ a \in InFlight
        BY <1>7, <1>8, <1>9, <2>1 DEF InFlight
    <2>3. /\ OpenAttempts' = OpenAttempts \ {a}
          /\ r \in Commands => a \in OpenAttempts
        BY <1>5, <2>2 DEF OpenAttempts
    <2>4. Callers[r].pc = "pending" /\ Callers[r].att = client[r].att
        BY <1>1, CallerFields DEF Checked
    <2>5. Knowledge(client'[r]) = [Callers[r] EXCEPT !.pc = "refused"]
        <3>1. /\ client'[r] \in Client /\ client'[r].pc = "refused" /\ client'[r].att = client[r].att
              /\ client'[r].floor = client[r].floor /\ client'[r].pos = client[r].pos
            BY <1>4, <1>6, <1>11 DEF Client
        <3>2. Knowledge(client'[r]) = [pc |-> "refused", att |-> client[r].att,
                                       floor |-> client[r].floor, pos |-> client[r].pos]
            BY <3>1, KnowledgeFields
        <3>3. [Knowledge(client[r]) EXCEPT !.pc = "refused"] =
                  [pc |-> "refused", att |-> client[r].att, floor |-> client[r].floor, pos |-> client[r].pos]
            BY <1>4, KnowledgeFields
        <3> QED BY <3>2, <3>3, CallerFields
    <2>6. Callers' = [Callers EXCEPT ![r].pc = "refused"]
        BY <1>6, <2>5, CallerMove
    <2>7. r \in Commands => OpenAttempts' # OpenAttempts
        BY <2>3
    <2>8. a = [req |-> r, att |-> Callers[r].att]
        BY <1>2, <2>4
    <2> QED BY <1>1, <2>3, <2>4, <2>6, <2>7, <2>8 DEF Promise!Refuse
<1> QED BY <1>3, <1>10, <1>11

\* A caller's timeout.
LEMMA TimeoutSettles ==
    ASSUME TypeInv, LogInv, FlightInv, [Next]_vars, \A q \in Requests : ~Call(q),
           NEW r \in Requests, Timeout(r)
    PROVE  Promise!Settle
<1>1. /\ UNCHANGED <<orderQ, balanceQ, hand, pipe, jPc, grp, journal, acked, kafka, delivered>>
      /\ client[r].pc = "waiting" /\ client' = [client EXCEPT ![r].pc = "unknown"]
    BY DEF Timeout, coreVars, journalVars, outputVars
<1>2. client \in [Requests -> Client] /\ client[r] \in Client
    BY FlightTypes
<1>3. GiveUp
    BY <1>1, <1>2 DEF GiveUp
<1>4. Calling' \subseteq Calling
    BY CallingShrinks
<1>5. OpenAttempts' \subseteq OpenAttempts
    BY <1>1, <1>4 DEF OpenAttempts, InFlight, Waiting, InHand, Computed, Uncommitted
<1> QED BY <1>1, <1>3, <1>5, LossSettles

\* Attempts on their way move on; nobody learns anything.
LEMMA MovesAreHidden ==
    ASSUME InFlight' = InFlight, UNCHANGED <<client, journal, acked, kafka, delivered>>
    PROVE  UNCHANGED Promise!logVars
BY SameCallers DEF OpenAttempts, Promise!logVars

\* The core drops what it holds, the process everything.
LEMMA ExitSettles ==
    ASSUME TypeInv, FlightInv, [Next]_vars, \A q \in Requests : ~Call(q), CoreExit
    PROVE  Promise!Settle
<1>1. /\ UNCHANGED <<orderQ, balanceQ, pipe, jPc, grp, journal, acked, kafka, delivered>>
      /\ hand' = <<>>
    BY DEF CoreExit, journalVars, outputVars
<1>2. PICK S : client' = DropReplies(S)
    BY DEF CoreExit
<1>3. GiveUp
    BY <1>2 DEF GiveUp, DropReplies
<1>4. /\ Calling' \subseteq Calling /\ InHand' = {} /\ Waiting' = Waiting /\ Computed' = Computed
    BY <1>1, CallingShrinks DEF InHand, Waiting, Computed, Uncommitted
<1>5. OpenAttempts' \subseteq OpenAttempts
    BY <1>4 DEF OpenAttempts, InFlight
<1> QED BY <1>1, <1>3, <1>5, LossSettles

\* The end of a worker or of the process is Settle.
LEMMA GoneSettles ==
    ASSUME TypeInv, FlightInv, [Next]_vars, \A q \in Requests : ~Call(q), Gone
    PROVE  Promise!Settle
<1>1. UNCHANGED <<journal, acked, kafka, delivered>>
    BY DEF Gone
<1>2. GiveUp
    BY DEF GiveUp, Gone
<1>3. OpenAttempts' \subseteq OpenAttempts
    BY GoneFlight DEF OpenAttempts
<1> QED BY <1>1, <1>2, <1>3, LossSettles

\* The journal grows by attempts of the group, each once, with at most one
\* result of a command.
LEMMA GroupSettles ==
    ASSUME TypeInv, LogInv, TimeInv, FlightInv, RetryInv, [Next]_vars, jPc = "insert",
           journal' = journal \/ (ins = grp /\ journal' = journal \o txn),
           Calling' \subseteq Calling, UNCHANGED <<orderQ, balanceQ, hand, acked, kafka, delivered>>,
           Computed' = {AttemptIn(pipe[k]) : k \in (grp + 1)..Len(pipe)}, GiveUp
    PROVE  Promise!Settle
<1>1. /\ Len(journal') \in Nat /\ Len(journal) <= Len(journal') /\ Len(journal) \in Nat
      /\ \A k \in 1..Len(journal) : journal'[k] = journal[k]
      /\ \A k \in (Len(journal) + 1)..Len(journal') : \E i \in 1..grp :
            /\ pipe[i].req \in Commands
            /\ journal'[k].req = pipe[i].req /\ journal'[k].att = pipe[i].att
    BY CommitRecords, FlightTypes
<1>2. Distinct(journal') /\ Once(journal')
    BY CommitPlaces, RetryStep DEF RetryInv
<1>3. /\ DOMAIN pipe = 1..Len(pipe) /\ Len(pipe) \in Nat /\ grp \in 0..Len(pipe)
    BY FlightTypes
<1>4. Uncommitted = 1..Len(pipe)
    BY <1>3 DEF Uncommitted
<1>5. Waiting' = Waiting /\ InHand' = InHand /\ Computed' \subseteq Computed
    BY <1>3, <1>4 DEF Waiting, InHand, Computed
<1>6. OpenAttempts' \subseteq OpenAttempts
    BY <1>5 DEF OpenAttempts, InFlight
<1>7. ASSUME NEW i \in 1..grp, pipe[i].req \in Commands
      PROVE  AttemptIn(pipe[i]) \in OpenAttempts \ OpenAttempts'
    <2>1. i \in 1..Len(pipe) /\ AttemptIn(pipe[i]).req \in Commands
        BY <1>3, <1>7 DEF AttemptIn
    <2>2. AttemptIn(pipe[i]) \in Computed /\ AttemptIn(pipe[i]) \in Piped
        BY <1>4, <2>1 DEF Computed, Piped
    <2>3. AttemptIn(pipe[i]) \notin Calling' \cup Waiting' \cup InHand'
        BY <1>5, <2>2 DEF FlightInv, PlaceInv
    <2>4. ASSUME NEW k \in (grp + 1)..Len(pipe), AttemptIn(pipe[k]) = AttemptIn(pipe[i]) PROVE FALSE
        <3>1. k \in 1..Len(pipe) /\ k # i
            BY <1>3
        <3>2. pipe[k].req = pipe[i].req /\ pipe[k].att = pipe[i].att
            BY <2>4 DEF AttemptIn
        <3> QED BY <2>1, <3>1, <3>2 DEF FlightInv, DistinctInv, Distinct
    <2>5. AttemptIn(pipe[i]) \notin Computed'
        BY <2>4
    <2> QED BY <2>1, <2>2, <2>3, <2>5 DEF OpenAttempts, InFlight
<1>8. ASSUME NEW k \in (Len(journal) + 1)..Len(journal')
      PROVE  /\ Promise!AttemptOf(journal'[k]) \in OpenAttempts \ OpenAttempts'
             /\ \A j \in 1..(k - 1) :
                   /\ Promise!AttemptOf(journal'[j]) # Promise!AttemptOf(journal'[k])
                   /\ journal'[j].req = journal'[k].req => ~(journal'[j].batch /\ journal'[k].batch)
    <2>1. PICK i \in 1..grp : /\ pipe[i].req \in Commands
                              /\ journal'[k].req = pipe[i].req /\ journal'[k].att = pipe[i].att
        BY <1>1
    <2>2. Promise!AttemptOf(journal'[k]) = AttemptIn(pipe[i])
        BY <2>1 DEF Promise!AttemptOf, AttemptIn
    <2>3. ASSUME NEW j \in 1..(k - 1)
          PROVE  /\ Promise!AttemptOf(journal'[j]) # Promise!AttemptOf(journal'[k])
                 /\ journal'[j].req = journal'[k].req => ~(journal'[j].batch /\ journal'[k].batch)
        <3>1. j \in 1..Len(journal') /\ k \in 1..Len(journal') /\ j # k
            BY <1>1
        <3>2. ~(journal'[j].req = journal'[k].req /\ journal'[j].att = journal'[k].att)
            BY <1>2, <3>1 DEF Distinct
        <3>3. Promise!AttemptOf(journal'[j]) # Promise!AttemptOf(journal'[k])
            BY <3>2 DEF Promise!AttemptOf
        <3>4. journal'[j].req = journal'[k].req => ~(journal'[j].batch /\ journal'[k].batch)
            BY <1>2, <3>1 DEF Once
        <3> QED BY <3>3, <3>4
    <2> QED BY <1>7, <2>1, <2>2, <2>3
<1>9. Promise!IsPrefix(journal, journal')
    <2>1. journal \in Seq(Record) /\ journal' \in Seq(Record)
        BY TypePreserved DEF TypeInv, TypeOK, JournalType
    <2>2. SubSeq(journal, 1, Len(journal)) = SubSeq(journal', 1, Len(journal))
        BY <1>1, <2>1
    <2> QED BY <1>1, <2>2 DEF Promise!IsPrefix
<1> QED BY <1>6, <1>8, <1>9, GiveUpSeen DEF Promise!Settle

\* A commit is Settle with the records of the group.
LEMMA CommitSettles ==
    ASSUME TypeInv, LogInv, TimeInv, FlightInv, RetryInv, [Next]_vars,
           \A q \in Requests : ~Call(q), JournalCommit
    PROVE  Promise!Settle
<1>1. /\ jPc = "insert" /\ ins = grp /\ journal' = journal \o txn /\ jPc' = "committed"
      /\ UNCHANGED <<orderQ, balanceQ, hand, acked, kafka, delivered, client, pipe, grp>>
    BY DEF JournalCommit, coreVars, outputVars
<1>2. Computed' = {AttemptIn(pipe[k]) : k \in (grp + 1)..Len(pipe)}
    <2>1. /\ DOMAIN pipe = 1..Len(pipe) /\ Len(pipe) \in Nat /\ grp \in 0..Len(pipe)
        BY FlightTypes
    <2>2. Uncommitted' = (grp + 1)..Len(pipe)
        BY <1>1, <2>1 DEF Uncommitted
    <2> QED BY <1>1, <2>2 DEF Computed
<1>3. GiveUp
    BY <1>1 DEF GiveUp
<1>4. Calling' \subseteq Calling
    BY CallingShrinks
<1> QED BY <1>1, <1>2, <1>3, <1>4, GroupSettles

\* A failed commit is Settle, with or without the records.
LEMMA FailSettles ==
    ASSUME TypeInv, LogInv, TimeInv, FlightInv, RetryInv, [Next]_vars,
           \A q \in Requests : ~Call(q), JournalFail
    PROVE  Promise!Settle
<1>1. /\ jPc = "insert"
      /\ journal' = journal \/ (ins = grp /\ journal' = journal \o txn)
      /\ UNCHANGED <<orderQ, balanceQ, hand, acked, kafka, delivered>>
    BY DEF JournalFail, coreVars, outputVars
<1>2. PICK S : client' = DropReplies(S)
    BY DEF JournalFail
<1>3. GiveUp
    BY <1>2 DEF GiveUp, DropReplies
<1>4. Calling' \subseteq Calling
    BY CallingShrinks
<1>5. Computed' = {AttemptIn(pipe[k]) : k \in (grp + 1)..Len(pipe)}
    BY FailFlight
<1> QED BY <1>1, <1>3, <1>4, <1>5, GroupSettles

\* Pending::finish answers with the position of the command's own record, or
\* with the prefix that the query read.
LEMMA FinishAnswers ==
    ASSUME TypeInv, LogInv, TimeInv, FlightInv, [Next]_vars,
           \A q \in Requests : ~Call(q), JournalFinish
    PROVE  (\E r \in Requests : Promise!Answer(r)) \/ UNCHANGED Promise!logVars
<1>1. UNCHANGED <<orderQ, balanceQ, hand, journal, kafka, delivered>>
    BY DEF JournalFinish, coreVars, outputVars
<1>2. PICK p : p = pipe[1]
    OBVIOUS
<1>3. PICK r : r = p.req
    OBVIOUS
<1>4. /\ 1 \in 1..Len(pipe) /\ p.seen \in Nat /\ p.seen <= Len(journal) /\ r \in Requests
      /\ p.req = r /\ Head(pipe) = p
    <2>1. pipe \in Seq(Pending) /\ pipe # <<>>
        BY FinishAnswer, FlightTypes
    <2> QED BY <1>2, <1>3, <2>1, FinishAnswer
<1>5. Computed' = Computed /\ Waiting' = Waiting /\ InHand' = InHand
    BY <1>1, FinishFlight DEF Waiting, InHand
<1>6. acked \in Nat /\ Len(journal) \in Nat /\ client \in [Requests -> Client] /\ client[r] \in Client
    BY <1>4, FlightTypes DEF TypeInv, TypeOK, ClientType
<1>7. CASE ~(client[r].pc = "waiting" /\ client[r].att = p.att)
    <2>1. UNCHANGED <<client, acked>>
        BY <1>4, <1>7 DEF JournalFinish
    <2>2. InFlight' = InFlight
        BY <1>5, <2>1 DEF InFlight, Calling
    <2> QED BY <1>1, <2>1, <2>2, MovesAreHidden
<1>8. CASE client[r].pc = "waiting" /\ client[r].att = p.att
    <2>1. /\ client' = [client EXCEPT ![r].pc = "replied", ![r].pos = p.seen]
          /\ acked' = IF p.seen > acked THEN p.seen ELSE acked
        BY <1>4, <1>8 DEF JournalFinish
    <2>2. /\ client'[r] = [client[r] EXCEPT !.pc = "replied", !.pos = p.seen]
          /\ \A q \in Requests : q # r => client'[q] = client[q]
        BY <1>4, <1>6, <2>1
    <2>3. InFlight' = InFlight
        <3>1. \A q \in Requests : q # r => (Checked(q)' <=> Checked(q)) /\ client'[q].att = client[q].att
            BY <2>2 DEF Checked
        <3>2. ~Checked(r)' /\ ~Checked(r)
            BY <1>6, <1>8, <2>2 DEF Checked, Client
        <3>3. Calling = {[req |-> q, att |-> client[q].att] : q \in {c \in Requests : Checked(c)}}
            BY DEF Calling, Checked
        <3>4. Calling' = {[req |-> q, att |-> client'[q].att] : q \in {c \in Requests : Checked(c)'}}
            BY DEF Calling, Checked
        <3>5. Calling' = Calling
            BY <3>1, <3>2, <3>3, <3>4
        <3> QED BY <1>5, <3>5 DEF InFlight
    <2>4. Callers[r].pc = "pending" /\ Callers[r].att = client[r].att /\ Callers[r].floor = client[r].floor
        BY <1>4, <1>8, CallerFields
    <2>5. Knowledge(client'[r]) = [Callers[r] EXCEPT !.pc = "replied", !.pos = p.seen]
        <3>1. /\ client'[r] \in Client /\ client'[r].pc = "replied" /\ client'[r].att = client[r].att
              /\ client'[r].floor = client[r].floor /\ client'[r].pos = p.seen
            BY <1>4, <1>6, <2>2 DEF Client
        <3>2. Knowledge(client'[r]) = [pc |-> "replied", att |-> client[r].att,
                                       floor |-> client[r].floor, pos |-> p.seen]
            BY <3>1, KnowledgeFields
        <3>3. [Knowledge(client[r]) EXCEPT !.pc = "replied", !.pos = p.seen] =
                  [pc |-> "replied", att |-> client[r].att, floor |-> client[r].floor, pos |-> p.seen]
            <4>1. PICK pc : Knowledge(client[r]) = [pc |-> pc, att |-> client[r].att,
                                                    floor |-> client[r].floor, pos |-> client[r].pos]
                BY <1>6, KnowledgeFields
            <4>2. PICK k, a, f, o, n : /\ k = Knowledge(client[r]) /\ n = p.seen
                                       /\ a = client[r].att /\ f = client[r].floor /\ o = client[r].pos
                OBVIOUS
            <4>3. k = [pc |-> pc, att |-> a, floor |-> f, pos |-> o]
                BY <4>1, <4>2
            <4>4. PICK h : h = [k EXCEPT !.pc = "replied"]
                OBVIOUS
            <4>5. h = [pc |-> "replied", att |-> a, floor |-> f, pos |-> o]
                BY <4>3, <4>4
            <4>6. [h EXCEPT !.pos = n] = [pc |-> "replied", att |-> a, floor |-> f, pos |-> n]
                BY <4>5
            <4>7. [k EXCEPT !.pc = "replied", !.pos = n] = [h EXCEPT !.pos = n]
                BY <4>4
            <4> QED BY <4>2, <4>6, <4>7
        <3> QED BY <1>4, <3>2, <3>3, CallerFields
    <2>6. Callers' = [Callers EXCEPT ![r].pc = "replied", ![r].pos = p.seen]
        <3>1. Callers' = [Callers EXCEPT ![r] = [Callers[r] EXCEPT !.pc = "replied", !.pos = p.seen]]
            BY <1>4, <2>2, <2>5, CallerMove
        <3>2. DOMAIN Callers = Requests
            BY DEF Callers
        <3> QED BY <1>4, <3>1, <3>2
    <2>7. IF r \in Commands
          THEN p.seen > Callers[r].floor
               /\ Promise!AttemptOf(journal[p.seen]) = [req |-> r, att |-> Callers[r].att]
          ELSE p.seen >= Callers[r].floor
        <3>1. After(r, p.seen)
            BY <1>2, <1>4, <1>8 DEF TimeInv, FloorInv
        <3>2. ASSUME r \in Commands
              PROVE  Promise!AttemptOf(journal[p.seen]) = [req |-> r, att |-> client[r].att]
            <4>1. p.seen > 0 /\ state[p.seen] = RecordOf(p) /\ IsCommand(p)
                BY <1>2, <1>4, <3>2 DEF LogInv, SeenInv, IsCommand
            <4>2. phase # "down"
                BY DEF LogInv, QuietInv, JournalFinish
            <4>3. journal[p.seen] = state[p.seen]
                BY <1>4, <1>6, <4>1, <4>2 DEF LogInv, PrefixInv
            <4>4. journal[p.seen].req = p.req /\ journal[p.seen].att = p.att
                BY <4>1, <4>3 DEF RecordOf
            <4> QED BY <1>4, <1>8, <4>4 DEF Promise!AttemptOf
        <3> QED BY <2>4, <3>1, <3>2 DEF After
    <2>8. p.seen \in 0..Len(journal)
        BY <1>4, <1>6
    <2>9. OpenAttempts' = OpenAttempts
        BY <2>3 DEF OpenAttempts
    <2>10. Promise!Answer(r)
        BY <1>1, <2>1, <2>4, <2>6, <2>7, <2>8, <2>9 DEF Promise!Answer
    <2> QED BY <1>4, <2>10
<1> QED BY <1>7, <1>8

-----------------------------------------------------------------------------
(* The outlet.                                                              *)

\* The messages of a record.
LEMMA BatchItems ==
    ASSUME NEW s, NEW m \in Promise!Batch(s)
    PROVE  m.seq = s /\ m.idx \in 1..EventCount(s) /\ m = [seq |-> s, idx |-> m.idx, req |-> journal[s].req]
<1>1. PICK x \in 1..EventCount(s) : m = [seq |-> s, idx |-> x, req |-> journal[s].req]
    BY DEF Promise!Batch, EventCount
<1>2. m.seq = s /\ m.idx = x
    BY <1>1
<1> QED BY <1>1, <1>2

\* What the broker holds of a record are the messages of the log's batch.
LEMMA HeldIsRead ==
    ASSUME TypeInv, DeliveryInv, NEW s \in 1..Len(journal), NEW x \in 1..EventCount(s), Held(s, x)
    PROVE  [seq |-> s, idx |-> x, req |-> journal[s].req] \in Promise!ToSet(kafka)
<1>1. PICK j \in DOMAIN kafka : kafka[j].seq = s /\ kafka[j].idx = x
    BY DEF Held
<1>2. kafka[j] \in Message /\ kafka[j].req = journal[s].req
    BY <1>1 DEF TypeInv, TypeOK, OutputType, DeliveryInv, KafkaMatchesJournal
<1>3. kafka[j] = [seq |-> s, idx |-> x, req |-> journal[s].req]
    BY <1>1, <1>2 DEF Message
<1> QED BY <1>3 DEF Promise!ToSet

\* A message is sent when every earlier one is on the broker.
LEMMA SendEmits ==
    ASSUME TypeInv, DeliveryInv, outPc = "send", sent < EventCount(delivered + 1),
           kafka' = Append(kafka, NextMessage), UNCHANGED <<client, journal, acked, delivered>>,
           OpenAttempts' = OpenAttempts
    PROVE  Promise!Emit
<1>1. /\ delivered \in Nat /\ sent \in Nat /\ Len(journal) \in Nat /\ DOMAIN journal = 1..Len(journal)
      /\ delivered + 1 \in 1..Len(journal)
    BY DEF TypeInv, CursorInv, TypeOK, JournalType, OutputType
<1>2. \A s \in 1..(delivered + 1) : s \in 1..Len(journal) /\ EventCount(s) \in Nat
    BY <1>1, EventCountType
<1>3. PICK m : m = NextMessage
    OBVIOUS
<1>4. /\ m = [seq |-> delivered + 1, idx |-> sent + 1, req |-> journal[delivered + 1].req]
      /\ m.seq = delivered + 1 /\ m.idx = sent + 1
    BY <1>3 DEF NextMessage
<1>5. m \in Promise!Batch(delivered + 1)
    <2>1. sent + 1 \in 1..EventCount(delivered + 1)
        BY <1>1, <1>2
    <2> QED BY <1>4, <2>1 DEF Promise!Batch, EventCount
<1>6. ASSUME NEW s \in 1..(delivered + 1), NEW n \in Promise!Batch(s),
             n.seq < m.seq \/ n.idx < m.idx
      PROVE  n \in Promise!ToSet(kafka)
    <2>1. n.seq = s /\ n.idx \in 1..EventCount(s) /\ n = [seq |-> s, idx |-> n.idx, req |-> journal[s].req]
        BY BatchItems
    <2>2. CASE s \in 1..delivered
        <3>1. Held(s, n.idx)
            BY <2>1, <2>2 DEF DeliveryInv, CursorIsDelivered, Held
        <3> QED BY <1>2, <2>1, <3>1, HeldIsRead
    <2>3. CASE s = delivered + 1
        <3>1. n.idx \in 1..sent
            BY <1>1, <1>2, <1>4, <1>6, <2>1, <2>3
        <3>2. Held(s, n.idx)
            BY <2>3, <3>1 DEF DeliveryInv, SendInv
        <3> QED BY <1>2, <2>1, <3>2, HeldIsRead
    <2> QED BY <1>1, <2>2, <2>3
<1>7. Promise!Earlier(m) \subseteq Promise!ToSet(kafka)
    BY <1>4, <1>6 DEF Promise!Earlier
<1>8. m \in UNION {Promise!Batch(s) : s \in DOMAIN journal}
    BY <1>1, <1>5
<1> QED BY <1>3, <1>7, <1>8, SameCallers DEF Promise!Emit

\* mark_delivered moves the cursor past a record that is on the broker.
LEMMA MarkAcknowledges ==
    ASSUME TypeInv, DeliveryInv, OutMark, OpenAttempts' = OpenAttempts
    PROVE  Promise!Acknowledge
<1>1. /\ delivered \in Nat /\ Len(journal) \in Nat /\ outPc = "send" /\ sent = EventCount(delivered + 1)
      /\ delivered + 1 \in 1..Len(journal) /\ delivered < Len(journal) /\ delivered' = delivered + 1
      /\ UNCHANGED <<client, journal, acked, kafka>>
    BY DEF OutMark, TypeInv, CursorInv, TypeOK, JournalType, OutputType
<1>2. Promise!Batch(delivered + 1) \subseteq Promise!ToSet(kafka)
    <2> SUFFICES ASSUME NEW n \in Promise!Batch(delivered + 1) PROVE n \in Promise!ToSet(kafka)
        OBVIOUS
    <2>1. /\ n.idx \in 1..EventCount(delivered + 1)
          /\ n = [seq |-> delivered + 1, idx |-> n.idx, req |-> journal[delivered + 1].req]
        BY BatchItems
    <2>2. Held(delivered + 1, n.idx)
        BY <1>1, <2>1 DEF DeliveryInv, SendInv
    <2> QED BY <1>1, <2>1, <2>2, HeldIsRead
<1> QED BY <1>1, <1>2, SameCallers DEF Promise!Acknowledge

\* The steps of OtherSteps move no attempt: only the output worker's can be
\* seen.
LEMMA OutputSeen ==
    ASSUME TypeInv, DeliveryInv, UNCHANGED <<client, journal, acked>>, InFlight' = InFlight,
           \/ UNCHANGED <<kafka, delivered>>
           \/ OutputStep \/ OutFail
    PROVE  [Promise!Next]_(Promise!logVars)
<1>1. OpenAttempts' = OpenAttempts
    BY DEF OpenAttempts
<1>2. CASE UNCHANGED <<kafka, delivered>>
    BY <1>2, MovesAreHidden
<1>3. CASE OutMark
    BY <1>1, <1>3, MarkAcknowledges DEF Promise!Next
<1>4. CASE /\ outPc = "send" /\ sent < EventCount(delivered + 1)
           /\ kafka' = Append(kafka, NextMessage) /\ UNCHANGED delivered
    BY <1>1, <1>4, SendEmits DEF Promise!Next
<1> QED BY <1>2, <1>3, <1>4
        DEF OutputStep, OutBaseline, OutLook, OutSend, OutIdle, OutFail

\* Every step of the threads is a step of the log or a stutter.
LEMMA StepSimulates ==
    ASSUME TypeInv, LogInv, TimeInv, FlightInv, RetryInv, DeliveryInv, [Next]_vars
    PROVE  [Promise!Next]_(Promise!logVars)
<1>1. CASE \E r \in Requests : Call(r)
    BY <1>1, CallInvokes DEF Promise!Next
<1>2. CASE \A r \in Requests : ~Call(r)
    <2>1. CASE \E r \in Requests : TrySend(r)
        BY <2>1, SendSeen DEF Promise!Next
    <2>2. CASE \E r \in Requests : Timeout(r)
        BY <1>2, <2>2, TimeoutSettles DEF Promise!Next
    <2>3. CASE CoreReceive /\ orderQ # <<>>
        <3>1. InFlight' = InFlight
            BY <1>2, <2>3, ReceiveFlight
        <3> QED BY <2>3, <3>1, MovesAreHidden DEF CoreReceive, outputVars
    <2>4. CASE CoreBalance
        <3>1. InFlight' = InFlight
            BY <1>2, <2>4, BalanceFlight
        <3> QED BY <2>4, <3>1, MovesAreHidden DEF CoreBalance, outputVars
    <2>5. CASE CoreOrder
        <3>1. InFlight' = InFlight
            BY <1>2, <2>5, OrderFlight
        <3> QED BY <2>5, <3>1, MovesAreHidden DEF CoreOrder, outputVars
    <2>6. CASE CoreExit
        BY <1>2, <2>6, ExitSettles DEF Promise!Next
    <2>7. CASE JournalCommit
        BY <1>2, <2>7, CommitSettles DEF Promise!Next
    <2>8. CASE JournalFail
        BY <1>2, <2>8, FailSettles DEF Promise!Next
    <2>9. CASE JournalFinish
        BY <1>2, <2>9, FinishAnswers DEF Promise!Next
    <2>10. CASE Exit \/ Crash
        BY <1>2, <2>10, GoneSettles DEF Exit, Crash, Promise!Next
    <2>11. CASE JournalInsert
        <3>1. /\ UNCHANGED <<orderQ, balanceQ, hand, pipe, jPc, grp, client, journal, acked, kafka, delivered>>
            BY <2>11 DEF JournalInsert, coreVars, outputVars
        <3>2. InFlight' = InFlight
            BY <3>1 DEF InFlight, Calling, Waiting, InHand, Computed, Uncommitted
        <3> QED BY <3>1, <3>2, MovesAreHidden
    <2>12. CASE \/ CoreTop \/ CoreNoBalance \/ (CoreReceive /\ orderQ = <<>>)
                \/ JournalTake \/ JournalPublish \/ JournalEnd
                \/ OutputStep \/ OutFail \/ Start \/ Open \/ JoinCore \/ JoinJournal \/ JoinOutput
                \/ Halt \/ UNCHANGED vars
        <3>1. Still
            BY <2>12, OtherSteps
        <3>2. UNCHANGED <<client, journal, acked>>
            BY <2>12 DEF CoreTop, CoreNoBalance, CoreReceive, JournalTake, JournalPublish, JournalEnd,
                OutputStep, OutBaseline, OutLook, OutSend, OutMark, OutIdle, OutFail,
                Start, Open, JoinCore, JoinJournal, JoinOutput, Join, Halt, vars
        <3>3. UNCHANGED <<kafka, delivered>> \/ OutputStep \/ OutFail
            BY <2>12 DEF CoreTop, CoreNoBalance, CoreReceive, JournalTake, JournalPublish, JournalEnd,
                Start, Open, JoinCore, JoinJournal, JoinOutput, Join, Halt, vars, outputVars
        <3>4. InFlight' = InFlight
            BY <3>1, <3>2 DEF Still, InFlight, Calling, Waiting, InHand
        <3> QED BY <3>2, <3>3, <3>4, OutputSeen
    <2> QED BY <1>2, <2>1, <2>2, <2>3, <2>4, <2>5, <2>6, <2>7, <2>8, <2>9, <2>10, <2>11, <2>12
            DEF Next, CoreStep, JournalStep, ControlStep
<1> QED BY <1>1, <1>2

\* The threads start where the log starts.
LEMMA InitSimulates == Init => Promise!Init
<1> SUFFICES ASSUME Init PROVE Promise!Init
    OBVIOUS
<1>1. /\ journal = <<>> /\ acked = 0 /\ kafka = <<>> /\ delivered = 0
      /\ orderQ = <<>> /\ balanceQ = <<>> /\ pipe = <<>> /\ hand = <<>>
      /\ \A r \in Requests : client[r] = [pc |-> "idle", att |-> 0, floor |-> 0, pos |-> 0]
    BY DEF Init
<1>2. InFlight = {}
    <2>1. Calling = {} /\ InHand = {}
        BY <1>1 DEF Calling, InHand
    <2>2. Waiting = {}
        BY <1>1 DEF Waiting
    <2>3. Computed = {}
        BY <1>1 DEF Computed, Uncommitted
    <2> QED BY <2>1, <2>2, <2>3 DEF InFlight
<1>3. \A r \in Requests : Knowledge(client[r]) = [pc |-> "idle", att |-> 0, floor |-> 0, pos |-> 0]
    BY <1>1 DEF Knowledge
<1>4. Callers = [r \in Requests |-> Promise!NotCalled]
    BY <1>3 DEF Callers, Promise!NotCalled
<1> QED BY <1>1, <1>2, <1>4 DEF Promise!Init, OpenAttempts

\* The threads implement the log.  Whatever the threads, channels, groups,
\* failed commits, lost acknowledgements, halts and crashes do, callers and
\* the readers of the topic see CommandLog: a log that only grows by open
\* attempts, each once; answers that are positions of it; and an outlet that
\* carries its events in order.
THEOREM ThreadsImplementTheLog == Spec => ImplementsCommandLog
<1>1. Init => Promise!Init
    BY InitSimulates
<1>2. TypeInv /\ LogInv /\ TimeInv /\ FlightInv /\ RetryInv /\ DeliveryInv /\ [Next]_vars
          => [Promise!Next]_(Promise!logVars)
    BY StepSimulates
<1>3. Init => RetryInv
    BY DEF Init, RetryInv, Once
<1> QED
    BY TypeInitial, TypePreserved, LogInit, LogStep, TimeInit, TimeStep, FlightInit, FlightStep,
       RetryStep, DeliveryInit, DeliveryStep, <1>1, <1>2, <1>3, PTL
    DEF Spec, ImplementsCommandLog, Promise!Spec
===============================================================================
