--------------------------- MODULE OrderIntakeProofs --------------------------
(***************************************************************************)
(* The acceptance of orders, for any number of requests, orders, retries,  *)
(* edits by the platform and crashes.                                      *)
(*                                                                         *)
(* The argument: FOR SHARE keeps the order open until the transaction ends *)
(* (Holder) and the primary key gives an order one inserter (Inserter), so *)
(* a receipt is written once and never changes; every command on its way   *)
(* to the engine carries the content of the receipt (Carrier, QueueInv),   *)
(* whoever sends it.                                                       *)
(***************************************************************************)
EXTENDS OrderIntake, TLAPS

Row    == [cmd : Command, fee : FeeRates]
Stage  == {"idle", "select", "lock", "recheck", "insert", "reread", "commit", "submit",
           "wait", "done"}
Code   == {0, 200, 202, 400, 409, 503}
Flag   == BOOLEAN
Caller == [pc : Stage, row : Row \cup {NoRow}, created : Flag, tries : Nat,
           code : Code]
Item   == [caller : Callers, try : Nat, entry : Row]

Valid(c) == ValidRequest(Request[c]) /\ ValidIds(Request[c])

IntakeType ==
    /\ receipts \in [Ids -> Row \cup {NoRow}] /\ engine \in [Ids -> Row \cup {NoRow}]
    /\ inserted \in [Ids -> SUBSET Callers] /\ shared \in [Ids -> SUBSET Callers]
    /\ DOMAIN orderOpen = Ids /\ fee \in [Ids -> FeeRates]
    /\ call \in [Callers -> Caller] /\ queue \in Seq(Item)

\* A row lock is held by a valid request that states the platform's command,
\* from the read of the original to the end of its transaction, and the order
\* is open all that time.
Holder(c) ==
    \A i \in Ids : c \in shared[i] =>
        /\ i = Id(c) /\ orderOpen[i] /\ Original[i] = Request[c] /\ Valid(c)
        /\ call[c].pc \in {"insert", "reread", "commit"}

\* One uncommitted row per order, written by a holder of the lock.
Inserter(c) ==
    \A i \in Ids : c \in inserted[i] =>
        /\ inserted[i] = {c} /\ c \in shared[i] /\ call[c].pc = "commit"
        /\ receipts[i] = NoRow

\* What a request carries at each statement.
CarriesOwn(c)     == call[c].row \in Row /\ call[c].row.cmd = Request[c]
CarriesReceipt(c) == CarriesOwn(c) /\ call[c].row = receipts[Id(c)]
Carrier(c) ==
    /\ call[c].pc \notin {"idle", "done"} => Valid(c)
    /\ call[c].pc \in {"insert", "reread"} => c \in shared[Id(c)] /\ CarriesOwn(c)
    /\ call[c].pc = "reread" => receipts[Id(c)] \in Row
    /\ call[c].pc = "commit" => CarriesOwn(c) /\ (c \in inserted[Id(c)] \/ CarriesReceipt(c))
    /\ call[c].pc \in {"submit", "wait"} => CarriesReceipt(c)

\* A refusal is final: the order is closed or the platform's own command is
\* invalid, and without a receipt it stays without one.
Refusal(c) ==
    Original[Id(c)] = Request[c] =>
        /\ call[c].pc = "recheck" => ~orderOpen[Id(c)]
        /\ call[c].pc = "done" /\ call[c].code = 400 =>
              receipts[Id(c)] = NoRow /\ (orderOpen[Id(c)] => ~Valid(c))

\* A success is about the request's own command.
Success2xx(c) ==
    call[c].code \in {200, 202} => engine[Id(c)] \in Row /\ engine[Id(c)].cmd = Request[c]

\* Everything the proof knows of one request.
Local(c) == Holder(c) /\ Inserter(c) /\ Carrier(c) /\ Refusal(c) /\ Success2xx(c)

\* An accepted command of the platform is valid, and what is on its way to the
\* engine or in its journal is what the receipt says.
ReceiptInv ==
    \A c \in Callers : receipts[Id(c)] \in Row /\ Original[Id(c)] = Request[c] => Valid(c)
QueueInv ==
    \A k \in 1..Len(queue) :
        /\ queue[k].entry = receipts[Id(queue[k].caller)]
        /\ queue[k].entry.cmd = Request[queue[k].caller]
EngineInv ==
    /\ \A i \in Ids : engine[i] # NoRow => engine[i] = receipts[i]
    /\ conflicts = {}

\* The inductive invariant.
IntakeInv ==
    IntakeType /\ (\A c \in Callers : Local(c)) /\ ReceiptInv /\ QueueInv /\ EngineInv

-----------------------------------------------------------------------------
\* A stored row is a row.
LEMMA RowIsNotNoRow == NoRow \notin Row
<1> SUFFICES ASSUME NoRow \in Row PROVE FALSE
    OBVIOUS
<1>1. DOMAIN NoRow = {"cmd", "fee"}
    BY DEF Row
<1>2. DOMAIN NoRow = {}
    BY DEF NoRow
<1> QED BY <1>1, <1>2

\* A command is not the missing row.
LEMMA CommandIsNotNoRow == NoRow \notin Command
<1> SUFFICES ASSUME NoRow \in Command PROVE FALSE
    OBVIOUS
<1>1. "id" \in DOMAIN NoRow
    BY DEF Command
<1>2. DOMAIN NoRow = {}
    BY DEF NoRow
<1> QED BY <1>1, <1>2

\* The order of a request.
LEMMA IdType == \A c \in Callers : Id(c) \in Ids
BY DEF Id, Ids

\* A request that a step does not touch keeps what is known of it.
LEMMA Undisturbed ==
    ASSUME NEW d \in Callers, Local(d), call'[d] = call[d],
           \A i \in Ids : /\ d \in shared'[i] <=> d \in shared[i]
                          /\ d \in inserted'[i] => inserted'[i] = inserted[i]
                          /\ d \in inserted[i] => d \in inserted'[i],
           receipts'[Id(d)] = receipts[Id(d)], orderOpen'[Id(d)] = orderOpen[Id(d)],
           engine'[Id(d)] = engine[Id(d)]
    PROVE  Local(d)'
<1>0. Id(d) \in Ids
    BY IdType
<1>1. Holder(d)'
    BY DEF Local, Holder, Valid, Id, ValidRequest, ValidIds
<1>2. Inserter(d)'
    BY DEF Local, Holder, Inserter, Id
<1>3. Carrier(d)'
    BY <1>0 DEF Local, Carrier, CarriesOwn, CarriesReceipt, Id, Valid
<1>4. Refusal(d)'
    BY <1>0 DEF Local, Refusal, Id, Valid
<1>5. Success2xx(d)'
    BY DEF Local, Success2xx, Id
<1> QED BY <1>1, <1>2, <1>3, <1>4, <1>5 DEF Local

\* A step of one request changes what is known of that request only.
LEMMA CallerStep ==
    ASSUME IntakeInv, NEW c \in Callers, NEW r \in Caller, call' = [call EXCEPT ![c] = r],
           shared' \in [Ids -> SUBSET Callers], inserted' \in [Ids -> SUBSET Callers],
           \A d \in Callers : d # c => \A i \in Ids :
              /\ d \in shared'[i] <=> d \in shared[i]
              /\ d \in inserted'[i] => inserted'[i] = inserted[i]
              /\ d \in inserted[i] => d \in inserted'[i],
           UNCHANGED <<receipts, orderOpen, fee, engine, conflicts>>,
           queue' \in Seq(Item), QueueInv', Local(c)'
    PROVE  IntakeInv'
<1>1. IntakeType'
    BY DEF IntakeInv, IntakeType
<1>2. ASSUME NEW d \in Callers PROVE Local(d)'
    <2>1. CASE d = c
        BY <2>1
    <2>2. CASE d # c
        <3>1. Local(d) /\ call'[d] = call[d]
            BY <2>2 DEF IntakeInv, IntakeType
        <3> QED BY <2>2, <3>1, Undisturbed
    <2> QED BY <2>1, <2>2
<1>3. ReceiptInv' /\ EngineInv'
    BY DEF IntakeInv, ReceiptInv, EngineInv, Id, Valid
<1> QED BY <1>1, <1>2, <1>3 DEF IntakeInv

\* The locks of the other requests survive the end of a transaction.
LEMMA ReleasedLocks ==
    ASSUME IntakeInv, NEW c \in Callers,
           shared' = Released(shared, c), inserted' = Released(inserted, c)
    PROVE  /\ shared' \in [Ids -> SUBSET Callers] /\ inserted' \in [Ids -> SUBSET Callers]
           /\ \A i \in Ids : c \notin shared'[i] /\ c \notin inserted'[i]
           /\ \A d \in Callers : d # c => \A i \in Ids :
                 /\ d \in shared'[i] <=> d \in shared[i]
                 /\ d \in inserted'[i] => inserted'[i] = inserted[i]
                 /\ d \in inserted[i] => d \in inserted'[i]
<1>1. /\ shared \in [Ids -> SUBSET Callers] /\ inserted \in [Ids -> SUBSET Callers]
      /\ \A d \in Callers : Inserter(d)
    BY DEF IntakeInv, IntakeType, Local
<1>2. \A i \in Ids : shared'[i] = shared[i] \ {c} /\ inserted'[i] = inserted[i] \ {c}
    BY DEF Released
<1>3. shared' \in [Ids -> SUBSET Callers] /\ inserted' \in [Ids -> SUBSET Callers]
    BY <1>1 DEF Released
<1>4. ASSUME NEW d \in Callers, d # c, NEW i \in Ids
      PROVE  /\ d \in shared'[i] <=> d \in shared[i]
             /\ d \in inserted'[i] => inserted'[i] = inserted[i]
             /\ d \in inserted[i] => d \in inserted'[i]
    <2>1. d \in inserted[i] => inserted[i] = {d}
        BY <1>1 DEF Inserter
    <2> QED BY <1>2, <1>4, <2>1
<1> QED BY <1>2, <1>3, <1>4

\* A call that ends without a transaction: refused, timed out or retried
\* calls hold no lock.
LEMMA NoLocks ==
    ASSUME IntakeInv, NEW c \in Callers, call[c].pc \notin {"insert", "reread", "commit"}
    PROVE  \A i \in Ids : c \notin shared[i] /\ c \notin inserted[i]
BY DEF IntakeInv, Local, Holder, Inserter

\* What is known of a request whose call has ended and that holds nothing.
LEMMA EndedLocal ==
    ASSUME NEW c \in Callers, call'[c].pc = "done",
           \A i \in Ids : c \notin shared'[i] /\ c \notin inserted'[i],
           call'[c].code = 400 /\ Original[Id(c)] = Request[c] =>
              receipts'[Id(c)] = NoRow /\ (orderOpen'[Id(c)] => ~Valid(c)),
           Success2xx(c)'
    PROVE  Local(c)'
<1>1. Holder(c)' /\ Inserter(c)'
    BY DEF Holder, Inserter
<1>2. Carrier(c)'
    BY DEF Carrier
<1>3. Refusal(c)'
    BY DEF Refusal, Id, Valid
<1> QED BY <1>1, <1>2, <1>3 DEF Local

\* What a call that ends with a code keeps of its record.
Ended(k, code) == [k EXCEPT !.pc = "done", !.code = code]

\* The state of an answered request.
LEMMA EndedCaller ==
    ASSUME NEW k \in Caller, NEW code \in Code
    PROVE  /\ Ended(k, code) \in Caller /\ Ended(k, code).row = k.row
           /\ Ended(k, code).pc = "done" /\ Ended(k, code).code = code
<1>1. "done" \in Stage
    BY DEF Stage
<1>2. PICK done : done = [k EXCEPT !.pc = "done"]
    OBVIOUS
<1>3. done \in Caller /\ done.row = k.row /\ done.pc = "done"
    BY <1>1, <1>2 DEF Caller
<1>4. PICK ended : ended = [done EXCEPT !.code = code]
    OBVIOUS
<1>5. /\ ended \in Caller /\ ended.row = done.row
      /\ ended.pc = done.pc /\ ended.code = code
    BY <1>3, <1>4 DEF Caller
<1>6. ended = Ended(k, code)
    BY <1>2, <1>4 DEF Ended
<1> QED BY <1>3, <1>5, <1>6

EndCall(f, c, code) == [f EXCEPT ![c].pc = "done", ![c].code = code]

\* One request is answered.
LEMMA EndedCall ==
    ASSUME NEW f \in [Callers -> Caller], NEW c \in Callers, NEW code
    PROVE  EndCall(f, c, code) = [f EXCEPT ![c] = Ended(f[c], code)]
<1>1. PICK g : g = [f EXCEPT ![c].pc = "done"]
    OBVIOUS
<1>2. g[c] = [f[c] EXCEPT !.pc = "done"]
    BY <1>1
<1>3. Ended(f[c], code) = [g[c] EXCEPT !.code = code]
    BY <1>2 DEF Ended
<1>4. EndCall(f, c, code) = [g EXCEPT ![c].code = code]
    BY <1>1 DEF EndCall
<1> QED BY <1>1, <1>3, <1>4

\* A transaction that ends with an answer.
LEMMA AnswerStep ==
    ASSUME IntakeInv, NEW c \in Callers, NEW code \in Code \ {200, 202}, Answer(c, code),
           UNCHANGED <<receipts, orderOpen, fee, engineVars>>,
           code = 400 /\ Original[Id(c)] = Request[c] =>
              receipts[Id(c)] = NoRow /\ (orderOpen[Id(c)] => ~Valid(c))
    PROVE  IntakeInv'
<1> DEFINE r == Ended(call[c], code)
<1>1. call \in [Callers -> Caller] /\ call[c] \in Caller
    BY DEF IntakeInv, IntakeType
<1>2. r \in Caller /\ r.pc = "done" /\ r.code = code
    BY <1>1, EndedCaller
<1>3. call' = [call EXCEPT ![c] = r]
    <2>1. call' = EndCall(call, c, code)
        BY DEF Answer, EndCall
    <2> QED BY <1>1, <2>1, EndedCall
<1>4. call'[c] = r
    BY <1>1, <1>3
<1>5. shared' = Released(shared, c) /\ inserted' = Released(inserted, c)
    BY DEF Answer
<1> HIDE DEF r
<1>6. Local(c)'
    <2>1. Success2xx(c)'
        BY <1>2, <1>4 DEF Success2xx
    <2> QED BY <1>2, <1>4, <1>5, <2>1, ReleasedLocks, EndedLocal
<1>7. queue' \in Seq(Item) /\ QueueInv'
    BY DEF IntakeInv, IntakeType, QueueInv, engineVars, Id
<1> QED BY <1>2, <1>3, <1>5, <1>6, <1>7, ReleasedLocks, CallerStep DEF engineVars

\* A request that moves on without taking or freeing anything.
LEMMA MoveStep ==
    ASSUME IntakeInv, NEW c \in Callers, NEW r \in Caller, call' = [call EXCEPT ![c] = r],
           UNCHANGED <<receipts, inserted, shared, orderOpen, fee, engineVars>>, Local(c)'
    PROVE  IntakeInv'
<1>1. shared' \in [Ids -> SUBSET Callers] /\ inserted' \in [Ids -> SUBSET Callers]
    BY DEF IntakeInv, IntakeType
<1>2. queue' \in Seq(Item) /\ QueueInv'
    BY DEF IntakeInv, IntakeType, QueueInv, engineVars, Id
<1> QED BY <1>1, <1>2, CallerStep DEF engineVars

\* A receipt that was read belongs to the request, or the request conflicts.
LEMMA FoundStep ==
    ASSUME IntakeInv, NEW c \in Callers, call[c].pc \in {"select", "recheck", "reread"},
           receipts[Id(c)] \in Row, Found(c, receipts[Id(c)]),
           UNCHANGED <<receipts, orderOpen, fee, engineVars>>
    PROVE  IntakeInv'
<1>1. CASE Matches(receipts[Id(c)], Request[c])
    <2> DEFINE r == [call[c] EXCEPT !.pc = "commit", !.row = receipts[Id(c)]]
    <2>1. call \in [Callers -> Caller] /\ call[c] \in Caller /\ "commit" \in Stage
        BY DEF IntakeInv, IntakeType, Stage
    <2>2. r \in Caller /\ r.pc = "commit" /\ r.row = receipts[Id(c)] /\ r.code = call[c].code
        BY <2>1 DEF Caller
    <2>3. call' = [call EXCEPT ![c] = r] /\ UNCHANGED <<shared, inserted>>
        BY <1>1, <2>1 DEF Found
    <2>4. call'[c] = r
        BY <2>1, <2>3
    <2> HIDE DEF r
    <2>5. Local(c)
        BY DEF IntakeInv
    <2>6. Holder(c)'
        BY <2>2, <2>3, <2>4, <2>5 DEF Local, Holder, Id, Valid
    <2>7. Inserter(c)'
        BY <2>3, <2>5 DEF Local, Inserter
    <2>8. Carrier(c)'
        BY <1>1, <2>2, <2>4, <2>5
            DEF Local, Carrier, CarriesOwn, CarriesReceipt, Matches, Id, Valid
    <2>9. Refusal(c)' /\ Success2xx(c)'
        BY <2>2, <2>4, <2>5 DEF Local, Refusal, Success2xx, engineVars, Id
    <2>10. Local(c)'
        BY <2>6, <2>7, <2>8, <2>9 DEF Local
    <2> QED BY <2>2, <2>3, <2>10, MoveStep
<1>2. CASE ~Matches(receipts[Id(c)], Request[c])
    <2>1. Answer(c, 409) /\ 409 \in Code \ {200, 202}
        BY <1>2 DEF Found, Code
    <2> QED BY <2>1, AnswerStep
<1> QED BY <1>1, <1>2

\* The facts about a request that its next action starts from.
LEMMA CallerFacts ==
    ASSUME IntakeInv, NEW c \in Callers
    PROVE  /\ call \in [Callers -> Caller] /\ call[c] \in Caller /\ Local(c)
           /\ Id(c) \in Ids /\ receipts[Id(c)] \in Row \cup {NoRow}
           /\ engine[Id(c)] \in Row \cup {NoRow} /\ Request[c] \in Command
BY IdType, IntakeRequests DEF IntakeInv, IntakeType

\* create_order up to the begin of the transaction.
LEMMA BeginStep == ASSUME IntakeInv, NEW c \in Callers, Begin(c) PROVE IntakeInv'
<1> DEFINE ok == ValidRequest(Request[c]) /\ ValidIds(Request[c])
           r  == [pc |-> IF ok THEN "select" ELSE "done", row |-> NoRow, created |-> FALSE,
                  tries |-> call[c].tries + 1, code |-> IF ok THEN 0 ELSE 400]
<1>0. /\ call \in [Callers -> Caller] /\ call[c] \in Caller /\ Local(c)
      /\ receipts[Id(c)] \in Row \cup {NoRow}
    BY CallerFacts
<1>1. r \in Caller
    <2>1. FALSE \in Flag
        BY DEF Flag
    <2>2. {"select", "done"} \subseteq Stage /\ {0, 400} \subseteq Code
        BY DEF Stage, Code
    <2>3. call[c].tries + 1 \in Nat
        BY <1>0 DEF Caller
    <2> HIDE DEF ok
    <2> QED BY <2>1, <2>2, <2>3 DEF Caller
<1>2. call' = [call EXCEPT ![c] = r] /\ UNCHANGED <<dbVars, engineVars>>
    BY <1>0 DEF Begin
<1>3. call'[c] = r
    BY <1>0, <1>2
<1>4. \A i \in Ids : c \notin shared[i] /\ c \notin inserted[i]
    BY NoLocks DEF Begin
<1>5. Holder(c)' /\ Inserter(c)'
    BY <1>2, <1>4 DEF Holder, Inserter, dbVars
<1>6. Success2xx(c)'
    BY <1>3 DEF Success2xx
<1>7. Carrier(c)'
    BY <1>3 DEF Carrier, Valid
<1>8. Refusal(c)'
    <2>1. CASE ok
        BY <1>3, <2>1 DEF Refusal
    <2>2. CASE ~ok
        <3>1. ~Valid(c)
            BY <2>2 DEF Valid
        <3>2. Original[Id(c)] = Request[c] => receipts[Id(c)] = NoRow
            BY <1>0, <3>1 DEF IntakeInv, ReceiptInv
        <3>3. receipts' = receipts /\ call'[c].pc = "done"
            BY <1>2, <1>3, <2>2 DEF dbVars
        <3> QED BY <3>1, <3>2, <3>3 DEF Refusal, Id, Valid
    <2> QED BY <2>1, <2>2
<1>9. Local(c)'
    BY <1>5, <1>6, <1>7, <1>8 DEF Local
<1> HIDE DEF r
<1> QED BY <1>1, <1>2, <1>9, MoveStep DEF dbVars

\* A request without locks that goes to its next statement.
LEMMA ToStep ==
    ASSUME IntakeInv, NEW c \in Callers, NEW pc \in {"lock", "recheck"}, To(c, pc),
           call[c].pc \in {"select", "lock"},
           UNCHANGED <<receipts, inserted, shared, orderOpen, fee, engineVars>>,
           pc = "recheck" /\ Original[Id(c)] = Request[c] => ~orderOpen[Id(c)]
    PROVE  IntakeInv'
<1> DEFINE r == [call[c] EXCEPT !.pc = pc]
<1>0. call \in [Callers -> Caller] /\ call[c] \in Caller /\ Local(c) /\ pc \in Stage
    BY CallerFacts DEF Stage
<1>1. r \in Caller /\ r.pc = pc /\ r.code = call[c].code
    BY <1>0 DEF Caller
<1>2. call' = [call EXCEPT ![c] = r]
    BY <1>0 DEF To
<1>3. call'[c] = r
    BY <1>0, <1>2
<1> HIDE DEF r
<1>4. Holder(c)' /\ Inserter(c)'
    BY NoLocks DEF Holder, Inserter
<1>5. Carrier(c)'
    BY <1>0, <1>1, <1>3 DEF Local, Carrier, Valid
<1>6. Refusal(c)' /\ Success2xx(c)'
    BY <1>0, <1>1, <1>3 DEF Local, Refusal, Success2xx, engineVars, Id
<1>7. Local(c)'
    BY <1>4, <1>5, <1>6 DEF Local
<1> QED BY <1>1, <1>2, <1>7, MoveStep

\* The first lookup of the receipt.
LEMMA SelectStep == ASSUME IntakeInv, NEW c \in Callers, Select(c) PROVE IntakeInv'
<1>0. receipts[Id(c)] \in Row \cup {NoRow}
    BY CallerFacts
<1>1. CASE receipts[Id(c)] # NoRow
    BY <1>0, <1>1, FoundStep DEF Select
<1>2. CASE receipts[Id(c)] = NoRow
    BY <1>2, ToStep DEF Select
<1> QED BY <1>1, <1>2

\* The second lookup: without a receipt the order is closed for good.
LEMMA RecheckStep == ASSUME IntakeInv, NEW c \in Callers, Recheck(c) PROVE IntakeInv'
<1>0. receipts[Id(c)] \in Row \cup {NoRow} /\ Local(c) /\ call[c].pc = "recheck"
    BY CallerFacts DEF Recheck
<1>1. CASE receipts[Id(c)] # NoRow
    BY <1>0, <1>1, FoundStep DEF Recheck
<1>2. CASE receipts[Id(c)] = NoRow
    <2>1. Answer(c, 400) /\ 400 \in Code \ {200, 202}
        BY <1>2 DEF Recheck, Code
    <2>2. Original[Id(c)] = Request[c] => ~orderOpen[Id(c)]
        BY <1>0 DEF Local, Refusal
    <2> QED BY <1>2, <2>1, <2>2, AnswerStep DEF Recheck
<1> QED BY <1>1, <1>2

\* The loser's lookup of the winner's row.
LEMMA RereadStep == ASSUME IntakeInv, NEW c \in Callers, Reread(c) PROVE IntakeInv'
<1>0. Local(c) /\ call[c].pc = "reread"
    BY CallerFacts DEF Reread
<1>1. receipts[Id(c)] \in Row
    BY <1>0 DEF Local, Carrier
<1> QED BY <1>0, <1>1, FoundStep DEF Reread

\* FOR SHARE of the original, and the comparison with the request.
LEMMA LockStep == ASSUME IntakeInv, NEW c \in Callers, LockOriginal(c) PROVE IntakeInv'
<1>0. /\ call \in [Callers -> Caller] /\ call[c] \in Caller /\ Local(c) /\ call[c].pc = "lock"
      /\ Id(c) \in Ids /\ Request[c] \in Command
    BY CallerFacts DEF LockOriginal
<1>1. CASE ~Readable(c)
    <2>1. Original[Id(c)] = Request[c] => ~orderOpen[Id(c)]
        BY <1>0, <1>1, CommandIsNotNoRow DEF Readable
    <2> QED BY <1>0, <1>1, <2>1, ToStep DEF LockOriginal
<1>2. CASE Readable(c) /\ Original[Id(c)] # Request[c]
    <2>1. Answer(c, 409) /\ 409 \in Code \ {200, 202}
        BY <1>2 DEF LockOriginal, Code
    <2> QED BY <2>1, AnswerStep DEF LockOriginal
<1>2a. CASE Readable(c) /\ Original[Id(c)] = Request[c] /\ fee[Id(c)] \in InvalidFees
    <2>1. Answer(c, 503) /\ 503 \in Code \ {200, 202}
        BY <1>2a DEF LockOriginal, Code
    <2> QED BY <2>1, AnswerStep DEF LockOriginal
<1>3. CASE Readable(c) /\ Original[Id(c)] = Request[c] /\ fee[Id(c)] \notin InvalidFees
    <2> DEFINE row == [cmd |-> Original[Id(c)], fee |-> fee[Id(c)]]
               r == [call[c] EXCEPT !.pc = "insert", !.row = row]
    <2>1. row \in Row /\ row.cmd = Request[c] /\ "insert" \in Stage
        BY <1>0, <1>3 DEF Row, Stage, IntakeInv, IntakeType
    <2>2. /\ call' = [call EXCEPT ![c] = r]
          /\ shared' = [shared EXCEPT ![Id(c)] = @ \cup {c}]
          /\ UNCHANGED <<receipts, inserted, orderOpen, fee, engineVars>>
        BY <1>0, <1>3 DEF LockOriginal
    <2> HIDE DEF row
    <2>3. r \in Caller /\ r.pc = "insert" /\ r.row = row /\ r.code = call[c].code
        BY <1>0, <2>1 DEF Caller
    <2>4. call'[c] = r
        BY <1>0, <2>2
    <2> HIDE DEF r
    <2>5. shared \in [Ids -> SUBSET Callers] /\ inserted' \in [Ids -> SUBSET Callers]
        BY <2>2 DEF IntakeInv, IntakeType
    <2>6. shared' \in [Ids -> SUBSET Callers] /\ c \in shared'[Id(c)]
        BY <1>0, <2>2, <2>5
    <2>7. \A d \in Callers, i \in Ids : d # c \/ i # Id(c) => (d \in shared'[i] <=> d \in shared[i])
        BY <1>0, <2>2, <2>5
    <2>8. \A i \in Ids : c \notin shared[i] /\ c \notin inserted[i]
        BY <1>0, NoLocks
    <2>9. Holder(c)'
        <3>1. Valid(c) /\ orderOpen[Id(c)]
            BY <1>0, <1>3 DEF Local, Carrier, Readable
        <3> QED BY <1>3, <2>2, <2>3, <2>4, <2>7, <2>8, <3>1 DEF Holder, Id, Valid
    <2>10. Inserter(c)'
        BY <2>2, <2>8 DEF Inserter
    <2>11. Carrier(c)'
        BY <1>0, <2>1, <2>3, <2>4, <2>6 DEF Local, Carrier, CarriesOwn, Id, Valid
    <2>12. Refusal(c)' /\ Success2xx(c)'
        BY <1>0, <2>2, <2>3, <2>4 DEF Local, Refusal, Success2xx, engineVars, Id
    <2>13. Local(c)'
        BY <2>9, <2>10, <2>11, <2>12 DEF Local
    <2>14. queue' \in Seq(Item) /\ QueueInv'
        BY <2>2 DEF IntakeInv, IntakeType, QueueInv, engineVars, Id
    <2> QED BY <2>2, <2>3, <2>5, <2>6, <2>7, <2>13, <2>14, CallerStep DEF engineVars
<1> QED BY <1>1, <1>2, <1>2a, <1>3

\* INSERT ... ON CONFLICT DO NOTHING: one uncommitted row per order.
LEMMA InsertStep == ASSUME IntakeInv, NEW c \in Callers, Insert(c) PROVE IntakeInv'
<1>0. /\ call \in [Callers -> Caller] /\ call[c] \in Caller /\ Local(c)
      /\ call[c].pc = "insert" /\ inserted[Id(c)] = {}
      /\ Id(c) \in Ids /\ receipts[Id(c)] \in Row \cup {NoRow}
      /\ shared \in [Ids -> SUBSET Callers] /\ inserted \in [Ids -> SUBSET Callers]
    BY CallerFacts DEF Insert, IntakeInv, IntakeType
<1>a. UNCHANGED <<receipts, shared, orderOpen, fee, engineVars>>
    BY DEF Insert
<1>b. queue' \in Seq(Item) /\ QueueInv'
    BY <1>a DEF IntakeInv, IntakeType, QueueInv, engineVars, Id
<1>1. CASE receipts[Id(c)] = NoRow
    <2> DEFINE r == [call[c] EXCEPT !.pc = "commit", !.created = TRUE]
    <2>1. TRUE \in Flag /\ "commit" \in Stage
        BY DEF Flag, Stage
    <2>2. r \in Caller /\ r.pc = "commit" /\ r.row = call[c].row /\ r.code = call[c].code
        BY <1>0, <2>1 DEF Caller
    <2>3. call' = [call EXCEPT ![c] = r] /\ inserted' = [inserted EXCEPT ![Id(c)] = {c}]
        BY <1>0, <1>1 DEF Insert
    <2>4. call'[c] = r
        BY <1>0, <2>3
    <2> HIDE DEF r
    <2>5. inserted' \in [Ids -> SUBSET Callers] /\ inserted'[Id(c)] = {c}
        BY <1>0, <2>3
    <2>6. \A i \in Ids : i # Id(c) => inserted'[i] = inserted[i]
        BY <1>0, <2>3
    <2>7. Holder(c)'
        BY <1>0, <1>a, <2>2, <2>4 DEF Local, Holder, Id, Valid
    <2>8. Inserter(c)'
        <3>1. \A i \in Ids : c \notin inserted[i] 
            BY <1>0 DEF Local, Inserter
        <3>2. c \in shared[Id(c)]
            BY <1>0 DEF Local, Carrier
        <3> QED BY <1>1, <1>a, <2>2, <2>4, <2>5, <2>6, <3>1, <3>2 DEF Inserter, Id
    <2>9. Carrier(c)'
        BY <1>0, <2>2, <2>4, <2>5 DEF Local, Carrier, CarriesOwn, Id, Valid
    <2>10. Refusal(c)' /\ Success2xx(c)'
        BY <1>0, <1>a, <2>2, <2>4 DEF Local, Refusal, Success2xx, engineVars, Id
    <2>11. Local(c)'
        BY <2>7, <2>8, <2>9, <2>10 DEF Local
    <2>12. \A d \in Callers : d # c => \A i \in Ids :
              /\ d \in shared'[i] <=> d \in shared[i]
              /\ d \in inserted'[i] => inserted'[i] = inserted[i]
              /\ d \in inserted[i] => d \in inserted'[i]
        BY <1>0, <1>a, <2>5, <2>6
    <2>13. shared' \in [Ids -> SUBSET Callers]
        BY <1>0, <1>a
    <2> QED BY <1>a, <1>b, <2>2, <2>3, <2>5, <2>11, <2>12, <2>13, CallerStep DEF engineVars
<1>2. CASE receipts[Id(c)] # NoRow
    <2> DEFINE r == [call[c] EXCEPT !.pc = "reread"]
    <2>1. "reread" \in Stage
        BY DEF Stage
    <2>2. r \in Caller /\ r.pc = "reread" /\ r.row = call[c].row /\ r.code = call[c].code
        BY <1>0, <2>1 DEF Caller
    <2>3. call' = [call EXCEPT ![c] = r] /\ UNCHANGED inserted
        BY <1>0, <1>2 DEF Insert, To
    <2>4. call'[c] = r
        BY <1>0, <2>3
    <2> HIDE DEF r
    <2>5. Holder(c)'
        BY <1>0, <1>a, <2>2, <2>4 DEF Local, Holder, Id, Valid
    <2>6. Inserter(c)'
        BY <1>0, <2>3 DEF Local, Inserter
    <2>7. Carrier(c)'
        BY <1>0, <1>2, <1>a, <2>2, <2>4 DEF Local, Carrier, CarriesOwn, Id, Valid
    <2>8. Refusal(c)' /\ Success2xx(c)'
        BY <1>0, <1>a, <2>2, <2>4 DEF Local, Refusal, Success2xx, engineVars, Id
    <2>9. Local(c)'
        BY <2>5, <2>6, <2>7, <2>8 DEF Local
    <2> QED BY <1>a, <2>2, <2>3, <2>9, MoveStep
<1> QED BY <1>1, <1>2

\* The row of the only inserter becomes the receipt: no other request has read
\* a receipt before, none has been told that there will not be one, and the
\* engine has nothing of this order.
LEMMA StoreStep ==
    ASSUME IntakeInv, NEW c \in Callers, c \in inserted[Id(c)], NEW r \in Caller,
           call' = [call EXCEPT ![c] = r], receipts' = [receipts EXCEPT ![Id(c)] = call[c].row],
           shared' = Released(shared, c), inserted' = Released(inserted, c),
           UNCHANGED <<orderOpen, fee, engineVars>>, Local(c)'
    PROVE  IntakeInv'
<1> DEFINE id == Id(c)
           row == call[c].row
<1>0. /\ call \in [Callers -> Caller] /\ id \in Ids /\ Local(c)
      /\ receipts \in [Ids -> Row \cup {NoRow}] /\ engine \in [Ids -> Row \cup {NoRow}]
    BY CallerFacts DEF IntakeInv, IntakeType
<1>1. /\ c \in shared[id] /\ receipts[id] = NoRow /\ call[c].pc = "commit"
      /\ row \in Row /\ row.cmd = Request[c]
      /\ orderOpen[id] /\ Original[id] = Request[c] /\ Valid(c)
    <2>1. c \in shared[id] /\ receipts[id] = NoRow /\ call[c].pc = "commit"
        BY <1>0 DEF Local, Inserter
    <2>2. row \in Row /\ row.cmd = Request[c]
        BY <1>0, <2>1 DEF Local, Carrier, CarriesOwn
    <2> QED BY <1>0, <2>1, <2>2 DEF Local, Holder
<1> HIDE DEF row
<1>2. /\ receipts'[id] = row /\ receipts' \in [Ids -> Row \cup {NoRow}]
      /\ \A i \in Ids : i # id => receipts'[i] = receipts[i]
    BY <1>0, <1>1 DEF row
<1>3. engine[id] = NoRow
    BY <1>0, <1>1 DEF IntakeInv, EngineInv
<1>4. IntakeType'
    BY <1>2, ReleasedLocks DEF IntakeInv, IntakeType, engineVars
<1>5. ASSUME NEW d \in Callers PROVE Local(d)'
    <2>1. CASE d = c
        BY <2>1
    <2>2. CASE d # c
        <3>0. Local(d) /\ call'[d] = call[d] /\ Id(d) \in Ids
            BY <2>2, IdType DEF IntakeInv, IntakeType
        <3>1. CASE Id(d) # id
            <4>1. receipts'[Id(d)] = receipts[Id(d)]
                BY <1>2, <3>0, <3>1
            <4> QED BY <2>2, <3>0, <4>1, ReleasedLocks, Undisturbed DEF engineVars
        <3>2. CASE Id(d) = id
            <4>1. \A i \in Ids : d \notin inserted[i]
                <5>1. ASSUME NEW i \in Ids, d \in inserted[i] PROVE FALSE
                    <6>1. i = id /\ inserted[i] = {d}
                        BY <3>0, <3>2, <5>1 DEF Local, Holder, Inserter
                    <6> QED BY <2>2, <6>1
                <5> QED BY <5>1
            <4>2. \A i \in Ids : d \notin inserted'[i] /\ (d \in shared'[i] <=> d \in shared[i])
                BY <2>2, <4>1, ReleasedLocks
            <4>3. Holder(d)' /\ Inserter(d)'
                BY <3>0, <4>2 DEF Local, Holder, Inserter, Id, Valid
            <4>4. ~CarriesReceipt(d)
                BY <1>1, <3>2, RowIsNotNoRow DEF CarriesReceipt, CarriesOwn
            <4>5. Carrier(d)'
                BY <1>1, <1>2, <3>0, <3>2, <4>1, <4>2, <4>4
                    DEF Local, Carrier, CarriesOwn, Id, Valid
            <4>6. Refusal(d)'
                <5>1. Original[Id(d)] = Request[d] => Valid(d)
                    BY <1>1, <3>2 DEF Valid
                <5> QED BY <1>1, <3>0, <3>2, <5>1 DEF Local, Refusal, Id, Valid
            <4>7. Success2xx(d)'
                BY <3>0 DEF Local, Success2xx, engineVars, Id
            <4> QED BY <4>3, <4>5, <4>6, <4>7 DEF Local
        <3> QED BY <3>1, <3>2
    <2> QED BY <2>1, <2>2
<1>6. ReceiptInv'
    <2> SUFFICES ASSUME NEW d \in Callers, receipts'[Id(d)] \in Row, Original[Id(d)] = Request[d]
                 PROVE  Valid(d)
        BY DEF ReceiptInv, Id, Valid
    <2>1. CASE Id(d) = id
        BY <1>1, <2>1 DEF Valid
    <2>2. CASE Id(d) # id
        BY <1>2, <2>2, IdType DEF IntakeInv, ReceiptInv
    <2> QED BY <2>1, <2>2
<1>7. QueueInv'
    <2> SUFFICES ASSUME NEW k \in 1..Len(queue)
                 PROVE  /\ queue[k].entry = receipts'[Id(queue[k].caller)]
                        /\ queue[k].entry.cmd = Request[queue[k].caller]
        BY DEF QueueInv, engineVars, Id
    <2>1. queue[k] \in Item
        BY DEF IntakeInv, IntakeType
    <2>2. queue[k].caller \in Callers /\ queue[k].entry \in Row
        BY <2>1 DEF Item
    <2>3. /\ queue[k].entry = receipts[Id(queue[k].caller)]
          /\ queue[k].entry.cmd = Request[queue[k].caller]
        BY DEF IntakeInv, QueueInv
    <2>4. Id(queue[k].caller) # id
        BY <1>1, <2>2, <2>3, RowIsNotNoRow
    <2> QED BY <1>2, <2>2, <2>3, <2>4, IdType
<1>8. EngineInv'
    BY <1>2, <1>3 DEF IntakeInv, EngineInv, engineVars
<1> QED BY <1>4, <1>5, <1>6, <1>7, <1>8 DEF IntakeInv

\* The end of the transaction, with a receipt or, after an error, perhaps.
LEMMA CommitStep ==
    ASSUME IntakeInv, NEW c \in Callers, Commit(c) \/ CommitFails(c)
    PROVE  IntakeInv'
<1> DEFINE r == IF Commit(c) THEN [call[c] EXCEPT !.pc = "submit"]
                ELSE Ended(call[c], 503)
<1>0. /\ call \in [Callers -> Caller] /\ call[c] \in Caller /\ Local(c) /\ Id(c) \in Ids
      /\ call[c].pc = "commit" /\ receipts \in [Ids -> Row \cup {NoRow}]
      /\ {"submit", "done"} \subseteq Stage /\ 503 \in Code
    BY CallerFacts DEF Commit, CommitFails, Stage, Code, IntakeInv, IntakeType
<1>1. /\ shared' = Released(shared, c) /\ inserted' = Released(inserted, c)
      /\ UNCHANGED <<orderOpen, fee, engineVars>>
      /\ receipts' \in {receipts, Stored(c)} /\ (Commit(c) => receipts' = Stored(c))
    BY DEF Commit, CommitFails, Answer
<1>2. call' = [call EXCEPT ![c] = r]
    <2>1. CASE Commit(c)
        BY <1>0, <2>1 DEF Commit, To
    <2>2. CASE ~Commit(c)
        <3>1. call' = EndCall(call, c, 503)
            BY <2>2 DEF CommitFails, Answer, EndCall
        <3> QED BY <1>0, <2>2, <3>1, EndedCall
    <2> QED BY <2>1, <2>2
<1>3. /\ r \in Caller /\ r.row = call[c].row
      /\ IF Commit(c) THEN r.pc = "submit" /\ r.code = call[c].code
         ELSE r.pc = "done" /\ r.code = 503
    <2>1. CASE Commit(c)
        BY <1>0, <2>1 DEF Caller
    <2>2. CASE ~Commit(c)
        BY <1>0, <2>2, EndedCaller
    <2> QED BY <2>1, <2>2
<1>4. call'[c] = r
    BY <1>0, <1>2
<1> HIDE DEF r
<1>5. Local(c)'
    <2>0. \A i \in Ids : c \notin shared'[i] /\ c \notin inserted'[i]
        BY <1>1, ReleasedLocks
    <2>1. Success2xx(c)'
        <3>1. engine' = engine /\ Success2xx(c)
            BY <1>0, <1>1 DEF engineVars, Local
        <3>2. r.code = call[c].code \/ r.code = 503
            BY <1>3
        <3> QED BY <1>4, <3>1, <3>2 DEF Success2xx, Id
    <2>2. CASE Commit(c)
        <3>1. Holder(c)' /\ Inserter(c)'
            BY <2>0 DEF Holder, Inserter
        <3>2. call[c].row \in Row /\ call[c].row.cmd = Request[c] /\ Valid(c)
            BY <1>0 DEF Local, Carrier, CarriesOwn
        <3>3. receipts'[Id(c)] = call[c].row
            <4>1. CASE c \in inserted[Id(c)]
                BY <1>0, <1>1, <2>2, <4>1 DEF Stored
            <4>2. CASE c \notin inserted[Id(c)]
                BY <1>0, <1>1, <2>2, <4>2 DEF Stored, Local, Carrier, CarriesReceipt
            <4> QED BY <4>1, <4>2
        <3>4. Carrier(c)'
            BY <1>3, <1>4, <2>2, <3>2, <3>3
                DEF Carrier, CarriesReceipt, CarriesOwn, Id, Valid
        <3>5. Refusal(c)'
            BY <1>3, <1>4, <2>2 DEF Refusal
        <3> QED BY <2>1, <3>1, <3>4, <3>5 DEF Local
    <2>3. CASE ~Commit(c)
        BY <1>3, <1>4, <2>0, <2>1, <2>3, EndedLocal
    <2> QED BY <2>2, <2>3
<1>6. CASE receipts' = receipts
    <2>1. queue' \in Seq(Item) /\ QueueInv'
        BY <1>1, <1>6 DEF IntakeInv, IntakeType, QueueInv, engineVars, Id
    <2> QED BY <1>1, <1>2, <1>3, <1>5, <1>6, <2>1, ReleasedLocks, CallerStep DEF engineVars
<1>7. CASE c \in inserted[Id(c)] /\ receipts' = [receipts EXCEPT ![Id(c)] = call[c].row]
    BY <1>1, <1>2, <1>3, <1>5, <1>7, StoreStep
<1> QED BY <1>1, <1>6, <1>7 DEF Stored

\* A call that ends in the submission with 503: refused or timed out.
Unavailable(c) == call' = [call EXCEPT ![c].pc = "done", ![c].code = 503]

\* A request that ends with 503 keeps IntakeInv.
LEMMA UnavailableStep ==
    ASSUME IntakeInv, NEW c \in Callers, call[c].pc \in {"submit", "wait"},
           Unavailable(c), UNCHANGED <<dbVars, engineVars>>
    PROVE  IntakeInv'
<1> DEFINE r == Ended(call[c], 503)
<1>0. call \in [Callers -> Caller] /\ call[c] \in Caller /\ Local(c) /\ 503 \in Code
    BY CallerFacts DEF Code
<1>1. r \in Caller /\ r.pc = "done" /\ r.code = 503
    BY <1>0, EndedCaller
<1>2. call' = [call EXCEPT ![c] = r]
    <2>1. call' = EndCall(call, c, 503)
        BY DEF Unavailable, EndCall
    <2> QED BY <1>0, <2>1, EndedCall
<1>3. call'[c] = r
    BY <1>0, <1>2
<1> HIDE DEF r
<1>4. Local(c)'
    <2>1. Success2xx(c)'
        BY <1>1, <1>3 DEF Success2xx
    <2>2. \A i \in Ids : c \notin shared'[i] /\ c \notin inserted'[i]
        BY NoLocks DEF dbVars
    <2> QED BY <1>1, <1>3, <2>1, <2>2, EndedLocal
<1> QED BY <1>1, <1>2, <1>4, MoveStep DEF dbVars

\* submit_order: what enters the channel is the receipt.
LEMMA SubmitStep == ASSUME IntakeInv, NEW c \in Callers, Submit(c) PROVE IntakeInv'
<1>0. /\ call \in [Callers -> Caller] /\ call[c] \in Caller /\ Local(c) /\ call[c].pc = "submit"
      /\ "wait" \in Stage /\ queue \in Seq(Item)
    BY CallerFacts DEF Submit, Stage, IntakeInv, IntakeType
<1>1. CASE call' = [call EXCEPT ![c].pc = "done", ![c].code = 503] /\ UNCHANGED queue
    BY <1>0, <1>1, UnavailableStep DEF Submit, engineVars, Unavailable
<1>2. CASE /\ To(c, "wait")
           /\ queue' = Append(queue, [caller |-> c, try |-> call[c].tries, entry |-> Entry(c)])
    <2> DEFINE r == [call[c] EXCEPT !.pc = "wait"]
               item == [caller |-> c, try |-> call[c].tries, entry |-> Entry(c)]
    <2>1. r \in Caller /\ r.pc = "wait" /\ r.row = call[c].row /\ r.code = call[c].code
        BY <1>0 DEF Caller
    <2>2. call' = [call EXCEPT ![c] = r]
        BY <1>0, <1>2 DEF To
    <2>3. call'[c] = r
        BY <1>0, <2>2
    <2> HIDE DEF r
    <2>4. UNCHANGED <<receipts, inserted, shared, orderOpen, fee, engine, conflicts>>
        BY DEF Submit, dbVars
    <2>5. /\ call[c].row \in Row /\ call[c].row.cmd = Request[c]
          /\ call[c].row = receipts[Id(c)] /\ Valid(c)
        BY <1>0 DEF Local, Carrier, CarriesReceipt, CarriesOwn
    <2>6. Entry(c) = call[c].row
        BY <2>5 DEF Entry, Row
    <2>7. item \in Item /\ item.caller = c /\ item.entry = call[c].row
        BY <1>0, <2>5, <2>6 DEF Item, Caller
    <2>8. queue' = Append(queue, item)
        BY <1>2
    <2> HIDE DEF item
    <2>9. queue' \in Seq(Item)
        BY <1>0, <2>7, <2>8
    <2>10. QueueInv'
        <3> SUFFICES ASSUME NEW k \in 1..Len(queue')
                     PROVE  /\ queue'[k].entry = receipts[Id(queue'[k].caller)]
                            /\ queue'[k].entry.cmd = Request[queue'[k].caller]
            BY <2>4 DEF QueueInv, Id
        <3>1. CASE k \in 1..Len(queue)
            <4>1. queue'[k] = queue[k]
                BY <1>0, <2>7, <2>8, <3>1
            <4> QED BY <3>1, <4>1 DEF IntakeInv, QueueInv
        <3>2. CASE k = Len(queue) + 1
            <4>1. queue'[k] = item
                BY <1>0, <2>7, <2>8, <3>2
            <4> QED BY <2>5, <2>7, <4>1
        <3>3. Len(queue') = Len(queue) + 1 /\ Len(queue) \in Nat
            BY <1>0, <2>7, <2>8
        <3> QED BY <3>1, <3>2, <3>3
    <2>11. \A i \in Ids : c \notin shared[i] /\ c \notin inserted[i]
        BY <1>0, NoLocks
    <2>12. Local(c)'
        <3>1. Holder(c)' /\ Inserter(c)'
            BY <2>4, <2>11 DEF Holder, Inserter
        <3>2. Carrier(c)'
            BY <2>1, <2>3, <2>4, <2>5 DEF Carrier, CarriesReceipt, CarriesOwn, Id, Valid
        <3>3. Refusal(c)' /\ Success2xx(c)'
            BY <1>0, <2>1, <2>3, <2>4 DEF Local, Refusal, Success2xx, Id
        <3> QED BY <3>1, <3>2, <3>3 DEF Local
    <2>13. shared' \in [Ids -> SUBSET Callers] /\ inserted' \in [Ids -> SUBSET Callers]
        BY <2>4 DEF IntakeInv, IntakeType
    <2> QED BY <2>1, <2>2, <2>4, <2>9, <2>10, <2>12, <2>13, CallerStep
<1> QED BY <1>1, <1>2 DEF Submit

\* The engine meets a command with the content of the receipt: the order is
\* new, or it is the same again.
LEMMA ApplyStep ==
    ASSUME IntakeInv, EngineApply, NEW item \in Item, NEW c \in Callers,
           item = Head(queue), c = item.caller
    PROVE  IntakeInv'
<1> DEFINE id   == Id(c)
           r    == IF Waits(item)
                   THEN Ended(call[c], Success(c)) ELSE call[c]
<1>0. queue \in Seq(Item) /\ queue # <<>>
    BY DEF EngineApply, IntakeInv, IntakeType
<1>1. Tail(queue) \in Seq(Item) /\ item = queue[1] /\ 1 \in 1..Len(queue)
    BY <1>0
<1>2. item.entry \in Row
    BY DEF Item
<1>3. item.entry = receipts[id] /\ item.entry.cmd = Request[c]
    BY <1>1 DEF IntakeInv, QueueInv
<1>4. /\ call \in [Callers -> Caller] /\ call[c] \in Caller /\ Local(c) /\ id \in Ids
      /\ engine \in [Ids -> Row \cup {NoRow}] /\ engine[id] \in Row \cup {NoRow}
    BY <1>2, CallerFacts DEF IntakeInv, IntakeType
<1>5. engine[id] \in {NoRow, item.entry}
    BY <1>3, <1>4 DEF IntakeInv, EngineInv
<1>6. /\ engine' = [engine EXCEPT ![id] = item.entry] /\ conflicts' = conflicts
      /\ queue' = Tail(queue) /\ UNCHANGED dbVars
      /\ call' = IF Waits(item) THEN [call EXCEPT ![c].pc = "done", ![c].code = Success(c)]
                 ELSE call
    BY <1>5 DEF EngineApply
<1>7. /\ engine' \in [Ids -> Row \cup {NoRow}] /\ engine'[id] = item.entry
      /\ \A i \in Ids : i # id => engine'[i] = engine[i]
    BY <1>2, <1>4, <1>6
<1>8. r \in Caller /\ call' = [call EXCEPT ![c] = r]
    <2>1. CASE Waits(item)
        <3>1. PICK code \in Code : code = Success(c)
            BY DEF Code, Success
        <3>2. r = Ended(call[c], code)
            BY <2>1, <3>1
        <3>3. r \in Caller
            BY <1>4, <3>2, EndedCaller
        <3>4. call' = EndCall(call, c, code)
            BY <1>6, <2>1, <3>1 DEF EndCall
        <3>5. call' = [call EXCEPT ![c] = Ended(call[c], code)]
            <4>1. call \in [Callers -> Caller]
                BY <1>4
            <4>2. EndCall(call, c, code) = [call EXCEPT ![c] = Ended(call[c], code)]
                BY ONLY <4>1, EndedCall
            <4> QED BY ONLY <3>4, <4>2
        <3> QED BY <3>2, <3>3, <3>5
    <2>2. CASE ~Waits(item)
        BY <1>4, <1>6, <2>2
    <2> QED BY <2>1, <2>2
<1>9. call'[c] = r /\ \A d \in Callers : d # c => call'[d] = call[d]
    BY <1>2, <1>4, <1>8
<1>10. IntakeType'
    BY <1>1, <1>6, <1>7, <1>8, <1>4 DEF IntakeInv, IntakeType, dbVars
<1>11. Local(c)'
    <2>1. Success2xx(c)'
        BY <1>2, <1>3, <1>7 DEF Success2xx, Id
    <2>2. CASE Waits(item)
        <3>1. PICK code \in Code \cap {200, 202} : code = Success(c)
            BY DEF Code, Success
        <3>2. call'[c].pc = "done" /\ call'[c].code \in {200, 202}
            <4>1. call'[c] = Ended(call[c], code)
                BY <1>9, <2>2, <3>1
            <4> QED BY <1>4, <3>1, <4>1, EndedCaller
        <3>3. \A i \in Ids : c \notin shared'[i] /\ c \notin inserted'[i]
            <4>1. call[c].pc = "wait"
                BY <2>2 DEF Waits
            <4> QED BY <1>2, <1>6, <4>1, NoLocks DEF dbVars
        <3> QED BY <1>2, <2>1, <3>2, <3>3, EndedLocal
    <2>3. CASE ~Waits(item)
        <3>1. call'[c] = call[c] /\ UNCHANGED dbVars
            BY <1>6, <1>9, <2>3
        <3>2. Holder(c)' /\ Inserter(c)'
            BY <1>4, <3>1 DEF Local, Holder, Inserter, dbVars, Id, Valid
        <3>3. Carrier(c)' /\ Refusal(c)'
            BY <1>4, <3>1 DEF Local, Carrier, CarriesOwn, CarriesReceipt, Refusal, dbVars, Id, Valid
        <3> QED BY <2>1, <3>2, <3>3 DEF Local
    <2> QED BY <2>2, <2>3
<1>12. ASSUME NEW d \in Callers, d # c PROVE Local(d)'
    <2>1. Local(d) /\ call'[d] = call[d] /\ UNCHANGED dbVars
        BY <1>6, <1>9, <1>12 DEF IntakeInv
    <2>2. Success2xx(d)'
        <3>1. CASE Id(d) # id
            BY <1>7, <2>1, <3>1, IdType DEF Local, Success2xx, Id
        <3>2. CASE Id(d) = id
            BY <1>2, <1>4, <1>5, <1>7, <2>1, <3>2, RowIsNotNoRow DEF Local, Success2xx, Id
        <3> QED BY <3>1, <3>2
    <2>3. Holder(d)' /\ Inserter(d)'
        BY <2>1 DEF Local, Holder, Inserter, dbVars, Id, Valid
    <2>4. Carrier(d)' /\ Refusal(d)'
        BY <2>1 DEF Local, Carrier, CarriesOwn, CarriesReceipt, Refusal, dbVars, Id, Valid
    <2> QED BY <2>2, <2>3, <2>4 DEF Local
<1>13. ReceiptInv'
    BY <1>6 DEF IntakeInv, ReceiptInv, dbVars, Id, Valid
<1>14. QueueInv'
    <2>1. /\ Len(queue') = Len(queue) - 1 /\ Len(queue) \in Nat
          /\ \A k \in 1..Len(queue') : queue'[k] = queue[k + 1] /\ k + 1 \in 1..Len(queue)
        BY <1>0, <1>6
    <2> QED BY <1>6, <2>1 DEF IntakeInv, QueueInv, dbVars, Id
<1>15. EngineInv'
    BY <1>3, <1>6, <1>7 DEF IntakeInv, EngineInv, dbVars
<1> QED BY <1>10, <1>11, <1>12, <1>13, <1>14, <1>15 DEF IntakeInv

\* The engine keeps IntakeInv.
LEMMA EngineStep == IntakeInv /\ EngineApply => IntakeInv'
<1> SUFFICES ASSUME IntakeInv, EngineApply PROVE IntakeInv'
    OBVIOUS
<1>1. Head(queue) \in Item
    BY DEF EngineApply, IntakeInv, IntakeType
<1>2. Head(queue).caller \in Callers
    BY <1>1 DEF Item
<1> QED BY <1>1, <1>2, ApplyStep

\* A crash rolls back the open transactions; receipts and journal stay.
LEMMA CrashStep == IntakeInv /\ Crash => IntakeInv'
<1> SUFFICES ASSUME IntakeInv, Crash PROVE IntakeInv'
    OBVIOUS
<1>0. /\ queue' = <<>> /\ UNCHANGED <<receipts, orderOpen, fee, engine, conflicts>>
      /\ inserted' = [i \in Ids |-> {}] /\ shared' = [i \in Ids |-> {}]
    BY DEF Crash
<1>1. ASSUME NEW c \in Callers
      PROVE  /\ call'[c] \in Caller
             /\ \/ call'[c] = call[c] /\ call[c].pc \in {"idle", "done"}
                \/ call'[c].pc = "done" /\ call'[c].code = 503
    <2>0. call[c] \in Caller /\ 503 \in Code
        BY CallerFacts DEF Code
    <2>1. CASE call[c].pc \in {"idle", "done"}
        BY <2>0, <2>1 DEF Crash
    <2>2. CASE call[c].pc \notin {"idle", "done"}
        <3> DEFINE r == Ended(call[c], 503)
        <3>1. call'[c] = r
            BY <2>2 DEF Crash, Ended
        <3>2. r \in Caller /\ r.pc = "done" /\ r.code = 503
            BY <2>0, EndedCaller
        <3> HIDE DEF r
        <3> QED BY <3>1, <3>2
    <2> QED BY <2>1, <2>2
<1>2. IntakeType'
    <2>1. call' \in [Callers -> Caller]
        BY <1>1 DEF Crash
    <2> QED BY <1>0, <2>1 DEF IntakeInv, IntakeType
<1>3. ASSUME NEW c \in Callers PROVE Local(c)'
    <2>0. Local(c) /\ \A i \in Ids : c \notin shared'[i] /\ c \notin inserted'[i]
        BY <1>0 DEF IntakeInv
    <2>1. Holder(c)' /\ Inserter(c)'
        BY <2>0 DEF Holder, Inserter
    <2>2. Carrier(c)'
        BY <1>1 DEF Carrier
    <2>3. Refusal(c)' /\ Success2xx(c)'
        BY <1>0, <1>1, <2>0 DEF Local, Refusal, Success2xx, Id, Valid
    <2> QED BY <2>1, <2>2, <2>3 DEF Local
<1>4. ReceiptInv' /\ EngineInv'
    BY <1>0 DEF IntakeInv, ReceiptInv, EngineInv, Id, Valid
<1>5. QueueInv'
    BY <1>0 DEF QueueInv
<1> QED BY <1>2, <1>3, <1>4, <1>5 DEF IntakeInv

\* The platform closes an order only while nobody holds its row, and a fee it
\* edits is not part of what was accepted.
LEMMA PlatformStep ==
    ASSUME IntakeInv, NEW id \in Ids, PlatformClose(id) \/ PlatformEdit(id)
    PROVE  IntakeInv'
<1>0. /\ UNCHANGED <<receipts, inserted, shared, call, engineVars>> /\ shared[id] = {}
      /\ DOMAIN orderOpen' = Ids /\ fee' \in [Ids -> FeeRates]
      /\ \A i \in Ids : orderOpen'[i] = orderOpen[i] \/ (i = id /\ ~orderOpen'[i])
    BY DEF PlatformClose, PlatformEdit, IntakeInv, IntakeType
<1>1. IntakeType'
    BY <1>0 DEF IntakeInv, IntakeType, engineVars
<1>2. ASSUME NEW c \in Callers PROVE Local(c)'
    <2>0. Local(c) /\ Id(c) \in Ids
        BY IdType DEF IntakeInv
    <2>1. Holder(c)'
        BY <1>0, <2>0 DEF Local, Holder, Id, Valid
    <2>2. Inserter(c)' /\ Carrier(c)'
        BY <1>0, <2>0 DEF Local, Inserter, Carrier, CarriesOwn, CarriesReceipt, Id, Valid
    <2>3. Refusal(c)' /\ Success2xx(c)'
        BY <1>0, <2>0 DEF Local, Refusal, Success2xx, engineVars, Id, Valid
    <2> QED BY <2>1, <2>2, <2>3 DEF Local
<1>3. ReceiptInv' /\ QueueInv' /\ EngineInv'
    BY <1>0 DEF IntakeInv, ReceiptInv, QueueInv, EngineInv, engineVars, Id, Valid
<1> QED BY <1>1, <1>2, <1>3 DEF IntakeInv

\* Base case.
LEMMA IntakeInit == Init => IntakeInv
<1> SUFFICES ASSUME Init PROVE IntakeInv
    OBVIOUS
<1>1. IntakeType
    <2>1. Idle \in Caller
        <3>1. FALSE \in Flag /\ "idle" \in Stage /\ 0 \in Code
            BY DEF Flag, Stage, Code
        <3> QED BY <3>1 DEF Idle, Caller
    <2> QED BY <2>1 DEF Init, IntakeType
<1>2. ASSUME NEW c \in Callers PROVE Local(c)
    <2>1. call[c].pc = "idle" /\ call[c].code = 0
        BY DEF Init, Idle
    <2>2. Holder(c) /\ Inserter(c)
        BY DEF Init, Holder, Inserter
    <2>3. Carrier(c) /\ Refusal(c) /\ Success2xx(c)
        BY <2>1 DEF Carrier, Refusal, Success2xx
    <2> QED BY <2>2, <2>3 DEF Local
<1>3. ReceiptInv
    BY RowIsNotNoRow, IdType DEF Init, ReceiptInv
<1>4. QueueInv /\ EngineInv
    BY DEF Init, QueueInv, EngineInv
<1> QED BY <1>1, <1>2, <1>3, <1>4 DEF IntakeInv

\* Every statement, answer, fault and edit keeps the invariant.
LEMMA IntakeStep == IntakeInv /\ [Next]_vars => IntakeInv'
<1> SUFFICES ASSUME IntakeInv, [Next]_vars PROVE IntakeInv'
    OBVIOUS
<1>1. ASSUME NEW c \in Callers, Begin(c) \/ Step(c) \/ CommitFails(c) \/ StatementFails(c)
      PROVE  IntakeInv'
    <2>1. CASE Begin(c)
        BY <2>1, BeginStep
    <2>2. CASE Statement(c)
        BY <2>2, SelectStep, LockStep, RecheckStep, InsertStep, RereadStep, CommitStep
            DEF Statement
    <2>3. CASE Submit(c)
        BY <2>3, SubmitStep
    <2>4. CASE Timeout(c)
        BY <2>4, UnavailableStep DEF Timeout, Unavailable
    <2>5. CASE CommitFails(c)
        BY <2>5, CommitStep
    <2>6. CASE StatementFails(c)
        <3>1. 503 \in Code \ {200, 202}
            BY DEF Code
        <3> QED BY <2>6, <3>1, AnswerStep DEF StatementFails
    <2> QED BY <1>1, <2>1, <2>2, <2>3, <2>4, <2>5, <2>6 DEF Step
<1>2. CASE EngineApply \/ Crash
    BY <1>2, EngineStep, CrashStep
<1>3. ASSUME NEW id \in Ids, PlatformClose(id) \/ PlatformEdit(id) PROVE IntakeInv'
    BY <1>3, PlatformStep
<1>4. CASE UNCHANGED vars
    <2>1. UNCHANGED <<receipts, inserted, shared, orderOpen, fee, call, queue, engine, conflicts>>
        BY <1>4 DEF vars
    <2>2. IntakeType'
        BY <2>1 DEF IntakeInv, IntakeType
    <2>3. \A c \in Callers : Local(c)'
        BY <2>1, Undisturbed DEF IntakeInv
    <2>4. ReceiptInv' /\ QueueInv' /\ EngineInv'
        BY <2>1 DEF IntakeInv, ReceiptInv, QueueInv, EngineInv, Id, Valid
    <2> QED BY <2>2, <2>3, <2>4 DEF IntakeInv
<1> QED BY <1>1, <1>2, <1>3, <1>4 DEF Next

\* What the invariant says of the properties the runs check.
LEMMA IntakeConclusions ==
    IntakeInv => RefusedNeverAccepted /\ SuccessIsJournaled /\ EngineNeverConflicts
<1> SUFFICES ASSUME IntakeInv
             PROVE  RefusedNeverAccepted /\ SuccessIsJournaled /\ EngineNeverConflicts
    OBVIOUS
<1>1. RefusedNeverAccepted
    <2> SUFFICES ASSUME NEW c \in Callers, call[c].pc = "done", call[c].code = 400,
                        Original[Id(c)] = Request[c]
                 PROVE  receipts[Id(c)] = NoRow /\ engine[Id(c)] = NoRow
        BY DEF RefusedNeverAccepted
    <2>1. receipts[Id(c)] = NoRow
        BY CallerFacts DEF Local, Refusal
    <2> QED BY <2>1, IdType DEF IntakeInv, EngineInv
<1>2. SuccessIsJournaled
    BY CallerFacts, RowIsNotNoRow DEF IntakeInv, EngineInv, Local, Success2xx, SuccessIsJournaled
<1>3. EngineNeverConflicts
    BY DEF IntakeInv, EngineInv, EngineNeverConflicts
<1> QED BY <1>1, <1>2, <1>3

\* A request that states the platform's command and is told that it is invalid
\* can be forgotten: the order has no receipt then or later, although another
\* request for it or the platform may act between any two statements of accept.
THEOREM RefusalIsFinal == Spec => []RefusedNeverAccepted
BY IntakeInit, IntakeStep, IntakeConclusions, PTL DEF Spec

\* 202 and 200 are for the request's command in the journal, and the journal
\* holds only accepted commands with the accepted fee, for any number of
\* competing requests, retries, edits and crashes.
THEOREM AnsweredOrdersAreJournaled == Spec => []SuccessIsJournaled
BY IntakeInit, IntakeStep, IntakeConclusions, PTL DEF Spec

\* The engine never meets one order id with two contents, whoever sends it:
\* winner, loser, retry or a command that outlived its caller.
THEOREM OneContentPerOrder == Spec => []EngineNeverConflicts
BY IntakeInit, IntakeStep, IntakeConclusions, PTL DEF Spec
===============================================================================
